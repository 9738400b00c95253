--------------------------- MODULE KeyFilesProofs ---------------------------
(***************************************************************************)
(* Key files for any number of programs: which of them are sure of their   *)
(* own key, and that none is left behind.                                  *)
(***************************************************************************)
EXTENDS KeyFiles, TLAPS

Made(p) == keyBits[p] \in {2048, 4096}
Unlinking == {p \in Procs : pc[p] = "cleanup_unlink"}

\* The files are accounted for: when all that run are at the rm of their cleanup,
\* every file there is is on somebody's list.
ListedInv ==
  faulty = {} => /\ Running = {} => ~dir
                 /\ Running \subseteq Unlinking =>
                      \A f \in Present : \E q \in Running : f \in listed[q]

\* What a program that is alone has and finds, step by step.
Stage(p) ==
  /\ pc[p] = "unlink" => Present \subseteq listed[p]
  /\ pc[p] = "mkdir" => Present = {}
  /\ pc[p] \in {"keygen", "private"} => dir /\ Present = {}
  /\ pc[p] = "public" => dir /\ files["rsa_key"] = p
  /\ pc[p] \in {"until_key", "cp", "redirect", "export"} =>
       dir /\ files["rsa_key"] = p /\ files["rsa_key.pub"] = p
  /\ pc[p] \in {"redirect", "export", "until_public", "rm_key", "rm_pub"} =>
       files["rsa_private.pem"] = p
  /\ pc[p] = "export" => p \in open
  /\ pc[p] \in {"until_public", "rm_key", "rm_pub"} => files["rsa_public.pem"] = p
  /\ pc[p] \in Generating => Made(p)
  /\ pc[p] = "read_n" =>
       IF Made(p) THEN files["rsa_public.pem"] = p /\ files["rsa_private.pem"] = p
       ELSE faulty # {} \/ Present = {}
  /\ pc[p] = "read_d" =>
       IF Made(p) THEN rsa_n[p] = p /\ files["rsa_private.pem"] = p
       ELSE faulty # {} \/ (rsa_n[p] = None /\ Present = {})
  /\ pc[p] \in Cleaning \cup {"idle"} =>
       IF Made(p) THEN rsa_n[p] = p /\ rsa_d[p] = p
       ELSE faulty # {} \/ (rsa_n[p] = None /\ rsa_d[p] = None)

Alone(p) == p \notin overlapped /\ p \notin faulty

AloneInv == \A p \in Procs : Alone(p) => /\ p \in Running => Running = {p}
                                         /\ Stage(p)

\* What the actions of program q have in common.
Frame(q) ==
  /\ keyBits' = keyBits /\ overlapped \subseteq overlapped' /\ faulty \subseteq faulty'
  /\ \A p \in Procs \ {q} : /\ pc'[p] = pc[p] /\ rsa_n'[p] = rsa_n[p]
                            /\ rsa_d'[p] = rsa_d[p] /\ listed'[p] = listed[p]
  /\ q \in Running \/ (pc[q] = "off" /\ (Running # {} => Running \cup {q} \subseteq overlapped'))

\* All actions of a program, by name.
Step(q) ==
  \/ Start(q) \/ List(q, "rm", "unlink") \/ UnlinkListed(q, "unlink")
  \/ Rmdir(q, "unlink", "mkdir") \/ Mkdir(q) \/ Keygen(q)
  \/ Write(q, "private", "rsa_key", "public")
  \/ Write(q, "public", "rsa_key.pub", "until_key")
  \/ Until(q, "until_key", "rsa_key", "cp") \/ Copy(q) \/ Redirect(q) \/ Export(q)
  \/ Until(q, "until_public", "rsa_public.pem", "rm_key")
  \/ RmKey(q, "rm_key", "rsa_key", "rm_pub")
  \/ RmKey(q, "rm_pub", "rsa_key.pub", "read_n")
  \/ ReadN(q) \/ ReadD(q)
  \/ List(q, "cleanup", "cleanup_unlink") \/ UnlinkListed(q, "cleanup_unlink")
  \/ Rmdir(q, "cleanup_unlink", "idle")
  \/ Interrupt(q) \/ Kill(q)

LEMMA Steps == ASSUME [Next]_vars PROVE (\E q \in Procs : Step(q)) \/ UNCHANGED vars
  BY DEF Next, Constructor, generate_keys, cleanup_keys, Step

LEMMA Frames == ASSUME TypeOK, NEW q \in Procs, Step(q) PROVE Frame(q)
  <1> USE DEF Frame, disk, members, history, Go
  <1>0. pc = [p \in Procs |-> pc[p]] /\ listed = [p \in Procs |-> listed[p]]
        /\ rsa_n = [p \in Procs |-> rsa_n[p]] /\ rsa_d = [p \in Procs |-> rsa_d[p]]
    BY DEF TypeOK
  <1>1. CASE Start(q)
    BY <1>0, <1>1 DEF Start
  <1>2. CASE List(q, "rm", "unlink") \/ List(q, "cleanup", "cleanup_unlink")
    BY <1>0, <1>2 DEF List, Running
  <1>3. CASE UnlinkListed(q, "unlink") \/ UnlinkListed(q, "cleanup_unlink")
    BY <1>0, <1>3 DEF UnlinkListed, Running
  <1>4. CASE Rmdir(q, "unlink", "mkdir") \/ Rmdir(q, "cleanup_unlink", "idle")
    BY <1>0, <1>4 DEF Rmdir, Running
  <1>5. CASE Mkdir(q) \/ Keygen(q) \/ Copy(q)
    BY <1>0, <1>5 DEF Mkdir, Keygen, Copy, Running
  <1>6. CASE Write(q, "private", "rsa_key", "public")
             \/ Write(q, "public", "rsa_key.pub", "until_key")
    BY <1>0, <1>6 DEF Write, Running
  <1>7. CASE Until(q, "until_key", "rsa_key", "cp")
             \/ Until(q, "until_public", "rsa_public.pem", "rm_key")
    BY <1>0, <1>7 DEF Until, Running
  <1>8. CASE Redirect(q) \/ Export(q)
    BY <1>0, <1>8 DEF Redirect, Export, Running
  <1>9. CASE RmKey(q, "rm_key", "rsa_key", "rm_pub")
             \/ RmKey(q, "rm_pub", "rsa_key.pub", "read_n")
    BY <1>0, <1>9 DEF RmKey, Running
  <1>10. CASE ReadN(q) \/ ReadD(q)
    BY <1>0, <1>10 DEF ReadN, ReadD, Running
  <1>11. CASE Interrupt(q)
    BY <1>0, <1>11 DEF Interrupt, Running, Generating, Cleaning
  <1>12. CASE Kill(q)
    BY <1>0, <1>12 DEF Kill
  <1> QED
    BY <1>1, <1>2, <1>3, <1>4, <1>5, <1>6, <1>7, <1>8, <1>9, <1>10, <1>11, <1>12 DEF Step
-----------------------------------------------------------------------------
(* Types *)

LEMMA TypeStep == TypeOK /\ [Next]_vars => TypeOK'
  <1> SUFFICES ASSUME TypeOK, [Next]_vars PROVE TypeOK'
    OBVIOUS
  <1>u. CASE UNCHANGED vars
    BY <1>u DEF vars, disk, members, history, TypeOK, Present
  <1>s. ASSUME NEW q \in Procs, Step(q) PROVE TypeOK'
    <2> USE DEF TypeOK, disk, members, history, Go, Put, Present, File, Generating, Cleaning
    <2>1. CASE Start(q)
      BY <2>1, KeyFilesAssumption DEF Start, Running
    <2>2. CASE List(q, "rm", "unlink") \/ List(q, "cleanup", "cleanup_unlink")
      BY <2>2 DEF List
    <2>3. CASE UnlinkListed(q, "unlink") \/ UnlinkListed(q, "cleanup_unlink")
      BY <2>3, KeyFilesAssumption DEF UnlinkListed, Unlink
    <2>4. CASE Rmdir(q, "unlink", "mkdir") \/ Rmdir(q, "cleanup_unlink", "idle")
      <3>1. dir' = (dir /\ Present # {}) /\ UNCHANGED <<keyBits, files, open, listed, members,
                                                       history>>
        BY <2>4 DEF Rmdir
      <3>2. dir' \in BOOLEAN /\ (dir' \/ Present' = {})
        BY <3>1
      <3>3. pc' \in [Procs -> Generating \cup Cleaning
                               \cup {"off", "read_n", "read_d", "idle", "dead"}]
        BY <2>4 DEF Rmdir
      <3>4. \A p \in Procs : listed'[p] # {} => pc'[p] \in {"unlink", "cleanup_unlink"}
        BY <2>4 DEF Rmdir
      <3>5. \A p \in Procs : p \in open' => pc'[p] = "export"
        BY <2>4 DEF Rmdir
      <3> HIDE DEF Generating, Cleaning, Go, Put
      <3> QED
        BY <3>1, <3>2, <3>3, <3>4, <3>5
    <2>5a. CASE Mkdir(q)
      BY <2>5a DEF Mkdir
    <2>5b. CASE Keygen(q)
      <3>1. UNCHANGED <<keyBits, dir, files, open, listed, rsa_n, rsa_d, overlapped, faulty>>
            /\ pc[q] = "keygen"
        BY <2>5b DEF Keygen
      <3>2. pc' = [pc EXCEPT ![q] = "private"] \/ pc' = [pc EXCEPT ![q] = "until_key"]
        BY <2>5b DEF Keygen
      <3> QED
        BY <3>1, <3>2
    <2>6. CASE Write(q, "private", "rsa_key", "public")
               \/ Write(q, "public", "rsa_key.pub", "until_key")
      BY <2>6, KeyFilesAssumption DEF Write
    <2>7. CASE Until(q, "until_key", "rsa_key", "cp")
               \/ Until(q, "until_public", "rsa_public.pem", "rm_key")
      BY <2>7 DEF Until
    <2>8. CASE Copy(q)
      BY <2>8 DEF Copy
    <2>9. CASE Redirect(q)
      BY <2>9 DEF Redirect
    <2>10. CASE Export(q)
      BY <2>10 DEF Export
    <2>11. CASE RmKey(q, "rm_key", "rsa_key", "rm_pub")
                \/ RmKey(q, "rm_pub", "rsa_key.pub", "read_n")
      BY <2>11, KeyFilesAssumption DEF RmKey
    <2>12. CASE ReadN(q) \/ ReadD(q)
      BY <2>12, KeyFilesAssumption DEF ReadN, ReadD, Held
    <2>13. CASE Interrupt(q) \/ Kill(q)
      BY <2>13 DEF Interrupt, Kill, Running
    <2> QED
      BY <1>s, <2>1, <2>2, <2>3, <2>4, <2>5a, <2>5b, <2>6, <2>7, <2>8, <2>9, <2>10, <2>11,
         <2>12, <2>13 DEF Step
  <1> QED
    BY <1>u, <1>s, Steps
-----------------------------------------------------------------------------
(* What is left *)

LEMMA ListedStep == TypeOK /\ ListedInv /\ [Next]_vars => ListedInv'
  <1> SUFFICES ASSUME TypeOK, ListedInv, [Next]_vars, faulty' = {}
               PROVE  /\ Running' = {} => ~dir'
                      /\ Running' \subseteq Unlinking' =>
                           \A f \in Present' : \E q \in Running' : f \in listed'[q]
    BY DEF ListedInv
  <1>u. CASE UNCHANGED vars
    BY <1>u DEF vars, disk, members, history, ListedInv, Running, Unlinking, Present
  <1>s. ASSUME NEW q \in Procs, Step(q)
        PROVE  /\ Running' = {} => ~dir'
               /\ Running' \subseteq Unlinking' =>
                    \A f \in Present' : \E p \in Running' : f \in listed'[p]
    <2>0. faulty = {} /\ pc = [p \in Procs |-> pc[p]] /\ (Running = {} => ~dir)
      <3>1. faulty = {}
        BY <1>s, Frames DEF Frame
      <3>2. pc = [p \in Procs |-> pc[p]]
        BY DEF TypeOK
      <3> QED
        BY <3>1, <3>2 DEF ListedInv
    \* After all steps but those of a cleanup's rm, q runs and is not unlinking.
    <2>1. ASSUME pc'[q] \notin {"off", "idle", "dead", "cleanup_unlink"}
          PROVE  q \in Running' /\ q \notin Unlinking'
      BY <2>1 DEF Running, Unlinking
    <2>2. CASE pc'[q] \notin {"off", "idle", "dead", "cleanup_unlink"}
      BY <2>1, <2>2
    <2>3. CASE List(q, "cleanup", "cleanup_unlink")
      <3>1. pc'[q] = "cleanup_unlink" /\ listed'[q] = Present /\ Present' = Present
        BY <2>3 DEF List, Go, disk, Present, TypeOK
      <3>2. q \in Running'
        BY <3>1 DEF Running
      <3> QED
        BY <3>1, <3>2
    <2>4. CASE UnlinkListed(q, "cleanup_unlink")
      <3>1. PICK g \in listed[q] : Unlink(g) /\ listed' = [listed EXCEPT ![q] = @ \ {g}]
        BY <2>4 DEF UnlinkListed
      <3>2. pc' = pc /\ dir' = dir /\ pc[q] = "cleanup_unlink"
        BY <2>4 DEF UnlinkListed
      <3>3. Running' = Running /\ Unlinking' = Unlinking /\ q \in Running
        BY <3>2 DEF Running, Unlinking
      <3>4. Present' = Present \ {g}
        BY <3>1 DEF Unlink, Put, Present, TypeOK
      <3>5. \A p \in Procs : \A f \in File : f \in listed[p] /\ f # g => f \in listed'[p]
        BY <3>1 DEF TypeOK
      <3> QED
        <4> SUFFICES ASSUME Running \subseteq Unlinking, NEW f \in Present \ {g}
                     PROVE \E p \in Running : f \in listed'[p]
          BY <3>3, <3>4
        <4>1. PICK p \in Running : f \in listed[p]
          BY <2>0 DEF ListedInv
        <4> QED
          BY <3>5, <4>1 DEF Running, Present
    <2>5. CASE Rmdir(q, "cleanup_unlink", "idle")
      <3>1. /\ listed[q] = {} /\ dir' = (dir /\ Present # {}) /\ listed' = listed
            /\ Present' = Present /\ pc[q] = "cleanup_unlink"
        BY <2>5 DEF Rmdir, Go, Present
      <3>2. Running' = Running \ {q} /\ Unlinking' = Unlinking \ {q} /\ q \in Unlinking
            /\ q \in Running
        BY <2>0, <2>5 DEF Rmdir, Go, Running, Unlinking
      <3>3. ASSUME Running' \subseteq Unlinking', NEW f \in Present
            PROVE  \E p \in Running' : f \in listed[p]
        <4>1. Running \subseteq Unlinking
          BY <3>2, <3>3
        <4>2. PICK p \in Running : f \in listed[p]
          BY <2>0, <3>3, <4>1 DEF ListedInv
        <4> QED
          BY <3>1, <3>2, <4>2
      <3>4. ASSUME Running' = {} PROVE Present = {}
        BY <3>3, <3>4
      <3> QED
        BY <3>1, <3>3, <3>4
    <2>6. CASE Interrupt(q) \/ Kill(q)
      BY <2>6 DEF Interrupt, Kill
    <2>7. CASE Start(q) \/ Mkdir(q) \/ Keygen(q) \/ Copy(q) \/ Redirect(q) \/ Export(q)
               \/ ReadN(q) \/ ReadD(q)
      <3>1. pc'[q] \notin {"off", "idle", "dead", "cleanup_unlink"}
        BY <2>0, <2>7 DEF Start, Mkdir, Keygen, Copy, Redirect, Export, ReadN, ReadD, Go
      <3> QED
        BY <2>2, <3>1
    <2>8. CASE \/ List(q, "rm", "unlink") \/ UnlinkListed(q, "unlink")
               \/ Rmdir(q, "unlink", "mkdir")
      <3>1. pc'[q] \notin {"off", "idle", "dead", "cleanup_unlink"}
        BY <2>0, <2>8 DEF List, UnlinkListed, Rmdir, Go
      <3> QED
        BY <2>2, <3>1
    <2>9. CASE \/ Write(q, "private", "rsa_key", "public")
               \/ Write(q, "public", "rsa_key.pub", "until_key")
               \/ Until(q, "until_key", "rsa_key", "cp")
               \/ Until(q, "until_public", "rsa_public.pem", "rm_key")
               \/ RmKey(q, "rm_key", "rsa_key", "rm_pub")
               \/ RmKey(q, "rm_pub", "rsa_key.pub", "read_n")
      <3>1. pc'[q] \notin {"off", "idle", "dead", "cleanup_unlink"}
        BY <2>0, <2>9 DEF Write, Until, RmKey, Go
      <3> QED
        BY <2>2, <3>1
    <2> QED
      BY <1>s, <2>3, <2>4, <2>5, <2>6, <2>7, <2>8, <2>9 DEF Step
  <1> QED
    BY <1>u, <1>s, Steps
-----------------------------------------------------------------------------
(* Programs that are alone *)

\* Whoever is not the one that steps: it is not running, or was found not alone.
LEMMA Others ==
  ASSUME TypeOK, AloneInv, NEW q \in Procs, Frame(q), NEW p \in Procs \ {q}, Alone(p)'
  PROVE  (p \in Running' => Running' = {p}) /\ Stage(p)'
  <1>1. Alone(p)
    BY DEF Alone, Frame
  <1>2. pc'[p] = pc[p] /\ rsa_n'[p] = rsa_n[p] /\ rsa_d'[p] = rsa_d[p] /\ keyBits' = keyBits
    BY DEF Frame
  <1>3. p \notin Running
    BY <1>1 DEF Frame, AloneInv, Alone
  <1>4. p \notin Running' /\ pc[p] \in {"off", "idle", "dead"}
    BY <1>2, <1>3 DEF Running
  <1>5. faulty # {} => faulty' # {}
    BY DEF Frame
  <1>6. Made(p)' <=> Made(p)
    BY <1>2 DEF Made
  <1>7. Stage(p)
    BY <1>1 DEF AloneInv
  <1>8. pc'[p] \in {"off", "idle", "dead"}
    BY <1>2, <1>4
  <1>9. CASE pc[p] = "idle"
    <2>1. IF Made(p) THEN rsa_n[p] = p /\ rsa_d[p] = p
          ELSE faulty # {} \/ (rsa_n[p] = None /\ rsa_d[p] = None)
      BY <1>7, <1>9 DEF Stage
    <2>2. IF Made(p)' THEN rsa_n'[p] = p /\ rsa_d'[p] = p
          ELSE faulty' # {} \/ (rsa_n'[p] = None /\ rsa_d'[p] = None)
      BY <1>2, <1>5, <1>6, <2>1
    <2> QED
      BY <1>2, <1>4, <1>9, <2>2 DEF Stage, Generating, Cleaning
  <1>10. CASE pc[p] # "idle"
    BY <1>2, <1>4, <1>10 DEF Stage, Generating, Cleaning
  <1> QED
    BY <1>4, <1>9, <1>10

\* The one that steps, and is alone afterwards.
LEMMA Own ==
  ASSUME TypeOK, ListedInv, AloneInv, NEW q \in Procs, Step(q), Alone(q)'
  PROVE  (q \in Running' => Running' = {q}) /\ Stage(q)'
  <1>0. Alone(q) /\ Frame(q)
    BY Frames DEF Frame, Alone
  <1>1. pc = [p \in Procs |-> pc[p]] /\ files = [f \in File |-> files[f]]
        /\ listed = [p \in Procs |-> listed[p]]
        /\ rsa_n = [p \in Procs |-> rsa_n[p]] /\ rsa_d = [p \in Procs |-> rsa_d[p]]
    BY DEF TypeOK
  <1>2. Stage(q) /\ (q \in Running => Running = {q})
    BY <1>0 DEF AloneInv
  <1>3. q \in Running' => Running' = {q}
    <2>1. Running = {} \/ Running = {q}
      <3>1. CASE q \in Running
        BY <1>2, <3>1
      <3>2. CASE q \notin Running
        BY <1>0, <3>2 DEF Frame, Alone
      <3> QED
        BY <3>1, <3>2
    <2> QED
      BY <1>0, <2>1 DEF Frame, Running
  <1>4. q \notin {None, Empty}
    BY KeyFilesAssumption
  <1>5. Made(q)' <=> Made(q)
    BY <1>0 DEF Made, Frame
  <1>6. Stage(q)'
    <2> USE DEF Stage, disk, members, history, Go, Put, Generating, Cleaning
    <2>1. CASE Start(q)
      <3>1. faulty' = faulty /\ files' = files /\ pc[q] = "off"
            /\ pc'[q] = IF Made(q) THEN "rm" ELSE "read_n"
        BY <1>1, <2>1 DEF Start, Made
      <3>2. Running = {}
        BY <2>1, <3>1 DEF Start, Alone
      <3>3. faulty = {} => Present' = {}
        BY <3>1, <3>2 DEF ListedInv, TypeOK, Present
      <3> QED
        BY <1>5, <3>1, <3>3
    <2>2. CASE List(q, "rm", "unlink")
      BY <1>1, <1>2, <1>5, <2>2 DEF List, Present
    <2>3. CASE List(q, "cleanup", "cleanup_unlink")
      BY <1>1, <1>2, <1>5, <2>3 DEF List
    <2>4. CASE UnlinkListed(q, "unlink")
      <3>1. PICK g \in listed[q] : Unlink(g) /\ listed' = [listed EXCEPT ![q] = @ \ {g}]
        BY <2>4 DEF UnlinkListed
      <3>2. Present' = Present \ {g} /\ listed'[q] = listed[q] \ {g}
        BY <1>1, <3>1 DEF Unlink, Present
      <3>3. pc' = pc /\ pc[q] = "unlink"
        BY <2>4 DEF UnlinkListed
      <3> QED
        BY <1>2, <1>5, <3>2, <3>3
    <2>5. CASE UnlinkListed(q, "cleanup_unlink")
      <3>1. pc' = pc /\ pc[q] = "cleanup_unlink" /\ UNCHANGED <<rsa_n, rsa_d, faulty>>
        BY <2>5 DEF UnlinkListed
      <3> QED
        BY <1>2, <1>5, <3>1
    <2>6. CASE Rmdir(q, "unlink", "mkdir")
      BY <1>1, <1>2, <1>5, <2>6 DEF Rmdir, Present
    <2>7. CASE Rmdir(q, "cleanup_unlink", "idle")
      BY <1>1, <1>2, <1>5, <2>7 DEF Rmdir
    <2>8. CASE Mkdir(q)
      BY <1>1, <1>2, <1>5, <2>8 DEF Mkdir, Present
    <2>9. CASE Keygen(q)
      <3>1. files["rsa_key"] = None /\ dir /\ Present = {} /\ pc[q] = "keygen" /\ Made(q)
        BY <1>2, <2>9 DEF Keygen, Present, File
      <3>2. pc'[q] = "private" /\ UNCHANGED <<files, dir>>
        BY <1>1, <2>9, <3>1 DEF Keygen
      <3>3. Present' = {}
        BY <3>1, <3>2 DEF Present
      <3> QED
        BY <1>5, <3>1, <3>2, <3>3
    <2>10. CASE Write(q, "private", "rsa_key", "public")
      <3>1. dir /\ pc'[q] = "public" /\ dir' = dir /\ files'["rsa_key"] = q /\ Made(q)
        BY <1>1, <1>2, <2>10 DEF Write, File
      <3> QED
        BY <1>5, <3>1
    <2>11. CASE Write(q, "public", "rsa_key.pub", "until_key")
      <3>1. dir /\ pc'[q] = "until_key" /\ dir' = dir /\ Made(q)
        BY <1>1, <1>2, <2>11 DEF Write
      <3>2. files'["rsa_key"] = q /\ files'["rsa_key.pub"] = q
        BY <1>1, <1>2, <2>11 DEF Write, File
      <3> QED
        BY <1>5, <3>1, <3>2
    <2>12. CASE Until(q, "until_key", "rsa_key", "cp")
      BY <1>1, <1>2, <1>5, <2>12 DEF Until
    <2>13. CASE Copy(q)
      <3>1. dir /\ files["rsa_key"] = q /\ files["rsa_key.pub"] = q /\ Made(q)
        BY <1>2, <2>13 DEF Copy
      <3>2. pc'[q] = "redirect" /\ dir' = dir
        BY <1>1, <2>13 DEF Copy
      <3>3. files' = [files EXCEPT !["rsa_private.pem"] = q]
        BY <1>4, <2>13, <3>1 DEF Copy
      <3>4. /\ files'["rsa_key"] = q /\ files'["rsa_key.pub"] = q
            /\ files'["rsa_private.pem"] = q
        BY <1>1, <3>1, <3>3 DEF File
      <3> QED
        BY <1>5, <3>1, <3>2, <3>4
    <2>14. CASE Redirect(q)
      <3>1. dir /\ files["rsa_key"] = q /\ files["rsa_key.pub"] = q /\ Made(q)
            /\ files["rsa_private.pem"] = q
        BY <1>2, <2>14 DEF Redirect
      <3>2. pc'[q] = "export" /\ dir' = dir /\ q \in open'
        BY <1>1, <2>14, <3>1 DEF Redirect
      <3>3. files' = [files EXCEPT !["rsa_public.pem"] = Empty]
        BY <2>14, <3>1 DEF Redirect
      <3>4. /\ files'["rsa_key"] = q /\ files'["rsa_key.pub"] = q
            /\ files'["rsa_private.pem"] = q
        BY <1>1, <3>1, <3>3 DEF File
      <3> QED
        BY <1>5, <3>1, <3>2, <3>4
    <2>15. CASE Export(q)
      <3>1. files["rsa_key"] = q /\ files["rsa_key.pub"] = q /\ Made(q) /\ q \in open
            /\ files["rsa_private.pem"] = q
        BY <1>2, <2>15 DEF Export
      <3>2. {"rsa_key", "rsa_key.pub"} \subseteq Present
        BY <1>4, <3>1 DEF Present, File
      <3>3. PICK f \in {"rsa_key", "rsa_key.pub"} :
              files' = [files EXCEPT !["rsa_public.pem"] = files[f]]
        BY <2>15, <3>1, <3>2 DEF Export
      <3>4. files'["rsa_public.pem"] = q /\ files'["rsa_private.pem"] = q
        BY <1>1, <3>1, <3>3 DEF File
      <3>5. pc'[q] = "until_public"
        BY <1>1, <2>15 DEF Export
      <3> QED
        BY <1>5, <3>1, <3>4, <3>5
    <2>16. CASE Until(q, "until_public", "rsa_public.pem", "rm_key")
      BY <1>1, <1>2, <1>5, <2>16 DEF Until
    <2>17. CASE RmKey(q, "rm_key", "rsa_key", "rm_pub")
      <3>1. pc'[q] = "rm_pub" /\ Made(q) /\ files["rsa_private.pem"] = q
            /\ files["rsa_public.pem"] = q
        BY <1>1, <1>2, <2>17 DEF RmKey
      <3>2. files'["rsa_private.pem"] = q /\ files'["rsa_public.pem"] = q
        BY <1>1, <2>17, <3>1 DEF RmKey, File
      <3> QED
        BY <1>5, <3>1, <3>2
    <2>18. CASE RmKey(q, "rm_pub", "rsa_key.pub", "read_n")
      <3>1. pc'[q] = "read_n" /\ Made(q) /\ files["rsa_private.pem"] = q
            /\ files["rsa_public.pem"] = q
        BY <1>1, <1>2, <2>18 DEF RmKey
      <3>2. files'["rsa_private.pem"] = q /\ files'["rsa_public.pem"] = q
        BY <1>1, <2>18, <3>1 DEF RmKey, File
      <3> QED
        BY <1>5, <3>1, <3>2
    <2>19. CASE ReadN(q)
      <3>1. pc'[q] = "read_d" /\ UNCHANGED <<files, faulty>>
            /\ rsa_n'[q] = Held("rsa_public.pem")
        BY <1>1, <2>19 DEF ReadN
      <3>2. Made(q) => Held("rsa_public.pem") = q /\ files["rsa_private.pem"] = q
        BY <1>2, <1>4, <2>19 DEF ReadN, Held
      <3>3. ~Made(q) => faulty # {} \/ (Held("rsa_public.pem") = None /\ Present = {})
        BY <1>2, <1>4, <2>19, KeyFilesAssumption DEF ReadN, Held, Present, File
      <3> QED
        BY <1>5, <3>1, <3>2, <3>3 DEF Present
    <2>20. CASE ReadD(q)
      <3>1. pc'[q] = "cleanup" /\ UNCHANGED <<files, faulty, rsa_n>>
            /\ rsa_d'[q] = Held("rsa_private.pem")
        BY <1>1, <2>20 DEF ReadD
      <3>2. Made(q) => Held("rsa_private.pem") = q /\ rsa_n[q] = q
        BY <1>2, <1>4, <2>20 DEF ReadD, Held
      <3>3. ~Made(q) => faulty # {} \/ (Held("rsa_private.pem") = None /\ rsa_n[q] = None)
        BY <1>2, <1>4, <2>20, KeyFilesAssumption DEF ReadD, Held, Present, File
      <3> QED
        BY <1>5, <3>1, <3>2, <3>3
    <2>21. CASE Interrupt(q) \/ Kill(q)
      BY <2>21 DEF Interrupt, Kill, Alone
    <2> QED
      BY <2>1, <2>2, <2>3, <2>4, <2>5, <2>6, <2>7, <2>8, <2>9, <2>10, <2>11, <2>12, <2>13,
         <2>14, <2>15, <2>16, <2>17, <2>18, <2>19, <2>20, <2>21 DEF Step
  <1> QED
    BY <1>3, <1>6

LEMMA AloneStep == TypeOK /\ ListedInv /\ AloneInv /\ [Next]_vars => AloneInv'
  <1> SUFFICES ASSUME TypeOK, ListedInv, AloneInv, [Next]_vars, NEW p \in Procs, Alone(p)'
               PROVE  (p \in Running' => Running' = {p}) /\ Stage(p)'
    BY DEF AloneInv
  <1>u. CASE UNCHANGED vars
    BY <1>u DEF vars, disk, members, history, AloneInv, Alone, Running, Stage, Made, Present
  <1>s. ASSUME NEW q \in Procs, Step(q)
        PROVE  (p \in Running' => Running' = {p}) /\ Stage(p)'
    <2>1. CASE p = q
      BY <1>s, <2>1, Own
    <2>2. CASE p # q
      BY <1>s, <2>2, Frames, Others
    <2> QED
      BY <2>1, <2>2
  <1> QED
    BY <1>u, <1>s, Steps
-----------------------------------------------------------------------------
LEMMA Initially == Init => TypeOK /\ ListedInv /\ AloneInv
  <1> SUFFICES ASSUME Init PROVE TypeOK /\ ListedInv /\ AloneInv
    OBVIOUS
  <1>1. TypeOK
    <2>1. Present = {} /\ dir \in BOOLEAN
      BY DEF Init, Present
    <2>2. files \in [File -> Procs \cup {None, Empty}]
          /\ \A f \in File : files[f] = Empty => f = "rsa_public.pem"
      BY KeyFilesAssumption DEF Init
    <2>3. /\ keyBits \in [Procs -> Bits]
          /\ pc \in [Procs -> Generating \cup Cleaning
                               \cup {"off", "read_n", "read_d", "idle", "dead"}]
      BY DEF Init
    <2>4. /\ listed \in [Procs -> SUBSET File] /\ \A p \in Procs : listed[p] = {}
          /\ rsa_n \in [Procs -> Procs \cup {None}] /\ rsa_d \in [Procs -> Procs \cup {None}]
          /\ open = {} /\ overlapped = {} /\ faulty = {}
      BY DEF Init
    <2> QED
      BY <2>1, <2>2, <2>3, <2>4 DEF TypeOK
  <1>2. ListedInv
    BY DEF Init, ListedInv, Present
  <1>3. AloneInv
    BY DEF Init, AloneInv, Running, Stage, Generating, Cleaning
  <1> QED
    BY <1>1, <1>2, <1>3

LEMMA Always == Spec => [](TypeOK /\ ListedInv /\ AloneInv)
  BY Initially, TypeStep, ListedStep, AloneStep, PTL DEF Spec

\* However many programs overlap in one directory, and in whatever way: when they
\* are through, and none was interrupted or killed, no key is on the disk.
THEOREM NoKeyLeft == Spec => []NothingLeft
  <1>1. TypeOK /\ ListedInv => NothingLeft
    BY DEF TypeOK, ListedInv, NothingLeft
  <1> QED
    BY Always, <1>1, PTL

\* Of any number of programs, one that was alone has both halves of its own key,
\* whatever earlier ones that were killed have left.
THEOREM AloneIsSafe == Spec => []OwnPair
  <1>1. AloneInv => OwnPair
    <2> SUFFICES ASSUME AloneInv, NEW p \in Procs \ (overlapped \cup faulty),
                        pc[p] \in Cleaning \cup {"idle"}
                 PROVE  IF keyBits[p] \in {2048, 4096} THEN rsa_n[p] = p /\ rsa_d[p] = p
                        ELSE {rsa_n[p], rsa_d[p]} = {None} \/ faulty # {}
      BY DEF OwnPair
    <2>1. Stage(p)
      BY DEF AloneInv, Alone
    <2> QED
      BY <2>1 DEF Stage, Made
  <1> QED
    BY Always, <1>1, PTL
=============================================================================
