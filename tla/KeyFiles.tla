------------------------------ MODULE KeyFiles ------------------------------
(***************************************************************************)
(* Programs started in one directory, each constructing an RSA object:     *)
(* RSA::rsa_keys_generate runs generate_keys.sh, reads the two files and   *)
(* runs cleanup_keys.sh.  A step is a command of a script, or one of the   *)
(* things that ssh-keygen and rm do one after the other.                   *)
(*                                                                         *)
(* While system() runs a script, Ctrl-C ends the script and not the        *)
(* program; the program can also be killed with its script.                *)
(***************************************************************************)
EXTENDS FiniteSets

CONSTANTS Procs,
          Bits,    \* values of keyBits
          None,    \* no file, no key
          Empty    \* a file without a key

ASSUME KeyFilesAssumption == None # Empty /\ {None, Empty} \cap Procs = {}

VARIABLES keyBits,      \* of each program
          pc,           \* the next step of each: "off", "idle" afterwards, "dead"
          dir,          \* keys/ exists
          files,        \* what is in it: whose key
          listed,       \* what each program's rm has yet to unlink
          open,         \* programs whose ssh-keygen -e writes to the rsa_public.pem
                        \* that is in keys/, and not to one removed since
          rsa_n, rsa_d, \* members: whose key, or None
          overlapped,   \* history: programs that were not alone in the directory
          faulty        \* history: programs that were interrupted or killed

disk == <<dir, files, open>>
members == <<rsa_n, rsa_d>>
history == <<overlapped, faulty>>
vars == <<keyBits, pc, disk, listed, members, history>>

File == {"rsa_key", "rsa_key.pub", "rsa_private.pem", "rsa_public.pem"}
Generating == {"rm", "unlink", "mkdir", "keygen", "private", "public", "until_key",
               "cp", "redirect", "export", "until_public", "rm_key", "rm_pub"}
Cleaning == {"cleanup", "cleanup_unlink"}
Running == {p \in Procs : pc[p] \notin {"off", "idle", "dead"}}
Present == {f \in File : files[f] # None}

TypeOK == /\ keyBits \in [Procs -> Bits]
          /\ pc \in [Procs -> Generating \cup Cleaning
                               \cup {"off", "read_n", "read_d", "idle", "dead"}]
          /\ dir \in BOOLEAN /\ files \in [File -> Procs \cup {None, Empty}]
          /\ dir \/ Present = {}
          /\ \A f \in File : files[f] = Empty => f = "rsa_public.pem"
          /\ listed \in [Procs -> SUBSET File]
          /\ \A p \in Procs : listed[p] # {} => pc[p] \in {"unlink", "cleanup_unlink"}
          /\ open \subseteq {p \in Procs : pc[p] = "export"}
          /\ rsa_n \in [Procs -> Procs \cup {None}]
          /\ rsa_d \in [Procs -> Procs \cup {None}]
          /\ overlapped \subseteq Procs /\ faulty \subseteq Procs

Init == /\ keyBits \in [Procs -> Bits] /\ pc = [p \in Procs |-> "off"]
        /\ dir = FALSE /\ files = [f \in File |-> None] /\ open = {}
        /\ listed = [p \in Procs |-> {}]
        /\ rsa_n = [p \in Procs |-> None] /\ rsa_d = [p \in Procs |-> None]
        /\ overlapped = {} /\ faulty = {}

Go(p, from, to) == pc[p] = from /\ pc' = [pc EXCEPT ![p] = to]
Put(f, c) == files' = [files EXCEPT ![f] = c]
Unlink(f) == /\ Put(f, None)
             /\ open' = IF f = "rsa_public.pem" THEN {} ELSE open
-----------------------------------------------------------------------------
(* The scripts *)

\* The constructor: the script does nothing for other sizes.
Start(p) ==
  /\ Go(p, "off", IF keyBits[p] \in {2048, 4096} THEN "rm" ELSE "read_n")
  /\ overlapped' = overlapped \cup (IF Running = {} THEN {} ELSE Running \cup {p})
  /\ UNCHANGED <<keyBits, disk, listed, members, faulty>>

\* Mutant: it finds nothing.
ListNothing(p, from, to) ==
  Go(p, from, to) /\ UNCHANGED <<keyBits, disk, listed, members, history>>

\* rm -rf keys: it lists what there is,
List(p, from, to) ==
  /\ Go(p, from, to)
  /\ listed' = [listed EXCEPT ![p] = Present]
  /\ UNCHANGED <<keyBits, disk, members, history>>

\* unlinks each by its name,
UnlinkListed(p, at) ==
  /\ pc[p] = at
  /\ \E f \in listed[p] : /\ Unlink(f)
                          /\ listed' = [listed EXCEPT ![p] = @ \ {f}]
  /\ UNCHANGED <<keyBits, pc, dir, members, history>>

\* Mutant: rm -f keys/*.
RmdirNever(p, from, to) ==
  /\ listed[p] = {} /\ Go(p, from, to)
  /\ UNCHANGED <<keyBits, disk, listed, members, history>>

\* and removes the directory, if nothing was put there meanwhile.
Rmdir(p, from, to) ==
  /\ listed[p] = {} /\ Go(p, from, to)
  /\ dir' = (dir /\ Present # {})
  /\ UNCHANGED <<keyBits, files, open, listed, members, history>>

\* Mutant: without mkdir.
MkdirNever(p) ==
  Go(p, "mkdir", "keygen") /\ UNCHANGED <<keyBits, disk, listed, members, history>>

Mkdir(p) == /\ Go(p, "mkdir", "keygen") /\ dir' = TRUE
            /\ UNCHANGED <<keyBits, files, open, listed, members, history>>

\* ssh-keygen asks before it overwrites rsa_key, and anything may be answered;
Keygen(p) == /\ \/ Go(p, "keygen", "private")
                \/ files["rsa_key"] # None /\ Go(p, "keygen", "until_key")
             /\ UNCHANGED <<keyBits, disk, listed, members, history>>

\* it writes the two files, if there is a directory.
Write(p, from, f, to) ==
  /\ Go(p, from, IF dir THEN to ELSE "until_key")
  /\ IF dir THEN Put(f, p) ELSE UNCHANGED files
  /\ UNCHANGED <<keyBits, dir, open, listed, members, history>>

\* until [ -f ... ]
Until(p, from, f, to) ==
  /\ files[f] # None /\ Go(p, from, to)
  /\ UNCHANGED <<keyBits, disk, listed, members, history>>

Copy(p) == /\ Go(p, "cp", "redirect")
           /\ IF files["rsa_key"] # None THEN Put("rsa_private.pem", files["rsa_key"])
                                         ELSE UNCHANGED files
           /\ UNCHANGED <<keyBits, dir, open, listed, members, history>>

\* The shell makes the file before ssh-keygen -e fills it,
Redirect(p) ==
  /\ Go(p, "redirect", IF dir THEN "export" ELSE "until_public")
  /\ IF dir THEN Put("rsa_public.pem", Empty) /\ open' = open \cup {p}
            ELSE UNCHANGED <<files, open>>
  /\ UNCHANGED <<keyBits, dir, listed, members, history>>

\* from rsa_key.pub or from rsa_key, if it finds either.
Export(p) ==
  /\ Go(p, "export", "until_public") /\ open' = open \ {p}
  /\ \/ /\ p \in open
        /\ \E f \in {"rsa_key", "rsa_key.pub"} \cap Present : Put("rsa_public.pem", files[f])
     \/ /\ p \notin open \/ {"rsa_key", "rsa_key.pub"} \cap Present = {}
        /\ UNCHANGED files
  /\ UNCHANGED <<keyBits, dir, listed, members, history>>

RmKey(p, from, f, to) == /\ Go(p, from, to) /\ Put(f, None)
                         /\ UNCHANGED <<keyBits, dir, open, listed, members, history>>
-----------------------------------------------------------------------------
(* The program *)

\* readPemFile: nothing if there is no file, or no key in it.
Held(f) == IF files[f] = Empty THEN None ELSE files[f]

ReadN(p) == /\ Go(p, "read_n", "read_d")
            /\ rsa_n' = [rsa_n EXCEPT ![p] = Held("rsa_public.pem")]
            /\ UNCHANGED <<keyBits, disk, listed, rsa_d, history>>

ReadD(p) == /\ Go(p, "read_d", "cleanup")
            /\ rsa_d' = [rsa_d EXCEPT ![p] = Held("rsa_private.pem")]
            /\ UNCHANGED <<keyBits, disk, listed, rsa_n, history>>

\* Ctrl-C during system(): the script ends, and the program goes on.
Interrupt(p) ==
  /\ \/ pc[p] \in Generating /\ pc' = [pc EXCEPT ![p] = "read_n"]
     \/ pc[p] \in Cleaning /\ pc' = [pc EXCEPT ![p] = "idle"]
  /\ open' = open \ {p} /\ listed' = [listed EXCEPT ![p] = {}]
  /\ faulty' = faulty \cup {p}
  /\ UNCHANGED <<keyBits, dir, files, members, overlapped>>

Kill(p) == /\ p \in Running /\ pc' = [pc EXCEPT ![p] = "dead"]
           /\ open' = open \ {p} /\ listed' = [listed EXCEPT ![p] = {}]
           /\ faulty' = faulty \cup {p}
           /\ UNCHANGED <<keyBits, dir, files, members, overlapped>>

generate_keys(p) ==
  \/ List(p, "rm", "unlink") \/ UnlinkListed(p, "unlink") \/ Rmdir(p, "unlink", "mkdir")
  \/ Mkdir(p) \/ Keygen(p)
  \/ Write(p, "private", "rsa_key", "public")
  \/ Write(p, "public", "rsa_key.pub", "until_key")
  \/ Until(p, "until_key", "rsa_key", "cp") \/ Copy(p) \/ Redirect(p) \/ Export(p)
  \/ Until(p, "until_public", "rsa_public.pem", "rm_key")
  \/ RmKey(p, "rm_key", "rsa_key", "rm_pub")
  \/ RmKey(p, "rm_pub", "rsa_key.pub", "read_n")

cleanup_keys(p) ==
  \/ List(p, "cleanup", "cleanup_unlink") \/ UnlinkListed(p, "cleanup_unlink")
  \/ Rmdir(p, "cleanup_unlink", "idle")

Constructor(p) == generate_keys(p) \/ ReadN(p) \/ ReadD(p) \/ cleanup_keys(p)

Next == \E p \in Procs : Start(p) \/ Constructor(p) \/ Interrupt(p) \/ Kill(p)

Spec == Init /\ [][Next]_vars
LiveSpec == Spec /\ \A p \in Procs : WF_vars(Constructor(p))
-----------------------------------------------------------------------------
(* Properties *)

\* A program that was alone has the two halves of its own key, whatever those
\* before it have left; without a script it has none, unless they have.
OwnPair ==
  \A p \in Procs \ (overlapped \cup faulty) :
    pc[p] \in Cleaning \cup {"idle"} =>
      IF keyBits[p] \in {2048, 4096} THEN rsa_n[p] = p /\ rsa_d[p] = p
      ELSE {rsa_n[p], rsa_d[p]} = {None} \/ faulty # {}

\* However the programs overlap, the last to clean up leaves no key on the disk.
NothingLeft == faulty = {} /\ Running = {} => ~dir /\ Present = {}

\* A program that is alone gets through its constructor, or is killed.
GetsThrough == \A p \in Procs :
  p \in Running ~> pc[p] \in {"idle", "dead"} \/ p \in overlapped
=============================================================================
