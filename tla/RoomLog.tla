------------------------------ MODULE RoomLog ------------------------------
(***************************************************************************)
(* What a chat room promises its participants, independent of queues,      *)
(* sockets and handlers: the room is one growing log; a participant that   *)
(* joins is given a starting point at most MaxRecent messages back, and    *)
(* from there receives the log in order, without a gap or a repetition,    *)
(* until it leaves.  ChatRoom (example/chat_server.cpp) implements this.   *)
(***************************************************************************)
EXTENDS Naturals, Sequences

CONSTANTS Person,     \* one participant object per connection
          Message,    \* what can be broadcast
          MaxRecent   \* how far back a newcomer is taken

VARIABLES log,        \* every message the room ever broadcast
          place,      \* place[p]: "out" (not yet in), "in", "left"
          base,       \* base[p]: p is owed the log from base[p] + 1 on
          limit,      \* limit[p]: p is owed the log up to limit[p]
          seen        \* seen[p]: the messages handed to p, in order

vars == <<log, place, base, limit, seen>>

Init == /\ log = <<>>
        /\ place = [p \in Person |-> "out"]
        /\ base = [p \in Person |-> 0]
        /\ limit = [p \in Person |-> 0]
        /\ seen = [p \in Person |-> <<>>]

\* p joins and is owed the newest MaxRecent messages (all, if there are fewer).
Join(p) == /\ place[p] = "out"
           /\ place' = [place EXCEPT ![p] = "in"]
           /\ base' = [base EXCEPT ![p] = IF Len(log) > MaxRecent
                                          THEN Len(log) - MaxRecent ELSE 0]
           /\ limit' = [limit EXCEPT ![p] = Len(log)]
           /\ UNCHANGED <<log, seen>>

\* One message is added; everybody in the room is owed it.
Post == /\ \E m \in Message : log' = Append(log, m)
        /\ limit' = [p \in Person |-> IF place[p] = "in" THEN Len(log) + 1
                                                         ELSE limit[p]]
        /\ UNCHANGED <<place, base, seen>>

\* The next message p is owed is handed to it.
Deliver(p) == /\ base[p] + Len(seen[p]) < limit[p]
              /\ seen' = [seen EXCEPT ![p] =
                            Append(@, log[base[p] + Len(seen[p]) + 1])]
              /\ UNCHANGED <<log, place, base, limit>>

Leave(p) == /\ place[p] = "in"
            /\ place' = [place EXCEPT ![p] = "left"]
            /\ UNCHANGED <<log, base, limit, seen>>

Next == \/ Post
        \/ \E p \in Person : Join(p) \/ Deliver(p) \/ Leave(p)

Spec == Init /\ [][Next]_vars
=============================================================================
