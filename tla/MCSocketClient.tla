--------------------------- MODULE MCSocketClient ---------------------------
(***************************************************************************)
(* Instances of SocketClient and LineStream for TLC: one program on the    *)
(* socket library, and the bytes between several of them.  "which" says    *)
(* which of the two is looked at; the other one stays as it begins.  In    *)
(* the connections of the stream a message of two bytes behind its prefix  *)
(* has to wait.                                                            *)
(***************************************************************************)
EXTENDS SocketClient, LineStream

VARIABLE which

allVars == <<which, vars, streamVars>>

SocketInit == which \in {"client", "stream"} /\ Init /\ StreamInit

InClient(A) == which = "client" /\ A /\ UNCHANGED <<which, streamVars>>
InStream(A) == which = "stream" /\ A /\ UNCHANGED <<which, vars>>

SocketNext == InClient(Next) \/ InStream(StreamNext)

\* The fairness of SocketClient's FairSpec, and of LineStream's.
SocketSpec ==
  /\ SocketInit /\ [][SocketNext]_allVars
  /\ WF_allVars(InClient(~Over /\ MainGoesOn)) /\ WF_allVars(InClient(~Over /\ Receive))
  /\ WF_allVars(InClient(ServerFinishes))
  /\ \A c \in Sender : /\ WF_allVars(InStream(SendLine(c)))
                       /\ WF_allVars(InStream(Recv(c)))
                       /\ SF_allVars(InStream(SendMessage(c)))
  /\ WF_allVars(InStream(Show))
=============================================================================
