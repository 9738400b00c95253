------------------------------- MODULE MCTexts -------------------------------
(***************************************************************************)
(* Instances of TextBuffers, RsaWrapper and BignumTool for TLC: what       *)
(* becomes of a nickname and a line, of a text that class RSA encrypts,    *)
(* and of lines that are piped through "bignum e" and "bignum d".  They    *)
(* have nothing to do with each other, "which" says which of them runs;    *)
(* the others stay as they begin.                                          *)
(***************************************************************************)
EXTENDS TextBuffers, RsaWrapper, BignumTool

VARIABLE which

(* The buffers: lengths around every limit of the code's constants. *)

\* Nicknames that make texts of MAX_NICKNAME - 4 to MAX_NICKNAME + 1 with the
\* key, none, and the longest.
MCNames == {0, 1, MAX_NICKNAME - 1}
             \cup {m - KeyLen - 1 : m \in MAX_NICKNAME - 4 .. MAX_NICKNAME + 1}

MCLines == LET L == {0, 1, 2004, 2005, 2006, 4010, 4011}
           IN {<<>>} \cup {<<a>> : a \in L} \cup {<<a, b>> : a, b \in L}
-----------------------------------------------------------------------------
(* The wrapper: key files, keys and messages. *)

MCBegin == <<45, 66>>
MCEnd == <<45, 69>>
Other == <<80, 58>>

\* A key's files; files with a line in front; a public file that was cut before
\* its end and a private one that has none of a key; no files.
NoFiles == [public |-> <<>>, private |-> <<>>]
MCKeyPairs ==
  {[public |-> <<MCBegin, <<77, 73>>, <<66, 61>>, MCEnd>>,
    private |-> <<MCBegin, <<77, 73, 101>>, MCEnd>>],
   [public |-> <<Other, MCBegin, <<77, 73>>, MCEnd, Other>>,
    private |-> <<Other, MCBegin, <<77>>, MCEnd>>],
   [public |-> <<MCBegin, <<77, 73>>>>, private |-> <<MCEnd, <<77>>>>],
   NoFiles}

Good == <<9, 6, 0, 4, 3, 6, 0, 0, 1, 3>> \* 97001 * 99013

\* A modulus, one of two limbs, 1, 0, and a text.
MCOtherKeys == {Good, <<1, 0, 0, 1>>, <<1>>, <<0, 0>>, <<12, 3>>}
MCMessages == {<<>>, <<0>>, <<97>>, <<0, 98, 0>>, <<255, 0, 7>>,
               <<104, 101, 108, 108, 111>>}
MCCiphers == {<<>>, <<7>>, <<9, 3, 0, 0, 7, 7, 0, 6, 7, 3>>,
              <<5, 0, 0, 0, 0, 0, 0, 0, 0, 0>>, <<33, 34>>}

-----------------------------------------------------------------------------
(* The tool, with lines of up to seven bytes: within one part, two, and more. *)

MCLine(n, c) == [k \in 1 .. n |-> c[1 + ((k + n) % Len(c))]]
MCInputs ==
  {<<MCLine(n, c)>> : n \in 0 .. 7, c \in {<<97, 98>>, <<255, 5, 32>>, <<1>>}}
    \cup {<<MCLine(2, <<72>>), MCLine(5, <<116, 104>>), <<>>>>,
          <<<<>>, MCLine(6, <<110, 111>>), MCLine(3, <<33, 200>>), MCLine(4, <<100>>)>>,
          <<<<0, 0, 65>>, <<0>>, <<66, 0, 67, 0, 68, 69>>>>}
MCPublic == <<6, 5, 5, 3, 7>>
MCPrivate == <<4, 9, 2, 3, 9, 3, 4, 7, 3>>

ASSUME MCConstants == TextAssumption /\ WrapperAssumption /\ ToolAssumption
-----------------------------------------------------------------------------
BuffersIdle == name = 0 /\ typed = <<>> /\ behind = 0 /\ Init
WrapperIdle == pair = NoFiles /\ RsaInit
ToolIdle == input = <<<<>>>> /\ ToolInit

TextsInit == \/ which = "buffers" /\ Init /\ WrapperIdle /\ ToolIdle
             \/ which = "wrapper" /\ BuffersIdle /\ RsaInit /\ ToolIdle
             \/ which = "tool" /\ BuffersIdle /\ WrapperIdle /\ ToolInit

TextsNext == /\ UNCHANGED which
             /\ \/ which = "buffers" /\ Next /\ UNCHANGED <<rsaVars, toolVars>>
                \/ which = "wrapper" /\ RsaNext /\ UNCHANGED <<vars, toolVars>>
                \/ which = "tool" /\ ToolNext /\ UNCHANGED <<vars, rsaVars>>

TextsSpec == TextsInit /\ [][TextsNext]_<<which, vars, rsaVars, toolVars>>
=============================================================================
