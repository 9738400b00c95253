----------------------------- MODULE BignumTool -----------------------------
(***************************************************************************)
(* Bignum/main.cpp as todo.txt calls it: "bignum e < lines | bignum d".    *)
(* The two programs run one after the other, which a pipe does not let     *)
(* them notice.  A step reads a line, is a turn of expmod, or prints.      *)
(***************************************************************************)
EXTENDS RsaText

CONSTANTS num1, num2, num3, \* the arguments rsa_n, rsa_e and rsa_d, decimal strings
          Inputs            \* inputs tried, cut at their newlines: each has a
                            \* line, be it empty

\* What is assumed of the constants; the modules that instantiate this one do.
\* The modulus is two or more and is written without zeros in front.
ToolAssumption ==
  /\ {num1, num2, num3} \subseteq Seq(0 .. 9)
  /\ num1 # <<>> /\ num1[1] # 0 /\ Less(BOne, FromString(num1))
  /\ Inputs \subseteq Seq(Seq(0 .. 255)) \ {<<>>}

VARIABLES prog,    \* "e", "d", and "over"
          input,   \* the input of e
          unread,  \* what prog has not read: a line to each newline, and what
                   \* follows the last one
          eof,     \* prog's std::cin.eof()
          counter, \* as in the code
          jobs,    \* expmod's variables for the two numbers of a line
          output,  \* lines that prog has printed
          refused, \* history: lines with a part that decrypt refused
          dropped  \* history: lines for which a % lost a limb

toolVars == <<prog, input, unread, eof, counter, jobs, output, refused, dropped>>

Bbig == FromString(<<1, 0, 0, 0, 0, 0>>)
Part == Len(num1) \div 3

\* The line of the input whose numbers are computed.
Current == IF prog = "e" THEN Len(input) - Len(unread) ELSE Len(output) + 1

ToolTypeOK ==
  /\ prog \in {"e", "d", "over"}
  /\ input \in Inputs /\ unread \in Seq(Seq(0 .. 255))
  /\ (eof <=> unread = <<>>)
  /\ counter \in 3 .. 3 + Len(input)
  /\ jobs = <<>> \/ (Len(jobs) = 2 /\ prog # "over")
  /\ \A j \in DOMAIN jobs :
       {jobs[j].res, jobs[j].tmp, jobs[j].exp} \subseteq Seq(0 .. BASE - 1)
  /\ output \in Seq(Seq(0 .. 255))
  /\ refused \subseteq DOMAIN input /\ dropped \subseteq 1 .. Len(input) + 1

ToolInit == /\ prog = "e" /\ input \in Inputs /\ unread = input /\ eof = FALSE
            /\ counter = 3 /\ jobs = <<>> /\ output = <<>>
            /\ refused = {} /\ dropped = {}

\* Mutant: the rest of the line, from the first part's last byte on.
EncryptLineOverlap ==
  /\ prog = "e" /\ jobs = <<>> /\ ~eof
  /\ unread' = Tail(unread) /\ eof' = (Len(unread) = 1)
  /\ LET line == Head(unread)
         long == Len(line) * 3 > Len(num1)
         first == SubSeq(line, 1, IF long THEN Part ELSE Len(line))
         second == SubSeq(line, Part, IF Len(line) < 2 * Part THEN Len(line)
                                                            ELSE 2 * Part)
     IN /\ counter' = IF long THEN counter ELSE counter + 1
        /\ jobs' = <<Expmod(FromString(to_numeric(first)), FromString(num2)),
                     Expmod(IF long THEN FromString(to_numeric(second))
                                    ELSE [k \in 1 .. counter' |-> 0],
                            FromString(num2))>>
  /\ UNCHANGED <<prog, input, output, refused, dropped>>

\* A line that is too long for rsa_n is cut in two parts, and what is left over
\* is dropped.  With another one goes Bignum(++counter), which is the
\* constructor of a number with so many limbs, all zero.
EncryptLine ==
  /\ prog = "e" /\ jobs = <<>> /\ ~eof
  /\ unread' = Tail(unread) /\ eof' = (Len(unread) = 1)
  /\ LET line == Head(unread)
         long == Len(line) * 3 > Len(num1)
         first == SubSeq(line, 1, IF long THEN Part ELSE Len(line))
         second == SubSeq(line, Part + 1, IF Len(line) < 2 * Part THEN Len(line)
                                                                ELSE 2 * Part)
     IN /\ counter' = IF long THEN counter ELSE counter + 1
        /\ jobs' = <<Expmod(FromString(to_numeric(first)), FromString(num2)),
                     Expmod(IF long THEN FromString(to_numeric(second))
                                    ELSE [k \in 1 .. counter' |-> 0],
                            FromString(num2))>>
  /\ UNCHANGED <<prog, input, output, refused, dropped>>

\* Two lines of digits; the second is empty if the first met the end.
DecryptLine ==
  /\ prog = "d" /\ jobs = <<>> /\ ~eof
  /\ unread' = SubSeq(unread, 3, Len(unread)) /\ eof' = (Len(unread) <= 2)
  /\ LET part1 == FromString(unread[1])
         part2 == IF Len(unread) = 1 THEN <<>> ELSE FromString(unread[2])
     IN /\ jobs' = <<Decrypt(part1, FromString(num3)),
                     Decrypt(part2, FromString(num3))>>
        /\ refused' = IF /\ Current \in DOMAIN input
                         /\ \E p \in {part1, part2} : p # BZero /\ Refused(p)
                      THEN refused \cup {Current} ELSE refused
  /\ UNCHANGED <<prog, input, counter, output, dropped>>

\* The next turn of the loop of the line's first expmod, or of its second.
ToolTurn ==
  /\ \E j \in DOMAIN jobs :
       /\ Running(jobs[j]) /\ \A i \in 1 .. j - 1 : ~Running(jobs[i])
       /\ jobs' = [jobs EXCEPT ![j] = ExpTurn(@, FromString(num1))]
       /\ dropped' = IF Drops(jobs[j], FromString(num1)) THEN dropped \cup {Current}
                     ELSE dropped
  /\ UNCHANGED <<prog, input, unread, eof, counter, output, refused>>

\* d takes a second part that is not above Bbig for a missing one.
PrintLine ==
  /\ jobs # <<>> /\ \A j \in DOMAIN jobs : ~Running(jobs[j])
  /\ LET first == FromString(to_string(jobs[1].res))
         second == FromString(to_string(jobs[2].res))
     IN output' = output \o
          IF prog = "e" THEN <<to_string(first), to_string(second)>>
          ELSE <<to_chars(first)
                   \o IF Less(Bbig, jobs[2].res) THEN to_chars(second) ELSE <<>>>>
  /\ jobs' = <<>>
  /\ UNCHANGED <<prog, input, unread, eof, counter, refused, dropped>>

\* What e has printed is d's input; all of it ends in a newline.
ToolReturn ==
  /\ prog # "over" /\ eof /\ jobs = <<>>
  /\ prog' = IF prog = "e" THEN "d" ELSE "over"
  /\ unread' = IF prog = "e" THEN Append(output, <<>>) ELSE unread
  /\ eof' = (prog = "d")
  /\ output' = IF prog = "e" THEN <<>> ELSE output
  /\ UNCHANGED <<input, counter, jobs, refused, dropped>>

ToolNext == EncryptLine \/ DecryptLine \/ ToolTurn \/ PrintLine \/ ToolReturn

ToolSpec == ToolInit /\ [][ToolNext]_toolVars
-----------------------------------------------------------------------------
(* Properties *)

\* The k-th line's parts.
FirstPart(line) == IF Len(line) * 3 > Len(num1) THEN SubSeq(line, 1, Part) ELSE line
SecondPart(line) ==
  IF Len(line) * 3 > Len(num1) THEN SubSeq(line, Part + 1, Len(line)) ELSE <<>>

Numeral(text) == FromString(to_numeric(text))
BelowKey(text) == Less(Numeral(text), FromString(num1))

\* The character of a text with p others to its right, and two texts that are the
\* same but for null bytes in front.
FromRight(text, p) == IF p < Len(text) THEN text[Len(text) - p] ELSE 0
SameText(s, t) == \A p \in 0 .. Len(s) + Len(t) : FromRight(s, p) = FromRight(t, p)

\* The parts of a line come out as they went in, but for null bytes in front of
\* each, save of lines that are too long for two parts, whose first part is not
\* below rsa_n, whose second part is not below it or is small enough to be taken
\* for a missing one, or for which decrypt refused a number or a limb was lost.
LinesSurvive ==
  \A k \in DOMAIN output \cap DOMAIN input :
    LET first == FirstPart(input[k])
        second == SecondPart(input[k])
    IN prog \in {"d", "over"} =>
         \/ Len(input[k]) > 2 * Part
         \/ ~BelowKey(first) \/ ~BelowKey(second)
         \/ ~Less(Bbig, Purge(Numeral(second))) /\ second # <<>>
         \/ k \in refused \cup dropped
         \/ \E m \in 0 .. Len(output[k]) :
              /\ SameText(SubSeq(output[k], 1, m), first)
              /\ SameText(SubSeq(output[k], m + 1, Len(output[k])), second)

\* d prints a line for each line of e's input, and one more for what follows
\* the last newline of e's output.
InStep == prog = "over" => Len(output) = Len(input) + 1

\* What goes in at one end of the pipe and what comes out at the other.
ToolRight == ToolTypeOK /\ LinesSurvive /\ InStep
=============================================================================
