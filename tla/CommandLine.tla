---------------------------- MODULE CommandLine ----------------------------
(***************************************************************************)
(* How a command travels as one line of text: the client quotes its words  *)
(* (cmd/21pins/ssh.go, shellQuote) and the gate takes the line apart       *)
(* (internal/sshcommand/gate.go, Parse), which is no shell and expands     *)
(* nothing.  A character stands for its class; a word and a line are       *)
(* sequences of characters.                                                *)
(***************************************************************************)
EXTENDS Naturals, Sequences, SequencesExt

CONSTANTS Bare,      \* characters that need no quoting
          Unsafe,    \* controls, which are nowhere accepted
          MaxWords,  \* words of a command
          MaxWord,   \* characters of a word
          MaxLine    \* characters of a line

Blank == " "
Quote == "'"
Double == "\""
Denied == <<>>   \* no command: one has at least one word

\* A word between quotes, and '"'"' for a quote within it.
Quoted(word) ==
    <<Quote>> \o FlattenSeq([i \in 1..Len(word) |->
                    IF word[i] = Quote THEN <<Quote, Double, Quote, Double, Quote>> ELSE <<word[i]>>])
              \o <<Quote>>

\* The words one after the other, with a blank between two.
LineOf(argv) ==
    FlattenSeq([i \in 1..Len(argv) |-> IF i = 1 THEN Quoted(argv[i]) ELSE <<Blank>> \o Quoted(argv[i])])

-----------------------------------------------------------------------------
(* Parsing: where in the line we are, the word so far, the words before    *)

Start == [at |-> "gap", word |-> <<>>, words |-> <<>>]
Goto(p, at) == [p EXCEPT !.at = at]
Take(p, c, at) == [p EXCEPT !.at = at, !.word = Append(@, c)]

\* A word ends where it is not too long and not one too many.
EndWord(p) ==
    IF Len(p.word) > MaxWord \/ Len(p.words) >= MaxWords
    THEN Goto(p, "denied")
    ELSE [at |-> "gap", word |-> <<>>, words |-> Append(p.words, p.word)]

\* A character outside quotes: a double quote begins "'" and nothing else.
Outside(p, c) ==
    CASE c = Quote -> Goto(p, "quoted")
      [] c = Double -> Goto(p, "double")
      [] c \in Bare -> Take(p, c, "word")
      [] OTHER -> Goto(p, "denied")

ReadChar(p, c) ==
    CASE p.at = "gap" -> IF c = Blank THEN p ELSE Outside(p, c)
      [] p.at = "word" -> IF c = Blank THEN EndWord(p) ELSE Outside(p, c)
      [] p.at = "quoted" -> IF c = Quote THEN Goto(p, "word") ELSE Take(p, c, "quoted")
      [] p.at = "double" -> IF c = Quote THEN Take(p, c, "closing") ELSE Goto(p, "denied")
      [] p.at = "closing" -> Goto(p, IF c = Double THEN "word" ELSE "denied")
      [] p.at = "denied" -> p

\* The words of a line, or Denied.
Parse(line) ==
    LET read == FoldLeft(ReadChar, Start, line)
        end == IF read.at = "word" THEN EndWord(read) ELSE read
    IN IF Len(line) <= MaxLine /\ (\A i \in 1..Len(line) : line[i] \notin Unsafe) /\ end.at = "gap"
       THEN end.words ELSE Denied
=============================================================================
