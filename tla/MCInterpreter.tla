--------------------------- MODULE MCInterpreter ---------------------------
(***************************************************************************)
(* Letters stand for names, so that a word is a short sequence: "a" is a   *)
(* group with the members "a b" (itself a group) and "a a", "a b a" is in  *)
(* the second group, "h" is help, "x" is exit, "m" is rem and "r" is       *)
(* rescan, which returns 0 when it succeeds.  The buffer holds seven       *)
(* characters of a line.  Pieces: two words, then every text of up to six  *)
(* letters, blanks, quotes and newlines, so that the buffer ends anywhere  *)
(* in it.  CommandLines: every line of up to four words, then another.     *)
(***************************************************************************)
EXTENDS Interpreter

Letters == {"a", "A", "b", "h", "x", "r", "m"}
MCChar == Letters \cup {" ", "q", "n"}
MCLower == [c \in MCChar |-> IF c = "A" THEN "a" ELSE c]

Row(names, func) == [names |-> names, func |-> func]
MCcmds == << Row(<< <<"a">> >>, NULL),
             Row(<< <<"a">>, <<"b">> >>, NULL),
             Row(<< <<"a">>, <<"b">>, <<"a">> >>, "member"),
             Row(<< <<"a">>, <<"a">> >>, "member"),
             Row(<< <<"h">> >>, "help"),
             Row(<< <<"x">> >>, NULL),
             Row(<< <<"r">> >>, "rescan") >>
MCReturns == [f \in {"member", "help", "rescan"} |->
                IF f = "rescan" THEN {FALSE} ELSE {TRUE}]

ExitWord == <<"x">>
RemWord == <<"m">>
HelpWord == <<"h">>

Upto(n, set) == UNION {[1 .. k -> set] : k \in 0 .. n}
Pieces == {<<"a", " ", "a", " ">> \o s : s \in Upto(6, {"a", " ", "q", "n"})}

Spaced(words) ==
  [i \in 1 .. 2 * Len(words) |->
     IF i % 2 = 1 THEN words[(i + 1) \div 2]
     ELSE IF i = 2 * Len(words) THEN "n" ELSE " "]
CommandLines == {Spaced(w) \o Spaced(<<v>>) : w \in Upto(4, Letters), v \in {"a", "x"}}
MCInputs == Pieces \cup CommandLines
=============================================================================
