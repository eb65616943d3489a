------------------------- MODULE Interpreter_proofs -------------------------
(***************************************************************************)
(* The interpreter splits lines and finds entries as it should for every   *)
(* input, buffer size and table.  The inductive invariant relates what     *)
(* bWhiteSpace carries to the character before the next one read.          *)
(***************************************************************************)
EXTENDS Interpreter, TLAPS, FiniteSetTheorems

Blank == {Space, Newline}

(* bWhiteSpace is FALSE only inside a word, TRUE only at the start or after *)
(* a blank, and always TRUE after a newline.                                *)
CarriedAt(p) ==
  /\ bWhiteSpace => p = 1 \/ input[p - 1] \in Blank
  /\ p = 1 \/ input[p - 1] = Newline => bWhiteSpace

InterpreterInv ==
  /\ TypeOK /\ WordsStayWhole /\ RunsWhatWasTyped
  /\ pc = "read" => CarriedAt(position)
  /\ pc = "run" => /\ line[1] \in 1 .. line[2] /\ position = line[2] + 1
                   /\ CarriedAt(line[1])
                   /\ \A k \in line[1] .. line[2] - 1 : input[k] # Newline

(* The entry the search keeps has as many names as it compared, because the *)
(* entry of its group would have been found before it.                      *)
LEMMA FoundHasTypedNames ==
  ASSUME NEW words, NEW k \in Entry, Found(words, k)
  PROVE  /\ Len(cmds[k].names) <= Len(words)
         /\ \A m \in DOMAIN cmds[k].names : SameWord(words[m], cmds[k].names[m])
<1>1. PICK n \in 1 .. 3 : IsFirst(words, k, n)
  BY DEF Found
<1>2. Agrees(words, k, n)
  BY <1>1 DEF IsFirst
<1>3. cmds[k].names \in Seq(Word) /\ k \in Nat
  <2> DEFINE Row == [names : Seq(Word), func : Funcs \cup {NULL}]
  <2>1. cmds \in Seq(Row)
    BY TableAssumption
  <2>2. k \in 1 .. Len(cmds) /\ cmds[k] \in Row
    <3> HIDE DEF Row
    <3> QED BY <2>1 DEF Entry
  <2> QED BY <2>2
<1>4. Len(cmds[k].names) = n
  <2>1. SUFFICES ASSUME Len(cmds[k].names) > n PROVE FALSE
    BY <1>2, <1>3 DEF Agrees
  <2>2. n \in 1 .. Len(cmds[k].names) - 1
    BY <1>3, <2>1
  <2>3. PICK j \in 1 .. k - 1 :
          /\ Len(cmds[j].names) = n
          /\ \A m \in 1 .. n : cmds[j].names[m] = cmds[k].names[m]
    <3>1. Len(cmds[k].names) > 1
      BY <1>3, <2>1
    <3>2. \A q \in Entry : Len(cmds[q].names) > 1 =>
            \A r \in 1 .. Len(cmds[q].names) - 1 : \E j \in 1 .. q - 1 :
              /\ Len(cmds[j].names) = r
              /\ \A m \in 1 .. r : cmds[j].names[m] = cmds[q].names[m]
      BY TableAssumption, Zenon
    <3> QED BY <2>2, <3>1, <3>2, Zenon
  <2>4. Agrees(words, j, n)
    BY <1>2, <2>3 DEF Agrees
  <2> QED BY <1>1, <2>4 DEF IsFirst
<1>5. DOMAIN cmds[k].names = 1 .. n
  BY <1>3, <1>4
<1> QED BY <1>2, <1>4, <1>5 DEF Agrees

(* An argument begins inside the line, at its first character if bWhiteSpace *)
(* was carried to it, or after a cut.                                        *)
LEMMA ArgumentsBegin ==
  ASSUME NEW white \in BOOLEAN, NEW i \in Arguments(white)
  PROVE  /\ i \in line[1] .. line[2]
         /\ (i = line[1] /\ white) \/ (i # line[1] /\ input[i - 1] \in Blank)
BY DEF Arguments, Begins, AfterCut, Cut, Blank

(* Unless the piece before it ended in quotes, a piece counts quotes as the  *)
(* whole line does: those before the piece are even in number.               *)
LEMMA PieceSeesQuotes ==
  ASSUME Len(input) \in Nat, line[1] \in 1 .. Len(input), line[2] \in 1 .. Len(input),
         \A k \in line[1] .. line[2] - 1 : input[k] # Newline, ~ CutInQuotes,
         NEW i \in line[1] .. line[2], input[i] # Newline
  PROVE  Quoted(i) <=> InQuote(i)
<1> DEFINE Open(n) == {j \in 1 .. n : input[j] = Quote /\ \A k \in j .. n : input[k] # Newline}
           before == Open(line[1] - 1)
           here == {j \in line[1] .. i : input[j] = Quote}
<1>1. i \in 1 .. Len(input) /\ line[1] \in Nat \ {0} /\ line[1] - 1 \in Nat /\ i \in Nat
  OBVIOUS
<1>2. \A k \in line[1] .. i : input[k] # Newline
  OBVIOUS
<1>3. Open(i) = before \cup here
  <2>1. ASSUME NEW j PROVE j \in Open(i) <=> j \in before \cup here
    <3>1. CASE j \in line[1] .. i
      BY <1>1, <1>2, <3>1
    <3>2. CASE j \in 1 .. line[1] - 1
      BY <1>1, <1>2, <3>2
    <3>3. CASE j \notin 1 .. i
      BY <1>1, <3>3
    <3> QED BY <1>1, <3>1, <3>2, <3>3
  <2> QED BY <2>1
<1>4. before \cap here = {}
  BY <1>1
<1>5. IsFiniteSet(before) /\ IsFiniteSet(here)
  <2>0. IsFiniteSet(1 .. i)
    BY <1>1, FS_Interval
  <2>1. before \subseteq 1 .. i /\ here \subseteq 1 .. i /\ IsFiniteSet(1 .. i)
    BY <1>1, <2>0
  <2> HIDE DEF before, here
  <2> QED BY <2>1, FS_Subset
<1>6. /\ Quoted(i) <=> Cardinality(Open(i)) % 2 = 1
      /\ CutInQuotes <=> Cardinality(before) % 2 = 1
      /\ InQuote(i) <=> Cardinality(here) % 2 = 1
  BY DEF Quoted, CutInQuotes, InQuote
<1> HIDE DEF Open, before, here
<1>7. Cardinality(Open(i)) = Cardinality(before) + Cardinality(here)
  <2>1. Cardinality(before \cap here) = 0
    BY <1>4, FS_EmptySet
  <2>2. Cardinality(before) \in Nat /\ Cardinality(here) \in Nat
    BY <1>5, FS_CardinalityType
  <2>3. Cardinality(before \cup here) =
          Cardinality(before) + Cardinality(here) - Cardinality(before \cap here)
    BY <1>5, FS_Union
  <2> QED BY <1>3, <2>1, <2>2, <2>3
<1>8. Cardinality(before) \in Nat /\ Cardinality(here) \in Nat
  BY <1>5, FS_CardinalityType
<1>9. \A m, n \in Nat : m % 2 # 1 => ((m + n) % 2 = 1 <=> n % 2 = 1)
  OBVIOUS
<1> QED BY <1>6, <1>7, <1>8, <1>9

(* What Interpret takes for arguments are then words of the line.            *)
LEMMA ArgumentsAreWords ==
  ASSUME Len(input) \in Nat, line[1] \in 1 .. Len(input), line[2] \in 1 .. Len(input),
         \A k \in line[1] .. line[2] - 1 : input[k] # Newline, ~ CutInQuotes,
         bWhiteSpace \in BOOLEAN, CarriedAt(line[1]), NEW i \in Arguments(bWhiteSpace)
  PROVE  BeginsWord(i)
<1>1. i \in line[1] .. line[2] /\ ~ Cut(i) /\ ~ InQuote(i) /\ AfterCut(i, bWhiteSpace)
  BY DEF Arguments, Begins
<1>2. input[i] # Newline
  BY <1>1 DEF Cut
<1>3. ~ Quoted(i)
  BY <1>1, <1>2, PieceSeesQuotes
<1>4. ~ EndsWord(i)
  BY <1>1, <1>2, <1>3 DEF EndsWord, Cut
<1>5. CASE i = line[1]
  <2>1. i = 1 \/ input[i - 1] \in Blank
    BY <1>1, <1>5 DEF AfterCut, CarriedAt
  <2> QED BY <1>3, <1>4, <1>5, <2>1 DEF BeginsWord, EndsWord, CutInQuotes, Blank
<1>6. CASE i # line[1]
  <2>1. Cut(i - 1) /\ i - 1 \in line[1] .. line[2]
    BY <1>1, <1>6 DEF AfterCut
  <2>2. CASE input[i - 1] = Newline
    BY <2>2, <1>3, <1>4 DEF BeginsWord, EndsWord
  <2>3. CASE input[i - 1] # Newline
    <3>1. input[i - 1] = Space /\ ~ InQuote(i - 1)
      BY <2>1, <2>3 DEF Cut
    <3>2. ~ Quoted(i - 1)
      BY <2>1, <2>3, <3>1, PieceSeesQuotes
    <3> QED BY <1>3, <1>4, <3>1, <3>2 DEF BeginsWord, EndsWord
  <2> QED BY <2>2, <2>3
<1> QED BY <1>5, <1>6

LEMMA InvInit == Init => InterpreterInv
BY InterpreterAssumption
DEF Init, InterpreterInv, TypeOK, WordsStayWhole, RunsWhatWasTyped, CarriedAt, Nothing

LEMMA SameWords ==
  ASSUME WordsStayWhole, pc # "run", UNCHANGED <<mode, input, line, argv>>
  PROVE  WordsStayWhole'
<1>1. \A i : Quoted(i)' <=> Quoted(i)
  BY DEF Quoted
<1>2. \A i : BeginsWord(i)' <=> BeginsWord(i)
  BY <1>1 DEF BeginsWord, EndsWord
<1>3. CutInQuotes' <=> CutInQuotes
  BY DEF CutInQuotes, Quoted
<1> QED BY <1>2, <1>3 DEF WordsStayWhole

LEMMA InvNext == InterpreterInv /\ [Next]_vars => InterpreterInv'
<1> SUFFICES ASSUME InterpreterInv, [Next]_vars PROVE InterpreterInv'
  OBVIOUS
<1> USE DEF InterpreterInv
<1>0. Len(input) \in Nat
  BY DEF TypeOK
<1>1. CASE GetLine
  <2>1. PICK e \in DOMAIN input :
          LastRead(e) /\ line' = <<position, e>> /\ position' = e + 1
    BY <1>1 DEF GetLine, NextPosition
  <2>2. e \in 1 .. Len(input) /\ position <= e
    BY <2>1 DEF LastRead, TypeOK
  <2>3. TypeOK'
    BY <1>0, <1>1, <2>1, <2>2 DEF GetLine, TypeOK
  <2>4. (pc = "run" => /\ line[1] \in 1 .. line[2] /\ position = line[2] + 1
                       /\ CarriedAt(line[1])
                       /\ \A k \in line[1] .. line[2] - 1 : input[k] # Newline)'
    BY <1>1, <2>1, <2>2 DEF GetLine, CarriedAt, LastRead, TypeOK
  <2> QED BY <1>1, <2>3, <2>4 DEF GetLine, WordsStayWhole, RunsWhatWasTyped
<1>2. CASE EndOfFile
  <2>1. TypeOK' /\ RunsWhatWasTyped' /\ pc' = "ended" /\ pc = "read"
    BY <1>2 DEF EndOfFile, TypeOK, RunsWhatWasTyped
  <2>2. UNCHANGED <<mode, input, line, argv>>
    BY <1>2 DEF EndOfFile
  <2>3. WordsStayWhole'
    BY <2>1, <2>2, SameWords
  <2> QED BY <2>1, <2>3
<1>3. CASE Interpret
  <2>1. /\ line[1] \in 1 .. Len(input) /\ line[2] \in 1 .. Len(input)
        /\ line[1] <= line[2] /\ position = line[2] + 1
    BY <1>0, <1>3 DEF Interpret, TypeOK
  <2>2. White \in BOOLEAN
    BY DEF White, TypeOK
  <2>3. argv' \subseteq 1 .. Len(input)
    BY <1>0, <1>3, <2>1, <2>2, ArgumentsBegin DEF Interpret
  <2>4. /\ ran'.entry \in Entry \cup {NULL} /\ ran'.returned \in BOOLEAN
        /\ RunsWhatWasTyped'
    <3> DEFINE words == Words(argv')
    <3>0. InterpretCmd(words)
      BY <1>3 DEF Interpret
    <3> HIDE DEF words
    <3>1. CASE \E k \in Entry : Found(words, k) /\ \E r \in BOOLEAN : Took(words, k, r)
      BY <3>1, FoundHasTypedNames DEF Took, RunsWhatWasTyped
    <3>2. CASE \E r \in BOOLEAN : Took(words, NULL, r)
      BY <3>2 DEF Took, RunsWhatWasTyped
    <3>3. \A k \in Entry : cmds[k].func # NULL => Returns[cmds[k].func] \subseteq BOOLEAN
      BY InterpreterAssumption DEF Funcs
    <3> QED BY <3>0, <3>1, <3>2, <3>3 DEF InterpretCmd
  <2>5. bWhiteSpace' \in BOOLEAN
    BY <1>3 DEF Interpret, WhiteAfter, Cut
  <2>6. TypeOK'
    BY <1>3, <2>3, <2>4, <2>5 DEF Interpret, TypeOK
  <2>7. WordsStayWhole'
    <3>1. UNCHANGED <<mode, input, line>>
      BY <1>3 DEF Interpret
    <3>2. /\ \A k \in line[1] .. line[2] - 1 : input[k] # Newline
          /\ CarriedAt(line[1]) /\ bWhiteSpace \in BOOLEAN
      BY <1>3 DEF Interpret, TypeOK
    <3>3. ASSUME mode = "prompt", ~ CutInQuotes, NEW i \in argv' PROVE BeginsWord(i)
      <4>1. i \in Arguments(bWhiteSpace)
        BY <1>3, <3>3 DEF Interpret, White
      <4> QED BY <1>0, <2>1, <3>2, <3>3, <4>1, ArgumentsAreWords
    <3>4. CutInQuotes' <=> CutInQuotes
      BY <3>1 DEF CutInQuotes, Quoted
    <3>5. \A i : BeginsWord(i)' <=> BeginsWord(i)
      BY <3>1 DEF BeginsWord, EndsWord, Quoted
    <3> QED BY <3>1, <3>3, <3>4, <3>5 DEF WordsStayWhole
  <2>8. CarriedAt(position)'
    <3>1. position' = line[2] + 1 /\ input' = input /\ position' - 1 = line[2]
      BY <1>3, <2>1 DEF Interpret
    <3>2. bWhiteSpace' <=> Cut(line[2])
      BY <1>3, <2>5 DEF Interpret, WhiteAfter
    <3> QED BY <2>1, <3>1, <3>2 DEF CarriedAt, Cut, Blank
  <2> QED BY <1>3, <2>4, <2>6, <2>7, <2>8 DEF Interpret
<1>4. CASE Stopped \/ UNCHANGED vars
  <2>1. UNCHANGED <<mode, input, position, bWhiteSpace, pc, line, argv, ran>>
    BY <1>4 DEF Stopped, vars
  <2>2. TypeOK' /\ RunsWhatWasTyped' /\ WordsStayWhole'
    <3>1. TypeOK' /\ RunsWhatWasTyped'
      BY <2>1 DEF TypeOK, RunsWhatWasTyped
    <3>2. WordsStayWhole'
      <4>1. CASE pc # "run"
        BY <2>1, <4>1, SameWords
      <4>2. CASE pc = "run"
        BY <2>1, <4>2 DEF WordsStayWhole
      <4> QED BY <4>1, <4>2
    <3> QED BY <3>1, <3>2
  <2> QED BY <2>1, <2>2 DEF CarriedAt
<1> QED BY <1>1, <1>2, <1>3, <1>4 DEF Next

LEMMA Invariance == Spec => []InterpreterInv
BY InvInit, InvNext, PTL DEF Spec

(* Positions and arguments stay inside the input. *)
THEOREM InterpreterTypeCorrect == Spec => []TypeOK
<1>1. InterpreterInv => TypeOK
  BY DEF InterpreterInv
<1> QED BY <1>1, Invariance, PTL

(* At the prompt no line inherits the end of the one before: interpreter.c  *)
(* 129 may leave out the reset that InterpretScript has.                    *)
THEOREM EveryLineStartsFresh == Spec => []LinesStartFresh
<1>1. InterpreterInv => LinesStartFresh
  BY DEF InterpreterInv, LinesStartFresh, CarriedAt
<1> QED BY <1>1, Invariance, PTL

(* However long a line and however small the buffer, every argument at the  *)
(* prompt begins a word of the whole line, unless the buffer has ended      *)
(* inside quotes: then, and only then, the next piece may take the tail of  *)
(* a word for a command (WordsStayWhole).                                   *)
THEOREM NoWordIsSplit == Spec => []WordsStayWhole
<1>1. InterpreterInv => WordsStayWhole
  BY DEF InterpreterInv
<1> QED BY <1>1, Invariance, PTL

(* With every table that lists a group before its members, an entry only    *)
(* runs when all of its names were typed.                                   *)
THEOREM EntryWasTyped == Spec => []RunsWhatWasTyped
<1>1. InterpreterInv => RunsWhatWasTyped
  BY DEF InterpreterInv
<1> QED BY <1>1, Invariance, PTL

-----------------------------------------------------------------------------
(* The search finds at most one entry. *)
LEMMA FoundOnce ==
  ASSUME NEW words, NEW j \in Entry, NEW k \in Entry, Found(words, j), Found(words, k)
  PROVE  j = k
<1>1. j \in Nat /\ k \in Nat
  BY TableAssumption DEF Entry
<1>2. PICK n \in 1 .. 3 : /\ IsFirst(words, j, n)
                         /\ \A m \in n + 1 .. 3, e \in Entry : ~ Agrees(words, e, m)
  BY DEF Found
<1>3. PICK p \in 1 .. 3 : /\ IsFirst(words, k, p)
                         /\ \A m \in p + 1 .. 3, e \in Entry : ~ Agrees(words, e, m)
  BY DEF Found
<1>4. n = p
  BY <1>2, <1>3 DEF IsFirst
<1>5. ~ (j < k) /\ ~ (k < j)
  BY <1>1, <1>2, <1>3, <1>4, TableAssumption DEF IsFirst, Entry
<1> QED BY <1>1, <1>5

(* "help" in front of the words shifts each by one. *)
LEMMA HelpFindsTheSame ==
  ASSUME NEW S, NEW words \in Seq(S), NEW k \in Entry
  PROVE  HelpFound(<<Help>> \o words, k) <=> Found(words, k)
<1> DEFINE asked == <<Help>> \o words
<1>1. /\ Len(asked) = Len(words) + 1
      /\ \A i \in 1 .. Len(words) : asked[i + 1] = words[i]
  OBVIOUS
<1> HIDE DEF asked
<1> DEFINE same(j, m) == /\ Len(asked) >= m + 1 /\ Len(cmds[j].names) >= m
                         /\ \A i \in 1 .. m : SameWord(asked[i + 1], cmds[j].names[i])
<1>2. ASSUME NEW j, NEW m \in 1 .. 3 PROVE same(j, m) <=> Agrees(words, j, m)
  <2>1. Len(asked) >= m + 1 <=> Len(words) >= m
    BY <1>1
  <2>2. Len(words) >= m => \A i \in 1 .. m : asked[i + 1] = words[i]
    BY <1>1
  <2> QED BY <2>1, <2>2 DEF Agrees
<1> HIDE DEF same
<1>3. HelpFound(asked, k) <=>
        \E n \in 1 .. 3 : /\ same(k, n) /\ \A j \in 1 .. k - 1 : ~ same(j, n)
                          /\ \A m \in n + 1 .. 3, j \in Entry : ~ same(j, m)
  BY DEF HelpFound, same
<1>4. ASSUME NEW n \in 1 .. 3
      PROVE  (/\ same(k, n) /\ \A j \in 1 .. k - 1 : ~ same(j, n)
              /\ \A m \in n + 1 .. 3, j \in Entry : ~ same(j, m))
        <=>  (/\ IsFirst(words, k, n)
              /\ \A m \in n + 1 .. 3, j \in Entry : ~ Agrees(words, j, m))
  <2>1. \A m \in n + 1 .. 3 : m \in 1 .. 3
    OBVIOUS
  <2> QED BY <1>2, <2>1 DEF IsFirst
<1> QED BY <1>3, <1>4 DEF Found, asked

(* What ran is a sequence of words, and the one entry the search found. *)
HelpInv ==
  /\ \E S : ran.words \in Seq(S)
  /\ ran.entry # NULL => Found(ran.words, ran.entry)

LEMMA WordsAreSequence ==
  ASSUME NEW starts, starts \subseteq 1 .. Len(input), Len(input) \in Nat
  PROVE  \E S : Words(starts) \in Seq(S)
<1>1. IsFiniteSet(starts)
  <2>1. IsFiniteSet(1 .. Len(input))
    BY FS_Interval
  <2> QED BY <2>1, FS_Subset
<1>2. Cardinality(starts) \in Nat
  BY <1>1, FS_CardinalityType
<1> DEFINE at(n) == WordAt(CHOOSE i \in starts : Cardinality({j \in starts : j <= i}) = n)
           count == Cardinality(starts)
           S == {at(n) : n \in 1 .. count}
<1>3. [n \in 1 .. count |-> at(n)] \in Seq(S)
  <2> HIDE DEF at, count
  <2>1. count \in Nat
    BY <1>2 DEF count
  <2> QED BY <2>1
<1> QED BY <1>3 DEF Words

LEMMA HelpNext == TypeOK /\ TypeOK' /\ HelpInv /\ [Next]_vars => HelpInv'
<1> SUFFICES ASSUME TypeOK, TypeOK', HelpInv, [Next]_vars PROVE HelpInv'
  OBVIOUS
<1>1. CASE Interpret
  <2>1. \E S : Words(argv') \in Seq(S)
    <3>1. argv' \subseteq 1 .. Len(input) /\ Len(input) \in Nat
      BY <1>1 DEF TypeOK, Interpret
    <3> QED BY <3>1, WordsAreSequence
  <2> DEFINE words == Words(argv')
  <2>2. InterpretCmd(words)
    BY <1>1 DEF Interpret
  <2> HIDE DEF words
  <2>3. \E k \in Entry \cup {NULL}, r \in BOOLEAN :
          Took(words, k, r) /\ (k # NULL => Found(words, k))
    <3>1. \A k \in Entry : cmds[k].func # NULL => Returns[cmds[k].func] \subseteq BOOLEAN
      BY InterpreterAssumption DEF Funcs
    <3> QED BY <2>2, <3>1 DEF InterpretCmd
  <2>4. ran'.words = words /\ (ran'.entry # NULL => Found(words, ran'.entry))
    BY <2>3 DEF Took
  <2> QED BY <2>1, <2>4 DEF HelpInv, words, Found, IsFirst, Agrees
<1>2. CASE ~ Interpret
  <2>1. ran' = ran
    BY <1>2 DEF Next, GetLine, EndOfFile, Stopped, vars
  <2> QED BY <2>1 DEF HelpInv, Found, IsFirst, Agrees
<1> QED BY <1>1, <1>2

(* "help" and a command explains the entry that the command would run: the  *)
(* search of help.c and the one of interpreter.c agree on every table.      *)
THEOREM HelpExplainsEveryCommand == Spec => []HelpExplainsWhatRuns
<1>1. Init => HelpInv
  <2>1. <<>> \in Seq({})
    OBVIOUS
  <2> QED BY <2>1 DEF Init, HelpInv, Nothing
<1>2. TypeOK /\ HelpInv => HelpExplainsWhatRuns
  BY FoundOnce, HelpFindsTheSame DEF TypeOK, HelpInv, HelpExplainsWhatRuns
<1> QED BY <1>1, <1>2, HelpNext, InterpreterTypeCorrect, PTL DEF Spec

-----------------------------------------------------------------------------
LEMMA EntryType ==
  ASSUME NEW k \in Entry
  PROVE  /\ k \in Nat \ {0} /\ cmds[k].names \in Seq(Word)
         /\ Len(cmds[k].names) \in 1 .. 3
         /\ DOMAIN cmds[k].names = 1 .. Len(cmds[k].names)
<1> DEFINE Row == [names : Seq(Word), func : Funcs \cup {NULL}]
<1>1. cmds \in Seq(Row)
  BY TableAssumption
<1>2. k \in 1 .. Len(cmds) /\ cmds[k] \in Row
  <2> HIDE DEF Row
  <2> QED BY <1>1 DEF Entry
<1>3. Len(cmds[k].names) \in 1 .. 3
  BY TableAssumption
<1> QED BY <1>2, <1>3

(* Of an entry with at least n names, that entry or one before it has just  *)
(* the first n of them.                                                     *)
LEMMA GroupOf ==
  ASSUME NEW j \in Entry, NEW n \in 1 .. 3, Len(cmds[j].names) >= n
  PROVE  \E e \in Entry : /\ e <= j /\ Len(cmds[e].names) = n
                          /\ \A m \in 1 .. n : cmds[e].names[m] = cmds[j].names[m]
<1>1. j \in Nat \ {0} /\ Len(cmds[j].names) \in 1 .. 3
  BY EntryType
<1>2. CASE Len(cmds[j].names) = n
  BY <1>1, <1>2
<1>3. CASE Len(cmds[j].names) # n
  <2>1. Len(cmds[j].names) > 1 /\ n \in 1 .. Len(cmds[j].names) - 1
    BY <1>1, <1>3
  <2>2. \A q \in Entry : Len(cmds[q].names) > 1 =>
          \A r \in 1 .. Len(cmds[q].names) - 1 : \E e \in 1 .. q - 1 :
            /\ Len(cmds[e].names) = r
            /\ \A m \in 1 .. r : cmds[e].names[m] = cmds[q].names[m]
    BY TableAssumption, Zenon
  <2>3. PICK e \in 1 .. j - 1 : /\ Len(cmds[e].names) = n
                               /\ \A m \in 1 .. n : cmds[e].names[m] = cmds[j].names[m]
    BY <2>1, <2>2, Zenon
  <2>4. e \in Entry /\ e <= j
    BY <1>1, TableAssumption DEF Entry
  <2> QED BY <2>3, <2>4
<1> QED BY <1>2, <1>3

LEMMA SameWordTransitive ==
  ASSUME NEW a, NEW b, NEW c, SameWord(a, b), SameWord(a, c) PROVE SameWord(b, c)
BY DEF SameWord

(* The names of an entry, in whatever case, find that entry. *)
LEMMA FoundByItsNames ==
  ASSUME NEW words, NEW k \in Entry, Len(words) = Len(cmds[k].names),
         \A m \in 1 .. Len(words) : SameWord(words[m], cmds[k].names[m])
  PROVE  Found(words, k)
<1> DEFINE n == Len(words)
<1>1. n \in 1 .. 3 /\ k \in Nat \ {0} /\ n = Len(cmds[k].names)
  BY EntryType
<1>2. Agrees(words, k, n)
  BY <1>1 DEF Agrees
<1>3. ASSUME NEW j \in 1 .. k - 1, Agrees(words, j, n) PROVE FALSE
  <2>1. j \in Entry
    BY <1>1, TableAssumption DEF Entry
  <2>2. Len(cmds[j].names) >= n /\ \A m \in 1 .. n : SameWord(words[m], cmds[j].names[m])
    BY <1>3 DEF Agrees
  <2>3. PICK e \in Entry : /\ e <= j /\ Len(cmds[e].names) = n
                           /\ \A m \in 1 .. n : cmds[e].names[m] = cmds[j].names[m]
    <3> HIDE DEF n
    <3> QED BY <1>1, <2>1, <2>2, GroupOf
  <2>4. \A m \in 1 .. n : SameWord(cmds[e].names[m], cmds[k].names[m])
    <3>1. ASSUME NEW m \in 1 .. n PROVE SameWord(cmds[e].names[m], cmds[k].names[m])
      <4>1. SameWord(words[m], cmds[e].names[m])
        BY <2>2, <2>3, Zenon
      <4>2. SameWord(words[m], cmds[k].names[m])
        OBVIOUS
      <4> QED BY <4>1, <4>2, SameWordTransitive
    <3> QED BY <3>1
  <2>5. DOMAIN cmds[e].names = 1 .. n
    BY <2>3, EntryType
  <2>6. e = k
    BY <1>1, <2>3, <2>4, <2>5, NamesAssumption
  <2> QED BY <1>1, <2>3, <2>6
<1>4. ASSUME NEW m \in n + 1 .. 3, NEW j \in Entry PROVE ~ Agrees(words, j, m)
  BY <1>1 DEF Agrees
<1> QED BY <1>1, <1>2, <1>3, <1>4 DEF Found, IsFirst

(* A line of a help list offers the next name of an entry, which runs that  *)
(* entry when it is typed behind the words that led to the list.            *)
LEMMA OfferedIsFound ==
  ASSUME NEW names, NEW n \in Nat, Len(names) = n, DOMAIN names = 1 .. n,
         NEW k \in Entry, Member(names, k), NEW words, Len(words) = n + 1,
         words[n + 1] = cmds[k].names[n + 1],
         \A m \in 1 .. n : SameWord(words[m], names[m])
  PROVE  Found(words, k)
<1>1. Len(cmds[k].names) = n + 1
  BY DEF Member
<1>2. \A m \in 1 .. n : SameWord(words[m], cmds[k].names[m])
  <2>1. \A m \in DOMAIN names : SameWord(names[m], cmds[k].names[m])
    BY DEF Member
  <2>2. ASSUME NEW m \in 1 .. n PROVE SameWord(words[m], cmds[k].names[m])
    <3>1. SameWord(words[m], names[m]) /\ SameWord(names[m], cmds[k].names[m])
      BY <2>1
    <3> QED BY <3>1 DEF SameWord
  <2> QED BY <2>2
<1>3. SameWord(words[n + 1], cmds[k].names[n + 1])
  BY DEF SameWord
<1>4. \A m \in 1 .. Len(words) : SameWord(words[m], cmds[k].names[m])
  BY <1>2, <1>3
<1> QED BY <1>1, <1>4, FoundByItsNames

(* Whatever the table, a user who follows the help lists from any command   *)
(* that was typed reaches each entry that they show (help.c:62-122): what   *)
(* InterpretCmd finds for the extended words is the entry that was listed.  *)
THEOREM HelpOffersEveryName == Spec => []HelpOffersWhatRuns
<1>1. Init => HelpInv
  <2>1. <<>> \in Seq({})
    OBVIOUS
  <2> QED BY <2>1 DEF Init, HelpInv, Nothing
<1>2. TypeOK /\ HelpInv /\ RunsWhatWasTyped => HelpOffersWhatRuns
  <2> SUFFICES ASSUME TypeOK, HelpInv, RunsWhatWasTyped PROVE HelpOffersWhatRuns
    OBVIOUS
  <2>1. CASE ran.entry = NULL
    <3>1. ASSUME NEW k \in HelpCommandList
          PROVE  Found(Append(<<>>, cmds[k].names[Len(<<>>) + 1]), k)
      <4> DEFINE words == Append(<<>>, cmds[k].names[Len(<<>>) + 1])
      <4>1. k \in Entry /\ Member(<<>>, k)
        BY <3>1 DEF HelpCommandList
      <4>2. Len(<<>>) = 0 /\ DOMAIN <<>> = 1 .. 0
        OBVIOUS
      <4>3. Len(words) = 0 + 1 /\ words[0 + 1] = cmds[k].names[0 + 1]
        OBVIOUS
      <4>4. \A m \in 1 .. 0 : SameWord(words[m], <<>>[m])
        OBVIOUS
      <4> HIDE DEF words
      <4>5. Found(words, k)
        BY <4>1, <4>2, <4>3, <4>4, OfferedIsFound
      <4> QED BY <4>5 DEF words
    <3> QED BY <2>1, <3>1 DEF HelpOffersWhatRuns
  <2>2. CASE ran.entry # NULL
    <3> DEFINE names == cmds[ran.entry].names
               typed == SubSeq(ran.words, 1, Len(names))
    <3>1. /\ ran.entry \in Entry /\ Len(names) \in 1 .. 3
          /\ DOMAIN names = 1 .. Len(names)
      BY <2>2, EntryType DEF TypeOK
    <3>2. Len(names) <= Len(ran.words)
          /\ \A m \in 1 .. Len(names) : SameWord(ran.words[m], names[m])
      BY <2>2, <3>1 DEF RunsWhatWasTyped
    <3>3. PICK S : ran.words \in Seq(S)
      BY DEF HelpInv
    <3>4. /\ typed \in Seq(S) /\ Len(typed) = Len(names)
          /\ \A m \in 1 .. Len(names) : typed[m] = ran.words[m]
      <4> HIDE DEF names
      <4> QED BY <3>1, <3>2, <3>3
    <3>5. ASSUME NEW k \in HelpCommand(ran.entry)
          PROVE  Found(Append(typed, cmds[k].names[Len(typed) + 1]), k)
      <4>1. k \in Entry /\ Member(names, k)
        BY <3>5 DEF HelpCommand
      <4> HIDE DEF names, typed
      <4> DEFINE n == Len(names)
                 words == Append(typed, cmds[k].names[Len(typed) + 1])
      <4>2. Len(words) = n + 1 /\ words[n + 1] = cmds[k].names[n + 1]
        BY <3>1, <3>4
      <4>3. \A m \in 1 .. n : SameWord(words[m], names[m])
        BY <3>1, <3>2, <3>4
      <4> HIDE DEF words
      <4>4. Found(words, k)
        BY <3>1, <4>1, <4>2, <4>3, OfferedIsFound
      <4> QED BY <4>4 DEF words
    <3> QED BY <2>2, <3>5 DEF HelpOffersWhatRuns
  <2> QED BY <2>1, <2>2
<1> QED BY <1>1, <1>2, HelpNext, InterpreterTypeCorrect, EntryWasTyped, PTL DEF Spec

-----------------------------------------------------------------------------
(* When no function of the table returns FALSE, only exit ends a session:   *)
(* a "return 0" for success (rescan.c:31) is the one way that another word  *)
(* can (OnlyExitExits).                                                     *)
THEOREM OnlyZeroExitsToo ==
  ASSUME \A f \in Funcs : FALSE \notin Returns[f]
  PROVE  Spec => []OnlyExitExits
<1>1. Init => OnlyExitExits
  BY DEF Init, OnlyExitExits, Nothing
<1>2. OnlyExitExits /\ [Next]_vars => OnlyExitExits'
  <2> SUFFICES ASSUME OnlyExitExits, [Next]_vars PROVE OnlyExitExits'
    OBVIOUS
  <2>1. CASE Interpret
    <3>1. PICK words : InterpretCmd(words)
      BY <2>1 DEF Interpret
    <3>2. \A k \in Entry : cmds[k].func # NULL =>
            Returns[cmds[k].func] \subseteq {TRUE}
      <4>1. \A f \in Funcs : Returns[f] \subseteq BOOLEAN
        BY InterpreterAssumption
      <4>2. \A f \in Funcs : \A r \in Returns[f] : r = TRUE
        BY <4>1, Zenon
      <4> QED BY <4>2 DEF Funcs
    <3>3. ASSUME NEW k, NEW r \in BOOLEAN, Took(words, k, r),
                 r = TRUE \/ (words # <<>> /\ SameWord(words[1], Exit))
          PROVE  OnlyExitExits'
      <4>1. ran'.words = words /\ (ran'.returned <=> r)
        BY <3>3 DEF Took
      <4> QED BY <3>3, <4>1 DEF OnlyExitExits
    <3>4. CASE \E k \in Entry : /\ cmds[k].func # NULL
                                /\ \E r \in Returns[cmds[k].func] : Took(words, k, r)
      BY <3>2, <3>3, <3>4
    <3> QED BY <3>1, <3>3, <3>4 DEF InterpretCmd
  <2>2. CASE ~ Interpret
    <3>1. ran' = ran
      BY <2>2 DEF Next, GetLine, EndOfFile, Stopped, vars
    <3> QED BY <3>1 DEF OnlyExitExits
  <2> QED BY <2>1, <2>2
<1> QED BY <1>1, <1>2, PTL DEF Spec
=============================================================================
