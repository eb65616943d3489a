---------------------------- MODULE Interpreter ----------------------------
(***************************************************************************)
(* The command interpreter: InterpretMain reads commands from the prompt   *)
(* and InterpretScript takes the lines of a script; both split a line into *)
(* arguments, in two copies of the same loop, and InterpretCmd (or, for    *)
(* help, help_main) finds the entry of the command table.  fgetws hands    *)
(* out at most MAX_STRING_SIZE - 1 characters of a line at a time.         *)
(***************************************************************************)
EXTENDS Integers, Sequences, FiniteSets

CONSTANTS
  MAX_ARGS_COUNT, MAX_STRING_SIZE,
  Char, Space, Newline, Quote,
  Lower,                      \* [Char -> Char], towlower
  Inputs,                     \* what may be on stdin, or in the script
  Exit, Rem, Help,            \* the words the interpreter itself knows
  cmds,                       \* the table: [names, func], cmd1 to cmd3 as names
  NULL,                       \* the func of an entry that only has help
  Returns,                    \* what the function of an entry may return
  Undocumented                \* the entries whose help is IDS_NONE

Word == Seq(Char)
Entry == DOMAIN cmds
Funcs == {cmds[k].func : k \in Entry} \ {NULL}
ASSUME InterpreterAssumption ==
  /\ MAX_ARGS_COUNT \in Nat \ {0} /\ MAX_STRING_SIZE \in Nat \ {0, 1}
  /\ Space # Newline /\ {Space, Newline, Quote} \subseteq Char
  /\ Lower \in [Char -> Char] /\ Inputs \subseteq Seq(Char)
  /\ {Exit, Rem, Help} \subseteq Word
  /\ Returns \in [Funcs -> SUBSET BOOLEAN]

SameWord(a, b) == Len(a) = Len(b) /\ \A i \in 1 .. Len(a) : Lower[a[i]] = Lower[b[i]]

(* The table, which interpreter.c:25 leaves to the original: one to three   *)
(* names to an entry, and the entry of a group before those of its members. *)
ASSUME TableAssumption ==
  /\ cmds \in Seq([names : Seq(Word), func : Funcs \cup {NULL}])
  /\ \A k \in Entry :
       /\ Len(cmds[k].names) \in 1 .. 3
       /\ Len(cmds[k].names) > 1 =>
            \A n \in 1 .. Len(cmds[k].names) - 1 : \E j \in 1 .. k - 1 :
              /\ Len(cmds[j].names) = n
              /\ \A m \in 1 .. n : cmds[j].names[m] = cmds[k].names[m]

(* No two entries have the same names.                                      *)
ASSUME NamesAssumption ==
  /\ Undocumented \subseteq Entry
  /\ \A j, k \in Entry :
       /\ Len(cmds[j].names) = Len(cmds[k].names)
       /\ \A m \in DOMAIN cmds[j].names : SameWord(cmds[j].names[m], cmds[k].names[m])
       => j = k

VARIABLES
  mode,            \* "prompt" (InterpretMain) or "script" (InterpretScript)
  input, position, \* the characters, and the first that is not read yet
  bWhiteSpace,     \* carried from line to line by InterpretMain only
  pc,              \* "read", "run" or "ended"
  line,            \* the first and last character that fgetws returned
  argv,            \* where the arguments of the last command begin
  ran              \* the last command: its words, entry, and what it returned

vars == <<mode, input, position, bWhiteSpace, pc, line, argv, ran>>

Nothing == [words |-> <<>>, entry |-> NULL, returned |-> TRUE]

Init ==
  /\ mode \in {"prompt", "script"} /\ input \in Inputs
  /\ position = 1 /\ bWhiteSpace = TRUE /\ pc = "read"
  /\ line = <<1, 0>> /\ argv = {} /\ ran = Nothing

-----------------------------------------------------------------------------
(* fgetws: up to and with the newline, or what fits the buffer. *)
LastRead(e) ==
  /\ e >= position /\ e <= Len(input) /\ e < position + MAX_STRING_SIZE - 1
  /\ \A i \in position .. e - 1 : input[i] # Newline
  /\ \/ input[e] = Newline \/ e = Len(input) \/ e = position + MAX_STRING_SIZE - 2

SkipOne(e) == e + 2                                              \* faulty
NextPosition(e) == e + 1

GetLine ==
  /\ pc = "read"
  /\ \E e \in DOMAIN input :
       LastRead(e) /\ line' = <<position, e>> /\ position' = NextPosition(e)
  /\ pc' = "run"
  /\ UNCHANGED <<mode, input, bWhiteSpace, argv, ran>>

LineAgain ==                                                     \* faulty
  /\ pc = "read" /\ position > Len(input)
  /\ pc' = "run"
  /\ UNCHANGED <<mode, input, position, bWhiteSpace, line, argv, ran>>
EndOfFile ==
  /\ pc = "read" /\ position > Len(input)
  /\ pc' = "ended"
  /\ UNCHANGED <<mode, input, position, bWhiteSpace, line, argv, ran>>

(* The loop over a line: bQuote is reset for each line, a blank in quotes   *)
(* and nothing else but a newline is not a cut, and an argument begins at a *)
(* character after a cut that does not stand in quotes, nor opens them.     *)
InQuote(i) == Cardinality({j \in line[1] .. i : input[j] = Quote}) % 2 = 1
CutOutsideQuotes(i) == input[i] \in {Space, Newline} /\ ~ InQuote(i)  \* faulty
Cut(i) == input[i] = Newline \/ (input[i] = Space /\ ~ InQuote(i))
AfterCut(i, white) == IF i = line[1] THEN white ELSE Cut(i - 1)
Begins(white) ==
  {i \in line[1] .. line[2] : ~ Cut(i) /\ ~ InQuote(i) /\ AfterCut(i, white)}
Arguments(white) ==
  LET all == Begins(white)
  IN  {i \in all : Cardinality({j \in all : j < i}) < MAX_ARGS_COUNT}

(* InterpretMain takes bWhiteSpace from the last line, InterpretScript sets it. *)
AlwaysWhite == TRUE                                              \* faulty
White == IF mode = "prompt" THEN bWhiteSpace ELSE TRUE
WhiteAfter == Cut(line[2])

WordEnd(i) ==
  CHOOSE e \in i .. line[2] :
    /\ \A j \in i .. e : ~ Cut(j)
    /\ e = line[2] \/ Cut(e + 1)
WordAt(i) == [k \in 1 .. WordEnd(i) - i + 1 |-> input[i + k - 1]]
Words(starts) ==
  [n \in 1 .. Cardinality(starts) |->
     WordAt(CHOOSE i \in starts : Cardinality({j \in starts : j <= i}) = n)]

-----------------------------------------------------------------------------
(* InterpretCmd keeps the first entry that agrees on one, on two and on     *)
(* three names, whatever further names that entry has, and prefers three.   *)
Agrees(words, k, n) ==
  /\ Len(words) >= n /\ Len(cmds[k].names) >= n
  /\ \A m \in 1 .. n : SameWord(words[m], cmds[k].names[m])
IsLast(words, k, n) ==                                           \* faulty
  Agrees(words, k, n) /\ \A j \in k + 1 .. Len(cmds) : ~ Agrees(words, j, n)
IsFirst(words, k, n) ==
  Agrees(words, k, n) /\ \A j \in 1 .. k - 1 : ~ Agrees(words, j, n)
FoundShortest(words, k) == IsFirst(words, k, 1)                  \* faulty
Found(words, k) ==
  \E n \in 1 .. 3 :
    /\ IsFirst(words, k, n)
    /\ \A m \in n + 1 .. 3, j \in Entry : ~ Agrees(words, j, m)

(* help_main, the other copy, compares from its second argument on.         *)
HelpFound(words, k) ==
  \E n \in 1 .. 3 :
    LET same(j, m) == /\ Len(words) >= m + 1 /\ Len(cmds[j].names) >= m
                      /\ \A i \in 1 .. m : SameWord(words[i + 1], cmds[j].names[i])
    IN  /\ same(k, n) /\ \A j \in 1 .. k - 1 : ~ same(j, n)
        /\ \A m \in n + 1 .. 3, j \in Entry : ~ same(j, m)

(* What help lists: of no entry, all those of one name, and of an entry     *)
(* those of one more name.                                                  *)
AlsoDeeper(names, k) ==                                          \* faulty
  /\ k \notin Undocumented /\ Len(cmds[k].names) > Len(names)
  /\ \A m \in DOMAIN names : SameWord(names[m], cmds[k].names[m])
Member(names, k) ==
  /\ k \notin Undocumented /\ Len(cmds[k].names) = Len(names) + 1
  /\ \A m \in DOMAIN names : SameWord(names[m], cmds[k].names[m])
HelpCommandList == {k \in Entry : Member(<<>>, k)}
HelpCommand(e) == {k \in Entry : Member(cmds[e].names, k)}

Took(words, k, result) ==
  ran' = [words |-> words, entry |-> k, returned |-> result]

InterpretCmd(words) ==
  \/ words = <<>> /\ Took(words, NULL, TRUE)
  \/ /\ words # <<>> /\ SameWord(words[1], Exit)
     /\ Took(words, NULL, FALSE)
  \/ /\ words # <<>> /\ SameWord(words[1], Rem) /\ ~ SameWord(words[1], Exit)
     /\ Took(words, NULL, TRUE)
  \/ /\ words # <<>> /\ ~ SameWord(words[1], Exit) /\ ~ SameWord(words[1], Rem)
     /\ \/ \E k \in Entry : /\ Found(words, k)
                            /\ cmds[k].func = NULL    \* HelpCommand
                            /\ Took(words, k, TRUE)
        \/ \E k \in Entry : /\ Found(words, k)
                            /\ cmds[k].func # NULL
                            /\ \E r \in Returns[cmds[k].func] : Took(words, k, r)
        \/ /\ \A k \in Entry : ~ Found(words, k)      \* HelpCommandList
           /\ Took(words, NULL, TRUE)

(* The command runs, and a FALSE from it ends the loop, or the script. *)
Interpret ==
  /\ pc = "run"
  /\ argv' = Arguments(White)
  /\ \E words \in {Words(argv')} : InterpretCmd(words)
  /\ bWhiteSpace' = WhiteAfter
  /\ pc' = IF ran'.returned THEN "read" ELSE "ended"
  /\ UNCHANGED <<mode, input, position, line>>

Stopped == pc = "ended" /\ UNCHANGED vars

Next == GetLine \/ EndOfFile \/ Interpret \/ Stopped

Spec == Init /\ [][Next]_vars
(* stdin ends, and every command returns. *)
FairSpec == Spec /\ WF_vars(GetLine \/ EndOfFile \/ Interpret)

-----------------------------------------------------------------------------
TypeOK ==
  /\ mode \in {"prompt", "script"} /\ input \in Seq(Char)
  /\ position \in 1 .. Len(input) + 1
  /\ bWhiteSpace \in BOOLEAN /\ pc \in {"read", "run", "ended"}
  /\ line \in (1 .. Len(input) + 1) \X (0 .. Len(input))
  /\ argv \subseteq 1 .. Len(input)
  /\ ran.entry \in Entry \cup {NULL} /\ ran.returned \in BOOLEAN

(* InterpretMain never resets bWhiteSpace (interpreter.c:129): a line must  *)
(* not inherit the end of the one before, so that it is split as a script's *)
(* line is, whatever was quoted and left open above it.                     *)
LinesStartFresh ==
  pc = "read" /\ (position = 1 \/ input[position - 1] = Newline) => bWhiteSpace

(* The words of a whole line, whatever pieces it is read in: quotes count   *)
(* from the start of the line, blanks in quotes belong to a word, and an    *)
(* argument begins a word that does not open with a quote.                  *)
Quoted(i) ==
  Cardinality({j \in 1 .. i : input[j] = Quote /\ \A k \in j .. i : input[k] # Newline}) % 2 = 1
EndsWord(i) == input[i] = Newline \/ (input[i] = Space /\ ~ Quoted(i))
BeginsWord(i) == ~ EndsWord(i) /\ ~ Quoted(i) /\ (i = 1 \/ EndsWord(i - 1))

(* A line longer than the buffer reaches InterpretMain in pieces, and a     *)
(* piece is run as a command of its own; carrying bWhiteSpace keeps it from *)
(* taking the tail of a word of the line for an argument.  One case is      *)
(* excepted: bQuote is not carried (interpreter.c:149), so where the buffer *)
(* ends inside quotes, the next piece takes quoted text for words.          *)
CutInQuotes == Quoted(line[1] - 1)
WordsStayWhole ==
  mode = "prompt" /\ pc # "run" /\ ~ CutInQuotes => \A i \in argv : BeginsWord(i)

(* InterpretCmd may keep an entry with more names than it compared; with    *)
(* groups before members, the entry it takes has only names that were typed.*)
RunsWhatWasTyped ==
  ran.entry # NULL =>
    /\ Len(cmds[ran.entry].names) <= Len(ran.words)
    /\ \A n \in DOMAIN cmds[ran.entry].names :
         SameWord(ran.words[n], cmds[ran.entry].names[n])

(* The two copies of the table search agree: the entry that runs is the one *)
(* that "help" followed by the same words explains.                         *)
HelpExplainsWhatRuns ==
  ran.entry # NULL =>
    \A k \in Entry : HelpFound(<<Help>> \o ran.words, k) <=> k = ran.entry

(* Every line that HelpCommand or HelpCommandList prints offers a name which *)
(* runs that very entry when it is typed behind the words that led to the   *)
(* list, however these were spelled (help.c:62-122, interpreter.c:45-82).   *)
HelpOffersWhatRuns ==
  LET typed == IF ran.entry = NULL THEN <<>>
               ELSE SubSeq(ran.words, 1, Len(cmds[ran.entry].names))
  IN  \A k \in IF ran.entry = NULL THEN HelpCommandList ELSE HelpCommand(ran.entry) :
        Found(Append(typed, cmds[k].names[Len(typed) + 1]), k)

(* The interpreter comes to an end on every input (interpreter.c:134-174).  *)
InterpreterEnds == <>(pc = "ended")

-----------------------------------------------------------------------------
(* diskpart_msg.mc:3431 "Exits the DiskPart command interpreter." is the    *)
(* help of exit, and no other command's says it ends the session, let alone *)
(* when it succeeds (rescan.c:31).                                          *)
OnlyExitExits ==
  ~ ran.returned => ran.words # <<>> /\ SameWord(ran.words[1], Exit)
=============================================================================
