------------------------------ MODULE Startup ------------------------------
(***************************************************************************)
(* diskpart.c: main, which reads its flags one by one, RunScript and the   *)
(* interactive loop of the same file.  Both loops take a line in pieces of *)
(* what the buffer holds; InterpretScript is the one of diskpart.c, which  *)
(* always returns 1, or one that may return 0, as interpreter.c's does.    *)
(***************************************************************************)
EXTENDS Integers, Sequences

CONSTANTS
  CommandLines,          \* the argument lists, argv[1] onwards
  Flag,                  \* [argument -> "s", "t", "?", "unknown", or "none"]
  Seconds,               \* [argument -> what atoi makes of it]
  Readable,              \* the arguments that name a script one can open
  Lines,                 \* how many pieces a script, or stdin, may have
  InterpretScriptReturns,
  NULL

ASSUME StartupAssumption ==
  /\ \A a \in CommandLines : a \in Seq(DOMAIN Flag)
  /\ Seconds \in [DOMAIN Flag -> Int] /\ Lines \subseteq Nat
  /\ InterpretScriptReturns \subseteq {0, 1}
  /\ NULL \notin DOMAIN Flag

VARIABLES
  argv, index, script, timeout, result,
  pc,
  left,        \* pieces of input not read yet
  lists,       \* how many of the two lists exist
  waited       \* history: the seconds slept, NULL before a script may run

vars == <<argv, index, script, timeout, result, pc, left, lists, waited>>
parsed == <<argv, index, script, timeout>>

Init ==
  /\ argv \in CommandLines /\ index = 1 /\ script = NULL /\ timeout = 0
  /\ result = "success" /\ pc = "create" /\ left \in Lines
  /\ lists = 0 /\ waited = NULL

CreateLists ==
  /\ pc = "create"
  /\ lists' = 2
  /\ pc' = IF argv = <<>> THEN "prompt" ELSE "flags"
  /\ UNCHANGED <<parsed, result, left, waited>>

Current == Flag[argv[index]]
HasValue == index + 1 <= Len(argv)
Parsing == pc = "flags" /\ index <= Len(argv)

StopAnyway(status) == pc' = "done" /\ UNCHANGED result    \* faulty
Stop(status) == pc' = "done" /\ result' = status

ShowUsage ==
  /\ Parsing /\ Current = "?"
  /\ Stop("success")
  /\ UNCHANGED <<parsed, left, lists, waited>>

FirstScript(a) == IF script = NULL THEN a ELSE script     \* faulty
Chosen(a) == a

TakeScript ==
  /\ Parsing /\ Current = "s" /\ HasValue
  /\ script' = Chosen(argv[index + 1]) /\ index' = index + 2
  /\ UNCHANGED <<argv, timeout, result, pc, left, lists, waited>>

AsGiven(a) == Seconds[a]                                  \* faulty
AsTimeout(a) == IF Seconds[a] < 0 THEN 0 ELSE Seconds[a]

TakeTimeout ==
  /\ Parsing /\ Current = "t" /\ HasValue
  /\ timeout' = AsTimeout(argv[index + 1])
  /\ index' = index + 2
  /\ UNCHANGED <<argv, script, result, pc, left, lists, waited>>

(* A missing value, an unknown flag, or an argument that is no flag. *)
BadArgument ==
  /\ Parsing
  /\ Current \in {"unknown", "none"} \/ (Current \in {"s", "t"} /\ ~ HasValue)
  /\ Stop("failure")
  /\ UNCHANGED <<parsed, left, lists, waited>>

EndOfFlags ==
  /\ pc = "flags" /\ index > Len(argv)
  /\ \/ /\ script = NULL                       \* "No script specified"
        /\ Stop("failure") /\ UNCHANGED waited
     \/ /\ script # NULL
        /\ waited' = timeout
        /\ pc' = "open" /\ UNCHANGED result
  /\ UNCHANGED <<parsed, left, lists>>

-----------------------------------------------------------------------------
OpenScript ==
  /\ pc = "open"
  /\ \/ script \in Readable /\ pc' = "script" /\ UNCHANGED result
     \/ script \notin Readable /\ Stop("failure")
  /\ UNCHANGED <<parsed, left, lists, waited>>

ScriptLine ==
  /\ pc = "script" /\ left > 0
  /\ left' = left - 1
  /\ \E r \in InterpretScriptReturns :
       IF r = 0 THEN Stop("failure") ELSE UNCHANGED <<pc, result>>
  /\ UNCHANGED <<parsed, lists, waited>>

PromptAgain ==                                            \* faulty
  /\ pc \in {"script", "prompt"} /\ left = 0
  /\ pc' = IF pc = "script" THEN "done" ELSE pc
  /\ UNCHANGED <<parsed, result, left, lists, waited>>
EndOfInput ==
  /\ pc \in {"script", "prompt"} /\ left = 0
  /\ pc' = "done"
  /\ UNCHANGED <<parsed, result, left, lists, waited>>

(* Interactive: a piece that begins with "exit" ends it, any other is only  *)
(* shown; what InterpretScript returns is ignored.                          *)
PromptLine ==
  /\ pc = "prompt" /\ left > 0
  /\ left' = left - 1
  /\ pc' \in {"prompt", "done"}
  /\ UNCHANGED <<parsed, result, lists, waited>>

DestroyLists ==
  /\ pc = "done"
  /\ lists' = 0 /\ pc' = "exited"
  /\ UNCHANGED <<parsed, result, left, waited>>

Exited == pc = "exited" /\ UNCHANGED vars

Step ==
  \/ CreateLists \/ ShowUsage \/ TakeScript \/ TakeTimeout \/ BadArgument
  \/ EndOfFlags \/ OpenScript \/ ScriptLine \/ EndOfInput \/ PromptLine
  \/ DestroyLists
Next == Step \/ Exited

Spec == Init /\ [][Next]_vars
(* The script and stdin end, and sleep() returns. *)
FairSpec == Spec /\ WF_vars(Step)

-----------------------------------------------------------------------------
TypeOK ==
  /\ argv \in CommandLines /\ index \in 1 .. Len(argv) + 1
  /\ script \in DOMAIN Flag \cup {NULL} /\ timeout \in Nat
  /\ result \in {"success", "failure"}
  /\ pc \in {"create", "flags", "open", "script", "prompt", "done", "exited"}
  /\ left \in Nat /\ lists \in {0, 2}
  /\ waited \in Nat \cup {NULL}

(* The grammar the loop of main (diskpart.c:114-172) accepts, on its own:   *)
(* FlagPlaces are the places where a flag must stand, Len(a) + 1 among them *)
(* if nothing is missing.  They are the least set that has the first place, *)
(* and with each flag the place behind it and its value.                    *)
Places(a) == 1 .. Len(a) + 1
TakesValue(a, i) == Flag[a[i]] \in {"s", "t"}
Behind(a, i) == IF TakesValue(a, i) THEN i + 2 ELSE i + 1
Closed(a, set) ==
  1 \in set /\ \A i \in set \cap DOMAIN a : Behind(a, i) \in Places(a) => Behind(a, i) \in set
FlagPlaces(a) ==
  LET closed == {set \in SUBSET Places(a) : Closed(a, set)}
  IN  {i \in Places(a) : \A set \in closed : i \in set}
Flags(a) == FlagPlaces(a) \cap DOMAIN a
OfKind(a, kind) == {i \in Flags(a) : Flag[a[i]] = kind}
Last(set) == CHOOSE i \in set : \A j \in set : j <= i
AsksUsage(a) ==
  \E i \in Flags(a) : /\ Flag[a[i]] = "?"
                      /\ \A j \in Flags(a) : j < i => Flag[a[j]] \in {"s", "t"}
RunsScript(a) ==
  /\ Len(a) + 1 \in FlagPlaces(a)
  /\ \A i \in Flags(a) : TakesValue(a, i)
  /\ OfKind(a, "s") # {}
Script(a) == a[Last(OfKind(a, "s")) + 1]
Timeout(a) == IF OfKind(a, "t") = {} THEN 0
              ELSE LET n == Seconds[a[Last(OfKind(a, "t")) + 1]]
                   IN  IF n < 0 THEN 0 ELSE n

(* A script only runs when the whole command line is in order, after the    *)
(* last timeout given: an error behind "-s file" must stop it first.        *)
ScriptOnlyIfInOrder ==
  /\ pc \in {"open", "script"} => RunsScript(argv) /\ script = Script(argv)
  /\ waited # NULL => waited = Timeout(argv)

(* The status tells a caller whether all of the script ran: success of a    *)
(* command line that runs one means that no piece of it is left.            *)
StatusIsTrue ==
  pc = "exited" =>
    /\ lists = 0
    /\ result = "success" =>
         \/ argv = <<>> \/ AsksUsage(argv)
         \/ RunsScript(argv) /\ Script(argv) \in Readable /\ left = 0
    /\ result = "failure" =>
         /\ ~ AsksUsage(argv)
         /\ RunsScript(argv) /\ Script(argv) \in Readable =>
              0 \in InterpretScriptReturns

(* main comes to an end (diskpart.c:98-204). *)
ProgramEnds == <>(pc = "exited")

=============================================================================
