--------------------------- MODULE Startup_proofs ---------------------------
(***************************************************************************)
(* The flag loop of main accepts the grammar of Startup, runs the script   *)
(* and waits the seconds that the grammar names, and exits with a status   *)
(* that is true, for argument lists of any length.                         *)
(***************************************************************************)
EXTENDS Startup, TLAPS

-----------------------------------------------------------------------------
(* The grammar.  FlagPlaces is closed, and contained in every closed set;   *)
(* taking one place out of it shows that each has a flag before it.         *)
LEMMA PlacesType ==
  ASSUME NEW a \in Seq(DOMAIN Flag)
  PROVE  /\ Len(a) \in Nat /\ DOMAIN a = 1 .. Len(a)
         /\ FlagPlaces(a) \subseteq Places(a) /\ Flags(a) \subseteq DOMAIN a
         /\ Closed(a, FlagPlaces(a))
  <1>1. Len(a) \in Nat /\ DOMAIN a = 1 .. Len(a)
    OBVIOUS
  <1>2. FlagPlaces(a) \subseteq Places(a) /\ Flags(a) \subseteq DOMAIN a
    BY DEF FlagPlaces, Flags
  <1>3. 1 \in FlagPlaces(a)
    BY <1>1 DEF FlagPlaces, Places, Closed
  <1>4. ASSUME NEW i \in FlagPlaces(a) \cap DOMAIN a, Behind(a, i) \in Places(a)
        PROVE  Behind(a, i) \in FlagPlaces(a)
    BY <1>4 DEF FlagPlaces, Closed
  <1> QED BY <1>1, <1>2, <1>3, <1>4 DEF Closed

LEMMA PlacesLeast ==
  ASSUME NEW a, NEW set \in SUBSET Places(a), Closed(a, set)
  PROVE  FlagPlaces(a) \subseteq set
  BY DEF FlagPlaces

LEMMA FlagBefore ==
  ASSUME NEW a \in Seq(DOMAIN Flag), NEW k \in FlagPlaces(a), k # 1
  PROVE  \E i \in Flags(a) : Behind(a, i) = k
  <1> SUFFICES ASSUME \A i \in Flags(a) : Behind(a, i) # k PROVE FALSE
    OBVIOUS
  <1> DEFINE others == FlagPlaces(a) \ {k}
  <1>1. others \in SUBSET Places(a)
    BY PlacesType
  <1>2. Closed(a, others)
    BY PlacesType DEF Closed, Flags
  <1>3. FlagPlaces(a) \subseteq others
    BY <1>1, <1>2, PlacesLeast
  <1> QED BY <1>3

(* The value of a flag is never a flag itself. *)
LEMMA NoFlagBehindFlag ==
  ASSUME NEW a \in Seq(DOMAIN Flag), NEW k \in Flags(a), TakesValue(a, k)
  PROVE  k + 1 \notin FlagPlaces(a)
  <1> DEFINE good == {i \in FlagPlaces(a) : ~ (i - 1 \in Flags(a) /\ TakesValue(a, i - 1))}
  <1>0. /\ Len(a) \in Nat /\ DOMAIN a = 1 .. Len(a)
        /\ FlagPlaces(a) \subseteq Places(a) /\ Flags(a) \subseteq DOMAIN a
        /\ Closed(a, FlagPlaces(a))
    BY PlacesType
  <1>1. good \in SUBSET Places(a)
    BY <1>0
  <1>2. 1 \in good
    BY <1>0 DEF Closed
  <1>3. ASSUME NEW i \in good \cap DOMAIN a, Behind(a, i) \in Places(a)
        PROVE  Behind(a, i) \in good
    <2>1. Behind(a, i) \in FlagPlaces(a) /\ i \in Int /\ i \in Flags(a)
      BY <1>0, <1>3 DEF Closed, Flags
    <2>2. CASE ~ TakesValue(a, i)
      BY <2>1, <2>2 DEF Behind
    <2>3. CASE TakesValue(a, i)
      <3>1. ASSUME i + 1 \in FlagPlaces(a) PROVE FALSE
        <4>1. i + 1 # 1
          BY <1>0, <1>3
        <4>2. PICK j \in Flags(a) : Behind(a, j) = i + 1
          BY <3>1, <4>1, FlagBefore
        <4>3. j \in Int /\ ((j = i /\ ~ TakesValue(a, j)) \/ (j = i - 1 /\ TakesValue(a, j)))
          BY <1>0, <2>1, <4>2 DEF Behind
        <4> QED BY <1>3, <2>3, <4>2, <4>3
      <3>2. (i + 2) - 1 = i + 1 /\ Behind(a, i) = i + 2
        BY <2>1, <2>3 DEF Behind
      <3> QED BY <2>1, <3>1, <3>2 DEF Flags
    <2> QED BY <2>2, <2>3
  <1>4. FlagPlaces(a) \subseteq good
    <2> HIDE DEF good
    <2>1. Closed(a, good)
      BY <1>2, <1>3 DEF Closed
    <2> QED BY <1>1, <2>1, PlacesLeast
  <1>5. (k + 1) - 1 = k
    BY <1>0
  <1> QED BY <1>4, <1>5

LEMMA LastIs ==
  ASSUME NEW set \in SUBSET Int, NEW k \in set, \A j \in set : j <= k
  PROVE  Last(set) = k
  <1>1. \A i \in set : (\A j \in set : j <= i) => i = k
    OBVIOUS
  <1> QED BY <1>1 DEF Last

-----------------------------------------------------------------------------
(* Types. *)
THEOREM StartupTypeCorrect == Spec => []TypeOK
  <1>1. Init => TypeOK
    BY StartupAssumption DEF Init, TypeOK
  <1>2. TypeOK /\ [Next]_vars => TypeOK'
    <2> SUFFICES ASSUME TypeOK, [Next]_vars PROVE TypeOK'
      OBVIOUS
    <2>0. argv \in Seq(DOMAIN Flag) /\ Len(argv) \in Nat
      BY StartupAssumption DEF TypeOK
    <2>1. ASSUME HasValue PROVE argv[index + 1] \in DOMAIN Flag /\ index + 2 \in 1 .. Len(argv) + 1
      BY <2>0, <2>1 DEF HasValue, TypeOK
    <2>2. CASE TakeScript
      BY <2>0, <2>1, <2>2 DEF TakeScript, Chosen, TypeOK
    <2>3. CASE TakeTimeout
      <3>1. timeout' \in Nat
        BY <2>1, <2>3, StartupAssumption DEF TakeTimeout, AsTimeout
      <3> QED BY <2>0, <2>1, <2>3, <3>1 DEF TakeTimeout, TypeOK
    <2>4. CASE CreateLists \/ ShowUsage \/ BadArgument \/ EndOfFlags
      BY <2>4 DEF CreateLists, ShowUsage, BadArgument, EndOfFlags, Stop, parsed, TypeOK
    <2>5. CASE OpenScript \/ ScriptLine \/ EndOfInput \/ PromptLine \/ DestroyLists
      BY <2>5 DEF OpenScript, ScriptLine, EndOfInput, PromptLine, DestroyLists, Stop, parsed, TypeOK
    <2>6. CASE UNCHANGED vars
      BY <2>6 DEF vars, TypeOK
    <2> QED BY <2>2, <2>3, <2>4, <2>5, <2>6 DEF Next, Step, Exited
  <1> QED BY <1>1, <1>2, PTL DEF Spec

-----------------------------------------------------------------------------
(* The loop stands at a place of a flag, has passed flags with values only, *)
(* and has kept the last value of either kind.                              *)
Passed(kind) == {j \in OfKind(argv, kind) : j < index}
AsParsed ==
  /\ index \in FlagPlaces(argv)
  /\ \A j \in Flags(argv) : j < index => TakesValue(argv, j)
  /\ script = IF Passed("s") = {} THEN NULL ELSE argv[Last(Passed("s")) + 1]
  /\ timeout = IF Passed("t") = {} THEN 0 ELSE AsTimeout(argv[Last(Passed("t")) + 1])
  /\ Passed("s") # {} => script # NULL

LEMMA ParsedStays ==
  ASSUME AsParsed, UNCHANGED parsed PROVE AsParsed'
  BY DEF AsParsed, Passed, parsed

(* Passing a flag and its value. *)
LEMMA FlagIsPassed ==
  ASSUME TypeOK, AsParsed, Parsing, HasValue, TakesValue(argv, index),
         UNCHANGED argv, index' = index + 2
  PROVE  /\ index' \in FlagPlaces(argv)
         /\ \A j \in Flags(argv) : j < index' => TakesValue(argv, j)
         /\ \A kind : Flag[argv[index]] = kind => Passed(kind)' # {} /\ Last(Passed(kind)') = index
         /\ \A kind : Flag[argv[index]] # kind => Passed(kind)' = Passed(kind)
  <1>0. /\ argv \in Seq(DOMAIN Flag) /\ Len(argv) \in Nat /\ DOMAIN argv = 1 .. Len(argv)
        /\ index \in Nat \ {0}
    BY StartupAssumption DEF TypeOK
  <1>1. index \in Flags(argv) /\ Flags(argv) \subseteq Nat
    <2>1. index \in DOMAIN argv /\ index \in FlagPlaces(argv)
      BY <1>0 DEF Parsing, AsParsed
    <2> QED BY <1>0, <2>1 DEF Flags
  <1>2. Behind(argv, index) = index' /\ index' \in Places(argv)
    BY <1>0 DEF Behind, HasValue, Places
  <1>3. index' \in FlagPlaces(argv)
    BY <1>0, <1>1, <1>2, PlacesType DEF Closed, Flags
  <1>4. \A j \in Flags(argv) : j < index' <=> j < index \/ j = index
    <2>1. index + 1 \notin Flags(argv)
      BY <1>0, <1>1, NoFlagBehindFlag DEF Flags
    <2> QED BY <1>0, <1>1, <2>1
  <1>5. \A kind : Passed(kind)' = {j \in OfKind(argv, kind) : j < index'}
    BY DEF Passed
  <1>6. \A kind : OfKind(argv, kind) = {j \in Flags(argv) : Flag[argv[j]] = kind}
    BY DEF OfKind
  <1>7. ASSUME NEW kind, Flag[argv[index]] = kind
        PROVE  Passed(kind)' # {} /\ Last(Passed(kind)') = index
    <2>1. index \in Passed(kind)' /\ Passed(kind)' \subseteq Int
          /\ \A j \in Passed(kind)' : j <= index
      BY <1>0, <1>1, <1>4, <1>5, <1>6, <1>7
    <2> QED BY <2>1, LastIs
  <1>8. ASSUME NEW kind, Flag[argv[index]] # kind PROVE Passed(kind)' = Passed(kind)
    BY <1>4, <1>5, <1>6, <1>8 DEF Passed
  <1> QED BY <1>1, <1>3, <1>4, <1>7, <1>8 DEF AsParsed

LEMMA ParsedNext ==
  ASSUME TypeOK, AsParsed, [Next]_vars PROVE AsParsed'
  <1>1. CASE TakeScript
    <2>1. TakesValue(argv, index) /\ Flag[argv[index]] = "s"
      BY <1>1 DEF TakeScript, Current, TakesValue
    <2>2. /\ script' = argv[index + 1] /\ index' = index + 2 /\ UNCHANGED <<argv, timeout>>
          /\ Parsing /\ HasValue
      BY <1>1 DEF TakeScript, Chosen
    <2>3. /\ Passed("s")' # {} /\ Last(Passed("s")') = index
          /\ Passed("t")' = Passed("t")
      BY <2>1, <2>2, FlagIsPassed
    <2>4. index' \in FlagPlaces(argv) /\ \A j \in Flags(argv) : j < index' => TakesValue(argv, j)
      BY <2>1, <2>2, FlagIsPassed
    <2>5. script' # NULL
      BY <2>2, StartupAssumption DEF HasValue, TypeOK
    <2> QED BY <2>2, <2>3, <2>4, <2>5 DEF AsParsed
  <1>2. CASE TakeTimeout
    <2>1. TakesValue(argv, index) /\ Flag[argv[index]] = "t"
      BY <1>2 DEF TakeTimeout, Current, TakesValue
    <2>2. /\ timeout' = AsTimeout(argv[index + 1]) /\ index' = index + 2
          /\ UNCHANGED <<argv, script>> /\ Parsing /\ HasValue
      BY <1>2 DEF TakeTimeout
    <2>3. /\ Passed("t")' # {} /\ Last(Passed("t")') = index
          /\ Passed("s")' = Passed("s")
      BY <2>1, <2>2, FlagIsPassed
    <2>4. index' \in FlagPlaces(argv) /\ \A j \in Flags(argv) : j < index' => TakesValue(argv, j)
      BY <2>1, <2>2, FlagIsPassed
    <2> QED BY <2>2, <2>3, <2>4 DEF AsParsed
  <1>3. CASE ~ (TakeScript \/ TakeTimeout)
    <2>1. UNCHANGED parsed
      BY <1>3 DEF Next, Step, Exited, vars, parsed, CreateLists, ShowUsage, BadArgument, EndOfFlags,
         OpenScript, ScriptLine, EndOfInput, PromptLine, DestroyLists
    <2> QED BY <2>1, ParsedStays
  <1> QED BY <1>1, <1>2, <1>3

-----------------------------------------------------------------------------
(* When all places are passed, the loop has parsed the whole command line.  *)
AllPassed == index > Len(argv)

LEMMA WholeLine ==
  ASSUME TypeOK, AsParsed, AllPassed
  PROVE  /\ ~ AsksUsage(argv) /\ timeout = Timeout(argv)
         /\ RunsScript(argv) <=> script # NULL
         /\ script # NULL => script = Script(argv)
  <1>0. /\ argv \in Seq(DOMAIN Flag) /\ Len(argv) \in Nat /\ DOMAIN argv = 1 .. Len(argv)
        /\ Flags(argv) \subseteq DOMAIN argv /\ index = Len(argv) + 1
    BY StartupAssumption DEF TypeOK, AllPassed, Flags
  <1>1. \A j \in Flags(argv) : j < index
    BY <1>0
  <1>2. \A j \in Flags(argv) : TakesValue(argv, j)
    BY <1>1 DEF AsParsed
  <1>3. \A kind : Passed(kind) = OfKind(argv, kind)
    BY <1>1 DEF Passed, OfKind
  <1>4. ~ AsksUsage(argv)
    BY <1>2 DEF AsksUsage, TakesValue
  <1>5. timeout = Timeout(argv)
    BY <1>3 DEF AsParsed, Timeout, AsTimeout
  <1>6. ASSUME OfKind(argv, "s") # {} PROVE script = Script(argv) /\ script # NULL
    <2>1. Last(Passed("s")) = Last(OfKind(argv, "s")) /\ Passed("s") # {}
      BY <1>3, <1>6
    <2>2. script = Script(argv)
      BY <2>1 DEF AsParsed, Script
    <2> QED BY <2>1, <2>2 DEF AsParsed
  <1>7. RunsScript(argv) <=> script # NULL
    BY <1>0, <1>2, <1>3, <1>6 DEF RunsScript, AsParsed
  <1> QED BY <1>3, <1>4, <1>5, <1>6, <1>7 DEF AsParsed

(* A flag that stops the loop is where the grammar is broken, or asks for   *)
(* the usage.                                                               *)
LEMMA StoppedEarly ==
  ASSUME TypeOK, AsParsed, Parsing
  PROVE  /\ Current = "?" => AsksUsage(argv)
         /\ Current \in {"unknown", "none"} \/ (Current \in {"s", "t"} /\ ~ HasValue) =>
              ~ AsksUsage(argv) /\ ~ RunsScript(argv)
  <1>0. /\ argv \in Seq(DOMAIN Flag) /\ Len(argv) \in Nat /\ DOMAIN argv = 1 .. Len(argv)
        /\ index \in 1 .. Len(argv) /\ index \in FlagPlaces(argv)
    BY StartupAssumption DEF TypeOK, Parsing, AsParsed
  <1>1. index \in Flags(argv) /\ Flags(argv) \subseteq 1 .. Len(argv)
    BY <1>0 DEF Flags
  <1>2. \A j \in Flags(argv) : j < index => TakesValue(argv, j)
    BY DEF AsParsed
  <1>3. ASSUME Current = "?" PROVE AsksUsage(argv)
    BY <1>1, <1>2, <1>3 DEF AsksUsage, Current, TakesValue
  <1>4. ASSUME Current \in {"unknown", "none"} PROVE ~ AsksUsage(argv) /\ ~ RunsScript(argv)
    <2>1. ~ TakesValue(argv, index) /\ Flag[argv[index]] # "?"
      BY <1>4 DEF Current, TakesValue
    <2>2. ASSUME NEW j \in Flags(argv), Flag[argv[j]] = "?" PROVE index < j
      BY <1>0, <1>1, <1>2, <2>1, <2>2 DEF TakesValue
    <2> QED BY <1>1, <2>1, <2>2 DEF AsksUsage, RunsScript, TakesValue
  <1>5. ASSUME Current \in {"s", "t"}, ~ HasValue PROVE ~ AsksUsage(argv) /\ ~ RunsScript(argv)
    <2>1. TakesValue(argv, index) /\ index = Len(argv)
      BY <1>0, <1>5 DEF Current, TakesValue, HasValue
    <2>2. Len(argv) + 1 \notin FlagPlaces(argv)
      BY <1>0, <1>1, <2>1, NoFlagBehindFlag
    <2>3. \A j \in Flags(argv) : TakesValue(argv, j)
      BY <1>1, <1>2, <2>1
    <2> QED BY <2>2, <2>3 DEF AsksUsage, RunsScript, TakesValue
  <1> QED BY <1>3, <1>4, <1>5

(* What a status says, from the moment it is decided. *)
Outcome ==
  /\ result = "success" =>
       \/ argv = <<>> \/ AsksUsage(argv)
       \/ RunsScript(argv) /\ Script(argv) \in Readable /\ left = 0
  /\ result = "failure" =>
       /\ ~ AsksUsage(argv)
       /\ RunsScript(argv) /\ Script(argv) \in Readable => 0 \in InterpretScriptReturns

StartupInv ==
  /\ TypeOK /\ AsParsed
  /\ pc \in {"create", "flags", "open", "script", "prompt"} => result = "success"
  /\ pc = "prompt" => argv = <<>>
  /\ pc \in {"open", "script"} => AllPassed /\ script # NULL
  /\ pc = "script" => script \in Readable
  /\ waited # NULL => AllPassed /\ waited = timeout
  /\ pc = "exited" => lists = 0
  /\ pc \in {"done", "exited"} => Outcome

LEMMA StartupInvNext ==
  ASSUME TypeOK', StartupInv, [Next]_vars PROVE StartupInv'
  <1> USE DEF StartupInv
  <1>0. AsParsed'
    BY ParsedNext
  <1>1. ASSUME UNCHANGED <<argv, left>>, result' = "success",
               \/ argv = <<>> \/ AsksUsage(argv)
               \/ RunsScript(argv) /\ Script(argv) \in Readable /\ left = 0
        PROVE  Outcome'
    BY <1>1 DEF Outcome
  <1>2. ASSUME UNCHANGED <<argv, left>>, result' = "failure", ~ AsksUsage(argv),
               RunsScript(argv) /\ Script(argv) \in Readable => 0 \in InterpretScriptReturns
        PROVE  Outcome'
    BY <1>2 DEF Outcome
  <1>3. ASSUME UNCHANGED parsed PROVE AllPassed' <=> AllPassed
    BY <1>3 DEF parsed, AllPassed
  <1>4. CASE CreateLists
    BY <1>0, <1>3, <1>4 DEF CreateLists, parsed
  <1>5. CASE ShowUsage
    BY <1>0, <1>1, <1>3, <1>5, StoppedEarly DEF ShowUsage, Parsing, Stop, parsed
  <1>6. CASE TakeScript \/ TakeTimeout
    <2>1. pc = "flags" /\ pc' = "flags" /\ UNCHANGED <<result, waited>>
      BY <1>6 DEF TakeScript, TakeTimeout, Parsing
    <2>2. waited = NULL
      BY <1>6 DEF TakeScript, TakeTimeout, Parsing, AllPassed, TypeOK
    <2> QED BY <1>0, <2>1, <2>2
  <1>7. CASE BadArgument
    BY <1>0, <1>2, <1>3, <1>7, StoppedEarly DEF BadArgument, Parsing, Stop, parsed
  <1>8. CASE EndOfFlags
    <2>1. AllPassed
      BY <1>8, StartupAssumption DEF EndOfFlags, AllPassed
    <2> QED BY <1>0, <1>2, <1>3, <1>8, <2>1, WholeLine DEF EndOfFlags, Stop, parsed
  <1>9. CASE OpenScript
    BY <1>0, <1>2, <1>3, <1>9, WholeLine DEF OpenScript, Stop, parsed
  <1>10. CASE ScriptLine
    <2>1. CASE 0 \in InterpretScriptReturns /\ Stop("failure")
      <3>1. ~ AsksUsage(argv)
        BY <1>10, WholeLine DEF ScriptLine
      <3>2. Outcome'
        BY <1>10, <2>1, <3>1 DEF ScriptLine, Stop, Outcome, parsed
      <3> QED BY <1>0, <1>3, <1>10, <2>1, <3>2 DEF ScriptLine, Stop, parsed
    <2>2. CASE UNCHANGED <<pc, result>>
      BY <1>0, <1>3, <1>10, <2>2 DEF ScriptLine, parsed
    <2> QED BY <1>10, <2>1, <2>2 DEF ScriptLine
  <1>11. CASE EndOfInput
    BY <1>0, <1>1, <1>3, <1>11, WholeLine DEF EndOfInput, parsed
  <1>12. CASE PromptLine
    <2>1. Outcome'
      BY <1>12 DEF PromptLine, Outcome, parsed
    <2> QED BY <1>0, <1>3, <1>12, <2>1 DEF PromptLine, parsed
  <1>13. CASE DestroyLists
    <2>1. Outcome'
      BY <1>13 DEF DestroyLists, Outcome, parsed
    <2> QED BY <1>0, <1>3, <1>13, <2>1 DEF DestroyLists, parsed
  <1>14. CASE UNCHANGED vars
    BY <1>0, <1>3, <1>14 DEF vars, parsed, Outcome
  <1> QED BY <1>4, <1>5, <1>6, <1>7, <1>8, <1>9, <1>10, <1>11, <1>12, <1>13, <1>14
          DEF Next, Step, Exited

LEMMA StartupInvariance == Spec => []StartupInv
  <1>1. Init => AsParsed
    <2> SUFFICES ASSUME Init PROVE AsParsed
      OBVIOUS
    <2>1. argv \in Seq(DOMAIN Flag) /\ index = 1 /\ script = NULL /\ timeout = 0
      BY StartupAssumption DEF Init
    <2>2. index \in FlagPlaces(argv) /\ \A j \in Flags(argv) : ~ (j < index)
      BY <2>1, PlacesType DEF Closed
    <2>3. \A kind : Passed(kind) = {}
      BY <2>2 DEF Passed, OfKind
    <2> QED BY <2>1, <2>2, <2>3 DEF AsParsed
  <1>2. Init /\ TypeOK => StartupInv
    BY <1>1 DEF Init, StartupInv
  <1> QED BY <1>2, StartupInvNext, StartupTypeCorrect, PTL DEF Spec

(* The script that runs is the one that the whole command line names, after *)
(* the wait that it names (ScriptOnlyIfInOrder), for lists of any length.   *)
THEOREM OnlyOrderedScriptsRun == Spec => []ScriptOnlyIfInOrder
  <1>1. StartupInv => ScriptOnlyIfInOrder
    BY WholeLine DEF StartupInv, ScriptOnlyIfInOrder
  <1> QED BY <1>1, StartupInvariance, PTL

(* Success and failure both mean what a caller takes them for               *)
(* (StatusIsTrue).                                                          *)
THEOREM StatusStaysTrue == Spec => []StatusIsTrue
  <1>1. StartupInv => StatusIsTrue
    BY DEF StartupInv, StatusIsTrue, Outcome
  <1> QED BY <1>1, StartupInvariance, PTL
=============================================================================
