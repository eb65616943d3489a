SPECIFICATION FairSpec
CONSTANTS
  NULL = NULL
  CommandLines <- MCCommandLines
  Flag <- MCFlag
  Seconds <- MCSeconds
  Readable = {"file"}
  Lines = {0, 1, 2}
  InterpretScriptReturns = {0, 1}
INVARIANTS TypeOK ScriptOnlyIfInOrder StatusIsTrue
PROPERTIES ProgramEnds
