SPECIFICATION Spec
CONSTANTS
  NULL = NULL
  MAX_ARGS_COUNT = 3
  MAX_STRING_SIZE = 8
  Char <- MCChar
  Space = " "
  Newline = "n"
  Quote = "q"
  Lower <- MCLower
  Inputs <- MCInputs
  Exit <- ExitWord
  Rem <- RemWord
  Help <- HelpWord
  cmds <- MCcmds
  Returns <- MCReturns
  Undocumented = {5}
INVARIANT OnlyExitExits
