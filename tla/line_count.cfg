\* A text with an empty line, two lines, zeros, a missing file; every option.
SPECIFICATION Spec
CONSTANTS
  Nul = Nul
  Space = Space
  Newline = Newline
  Missing = Missing
  Letter = Letter
  BufLen = 3
  ArgLists <- Arguments
  OptionLists <- Options
INVARIANTS LinesCounted
\* Both programs end.
CHECK_DEADLOCK FALSE
