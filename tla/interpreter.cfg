\* All pipelines of up to three stages, two lines one after the other, the
\* output a terminal or not.
SPECIFICATION FairSpec
CONSTANTS
  Lines <- AllLines
  PipeCap = 3
  BufCap = 2
  MaxLines = 2
INVARIANTS PrefixPrinted InputFits
PROPERTIES LineDone
\* The interpreter may hang or end.
CHECK_DEADLOCK FALSE
