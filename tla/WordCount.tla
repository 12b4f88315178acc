----------------------------- MODULE WordCount -----------------------------
(***************************************************************************)
(* cv1/cnt2.cpp: counts the characters, words or lines of its standard     *)
(* input, once for each of its options, and prints the last count.         *)
(***************************************************************************)
EXTENDS CStrings, Integers, FiniteSets

CONSTANTS BufLen,      \* BUFSIZ-1
          OptionLists  \* the options it may be started with

VARIABLES
    stdin,    \* all that arrives on the standard input, read or not
    ended,    \* nothing more will arrive
    cnt,      \* where it stands
    options,  \* the options it was started with
    taken,    \* how much of stdin it has read
    option,   \* how many options getopt() has returned
    local,    \* count of the function that is running
    count     \* count of main

cntVars == <<cnt, options, taken, option, local, count>>

InitCnt ==
    /\ cnt = "getopt" /\ options \in OptionLists
    /\ taken = 0 /\ option = 0 /\ local = 0 /\ count = -1

-----------------------------------------------------------------------------
(* The three functions differ in what they add for the buffer s.  A word   *)
(* ends with a space, a newline does not end it.                           *)
Counted(s) ==
    CASE options[option] = "c" -> StrLen(s)
      [] options[option] = "w" -> Cardinality(Starts(Terminated(s), {Space}))
      [] options[option] = "l" -> 1

GetOption ==
    /\ cnt = "getopt" /\ option < Len(options)
    /\ option' = option + 1
    /\ local' = 0
    /\ cnt' = IF options[option + 1] \in {"c", "w", "l"} THEN "read" ELSE "failed"
    /\ UNCHANGED <<options, taken, count>>

(* read() returns any part of what has arrived.                            *)
Read ==
    /\ cnt = "read"
    /\ \E n \in 1 .. Len(stdin) - taken :
          /\ n <= BufLen
          /\ local' = local + Counted(SubSeq(stdin, taken + 1, taken + n))
          /\ taken' = taken + n
    /\ UNCHANGED <<cnt, options, option, count>>

(* A further option would find the input at its end.                       *)
ReadEnd ==
    /\ cnt = "read"
    /\ taken = Len(stdin) /\ ended
    /\ count' = local
    /\ cnt' = "getopt"
    /\ UNCHANGED <<options, taken, option, local>>

ReadFails ==
    /\ cnt = "read"
    /\ cnt' = "failed"
    /\ UNCHANGED <<options, taken, option, local, count>>

PrintCount ==
    /\ cnt = "getopt" /\ option = Len(options)
    /\ cnt' = "printed"
    /\ UNCHANGED <<options, taken, option, local, count>>

NextCnt == GetOption \/ Read \/ ReadEnd \/ ReadFails \/ PrintCount
=============================================================================
