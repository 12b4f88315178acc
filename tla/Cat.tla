-------------------------------- MODULE Cat --------------------------------
(***************************************************************************)
(* cv1/cat2.cpp: prints the files named by its arguments, one after the    *)
(* other.  A file is the text in it, or Missing.                           *)
(***************************************************************************)
EXTENDS CStrings

CONSTANTS Missing,  \* a file that does not exist or cannot be opened
          BufLen,   \* BUFSIZ-1
          ArgLists  \* the arguments it may be started with

VARIABLES
    cat,    \* where it stands
    files,  \* the arguments not opened yet
    left,   \* what has not been read of the open file
    out     \* the standard output

catVars == <<cat, files, left, out>>

InitCat == cat = "open" /\ files \in ArgLists /\ left = <<>> /\ out = <<>>

-----------------------------------------------------------------------------
Open ==
    /\ cat = "open" /\ files # <<>> /\ Head(files) # Missing
    /\ left' = Head(files) /\ files' = Tail(files)
    /\ cat' = "copy"
    /\ UNCHANGED out

(* The files after one that cannot be opened are not printed.              *)
OpenFails ==
    /\ cat = "open" /\ files # <<>> /\ Head(files) = Missing
    /\ cat' = "exit"
    /\ UNCHANGED <<files, left, out>>

(* read() and printf(), which ends at the first zero.                      *)
Copy ==
    /\ cat = "copy"
    /\ \E n \in 1 .. Len(left) :
          /\ n <= BufLen
          /\ out' = out \o Terminated(SubSeq(left, 1, n))
          /\ left' = SubSeq(left, n + 1, Len(left))
    /\ UNCHANGED <<cat, files>>

(* The end of the file, or a read() that fails and is not reported.        *)
EndOfFile ==
    /\ cat = "copy"
    /\ cat' = "open" /\ left' = <<>>
    /\ UNCHANGED <<files, out>>

(* After the last file, and without arguments.                             *)
ExitCat ==
    /\ cat = "open" /\ files = <<>>
    /\ cat' = "exit"
    /\ UNCHANGED <<files, left, out>>

NextCat == Open \/ OpenFails \/ Copy \/ EndOfFile \/ ExitCat
=============================================================================
