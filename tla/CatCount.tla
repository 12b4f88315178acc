------------------------------ MODULE CatCount ------------------------------
(***************************************************************************)
(* The two programs of cv1, written for one assignment, as a shell runs    *)
(* "cat files | cnt -l": what cat prints is what cnt receives, and ends    *)
(* when cat does.                                                          *)
(***************************************************************************)
EXTENDS Cat, Integers, FiniteSets

CONSTANT OptionLists  \* the options cnt may be started with

VARIABLES cnt, options, taken, option, local, count

W == INSTANCE WordCount WITH stdin <- out, ended <- (cat = "exit")

cntVars == <<cnt, options, taken, option, local, count>>
vars == <<catVars, cntVars>>

Init == InitCat /\ W!InitCnt

Next ==
    \/ NextCat /\ UNCHANGED cntVars
    \/ W!NextCnt /\ UNCHANGED catVars

Spec == Init /\ [][Next]_vars
-----------------------------------------------------------------------------
(* Properties.                                                             *)

(* The assignment of cnt: with -l it prints the number of lines it has     *)
(* received, the empty ones not counted.                                   *)
LinesCounted ==
    cnt = "printed" /\ options = <<"l">>
        => count = Cardinality(Starts(out, {Newline}))

(* With -c it prints the number of characters it has received, however the *)
(* reads divide them: cat never prints a zero, at which a count would end. *)
CharsCounted ==
    cnt = "printed" /\ options = <<"c">> => count = Len(out)
=============================================================================
