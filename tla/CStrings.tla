------------------------------ MODULE CStrings ------------------------------
(* Text as sequences of characters, and what the C library takes of it.    *)
EXTENDS Naturals, Sequences

CONSTANTS Nul, Space, Newline

(* How far strlen() gets.                                                  *)
StrLen(s) ==
    CHOOSE n \in 0 .. Len(s) :
        /\ \A i \in 1 .. n : s[i] # Nul
        /\ n = Len(s) \/ s[n + 1] = Nul

(* What printf("%s") prints and strtok() looks at.                         *)
Terminated(s) == SubSeq(s, 1, StrLen(s))

(* Where the parts of s begin that the characters in Separators divide.    *)
Starts(s, Separators) ==
    {i \in DOMAIN s : s[i] \notin Separators
                        /\ (i = 1 \/ s[i - 1] \in Separators)}
=============================================================================
