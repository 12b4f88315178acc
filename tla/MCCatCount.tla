---------------------------- MODULE MCCatCount ----------------------------
(* Instances of CatCount for TLC.                                          *)
EXTENDS CatCount

CONSTANT Letter

Poem   == <<Letter, Newline, Newline, Letter, Newline>>
Prose  == <<Letter, Space, Letter, Newline>>
Binary == <<Letter, Nul, Letter>>

Arguments == {<<>>, <<Poem>>, <<Prose, Binary>>, <<Prose, Missing, Poem>>}
Options   == {<<"l">>, <<"w">>, <<"c">>, <<"c", "l">>, <<"x">>}
=============================================================================
