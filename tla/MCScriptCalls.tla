--------------------------- MODULE MCScriptCalls ---------------------------
(* Lists of up to four elements; tables with one string as key and another *)
(* as value, and three tables with up to two pairs each, cycles included.  *)
(* Number 0 stands for the least integer, 2 for a fraction, 1 for any other *)
(* integer, which a float may be equal to.                                 *)
EXTENDS ScriptCalls
MCSlots == 0..4
Strs == UNION {[1..n -> Byte] : n \in 0..2}
OnePair == {<<<<"str", s>>, <<"str", t>>>> : s, t \in Strs}
Strings == {<<{p}, {}, {}>> : p \in OnePair}
Key1 == {<<"int", 1>>, <<"float", 2>>, <<"str", <<"r">>>>, <<"inf", 0>>, <<"neginf", 0>>,
         <<"true", 0>>}
Val1 == {<<"int", 0>>, <<"int", 1>>, <<"float", 1>>, <<"float", 2>>, <<"true", 0>>,
         <<"inf", 0>>, <<"neginf", 0>>, <<"fun", 0>>} \cup ({"tab"} \X Id)
OneIn == {{}} \cup {{<<k, v>>} : k \in Key1, v \in Val1}
TwoIn == OneIn \cup {{<<<<"int", 1>>, v>>, <<<<"str", <<"r">>>>, w>>} : v, w \in Val1}
LastIn == {{}, {<<<<"int", 1>>, <<"tab", Root>>>>}}
Nests == {<<r, m, l>> : r \in TwoIn, m \in OneIn, l \in LastIn}
MCHeaps == Strings \cup Nests
=============================================================================
