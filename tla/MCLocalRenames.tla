--------------------------- MODULE MCLocalRenames ---------------------------
(***************************************************************************)
(* Small instances of LocalRenames: "a~" and "b~" are decomposed names,    *)
(* "a" and "b" their NFC forms, "c" is normalized already.                 *)
(***************************************************************************)
EXTENDS LocalRenames

MCNames == {"a~", "a", "b~", "b", "c"}
MCNormalized == [name \in MCNames |->
                    CASE name = "a~" -> "a" [] name = "b~" -> "b" [] OTHER -> name]
MCPlans == {<<"a~", "c", "b~">>, <<"a~">>, <<>>}
MCMaxForeign == [names \in MCPlans |-> IF Len(names) = 1 THEN 3 ELSE 2]
=============================================================================
