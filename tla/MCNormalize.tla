---------------------------- MODULE MCNormalize ----------------------------
(***************************************************************************)
(* Small instances of Normalize.  "a~" and "b~" are decomposed names,      *)
(* "a" and "b" their NFC forms, "at" and "bt" their temporary names, "c" a *)
(* name that is already normalized and "long" the NFC form of "long~",     *)
(* which exceeds the length limit.                                         *)
(***************************************************************************)
EXTENDS Normalize

MCNames == {"a~", "a", "at", "b~", "b", "bt", "c", "long~", "long"}
MCNormalized == [name \in MCNames |->
                    CASE name = "a~" -> "a" [] name = "b~" -> "b"
                      [] name = "long~" -> "long" [] OTHER -> name]
MCTemporary == [name \in MCNames |->
                    IF name = "a~" THEN "at" ELSE "bt"]

(* Two moves beside a bystander, a collision, a name that gets too long,   *)
(* nothing to do.                                                          *)
MCListings == {<<"a~", "b~", "c">>, <<"a", "a~">>, <<"a~", "long~">>, <<>>}
OneMove == {<<"a~">>}
=============================================================================
