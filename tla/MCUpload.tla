----------------------------- MODULE MCUpload -----------------------------
(***************************************************************************)
(* Small instances of Upload: files that become "a" and "b", staged as     *)
(* "as" and "bs", a file whose staging name is too long, a file with the   *)
(* name of the lock object, a bucket with just the lock, or with an object *)
(* of a target's name and a bystander "c" as well.  "e1" and "e2" are      *)
(* contents that edits leave, and "big" is a large file.  FewNames are     *)
(* what one file needs when other writers are about: "a" is small, "c" is  *)
(* large, an edit leaves the content "as", and what is put together from   *)
(* two versions of "c" has the content "a".                                *)
(***************************************************************************)
EXTENDS Upload

MCNames == {"a", "as", "b", "bs", "c", "long", "longs",
            "lock", "locks", "big", "e1", "e2", "mixed"}
MCStaging == [name \in MCNames |->
                 CASE name = "a" -> "as" [] name = "long" -> "longs"
                   [] name = "lock" -> "locks" [] OTHER -> "bs"]
MCDiscoveries == {<<"a", "b">>, <<"a", "long">>, <<"a", "lock">>, <<"big">>, <<>>}
OneFile == {<<"a">>}
OneOfEach == {<<"a">>, <<"c">>}
MCBuckets == {{"lock"}, {"b", "c", "lock"}}
JustLocked == {{"lock"}}
Empty == {{}}
FewNames == {"a", "as", "c"}
FewStaging == [name \in FewNames |-> "as"]
NoEdits == <<>>
OneEdit == <<"as">>
TwoEdits == <<"e1", "e2">>
=============================================================================
