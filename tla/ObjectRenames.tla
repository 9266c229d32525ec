--------------------------- MODULE ObjectRenames ---------------------------
(***************************************************************************)
(* What the normalize workflow promises about a bucket, without requests,  *)
(* generations, staging and rollback: contents get and lose names one at a *)
(* time, no content ever loses its last name and no name is taken over,    *)
(* and the workflow ends with every content under its new name, or with    *)
(* every content under its old one, or by telling the operator to look.    *)
(***************************************************************************)
CONSTANTS
    Names,
    Renamed    \* the name each content is to get; a content is called after
               \* the name it has at the start

VARIABLES
    locations, \* the names under which each content is found
    status

vars == <<locations, status>>

Free(name) == \A content \in Names : name \notin locations[content]

Init ==
    /\ \E listed \in SUBSET Names :
          locations = [content \in Names |-> IF content \in listed THEN {content} ELSE {}]
    /\ status = "running"

(* A copy of a content appears under a name that is not taken. *)
Copy(content, name) ==
    /\ status = "running" /\ locations[content] # {} /\ Free(name)
    /\ locations' = [locations EXCEPT ![content] = @ \cup {name}]
    /\ UNCHANGED status

(* A copy disappears, but never the last one. *)
Drop(content, name) ==
    /\ status = "running" /\ name \in locations[content]
    /\ locations[content] # {name}
    /\ locations' = [locations EXCEPT ![content] = @ \ {name}]
    /\ UNCHANGED status

Finish ==
    /\ status = "running"
    /\ \/ status' = "renamed" /\ \A content \in Names : locations[content] \subseteq {Renamed[content]}
       \/ status' = "unchanged" /\ \A content \in Names : locations[content] \subseteq {content}
       \/ status' = "look"
    /\ UNCHANGED locations

Next ==
    \/ \E content, name \in Names : Copy(content, name) \/ Drop(content, name)
    \/ Finish

Spec == Init /\ [][Next]_vars
=============================================================================
