--------------------------- MODULE MCCloudCommand ---------------------------
(***************************************************************************)
(* Small instances of CloudCommand.  With pipes of one unit, the first     *)
(* child fills both outputs before it reads its input, the second one      *)
(* writes while it reads, and the third neither reads nor writes.          *)
(***************************************************************************)
EXTENDS CloudCommand

MCPrograms == {<<"stderr", "stderr", "stdout", "stdout", "stdin", "stdin">>,
               <<"stdin", "stdout", "stdin", "stdout", "stdin", "stderr">>,
               <<>>}
=============================================================================
