---------------------------- MODULE MCReloading ----------------------------
(* Mail that works, and settings that are refused after an edit. *)
EXTENDS Reloading

MCEdits == {<<"good", "bad">>}
=============================================================================
