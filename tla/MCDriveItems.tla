---------------------------- MODULE MCDriveItems ----------------------------
(* Two items of one drive; they are interchangeable. *)
EXTENDS DriveItems, TLC

Interchangeable == Permutations(Items)
=============================================================================
