---------------------------- MODULE MCMvRefresh ----------------------------
(* Three views over a table with a trigger and one without. *)
EXTENDS MvRefresh

CONSTANTS inventory, sharing, copilot, drives, sessions

MCViews == {inventory, sharing, copilot}
MCTables == {drives, sessions}
MCDependsOn == {<<inventory, drives>>, <<sharing, drives>>, <<copilot, sessions>>}
=============================================================================
