----------------------------- MODULE MCEventFeed -----------------------------
(***************************************************************************)
(* A browser tab that follows one plan. The writes of others add an event  *)
(* of each source; its own commands are one with an event and one without. *)
(***************************************************************************)
EXTENDS EventFeed

OthersWrites == {"task", "failed", "agent"}
Followed == {"plan", "plans"}
OwnCommands == {"state", "edit"}
=============================================================================
