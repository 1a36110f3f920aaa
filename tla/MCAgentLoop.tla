------------------------------ MODULE MCAgentLoop ------------------------------
(***************************************************************************)
(* Instances of AgentLoop small enough for TLC.  A run may stop only once  *)
(* its channel is closed and read and its SyncTurn goroutines have ended:  *)
(* any other state without a step is reported as a deadlock.               *)
(***************************************************************************)
EXTENDS AgentLoop

Prompted == {<<Msg("user", 0, 0)>>}

(* A conversation that earlier runs have left: one answered prompt, one    *)
(* whose run failed, and the new prompt.                                   *)
Continued == {<<Msg("user", 0, 0), Msg("assistant", 0, 0), Msg("user", 0, 0)>>,
              <<Msg("user", 0, 0), Msg("failure", 0, 0), Msg("user", 0, 0)>>}

Stopped == pc = "done" /\ received = Len(sent) /\ syncing = {}

MCSpec == Init /\ [][Next \/ (Stopped /\ UNCHANGED vars)]_vars /\ Fairness
================================================================================
