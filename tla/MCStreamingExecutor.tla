------------------------- MODULE MCStreamingExecutor -------------------------
(***************************************************************************)
(* Instances of StreamingExecutor small enough for TLC.  A behaviour may   *)
(* stop when no tool has anything left to do; a client that sleeps then is *)
(* the subject of WaitEnds.                                                *)
(***************************************************************************)
EXTENDS StreamingExecutor

AllStreams == [Tools -> Kinds]

Stopped == AllDone /\ scans = 0 /\ \A i \in Tools : exec[i] \in {"none", "ended"}

MCSpec == Init /\ [][Next \/ (Stopped /\ UNCHANGED vars)]_vars /\ Fairness
================================================================================
