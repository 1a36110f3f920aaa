---------------------------- MODULE MCVideoSession ----------------------------
(***************************************************************************)
(* Instances of VideoSession small enough for TLC.  The process may stop   *)
(* only after a panic, or once the session is closed and its events are    *)
(* read: any other state without a step is reported as a deadlock.         *)
(***************************************************************************)
EXTENDS VideoSession

(* The browser posts frames without waiting for one another. *)
Orders == {<<1, 2, 3>>, <<2, 1, 2>>}
OneIndex == {[j \in Jobs |-> 1]}

Stopped == panicked \/ (eventsClosed /\ events = <<>>)

MCSpec == Init /\ [][Next \/ (Stopped /\ UNCHANGED vars)]_vars /\ Fairness
===============================================================================
