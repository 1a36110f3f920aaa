------------------------------- MODULE MCAgent -------------------------------
(***************************************************************************)
(* Instances of Agent small enough for TLC.  A behaviour may stop only     *)
(* when every run that was started is over for its tracker, or when its    *)
(* caller has stopped reading: any other state without a step is reported  *)
(* as a deadlock.                                                          *)
(***************************************************************************)
EXTENDS Agent

E(type, turn, call, calls) == [type |-> type, turn |-> turn, call |-> call, calls |-> calls]

(* The first run has a turn with one tool call, or fails in it; the second *)
(* is cancelled, before or after its answer.                               *)
OneToolThenAnswer ==
    <<{E("agent_start", 0, 0, 0), E("turn_start", 1, 0, 0), E("message_start", 1, 0, 0),
       E("message_end", 1, 0, 0), E("turn_end", 1, 0, -1), E("turn_end", 1, 0, 1),
       E("tool_start", 1, 1, 0), E("tool_end", 1, 1, 0), E("agent_end", 1, 0, 0)},
      {E("agent_start", 0, 0, 0), E("turn_start", 1, 0, 0), E("turn_end", 1, 0, 0),
       E("error", 1, 0, 0)}>>

Stopped ==
    /\ caller = "free"
    /\ \A r \in 1..run : tracker[r] = "done"

MCSpec == Init /\ [][Next \/ (Stopped /\ UNCHANGED vars)]_vars /\ Fairness
================================================================================
