------------------------------ MODULE Inspection ------------------------------
(***************************************************************************)
(* One inspection by the orchestrator of agents/safeagent: the Task tool   *)
(* that runs a sub-agent and reports its answer, and the tool with which   *)
(* the vision agent looks at the frames of a window, oldest first.         *)
(*                                                                         *)
(* The models decide which sub-agent runs and what it says.  A sub-agent   *)
(* is an Agent of agentcore; here a run is what its events tell: text,     *)
(* then an end.  The detector and the vision model are taken to be right   *)
(* about what they look at, or to fail; a model that is shown nothing may  *)
(* say anything.  What is left to go wrong is which frames are looked at   *)
(* and what becomes of a failure.                                          *)
(***************************************************************************)
EXTENDS Integers, Sequences, FiniteSets

CONSTANTS
    MaxFrames,    \* frames of a window (getFrameWindow asks for 3)
    MaxText       \* bound: text deltas of a sub-agent's run

ASSUME InspectionAssumption == MaxFrames \in Nat /\ MaxText \in Nat

VARIABLES
    frames,       \* what the frames of the window show, oldest first
    detector,     \* a detector is configured
    sub,          \* the sub-agent that runs, and how far its run is
    text,         \* the text it has sent (strings.Builder)
    task,         \* the result of the last Task call
    look,         \* the call of detect_objects under way
    verdict       \* its DetectionResult: what it says ("clear": no violations),
                  \* whether sure of it (a confidence above 0.7), by whom, of
                  \* which frames, and which it had

inspectionVars == <<frames, detector, sub, text, task, look, verdict>>

AgentTypes == {"vision_agent", "analysis_agent", "closure_agent"}

NoSub == [type |-> "none", run |-> "none"]
NoLook == [at |-> "idle", have |-> {}]
NoVerdict == [says |-> "nothing", sure |-> FALSE, by |-> "none", of |-> {}, had |-> {}]
NoResult == [status |-> "none", run |-> "none"]

Shows(S, what) == \E i \in S : frames[i] = what

InspectionInit ==
    /\ frames \in UNION {[1..n -> {"clean", "danger"}] : n \in 1..MaxFrames}
    /\ detector \in BOOLEAN
    /\ sub = NoSub /\ text = 0 /\ task = NoResult
    /\ look = NoLook /\ verdict = NoVerdict

-------------------------------------------------------------------------------
(* Task.                                                                    *)

TaskResult(status) == task' = [status |-> status, run |-> sub.run] /\ sub' = NoSub

(* A type that no sub-agent has is refused when it is spawned: Execute     *)
(* does not ask ValidateInput.                                             *)
SpawnUnknown ==
    /\ sub = NoSub /\ TaskResult("error")
    /\ UNCHANGED <<frames, detector, text, look, verdict>>

(* Each call has an agent of its own with an empty conversation. *)
Spawn(type) ==
    /\ sub = NoSub
    /\ sub' = [type |-> type, run |-> "running"]
    /\ text' = 0 /\ task' = NoResult
    /\ look' = NoLook /\ verdict' = NoVerdict
    /\ UNCHANGED <<frames, detector>>

Says ==
    /\ sub.run = "running" /\ look = NoLook /\ text < MaxText
    /\ text' = text + 1
    /\ UNCHANGED <<frames, detector, sub, task, look, verdict>>

(* How a run ends (runLoop, loop.go:50-96): with its last turn; with the   *)
(* message of a failure in place of that turn, when the provider or the    *)
(* budget refuses; with an error event, when it is cancelled, or without   *)
(* one, when the tracker gave up before it was forwarded.                  *)
RunEnds(how) ==
    /\ sub.run = "running" /\ look = NoLook
    /\ sub' = [sub EXCEPT !.run = how]
    /\ UNCHANGED <<frames, detector, text, task, look, verdict>>

(* buildSpawnSubAgent: an error event is an error; every other end is the  *)
(* text there is, and Task calls it completed.                             *)
Collect ==
    /\ sub.run \in {"answered", "failed", "error event", "cut off"}
    /\ TaskResult(IF sub.run = "error event" THEN "error" ELSE "completed")
    /\ UNCHANGED <<frames, detector, text, look, verdict>>

-------------------------------------------------------------------------------
(* detect_objects.                                                          *)

(* The frames that can be had are fetched at once; others are left empty. *)
FetchFrames ==
    /\ sub.type = "vision_agent" /\ sub.run = "running" /\ look = NoLook
    /\ \E have \in SUBSET DOMAIN frames : look' = [at |-> "detector", have |-> have]
    /\ UNCHANGED <<frames, detector, sub, text, task, verdict>>

Verdict(says, sure, by, of) ==
    /\ verdict' = [says |-> says, sure |-> sure, by |-> by, of |-> of, had |-> look.have]
    /\ look' = NoLook
    /\ UNCHANGED <<frames, detector, sub, text, task>>

(* The detector is asked about the first frame, alone. *)
Asks == detector /\ 1 \in look.have

Detector ==
    /\ look.at = "detector" /\ Asks
    /\ Verdict(IF Shows({1}, "danger") THEN "violations" ELSE "clear", TRUE, "detector", {1})

(* A doubtful frame, or no answer, or no detector, or no first frame. *)
AskModel ==
    /\ look.at = "detector"
    /\ look' = [look EXCEPT !.at = "model"]
    /\ UNCHANGED <<frames, detector, sub, text, task, verdict>>

(* What one who looked at the frames of seen may say of them, and what one *)
(* who saw none.                                                           *)
Sayings(seen) ==
    {says \in {"clear", "violations"} :
        seen = {} \/ (says = "violations" <=> Shows(seen, "danger"))}

(* Mutant: the model, like the detector, is shown one frame. *)
ModelFirst ==
    /\ look.at = "model"
    /\ LET seen == {i \in look.have : \A j \in look.have : i <= j}
       IN \/ \E says \in Sayings(seen), sure \in BOOLEAN : Verdict(says, sure, "model", look.have)
          \/ Verdict("clear", FALSE, "model", {})
          \/ Verdict("error", FALSE, "model", {})

(* The model is shown every frame that was fetched, the text alone when    *)
(* none was, and says how sure it is.  What it answers may not be JSON:    *)
(* then it becomes the summary of a result without violations and with a   *)
(* confidence of just 0.7.                                                 *)
Model ==
    /\ look.at = "model"
    /\ \/ \E says \in Sayings(look.have), sure \in BOOLEAN : Verdict(says, sure, "model", look.have)
       \/ Verdict("clear", FALSE, "model", {})
       \/ Verdict("error", FALSE, "model", {})

InspectionNext ==
    \/ SpawnUnknown
    \/ \E t \in AgentTypes : Spawn(t)
    \/ Says
    \/ \E how \in {"answered", "failed", "error event", "cut off"} : RunEnds(how)
    \/ Collect
    \/ FetchFrames \/ Detector \/ AskModel \/ Model

-------------------------------------------------------------------------------
(* Types of an inspection's state. *)
InspectionTypeOK ==
    /\ detector \in BOOLEAN
    /\ sub.type \in AgentTypes \cup {"none"}
    /\ text \in 0..MaxText
    /\ look.at \in {"idle", "detector", "model"} /\ look.have \subseteq DOMAIN frames
    /\ verdict.says \in {"nothing", "clear", "violations", "error"}
    /\ verdict.sure \in BOOLEAN /\ verdict.of \subseteq DOMAIN frames

(* OrchestratorPrompt skips all that follows, as a safe scene, when there  *)
(* are no violations and the confidence is above 0.7 (prompts.go:15).      *)
CalledSafe == verdict.says = "clear" /\ verdict.sure

(* What is called safe was looked at, unless there was no picture to look  *)
(* at: of the frames the answer is of none shows a danger, and of those    *)
(* that were fetched none does unless the detector spoke, which had the    *)
(* oldest frame alone.  An answer that was not JSON calls nothing safe,    *)
(* and a violation was seen.  With no picture at all the model's word is   *)
(* the answer, whatever it is (tools.go:205-294).  And a task that is      *)
(* completed had no run which told its error (safeagent.go:128-140).       *)
SafeWasSeen ==
    /\ CalledSafe => ~Shows(verdict.of, "danger") /\ (verdict.of # {} \/ verdict.had = {})
    /\ CalledSafe /\ Shows(verdict.had, "danger") =>
          verdict.by = "detector" /\ verdict.of = {1}
    /\ verdict.says = "violations" => Shows(verdict.of, "danger") \/ verdict.had = {}
    /\ task.status = "completed" => task.run # "error event"
===============================================================================
