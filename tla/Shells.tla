-------------------------------- MODULE Shells --------------------------------
(***************************************************************************)
(* One command run by shell.Run (tools/shell/exec.go) for the Bash or the  *)
(* PowerShell tool, in the foreground of a tool call or as the runner of a *)
(* background job.                                                         *)
(*                                                                         *)
(* The shell may leave children that hold its output open.  Those of its   *)
(* process group are killed with it; one that has left the group is not.   *)
(* exec.Cmd watches the context only until the shell itself has been       *)
(* waited for; Wait returns when, besides, everybody has closed the        *)
(* output.  What a command prints is counted in chunks, and which commands *)
(* are allowed (security.go) is left out.                                  *)
(***************************************************************************)
EXTENDS Integers

CONSTANT MaxOutput   \* chunks a call in the foreground keeps

ASSUME OutputAssumption == MaxOutput \in Nat

VARIABLES
    tool,        \* "Bash" or "PowerShell"
    place,       \* "foreground" or "background", once started
    shell,       \* the shell: "none", "running", "exited", "killed", "waited"
    holders,     \* children that hold the output open: in its group, or apart
    exit,        \* its exit status: "ok", "bad" or "none"
    printed,     \* chunks in the buffer, and whether some were dropped
    context,     \* why runCtx ended: "live", "deadline", "cancelled"
    stopped,     \* the caller's context was cancelled: the turn's, or the job's
    commandOutcome      \* what the call or the job reports

shellVars == <<tool, place, shell, holders, exit, printed, context, stopped, commandOutcome>>

ShellInit ==
    /\ tool \in {"Bash", "PowerShell"}
    /\ place = "none" /\ shell = "none" /\ holders = {} /\ exit = "none"
    /\ printed = [chunks |-> 0, truncated |-> FALSE]
    /\ context = "live" /\ stopped = FALSE /\ commandOutcome = "none"

-------------------------------------------------------------------------------
Unstarted == place = "none" /\ commandOutcome = "none"

(* Input that is not valid, or a job without a manager to keep it. *)
RefuseCommand ==
    /\ Unstarted /\ commandOutcome' = "refused"
    /\ UNCHANGED <<tool, place, shell, holders, exit, printed, context, stopped>>

StartIn(where) ==
    /\ Unstarted
    /\ place' = where
    /\ \/ shell' = "running" /\ UNCHANGED commandOutcome
       \/ shell' = "none" /\ commandOutcome' = "failed"     \* cmd.Start
    /\ UNCHANGED <<tool, holders, exit, printed, context, stopped>>

(* Each tool runs the command itself, for as long as the turn lasts, ... *)
CallBash       == tool = "Bash" /\ StartIn("foreground")
CallPowerShell == tool = "PowerShell" /\ StartIn("foreground")

(* ... or hands it to the manager of jobs, whose context is a new one. *)
BackgroundBash       == tool = "Bash" /\ StartIn("background")
BackgroundPowerShell == tool = "PowerShell" /\ StartIn("background")

-------------------------------------------------------------------------------
(* The command.                                                             *)

Alive == shell = "running" \/ holders # {}

(* truncatingBuffer.Write: the buffer of a job has no limit of its own. *)
WriteOutput ==
    /\ Alive
    /\ IF printed.chunks < MaxOutput
       THEN printed' = [printed EXCEPT !.chunks = @ + 1]
       ELSE place = "foreground" /\ printed' = [printed EXCEPT !.truncated = TRUE]
    /\ UNCHANGED <<tool, place, shell, holders, exit, context, stopped, commandOutcome>>

SpawnCommand ==
    /\ shell = "running"
    /\ \E h \in {"group", "apart"} : holders' = holders \cup {h}
    /\ UNCHANGED <<tool, place, shell, exit, printed, context, stopped, commandOutcome>>

ChildEnds ==
    /\ \E h \in holders : holders' = holders \ {h}
    /\ UNCHANGED <<tool, place, shell, exit, printed, context, stopped, commandOutcome>>

ShellExits ==
    /\ shell = "running"
    /\ shell' = "exited"
    /\ exit' \in {"ok", "bad"}
    /\ UNCHANGED <<tool, place, holders, printed, context, stopped, commandOutcome>>

-------------------------------------------------------------------------------
(* The contexts.  runCtx has the deadline and follows the caller's; what    *)
(* ends it first is its error for good.                                    *)

Deadline ==
    /\ place # "none" /\ context = "live" /\ commandOutcome = "none"
    /\ context' = "deadline"
    /\ UNCHANGED <<tool, place, shell, holders, exit, printed, stopped, commandOutcome>>

(* The turn is aborted, or TaskStop stops the job. *)
Cancel ==
    /\ place # "none" /\ ~stopped
    /\ stopped' = TRUE
    /\ context' = IF context = "live" THEN "cancelled" ELSE context
    /\ UNCHANGED <<tool, place, shell, holders, exit, printed, commandOutcome>>

(* killProcess. *)
Kill ==
    /\ shell = "running" /\ context # "live"
    /\ shell' = "killed"
    /\ holders' = holders \ {"group"}
    /\ UNCHANGED <<tool, place, exit, printed, context, stopped, commandOutcome>>

(* cmd.Wait has the shell's status; nobody watches the context any more. *)
Waited ==
    /\ shell \in {"exited", "killed"}
    /\ shell' = "waited"
    /\ exit' = IF shell = "killed" THEN "killed" ELSE exit
    /\ UNCHANGED <<tool, place, holders, printed, context, stopped, commandOutcome>>

Returned == shell = "waited" /\ holders = {} /\ commandOutcome = "none"

(* The cause of the end, read off the contexts when all is over. *)
Classified == IF context = "deadline" THEN "timed out"
              ELSE IF stopped THEN "cancelled" ELSE "exited"

CallReturns ==
    /\ Returned /\ place = "foreground"
    /\ commandOutcome' = Classified
    /\ UNCHANGED <<tool, place, shell, holders, exit, printed, context, stopped>>

(* The runner hands an error to the manager, which reads the job's context *)
(* once more, so that a late TaskStop turns a timeout into a cancel.       *)
JobReturns ==
    /\ Returned /\ place = "background"
    /\ commandOutcome' = IF Classified = "exited" THEN "succeeded"
                  ELSE IF stopped THEN "cancelled" ELSE "failed"
    /\ UNCHANGED <<tool, place, shell, holders, exit, printed, context, stopped>>

ShellNext ==
    \/ RefuseCommand
    \/ CallBash \/ CallPowerShell \/ BackgroundBash \/ BackgroundPowerShell
    \/ WriteOutput \/ SpawnCommand \/ ChildEnds \/ ShellExits
    \/ Deadline \/ Cancel \/ Kill \/ Waited
    \/ CallReturns \/ JobReturns

-------------------------------------------------------------------------------
(* Types of a command's state. *)
ShellTypeOK ==
    /\ tool \in {"Bash", "PowerShell"}
    /\ place \in {"none", "foreground", "background"}
    /\ shell \in {"none", "running", "exited", "killed", "waited"}
    /\ holders \subseteq {"group", "apart"}
    /\ exit \in {"none", "ok", "bad", "killed"}
    /\ printed \in [chunks : 0..MaxOutput, truncated : BOOLEAN]
    /\ context \in {"live", "deadline", "cancelled"}
    /\ stopped \in BOOLEAN
    /\ commandOutcome \in {"none", "refused", "failed", "exited", "timed out", "cancelled", "succeeded"}

(* A command that Run killed is never reported as one that ended by        *)
(* itself, and one is cancelled only if somebody cancelled it              *)
(* (exec.go:113-118, bash.go:241-246, bg/manager.go:135-143).              *)
OutcomeNamesTheCause ==
    /\ commandOutcome \in {"exited", "succeeded"} => exit # "killed"
    /\ commandOutcome = "cancelled" => stopped
    /\ commandOutcome = "timed out" => context = "deadline"
===============================================================================
