------------------------------ MODULE Compaction ------------------------------
(***************************************************************************)
(* Keeping a conversation within the model's window: the engines of        *)
(* agentcore/contextmgr behind LoopAdapter, the check the loop makes       *)
(* before every model call, and the conversion of what is left to the      *)
(* messages the model sees.                                                *)
(*                                                                         *)
(* A message is its kind, its place in the history and its estimate in     *)
(* tokens.  A stage of the pipeline whose condition no longer holds after  *)
(* the one before it is skipped, by a break or by its own test: the same.  *)
(***************************************************************************)
EXTENDS Integers, Sequences, SequencesExt, FiniteSets, Selections

CONSTANTS
    Engines,          \* engines the loop may be given: "estimator" (also the compactor), "pipeline"
    Window,           \* settings.MaxTokens
    HeadN, TailN,     \* messages protected at both ends
    Target,           \* tokens aimed at: MaxTokens * TargetRatio, or half of MaxTokens
    ResultSize,       \* estimate of a tool result that was truncated
    Sizes,            \* estimates a message may have
    MaxHistory        \* bound: messages ever said

ASSUME CompactionAssumption ==
    /\ {Window, HeadN, TailN, Target, ResultSize} \cup Sizes \subseteq Nat
    /\ MaxHistory \in Nat \ {0}

VARIABLES
    engine,
    history,   \* every message said, in order
    kept,      \* conv.Messages
    phase      \* "prepare" before the check, "call" when the model is called,
               \*   "panicked" if the emergency stage sliced too far

compactionVars == <<engine, history, kept, phase>>

Entry(kind, n, size) == [kind |-> kind, n |-> n, size |-> size]

-----------------------------------------------------------------------------
Tokens(s) ==
    LET upTo[n \in 0..Len(s)] == IF n = 0 THEN 0 ELSE upTo[n - 1] + s[n].size
    IN  upTo[Len(s)]

(* The newest messages that fit, and the newest one in any case. *)
KeepNewest(s, budget) ==
    IF s = <<>> THEN <<>>
    ELSE LET start == CHOOSE i \in 1..Len(s) :
                 /\ i = Len(s) \/ Tokens(SubSeq(s, i, Len(s))) <= budget
                 /\ i = 1 \/ Tokens(SubSeq(s, i - 1, Len(s))) > budget
         IN  SubSeq(s, start, Len(s))

(* Mutant: the protected end is put before the messages kept before it. *)
MiddleCompactedSwapped(s, summary) ==
    LET head   == SubSeq(s, 1, HeadN)
        middle == SubSeq(s, HeadN + 1, Len(s) - TailN)
        tail   == SubSeq(s, Len(s) - TailN + 1, Len(s))
        newest == KeepNewest(middle, Max({0, Target - Tokens(head) - Tokens(tail)}))
    IN  IF HeadN + TailN >= Len(s) THEN s
        ELSE head \o (IF Len(newest) < Len(middle) THEN summary ELSE <<>>) \o tail \o newest

(* CharHeuristicEstimator.Compact: the protected ends stay, the middle     *)
(* keeps its newest messages.  summary is empty if there is no summariser  *)
(* or it fails.                                                            *)
MiddleCompacted(s, summary) ==
    LET head   == SubSeq(s, 1, HeadN)
        middle == SubSeq(s, HeadN + 1, Len(s) - TailN)
        tail   == SubSeq(s, Len(s) - TailN + 1, Len(s))
        newest == KeepNewest(middle, Max({0, Target - Tokens(head) - Tokens(tail)}))
    IN  IF HeadN + TailN >= Len(s) THEN s
        ELSE head \o (IF Len(newest) < Len(middle) THEN summary ELSE <<>>) \o newest \o tail

ResultsTruncated(s) ==
    [i \in 1..Len(s) |->
        IF s[i].kind = "tool" /\ s[i].size > ResultSize THEN [s[i] EXCEPT !.size = ResultSize]
        ELSE s[i]]

(* EmergencyTruncator.Compact for a conversation with a whole head; the    *)
(* protected tail is not kept beyond its newest message.                   *)
EmergencyTruncated(s) ==
    LET head == SubSeq(s, 1, HeadN)
    IN  head \o KeepNewest(SubSeq(s, HeadN + 1, Len(s)), Window - Tokens(head))

(* The conditions of the three stages. *)
ResultsTooLong(s) == Tokens(s) > Window \div 4
NearlyFull(s)     == Tokens(s) >= (Window * 8) \div 10
OverFull(s)       == Tokens(s) > Window

AfterResults(s) == IF ResultsTooLong(s) THEN ResultsTruncated(s) ELSE s

AfterMiddle(s, summary) ==
    LET t == AfterResults(s) IN IF NearlyFull(t) THEN MiddleCompacted(t, summary) ELSE t

ShouldCompact(s) ==
    IF engine = "pipeline" THEN ResultsTooLong(s) \/ NearlyFull(s) \/ OverFull(s)
                           ELSE NearlyFull(s)

-----------------------------------------------------------------------------
CompactionInit ==
    /\ engine \in Engines
    /\ \E size \in Sizes : history = <<Entry("user", 1, size)>>
    /\ kept = history
    /\ phase = "prepare"

Within ==
    /\ phase = "prepare" /\ ~ShouldCompact(kept)
    /\ phase' = "call"
    /\ UNCHANGED <<engine, history, kept>>

Summaries == {<<>>} \cup {<<Entry("summary", 0, size)>> : size \in Sizes}

(* CompactMessages of an estimator or a compactor. *)
CompactMiddle ==
    /\ phase = "prepare" /\ engine = "estimator" /\ ShouldCompact(kept)
    /\ \E summary \in Summaries : kept' = MiddleCompacted(kept, summary)
    /\ phase' = "call"
    /\ UNCHANGED <<engine, history>>

(* CompactMessages of the pipeline whose last stage is not needed. *)
CompactStages ==
    /\ phase = "prepare" /\ engine = "pipeline" /\ ShouldCompact(kept)
    /\ \E summary \in Summaries :
         /\ ~OverFull(AfterMiddle(kept, summary))
         /\ kept' = AfterMiddle(kept, summary)
    /\ phase' = "call"
    /\ UNCHANGED <<engine, history>>

CompactEmergency ==
    /\ phase = "prepare" /\ engine = "pipeline"
    /\ \E summary \in Summaries :
         LET s == AfterMiddle(kept, summary)
         IN  /\ OverFull(s) /\ Len(s) >= HeadN
             /\ kept' = EmergencyTruncated(s)
    /\ phase' = "call"
    /\ UNCHANGED <<engine, history>>

(* messages[:head] of a conversation shorter than its protected head, if   *)
(* the slice has no room beyond its length.                                *)
EmergencyPanics ==
    /\ phase = "prepare" /\ engine = "pipeline"
    /\ Len(kept) < HeadN /\ OverFull(AfterResults(kept))
    /\ phase' = "panicked"
    /\ UNCHANGED <<engine, history, kept>>

(* The answer asks for a tool, whose result follows, or it is the last of  *)
(* its run and the next run brings a prompt.                               *)
Converse(first, second) ==
    /\ phase = "call" /\ Len(history) + 2 <= MaxHistory
    /\ \E a, b \in Sizes :
         LET said == <<Entry(first, Len(history) + 1, a), Entry(second, Len(history) + 2, b)>>
         IN  history' = history \o said /\ kept' = kept \o said
    /\ phase' = "prepare"
    /\ UNCHANGED engine

UseTool == Converse("assistant", "tool")
AnswerAndAsk == Converse("assistant", "user")

CompactionNext ==
    \/ Within \/ CompactMiddle \/ CompactStages \/ CompactEmergency \/ EmergencyPanics
    \/ UseTool \/ AnswerAndAsk

-----------------------------------------------------------------------------
CompactionTypeOK ==
    /\ engine \in Engines
    /\ phase \in {"prepare", "call", "panicked"}
    /\ Len(history) \in 1..MaxHistory
    /\ \A i \in 1..Len(history) : history[i].n = i
    /\ \A i \in 1..Len(kept) :
          /\ kept[i].n \in 0..Len(history)
          /\ kept[i].n > 0 => kept[i].kind = history[kept[i].n].kind
                              /\ kept[i].size <= history[kept[i].n].size

(* What the model sees, convert.go:12-24: a summary is hidden and of       *)
(* source "system", and either leaves it out.                              *)
ToModel(s) == Those(s, {i \in DOMAIN s : s[i].kind # "summary"})

(* However often it was compacted, the conversation the model is asked to  *)
(* continue begins with the protected head, ends with the newest message,  *)
(* and nothing in it is out of order or said twice (types.go:15-19,        *)
(* estimator.go:96-107, pipeline.go:161-176).                              *)
EndsKept ==
    phase = "call" =>
        LET seen == ToModel(kept)
        IN  /\ seen # <<>> /\ Last(seen).n = Len(history)
            /\ \A i \in 1..Len(seen) : i <= HeadN => seen[i].n = i
            /\ \A i, j \in 1..Len(seen) : i < j => seen[i].n < seen[j].n

(* "Emergency tail truncation (fallback)", pipeline.go:28: after the three *)
(* stages the conversation fits the window, whatever the summariser        *)
(* returns, unless the protected head and the newest message alone do not. *)
WindowFits ==
    phase = "call" /\ engine = "pipeline" => ~OverFull(kept) \/ Len(kept) <= HeadN + 1

(* What compaction keeps, together: both ends, the order, the window. *)
ContextKept == EndsKept /\ WindowFits
===============================================================================
