---------------------------- MODULE ProviderStream ----------------------------
(***************************************************************************)
(* What a provider of llmprovider/providers sends and receives: the        *)
(* history converted to a request of its protocol, the chunks of the       *)
(* answer decoded into stream events, and the message the loop assembles   *)
(* from them, which is part of the next request.                           *)
(*                                                                         *)
(* A block of an answer is a text (a thought or not) or a tool call, whose *)
(* arguments are numbered fragments.  A call is known by its block.  The   *)
(* usage that ends an answer, in its last chunk or in one of its own, is   *)
(* counted in AgentLoop.                                                   *)
(***************************************************************************)
EXTENDS Integers, Sequences, SequencesExt, FiniteSets, Selections

CONSTANTS
    Profiles,       \* providers and compatibility profiles, see below
    MaxParts,       \* bound: parts of a user message
    MaxBlocks,      \* bound: blocks of an answer and calls kept before it
    MaxFragments,   \* bound: fragments of a call's arguments
    MaxTurns,       \* bound: answers with calls before the last one
    Slack           \* indices looked at beyond the number of calls: 10

VARIABLES
    profile,
    turns,     \* of each call of each completed answer, whether its arguments are whole
    answer,    \* blocks of this answer so far
    finish,    \* its stop reason, "none" before it came
    sent,      \* messages of the last request
    inProgress, \* toolCallsInProgress: of each index, its call and the arguments so far
    unended,   \* toolMeta: indices of calls that have not ended
    stream     \* "request", "streaming", "closed", "failed", "refused" or "answered"

streamVars == <<profile, turns, sent, answer, finish, inProgress, unended, stream>>

(* Chat completions: "openai" stands for the profiles without quirks,      *)
(* "openrouter" wants an assistant message after tool results, "qwen"      *)
(* takes frames as a video.  DashScope's chunks have the same form.        *)
Completions == {"openai", "openrouter", "qwen"}

ASSUME StreamAssumption ==
    /\ Profiles \subseteq Completions \cup {"dashscope", "anthropic", "google"}
    /\ MaxFragments \in Nat \ {0} /\ Slack \in Nat

Block(kind, n) == [kind |-> kind, frags |-> n]
Numbers(n) == [i \in 1..n |-> i]

CallsOf(blocks) == Ascending({i \in 1..Len(blocks) : blocks[i].kind = "call"})

(* collectLLMTurn, what the events of a call do to the calls in progress:  *)
(* its start, a fragment, and its end, which repeats the arguments.        *)
Started(calls, index, call) ==
    [i \in DOMAIN calls \cup {index} |-> IF i = index THEN [call |-> call, args |-> <<>>] ELSE calls[i]]
Longer(calls, index, n) ==
    IF index \in DOMAIN calls THEN [calls EXCEPT ![index].args = Append(calls[index].args, n)] ELSE calls
Repeated(calls, index, args) ==
    IF index \in DOMAIN calls /\ args # <<>> THEN [calls EXCEPT ![index].args = args] ELSE calls

-----------------------------------------------------------------------------
(* The content of a user message.  A part is [kind, n, count]; a group     *)
(* counts the frames after it.                                             *)

(* GroupVideoFrames: a marker before each run of two frames or more. *)
Grouped(parts) ==
    LET Frame(i) == i \in 1..Len(parts) /\ parts[i].kind = "frame"
        Run(i) == CHOOSE k \in 1..Len(parts) :
                     /\ \A j \in i..(i + k - 1) : Frame(j)
                     /\ ~Frame(i + k)
        Marked(i) == IF Frame(i) /\ ~Frame(i - 1) /\ Run(i) > 1
                     THEN <<[kind |-> "group", n |-> 0, count |-> Run(i)], parts[i]>>
                     ELSE <<parts[i]>>
    IN  FlattenSeq([i \in 1..Len(parts) |-> Marked(i)])

(* Mutant: the frames of a group are not skipped after it. *)
ArrayPartsTwice(parts) ==
    FlattenSeq([i \in 1..Len(parts) |->
        IF parts[i].kind = "group" THEN [j \in 1..parts[i].count |-> parts[i + j].n]
                                   ELSE <<parts[i].n>>])

(* A group consumes the frames it counts as one array, openaicompat and qwen. *)
Taken(st, part) ==
    IF st.rest > 0 THEN [sent |-> Append(st.sent, part.n), rest |-> st.rest - 1]
    ELSE IF part.kind = "group" THEN [sent |-> st.sent, rest |-> part.count]
    ELSE [sent |-> Append(st.sent, part.n), rest |-> 0]

ArrayParts(parts) ==
    LET after[i \in 0..Len(parts)] ==
            IF i = 0 THEN [sent |-> <<>>, rest |-> 0] ELSE Taken(after[i - 1], parts[i])
    IN  after[Len(parts)].sent

(* Each part is an image of its own, the marker with no data included. *)
ImageParts(parts) == [i \in 1..Len(parts) |-> parts[i].n]

NoMarker(parts) == Those(ImageParts(parts), {i \in DOMAIN parts : parts[i].n # 0})

(* Frames are no case of the switch. *)
NoFrames(parts) == ImageParts(Those(parts, {i \in DOMAIN parts : parts[i].kind \notin {"frame", "group"}}))

SentParts(p, parts) ==
    CASE p \in {"qwen", "dashscope"} -> ArrayParts(parts)
      [] p \in {"openai", "openrouter"} -> ImageParts(parts)
      [] p = "google" -> NoMarker(parts)
      [] p = "anthropic" -> NoFrames(parts)

-----------------------------------------------------------------------------
(* The history of a request: the roles of its messages, with the calls     *)
(* asked for and the call answered.                                        *)
Wire(role, calls, answers) == [role |-> role, calls |-> calls, answers |-> answers]

Asked(t) == Wire("assistant", {<<t, i>> : i \in 1..Len(turns[t])}, {})
Results(t) == [i \in 1..Len(turns[t]) |-> Wire("tool", {}, {<<t, i>>})]

History == <<Wire("user", {}, {})>> \o FlattenSeq([t \in 1..Len(turns) |-> <<Asked(t)>> \o Results(t)])

(* RequiresAssistantAfterToolResult: an empty answer after a result that   *)
(* no answer follows.                                                      *)
Separated(msgs) ==
    FlattenSeq([i \in 1..Len(msgs) |->
        IF msgs[i].role = "tool" /\ (i = Len(msgs) \/ msgs[i + 1].role # "assistant")
        THEN <<msgs[i], Wire("assistant", {}, {})>> ELSE <<msgs[i]>>])

(* Results are messages of the user. *)
AsUser(msgs) ==
    [i \in 1..Len(msgs) |-> IF msgs[i].role = "tool" THEN [msgs[i] EXCEPT !.role = "user"] ELSE msgs[i]]

OpenAIMessages    == IF profile = "openrouter" THEN Separated(History) ELSE History
DashScopeMessages == History
AnthropicMessages == AsUser(History)
GoogleMessages    == AsUser(History)

(* The raw arguments of every call are JSON. *)
Marshals == \A t \in 1..Len(turns) : \A i \in 1..Len(turns[t]) : turns[t][i]

-----------------------------------------------------------------------------
StreamInit ==
    /\ profile \in Profiles
    /\ turns = <<>> /\ sent = <<>> /\ answer = <<>> /\ finish = "none"
    /\ inProgress = <<>> /\ unended = {}
    /\ stream = "request"

(* A body is built, sent and accepted. *)
Send(messages, next) ==
    /\ stream = "request"
    /\ sent' = messages /\ stream' = next
    /\ UNCHANGED <<profile, turns, answer, finish, inProgress, unended>>

OpenAIRequest    == profile \in Completions /\ Send(OpenAIMessages, "streaming")
DashScopeRequest == profile = "dashscope" /\ Send(DashScopeMessages, "streaming")
GoogleRequest    == profile = "google" /\ Send(GoogleMessages, "streaming")

(* json.RawMessage makes the arguments part of the body: one that is not   *)
(* JSON is an error event before anything is sent.                         *)
AnthropicRequest ==
    /\ profile = "anthropic"
    /\ \/ Marshals /\ Send(AnthropicMessages, "streaming")
       \/ ~Marshals /\ Send(<<>>, "refused")

Reasons == {"stop", "length", "tool_use"}

Answering == stream = "streaming" /\ finish = "none"
Room == Len(answer) + Len(FlattenSeq(turns)) < MaxBlocks

Chunk(blocks, calls) ==
    /\ answer' = blocks /\ inProgress' = calls
    /\ UNCHANGED <<profile, turns, sent, finish, stream>>

Say ==
    /\ Answering /\ Room
    /\ Chunk(Append(answer, Block("text", 0)), inProgress)
    /\ UNCHANGED unended

(* A chunk with an index not seen before opens a call; fragments may come  *)
(* with it or later, for any open call.                                    *)
OpenCall ==
    /\ Answering /\ Room
    /\ \E n \in 0..1 :
         LET index   == Len(CallsOf(answer))
             started == Started(inProgress, index, Len(answer) + 1)
         IN  /\ Chunk(Append(answer, Block("call", n)),
                      IF n = 0 THEN started ELSE Longer(started, index, 1))
             /\ unended' = unended \cup {index}

Fragment(index, call) ==
    LET n == answer[call].frags + 1
    IN  /\ n <= MaxFragments
        /\ Chunk([answer EXCEPT ![call].frags = n], Longer(inProgress, index, n))
        /\ UNCHANGED unended

MoreArguments ==
    /\ Answering
    /\ \E i \in 1..Len(CallsOf(answer)) : Fragment(i - 1, CallsOf(answer)[i])

Finish ==
    /\ Answering
    /\ finish' \in Reasons
    /\ UNCHANGED <<profile, turns, sent, answer, inProgress, unended, stream>>

(* Mutant: the end repeats the last fragment only. *)
CloseCallDelta(i) ==
    /\ stream = "streaming" /\ finish # "none" /\ i - 1 \in unended
    /\ unended' = unended \ {i - 1}
    /\ inProgress' = Repeated(inProgress, i - 1, <<answer[CallsOf(answer)[i]].frags>>)
    /\ UNCHANGED <<profile, turns, sent, answer, finish, stream>>

(* The finish reason ends every open call with all of its arguments, in    *)
(* the order of a map.                                                     *)
CloseCall(i) ==
    /\ stream = "streaming" /\ finish # "none" /\ i - 1 \in unended
    /\ unended' = unended \ {i - 1}
    /\ inProgress' = Repeated(inProgress, i - 1, Numbers(answer[CallsOf(answer)[i]].frags))
    /\ UNCHANGED <<profile, turns, sent, answer, finish, stream>>

CloseOneCall == \E i \in 1..Len(CallsOf(answer)) : CloseCall(i)

OpenAIChunk    == profile \in Completions /\ (OpenCall \/ MoreArguments \/ Finish \/ CloseOneCall)
DashScopeChunk == profile = "dashscope" /\ (OpenCall \/ MoreArguments \/ Finish \/ CloseOneCall)

(* content_block_start and input_json_delta: the index is the block's. *)
AnthropicCall ==
    /\ Answering /\ profile = "anthropic" /\ Room
    /\ Chunk(Append(answer, Block("call", 0)), Started(inProgress, Len(answer), Len(answer) + 1))
    /\ UNCHANGED unended

AnthropicArguments ==
    /\ Answering /\ profile = "anthropic" /\ answer # <<>> /\ Last(answer).kind = "call"
    /\ Fragment(Len(answer) - 1, Len(answer))

(* functionCall: a whole call, always of index 0. *)
GoogleCall ==
    /\ Answering /\ profile = "google" /\ Room
    /\ Chunk(Append(answer, Block("call", 1)), Repeated(Started(inProgress, 0, Len(answer) + 1), 0, <<1>>))
    /\ UNCHANGED unended

AnthropicFinish == profile = "anthropic" /\ Finish
GoogleFinish    == profile = "google" /\ Finish

(* The body ends, with the answer or before it: the reader knows no        *)
(* difference, and what was cut inside an event does not parse.            *)
EndOfStream ==
    /\ stream = "streaming" /\ (finish = "none" \/ unended = {})
    /\ stream' = "closed"
    /\ UNCHANGED <<profile, turns, sent, answer, finish, inProgress, unended>>

(* The end of an attempt: nothing of the answer is kept but its calls. *)
Leave(next, kept) ==
    /\ stream' = next /\ turns' = kept
    /\ sent' = <<>> /\ answer' = <<>> /\ finish' = "none"
    /\ inProgress' = <<>> /\ unended' = {}
    /\ UNCHANGED profile

(* No connection, a bad status, a broken one or a cancel: collectLLMTurn   *)
(* returns at the error, and nothing of the answer is kept.                *)
StreamFails == stream = "streaming" /\ Leave("failed", turns)

-----------------------------------------------------------------------------
(* The calls in the order of the indices, as far as they are looked at. *)
Assembled ==
    LET seen == Ascending({i \in DOMAIN inProgress : i < Cardinality(DOMAIN inProgress) + Slack})
    IN  [k \in DOMAIN seen |-> inProgress[seen[k]]]

(* The last call of an answer that ended at the limit of tokens, or early. *)
CutCall == IF finish \in {"length", "none"} /\ profile # "google" /\ answer # <<>>
              /\ Last(answer).kind = "call"
           THEN Len(answer) ELSE 0

(* The loop keeps the message and the results of its calls; empty          *)
(* arguments become {}.                                                    *)
ToolTurn ==
    /\ stream = "closed" /\ Assembled # <<>> /\ Len(turns) < MaxTurns
    /\ Leave("request", Append(turns, [i \in 1..Len(Assembled) |->
                             Assembled[i].args = <<>> \/ Assembled[i].call # CutCall]))

LastTurn == stream = "closed" /\ Assembled = <<>> /\ Leave("answered", turns)

(* The next prompt after a run that failed. *)
PromptAgain == stream \in {"failed", "refused"} /\ Leave("request", turns)

StreamNext ==
    \/ OpenAIRequest \/ DashScopeRequest \/ AnthropicRequest \/ GoogleRequest
    \/ Say \/ OpenAIChunk \/ DashScopeChunk
    \/ AnthropicCall \/ AnthropicArguments \/ AnthropicFinish
    \/ GoogleCall \/ GoogleFinish
    \/ EndOfStream \/ StreamFails
    \/ ToolTurn \/ LastTurn \/ PromptAgain

-----------------------------------------------------------------------------
StreamTypeOK ==
    /\ profile \in Profiles
    /\ stream \in {"request", "streaming", "closed", "failed", "refused", "answered"}
    /\ finish \in {"none"} \cup Reasons
    /\ turns \in Seq(Seq(BOOLEAN))
    /\ answer \in Seq([kind : {"text", "call"}, frags : 0..MaxFragments])
    /\ unended \subseteq DOMAIN inProgress
    /\ \A i \in DOMAIN inProgress : inProgress[i].call \in 1..Len(answer)

(* The calls the loop runs are those the model asked for, in the model's   *)
(* order, each with all the fragments that arrived and none of them twice  *)
(* (loop.go:371-424): whether the protocol repeats the arguments at the    *)
(* end or not, and whatever the order of the ends.  Not for a second call  *)
(* of Google's, whose calls share index 0, nor past the indices looked at. *)
CallsAsSaid ==
    stream = "closed" =>
        LET said  == CallsOf(answer)
            found == Assembled
        IN  \/ profile = "google" /\ Len(said) > 1
            \/ profile = "anthropic" /\ \E i \in 1..Len(said) : said[i] > Len(said) + Slack
            \/ /\ Len(found) = Len(said)
               /\ \A i \in 1..Len(said) : /\ found[i].call = said[i]
                                          /\ found[i].args = Numbers(answer[said[i]].frags)

(* In a request, what stands between a call and its result are results of  *)
(* calls of the same message, "assistant(tool_calls) -> tool(result)"      *)
(* (loop.go:234), and every call has its result.                           *)
ResultsFollowCalls(msgs) ==
    \A i \in 1..Len(msgs) : \A call \in UNION {msgs[k].calls : k \in 1..Len(msgs)} :
        call \in msgs[i].calls =>
            \E j \in (i + 1)..Len(msgs) :
                /\ call \in msgs[j].answers
                /\ \A k \in (i + 1)..j : msgs[k].answers # {} /\ msgs[k].answers \subseteq msgs[i].calls

RequestPaired == profile # "openrouter" => ResultsFollowCalls(sent)

(* Every frame of a prompt is sent once and in its place, grouped or not.  *)
(* Two do not keep it: the images of chat completions send the marker of a *)
(* group as an image, and Anthropic's messages leave all frames out.       *)
Contents == {[i \in 1..Len(kinds) |-> [kind |-> kinds[i], n |-> i, count |-> 0]] :
                kinds \in SeqOf({"text", "frame"}, MaxParts)}

FramesSentOnce ==
    stream = "request" /\ turns = <<>> =>
        \A parts \in Contents, p \in {"openai", "qwen", "dashscope", "google"} :
            /\ SentParts(p, parts) = ImageParts(parts)
            /\ p = "openai" \/ SentParts(p, Grouped(parts)) = ImageParts(parts)

(* A history that cannot be sent has a call of an answer that ended at the *)
(* limit of tokens or early; a failed answer leaves nothing behind.        *)
RefusedOnlyAfterCut ==
    stream = "refused" => \E t \in 1..Len(turns) : ~Last(turns[t])
===============================================================================
