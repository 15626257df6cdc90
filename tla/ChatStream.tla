------------------------------ MODULE ChatStream ------------------------------
(***************************************************************************)
(* The live side of a streamed chat turn: the events of streamChat         *)
(* (lib/api/chat.ts), the reducer that owns every live value               *)
(* (chat-stream-reducer.ts), the hook that feeds it and keeps mirrors in   *)
(* refs (use-chat-stream.ts), and what the timeline renders of it          *)
(* (ChatTimeline.tsx, ChatStudio.tsx).                                     *)
(*                                                                         *)
(* Several events may arrive in one chunk of the response body.  They are  *)
(* dispatched one after the other, before React renders: the effects that  *)
(* copy state into refs run in Commit, not after each event.  A reasoning  *)
(* segment is a number, so order, loss and repetition can be told apart.   *)
(***************************************************************************)
EXTENDS Naturals, Sequences, SequencesExt

CONSTANTS
    Tools,          \* ids of tool calls
    MaxSegments,    \* bound: reasoning segments of a turn
    MaxTokens,      \* bound: tokens of a turn
    MaxTurns,       \* bound: turns
    EventsPerChunk  \* bound: events dispatched before React renders

VARIABLES
    st,             \* ChatStreamState
    segsRef,        \* liveReasoningSegmentsRef
    allRef,         \* streamedReasoningAllRef
    phaseRef,       \* streamReasoningPhaseRef
    streamingRef,   \* isStreamingResponseRef
    uncommitted,    \* events dispatched since the last render
    turn,           \* number of the turn, 0 before the first
    phase,          \* of the turn: "idle", "open", "done", "failed", "aborted"
    cumulative,     \* server: reasoning segments of the current provider call
    emitted,        \* server: all reasoning segments of the turn
    persisted       \* tool ids whose messages are in the timeline

vars == <<st, segsRef, allRef, phaseRef, streamingRef, uncommitted, turn, phase,
          cumulative, emitted, persisted>>

refs == <<segsRef, allRef, phaseRef, streamingRef>>

NoPhase == [t \in Tools |-> 0]

\* initialChatStreamState; key is the number of the turn that opened the
\* stream and stands for activeStreamEntryKey.
InitialState ==
    [response |-> 0, streaming |-> FALSE, segs |-> <<>>, blocks |-> <<>>,
     reasoningPhase |-> 0, kept |-> <<>>, key |-> 0, final |-> 0, keyMap |-> {},
     tools |-> <<>>, answered |-> {}, toolOrder |-> <<>>, toolPhase |-> NoPhase]

Init ==
    /\ st = InitialState
    /\ segsRef = <<>> /\ allRef = <<>> /\ phaseRef = 0 /\ streamingRef = FALSE
    /\ uncommitted = 0
    /\ turn = 0 /\ phase = "idle"
    /\ cumulative = <<>> /\ emitted = <<>> /\ persisted = {}

(***************************************************************************)
(* chatStreamReducer, one operator per action type.                        *)
(***************************************************************************)
ClearLive(s) == [s EXCEPT !.response = 0, !.streaming = FALSE, !.segs = <<>>,
                          !.blocks = <<>>, !.reasoningPhase = 0, !.kept = <<>>]

Reset(s) == [ClearLive(s) EXCEPT !.final = 0, !.keyMap = {}, !.key = 0]

MutationStarted(s) ==
    [ClearLive(s) EXCEPT !.final = 0, !.tools = <<>>, !.answered = {},
                         !.toolOrder = <<>>, !.toolPhase = NoPhase]

StreamStarted(s, key) == [s EXCEPT !.streaming = TRUE, !.key = key]

ReasoningSet(s, segments) ==
    [s EXCEPT !.segs = segments, !.kept = IF segments # <<>> THEN segments ELSE @]

\* nextBlocks[phaseIndex] = segments; the phases skipped hold no segments.
SetBlock(blocks, i, segments) ==
    [j \in 1 .. (IF i > Len(blocks) THEN i ELSE Len(blocks)) |->
        IF j = i THEN segments ELSE IF j \in 1 .. Len(blocks) THEN blocks[j] ELSE <<>>]

FinalizeReasoningBlock(s, at, segments) ==
    [s EXCEPT !.blocks = SetBlock(@, at + 1, segments), !.segs = <<>>, !.kept = <<>>]

\* upsertLiveToolEvents: an event of a known tool is merged, another appended.
UpsertTool(tools, t) == IF Contains(tools, t) THEN tools ELSE Append(tools, t)

ToolCallAction(s, t, at) ==
    [s EXCEPT !.toolPhase[t] = at, !.toolOrder = UpsertTool(@, t),
              !.reasoningPhase = at + 1, !.tools = UpsertTool(@, t)]

ToolResultAction(s, t, fallback) ==
    [s EXCEPT !.toolPhase[t] = IF Contains(s.toolOrder, t) THEN @ ELSE fallback,
              !.toolOrder = UpsertTool(@, t),
              !.tools = UpsertTool(@, t), !.answered = @ \cup {t}]

StreamFinished(s, assistant, key, streamed) ==
    [s EXCEPT !.response = 0, !.streaming = FALSE, !.kept = streamed, !.segs = <<>>,
              !.blocks = <<>>, !.final = assistant, !.keyMap = @ \cup {<<assistant, key>>}]

StreamFailed(s, clearLive) ==
    IF clearLive THEN ClearLive(s) ELSE [s EXCEPT !.streaming = FALSE]

PruneLiveTools(s, ids) == [s EXCEPT !.tools = SelectSeq(@, LAMBDA t : t \notin ids)]

(***************************************************************************)
(* The hook.                                                               *)
(***************************************************************************)
\* The first part of performChatMutation: beginMutation and beginStream, in
\* one batch before the request is sent.
BeginStream ==
    /\ phase # "open" /\ uncommitted = 0 /\ turn < MaxTurns
    /\ turn' = turn + 1 /\ phase' = "open"
    /\ st' = StreamStarted(MutationStarted(st), turn')
    /\ streamingRef' = TRUE /\ phaseRef' = 0 /\ allRef' = <<>>
    /\ cumulative' = <<>> /\ emitted' = <<>>
    /\ uncommitted' = 1
    /\ UNCHANGED <<segsRef, persisted>>

\* One event of the response body while the stream is open.
Event == phase = "open" /\ uncommitted < EventsPerChunk /\ uncommitted' = uncommitted + 1

HandleToken ==
    /\ Event
    /\ st.response < MaxTokens
    /\ st' = [st EXCEPT !.response = @ + 1]
    /\ UNCHANGED <<refs, turn, phase, cumulative, emitted, persisted>>

\* The server sends the segments of the current provider call so far.
HandleReasoning ==
    /\ Event
    /\ Len(emitted) < MaxSegments
    /\ emitted' = Append(emitted, Len(emitted) + 1)
    /\ cumulative' = Append(cumulative, Len(emitted) + 1)
    /\ st' = ReasoningSet(st, cumulative')
    /\ UNCHANGED <<refs, turn, phase, persisted>>

\* finalizeLiveReasoningBlock: nothing to do when the mirror is empty.
Finalized(s) ==
    IF segsRef = <<>> THEN s ELSE FinalizeReasoningBlock(s, phaseRef, segsRef)

\* handleToolCall: the block is closed, the tool belongs to this phase, the
\* next phase begins.  The provider call is over.
HandleToolCall(t) ==
    /\ Event
    /\ ~Contains(st.toolOrder, t)
    /\ allRef' = allRef \o segsRef
    /\ st' = ToolCallAction(Finalized(st), t, phaseRef)
    /\ phaseRef' = phaseRef + 1
    /\ cumulative' = <<>>
    /\ UNCHANGED <<segsRef, streamingRef, turn, phase, emitted, persisted>>

HandleToolResult(t) ==
    /\ Event
    /\ Contains(st.toolOrder, t) /\ t \notin st.answered
    /\ st' = ToolResultAction(st, t, IF phaseRef = 0 THEN 0 ELSE phaseRef - 1)
    /\ UNCHANGED <<refs, turn, phase, cumulative, emitted, persisted>>

\* The final event and [DONE]: completeStream, then the messages of the
\* response are in the timeline.
CompleteStream ==
    /\ Event
    /\ phase' = "done"
    /\ st' = StreamFinished(Finalized(st), turn, st.key, allRef \o segsRef)
    /\ allRef' = <<>>
    /\ persisted' = persisted \cup st.answered
    /\ UNCHANGED <<segsRef, phaseRef, streamingRef, turn, cumulative, emitted>>

\* An error event, a broken body or an end without a final event.
FailStream ==
    /\ Event
    /\ phase' = "failed"
    /\ st' = StreamFailed(st, TRUE) /\ streamingRef' = FALSE
    /\ UNCHANGED <<segsRef, allRef, phaseRef, turn, cumulative, emitted, persisted>>

\* Stop generation: the abort rejects the read; what was streamed stays.
AbortStream ==
    /\ phase = "open" /\ uncommitted = 0
    /\ phase' = "aborted"
    /\ st' = StreamFailed(st, FALSE) /\ streamingRef' = FALSE
    /\ uncommitted' = 1
    /\ UNCHANGED <<segsRef, allRef, phaseRef, turn, cumulative, emitted, persisted>>

\* Start-new-chat and branch-for-edit.
ResetStream ==
    /\ phase # "open" /\ uncommitted = 0 /\ st # Reset(st)
    /\ st' = Reset(st)
    /\ uncommitted' = 1 /\ persisted' = {}
    /\ UNCHANGED <<refs, turn, phase, cumulative, emitted>>

\* React renders and runs the effects: the mirrors follow the state, and live
\* tools whose messages have arrived are pruned.
Commit ==
    /\ uncommitted > 0
    /\ uncommitted' = 0
    /\ segsRef' = st.segs
    /\ streamingRef' = st.streaming
    /\ st' = PruneLiveTools(st, persisted)
    /\ UNCHANGED <<allRef, phaseRef, turn, phase, cumulative, emitted, persisted>>

Next ==
    \/ BeginStream \/ HandleToken \/ HandleReasoning
    \/ \E t \in Tools : HandleToolCall(t) \/ HandleToolResult(t)
    \/ CompleteStream \/ FailStream \/ AbortStream \/ ResetStream \/ Commit

Spec == Init /\ [][Next]_vars

(***************************************************************************)
(* What the timeline renders of it, in a session with streaming enabled.   *)
(***************************************************************************)
ShowStreamingBubble == st.streaming \/ st.response > 0 \/ st.segs # <<>>

LiveReasoningDisplay == IF st.segs # <<>> THEN st.segs ELSE st.kept

ShowReasoningBubble == st.key # 0 /\ (st.blocks # <<>> \/ LiveReasoningDisplay # <<>>)

\* The message entries already hold the final reasoning of this stream.
HasFinalReasoning == st.key # 0 /\ st.final # 0 /\ phase = "done" /\ emitted # <<>>

LiveTools == SelectSeq(st.tools, LAMBDA t : t \notin persisted)

ToolBubbles(p) ==
    IF ShowStreamingBubble THEN {t \in Range(LiveTools) : st.toolPhase[t] = p} ELSE {}

PhaseBubbles ==
    IF ShowReasoningBubble /\ ~HasFinalReasoning
    THEN UNION {ToolBubbles(p) : p \in {q \in 0 .. st.reasoningPhase : q < st.reasoningPhase}}
    ELSE {}

RenderedTools == PhaseBubbles \cup ToolBubbles(st.reasoningPhase)

RenderedReasoning ==
    IF ShowReasoningBubble /\ ~HasFinalReasoning
    THEN FlattenSeq(st.blocks) \o LiveReasoningDisplay ELSE <<>>

-------------------------------------------------------------------------------
TypeOK ==
    /\ st.response \in 0 .. MaxTokens
    /\ st.streaming \in BOOLEAN /\ streamingRef \in BOOLEAN
    /\ st.reasoningPhase \in Nat /\ phaseRef \in Nat
    /\ uncommitted \in 0 .. EventsPerChunk + 1
    /\ turn \in 0 .. MaxTurns
    /\ phase \in {"idle", "open", "done", "failed", "aborted"}
    /\ persisted \subseteq Tools

\* completeStream "returns the full streamed reasoning": what a finished turn
\* hands over is every segment that was streamed, once, in order, however tool
\* calls cut it into blocks.
FullReasoning == phase = "done" /\ st.final = turn => st.kept = emitted

\* While a turn streams, what the reader sees of the reasoning is what has
\* been streamed so far: no block is lost, repeated or moved.
ReasoningOnScreen ==
    phase = "open" /\ uncommitted = 0 /\ emitted # <<>> => RenderedReasoning = emitted

\* While reasoning is on screen every running tool call has its bubble, in
\* the phase it was called in.
LiveToolsShown ==
    phase = "open" /\ uncommitted = 0 /\ ShowReasoningBubble => RenderedTools = Range(LiveTools)

\* The streaming flag that the history poll reads synchronously is never off
\* while a stream is open, and never on when it is over.
PollSeesStream == uncommitted = 0 => (streamingRef <=> phase = "open")
===============================================================================
