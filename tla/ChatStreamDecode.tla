-------------------------- MODULE ChatStreamDecode --------------------------
(***************************************************************************)
(* A Chat Completions stream read frame by frame and told event by event   *)
(* (packages/engine/src/dialect/chat-completions-stream-decode.ts and      *)
(* chat-completions-stream-tools.ts).  Chunks carry reasoning, content and *)
(* fragments of tool calls in any mix and name no blocks: the decoder      *)
(* opens a block when something of it is first told and closes it when     *)
(* something else is.  A tool call opens once its id and its name are      *)
(* known, or at the finish; arguments told before that are kept.           *)
(*                                                                         *)
(* The operators up to DecodeChunk take DecodeState, with the events of    *)
(* the frame being decoded, and return what it becomes.                    *)
(*                                                                         *)
(* `state` is DecodeState; `out` the events decoded and not yet pulled by  *)
(* the reader; `heard` what the reader has pulled; `frames` whether frames *)
(* come still, were done ([DONE] or an error) or stopped short of either;  *)
(* `finished` whether the choice read last was finished.                   *)
(***************************************************************************)
EXTENDS HubEvents, Sequences, SequencesExt

CONSTANTS
  Places,       \* where a chunk says a call stands (choice index * 1000 + index)
  Ids,          \* the ids calls are given
  MaxBlocks,    \* bound: no chunk is read once this many blocks were opened,
                \* or this many calls met that name no place
  Orderly       \* whether the upstream finishes one block before the next

ChatAssumption == Places \subseteq Nat /\ MaxBlocks \in Nat /\ Orderly \in BOOLEAN

VARIABLES state, out, finished, frames, heard
vars == <<state, out, finished, frames, heard>>

InitialState ==
  [begun |-> FALSE, nextIndex |-> 0, currentOpen |-> None, textIndex |-> None,
   thinkingIndex |-> None, stopReason |-> "end", tools |-> [k \in {} |-> None],
   order |-> <<>>, nextUnindexed |-> 0, emitted |-> 0, events |-> <<>>]

Said(s, e) == [s EXCEPT !.events = Append(@, e)]

CloseCurrent(s) ==
  IF s.currentOpen = None THEN s
  ELSE [Said(s, BlockClose(s.currentOpen)) EXCEPT
          !.currentOpen = None,
          !.textIndex = IF @ = s.currentOpen THEN None ELSE @]

(* A block of that kind is opened where the last one closes. *)
Opened(s, kind) ==
  LET closed == CloseCurrent(s) IN
  [Said(closed, BlockOpen(closed.nextIndex, kind)) EXCEPT
     !.currentOpen = closed.nextIndex, !.nextIndex = @ + 1]

ApplyThought(s) ==
  LET at == IF s.thinkingIndex # None THEN s
            ELSE [Opened(s, "thinking") EXCEPT !.thinkingIndex = CloseCurrent(s).nextIndex]
  IN Said(at, BlockDelta(at.thinkingIndex, "thinking"))

ApplyContent(s) ==
  LET at == IF s.textIndex # None THEN s
            ELSE [Opened(s, "text") EXCEPT !.textIndex = CloseCurrent(s).nextIndex]
  IN Said(at, BlockDelta(at.textIndex, "text"))

NoTool == [args |-> FALSE, closed |-> FALSE, hub |-> None, id |-> None, name |-> FALSE]

(* The call a fragment belongs to: by its place, else by its id, else the  *)
(* latest one the stream has not closed; one never met is a new call.      *)
KeyFor(s, call) ==
  LET known == DOMAIN s.tools
      withId == SelectInSeq(s.order, LAMBDA k : s.tools[k].id = call.id)
      latest == SelectLastInSeq(s.order, LAMBDA k : ~s.tools[k].closed)
      found == IF call.id # None THEN withId ELSE latest
  IN IF call.at # None THEN call.at
     ELSE IF found # 0 THEN s.order[found] ELSE s.nextUnindexed

CountsUnindexed(s, call) == call.at = None /\ KeyFor(s, call) = s.nextUnindexed
                            /\ (IF call.id # None
                                THEN ~\E k \in DOMAIN s.tools : s.tools[k].id = call.id
                                ELSE \A k \in DOMAIN s.tools : s.tools[k].closed)

WithTool(s, k) ==
  IF k \in DOMAIN s.tools THEN s
  ELSE [s EXCEPT !.tools = (k :> NoTool) @@ @, !.order = Append(@, k)]

(* The call gets a block, and the block the arguments kept for it. *)
OpenPendingTool(s, k) ==
  LET opened == Opened(s, "tool")
      hub == opened.nextIndex - 1
      counted == [opened EXCEPT !.tools[k].hub = hub, !.emitted = @ + 1]
  IN IF counted.tools[k].args
     THEN [Said(counted, BlockDelta(hub, "json-args")) EXCEPT !.tools[k].args = FALSE]
     ELSE counted

ReadyToOpen(tool) == tool.hub = None /\ tool.id # None /\ tool.name

ApplyToolCall(s, call) ==
  LET k == KeyFor(s, call)
      at == [WithTool(s, k) EXCEPT
               !.nextUnindexed = IF CountsUnindexed(s, call) THEN @ + 1 ELSE @]
      met == [at EXCEPT !.tools[k].id = IF call.id # None THEN call.id ELSE @,
                        !.tools[k].name = @ \/ call.name]
      tool == met.tools[k]
      kept == [met EXCEPT !.tools[k].args = @ \/ call.args]
  IN IF tool.hub # None /\ ~tool.closed /\ call.args
     THEN Said(met, BlockDelta(tool.hub, "json-args"))
     ELSE IF ReadyToOpen(tool) THEN OpenPendingTool(kept, k) ELSE kept

Carries(tool) == tool.name \/ tool.id # None \/ tool.args

(* Mutant: calls the stream never completed are left unopened. *)
FlushesNothing(s) == s

(* Whatever never got both its id and its name opens at the finish. *)
FlushPendingTools(s) ==
  FoldLeft(LAMBDA f, k : IF f.tools[k].hub = None /\ Carries(f.tools[k])
                         THEN OpenPendingTool(f, k) ELSE f,
           s, SortSeq(s.order, LAMBDA j, k : j < k))

(* The finish: calls still waiting open, the stop reason is read, and what *)
(* stands open closes.                                                     *)
ApplyFinish(s, reason) ==
  LET flushed == FlushPendingTools(s)
      stop == IF reason = "tool_use" /\ flushed.emitted = 0 THEN "end" ELSE reason
      closed == CloseCurrent([flushed EXCEPT !.stopReason = stop])
  IN [closed EXCEPT !.tools = [k \in DOMAIN @ |-> [@[k] EXCEPT !.closed = TRUE]]]

EnsureBegun(s) == IF s.begun THEN s ELSE [Said(s, MessageBegin) EXCEPT !.begun = TRUE]

Calls == [at : {None} \cup Places, id : {None} \cup Ids, name : BOOLEAN, args : BOOLEAN]
Chunks == [thought : BOOLEAN, content : BOOLEAN, call : {None} \cup Calls,
           finish : {None, "end", "tool_use"}]

DecodeChunk(s, chunk) ==
  LET begun == EnsureBegun(s)
      thought == IF chunk.thought THEN ApplyThought(begun) ELSE begun
      content == IF chunk.content THEN ApplyContent(thought) ELSE thought
      called == IF chunk.call # None THEN ApplyToolCall(content, chunk.call) ELSE content
  IN IF chunk.finish # None THEN ApplyFinish(called, chunk.finish) ELSE called

(* An upstream that tells one block to its end before the next: reasoning  *)
(* comes first, a call's later fragments arrive while its block stands,    *)
(* and none after a finish, of whatever choice, closed it.                 *)
InOrder(s, chunk) ==
  /\ chunk.thought => s.thinkingIndex = None \/ s.thinkingIndex = s.currentOpen
  /\ chunk.thought /\ chunk.content => chunk.call = None
  /\ chunk.call # None =>
       LET k == KeyFor(s, chunk.call) IN
       k \in DOMAIN s.tools =>
         /\ ~s.tools[k].closed
         /\ s.tools[k].hub # None =>
              s.tools[k].hub = s.currentOpen /\ ~chunk.content /\ ~chunk.thought

-----------------------------------------------------------------------------
ToolKeys == Places \cup 0..MaxBlocks

Init ==
  /\ state = InitialState
  /\ out = <<>>
  /\ finished = FALSE
  /\ frames = "coming"
  /\ heard = Silence

(* The reader asks for the next event and there is none: a frame is read. *)
Dry == out = <<>> /\ frames = "coming"

(* One choice is decoded.  A chunk of several is several of these, for a   *)
(* reader hears a chunk's events before the next frame is asked for; so    *)
(* choices go on after one of them finished.                               *)
ReadChunk(chunk) ==
  /\ Dry
  /\ state.nextIndex < MaxBlocks /\ state.nextUnindexed < MaxBlocks
  /\ Orderly => InOrder(state, chunk)
  /\ LET decoded == DecodeChunk(state, chunk) IN
       /\ out' = decoded.events
       /\ state' = [decoded EXCEPT !.events = <<>>]
  /\ finished' = (chunk.finish # None)
  /\ UNCHANGED <<frames, heard>>

(* [DONE]: what stands open closes and the message ends. *)
ReadDone ==
  /\ Dry
  /\ Orderly /\ state.begun => finished
  /\ LET closed == CloseCurrent(state) IN
       /\ out' = closed.events \o <<MessageEnd(state.stopReason)>>
       /\ state' = [closed EXCEPT !.events = <<>>]
  /\ frames' = "done"
  /\ UNCHANGED <<finished, heard>>

ReadError ==
  /\ Dry
  /\ out' = <<StreamError>>
  /\ frames' = "done"
  /\ UNCHANGED <<state, finished, heard>>

(* The frames stop short of [DONE], or reading them throws: what stands    *)
(* open stays so, and the reader is told nothing more.                     *)
FramesStop ==
  /\ Dry
  /\ frames' = "cut"
  /\ UNCHANGED <<state, out, finished, heard>>

Yield ==
  /\ out # <<>>
  /\ heard' = Hear(heard, Head(out))
  /\ out' = Tail(out)
  /\ UNCHANGED <<state, finished, frames>>

Next ==
  \/ \E chunk \in Chunks : ReadChunk(chunk)
  \/ ReadDone \/ ReadError \/ FramesStop
  \/ Yield

Spec == Init /\ [][Next]_vars

-----------------------------------------------------------------------------
TypeOK ==
  /\ DOMAIN state.tools \subseteq ToolKeys
  /\ Range(state.order) = DOMAIN state.tools
  /\ \A k \in DOMAIN state.tools : state.tools[k].hub \in {None} \cup 0..(state.nextIndex - 1)
  /\ state.events = <<>>
  /\ finished \in BOOLEAN /\ frames \in {"coming", "done", "cut"}

Hub == INSTANCE HubStream
         WITH Indices <- 0..(MaxBlocks + Cardinality(Places)), Width <- 1, Contiguous <- TRUE

(* From an upstream that tells one block at a time, what the decoder says  *)
(* is a hub stream of one open block at a time, numbered as they open.     *)
HubSpec == Hub!Spec

(* Nothing is added to a block the reader was told is closed.  The header  *)
(* of a suite in the decoder's tests says so of every stream.              *)
(* The code departs from this (README, Departures).                        *)
NothingIsSaidToAClosedBlock ==
  heard.last.type = "block-delta" => heard.last.index \in DOMAIN heard.open

(* A finish leaves no call behind: whatever was told of one, its id, its   *)
(* name or arguments, it has a block, and no arguments are kept from it.   *)
NoCallIsLeftBehind ==
  finished => \A k \in DOMAIN state.tools :
                LET tool == state.tools[k] IN
                ~tool.args /\ (tool.id # None \/ tool.name => tool.hub # None)

(* Each call is told of under one block, and each tool block tells of one  *)
(* call, however its fragments arrive.                                     *)
OneBlockToACall ==
  state.emitted = Cardinality({k \in DOMAIN state.tools : state.tools[k].hub # None})
=============================================================================
