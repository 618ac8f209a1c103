------------------------ MODULE ResponsesStreamDecode ------------------------
(***************************************************************************)
(* A Responses stream decoded into hub events                              *)
(* (packages/engine/src/dialect/responses-stream.ts and its -blocks,       *)
(* -completion, -images and -web-search parts), behind the stage that      *)
(* fills in the output a Codex subscription leaves out of its last event   *)
(* (packages/engine/src/subscription/codex-completion.ts).                 *)
(*                                                                         *)
(* The upstream tells output items, several at a time: an item is added,   *)
(* told in pieces and done, and any of that may be left out, since the     *)
(* last event may list the items whole.  `kind`, `told` by the upstream    *)
(* as `up`, `sent` and `whole`; `blocks` is ResponsesBlockState, a phase   *)
(* standing for the sets an index may be in; `out` holds events not yet    *)
(* pulled and `heard` and `got` are what the reader has pulled.  A piece   *)
(* is a stretch of arguments or a version of an image.                     *)
(***************************************************************************)
EXTENDS HubEvents, Sequences, SequencesExt

CONSTANTS
  Count,        \* how many items the upstream tells
  Size,         \* how many pieces make an item
  KindsTold,    \* the kinds its items are of
  SearchEarly   \* whether a web search may come before other items

DecodeAssumption ==
  /\ Count \in Nat \ {0} /\ Size \in Nat \ {0}
  /\ KindsTold \subseteq {"message", "call", "nameless", "reasoning", "search", "image"}

VARIABLES kind, stage, up, sent, whole, blocks, out, heard, got
vars == <<kind, stage, up, sent, whole, blocks, out, heard, got>>
upstream == <<up, sent, whole>>

Items == 0..(Count - 1)

HubKind == [message |-> "text", call |-> "tool", nameless |-> "tool",
            reasoning |-> "thinking", search |-> "tool"]

Init ==
  /\ kind \in [Items -> KindsTold]
  /\ \A i \in Items : kind[i] = "search" => SearchEarly \/ i = Count - 1
  /\ stage = "open"
  /\ up = [i \in Items |-> "unmet"]
  /\ sent = [i \in Items |-> 0]
  /\ whole = [i \in Items |-> FALSE]
  /\ blocks = [phase |-> [i \in Items |-> "unmet"], arguments |-> [i \in Items |-> 0],
               images |-> [i \in Items |-> 0]]
  /\ out = <<>>
  /\ heard = Silence
  /\ got = [i \in Items |-> 0]

-----------------------------------------------------------------------------
(* What each event becomes: what ResponsesBlockState is after it, and the  *)
(* hub events told.                                                        *)

Told(b, events) == [blocks |-> b, events |-> events]
Phased(b, i, phase) == [b EXCEPT !.phase[i] = phase]
Open(i) == BlockOpen(i, HubKind[kind[i]])
Piece(i, delta, size) == [size |-> size] @@ BlockDelta(i, delta)
Shown(i, size) == [index |-> i, size |-> size] @@ Media

AddedEvent(b, i) ==
  CASE kind[i] = "nameless" -> Told(Phased(b, i, "pending"), <<>>)
    [] kind[i] = "image" -> Told(Phased(b, i, "skipped"), <<>>)
    [] OTHER -> Told(Phased(b, i, "open"), <<Open(i)>>)

(* An item never added opens with the first piece of it. *)
DecodedDelta(b, i) ==
  LET opens == b.phase[i] = "unmet"
      opened == IF opens THEN Phased(b, i, "open") ELSE b
      isCall == HubKind[kind[i]] = "tool"
      kept == IF isCall THEN [opened EXCEPT !.arguments[i] = @ + 1] ELSE opened
      delta == IF isCall THEN "json-args" ELSE HubKind[kind[i]]
  IN Told(kept, (IF opens THEN <<Open(i)>> ELSE <<>>)
                \o (IF isCall /\ b.phase[i] = "pending" THEN <<>> ELSE <<Piece(i, delta, 1)>>))

(* Whatever the pieces left out of the arguments. *)
ArgumentCompletion(b, i) ==
  IF HubKind[kind[i]] # "tool" \/ kind[i] = "search" \/ b.arguments[i] >= Size THEN <<>>
  ELSE <<Piece(i, "json-args", Size - b.arguments[i])>>

SignatureCompletion(i) ==
  IF kind[i] = "reasoning" THEN <<BlockDelta(i, "signature")>> ELSE <<>>

(* A call whose name came late, or an item never met: told at one stroke. *)
PendingDoneEvents(b, i) ==
  LET forgot == [Phased(b, i, "closed") EXCEPT !.arguments[i] = 0] IN
  Told([forgot EXCEPT !.arguments[i] = IF HubKind[kind[i]] = "tool" THEN Size ELSE 0],
       <<Open(i)>>
       \o (IF kind[i] = "message" THEN <<Piece(i, "text", Size)>> ELSE <<>>)
       \o ArgumentCompletion(forgot, i) \o SignatureCompletion(i) \o <<BlockClose(i)>>)

CarriedImage(b, i, version) ==
  IF b.images[i] = version THEN Told(b, <<>>)
  ELSE Told([b EXCEPT !.images[i] = version], <<Shown(i, version - b.images[i])>>)

(* A search closes with its result, a block of its own at the next index. *)
WebSearchDone(b, i) ==
  Told(Phased(b, i, "closed"),
       <<Piece(i, "json-args", 1), BlockClose(i), BlockOpen(i + 1, "tool"), BlockClose(i + 1)>>)

(* withItem: a done event may leave its item out. *)
DoneEvent(b, i, withItem) ==
  CASE kind[i] = "image" -> CarriedImage(b, i, Size)
    [] kind[i] = "search" -> WebSearchDone(b, i)
    [] b.phase[i] \in {"pending", "unmet", "closed"} /\ withItem -> PendingDoneEvents(b, i)
    [] OTHER ->
         Told([Phased(b, i, "closed") EXCEPT !.arguments[i] = IF withItem THEN Size ELSE @],
              (IF withItem THEN ArgumentCompletion(b, i) \o SignatureCompletion(i) ELSE <<>>)
              \o <<BlockClose(i)>>)

(* An item the last event lists whole. *)
TerminalItem(b, i) ==
  CASE b.phase[i] = "closed" \/ kind[i] = "image" -> Told(b, <<>>)
    [] b.phase[i] = "pending" -> PendingDoneEvents(b, i)
    [] b.phase[i] = "unmet" ->
         Told(b, <<Open(i)>>
                 \o (CASE kind[i] = "message" -> <<Piece(i, "text", Size)>>
                       [] kind[i] = "reasoning" -> <<Piece(i, "thinking", Size)>>
                       [] kind[i] = "search" -> <<>>
                       [] OTHER -> <<Piece(i, "json-args", Size)>>)
                 \o SignatureCompletion(i) \o <<BlockClose(i)>>)
    [] OTHER ->
         Told([Phased(b, i, "closed") EXCEPT !.arguments[i] = Size],
              ArgumentCompletion(b, i) \o SignatureCompletion(i) \o <<BlockClose(i)>>)

CloseRemaining(acc) ==
  LET open == [m \in 1..Count |-> m - 1]
      remaining == SelectSeq(open, LAMBDA i : acc.blocks.phase[i] = "open")
  IN acc.events \o [m \in DOMAIN remaining |-> BlockClose(remaining[m])]

(* The output is its first `listed` items. *)
HydratedAtTerminal(b, listed) ==
  CloseRemaining(
    FoldLeft(LAMBDA acc, i : LET item == TerminalItem(acc.blocks, i) IN
                             Told(item.blocks, acc.events \o item.events),
             Told(b, <<>>), [m \in 1..listed |-> m - 1]))

StopReason(status, listed) ==
  CASE status = "completed" ->
         IF \E i \in 0..(listed - 1) : kind[i] \in {"call", "nameless"} THEN "tool_use" ELSE "end"
    [] status = "max_output_tokens" -> "max_output"
    [] status = "content_filter" -> "refusal"
    [] OTHER -> None

TerminalEvents(status, listed) ==
  IF StopReason(status, listed) = None THEN <<StreamError>>
  ELSE <<MessageEnd(StopReason(status, listed))>>

-----------------------------------------------------------------------------
(* The reader asks for the next event and an event of the upstream is read.*)
Reads == out = <<>> /\ stage \in {"open", "created"}
Met(i) == stage = "created" /\ \A j \in 0..(i - 1) : up[j] # "unmet"

Becomes(decoded) == blocks' = decoded.blocks /\ out' = decoded.events

Created ==
  /\ Reads /\ stage = "open"
  /\ stage' = "created"
  /\ out' = <<MessageBegin>>
  /\ UNCHANGED <<kind, upstream, blocks, heard, got>>

Added(i) ==
  /\ Reads /\ Met(i) /\ up[i] = "unmet"
  /\ up' = [up EXCEPT ![i] = "met"]
  /\ Becomes(AddedEvent(blocks, i))
  /\ UNCHANGED <<kind, stage, sent, whole, heard, got>>

Delta(i) ==
  /\ Reads /\ Met(i) /\ up[i] # "done" /\ sent[i] < Size
  /\ kind[i] \notin {"search", "image"}
  /\ up' = [up EXCEPT ![i] = "met"]
  /\ sent' = [sent EXCEPT ![i] = @ + 1]
  /\ Becomes(DecodedDelta(blocks, i))
  /\ UNCHANGED <<kind, stage, whole, heard, got>>

PartialImage(i) ==
  /\ Reads /\ Met(i) /\ up[i] = "met" /\ sent[i] < Size /\ kind[i] = "image"
  /\ \E version \in {sent[i], sent[i] + 1} \ {0} :
       /\ sent' = [sent EXCEPT ![i] = version]
       /\ Becomes(CarriedImage(blocks, i, version))
  /\ UNCHANGED <<kind, stage, up, whole, heard, got>>

(* Items are done in order.  One done without having been met comes whole. *)
Done(i, withItem) ==
  /\ Reads /\ Met(i) /\ up[i] # "done" /\ \A j \in 0..(i - 1) : up[j] = "done"
  /\ kind[i] \in {"search", "image"} => up[i] = "met"
  /\ ~withItem => kind[i] \in {"message", "reasoning"} /\ up[i] = "met"
  /\ up' = [up EXCEPT ![i] = "done"]
  /\ whole' = [whole EXCEPT ![i] = withItem]
  /\ Becomes(DoneEvent(blocks, i, withItem))
  /\ UNCHANGED <<kind, stage, sent, heard, got>>

(* The last event lists every item the upstream has told, and may list     *)
(* more; a subscription's lists none, and the items done stand for them.   *)
Terminal(status) ==
  /\ Reads /\ stage = "created"
  /\ LET met == Cardinality({i \in Items : up[i] # "unmet"})
         finished == Cardinality({i \in Items : up[i] = "done"})
     IN \E listed \in (met..Count) \cup {finished} :
          /\ whole' = [i \in Items |-> whole[i] \/ i < listed]
          /\ out' = HydratedAtTerminal(blocks, listed) \o TerminalEvents(status, listed)
  /\ stage' = "over"
  /\ UNCHANGED <<kind, up, sent, blocks, heard, got>>

(* The upstream says it failed, stops without a last event, or breaks. *)
Fails ==
  /\ Reads
  /\ out' = <<StreamError>>
  /\ stage' = "over"
  /\ UNCHANGED <<kind, upstream, blocks, heard, got>>

Bare(e) ==
  CASE e.type = "media" -> Media
    [] e.type = "block-delta" -> BlockDelta(e.index, e.delta)
    [] OTHER -> e

Yield ==
  /\ out # <<>>
  /\ heard' = Hear(heard, Bare(Head(out)))
  /\ got' = IF "size" \in DOMAIN Head(out) THEN [got EXCEPT ![Head(out).index] = @ + Head(out).size]
            ELSE got
  /\ out' = Tail(out)
  /\ UNCHANGED <<kind, stage, upstream, blocks>>

Statuses == {"completed", "max_output_tokens", "content_filter", "other", "failed"}

Next ==
  \/ Created \/ Fails \/ Yield
  \/ \E i \in Items :
       Added(i) \/ Delta(i) \/ PartialImage(i) \/ \E withItem \in BOOLEAN : Done(i, withItem)
  \/ \E status \in Statuses : Terminal(status)

Fairness == WF_vars(Yield)

Spec == Init /\ [][Next]_vars /\ Fairness

-----------------------------------------------------------------------------
TypeOK ==
  /\ stage \in {"open", "created", "over"}
  /\ \A i \in Items :
       /\ blocks.phase[i] \in {"unmet", "skipped", "pending", "open", "closed"}
       /\ blocks.arguments[i] <= Size /\ blocks.images[i] <= Size
       /\ blocks.phase[i] = "unmet" => up[i] = "unmet"

Hub == INSTANCE HubStream WITH Indices <- 0..Count, Width <- Count, Contiguous <- FALSE

(* However the upstream splits its items between added, pieces, done and   *)
(* the last event, and however many it tells at once, the reader hears a   *)
(* hub stream, when a web search comes last.                               *)
HubSpec == Hub!Spec

(* The reader of an ended message has each call's arguments once: neither  *)
(* a piece twice, nor one missing of an item the upstream told whole; and  *)
(* each version of an image once.                                          *)
ArgumentsAreToldOnce ==
  \A i \in Items : kind[i] \in {"call", "nameless", "image"} =>
    /\ got[i] <= Size
    /\ kind[i] # "image" /\ heard.over = "ended" /\ whole[i] => got[i] = Size

(* A message that ends for a tool's sake told the reader of a call. *)
ToolUseMeansACall ==
  heard.last = MessageEnd("tool_use") =>
    \E i \in heard.seen \cap Items : kind[i] \in {"call", "nameless"}

(* Whatever ends the upstream, its own end, an error or silence, the       *)
(* reader is told an end.                                                  *)
EndIsOwed == stage = "over"
EndIsTold == heard.over # "no"
EveryStreamIsEnded == EndIsOwed ~> EndIsTold

(* Every block opens under an index no other block had.                    *)
(* The code departs from this (README, Departures).                        *)
EachBlockHasItsOwnIndex ==
  [][heard'.last.type = "block-open" /\ heard' # heard
       => heard'.last.index \notin heard.seen]_heard

=============================================================================
