------------------------ MODULE ResponsesStreamEncode ------------------------
(***************************************************************************)
(* A hub stream encoded into a Responses one                               *)
(* (packages/engine/src/dialect/responses-stream-encode.ts, -done, -deltas *)
(* and -outcome).  Each block becomes an output item under an index given  *)
(* when it opens; a tool call signed by Gemini is preceded by an item that *)
(* carries the signature, and signed text followed by one.  The last event *)
(* lists every item again, whole, as they were done.                       *)
(*                                                                         *)
(* `source` is what the decoder upstream has said and `said` how much of   *)
(* each block; `state` is EncodeState; `out` holds wire events not yet     *)
(* pulled, `heard` and `got` what the client has pulled, `listed` the      *)
(* output of the last event.  A wire event is written as the hub event it  *)
(* stands for: an item added as block-open and done as block-close,        *)
(* response.completed as an end, response.incomplete as an end for length. *)
(***************************************************************************)
EXTENDS HubEvents, Sequences

CONSTANTS
  Blocks,       \* the decoder's block indices
  Held,         \* how many blocks the decoder may hold open at once
  MaxSaid,      \* bound: deltas to one block
  Native        \* whether the signatures are Gemini's own

EncodeAssumption ==
  /\ Blocks \subseteq Nat /\ IsFiniteSet(Blocks)
  /\ Held \in Nat \ {0} /\ MaxSaid \in Nat /\ Native \in BOOLEAN

VARIABLES source, said, state, out, heard, got, listed
vars == <<source, said, state, out, heard, got, listed>>

Source == INSTANCE HubStream
            WITH heard <- source, Indices <- Blocks, Width <- Held, Contiguous <- FALSE

OutputIndices == 0..(2 * Cardinality(Blocks) - 1)

Init ==
  /\ Source!Init
  /\ said = [i \in Blocks |-> 0]
  /\ state = [blocks |-> [i \in {} |-> None], nextOutputIndex |-> 0, output |-> <<>>,
              reasoned |-> FALSE]
  /\ out = <<>>
  /\ heard = Silence
  /\ got = [at \in OutputIndices |-> 0]
  /\ listed = None

Carrier(at) == <<BlockOpen(at, "thinking"), BlockClose(at)>>
Item(at, kind, size) == [at |-> at, kind |-> kind, size |-> size]

(* The item that carries a signature comes before the call it signs. *)
OpenBlock(s, i, kind, signed) ==
  LET carried == kind = "tool" /\ signed
      at == s.nextOutputIndex + (IF carried THEN 1 ELSE 0)
  IN [state |-> [s EXCEPT
        !.reasoned = IF kind = "thinking" THEN TRUE ELSE @,
        !.output = IF carried THEN Append(@, Item(s.nextOutputIndex, "carrier", 0)) ELSE @,
        !.nextOutputIndex = at + 1,
        !.blocks = Entered(@, i, [at |-> at, kind |-> kind, size |-> 0, signed |-> FALSE])],
      events |-> Append(IF carried THEN Carrier(s.nextOutputIndex) ELSE <<>>, BlockOpen(at, kind))]

(* What is said of a block is told at once and kept for its done event;    *)
(* a signature or an annotation is only kept.                              *)
DeltaEvents(s, i, delta) ==
  LET kept == delta \in {"signature", "annotation"}
      block == [s.blocks[i] EXCEPT !.size = IF kept THEN @ ELSE @ + 1,
                                   !.signed = IF delta = "signature" THEN TRUE ELSE @]
  IN [state |-> [s EXCEPT !.blocks[i] = block],
      events |-> IF kept THEN <<>> ELSE <<BlockDelta(block.at, delta)>>]

CloseBlock(s, i) ==
  LET block == s.blocks[i]
      done == [s EXCEPT !.blocks = Restrict(@, DOMAIN @ \ {i}),
                        !.output = Append(@, Item(block.at, block.kind, block.size))]
      at == s.nextOutputIndex
  IN IF block.kind = "text" /\ block.signed /\ Native
     THEN [state |-> [done EXCEPT !.nextOutputIndex = @ + 1,
                                  !.output = Append(@, Item(at, "carrier", 0))],
           events |-> <<BlockClose(block.at)>> \o Carrier(at)]
     ELSE [state |-> done, events |-> <<BlockClose(block.at)>>]

ReasonedWithoutAnswering(s) == s.reasoned /\ s.output = <<>>

CompletedEvent(s, stop) ==
  CASE stop \in {"paused", "context_overflow"} -> StreamError
    [] stop \in {"max_output", "refusal"} \/ ReasonedWithoutAnswering(s) -> MessageEnd("max_output")
    [] OTHER -> MessageEnd("end")

EncodeHubEvent(s, e, signed) ==
  CASE e.type = "block-open" -> OpenBlock(s, e.index, e.kind, signed)
    [] e.type = "block-delta" -> DeltaEvents(s, e.index, e.delta)
    [] e.type = "block-close" -> CloseBlock(s, e.index)
    [] e.type = "media" -> [state |-> s, events |-> <<>>]
    [] e.type = "message-end" -> [state |-> s, events |-> <<CompletedEvent(s, e.stop)>>]
    [] OTHER -> [state |-> s, events |-> <<e>>]

-----------------------------------------------------------------------------
(* The client pulls and nothing is ready: the decoder is asked for an      *)
(* event.  A tool call opens signed or not.                                *)
Take ==
  /\ out = <<>>
  /\ Source!Next
  /\ LET e == source'.last IN
     /\ said' = IF e.type = "block-delta" THEN [said EXCEPT ![e.index] = @ + 1] ELSE said
     /\ \A i \in Blocks : said'[i] <= MaxSaid
     /\ \E signed \in (IF Native THEN BOOLEAN ELSE {FALSE}) :
          LET encoded == EncodeHubEvent(state, e, signed) IN
          state' = encoded.state /\ out' = encoded.events
  /\ UNCHANGED <<heard, got, listed>>

(* The last event carries the output: response.failed too, the error event *)
(* of a stop that cannot be mapped not.                                    *)
Pull ==
  /\ out # <<>>
  /\ LET e == Head(out) IN
     /\ heard' = Hear(heard, e)
     /\ got' = IF e.type = "block-delta" THEN [got EXCEPT ![e.index] = @ + 1] ELSE got
     /\ listed' = IF e.type = "message-end" THEN state.output ELSE listed
  /\ out' = Tail(out)
  /\ UNCHANGED <<source, said, state>>

Next == Take \/ Pull

Fairness == WF_vars(Pull)

Spec == Init /\ [][Next]_vars /\ Fairness

-----------------------------------------------------------------------------
TypeOK ==
  /\ DOMAIN state.blocks = DOMAIN source.open
  /\ \A i \in DOMAIN state.blocks :
       state.blocks[i].at < state.nextOutputIndex /\ state.blocks[i].kind = source.open[i]
  /\ state.nextOutputIndex - 1 \in OutputIndices \cup {-1}

Client == INSTANCE HubStream WITH Indices <- OutputIndices, Width <- Held, Contiguous <- TRUE

(* Whatever the decoder numbers its blocks and however many it holds open, *)
(* the client reads items numbered as they are added, each added, told and *)
(* done once, and nothing after the last event.                            *)
ClientSpec == Client!Spec

(* The last event lists each item the client was told of, once, with what  *)
(* it was told of it.                                                      *)
TheListingIsWhatWasTold ==
  listed # None =>
    /\ {listed[m].at : m \in DOMAIN listed} = heard.seen
    /\ Len(listed) = Cardinality(heard.seen)
    /\ \A m \in DOMAIN listed : listed[m].size = got[listed[m].at]

(* Whatever ends the message ends it for the client. *)
EndIsOwed == source.over # "no"
EndIsTold == heard.over # "no"
(* A turn that thought and then said nothing is not a completed response:  *)
(* what its test and the comment of reasonedWithoutAnswering say.          *)
(* The code departs from this (README, Departures).                        *)
ThinkingAloneIsNotCompleted ==
  heard.last = MessageEnd("end") /\ state.reasoned =>
    \E m \in DOMAIN listed : listed[m].kind \in {"text", "tool"}
=============================================================================
