----------------------------- MODULE HubStream -----------------------------
(***************************************************************************)
(* What a stream of hub events promises whoever reads it.  The message     *)
(* begins once and before any block; a block is opened under an index of   *)
(* its own, told only what fits its kind and only while it stands open,    *)
(* and closed once; the message ends with no block open; and nothing       *)
(* follows its end or an error.                                            *)
(*                                                                         *)
(* Every decoder and every rewriter of a stream is a way of keeping this   *)
(* promise.  Width is how many blocks may stand open at once, 1 where the  *)
(* reader takes one block after another; Contiguous says whether blocks    *)
(* are numbered in the order they open.                                    *)
(***************************************************************************)
EXTENDS HubEvents

CONSTANTS
  Indices,      \* a set of naturals
  Width,        \* at least 1
  Contiguous    \* a Boolean

VARIABLE heard

Init == heard = Silence

Tell(e) == heard.over = "no" /\ heard' = Hear(heard, e)

Begins == ~heard.begun /\ Tell(MessageBegin)

Opens ==
  /\ heard.begun
  /\ Cardinality(DOMAIN heard.open) < Width
  /\ \E i \in Indices \ heard.seen, kind \in Kinds :
       /\ Contiguous => i = Cardinality(heard.seen)
       /\ Tell(BlockOpen(i, kind))

Tells ==
  \E i \in DOMAIN heard.open, delta \in Deltas :
    Fits(heard.open[i], delta) /\ Tell(BlockDelta(i, delta))

Closes == \E i \in DOMAIN heard.open : Tell(BlockClose(i))

Shows == heard.begun /\ Tell(Media)

Ends(stops) ==
  /\ DOMAIN heard.open = {}
  /\ \E stop \in stops : Tell(MessageEnd(stop))

Breaks == Tell(StreamError)

Stops == {"end", "max_output", "stop_sequence", "tool_use", "paused", "refusal", "context_overflow"}

Next == Begins \/ Opens \/ Tells \/ Closes \/ Shows \/ Ends(Stops) \/ Breaks

Spec == Init /\ [][Next]_heard
=============================================================================
