----------------------- MODULE AnthropicStreamEncode -----------------------
(***************************************************************************)
(* A hub stream encoded into an Anthropic one                              *)
(* (packages/engine/src/dialect/hub-stream-serialize.ts and                *)
(* anthropic-stream-encode.ts).  A hub stream may hold several blocks open *)
(* at once; an Anthropic client reads one content block after another, so  *)
(* what is said of a block while another stands open is kept, blocks are   *)
(* renumbered in the order they are told, and the message's end waits for  *)
(* all of them.                                                            *)
(*                                                                         *)
(* `source` is what the decoder upstream has said, `said` how much of each *)
(* block; `ser` is SerializeState and `begun` the encoder's latch; `out`   *)
(* holds wire events not yet pulled, and `heard` and `told` are the        *)
(* client's own view.  A wire event is written as the hub event it stands  *)
(* for: message_start as message-begin, content_block_start as block-open, *)
(* message_delta with its message_stop as message-end.                     *)
(***************************************************************************)
EXTENDS HubEvents, Sequences, SequencesExt

CONSTANTS
  Blocks,       \* the decoder's block indices
  Held,         \* how many blocks the decoder may hold open at once
  MaxSaid       \* bound: deltas to one block

EncodeAssumption ==
  Blocks \subseteq Nat /\ Held \in Nat \ {0} /\ MaxSaid \in Nat

VARIABLES source, said, ser, begun, finished, out, heard, told
vars == <<source, said, ser, begun, finished, out, heard, told>>

Source == INSTANCE HubStream
            WITH heard <- source, Indices <- Blocks, Width <- Held, Contiguous <- FALSE

NotCounted == [i \in Blocks |-> 0]

Init ==
  /\ Source!Init
  /\ said = NotCounted
  /\ ser = [active |-> None, queued |-> <<>>, buffered |-> [i \in {} |-> <<>>],
            wire |-> [i \in {} |-> 0], nextWire |-> 0, terminal |-> None]
  /\ begun = FALSE
  /\ finished = FALSE
  /\ out = <<>>
  /\ heard = Silence
  /\ told = NotCounted

(* Mutant: blocks keep the numbers the decoder gave them. *)
NumberedAlike(s, i) == [s EXCEPT !.wire = (i :> i) @@ @]

(* A block is numbered when it is first told of. *)
Numbered(s, i) ==
  IF i \in DOMAIN s.wire THEN s
  ELSE [s EXCEPT !.wire = (i :> s.nextWire) @@ @, !.nextWire = @ + 1]

Remapped(s, events) ==
  LET n == IF events = <<>> THEN s ELSE Numbered(s, Head(events).index) IN
  [ser |-> n, events |-> [m \in DOMAIN events |-> [events[m] EXCEPT !.index = n.wire[@]]]]

(* Mutant: only the latest of what waits is kept. *)
KeepsTheLatest(s, e) ==
  [s EXCEPT !.buffered = (e.index :> <<e>>) @@ @,
            !.queued = IF e.index \in DOMAIN s.buffered THEN @ ELSE Append(@, e.index)]

Buffered(s, e) ==
  IF e.index \in DOMAIN s.buffered
  THEN [s EXCEPT !.buffered[e.index] = Append(@, e)]
  ELSE [s EXCEPT !.buffered = (e.index :> <<e>>) @@ @, !.queued = Append(@, e.index)]

(* The end is let through once no block is told of and none waits. *)
TerminalWhenReady(s) ==
  IF s.active # None \/ s.queued # <<>> \/ s.terminal = None
  THEN [ser |-> s, events |-> <<>>]
  ELSE [ser |-> [s EXCEPT !.terminal = None], events |-> <<s.terminal>>]

(* The block that waited longest is told, up to its close; it stays the    *)
(* one told of when it has none yet.                                       *)
DrainedBlock(s, i) ==
  LET kept == s.buffered[i]
      closeAt == SelectInSeq(kept, LAMBDA e : e.type = "block-close")
      drained == IF closeAt = 0 THEN kept ELSE SubSeq(kept, 1, closeAt)
  IN Remapped([s EXCEPT !.buffered = Restrict(@, DOMAIN @ \ {i}),
                        !.queued = Tail(@),
                        !.active = IF closeAt = 0 THEN i ELSE None], drained)

(* One turn of the drain: the next block that waits, if none is told of. *)
DrainTurn(acc) ==
  IF acc.ser.active # None \/ acc.ser.queued = <<>> THEN acc
  ELSE LET block == DrainedBlock(acc.ser, Head(acc.ser.queued)) IN
       [ser |-> block.ser, events |-> acc.events \o block.events]

DrainQueued(s) ==
  LET drained == FoldLeft(LAMBDA acc, turn : DrainTurn(acc), [ser |-> s, events |-> <<>>], s.queued)
      ended == TerminalWhenReady(drained.ser)
  IN [ser |-> ended.ser, events |-> drained.events \o ended.events]

RouteBlock(s, e) ==
  LET alone == Remapped(s, <<e>>)
      closed == DrainQueued([alone.ser EXCEPT !.active = None])
  IN CASE s.active = None /\ s.queued = <<>> /\ e.type = "block-open" ->
            [alone EXCEPT !.ser.active = e.index]
       [] s.active # None /\ e.index = s.active ->
            IF e.type = "block-close"
            THEN [ser |-> closed.ser, events |-> alone.events \o closed.events]
            ELSE alone
       [] OTHER -> [ser |-> Buffered(s, e), events |-> <<>>]

SerializedEvent(s, e) ==
  CASE IsBlockEvent(e) -> RouteBlock(s, e)
    [] e.type = "message-end" -> TerminalWhenReady([s EXCEPT !.terminal = e])
    [] OTHER -> [ser |-> s, events |-> <<e>>]

(* Media has no wire event.  The first wire event is preceded by           *)
(* message_start when the decoder began without one, unless it is an error.*)
Encoded(latched, events) ==
  LET kept == SelectSeq(events, LAMBDA e : e.type # "media")
      first == IF kept = <<>> THEN Nothing ELSE Head(kept)
      starts == first.type \notin {"nothing", "stream-error"}
  IN [begun |-> latched \/ starts,
      events |-> IF ~latched /\ starts /\ first.type # "message-begin"
                 THEN <<MessageBegin>> \o kept ELSE kept]

(* The client pulls and nothing is ready: the decoder is asked for an      *)
(* event.  Nothing is read once the encoder has told a terminal.           *)
Encode(e) ==
  LET serialized == SerializedEvent(ser, e)
      encoded == Encoded(begun, serialized.events)
  IN /\ ser' = serialized.ser
     /\ begun' = encoded.begun
     /\ out' = encoded.events
     /\ finished' = \E m \in DOMAIN encoded.events : IsTerminal(encoded.events[m])
     /\ UNCHANGED <<heard, told>>

Counted(counts, e) ==
  IF e.type = "block-delta" /\ e.index \in Blocks THEN [counts EXCEPT ![e.index] = @ + 1] ELSE counts

Take ==
  /\ out = <<>> /\ ~finished
  /\ Source!Next
  /\ said' = Counted(said, source'.last)
  /\ \A i \in Blocks : said'[i] <= MaxSaid
  /\ Encode(source'.last)

Pull ==
  /\ out # <<>>
  /\ heard' = Hear(heard, Head(out))
  /\ told' = Counted(told, Head(out))
  /\ out' = Tail(out)
  /\ UNCHANGED <<source, said, ser, begun, finished>>

Next == Take \/ Pull

Fairness == WF_vars(Pull)

Spec == Init /\ [][Next]_vars /\ Fairness

-----------------------------------------------------------------------------
TypeOK ==
  /\ ser.active \in {None} \cup Blocks
  /\ DOMAIN ser.buffered = Range(ser.queued)
  /\ DOMAIN ser.wire \subseteq Blocks
  /\ ser.nextWire = Cardinality(DOMAIN ser.wire)
  /\ begun \in BOOLEAN /\ finished \in BOOLEAN

Client == INSTANCE HubStream WITH Indices <- Blocks, Width <- 1, Contiguous <- TRUE

(* However many blocks the decoder holds open, and in whatever order it    *)
(* numbers them, the client reads a stream of one content block at a time, *)
(* numbered as they start.                                                 *)
ClientSpec == Client!Spec

(* Nothing but an error comes before message_start. *)
NothingBeforeTheStart ==
  heard.last.type \notin {"nothing", "stream-error"} => heard.begun

(* A client told of the end was told everything the decoder said of every  *)
(* block, under the block's own number.                                    *)
TheEndComesLast ==
  heard.over = "ended" =>
    \A i \in Blocks : said[i] # 0 => told[ser.wire[i]] = said[i]

(* A message the decoder ends ends for the client: the transform ends the  *)
(* way the target dialect ends.                                            *)
EndIsOwed == source.over = "ended"
EndIsTold == heard.over = "ended"

=============================================================================
