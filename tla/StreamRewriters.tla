--------------------------- MODULE StreamRewriters ---------------------------
(***************************************************************************)
(* Hub streams rewritten between a decoder and an encoder                  *)
(* (packages/engine/src/dialect/anthropic-responses-stream.ts,             *)
(* gemini-claude-carrier-stream.ts and gemini-claude-stream.ts).           *)
(*                                                                         *)
(* An Anthropic stream on its way to a Responses client has the text       *)
(* blocks a hidden server tool split told as one.  A Gemini stream on its  *)
(* way to an Anthropic client has each block held until it is whole: its   *)
(* signature goes into a thinking block of its own, before or after it,    *)
(* and a signature the first rewriter left on empty text is then told of   *)
(* the thinking block before it.                                           *)
(*                                                                         *)
(* `source` is what the decoder has said, one block at a time; `said` how  *)
(* many words and signatures; `way` is the state of the rewriters; `out`   *)
(* the events not yet pulled, `heard`, `got` and `lastKind` what the       *)
(* reader has pulled.                                                      *)
(***************************************************************************)
EXTENDS HubEvents, Sequences, SequencesExt

CONSTANTS
  Blocks,       \* the decoder's block indices
  MaxSaid,      \* bound: deltas to one block
  ToAnthropic   \* whether the stream is Gemini's and goes to an Anthropic client

RewriterAssumption ==
  Blocks \subseteq Nat /\ MaxSaid \in Nat /\ ToAnthropic \in BOOLEAN

VARIABLES source, said, way, out, heard, got, lastKind
vars == <<source, said, way, out, heard, got, lastKind>>

Source == INSTANCE HubStream
            WITH heard <- source, Indices <- Blocks, Width <- 1, Contiguous <- TRUE

NothingTold == [words |-> 0, signatures |-> 0, here |-> 0, sealed |-> FALSE]

Init ==
  /\ Source!Init
  /\ said = NothingTold
  /\ way = [aliases |-> [i \in {} |-> 0], pendingText |-> None,
            block |-> None, nextIndex |-> 0, lastTarget |-> None,
            candidate |-> None, kinds |-> [i \in {} |-> None], pendingThinking |-> None]
  /\ out = <<>>
  /\ heard = Silence
  /\ got = NothingTold
  /\ lastKind = None

Gives(w, events) == [way |-> w, events |-> events]
Then(first, second) == Gives(second.way, first.events \o second.events)

(* The events of a sequence, one after another. *)
Each(Rewrite(_, _), w, events) ==
  FoldLeft(LAMBDA acc, e : Then(acc, Rewrite(acc.way, e)), Gives(w, <<>>), events)

-----------------------------------------------------------------------------
(* mergeAnthropicResponseText *)

(* The text block stays open until something other than text is told. *)
FlushPending(w) ==
  IF w.pendingText = None THEN Gives(w, <<>>)
  ELSE Gives([w EXCEPT !.aliases = [i \in {} |-> 0], !.pendingText = None],
             <<BlockClose(w.pendingText)>>)

Aliased(w, i) == [w EXCEPT !.aliases =
                    (i :> (IF w.pendingText = None THEN i ELSE w.pendingText)) @@ @]

Flushed(w, e) == Then(FlushPending(w), Gives(FlushPending(w).way, <<e>>))

OpenEvents(w, e) ==
  CASE e.kind # "text" -> Flushed(w, e)
    [] w.pendingText = None -> Gives([Aliased(w, e.index) EXCEPT !.pendingText = e.index], <<e>>)
    [] OTHER -> Gives(Aliased(w, e.index), <<>>)

DeltaEvents(w, e) ==
  Gives(w, <<IF e.index \in DOMAIN w.aliases THEN [e EXCEPT !.index = w.aliases[@]] ELSE e>>)

CloseEvents(w, e) == Gives(w, IF e.index \in DOMAIN w.aliases THEN <<>> ELSE <<e>>)

MergedText(w, e) ==
  CASE IsTerminal(e) -> Flushed(w, e)
    [] e.type = "block-open" -> OpenEvents(w, e)
    [] e.type = "block-delta" -> DeltaEvents(w, e)
    [] e.type = "block-close" -> CloseEvents(w, e)
    [] OTHER -> Gives(w, <<e>>)

-----------------------------------------------------------------------------
(* geminiClaudeCarrierStream *)

TargetOf(kind) == IF kind = "tool" THEN "function" ELSE "text"
IsSignature(e) == e.delta = "signature"
WithoutSignature(opening) == [opening EXCEPT !.signed = "no"]

CarrierEvents(w) ==
  Gives([w EXCEPT !.nextIndex = @ + 1],
        <<[signed |-> "carrier"] @@ BlockOpen(w.nextIndex, "thinking"),
          [native |-> FALSE] @@ BlockDelta(w.nextIndex, "signature"),
          BlockClose(w.nextIndex)>>)

(* A block told whole, under the next index. *)
TargetEvents(w, opening, deltas) ==
  Gives([w EXCEPT !.nextIndex = @ + 1, !.lastTarget = TargetOf(opening.kind)],
        <<[opening EXCEPT !.index = w.nextIndex]>>
        \o [m \in DOMAIN deltas |-> [deltas[m] EXCEPT !.index = w.nextIndex]]
        \o <<BlockClose(w.nextIndex)>>)

CompletedBlock(w, block) ==
  LET signs == SelectSeq(block.deltas, IsSignature)
      native == IF signs # <<>> THEN Head(signs).native ELSE block.opening.signed = "native"
      unsigned == SelectSeq(block.deltas, LAMBDA e : ~IsSignature(e))
      hasText == \E m \in DOMAIN block.deltas : block.deltas[m].delta \in {"text", "thinking"}
      carried == CarrierEvents(w)
  IN IF ~native THEN TargetEvents(w, block.opening, block.deltas)
     ELSE IF block.opening.kind = "text" /\ ~hasText THEN carried
     ELSE Then(carried, TargetEvents(carried.way, WithoutSignature(block.opening), unsigned))

(* While a block is held, only what is said of it and its close are heard; *)
(* media said meanwhile are dropped, which an Anthropic client could not   *)
(* be shown either.                                                        *)
Carried(w, e) ==
  CASE w.block # None ->
         (CASE e.type = "block-delta" ->
                 Gives([w EXCEPT !.block.deltas = Append(@, e)], <<>>)
            [] e.type = "block-close" ->
                 CompletedBlock([w EXCEPT !.block = None], w.block)
            [] OTHER -> Gives(w, <<>>))
    [] e.type = "block-open" -> Gives([w EXCEPT !.block = [opening |-> e, deltas |-> <<>>]], <<>>)
    [] e.type = "message-begin" -> Gives([w EXCEPT !.nextIndex = 0, !.lastTarget = None], <<e>>)
    [] OTHER -> Gives(w, <<e>>)

-----------------------------------------------------------------------------
(* mergeGeminiThinkingSignature *)

PendingClose(w) ==
  IF w.pendingThinking = None THEN Gives(w, <<>>)
  ELSE Gives([w EXCEPT !.pendingThinking = None], <<BlockClose(w.pendingThinking)>>)

(* The close of a thinking block waits for what follows it. *)
BaseEvents(w, e) ==
  CASE e.type = "block-open" -> Gives([w EXCEPT !.kinds = (e.index :> e.kind) @@ @], <<e>>)
    [] e.type = "block-close" ->
         LET forgot == [w EXCEPT !.kinds = Restrict(@, DOMAIN @ \ {e.index})] IN
         IF w.kinds[e.index] = "thinking"
         THEN Gives([forgot EXCEPT !.pendingThinking = e.index], <<>>) ELSE Gives(forgot, <<e>>)
    [] OTHER -> Gives(w, <<e>>)

(* Text that was only a signature signs the thinking block before it. *)
FinishCandidate(w) ==
  LET c == w.candidate
      rest == [w EXCEPT !.candidate = None]
      signs == ~c.hasText /\ c.signed /\ w.pendingThinking # None
      closed == PendingClose(rest)
  IN IF signs
     THEN Gives(closed.way, <<BlockDelta(w.pendingThinking, "signature")>> \o closed.events)
     ELSE Gives(closed.way, closed.events \o c.events \o <<BlockClose(c.index)>>)

Normalized(w, e) ==
  CASE w.pendingThinking # None /\ e.type = "block-open" /\ e.kind = "text" ->
         Gives([w EXCEPT !.kinds = (e.index :> e.kind) @@ @,
                         !.candidate = [events |-> <<e>>, hasText |-> FALSE, index |-> e.index,
                                        signed |-> FALSE]], <<>>)
    [] OTHER -> LET closed == PendingClose(w) IN Then(closed, BaseEvents(closed.way, e))

MergedThinking(w, e) ==
  CASE w.candidate = None -> Normalized(w, e)
    [] e.type = "block-delta" /\ e.index = w.candidate.index ->
         Gives([w EXCEPT !.candidate.events = Append(@, e),
                         !.candidate.hasText = @ \/ e.delta = "text",
                         !.candidate.signed = @ \/ IsSignature(e)], <<>>)
    [] e.type = "block-close" /\ e.index = w.candidate.index ->
         FinishCandidate([w EXCEPT !.kinds = Restrict(@, DOMAIN @ \ {e.index})])
    [] OTHER -> LET flushed == FinishCandidate(w) IN Then(flushed, Normalized(flushed.way, e))

-----------------------------------------------------------------------------
Rewritten(w, e) ==
  IF ~ToAnthropic THEN MergedText(w, e)
  ELSE LET carried == Carried(w, e) IN Each(MergedThinking, carried.way, carried.events)

(* Gemini's decoder signs a call in its opening and other blocks by the    *)
(* last thing said of them, with a signature that is or is not Gemini's    *)
(* own, and tells no errors.                                               *)
Dressed(e) ==
  CASE e.type = "block-open" ->
         {[signed |-> s] @@ e : s \in IF ToAnthropic /\ e.kind = "tool" THEN {"no", "native"} ELSE {"no"}}
    [] e.type = "block-delta" /\ IsSignature(e) -> {[native |-> n] @@ e : n \in BOOLEAN}
    [] OTHER -> {e}

IsWord(e) == e.type = "block-delta" /\ e.delta \in {"text", "thinking", "json-args"}
Signs(e) == e.type = "block-delta" /\ e.delta = "signature"

Counted(told, e, opening) ==
  [words |-> told.words + (IF IsWord(e) THEN 1 ELSE 0),
   signatures |-> told.signatures
                  + (IF Signs(e) \/ (e.type = "block-open" /\ opening = "native") THEN 1 ELSE 0),
   here |-> IF e.type = "block-open" THEN 0 ELSE told.here + (IF e.type = "block-delta" THEN 1 ELSE 0),
   sealed |-> e.type # "block-open" /\ (told.sealed \/ Signs(e))]

Bare(e) ==
  CASE e.type = "block-open" -> BlockOpen(e.index, e.kind)
    [] e.type = "block-delta" -> BlockDelta(e.index, e.delta)
    [] OTHER -> e

Take ==
  /\ out = <<>>
  /\ Source!Next
  /\ LET e == source'.last IN
     /\ e.type = "block-delta" =>
          ~said.sealed /\ (ToAnthropic /\ IsSignature(e) => source.open[e.index] # "tool")
     /\ ToAnthropic => e.type # "stream-error"
     /\ \E dressed \in Dressed(e) :
          /\ said' = Counted(said, e, IF "signed" \in DOMAIN dressed THEN dressed.signed ELSE "no")
          /\ said'.here <= MaxSaid
          /\ way' = Rewritten(way, dressed).way
          /\ out' = Rewritten(way, dressed).events
  /\ UNCHANGED <<heard, got, lastKind>>

Pull ==
  /\ out # <<>>
  /\ heard' = Hear(heard, Bare(Head(out)))
  /\ got' = Counted(got, Head(out), "no")
  /\ lastKind' = IF Head(out).type = "block-open" THEN Head(out).kind ELSE lastKind
  /\ out' = Tail(out)
  /\ UNCHANGED <<source, said, way>>

Next == Take \/ Pull

Fairness == WF_vars(Pull)

Spec == Init /\ [][Next]_vars /\ Fairness

-----------------------------------------------------------------------------
TypeOK ==
  /\ way.pendingText \in {None} \cup Blocks
  /\ way.block # None => DOMAIN source.open # {}
  /\ way.candidate # None => way.pendingThinking # None

OutIndices == 0..(2 * Cardinality(Blocks))

Hub == INSTANCE HubStream WITH Indices <- OutIndices, Width <- 1, Contiguous <- FALSE

(* A stream rewritten is a hub stream still, one block at a time: what is  *)
(* withheld is told before its block closes and the message ends.          *)
HubSpec == Hub!Spec

(* A reader told of the end was told every word the decoder said and every *)
(* signature, once, on whichever block it came to stand.                   *)
NothingIsLost ==
  heard.over = "ended" =>
    /\ got.words = said.words
    /\ got.signatures = said.signatures

(* A hidden server tool does not split the text around it. *)
TextAsOne ==
  heard'.last.type = "block-open" /\ heard' # heard
    => heard'.last.kind # "text" \/ lastKind # "text"

EndIsOwed == source.over # "no"
EndIsTold == heard.over # "no"

=============================================================================
