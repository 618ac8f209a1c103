------------------------ MODULE GeminiSignatureStream ------------------------
(***************************************************************************)
(* Gemini answers on their way to a Responses client, with the signatures  *)
(* Gemini detaches from its words put back on the part they belong to      *)
(* (packages/engine/src/dialect/gemini-responses-signature-stream.ts and   *)
(* gemini-responses-text-signatures.ts).                                   *)
(*                                                                         *)
(* A response whose last part may yet be signed is held (`held`) until the *)
(* next one comes.  A part is its kind, the words it carries and the       *)
(* signature on it; words and signatures are numbered as they are said, so *)
(* that `said` and `told` can be compared: what the upstream said, and     *)
(* what was passed on; `signed` holds the signatures of both.              *)
(***************************************************************************)
EXTENDS Naturals, FiniteSets, Sequences, SequencesExt

CONSTANTS
  None,
  MaxFed,        \* bound: responses the upstream sends
  MaxParts,      \* bound: parts to a response
  SignsMedia     \* whether the upstream signs the media it sends

SignatureAssumption ==
  MaxFed \in Nat /\ MaxParts \in Nat /\ SignsMedia \in BOOLEAN

VARIABLES held, fed, over, said, told, signed
vars == <<held, fed, over, said, told, signed>>

Init ==
  /\ held = None
  /\ fed = 0
  /\ over = FALSE
  /\ said = <<>>
  /\ told = <<>>
  /\ signed = [said |-> {}, told |-> {}]

-----------------------------------------------------------------------------
(* One part: gemini-responses-signature-helpers.ts *)

Part(kind, words, signature) == [kind |-> kind, words |-> words, signature |-> signature]

IsSigned(part) == part.signature # None
IsVisible(part) == part.kind = "text"

(* A signature alone: a part that is neither a call, a thought nor words.  *)
IsDetached(part) ==
  /\ part.kind \notin {"call", "thought"}
  /\ part.kind = "text" => part.words = <<>>
  /\ IsSigned(part)

Carrier(signature) == Part("thought", <<>>, signature)

-----------------------------------------------------------------------------
(* The parts of one response: normalizeGeminiResponsesTextParts.  `parts`  *)
(* are those settled, `pending` a signature that waits for its part.       *)

Pushed(state, part) == [state EXCEPT !.parts = Append(@, part)]
Signed(state, signature) == [state EXCEPT !.parts[Len(state.parts)].signature = signature]
IsLast(state, Test(_)) == state.parts # <<>> /\ Test(Last(state.parts))

CarriesPending(state) ==
  IF state.pending = None THEN state
  ELSE [Pushed(state, Carrier(state.pending)) EXCEPT !.pending = None]

AppendDetached(state, signature) ==
  IF IsLast(state, LAMBDA part : IsVisible(part) /\ ~IsSigned(part)) THEN Signed(state, signature)
  ELSE [CarriesPending(state) EXCEPT !.pending = signature]

CanMergeThought(previous, next) ==
  ~IsSigned(previous) \/ (previous.words = <<>> /\ ~IsSigned(next))

MergedThought(previous, next) ==
  Part("thought", previous.words \o next.words,
       IF IsSigned(next) THEN next.signature ELSE previous.signature)

AppendThought(state, part) ==
  LET settled == CarriesPending(state) IN
  IF IsLast(settled, LAMBDA last : last.kind = "thought" /\ CanMergeThought(last, part))
  THEN [settled EXCEPT !.parts[Len(settled.parts)] = MergedThought(@, part)]
  ELSE Pushed(settled, part)

(* Signed words after an unsigned thought sign the thought. *)
CompletesThought(state, part) ==
  /\ IsVisible(part) /\ IsSigned(part)
  /\ IsLast(state, LAMBDA last : last.kind = "thought" /\ ~IsSigned(last))

CompletePendingThought(state, part) ==
  [Pushed(Signed(state, part.signature), [part EXCEPT !.signature = None]) EXCEPT !.pending = None]

AppendNormalized(state, part) ==
  LET takes == part.kind = "call" \/ (IsVisible(part) /\ ~IsSigned(part))
      settled == IF takes THEN state ELSE CarriesPending(state)
  IN [Pushed(settled, IF takes /\ state.pending # None
                      THEN [part EXCEPT !.signature = state.pending] ELSE part)
        EXCEPT !.pending = None]

AppendPart(state, part) ==
  CASE IsDetached(part) -> AppendDetached(state, part.signature)
    [] IsVisible(part) /\ part.words = <<>> /\ ~IsSigned(part) -> state
    [] part.kind = "thought" -> AppendThought(state, part)
    [] CompletesThought(state, part) -> CompletePendingThought(state, part)
    [] OTHER -> AppendNormalized(state, part)

NormalizeParts(parts) ==
  CarriesPending(FoldLeft(AppendPart, [parts |-> <<>>, pending |-> None], parts)).parts

-----------------------------------------------------------------------------
(* The stream: what a response does to the one held, and what it tells.    *)

HoldNothing(responses) == [held |-> None, responses |-> responses]

EndsWithPendingPart(response) ==
  response.parts # <<>> /\ Last(response.parts).kind \in {"text", "thought"}

IsDetachedOnly(response) == Len(response.parts) = 1 /\ IsDetached(response.parts[1])

StoreOrEmit(response) ==
  LET current == [response EXCEPT !.parts = NormalizeParts(@)] IN
  CASE response.finish -> HoldNothing(<<current>>)
    [] IsDetachedOnly(response) -> [held |-> response, responses |-> <<>>]
    [] EndsWithPendingPart(current) -> [held |-> current, responses |-> <<>>]
    [] OTHER -> HoldNothing(<<current>>)

(* Held words go on in the next response's, when each is all of its own.   *)
CombinesVisible(pending, current) ==
  /\ Len(pending.parts) = 1 /\ IsVisible(pending.parts[1]) /\ ~IsSigned(pending.parts[1])
  /\ Len(current.parts) = 1 /\ IsVisible(current.parts[1])

CombinedVisible(pending, current) ==
  [current EXCEPT !.parts = <<[current.parts[1] EXCEPT !.words = pending.parts[1].words \o @]>>]

CombinesReasoning(pending, current) ==
  /\ pending.parts # <<>> /\ current.parts # <<>>
  /\ LET previous == Last(pending.parts)
         next == Head(current.parts)
     IN /\ previous.kind = "thought"
        /\ IF IsSigned(previous)
           THEN previous.words = <<>> /\ next.kind = "thought" /\ ~IsSigned(next)
           ELSE next.kind = "thought" \/ (IsVisible(next) /\ IsSigned(next))

(* Of the two responses only the parts that meet are kept. *)
CombinedReasoning(pending, current) ==
  [current EXCEPT !.parts = NormalizeParts(<<Last(pending.parts), Head(@)>>)]

ProcessPending(pending, current) ==
  CASE CombinesVisible(pending, current) -> StoreOrEmit(CombinedVisible(pending, current))
    [] CombinesReasoning(pending, current) /\ ~CombinesVisible(pending, current) ->
         StoreOrEmit(CombinedReasoning(pending, current))
    [] current.parts = <<>> /\ current.finish -> HoldNothing(<<[pending EXCEPT !.finish = TRUE]>>)
    [] OTHER -> [StoreOrEmit(current) EXCEPT !.responses = <<pending>> \o @]

(* A signature that leads a response is put on the words held. *)
TakesLeadingDetached(pending, response) ==
  /\ response.parts # <<>> /\ IsDetached(Head(response.parts))
  /\ pending.parts # <<>> /\ IsVisible(Last(pending.parts)) /\ ~IsSigned(Last(pending.parts))

ProcessResponse(pending, response) ==
  IF pending = None THEN StoreOrEmit(response)
  ELSE IF IsDetachedOnly(pending)
  THEN StoreOrEmit([response EXCEPT !.parts = pending.parts \o @])
  ELSE IF TakesLeadingDetached(pending, response)
  THEN ProcessPending([pending EXCEPT !.parts[Len(pending.parts)].signature =
                                         Head(response.parts).signature],
                      [response EXCEPT !.parts = Tail(@)])
  ELSE ProcessPending(pending, response)

-----------------------------------------------------------------------------
(* What a response says, in order: its words by kind, and its signatures.  *)
Contents(part) == [m \in DOMAIN part.words |-> <<part.kind, part.words[m]>>]
Telling(responses) ==
  FoldLeft(LAMBDA acc, response :
             FoldLeft(LAMBDA inner, part : inner \o Contents(part), acc, response.parts),
           <<>>, responses)

Signatures(responses) ==
  UNION {{responses[n].parts[m].signature : m \in DOMAIN responses[n].parts} :
           n \in DOMAIN responses} \ {None}

(* The m-th part of the n-th response, its words and signature numbered.   *)
Parts(n, m) ==
  LET id == n * (MaxParts + 1) + m
      signatures == {None, id}
  IN {Part("text", <<id>>, s) : s \in signatures} \cup {Part("text", <<>>, s) : s \in signatures}
     \cup {Part("thought", <<id>>, s) : s \in signatures} \cup {Part("thought", <<>>, id)}
     \cup {Part("call", <<id>>, s) : s \in signatures}
     \cup {Part("media", <<id>>, s) : s \in IF SignsMedia THEN signatures ELSE {None}}

Feed ==
  /\ ~over /\ fed < MaxFed
  /\ \E count \in 0..MaxParts, finish \in BOOLEAN :
       \E parts \in [1..count -> UNION {Parts(fed, m) : m \in 1..count}] :
         LET response == [parts |-> parts, finish |-> finish]
             processed == ProcessResponse(held, response)
         IN /\ \A m \in 1..count : parts[m] \in Parts(fed, m)
            /\ held' = processed.held
            /\ said' = said \o Telling(<<response>>)
            /\ told' = told \o Telling(processed.responses)
            /\ signed' = [said |-> signed.said \cup Signatures(<<response>>),
                          told |-> signed.told \cup Signatures(processed.responses)]
            /\ over' = finish
  /\ fed' = fed + 1

(* The upstream stops without a finish: what is held is passed on. *)
Stop ==
  /\ ~over
  /\ told' = told \o (IF held = None THEN <<>> ELSE Telling(<<held>>))
  /\ signed' = [signed EXCEPT !.told = @ \cup (IF held = None THEN {} ELSE Signatures(<<held>>))]
  /\ held' = None
  /\ over' = TRUE
  /\ UNCHANGED <<fed, said>>

Next == Feed \/ Stop

Spec == Init /\ [][Next]_vars

-----------------------------------------------------------------------------
(* Only a response with something left to sign is held, and never the last. *)
TypeOK ==
  /\ over => held = None
  /\ held # None => ~held.finish /\ held.parts # <<>>

(* Whatever the upstream said is passed on, in its order, once the answer  *)
(* is over: a response held back is released whole.                        *)
HeldIsReleasedWhole == over => told = said

(* A signature moved from part to part is not lost on the way; of two that *)
(* are meant for one part only one can stand on it.                        *)
ALoneSignatureIsKept == over /\ Cardinality(signed.said) = 1 => signed.told = signed.said

(* Nothing is told before what was said before it. *)
ToldIsAPrefix == IsPrefix(told, said)
=============================================================================
