--------------------------- MODULE StreamEncoders ---------------------------
(***************************************************************************)
(* Hub streams encoded for a Chat Completions, a Gemini and an             *)
(* Interactions client (packages/engine/src/dialect/                       *)
(* chat-completions-stream-encode.ts, gemini-stream-encode.ts and          *)
(* interactions-stream-encode.ts).                                         *)
(*                                                                         *)
(* A Chat client knows a call by its place among the calls, a Gemini       *)
(* client is told a call whole, an Interactions client knows steps by the  *)
(* hub's own indices.  `source` is what the encoder was told and `said`    *)
(* how much of each block, `spoken` how many words and thoughts; `state`   *)
(* is the encoder's EncodeState; `out` the frames not yet pulled and       *)
(* `client` what the client put together.                                  *)
(***************************************************************************)
EXTENDS HubEvents, Sequences, SequencesExt

CONSTANTS
  Target,       \* the dialect of the client
  Blocks,       \* the hub's block indices
  MaxSaid       \* bound: deltas to one block

EncoderAssumption ==
  /\ Target \in {"chat", "gemini", "interactions"}
  /\ Blocks \subseteq Nat /\ MaxSaid \in Nat

VARIABLES source, said, spoken, state, out, client
vars == <<source, said, spoken, state, out, client>>

Source == INSTANCE HubStream
            WITH heard <- source, Indices <- Blocks, Width <- 2, Contiguous <- FALSE

Init ==
  /\ Source!Init
  /\ said = [i \in Blocks |-> 0]
  /\ spoken = [words |-> 0, thoughts |-> 0]
  /\ state = [toolChatIndex |-> [i \in {} |-> 0], toolCounter |-> 0, blocks |-> [i \in {} |-> 0]]
  /\ out = <<>>
  /\ client = [words |-> 0, thoughts |-> 0, calls |-> [k \in {} |-> None], over |-> "no"]

Gives(s, frames) == [state |-> s, frames |-> frames]

Words == [type |-> "words"]
Thoughts == [type |-> "thoughts"]
Call(key, id, args) == [type |-> "call", key |-> key, id |-> id, args |-> args]
Finish == [type |-> "finish"]
Failure == [type |-> "failure"]

-----------------------------------------------------------------------------
(* Chat Completions: the calls are counted as they open. *)

OpenToolChunk(s, i) ==
  Gives([s EXCEPT !.toolChatIndex = (i :> s.toolCounter) @@ @, !.toolCounter = @ + 1],
        <<Call(s.toolCounter, i, 0)>>)

ArgsChunk(s, i) ==
  Call(IF i \in DOMAIN s.toolChatIndex THEN s.toolChatIndex[i] ELSE 0, None, 1)

Unmappable == {"paused", "context_overflow"}

(* Mutant: a stop that has no Chat form is told nothing. *)
EndsOnlyTheMappable(stop) == IF stop \in Unmappable THEN <<>> ELSE <<Finish>>

ChatEnd(stop) == IF stop \in Unmappable THEN <<Failure>> ELSE <<Finish>>

(* A Chat client is told neither thoughts nor signatures. *)
ChatDelta(s, e) ==
  CASE e.delta = "text" -> <<Words>>
    [] e.delta = "json-args" -> <<ArgsChunk(s, e.index)>>
    [] OTHER -> <<>>

ChatEncoded(s, e) ==
  CASE e.type = "block-open" /\ e.kind = "tool" -> OpenToolChunk(s, e.index)
    [] e.type = "block-delta" -> Gives(s, ChatDelta(s, e))
    [] e.type = "message-end" -> Gives(s, ChatEnd(e.stop))
    [] e.type = "stream-error" -> Gives(s, <<Failure>>)
    [] OTHER -> Gives(s, <<>>)

-----------------------------------------------------------------------------
(* Gemini: a call is told once it is whole, and an error as words. *)

UpdateBlock(s, i) == [s EXCEPT !.blocks[i] = @ + 1]

CloseResponses(s, i) ==
  Gives([s EXCEPT !.blocks = Restrict(@, DOMAIN @ \ {i})],
        IF source.open[i] = "tool" THEN <<Call(None, i, s.blocks[i])>> ELSE <<>>)

DeltaPart(e) ==
  CASE e.delta = "text" -> <<Words>>
    [] e.delta = "thinking" -> <<Thoughts>>
    [] OTHER -> <<>>

EndResponse(stop) == <<Finish>>

GeminiEncoded(s, e) ==
  CASE e.type = "block-open" -> Gives([s EXCEPT !.blocks = (e.index :> 0) @@ @], <<>>)
    [] e.type = "block-delta" /\ e.delta = "json-args" -> Gives(UpdateBlock(s, e.index), <<>>)
    [] e.type = "block-delta" /\ e.delta # "json-args" -> Gives(s, DeltaPart(e))
    [] e.type = "block-close" -> CloseResponses(s, e.index)
    [] e.type = "message-end" -> Gives(s, EndResponse(e.stop))
    [] e.type = "stream-error" -> Gives(s, <<Words, Finish>>)
    [] OTHER -> Gives(s, <<>>)

-----------------------------------------------------------------------------
(* Interactions: a step under the index of its block. *)

StepDelta(s, e) ==
  CASE e.delta = "text" -> <<Words>>
    [] e.delta = "thinking" -> <<Thoughts>>
    [] e.delta = "json-args" -> <<Call(e.index, None, 1)>>
    [] OTHER -> <<>>

TerminalEvent(e) == IF e.type = "message-end" THEN <<Finish>> ELSE <<Failure>>

InteractionsEncoded(s, e) ==
  CASE e.type = "block-open" /\ e.kind = "tool" -> Gives(s, <<Call(e.index, e.index, 0)>>)
    [] e.type = "block-delta" -> Gives(s, StepDelta(s, e))
    [] IsTerminal(e) -> Gives(s, TerminalEvent(e))
    [] OTHER -> Gives(s, <<>>)

-----------------------------------------------------------------------------
Encoded(s, e) ==
  CASE Target = "chat" -> ChatEncoded(s, e)
    [] Target = "gemini" -> GeminiEncoded(s, e)
    [] Target = "interactions" -> InteractionsEncoded(s, e)

Take ==
  /\ out = <<>>
  /\ Source!Next
  /\ LET e == source'.last
         encoded == Encoded(state, e)
     IN /\ e.type = "block-delta" => said[e.index] < MaxSaid
        /\ said' = IF e.type = "block-delta" /\ e.delta \in {"text", "thinking", "json-args"}
                   THEN [said EXCEPT ![e.index] = @ + 1] ELSE said
        /\ spoken' = CASE e.type = "block-delta" /\ e.delta = "text" -> [spoken EXCEPT !.words = @ + 1]
                       [] e.type = "block-delta" /\ e.delta = "thinking" ->
                            [spoken EXCEPT !.thoughts = @ + 1]
                       [] OTHER -> spoken
        /\ state' = encoded.state
        /\ out' = encoded.frames
  /\ UNCHANGED client

(* The client puts the frame where the frame says it goes.                 *)
Assembled(c, f) ==
  LET key == IF f.key = None THEN Cardinality(DOMAIN c.calls) ELSE f.key IN
  IF key \in DOMAIN c.calls /\ f.id = None
  THEN [c EXCEPT !.calls[key].args = @ + f.args]
  ELSE [c EXCEPT !.calls = (key :> [id |-> f.id, args |-> f.args]) @@ @]

Pull ==
  /\ out # <<>>
  /\ LET f == Head(out) IN
     client' = CASE f.type = "words" -> [client EXCEPT !.words = @ + 1]
                 [] f.type = "thoughts" -> [client EXCEPT !.thoughts = @ + 1]
                 [] f.type = "call" -> Assembled(client, f)
                 [] f.type = "finish" -> [client EXCEPT !.over = "ended"]
                 [] f.type = "failure" -> [client EXCEPT !.over = "broken"]
  /\ out' = Tail(out)
  /\ UNCHANGED <<source, said, spoken, state>>

Next == Take \/ Pull

Fairness == WF_vars(Pull)

Spec == Init /\ [][Next]_vars /\ Fairness

-----------------------------------------------------------------------------
TypeOK ==
  /\ DOMAIN state.blocks \subseteq DOMAIN source.open
  /\ DOMAIN state.toolChatIndex \subseteq source.seen
  /\ Cardinality(DOMAIN state.toolChatIndex) = state.toolCounter

(* However many calls stand open at once, each is put together from its    *)
(* own arguments, all of them, once.                                       *)
ArgumentsFindTheirCall ==
  client.over = "ended" /\ source.over = "ended" =>
    \A k \in DOMAIN client.calls :
      /\ client.calls[k].id # None
      /\ client.calls[k].args = said[client.calls[k].id]
      /\ \A j \in DOMAIN client.calls : client.calls[j].id = client.calls[k].id => j = k

(* A client that counts its calls finds no gap among them. *)
CallsAreCounted ==
  Target = "chat" => DOMAIN client.calls = 0..(Cardinality(DOMAIN client.calls) - 1)

(* The stream ends the way the source ended: an error stands as an error,  *)
(* and no success stands after a failure.                                  *)
EndsTheWayTheSourceEnded ==
  /\ client.over = "ended" => source.over = "ended"
  /\ client.over = "broken" =>
       source.over = "broken" \/ (Target = "chat" /\ source.last.stop \in Unmappable)
  /\ client.over # "no" /\ source.over = "ended" =>
       (client.over = "broken") = (Target = "chat" /\ source.last.stop \in Unmappable)

(* The words a client has are those the source said, and its thoughts,     *)
(* which a Chat client is told none of.                                    *)
WordsAreThoseSaid ==
  client.over = "ended" /\ source.over = "ended" =>
    /\ client.words = spoken.words
    /\ client.thoughts = IF Target = "chat" THEN 0 ELSE spoken.thoughts

(* Whatever ends the source, the client is told of it. *)
EndIsOwed == source.over # "no"
EndIsTold == client.over # "no"

=============================================================================
