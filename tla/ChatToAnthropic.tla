-------------------------- MODULE ChatToAnthropic --------------------------
(***************************************************************************)
(* A Chat Completions stream translated for an Anthropic client            *)
(* (packages/engine/src/dialect/dispatcher.ts, translateStream): the       *)
(* reader of ChatStreamDecode is the encoder of AnthropicStreamEncode, and *)
(* the client pulls what comes out of both.  `state` is the decoder's      *)
(* DecodeState, `decoded` the events it has not handed over yet,           *)
(* `finishRead` its `finished`.                                            *)
(***************************************************************************)
EXTENDS AnthropicStreamEncode

CONSTANTS
  Places,       \* where a chunk says a call stands
  Ids,          \* the ids calls are given
  MaxBlocks,    \* bound: no chunk is read once this many blocks were opened
  Orderly       \* whether the upstream finishes one block before the next

VARIABLES state, decoded, finishRead, frames
decoderVars == <<state, decoded, finishRead, frames>>
pipeVars == <<vars, decoderVars>>

Chat == INSTANCE ChatStreamDecode
          WITH out <- decoded, finished <- finishRead, heard <- source

PipeInit == Init /\ Chat!Init

(* The client pulls and both stages are dry: the decoder reads a frame, of *)
(* which the encoder's own state tells nothing yet.                        *)
Dry == out = <<>> /\ ~finished
OnlyDecoded == UNCHANGED <<said, ser, begun, finished, out, heard, told>>

ReadChunk(chunk) ==
  /\ Dry /\ \A i \in Blocks : said[i] < MaxSaid
  /\ Chat!ReadChunk(chunk)
  /\ OnlyDecoded

ReadDone == Dry /\ Chat!ReadDone /\ OnlyDecoded

ReadError == Dry /\ Chat!ReadError /\ OnlyDecoded

FramesStop == Dry /\ Chat!FramesStop /\ OnlyDecoded

(* The decoder yields its next event, to the encoder. *)
Hand ==
  /\ Dry
  /\ decoded # <<>>
  /\ source' = Hear(source, Head(decoded))
  /\ decoded' = Tail(decoded)
  /\ said' = Counted(said, Head(decoded))
  /\ Encode(Head(decoded))
  /\ UNCHANGED <<state, finishRead, frames>>

PullWire == Pull /\ UNCHANGED decoderVars

PipeNext ==
  \/ \E chunk \in Chat!Chunks : ReadChunk(chunk)
  \/ ReadDone \/ ReadError \/ FramesStop \/ Hand \/ PullWire

PipeFairness == WF_pipeVars(Hand) /\ WF_pipeVars(PullWire)

PipeSpec == PipeInit /\ [][PipeNext]_pipeVars /\ PipeFairness

-----------------------------------------------------------------------------
(* The transform ends the way the target dialect ends: once the upstream's *)
(* [DONE] or its error is read, the client is told message_stop or the     *)
(* error.  An upstream that stops short of both tells no end to pass on    *)
(* (README, Departures).                                                   *)
TransformOwesAnEnd == frames = "done"
TransformTellsItsEnd == heard.over # "no"
TheTransformEnds == TransformOwesAnEnd ~> TransformTellsItsEnd
=============================================================================
