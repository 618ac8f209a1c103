----------------------------- MODULE MCDialects -----------------------------
(* Small instances of what reads and tells the dialects' streams: the        *)
(* decoders, the rewriters, the encoders, and a decoder and an encoder       *)
(* composed. They share no state, so a behaviour is one stream on one way    *)
(* while the others rest; `part` says which.                                 *)
EXTENDS Naturals

CONSTANTS None, a

VARIABLES
    part,
    \* ChatStreamDecode
    chatState, chatOut, chatFinished, chatFrames, chatHeard,
    \* ResponsesStreamDecode
    itemsKind, itemsStage, itemsUp, itemsSent, itemsWhole, itemsBlocks,
    itemsOut, itemsHeard, itemsGot,
    \* GeminiStreamDecode
    partsRun, partsLife, partsUpstream, partsDrawn, partsOut, partsHeard,
    partsSpoken,
    \* GeminiSignatureStream
    signHeld, signFed, signOver, signSaid, signTold, signSigned,
    \* StreamRewriters
    waySource, waySaid, wayWay, wayOut, wayHeard, wayGot, wayLastKind,
    \* AnthropicStreamEncode
    anthropicSource, anthropicSaid, anthropicSer, anthropicBegun,
    anthropicFinished, anthropicOut, anthropicHeard, anthropicTold,
    \* ResponsesStreamEncode
    responseSource, responseSaid, responseState, responseOut, responseHeard,
    responseGot, responseListed,
    \* StreamEncoders
    framesSource, framesSaid, framesSpoken, framesState, framesOut,
    framesClient,
    \* ChatToAnthropic
    pipeSource, pipeSaid, pipeSer, pipeBegun, pipeFinished, pipeOut,
    pipeHeard, pipeTold, pipeState, pipeDecoded, pipeFinishRead, pipeFrames

Chat == INSTANCE ChatStreamDecode WITH state <- chatState, out <- chatOut,
    finished <- chatFinished, frames <- chatFrames, heard <- chatHeard,
    Places <- {0, 1}, Ids <- {a}, MaxBlocks <- 2, Orderly <- TRUE
Items == INSTANCE ResponsesStreamDecode WITH kind <- itemsKind,
    stage <- itemsStage, up <- itemsUp, sent <- itemsSent,
    whole <- itemsWhole, blocks <- itemsBlocks, out <- itemsOut,
    heard <- itemsHeard, got <- itemsGot, Count <- 2, Size <- 2,
    KindsTold <- {"message", "call", "nameless", "reasoning", "search", "image"},
    SearchEarly <- FALSE
Parts == INSTANCE GeminiStreamDecode WITH run <- partsRun, life <- partsLife,
    upstream <- partsUpstream, drawn <- partsDrawn, out <- partsOut,
    heard <- partsHeard, spoken <- partsSpoken, MaxParts <- 3, PerChunk <- 2,
    SignsSplits <- FALSE
Sign == INSTANCE GeminiSignatureStream WITH held <- signHeld, fed <- signFed,
    over <- signOver, said <- signSaid, told <- signTold,
    signed <- signSigned, MaxFed <- 3, MaxParts <- 1, SignsMedia <- FALSE
Gemini == INSTANCE StreamRewriters WITH source <- waySource, said <- waySaid,
    way <- wayWay, out <- wayOut, heard <- wayHeard, got <- wayGot,
    lastKind <- wayLastKind, Blocks <- {0, 1}, MaxSaid <- 2,
    ToAnthropic <- TRUE
Text == INSTANCE StreamRewriters WITH source <- waySource, said <- waySaid,
    way <- wayWay, out <- wayOut, heard <- wayHeard, got <- wayGot,
    lastKind <- wayLastKind, Blocks <- {0, 1}, MaxSaid <- 2,
    ToAnthropic <- FALSE
Anthropic == INSTANCE AnthropicStreamEncode WITH source <- anthropicSource,
    said <- anthropicSaid, ser <- anthropicSer, begun <- anthropicBegun,
    finished <- anthropicFinished, out <- anthropicOut,
    heard <- anthropicHeard, told <- anthropicTold, Blocks <- {0, 1, 2},
    Held <- 2, MaxSaid <- 1
Response == INSTANCE ResponsesStreamEncode WITH source <- responseSource,
    said <- responseSaid, state <- responseState, out <- responseOut,
    heard <- responseHeard, got <- responseGot, listed <- responseListed,
    Blocks <- {0, 1}, Held <- 2, MaxSaid <- 1, Native <- TRUE
ChatClient == INSTANCE StreamEncoders WITH source <- framesSource,
    said <- framesSaid, spoken <- framesSpoken, state <- framesState,
    out <- framesOut, client <- framesClient, Target <- "chat",
    Blocks <- {0, 1}, MaxSaid <- 2
GeminiClient == INSTANCE StreamEncoders WITH source <- framesSource,
    said <- framesSaid, spoken <- framesSpoken, state <- framesState,
    out <- framesOut, client <- framesClient, Target <- "gemini",
    Blocks <- {0, 1}, MaxSaid <- 2
InteractionsClient == INSTANCE StreamEncoders WITH source <- framesSource,
    said <- framesSaid, spoken <- framesSpoken, state <- framesState,
    out <- framesOut, client <- framesClient, Target <- "interactions",
    Blocks <- {0, 1}, MaxSaid <- 2
Pipe == INSTANCE ChatToAnthropic WITH source <- pipeSource, said <- pipeSaid,
    ser <- pipeSer, begun <- pipeBegun, finished <- pipeFinished,
    out <- pipeOut, heard <- pipeHeard, told <- pipeTold, state <- pipeState,
    decoded <- pipeDecoded, finishRead <- pipeFinishRead, frames <- pipeFrames,
    Blocks <- {0, 1, 2, 3, 4}, Held <- 1, MaxSaid <- 2, Places <- {0},
    Ids <- {a}, MaxBlocks <- 2, Orderly <- TRUE

chatVars == <<chatState, chatOut, chatFinished, chatFrames, chatHeard>>
itemsVars == <<itemsKind, itemsStage, itemsUp, itemsSent, itemsWhole,
    itemsBlocks, itemsOut, itemsHeard, itemsGot>>
partsVars == <<partsRun, partsLife, partsUpstream, partsDrawn, partsOut,
    partsHeard, partsSpoken>>
signVars == <<signHeld, signFed, signOver, signSaid, signTold, signSigned>>
wayVars == <<waySource, waySaid, wayWay, wayOut, wayHeard, wayGot, wayLastKind>>
anthropicVars == <<anthropicSource, anthropicSaid, anthropicSer,
    anthropicBegun, anthropicFinished, anthropicOut, anthropicHeard,
    anthropicTold>>
responseVars == <<responseSource, responseSaid, responseState, responseOut,
    responseHeard, responseGot, responseListed>>
framesVars == <<framesSource, framesSaid, framesSpoken, framesState,
    framesOut, framesClient>>
pipeVars == <<pipeSource, pipeSaid, pipeSer, pipeBegun, pipeFinished, pipeOut,
    pipeHeard, pipeTold, pipeState, pipeDecoded, pipeFinishRead, pipeFrames>>
allVars == <<part, chatVars, itemsVars, partsVars, signVars, wayVars,
    anthropicVars, responseVars, framesVars, pipeVars>>

Init ==
    /\ part \in {"chat", "items", "parts", "sign", "gemini", "text",
          "anthropic", "response", "chatClient", "geminiClient",
          "interactionsClient", "pipe"}
    /\ Chat!Init
    /\ Items!Init
    /\ (part # "items") => itemsKind = [i \in 0..1 |-> "message"]
    /\ Parts!Init
    /\ Sign!Init
    /\ Gemini!Init
    /\ Anthropic!Init
    /\ Response!Init
    /\ ChatClient!Init
    /\ Pipe!PipeInit

Next ==
    \/ /\ part = "chat" /\ Chat!Next
       /\ UNCHANGED <<part, itemsVars, partsVars, signVars, wayVars,
             anthropicVars, responseVars, framesVars, pipeVars>>
    \/ /\ part = "items" /\ Items!Next
       /\ UNCHANGED <<part, chatVars, partsVars, signVars, wayVars,
             anthropicVars, responseVars, framesVars, pipeVars>>
    \/ /\ part = "parts" /\ Parts!Next
       /\ UNCHANGED <<part, chatVars, itemsVars, signVars, wayVars,
             anthropicVars, responseVars, framesVars, pipeVars>>
    \/ /\ part = "sign" /\ Sign!Next
       /\ UNCHANGED <<part, chatVars, itemsVars, partsVars, wayVars,
             anthropicVars, responseVars, framesVars, pipeVars>>
    \/ /\ part = "gemini" /\ Gemini!Next
       /\ UNCHANGED <<part, chatVars, itemsVars, partsVars, signVars,
             anthropicVars, responseVars, framesVars, pipeVars>>
    \/ /\ part = "text" /\ Text!Next
       /\ UNCHANGED <<part, chatVars, itemsVars, partsVars, signVars,
             anthropicVars, responseVars, framesVars, pipeVars>>
    \/ /\ part = "anthropic" /\ Anthropic!Next
       /\ UNCHANGED <<part, chatVars, itemsVars, partsVars, signVars, wayVars,
             responseVars, framesVars, pipeVars>>
    \/ /\ part = "response" /\ Response!Next
       /\ UNCHANGED <<part, chatVars, itemsVars, partsVars, signVars, wayVars,
             anthropicVars, framesVars, pipeVars>>
    \/ /\ part = "chatClient" /\ ChatClient!Next
       /\ UNCHANGED <<part, chatVars, itemsVars, partsVars, signVars, wayVars,
             anthropicVars, responseVars, pipeVars>>
    \/ /\ part = "geminiClient" /\ GeminiClient!Next
       /\ UNCHANGED <<part, chatVars, itemsVars, partsVars, signVars, wayVars,
             anthropicVars, responseVars, pipeVars>>
    \/ /\ part = "interactionsClient" /\ InteractionsClient!Next
       /\ UNCHANGED <<part, chatVars, itemsVars, partsVars, signVars, wayVars,
             anthropicVars, responseVars, pipeVars>>
    \/ /\ part = "pipe" /\ Pipe!PipeNext
       /\ UNCHANGED <<part, chatVars, itemsVars, partsVars, signVars, wayVars,
             anthropicVars, responseVars, framesVars>>

Fairness ==
    /\ Items!Fairness
    /\ Parts!Fairness
    /\ Gemini!Fairness
    /\ Anthropic!Fairness
    /\ Response!Fairness
    /\ ChatClient!Fairness
    /\ Pipe!PipeFairness

Spec == Init /\ [][Next]_allVars /\ Fairness

-----------------------------------------------------------------------------
(* The decoders, stream.ts of each dialect: nothing the upstream told before   *)
(* its finish is left behind, told twice or read across a boundary the model   *)
(* drew, and a message stops for a tool's sake only with a call told.          *)
WhatIsReadIsKept ==
    /\ part = "chat" => Chat!TypeOK /\ Chat!NoCallIsLeftBehind /\ Chat!OneBlockToACall
    /\ part = "items" => Items!TypeOK /\ Items!ArgumentsAreToldOnce /\ Items!ToolUseMeansACall
    /\ part = "parts" => /\ Parts!TypeOK
                         /\ Parts!NoRunCrossesASignature
                         /\ Parts!ToolUseMeansACall
                         /\ Parts!CallsAreNamed
    /\ part = "sign" => /\ Sign!TypeOK
                        /\ Sign!HeldIsReleasedWhole
                        /\ Sign!ToldIsAPrefix
                        /\ Sign!ALoneSignatureIsKept

(* The rewriters and encoders: a client told of the end was told everything    *)
(* the decoder said, each piece once and of its own block or call, however     *)
(* many stood open at once, and the end is the one the source had.             *)
WhatIsSaidIsTold ==
    /\ part \in {"gemini", "text"} => Gemini!NothingIsLost
    /\ part = "gemini" => Gemini!TypeOK
    /\ part = "anthropic" => Anthropic!TypeOK /\ Anthropic!NothingBeforeTheStart /\ Anthropic!TheEndComesLast
    /\ part = "response" => Response!TypeOK /\ Response!TheListingIsWhatWasTold
    /\ part \in {"chatClient", "geminiClient", "interactionsClient"} =>
           ChatClient!TypeOK /\ ChatClient!ArgumentsFindTheirCall
    /\ part = "chatClient" => /\ ChatClient!CallsAreCounted
                              /\ ChatClient!EndsTheWayTheSourceEnded
                              /\ ChatClient!WordsAreThoseSaid
    /\ part = "geminiClient" => GeminiClient!WordsAreThoseSaid
    /\ part = "interactionsClient" => /\ InteractionsClient!EndsTheWayTheSourceEnded
                                      /\ InteractionsClient!WordsAreThoseSaid

(* hub.ts: whatever tells a reader events tells a hub stream, HubStream's, of  *)
(* one open block at a time where the reader takes one at a time, and a        *)
(* hidden server tool does not split the text around it.                       *)
ReadersHearAHubStream ==
    /\ Chat!HubSpec
    /\ Items!HubSpec
    /\ Parts!HubSpec
    /\ Gemini!HubSpec
    /\ [][part = "text" => Text!TextAsOne]_allVars
    /\ Anthropic!ClientSpec
    /\ Response!ClientSpec
    /\ Pipe!ClientSpec

(* A stream that upstream ended, or failed in the way of its dialect, is told  *)
(* an end, in the way the reader's dialect ends.  Nothing is owed where a Chat *)
(* upstream stops short of [DONE] or reading a body throws: the code tells no  *)
(* end then (README, Departures).                                              *)
EndIsOwed ==
    \/ Items!EndIsOwed
    \/ Parts!EndIsOwed
    \/ Gemini!EndIsOwed
    \/ Anthropic!EndIsOwed
    \/ Response!EndIsOwed
    \/ ChatClient!EndIsOwed
    \/ Pipe!TransformOwesAnEnd
EndIsTold ==
    \/ Items!EndIsTold
    \/ Parts!EndIsTold
    \/ Gemini!EndIsTold
    \/ Anthropic!EndIsTold
    \/ Response!EndIsTold
    \/ ChatClient!EndIsTold
    \/ Pipe!TransformTellsItsEnd
EveryStreamIsEnded == EndIsOwed ~> EndIsTold

=============================================================================
