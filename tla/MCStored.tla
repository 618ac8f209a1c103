------------------------------ MODULE MCStored ------------------------------
(* Small instances of what the app writes down: the gateway documents, the   *)
(* memory of which gateways serve, and the conversations' children. They     *)
(* share no state, so a behaviour is one of them at work while the others    *)
(* rest; `part` says which.                                                  *)
EXTENDS GatewayDocuments, ServingMemory

CONSTANTS p, q, a, b, c

VARIABLES
    part,
    \* ConversationPins
    held, told, pinNow,
    \* KeptChildren
    alive, stands, store, lingering, late, opened, kept, pending, keptWrites,
    keptDisk, owed, keptNow, counts

Pins == INSTANCE ConversationPins WITH now <- pinNow, Routers <- {p, q},
    Conversations <- {a, b, c}, Children <- {a, b}, Limit <- 2,
    IdleWindow <- 2, MaxNow <- 4
Kept == INSTANCE KeptChildren WITH now <- keptNow, writes <- keptWrites,
    disk <- keptDisk, Gateways <- {p, q}, Routers <- {p},
    Conversations <- {a, b}, Children <- {a}, Limit <- 1,
    IdleWindow <- 1, MaxNow <- 1, MaxLives <- 2, MaxDeaths <- 1,
    MaxRefusals <- 1, MaxKeeps <- 2

ASSUME SettingsAssumption ==
    /\ MemoryAssumption
    /\ Pins!PinAssumption
    /\ Kept!KeptAssumption

pinVars == <<held, told, pinNow>>
keptVars == <<alive, stands, store, lingering, late, opened, kept, pending,
    keptWrites, keptDisk, owed, keptNow, counts>>
allVars == <<part, docsVars, memoryVars, pinVars, keptVars>>

Init ==
    /\ part \in {"documents", "memory", "pins", "kept"}
    /\ DocsInit
    /\ (part # "documents") => docs = [slug \in Slugs |-> NoDocument]
    /\ MemoryInit
    /\ (part # "memory") => disk = {} /\ starting = {}
    /\ Pins!Init
    /\ Kept!Init

Next ==
    \/ /\ part = "documents" /\ DocsNext
       /\ UNCHANGED <<part, memoryVars, pinVars, keptVars>>
    \/ /\ part = "memory" /\ MemoryNext
       /\ UNCHANGED <<part, docsVars, pinVars, keptVars>>
    \/ /\ part = "pins" /\ Pins!Next
       /\ UNCHANGED <<part, docsVars, memoryVars, keptVars>>
    \/ /\ part = "kept" /\ Kept!Next
       /\ UNCHANGED <<part, docsVars, memoryVars, pinVars>>

Fairness == Kept!Fairness

Spec == Init /\ [][Next]_allVars /\ Fairness

-----------------------------------------------------------------------------
(* tellWhatTheyHold, sharedFile: a router's tally is what it holds, though one *)
(* write can move two routers; and once nothing is left to write, every        *)
(* gateway's lines in the shared file are the set it handed over last.         *)
ConversationsAreKept ==
    /\ Pins!PinsTypeOK /\ Pins!ToldIsHeld
    /\ Kept!KeptTypeOK /\ Kept!NobodyIsErased

(* forgetPastTheBound, keptChildFile: a full store forgets whichever           *)
(* conversation spoke longest ago, and a set handed over reaches the file      *)
(* unless the disk refused it.                                                 *)
WhatIsHandedOverLasts == Pins!TheLongestQuietGoesFirst /\ Kept!WhatIsHandedOverLands

=============================================================================
