----------------------------- MODULE MCObserved -----------------------------
(* Small instances of what the app observes of its engine: the usage ledger, *)
(* the traffic of the turns, the host's desks and the looks it takes. They   *)
(* share no state, so a behaviour is one of them at work while the others    *)
(* rest; `part` says which, and at what setting.                             *)
EXTENDS UsageLedger

CONSTANTS a, b, t1, t2, r1, r2, r3, g1, g2, l1, l2, l3

OwnerOf(row) == IF row = r2 THEN g2 ELSE g1

VARIABLES
    part,
    \* TurnTraffic
    stage, asked, tried, notes, attempts, owedRows, raised, given, dropped,
    turnAnswer, aborted, interrupted, words, serving, turnUp, cables,
    turnInactive, turnChild, stops, deaths,
    \* HostDesks
    deskAlive, life, sent, spoken, cooled, deskUp, owed, awaited, states,
    retained, version, waiting, pending, deskInactive, settledIds, told, filed,
    refiling, shown, shownCooled, reloaded, counts,
    \* EngineLooks
    lookChild, lookAlive, spawned, unspawned, desk, timers, askedOf, working,
    said, lookAnswer

Lasting == INSTANCE UsageLedger WITH MaxRefusals <- 0, MaxEnds <- 0
Ladder == INSTANCE TurnTraffic WITH answer <- turnAnswer, up <- turnUp,
    inactive <- turnInactive, child <- turnChild, Turns <- {t1},
    Nodes <- {a, b}, Unbound <- {}, Subscribed <- {b}, Throws <- FALSE,
    MaxStops <- 1, MaxDeaths <- 1
Broken == INSTANCE TurnTraffic WITH answer <- turnAnswer, up <- turnUp,
    inactive <- turnInactive, child <- turnChild, Turns <- {t1},
    Nodes <- {a, b}, Unbound <- {b}, Subscribed <- {a}, Throws <- TRUE,
    MaxStops <- 1, MaxDeaths <- 1
Shared == INSTANCE TurnTraffic WITH answer <- turnAnswer, up <- turnUp,
    inactive <- turnInactive, child <- turnChild, Turns <- {t1, t2},
    Nodes <- {a}, Unbound <- {}, Subscribed <- {}, Throws <- FALSE,
    MaxStops <- 0, MaxDeaths <- 0
Logs == INSTANCE HostDesks WITH alive <- deskAlive, up <- deskUp,
    inactive <- deskInactive, Gateways <- {g1, g2}, Rows <- {r1, r2},
    Owner <- OwnerOf, Raised <- {r2}, Retained <- 2, MaxStops <- 1,
    MaxDeaths <- 0, MaxGiveUps <- 0, MaxForgets <- 1, MaxReloads <- 1, MaxCooled <- 0
Full == INSTANCE HostDesks WITH alive <- deskAlive, up <- deskUp,
    inactive <- deskInactive, Gateways <- {g1, g2}, Rows <- {r1, r2},
    Owner <- OwnerOf, Raised <- {r2}, Retained <- 1, MaxStops <- 0,
    MaxDeaths <- 0, MaxGiveUps <- 0, MaxForgets <- 1, MaxReloads <- 1, MaxCooled <- 0
Halts == INSTANCE HostDesks WITH alive <- deskAlive, up <- deskUp,
    inactive <- deskInactive, Gateways <- {g1}, Rows <- {r1},
    Owner <- OwnerOf, Raised <- {}, Retained <- 1, MaxStops <- 1,
    MaxDeaths <- 1, MaxGiveUps <- 1, MaxForgets <- 1, MaxReloads <- 0, MaxCooled <- 1
Reloads == INSTANCE HostDesks WITH alive <- deskAlive, up <- deskUp,
    inactive <- deskInactive, Gateways <- {g1}, Rows <- {r1},
    Owner <- OwnerOf, Raised <- {}, Retained <- 1, MaxStops <- 1,
    MaxDeaths <- 1, MaxGiveUps <- 0, MaxForgets <- 0, MaxReloads <- 1, MaxCooled <- 0
Looking == INSTANCE EngineLooks WITH child <- lookChild, alive <- lookAlive,
    answer <- lookAnswer, Looks <- {l1, l2, l3}, MaxChildren <- 2,
    MaxUnspawned <- 1

ASSUME SettingsAssumption ==
    /\ Ladder!TrafficAssumption
    /\ Broken!TrafficAssumption
    /\ Shared!TrafficAssumption
    /\ Logs!DesksAssumption
    /\ Full!DesksAssumption
    /\ Halts!DesksAssumption
    /\ Reloads!DesksAssumption
    /\ Looking!LooksAssumption

trafficVars == <<stage, asked, tried, notes, attempts, owedRows, raised,
    given, dropped, turnAnswer, aborted, interrupted, words, serving, turnUp,
    cables, turnInactive, turnChild, stops, deaths>>
desksVars == <<deskAlive, life, sent, spoken, cooled, deskUp, owed, awaited, states,
    retained, version, waiting, pending, deskInactive, settledIds, told,
    filed, refiling, shown, shownCooled, reloaded, counts>>
looksVars == <<lookChild, lookAlive, spawned, unspawned, desk, timers,
    askedOf, working, said, lookAnswer>>
allVars == <<part, ledgerVars, trafficVars, desksVars, looksVars>>

Init ==
    /\ part \in {"ledger", "lasting", "ladder", "broken", "shared", "logs",
          "full", "halts", "reloads", "looks"}
    /\ LedgerInit
    /\ CASE part = "broken" -> Broken!Init
         [] part = "shared" -> Shared!Init
         [] OTHER -> Ladder!Init
    /\ CASE part = "full" -> Full!Init /\ states = {g1, g2}
         [] part = "halts" -> Halts!Init
         [] part = "reloads" -> Reloads!Init
         [] OTHER -> Logs!Init /\ states = {g1, g2}
    /\ Looking!Init

Next ==
    \/ /\ part = "ledger" /\ LedgerNext
       /\ UNCHANGED <<part, trafficVars, desksVars, looksVars>>
    \/ /\ part = "lasting" /\ Lasting!LedgerNext
       /\ UNCHANGED <<part, trafficVars, desksVars, looksVars>>
    \/ /\ part = "ladder" /\ Ladder!Next
       /\ UNCHANGED <<part, ledgerVars, desksVars, looksVars>>
    \/ /\ part = "broken" /\ Broken!Next
       /\ UNCHANGED <<part, ledgerVars, desksVars, looksVars>>
    \/ /\ part = "shared" /\ Shared!Next
       /\ UNCHANGED <<part, ledgerVars, desksVars, looksVars>>
    \/ /\ part = "logs" /\ Logs!Next
       /\ UNCHANGED <<part, ledgerVars, trafficVars, looksVars>>
    \/ /\ part = "full" /\ Full!Next
       /\ UNCHANGED <<part, ledgerVars, trafficVars, looksVars>>
    \/ /\ part = "halts" /\ Halts!Next
       /\ UNCHANGED <<part, ledgerVars, trafficVars, looksVars>>
    \/ /\ part = "reloads" /\ Reloads!Next
       /\ UNCHANGED <<part, ledgerVars, trafficVars, looksVars>>
    \/ /\ part = "looks" /\ Looking!Next
       /\ UNCHANGED <<part, ledgerVars, trafficVars, desksVars>>

Fairness == LedgerFairness /\ Reloads!Fairness /\ Looking!Fairness

Spec == Init /\ [][Next]_allVars /\ Fairness

-----------------------------------------------------------------------------
(* watchingEveryAttempt, attempted, failTheUnfinished: whatever fails, leaves, *)
(* stops or dies, no cable stays live for a request nobody carries and no row  *)
(* stays open; a turn paints a cable once, and a turn that failed is read off  *)
(* a row; and the usage ledger lets go of no settled row the disk lacks.       *)
CablesAndRowsSettle ==
    /\ part = "ladder" => Ladder!TurnsAreTold
    /\ part = "broken" => Broken!TurnsAreTold
    /\ part = "shared" => Shared!TurnsAreTold
    /\ LedgerTypeOK /\ NoSettledRowIsDropped

(* logs-ledger.ts, route-node-desk.ts, engine-looks.ts: a row is handed to the *)
(* usage ledger once and owed to the windows while they miss it, though newer  *)
(* rows push it out (where nothing stops, see Departures); nothing of a        *)
(* removed gateway crosses, no stopped gateway keeps a request in flight, the  *)
(* windows follow what is filed, and nobody waits on a child that is gone.     *)
DesksTellWhatTheyHold ==
    /\ part = "logs" => Logs!DesksAreTold
    /\ part = "full" => Full!DesksAreTold
    /\ part = "halts" => Halts!DesksAreTold
    /\ part = "reloads" => Reloads!DesksAreTold
    /\ Looking!LooksTypeOK /\ Looking!DesksHoldWhoWaits /\ Looking!NobodyWaitsOnTheGone

(* usage-store.ts, logs-ledger.ts, engine-looks.ts: a settled row reaches the  *)
(* disk though rows never stop settling; no request of a life that ended reads *)
(* in flight for ever; every look is answered, whatever becomes of the child,  *)
(* and only once.                                                              *)
WhatIsOwedComes ==
    /\ part # "lasting" \/ EveryRowIsWritten
    /\ part # "reloads" \/ Reloads!NoDeadRequestPulsesForEver
    /\ Looking!EveryLookIsAnswered
    /\ Looking!AnswersStand

=============================================================================
