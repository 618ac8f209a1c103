--------------------------- MODULE ServingMemory ---------------------------
(***************************************************************************)
(* Which gateways serve, kept for the next launch:                         *)
(* engine-host/serving-memory.ts, boot/stored-boot.ts and the launch half  *)
(* of engine-host/stored-gateway-serving.ts.                               *)
(*                                                                         *)
(* Every change of the engine's states sends a write of its own to the      *)
(* disk.  Nothing orders the writes, nobody waits for them, not even a      *)
(* quit, and the disk may refuse one.  A quit closes the memory before the  *)
(* child it kills is heard to have stopped everything.                     *)
(***************************************************************************)
EXTENDS Naturals, Sequences, FiniteSets

CONSTANTS
    Gateways,           \* the gateways with a stored document
    MaxChanges,         \* bound: changes of the engine's states
    MaxRuns             \* bound: launches

MemoryAssumption == MaxChanges \in Nat /\ MaxRuns \in Nat \ {0}

VARIABLES
    app,            \* "running", "quitting" (disposed) or "ended"
    running,        \* the gateways whose state reads as running
    closed,         \* whether the memory listens no more
    writes,         \* the memories on their way to the disk
    disk,
    starting,       \* what this launch stands up and has not reported on
    lastTold,           \* history: what the memory was told last, or was read from
    fleets,         \* history: what served at some instant of a run
    leftServing,    \* history: what served when the last run was left
    leftStarting,   \* history: and what it had still to stand up
    changes, runs

memoryVars == <<app, running, closed, writes, disk, starting, lastTold, fleets, leftServing, leftStarting,
                changes, runs>>

(* keep: a closed memory records nothing.                                  *)
Keep(serving) ==
    /\ writes' = IF closed THEN writes ELSE Append(writes, serving)
    /\ lastTold' = IF closed THEN lastTold ELSE serving
    /\ fleets' = IF app = "running" THEN fleets \cup {serving} ELSE fleets

(* publish, from an act a person asked for.                                *)
Change(serving) ==
    /\ app = "running"
    /\ serving \cap starting = {}
    /\ changes < MaxChanges
    /\ changes' = changes + 1
    /\ running' = serving
    /\ Keep(serving)
    /\ UNCHANGED <<app, closed, disk, starting, leftServing, leftStarting, runs>>

Left(n) == [m \in 1..(Len(writes) - 1) |-> writes[IF m < n THEN m ELSE m + 1]]

(* The end of one write, a slower one after a newer: renamed into place, or *)
(* refused by the disk and only logged.                                    *)
Land ==
    \E n \in 1..Len(writes) :
        /\ writes' = Left(n)
        /\ disk' \in {writes[n], disk}
        /\ UNCHANGED <<app, running, closed, starting, lastTold, fleets, leftServing, leftStarting,
                       changes, runs>>

(* Mutant: the memory listens to the end.                                  *)
LeftOpen == UNCHANGED closed

CloseTheMemory == closed' = TRUE

RunIsLeft == leftServing' = running /\ leftStarting' = starting

(* closeInQuitOrder, whose dispose kills the child.                        *)
Quit ==
    /\ app = "running"
    /\ app' = "quitting"
    /\ CloseTheMemory
    /\ RunIsLeft
    /\ UNCHANGED <<running, writes, disk, starting, lastTold, fleets, changes, runs>>

(* receiveExit: every gateway is written down as stopped, and so is what    *)
(* was being started; what was not asked of the child yet still is.         *)
HearExit ==
    /\ app # "ended"
    /\ app = "running" => changes < MaxChanges
    /\ changes' = IF app = "running" THEN changes + 1 ELSE changes
    /\ running' = {}
    /\ Keep({})
    /\ starting' \in SUBSET starting
    /\ UNCHANGED <<app, closed, disk, leftServing, leftStarting, runs>>

(* The process ends, and the writes it had not landed end with it.          *)
End ==
    /\ app = "quitting"
    /\ app' = "ended"
    /\ running' = {}
    /\ writes' = <<>>
    /\ UNCHANGED <<closed, disk, starting, lastTold, fleets, leftServing, leftStarting, changes, runs>>

(* The process dies without a quit.                                        *)
Crash ==
    /\ app = "running"
    /\ app' = "ended"
    /\ RunIsLeft
    /\ running' = {}
    /\ writes' = <<>>
    /\ UNCHANGED <<closed, disk, starting, lastTold, fleets, changes, runs>>

(* rememberedServingSlugs.                                                 *)
Remembered == disk

(* serveStoredGateways, over what was read before the memory listens.  One  *)
(* whose document left the store since is never reported on.                *)
LaunchStarting(slugs) ==
    /\ app = "ended"
    /\ runs < MaxRuns
    /\ runs' = runs + 1
    /\ app' = "running"
    /\ closed' = FALSE
    /\ running' = {}
    /\ starting' = slugs
    /\ lastTold' = Remembered
    /\ UNCHANGED <<writes, disk, fleets, leftServing, leftStarting, changes>>

Launch == LaunchStarting(Remembered)

(* startGatewaysOnLaunch: every stored gateway, whatever is remembered.     *)
LaunchEveryGateway == LaunchStarting(Gateways)

Reported(gateway) == starting' = starting \ {gateway}

(* One remembered gateway stands up, or loses its port; either is published. *)
StandUp(gateway) ==
    /\ app = "running"
    /\ gateway \in starting
    /\ Reported(gateway)
    /\ running' \in {running, running \cup {gateway}}
    /\ Keep(running')
    /\ UNCHANGED <<app, closed, disk, leftServing, leftStarting, changes, runs>>

MemoryInit ==
    /\ app = "running"
    /\ running = {}
    /\ closed = FALSE
    /\ writes = <<>>
    /\ disk \in SUBSET Gateways
    /\ starting \in {Remembered, Gateways}
    /\ lastTold = Remembered
    /\ fleets = {Remembered}
    /\ leftServing = disk
    /\ leftStarting = {}
    /\ changes = 0
    /\ runs = 1

MemoryNext ==
    \/ \E serving \in SUBSET Gateways : Change(serving)
    \/ Land \/ Quit \/ HearExit \/ End \/ Crash \/ Launch \/ LaunchEveryGateway
    \/ \E gateway \in Gateways : StandUp(gateway)

MemorySpec == MemoryInit /\ [][MemoryNext]_memoryVars

-----------------------------------------------------------------------------
(* Properties.                                                             *)

(* Every variable keeps its type.                                          *)
MemoryTypeOK ==
    /\ app \in {"running", "quitting", "ended"}
    /\ running \subseteq Gateways /\ disk \subseteq Gateways
    /\ starting \subseteq Gateways \ running
    /\ leftServing \subseteq Gateways /\ leftStarting \subseteq Gateways
    /\ closed \in BOOLEAN
    /\ writes \in Seq(SUBSET Gateways)
    /\ changes \in 0..MaxChanges /\ runs \in 1..MaxRuns

(* The next launch stands up what served when the app was left ("so the     *)
(* next launch stands the same ones back up"), the exit of the killed child *)
(* notwithstanding, and nothing else but what was caught starting, wherever *)
(* the disk has what the memory was told last.  Where writes raced, were    *)
(* refused or were cut by the quit, it stands up what served together at    *)
(* some earlier instant, never what the kill left.                          *)
AQuitKeepsTheFleet ==
    [][Launch => /\ starting' \in fleets
                 /\ disk = lastTold => /\ leftServing \subseteq starting'
                                   /\ starting' \subseteq leftServing \cup leftStarting]_memoryVars
=============================================================================
