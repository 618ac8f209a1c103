----------------------------- MODULE KeptChildren -----------------------------
(***************************************************************************)
(* The conversations a gateway's rotations keep to one child, and the file   *)
(* they outlive the engine child in: gateway-routing-memory.ts over         *)
(* gateway-kept-child-file.ts.  Every gateway of a process hands its whole   *)
(* set to one writer, which coalesces what it is handed and writes it in     *)
(* turn.  Gateways stop and start, turns outlive the life that served them,  *)
(* and the child dies at any step of a write.                              *)
(***************************************************************************)
EXTENDS PinStore

CONSTANTS
    Gateways,
    MaxNow,       \* bound: the clock
    MaxLives,     \* bound: starts of gateways
    MaxDeaths,    \* bound: deaths of the engine child
    MaxRefusals,  \* bound: writes the disk refuses
    MaxKeeps      \* bound: sets handed over

KeptAssumption == {MaxNow, MaxLives, MaxDeaths, MaxRefusals, MaxKeeps} \subseteq Nat

VARIABLES
    alive,
    stands,    \* the gateways that serve
    store,     \* [gateway]: the pins of its standing life
    lingering, \* the gateways with turns of the life before still going
    late,      \* [gateway]: the pins of that life
    opened,    \* whether the writer has read the file in this process
    kept,      \* [gateway]: what the writer holds of it
    pending,   \* whether a write is about to be sent
    writes,    \* the writes sent and not over, the earliest first
    disk,      \* [gateway]: its lines of the file
    owed,      \* [gateway]: the set it handed over last, or the file opened on
    now,
    counts

lives == <<stands, store, lingering, late>>
writer == <<opened, kept, pending, writes>>
vars == <<alive, lives, writer, disk, owed, now, counts>>

Unread == [began |-> FALSE, snapshot |-> [g \in Gateways |-> <<>>]]

Spend(what, bound) == counts[what] < bound /\ counts' = [counts EXCEPT ![what] = @ + 1]

-----------------------------------------------------------------------------
(* The writer.                                                             *)

(* Mutant: the writer holds only what this process handed it.               *)
NeverOpened == kept

(* openOnce, at the first set handed over.                                 *)
OpenOnce == IF opened THEN kept ELSE disk

(* Mutant: a set handed over while a write stands waits for the next one.    *)
UnlessWriting == pending \/ writes = <<>>

Scheduled == TRUE

Keep(g, records) ==
    /\ Spend("keeps", MaxKeeps)
    /\ kept' = [OpenOnce EXCEPT ![g] = records]
    /\ opened' = TRUE
    /\ pending' = Scheduled
    /\ owed' = [owed EXCEPT ![g] = records]

WriteSettles ==
    /\ pending
    /\ pending' = FALSE
    /\ writes' = Append(writes, Unread)
    /\ UNCHANGED <<alive, lives, opened, kept, disk, owed, now, counts>>

(* Mutant: a write does not wait for the one before it.                     *)
AnyTurn(n) == TRUE

InTurn(n) == n = 1

BeginWrite(n) ==
    /\ InTurn(n)
    /\ ~writes[n].began
    /\ writes' = [writes EXCEPT ![n] = [began |-> TRUE, snapshot |-> kept]]
    /\ UNCHANGED <<alive, lives, opened, kept, pending, disk, owed, now, counts>>

Over(n) == writes' = [m \in 1..(Len(writes) - 1) |-> writes[IF m < n THEN m ELSE m + 1]]

Rename(n) ==
    /\ writes[n].began
    /\ disk' = writes[n].snapshot
    /\ Over(n)
    /\ UNCHANGED <<alive, lives, opened, kept, pending, owed, now, counts>>

WriteRefused(n) ==
    /\ writes[n].began
    /\ Spend("refusals", MaxRefusals)
    /\ Over(n)
    /\ UNCHANGED <<alive, lives, opened, kept, pending, disk, owed, now>>

-----------------------------------------------------------------------------
(* The stores.                                                             *)

(* A conversation is given a child at a rotation.                          *)
Pinned(held, router, conversation, child) ==
    WithinTheBound(Touched(held, router, conversation, child, now))

(* pinnedAt: reading a pin touches it, and finding it too old drops it.      *)
Asked(held, router, conversation) ==
    IF Idle(PinAt(held, router, conversation), now)
    THEN Without(held, router, conversation)
    ELSE Touched(held, router, conversation, PinAt(held, router, conversation).child, now)

Moves(held) ==
    UNION {{Pinned(held, router, conversation, child) : child \in Children} \cup
           (IF Holds(held, router, conversation) THEN {Asked(held, router, conversation)} ELSE {}) :
              router \in Routers, conversation \in Conversations}

Serve(g) ==
    /\ alive /\ g \in stands
    /\ \E held \in Moves(store[g]) :
          store' = [store EXCEPT ![g] = held] /\ Keep(g, held)
    /\ UNCHANGED <<alive, stands, lingering, late, writes, disk, now>>

(* A turn of a life that was stopped goes on with that life's memory.        *)
ServeLate(g) ==
    /\ alive /\ g \in lingering
    /\ \E held \in Moves(late[g]) :
          late' = [late EXCEPT ![g] = held] /\ Keep(g, held)
    /\ UNCHANGED <<alive, stands, store, lingering, writes, disk, now>>

LateTurnsEnd(g) ==
    /\ g \in lingering
    /\ lingering' = lingering \ {g}
    /\ late' = [late EXCEPT ![g] = <<>>]
    /\ UNCHANGED <<alive, stands, store, writer, disk, owed, now, counts>>

Stop(g) ==
    /\ g \in stands
    /\ stands' = stands \ {g}
    /\ lingering' = lingering \cup {g}
    /\ late' = [late EXCEPT ![g] = store[g]]
    /\ store' = [store EXCEPT ![g] = <<>>]
    /\ UNCHANGED <<alive, writer, disk, owed, now, counts>>

(* createConversationPins: a life opens on what is on the disk.              *)
Start(g) ==
    /\ alive /\ g \notin stands
    /\ Spend("lives", MaxLives)
    /\ stands' = stands \cup {g}
    /\ store' = [store EXCEPT ![g] = WorthOpeningOn(disk[g], now)]
    /\ UNCHANGED <<alive, lingering, late, writer, disk, owed, now>>

-----------------------------------------------------------------------------
Die ==
    /\ alive
    /\ Spend("deaths", MaxDeaths)
    /\ alive' = FALSE
    /\ stands' = {} /\ lingering' = {}
    /\ store' = [g \in Gateways |-> <<>>]
    /\ late' = [g \in Gateways |-> <<>>]
    /\ opened' = FALSE
    /\ kept' = [g \in Gateways |-> <<>>]
    /\ pending' = FALSE
    /\ writes' = <<>>
    /\ owed' = disk
    /\ UNCHANGED <<disk, now>>

Spawn ==
    /\ ~alive
    /\ alive' = TRUE
    /\ UNCHANGED <<lives, writer, disk, owed, now, counts>>

Tick ==
    /\ now < MaxNow
    /\ now' = now + 1
    /\ UNCHANGED <<alive, lives, writer, disk, owed, counts>>

Init ==
    /\ alive = TRUE
    /\ stands = {} /\ lingering = {}
    /\ store = [g \in Gateways |-> <<>>]
    /\ late = [g \in Gateways |-> <<>>]
    /\ opened = FALSE
    /\ kept = [g \in Gateways |-> <<>>]
    /\ pending = FALSE
    /\ writes = <<>>
    /\ disk = [g \in Gateways |-> <<>>]
    /\ owed = [g \in Gateways |-> <<>>]
    /\ now = 0
    /\ counts = [what \in {"keeps", "lives", "deaths", "refusals"} |-> 0]

Next ==
    \/ \E g \in Gateways : Serve(g) \/ ServeLate(g) \/ LateTurnsEnd(g) \/ Stop(g) \/ Start(g)
    \/ \E n \in DOMAIN writes : BeginWrite(n) \/ Rename(n) \/ WriteRefused(n)
    \/ WriteSettles \/ Die \/ Spawn \/ Tick

Spec == Init /\ [][Next]_vars

Fairness ==
    /\ WF_vars(WriteSettles)
    /\ WF_vars(\E n \in DOMAIN writes : BeginWrite(n) \/ Rename(n))

-----------------------------------------------------------------------------
Rested == ~pending /\ writes = <<>>

(* Every set held is one of the store's: bounded, in the order its pins were *)
(* touched, with one pin of a conversation at a router.                     *)
InOrder(held) ==
    /\ Len(held) <= Limit
    /\ \A n, m \in DOMAIN held :
          /\ n < m => held[n].touched <= held[m].touched
          /\ (held[n].router = held[m].router /\ held[n].conversation = held[m].conversation)
             => n = m

KeptTypeOK ==
    /\ stands \cup lingering \subseteq Gateways
    /\ ~alive => stands \cup lingering = {}
    /\ \A g \in Gateways : InOrder(store[g]) /\ InOrder(late[g]) /\ InOrder(disk[g])

(* sharedFile: once nothing is left to write, every gateway's lines are the  *)
(* set it handed over last, whichever gateway wrote last, in this process or *)
(* one before it.                                                          *)
NobodyIsErased == (Rested /\ counts["refusals"] = 0) => disk = owed

(* keptChildFile: a set handed over reaches the file, unless the child died  *)
(* or the disk refused it first.                                           *)
WhatIsHandedOverLands ==
    \A g \in Gateways :
        (owed[g] # disk[g]) ~> (owed[g] = disk[g] \/ counts["refusals"] > 0)

(* keptChildrenWorthOpeningOn: a gateway that starts again in the same       *)
(* process finds every conversation of the life before that is not too old.  *)
(* The code departs from this (README, Departures).                          *)
ARestartKeepsConversations ==
    [][\A g \in lingering :
          (g \notin stands /\ g \in stands') => store'[g] = WorthOpeningOn(owed[g], now)]_vars

(* keptChildFile: once nothing is left to write, the file holds what the     *)
(* standing life of a gateway holds.                                       *)
(* The code departs from this (README, Departures).                        *)
TheFileHoldsTheStore ==
    \A g \in stands :
        (Rested /\ opened /\ counts["refusals"] = 0)
        => \A n \in DOMAIN store[g] : \E m \in DOMAIN disk[g] :
              disk[g][m].conversation = store[g][n].conversation

=============================================================================
