---------------------------- MODULE CustodyRepair ----------------------------
(***************************************************************************)
(* Carrying an install of an older build onto one keychain item per home.  *)
(* The older build put the active account's credential in the item the     *)
(* person's own tool reads and parked what stood there, with those of the  *)
(* other accounts, in slots of its own.  The repair runs once per process, *)
(* before the first custody read; the process may end, and the keychain    *)
(* may refuse, between any two of its steps.                               *)
(***************************************************************************)
EXTENDS Naturals, FiniteSets

CONSTANTS
    Accounts,
    None,         \* no credential; and no active account
    Login         \* the login the person's own tool had before

RepairAssumption == None \notin Accounts /\ Login \notin Accounts /\ None # Login

VARIABLES
    active,    \* the account the older build had active
    shared,    \* the item the person's own tool reads
    home,      \* the item of each account's home
    slot,      \* the older build's slot of each account
    reserved,  \* the older build's slot of the person's login
    at,        \* where the repair of this process stands
    held,      \* what it read and is still to write
    carrying,  \* how far each account is in the second part
    cut        \* whether the first part ended between its two writes

vars == <<active, shared, home, slot, reserved, at, held, carrying, cut>>
items == <<shared, home, slot, reserved>>

Blobs == Accounts \union {Login, None}
Steps == {"off", "mine", "shared", "writeMine", "parked", "restore", "carry",
          "look", "release", "carried", "refused"}
CarrySteps == {"read", "to", "write", "remove", "done"}

-----------------------------------------------------------------------------
(* The active account's credential goes home, and the person's login back. *)

Launch ==
    /\ at \in {"off", "carried", "refused"}
    /\ at' = IF active = None THEN "carry" ELSE "mine"
    /\ held' = None
    /\ carrying' = [a \in Accounts |-> "read"]
    /\ UNCHANGED <<active, items>>

ReadMine ==
    /\ at = "mine"
    /\ at' = IF home[active] # None THEN "carry" ELSE "shared"
    /\ UNCHANGED <<active, items, held, carrying>>

ReadShared ==
    /\ at = "shared"
    /\ held' = shared
    /\ at' = IF shared = None THEN "carry" ELSE "writeMine"
    /\ UNCHANGED <<active, items, carrying>>

WriteMine ==
    /\ at = "writeMine"
    /\ home' = [home EXCEPT ![active] = held]
    /\ at' = "parked"
    /\ UNCHANGED <<active, shared, slot, reserved, held, carrying>>

ReadParked ==
    /\ at = "parked"
    /\ held' = reserved
    /\ at' = "restore"
    /\ UNCHANGED <<active, items, carrying>>

(* Writes the parked login, or removes the item where nothing was parked.  *)
Restore ==
    /\ at = "restore"
    /\ shared' = held
    /\ held' = None
    /\ at' = "carry"
    /\ UNCHANGED <<active, home, slot, reserved, carrying>>

-----------------------------------------------------------------------------
(* Every account's slot is carried into its home, all of them at once.     *)

CarryTo(a, s) == carrying' = [carrying EXCEPT ![a] = s]

ReadSlot(a) ==
    /\ at = "carry" /\ carrying[a] = "read"
    /\ CarryTo(a, IF slot[a] = None THEN "done" ELSE "to")
    /\ UNCHANGED <<active, items, at, held>>

(* Mutant: the slot is emptied without a look at the home *)
CarryFirst(a) ==
    /\ at = "carry" /\ carrying[a] = "to"
    /\ CarryTo(a, "remove")
    /\ UNCHANGED <<active, items, at, held>>

ReadHome(a) ==
    /\ at = "carry" /\ carrying[a] = "to"
    /\ CarryTo(a, IF home[a] = None THEN "write" ELSE "remove")
    /\ UNCHANGED <<active, items, at, held>>

WriteHome(a) ==
    /\ at = "carry" /\ carrying[a] = "write"
    /\ home' = [home EXCEPT ![a] = slot[a]]
    /\ CarryTo(a, "remove")
    /\ UNCHANGED <<active, shared, slot, reserved, at, held>>

RemoveSlot(a) ==
    /\ at = "carry" /\ carrying[a] = "remove"
    /\ slot' = [slot EXCEPT ![a] = None]
    /\ CarryTo(a, "done")
    /\ UNCHANGED <<active, shared, home, reserved, at, held>>

AllCarried ==
    /\ at = "carry" /\ \A a \in Accounts : carrying[a] = "done"
    /\ at' = IF reserved = None THEN "carried" ELSE "release"
    /\ UNCHANGED <<active, items, held, carrying>>

Release ==
    /\ at = "release"
    /\ reserved' = None
    /\ at' = "carried"
    /\ UNCHANGED <<active, shared, home, slot, held, carrying>>

-----------------------------------------------------------------------------
(* A refusal ends the repair of this process, and the read it held up goes *)
(* on; a process that ends leaves the keychain as it is.                   *)
Stops ==
    /\ at \notin {"off", "carried", "refused"}
    /\ at' \in {"off", "refused"}
    /\ held' = None
    /\ cut' = (cut \/ at \in {"parked", "restore"})
    /\ UNCHANGED <<active, items, carrying>>

(* What an older build can have left: the active account's credential in   *)
(* the shared item, with or without a login parked, every other account's  *)
(* in its slot or nowhere.                                                 *)
Init ==
    /\ active \in Accounts \union {None}
    /\ home = [a \in Accounts |-> None]
    /\ slot \in [Accounts -> Blobs] /\ \A a \in Accounts : slot[a] \in {None, a}
    /\ IF active = None THEN shared \in {None, Login} /\ reserved = None
       ELSE slot[active] = None /\ shared = active /\ reserved \in {None, Login}
    /\ at = "off" /\ held = None /\ cut = FALSE
    /\ carrying = [a \in Accounts |-> "read"]

Carrying(a) == ReadSlot(a) \/ ReadHome(a) \/ WriteHome(a) \/ RemoveSlot(a)
Sharing == ReadMine \/ ReadShared \/ WriteMine \/ ReadParked \/ Restore

Next ==
    \/ /\ \/ Launch \/ Sharing
          \/ \E a \in Accounts : Carrying(a)
          \/ AllCarried \/ Release
       /\ UNCHANGED cut
    \/ Stops

Spec == Init /\ [][Next]_vars

-----------------------------------------------------------------------------
RepairTypeOK ==
    /\ active \in Accounts \union {None} /\ shared \in Blobs /\ reserved \in Blobs
    /\ home \in [Accounts -> Blobs] /\ slot \in [Accounts -> Blobs]
    /\ at \in Steps /\ held \in Blobs /\ carrying \in [Accounts -> CarrySteps]
    /\ cut \in BOOLEAN

Kept == {shared, reserved} \union {home[a] : a \in Accounts} \union {slot[a] : a \in Accounts}

(* No step of the repair leaves a credential nowhere, wherever it is cut   *)
(* short: what one state of the keychain holds, the next one holds too.    *)
(* The code departs from this for the login of the person, once the first  *)
(* part ended between its two writes (README, Departures).                 *)
NoCredentialIsLost == [][Kept \ (IF cut THEN {None, Login} ELSE {None}) \subseteq Kept']_vars

(* Once carried, every account's credential is in its own home alone and   *)
(* the shared item holds the person's login or nothing, unless that cut    *)
(* left it with the active account's.                                      *)
EachHoldsItsOwn ==
    at = "carried" =>
        /\ \A a \in Accounts : home[a] \in {a, None} /\ slot[a] = None
        /\ shared \in IF cut THEN {active} ELSE {Login, None}
        /\ reserved = None

=============================================================================
