--------------------------- MODULE AccountSignIns ---------------------------
(***************************************************************************)
(* The subscription accounts of one plan.  An account is a row of the       *)
(* registry and a config home that holds its credential; one home is chosen, *)
(* the one the plan's own tool runs against.  Sign-ins, activations and      *)
(* restores queue in one lane, adoptions in another, removals in a third.    *)
(* On a Mac the credential of a home stands in the keychain, under the path  *)
(* of the home, and outlives the folder.                                    *)
(***************************************************************************)
EXTENDS Naturals, FiniteSets

CONSTANTS
    Jobs,       \* what may be asked for, each once
    Ops,        \* which of the operations are asked for
    Addresses,  \* who may sign in
    MaxIds,     \* bound: accounts ever recorded
    InKeychain, \* whether credentials stand in the keychain
    LateTools,  \* whether a tool may finish after its wait gave up
    OldTools,   \* whether the tool writes the item of the person's own install
    Refusals,   \* bound: steps the keychain refuses
    None, Pending,
    Plan        \* the name of the plan, for an account nobody could name

Ids == 1..MaxIds
Paths == Ids \union {Pending}
Row == [label : Addresses \union {Plan}, machine : BOOLEAN]
Written == [who : Addresses, by : Jobs]

SignInsAssumption ==
    /\ MaxIds \in Nat /\ Refusals \in Nat
    /\ InKeychain \in BOOLEAN /\ LateTools \in BOOLEAN /\ OldTools \in BOOLEAN
    /\ OldTools => InKeychain
    /\ Ops \subseteq {"signIn", "browser", "restore", "activate", "adopt", "remove"}
    /\ "browser" \in Ops => ~InKeychain
    /\ None \notin Paths \union Addresses \union Row \union Written \union {Plan}
    /\ Pending \notin Ids /\ Plan \notin Addresses

VARIABLES
    rows,    \* the registry: id |-> row
    folders, \* the config homes on disk
    cred,    \* path |-> whose credential is kept for it
    named,   \* path |-> who the records inside it name
    active,  \* where the pointer of the chosen home leads
    item,    \* what an old tool left in the item of the person's own install,
             \* None while that holds the person's own login, which the
             \* person is taken to leave as it is while a tool runs
    tools,   \* the sign-ins whose tool is still open in a terminal
    wrote,   \* the sign-in whose tool wrote the pending credential
    strayed, \* the accounts a restore was finished for under another name
    minted, refused,
    job

vars == <<rows, folders, cred, named, active, item, tools, wrote, strayed, minted, refused, job>>
disk == <<folders, cred, named>>
runs == <<item, tools, wrote>>

Standing == {id \in Ids : rows[id] # None}

Waits == [op |-> "none", at |-> "idle", id |-> 0, who |-> None, name |-> None,
          survivors |-> {}, snapshot |-> None]

Rest == {"idle", "done", "cut"}

LaneOf(op) ==
    CASE op = "adopt" -> "machine" [] op = "remove" -> "vault" [] OTHER -> "signIns"

(* One job at a time in a lane.                                            *)
LaneIsFree(op) ==
    \A j \in Jobs : job[j].at \in Rest \/ LaneOf(job[j].op) # LaneOf(op)

To(j, at) == job' = [job EXCEPT ![j].at = at]
Begins(j, task) ==
    /\ task.op \in Ops /\ job[j].at = "idle" /\ LaneIsFree(task.op)
    /\ job' = [job EXCEPT ![j] = task]

-----------------------------------------------------------------------------
(* Which account an address stands under.                                  *)

(* By the stored label.  Who is not named matches nobody, here and below.   *)
StandingUnderTheAddress(name) == {id \in Standing : name # None /\ rows[id].label = name}

(* By the records inside each home.                                        *)
HeldUnderTheAddress(name) == {id \in Standing : name # None /\ named[id] = name}

(* The code takes the first of them in the document's order.               *)
Fresh == minted + 1
PickedFrom(held) == IF held = {} THEN {Fresh} ELSE held

Mints(id) == minted' = IF id = Fresh THEN Fresh ELSE minted

(* One row, written over any row under its id.                             *)
RecordTheAccount(id, label, machine) ==
    rows' = [rows EXCEPT ![id] = [label |-> label, machine |-> machine]]

-----------------------------------------------------------------------------
(* A sign-in through the plan's own tool.                                  *)

(* The pending home is made anew; what the keychain holds for it is not.   *)
ResetPending ==
    /\ folders' = folders \union {Pending}
    /\ named' = [named EXCEPT ![Pending] = None]
    /\ cred' = IF InKeychain THEN cred ELSE [cred EXCEPT ![Pending] = None]

RunsTheTool(j, op, id) ==
    /\ Begins(j, [Waits EXCEPT !.op = op, !.at = "tool", !.id = id, !.snapshot = item])
    /\ ResetPending
    /\ tools' = tools \union {j}
    /\ UNCHANGED <<rows, active, item, wrote, strayed, minted, refused>>

SignIn(j) == RunsTheTool(j, "signIn", 0)
Restore(j) == \E id \in Standing : RunsTheTool(j, "restore", id)

(* The person finishes in the terminal, as whoever they please: the tool   *)
(* writes its credential and, in time or not, the record naming its owner. *)
Finishes(j) ==
    /\ j \in tools /\ (job[j].at = "tool" \/ LateTools)
    /\ tools' = tools \ {j} /\ wrote' = j
    /\ UNCHANGED <<rows, folders, active, strayed, minted, refused, job>>

ToolWrites(j, who) ==
    /\ ~OldTools /\ Finishes(j)
    /\ InKeychain \/ Pending \in folders
    /\ cred' = [cred EXCEPT ![Pending] = who]
    /\ \E name \in {who, None} :
         named' = IF Pending \in folders THEN [named EXCEPT ![Pending] = name] ELSE named
    /\ UNCHANGED item

(* An old tool writes over the login of the person's own install, and      *)
(* leaves no address in the home it was pointed at.                        *)
OldToolWrites(j, who) ==
    /\ OldTools /\ Finishes(j)
    /\ item' = [who |-> who, by |-> j]
    /\ UNCHANGED <<cred, named>>

(* Mutant: every sign-in stands as an account of its own.                  *)
HeldOrNew(j) == IF job[j].id # 0 THEN {job[j].id} ELSE {Fresh}

AccountsFor(j) ==
    IF job[j].id # 0 THEN {job[j].id} ELSE PickedFrom(HeldUnderTheAddress(named[Pending]))

(* The poll, or the look after a reclaim, sees a credential for the pending *)
(* home: the account it belongs to is found, or minted, by the address its  *)
(* records name.                                                           *)
Lands(j) ==
    /\ job[j].at \in {"tool", "reclaimed"} /\ cred[Pending] # None
    /\ \E id \in AccountsFor(j) :
         /\ id \in Ids
         /\ Mints(id)
         /\ job' = [job EXCEPT ![j].at = "landed", ![j].id = id,
                               ![j].who = cred[Pending], ![j].name = named[Pending]]
    /\ UNCHANGED <<rows, disk, active, runs, strayed, refused>>

(* Nothing landed: an item that changed under the run is an old tool's work. *)
TimesOut(j) ==
    /\ job[j].at = "tool"
    /\ To(j, IF InKeychain /\ item # job[j].snapshot THEN "reclaim" ELSE "done")
    /\ UNCHANGED <<rows, disk, active, runs, strayed, minted, refused>>

(* One step of the keychain is refused; a step before it may be done.       *)
IsRefused(j, at) ==
    /\ refused < Refusals
    /\ refused' = refused + 1
    /\ To(j, at)

(* The old tool's write is moved to the home, then the person's login back. *)
MoveTheWriteHome(j) ==
    /\ job[j].at = "reclaim" /\ item # None
    /\ \/ /\ cred' = [cred EXCEPT ![Pending] = item.who]
          /\ To(j, "giveBack") /\ UNCHANGED refused
       \/ IsRefused(j, "done") /\ UNCHANGED cred
    /\ UNCHANGED <<rows, folders, named, active, runs, strayed, minted>>

PutTheSnapshotBack(j) ==
    /\ job[j].at = "giveBack"
    /\ \/ /\ item' = job[j].snapshot
          /\ To(j, "reclaimed") /\ UNCHANGED refused
       \/ IsRefused(j, "cut") /\ UNCHANGED item
    /\ UNCHANGED <<rows, disk, active, tools, wrote, strayed, minted>>

(* The pending home takes the place of the account's own.                  *)
PromotePending(j) ==
    LET id == job[j].id
    IN  /\ job[j].at = "landed"
        /\ folders' = (folders \ {Pending}) \union {id}
        /\ named' = [named EXCEPT ![id] = named[Pending], ![Pending] = None]
        /\ IF InKeychain
             THEN To(j, "promoted") /\ UNCHANGED cred
             ELSE /\ To(j, "record")
                  /\ cred' = [cred EXCEPT ![id] = cred[Pending], ![Pending] = None]
        /\ UNCHANGED <<rows, active, runs, strayed, minted, refused>>

(* In the keychain the credential follows its home: written there first,   *)
(* then taken from the pending one, and either may be refused.             *)
WriteUnder(j) ==
    /\ job[j].at = "promoted"
    /\ \/ /\ cred' = [cred EXCEPT ![job[j].id] = cred[Pending]]
          /\ To(j, "written") /\ UNCHANGED refused
       \/ IsRefused(j, "done") /\ UNCHANGED cred
    /\ UNCHANGED <<rows, folders, named, active, runs, strayed, minted>>

LetGoOfPending(j) ==
    /\ job[j].at = "written"
    /\ \/ /\ cred' = [cred EXCEPT ![Pending] = None]
          /\ To(j, "record") /\ UNCHANGED refused
       \/ IsRefused(j, "cut") /\ UNCHANGED cred
    /\ UNCHANGED <<rows, folders, named, active, runs, strayed, minted>>

(* The address, as the records name it or else as the far end does, which is *)
(* asked only with a credential of the keychain and may not answer.          *)
LabelsFor(j) ==
    IF job[j].name # None THEN {job[j].name}
    ELSE {Plan} \union IF InKeychain THEN {cred[job[j].id]} \ {None} ELSE {}

IsRenamed(id, label) == rows[id] = None \/ rows[id].label # label

Record(j) ==
    /\ job[j].at = "record"
    /\ \E label \in LabelsFor(j) :
         /\ RecordTheAccount(job[j].id, label, FALSE)
         /\ strayed' = IF job[j].op = "restore" /\ IsRenamed(job[j].id, label)
                         THEN strayed \union {job[j].id} ELSE strayed
    /\ To(j, "point")
    /\ UNCHANGED <<disk, active, runs, minted, refused>>

PointActiveAt(j) ==
    /\ job[j].at = "point"
    /\ active' = job[j].id
    /\ To(j, "done")
    /\ UNCHANGED <<rows, disk, runs, strayed, minted, refused>>

-----------------------------------------------------------------------------
(* A sign-in recompose runs itself, an adoption, an activation.            *)

BrowserSignIn(j, who, name) ==
    \E id \in PickedFrom(StandingUnderTheAddress(name)) :
        /\ id \in Ids
        /\ Mints(id)
        /\ Begins(j, [Waits EXCEPT !.op = "browser", !.at = "keep", !.id = id, !.who = who,
                                   !.name = name])
        /\ UNCHANGED <<rows, disk, active, runs, strayed, refused>>

WriteCredential(j) ==
    /\ job[j].at = "keep"
    /\ folders' = folders \union {job[j].id}
    /\ cred' = [cred EXCEPT ![job[j].id] = job[j].who]
    /\ named' = [named EXCEPT ![job[j].id] = job[j].name]
    /\ To(j, "record")
    /\ UNCHANGED <<rows, active, runs, strayed, minted, refused>>

(* What the machine holds is recorded, and nothing of it is copied.        *)
Adopt(j, name) ==
    LET under == StandingUnderTheAddress(name)
    IN  \E id \in PickedFrom(IF under = {} THEN HeldUnderTheAddress(name) ELSE under) :
          /\ id \in Ids
          /\ Mints(id)
          /\ Begins(j, [Waits EXCEPT !.op = "adopt", !.at = "adopt", !.id = id, !.name = name])
          /\ UNCHANGED <<rows, disk, active, runs, strayed, refused>>

RecordAdopted(j) ==
    /\ job[j].at = "adopt"
    /\ RecordTheAccount(job[j].id, IF job[j].name = None THEN Plan ELSE job[j].name, TRUE)
    /\ To(j, "done")
    /\ UNCHANGED <<disk, active, runs, strayed, minted, refused>>

Activate(j) ==
    \E id \in Standing :
        /\ Begins(j, [Waits EXCEPT !.op = "activate", !.at = "point", !.id = id])
        /\ UNCHANGED <<rows, disk, active, runs, strayed, minted, refused>>

-----------------------------------------------------------------------------
(* A removal.                                                              *)

Remove(j) ==
    \E id \in Standing :
        /\ Begins(j, [Waits EXCEPT !.op = "remove", !.at = "release", !.id = id,
                                   !.survivors = Standing \ {id}])
        /\ UNCHANGED <<rows, disk, active, runs, strayed, minted, refused>>

(* The keychain's item goes and so does the home; an item the keychain     *)
(* will not let go of keeps the row, and the home goes all the same.       *)
RemoveHome(j) ==
    LET id == job[j].id
    IN  /\ job[j].at = "release"
        /\ named' = [named EXCEPT ![id] = None]
        /\ folders' = folders \ {id}
        /\ \/ /\ cred' = [cred EXCEPT ![id] = None]
              /\ To(j, "heal") /\ UNCHANGED refused
           \/ /\ InKeychain /\ refused < Refusals
              /\ refused' = refused + 1
              /\ To(j, "healKept") /\ UNCHANGED cred
        /\ UNCHANGED <<rows, active, runs, strayed, minted>>

(* Where the pointer leads, nobody when it leads nowhere.                  *)
ReadActive == IF active \in folders THEN active ELSE None

(* The pointer stays with a survivor, as they were read when it began.     *)
HealActive(j) ==
    LET survivors == job[j].survivors
    IN  /\ job[j].at \in {"heal", "healKept"}
        /\ IF ReadActive \in survivors THEN UNCHANGED active
           ELSE IF survivors = {} THEN active' = None
           ELSE \E heir \in survivors : active' = heir
        /\ To(j, IF job[j].at = "heal" THEN "forget" ELSE "done")
        /\ UNCHANGED <<rows, disk, runs, strayed, minted, refused>>

ForgetRow(j) ==
    /\ job[j].at = "forget"
    /\ rows' = [rows EXCEPT ![job[j].id] = None]
    /\ To(j, "done")
    /\ UNCHANGED <<disk, active, runs, strayed, minted, refused>>

-----------------------------------------------------------------------------

(* Some accounts were signed in before, each under its own address.        *)
Init ==
    /\ minted \in 0..MaxIds
    /\ \E who \in [1..minted -> Addresses] :
         /\ \A m, n \in 1..minted : who[m] = who[n] => m = n
         /\ rows = [id \in Ids |-> IF id \in 1..minted THEN [label |-> who[id], machine |-> FALSE]
                                                       ELSE None]
         /\ named = [p \in Paths |-> IF p \in 1..minted THEN who[p] ELSE None]
    /\ cred = named
    /\ folders = 1..minted
    /\ active \in 1..minted \union {None} /\ (minted > 0 => active # None)
    /\ item = None /\ tools = {} /\ wrote = None /\ strayed = {} /\ refused = 0
    /\ job = [j \in Jobs |-> Waits]

Next ==
    \E j \in Jobs :
        \/ SignIn(j) \/ Restore(j) \/ Lands(j) \/ TimesOut(j)
        \/ MoveTheWriteHome(j) \/ PutTheSnapshotBack(j)
        \/ PromotePending(j) \/ WriteUnder(j) \/ LetGoOfPending(j)
        \/ Record(j) \/ PointActiveAt(j)
        \/ WriteCredential(j) \/ RecordAdopted(j) \/ Activate(j)
        \/ Remove(j) \/ RemoveHome(j) \/ HealActive(j) \/ ForgetRow(j)
        \/ \E who \in Addresses : ToolWrites(j, who) \/ OldToolWrites(j, who)
        \/ \E who \in Addresses : \E name \in {who, None} : BrowserSignIn(j, who, name)
        \/ \E name \in Addresses \union {None} : Adopt(j, name)

Spec == Init /\ [][Next]_vars

-----------------------------------------------------------------------------

Quiet == \A j \in Jobs : job[j].at \in Rest
NothingIsCut == \A j \in Jobs : job[j].at # "cut"

(* Every row, home and pointer is one the code can hold.                   *)
SignInsTypeOK ==
    /\ rows \in [Ids -> Row \union {None}]
    /\ folders \subseteq Paths
    /\ cred \in [Paths -> Addresses \union {None}]
    /\ named \in [Paths -> Addresses \union {None}]
    /\ active \in Ids \union {None}
    /\ item \in Written \union {None}
    /\ strayed \subseteq Ids
    /\ minted \in 0..MaxIds /\ refused \in 0..Refusals
    /\ \A id \in Ids : id > minted => rows[id] = None

(* One address stands as one account, however it arrived, but for accounts  *)
(* restored under another name than their own.                             *)
(* The code departs from this there, and in the keychain (README,          *)
(* Departures).                                                            *)
OneRowPerAddress ==
    \A id, other \in Standing \ strayed :
        rows[id].label = rows[other].label => id = other \/ rows[id].label = Plan

(* An account signed in holds the credential of the address it is named by, *)
(* while no move between two items of the keychain was cut halfway.         *)
(* The code departs from this after one (README, Departures).               *)
RowsHoldTheirCredential ==
    Quiet /\ NothingIsCut =>
        \A id \in Standing : ~rows[id].machine => rows[id].label \in {cred[id], Plan}

(* However a run ends, the person's own install finds its login again,      *)
(* while the keychain refuses nothing.                                      *)
TheOwnLoginIsPutBack == Quiet /\ refused = 0 => item = None

(* The chosen home is one of an account that stands.                       *)
TheChosenOneStands == Quiet => ReadActive \in Standing \union {None}

(* Letting one account go disturbs no other: the pointer leaves only the   *)
(* account that was let go.                                                *)
(* The code departs from this (README, Departures).                        *)
RemovalDisturbsNobodyElse ==
    [][\A j \in Jobs :
         job[j].at \in {"heal", "healKept"} /\ job'[j].at # job[j].at /\ active' # active
           => ReadActive \in {job[j].id, None}]_vars

(* When the chosen account is let go the pointer moves to a survivor, while *)
(* there is one.                                                           *)
(* The code departs from this (README, Departures).                        *)
SomeoneIsChosen ==
    [][\A j \in Jobs :
         job[j].at \in {"heal", "healKept"} /\ job'[j].at # job[j].at /\ job[j].survivors # {}
           => active' \in folders]_vars

(* A sign-in lands what its own tool wrote to its home: one abandoned       *)
(* leaves nothing behind for the next.                                     *)
(* The code departs from this (README, Departures).                        *)
LandsWhatItsToolWrote ==
    [][\A j \in Jobs : job[j].at = "tool" /\ job'[j].at = "landed" => wrote = j]_vars

=============================================================================
