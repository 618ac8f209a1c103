------------------------------- MODULE KeyVault -------------------------------
(***************************************************************************)
(* The keys of connected accounts.  Their secrets stand in the vault, the  *)
(* rows that name them in the registry of accounts: two files, written one *)
(* after the other by jobs that run one at a time, with a sweep at boot    *)
(* for what a failure between the two writes left behind.  Sign-ins amend  *)
(* the registry too, outside the order of the vault.                       *)
(***************************************************************************)
EXTENDS Naturals, FiniteSets

CONSTANTS
    Rows,      \* ids a connected account may be given
    Labels,    \* names a person may give one
    Plans,     \* subscription rows a sign-in may add
    Jobs,      \* what may be asked of the vault at once
    None,
    MaxRefs,   \* bound: references minted
    MaxDeaths, \* bound: times the app dies
    MaxRefusals, \* bound: times the disk refuses a write
    Damages    \* whether the registry may be damaged while the app is closed

Refs == 1..MaxRefs
KeyRow == [label : Labels, ref : Refs, reader : Refs \union {None}]
Registry == [keys : [Rows -> KeyRow \union {None}], plans : SUBSET Plans]
Ops == {"connect", "remove", "setReader", "clearReader"}

VaultAssumption ==
    /\ MaxRefs \in Nat /\ MaxDeaths \in Nat /\ MaxRefusals \in Nat
    /\ Damages \in BOOLEAN
    /\ None \notin Rows \union Labels \union Plans \union Jobs
    /\ None \notin Refs \union KeyRow

VARIABLES
    vault,     \* the references the vault holds a secret for
    registry,  \* the rows of accounts.json
    damaged,   \* whether accounts.json can be read
    aside,     \* the references a registry moved aside as damaged names
    job,       \* what each job is doing
    minted,    \* references minted so far
    up,        \* whether the app runs
    deaths,
    refusals

vars == <<vault, registry, damaged, aside, job, minted, up, deaths, refusals>>

Idle == [op |-> "idle"]
Standing(doc) == {id \in Rows : doc.keys[id] # None}

(* Every entry of the vault one row reaches.                               *)
VaultRefsOf(row) == {row.ref} \union ({row.reader} \ {None})
RefsReached(doc) == UNION {VaultRefsOf(doc.keys[id]) : id \in Standing(doc)}

(* One job at a time, in the order they were asked.                        *)
Free == \A j \in Jobs : job[j] = Idle

EmptyRegistry == [keys |-> [id \in Rows |-> None], plans |-> {}]

-----------------------------------------------------------------------------
(* A job reads the registry, opens the vault, saves it, amends the registry. *)

Begins(j, op, id, label) ==
    /\ up /\ Free
    /\ job' = [job EXCEPT ![j] = [op |-> op, at |-> "open", id |-> id, label |-> label,
                                  doc |-> registry, vault |-> {}, ref |-> None]]
    /\ UNCHANGED <<vault, registry, damaged, aside, minted, up, deaths, refusals>>

(* A name another key of the provider holds is refused.                    *)
NameIsFree(label) == \A id \in Standing(registry) : registry.keys[id].label # label

Connect(j, id, label) ==
    /\ registry.keys[id] = None
    /\ NameIsFree(label)
    /\ Begins(j, "connect", id, label)

Remove(j, id) == registry.keys[id] # None /\ Begins(j, "remove", id, None)

SetReader(j, id) == registry.keys[id] # None /\ Begins(j, "setReader", id, None)

ClearReader(j, id) ==
    /\ registry.keys[id] # None
    /\ registry.keys[id].reader # None
    /\ Begins(j, "clearReader", id, None)

Mints(op) == op \in {"connect", "setReader"}

Open(j) ==
    /\ job[j] # Idle /\ job[j].at = "open"
    /\ Mints(job[j].op) => minted < MaxRefs
    /\ job' = [job EXCEPT ![j].at = "save", ![j].vault = vault,
                          ![j].ref = IF Mints(job[j].op) THEN minted + 1 ELSE None]
    /\ minted' = IF Mints(job[j].op) THEN minted + 1 ELSE minted
    /\ UNCHANGED <<vault, registry, damaged, aside, up, deaths, refusals>>

(* The vault a job saves: what it opened, with what it mints, without what *)
(* the row it read loses.                                                  *)
Sealed(k) ==
    CASE k.op = "connect" -> k.vault \union {k.ref}
      [] k.op = "remove" -> k.vault \ VaultRefsOf(k.doc.keys[k.id])
      [] k.op = "setReader" -> (k.vault \ {k.doc.keys[k.id].reader}) \union {k.ref}
      [] k.op = "clearReader" -> k.vault \ {k.doc.keys[k.id].reader}

Save(j) ==
    /\ job[j] # Idle /\ job[j].at = "save"
    /\ vault' = Sealed(job[j])
    /\ job' = [job EXCEPT ![j].at = "amend"]
    /\ UNCHANGED <<registry, damaged, aside, minted, up, deaths, refusals>>

(* The registry is amended against its freshest state.                     *)
Amended(k, doc) ==
    CASE k.op = "connect" ->
            [doc EXCEPT !.keys[k.id] = [label |-> k.label, ref |-> k.ref, reader |-> None]]
      [] k.op = "remove" -> [doc EXCEPT !.keys[k.id] = None]
      [] k.op = "setReader" -> [doc EXCEPT !.keys[k.id].reader = k.ref]
      [] k.op = "clearReader" -> [doc EXCEPT !.keys[k.id].reader = None]

(* Mutant: the registry a job read when it began is the one it writes.     *)
WrittenStale(k) == Amended(k, k.doc)

Written(k) == Amended(k, registry)

Amend(j) ==
    /\ job[j] # Idle /\ job[j].at = "amend"
    /\ registry' = Written(job[j])
    /\ job' = [job EXCEPT ![j] = Idle]
    /\ UNCHANGED <<vault, damaged, aside, minted, up, deaths, refusals>>

(* A disk that refuses either write ends the job there.                    *)
Refused(j) ==
    /\ job[j] # Idle /\ job[j].at \in {"save", "amend"}
    /\ refusals < MaxRefusals
    /\ refusals' = refusals + 1
    /\ job' = [job EXCEPT ![j] = Idle]
    /\ UNCHANGED <<vault, registry, damaged, aside, minted, up, deaths>>

SignIn(p) ==
    /\ up /\ p \notin registry.plans
    /\ registry' = [registry EXCEPT !.plans = @ \union {p}]
    /\ UNCHANGED <<vault, damaged, aside, job, minted, up, deaths, refusals>>

-----------------------------------------------------------------------------
(* The app dies, and boots: a registry nobody can read is moved aside and  *)
(* an empty one takes its place; entries no row reaches are swept.         *)

Die ==
    /\ up /\ deaths < MaxDeaths
    /\ up' = FALSE
    /\ deaths' = deaths + 1
    /\ job' = [j \in Jobs |-> Idle]
    /\ UNCHANGED <<vault, registry, damaged, aside, minted, refusals>>

Damage ==
    /\ Damages /\ ~up /\ ~damaged
    /\ damaged' = TRUE
    /\ UNCHANGED <<vault, registry, aside, job, minted, up, deaths, refusals>>

Loaded == IF damaged THEN EmptyRegistry ELSE registry
Swept(doc) == vault \ RefsReached(doc)

Boot ==
    /\ ~up
    /\ up' = TRUE
    /\ registry' = Loaded
    /\ damaged' = FALSE
    /\ aside' = IF damaged THEN aside \union RefsReached(registry) ELSE aside
    /\ vault' = vault \ Swept(Loaded)
    /\ refusals' = 0
    /\ UNCHANGED <<job, minted, deaths>>

Init ==
    /\ vault = {} /\ registry = EmptyRegistry
    /\ damaged = FALSE /\ aside = {}
    /\ job = [j \in Jobs |-> Idle]
    /\ minted = 0 /\ up = TRUE /\ deaths = 0 /\ refusals = 0

Asked(j) ==
    \/ \E id \in Rows, label \in Labels : Connect(j, id, label)
    \/ \E id \in Rows : Remove(j, id) \/ SetReader(j, id) \/ ClearReader(j, id)

Next ==
    \/ \E j \in Jobs : Asked(j) \/ Open(j) \/ Save(j) \/ Amend(j) \/ Refused(j)
    \/ \E p \in Plans : SignIn(p)
    \/ Die \/ Damage \/ Boot

Spec == Init /\ [][Next]_vars

-----------------------------------------------------------------------------
VaultTypeOK ==
    /\ vault \subseteq Refs /\ registry \in Registry
    /\ damaged \in BOOLEAN /\ aside \subseteq Refs
    /\ minted \in 0..MaxRefs /\ up \in BOOLEAN
    /\ \A j \in Jobs : job[j] # Idle =>
          /\ job[j].op \in Ops /\ job[j].id \in Rows /\ job[j].vault \subseteq Refs
          /\ job[j].at \in {"open", "save", "amend"} /\ job[j].ref \in Refs \union {None}

(* inVaultOrder: while no write was refused since the boot, an app at rest *)
(* holds no secret that no row reaches.                                    *)
NoSecretIsOrphaned == (up /\ Free /\ refusals = 0) => vault \subseteq RefsReached(registry)

(* A secret a row spends leaves the vault only in the removal of that row: *)
(* neither another job, however they were asked, nor the sweep drops it.   *)
SpendingSecretsStand ==
    [][\A id \in Standing(registry) :
          (registry.keys[id].ref \in vault \ vault' /\ ~damaged)
          => \E j \in Jobs : job[j] # Idle /\ job[j].op = "remove" /\ job[j].id = id]_vars

(* Two rows of one provider never hold one name.                           *)
NamesAreHeldOnce ==
    \A a, b \in Standing(registry) : registry.keys[a].label = registry.keys[b].label => a = b

(* amendAccountsFile: a job that was at work while a person signed in does *)
(* not erase the row the sign-in added.                                    *)
SignInsAreKept == [][~damaged => registry.plans \subseteq registry'.plans]_vars

(* No secret is orphaned, dropped under its row or named twice, and no job *)
(* erases the row of a sign-in that came between.                          *)
VaultAndRegistryAgree ==
    /\ []VaultTypeOK
    /\ []NoSecretIsOrphaned
    /\ []NamesAreHeldOnce
    /\ SpendingSecretsStand
    /\ SignInsAreKept

(* The sweep drops nothing a registry names, the one moved aside included. *)
(* The code departs from this (README, Departures).                        *)
SweepsNothingRecoverable == [][~up /\ up' => (vault \ vault') \cap aside' = {}]_vars

(* A row at rest names a reader key the vault still holds.                 *)
(* The code departs from this (README, Departures).                        *)
ReadersOpen ==
    Free => \A id \in Standing(registry) : registry.keys[id].reader \in vault \union {None}

=============================================================================
