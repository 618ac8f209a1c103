---------------------------- MODULE KeyVaultProofs ----------------------------
(***************************************************************************)
(* Proofs about KeyVault, for any number of rows, jobs, deaths and refusals, *)
(* and whether or not the registry is damaged while the app is closed.       *)
(***************************************************************************)
EXTENDS KeyVault, TLAPS

Task == [op : Ops, at : {"open", "save", "amend"}, id : Rows,
         label : Labels \union {None}, doc : Registry, vault : SUBSET Refs,
         ref : Refs \union {None}]

(* VaultTypeOK, and what a job at work carries. *)
WorkTypeOK ==
    /\ vault \subseteq Refs /\ registry \in Registry
    /\ damaged \in BOOLEAN /\ aside \subseteq Refs
    /\ minted \in 0..MaxRefs /\ up \in BOOLEAN /\ refusals \in Nat
    /\ job \in [Jobs -> Task \union {Idle}]

(* The order of the vault: one job at a time, and none while the app is down. *)
OneAtATime ==
    /\ \A i, j \in Jobs : job[i] # Idle /\ job[j] # Idle => i = j
    /\ ~up => Free

(* A reference was minted once, for one entry of one row.                    *)
RefsStandOnce ==
    \A a \in Standing(registry) :
        /\ registry.keys[a].ref # registry.keys[a].reader
        /\ \A r \in VaultRefsOf(registry.keys[a]) : r <= minted
        /\ \A b \in Standing(registry) : a # b =>
              VaultRefsOf(registry.keys[a]) \cap VaultRefsOf(registry.keys[b]) = {}

(* While a job is at work the rows are those it read, and so is the vault    *)
(* until it saves: a name or a row it found free still is, and what it       *)
(* minted no row names yet.                                                 *)
ReadsStillStand(k) ==
    /\ k.doc.keys = registry.keys
    /\ k.at = "save" => k.vault = vault
    /\ k.op = "connect" =>
          /\ registry.keys[k.id] = None /\ k.label \in Labels /\ NameIsFree(k.label)
    /\ k.op # "connect" => registry.keys[k.id] # None
    /\ k.at # "open" /\ Mints(k.op) =>
          /\ k.ref \in Refs /\ k.ref <= minted
          /\ \A id \in Standing(registry) : k.ref \notin VaultRefsOf(registry.keys[id])

(* What the vault holds between two jobs the rows reach, and what it holds   *)
(* once a job saved it the rows will reach when that job has amended them.   *)
ReachedOrAboutToBe(k) ==
    vault \subseteq RefsReached(IF k.at = "amend" THEN Amended(k, registry) ELSE registry)

WorkHolds ==
    \A j \in Jobs : job[j] # Idle =>
        /\ ReadsStillStand(job[j])
        /\ refusals = 0 => ReachedOrAboutToBe(job[j])

VaultInv ==
    /\ WorkTypeOK /\ OneAtATime /\ RefsStandOnce /\ NamesAreHeldOnce
    /\ WorkHolds /\ NoSecretIsOrphaned

-----------------------------------------------------------------------------
(* Rows and what they reach.                                               *)

LEMMA Reaching ==
  ASSUME NEW doc, NEW v
  PROVE  v \in RefsReached(doc) <=> \E id \in Standing(doc) : v \in VaultRefsOf(doc.keys[id])
BY DEF RefsReached

(* What an amendment needs of the row it is about, *)
Amendable(k, doc) ==
    /\ k.op = "connect" => k.label \in Labels
    /\ k.op # "connect" => doc.keys[k.id] # None
    /\ Mints(k.op) => k.ref \in Refs

(* and all it changes: the plans stay, and every row but that one. *)
AmendsOnly(k, doc, new) ==
    /\ new \in Registry /\ new.plans = doc.plans
    /\ \A id \in Rows : id # k.id => new.keys[id] = doc.keys[id]
    /\ k.op = "connect" =>
          new.keys[k.id] = [label |-> k.label, ref |-> k.ref, reader |-> None]
    /\ k.op = "remove" => new.keys[k.id] = None
    /\ k.op = "setReader" => new.keys[k.id] = [doc.keys[k.id] EXCEPT !.reader = k.ref]
    /\ k.op = "clearReader" => new.keys[k.id] = [doc.keys[k.id] EXCEPT !.reader = None]

LEMMA AmendedRows ==
  ASSUME NEW k \in Task, NEW doc \in Registry, Amendable(k, doc)
  PROVE  AmendsOnly(k, doc, Amended(k, doc))
<1>1. /\ k.id \in Rows /\ k.op \in Ops /\ doc.keys \in [Rows -> KeyRow \union {None}]
      /\ doc.plans \in SUBSET Plans
      /\ k.op = "connect" => k.label \in Labels
      /\ k.op # "connect" => doc.keys[k.id] # None
      /\ Mints(k.op) => k.ref \in Refs
  BY DEF Task, Registry, Amendable
<1>2. CASE k.op = "connect"
  <2> DEFINE row == [label |-> k.label, ref |-> k.ref, reader |-> None]
  <2>1. row \in KeyRow
    BY <1>1, <1>2 DEF Mints, KeyRow
  <2>2. Amended(k, doc) = [doc EXCEPT !.keys[k.id] = row]
    BY <1>2 DEF Amended
  <2> HIDE DEF row
  <2>3. Amended(k, doc).keys = [doc.keys EXCEPT ![k.id] = row]
        /\ Amended(k, doc).plans = doc.plans /\ Amended(k, doc) \in Registry
    BY <1>1, <2>1, <2>2 DEF Registry
  <2>4. Amended(k, doc).keys[k.id] = row
        /\ \A id \in Rows : id # k.id => Amended(k, doc).keys[id] = doc.keys[id]
    BY <1>1, <2>3
  <2>5. QED
    BY <1>2, <2>3, <2>4 DEF row, AmendsOnly
<1>3. CASE k.op = "remove"
  <2>2. Amended(k, doc) = [doc EXCEPT !.keys[k.id] = None]
    BY <1>3 DEF Amended
  <2>3. Amended(k, doc).keys = [doc.keys EXCEPT ![k.id] = None]
        /\ Amended(k, doc).plans = doc.plans /\ Amended(k, doc) \in Registry
    BY <1>1, <2>2 DEF Registry
  <2>4. Amended(k, doc).keys[k.id] = None
        /\ \A id \in Rows : id # k.id => Amended(k, doc).keys[id] = doc.keys[id]
    BY <1>1, <2>3
  <2>5. QED
    BY <1>3, <2>3, <2>4 DEF AmendsOnly
<1>4. ASSUME NEW r \in Refs \union {None},
             Amended(k, doc) = [doc EXCEPT !.keys[k.id].reader = r],
             k.op # "connect"
      PROVE  /\ Amended(k, doc).keys[k.id] = [doc.keys[k.id] EXCEPT !.reader = r]
             /\ \A id \in Rows : id # k.id => Amended(k, doc).keys[id] = doc.keys[id]
             /\ Amended(k, doc).plans = doc.plans /\ Amended(k, doc) \in Registry
  <2> DEFINE row == [doc.keys[k.id] EXCEPT !.reader = r]
  <2>1. row \in KeyRow
    BY <1>1, <1>4 DEF KeyRow
  <2>2. Amended(k, doc) = [doc EXCEPT !.keys[k.id] = row]
    BY <1>4
  <2> HIDE DEF row
  <2>3. Amended(k, doc).keys = [doc.keys EXCEPT ![k.id] = row]
        /\ Amended(k, doc).plans = doc.plans /\ Amended(k, doc) \in Registry
    BY <1>1, <2>1, <2>2 DEF Registry
  <2>4. Amended(k, doc).keys[k.id] = row
        /\ \A id \in Rows : id # k.id => Amended(k, doc).keys[id] = doc.keys[id]
    BY <1>1, <2>3
  <2>5. QED
    BY <2>3, <2>4 DEF row
<1>5. CASE k.op = "setReader"
  <2>1. Amended(k, doc) = [doc EXCEPT !.keys[k.id].reader = k.ref] /\ k.ref \in Refs
    BY <1>1, <1>5 DEF Amended, Mints
  <2>2. /\ Amended(k, doc).keys[k.id] = [doc.keys[k.id] EXCEPT !.reader = k.ref]
        /\ \A id \in Rows : id # k.id => Amended(k, doc).keys[id] = doc.keys[id]
        /\ Amended(k, doc).plans = doc.plans /\ Amended(k, doc) \in Registry
    BY <1>4, <1>5, <2>1
  <2>3. QED
    BY <1>5, <2>2 DEF AmendsOnly
<1>6. CASE k.op = "clearReader"
  <2>1. Amended(k, doc) = [doc EXCEPT !.keys[k.id].reader = None]
    BY <1>6 DEF Amended
  <2>2. /\ Amended(k, doc).keys[k.id] = [doc.keys[k.id] EXCEPT !.reader = None]
        /\ \A id \in Rows : id # k.id => Amended(k, doc).keys[id] = doc.keys[id]
        /\ Amended(k, doc).plans = doc.plans /\ Amended(k, doc) \in Registry
    BY <1>4, <1>6, <2>1
  <2>3. QED
    BY <1>6, <2>2 DEF AmendsOnly
<1>7. QED
  BY <1>1, <1>2, <1>3, <1>5, <1>6 DEF Ops

(* What the rows reach hangs on the rows alone. *)
LEMMA PlansReachNothing ==
  ASSUME NEW a \in Registry, NEW b \in Registry, a.keys = b.keys
  PROVE  RefsReached(a) = RefsReached(b) /\ Standing(a) = Standing(b)
BY DEF RefsReached, Standing

(* What a job leaves in the vault the rows it will leave all reach.          *)
LEMMA SealedIsReached ==
  ASSUME VaultAssumption, VaultInv, NEW j \in Jobs, job[j] # Idle, job[j].at = "save",
         refusals = 0
  PROVE  Sealed(job[j]) \subseteq RefsReached(Amended(job[j], registry))
<1> DEFINE k == job[j]
<1> DEFINE new == Amended(k, registry)
<1>1. /\ k \in Task /\ registry \in Registry /\ k.op \in Ops /\ k.id \in Rows
      /\ registry.keys \in [Rows -> KeyRow \union {None}]
  BY DEF VaultInv, WorkTypeOK, Task, Registry
<1>2. ReadsStillStand(k) /\ vault \subseteq RefsReached(registry)
  BY DEF VaultInv, WorkHolds, ReachedOrAboutToBe
<1>3. /\ new \in Registry
      /\ \A id \in Rows : id # k.id => new.keys[id] = registry.keys[id]
      /\ k.op = "connect" =>
            new.keys[k.id] = [label |-> k.label, ref |-> k.ref, reader |-> None]
      /\ k.op = "setReader" => new.keys[k.id] = [registry.keys[k.id] EXCEPT !.reader = k.ref]
      /\ k.op = "clearReader" => new.keys[k.id] = [registry.keys[k.id] EXCEPT !.reader = None]
  <2>1. Amendable(k, registry)
    BY <1>1, <1>2 DEF ReadsStillStand, Amendable
  <2> HIDE DEF k
  <2>2. AmendsOnly(k, registry, new)
    BY <1>1, <2>1, AmendedRows
  <2> HIDE DEF new
  <2>3. QED
    BY <2>2 DEF AmendsOnly
<1>4. k.vault = vault /\ k.doc.keys = registry.keys
  BY <1>2 DEF ReadsStillStand
<1>5. None \notin KeyRow /\ None \notin Refs
  BY DEF VaultAssumption
<1> HIDE DEF k, new
<1> SUFFICES ASSUME NEW v \in Sealed(k) PROVE v \in RefsReached(new)
  BY DEF k, new
<1>6. ASSUME NEW id \in Rows, id # k.id, registry.keys[id] # None,
             v \in VaultRefsOf(registry.keys[id])
      PROVE  v \in RefsReached(new)
  BY <1>3, <1>6, Reaching DEF Standing
<1>7. ASSUME new.keys[k.id] # None, v \in VaultRefsOf(new.keys[k.id])
      PROVE  v \in RefsReached(new)
  BY <1>1, <1>7, Reaching DEF Standing
<1>8. ASSUME v \in vault
      PROVE  \E id \in Rows : registry.keys[id] # None /\ v \in VaultRefsOf(registry.keys[id])
  BY <1>2, <1>8, Reaching DEF Standing
<1>9. CASE k.op = "connect"
  <2>1. v \in vault \/ v = k.ref
    BY <1>4, <1>9 DEF Sealed
  <2>2. k.ref \in Refs /\ k.label \in Labels /\ registry.keys[k.id] = None
    BY <1>2, <1>9 DEF ReadsStillStand, Mints, k
  <2>3. new.keys[k.id] \in KeyRow /\ new.keys[k.id].ref = k.ref
    BY <1>3, <1>9, <2>2 DEF KeyRow
  <2>4. CASE v = k.ref
    BY <1>5, <1>7, <2>3, <2>4 DEF VaultRefsOf
  <2>5. CASE v \in vault
    BY <1>6, <1>8, <2>2, <2>5
  <2>6. QED
    BY <2>1, <2>4, <2>5
<1>10. CASE k.op = "remove"
  <2>1. v \in vault /\ v \notin VaultRefsOf(registry.keys[k.id])
    BY <1>4, <1>10 DEF Sealed
  <2>2. QED
    BY <1>6, <1>8, <2>1
<1>11. ASSUME NEW r \in Refs \union {None}, k.op # "connect",
              new.keys[k.id] = [registry.keys[k.id] EXCEPT !.reader = r],
              (v = r /\ r # None) \/ (v \in vault /\ v # registry.keys[k.id].reader)
       PROVE  v \in RefsReached(new)
  <2>1. registry.keys[k.id] \in KeyRow
    BY <1>1, <1>2, <1>11 DEF ReadsStillStand, k
  <2>2. /\ new.keys[k.id] \in KeyRow /\ new.keys[k.id].reader = r
        /\ new.keys[k.id].ref = registry.keys[k.id].ref
    BY <1>11, <2>1 DEF KeyRow
  <2>3. CASE v = r /\ r # None
    BY <1>5, <1>7, <2>2, <2>3 DEF VaultRefsOf
  <2>4. CASE v \in vault /\ v # registry.keys[k.id].reader
    <3>1. PICK id \in Rows : registry.keys[id] # None /\ v \in VaultRefsOf(registry.keys[id])
      BY <1>8, <2>4
    <3>2. CASE id = k.id
      BY <1>5, <1>7, <2>2, <2>4, <3>1, <3>2 DEF VaultRefsOf
    <3>3. QED
      BY <1>6, <3>1, <3>2
  <2>5. QED
    BY <1>11, <2>3, <2>4
<1>12. CASE k.op = "setReader"
  <2>1. v = k.ref \/ (v \in vault /\ v # registry.keys[k.id].reader)
    <3>1. Sealed(k) = (k.vault \ {k.doc.keys[k.id].reader}) \union {k.ref}
      BY <1>12 DEF Sealed
    <3>2. QED
      BY <1>4, <3>1
  <2>2. k.ref \in Refs
    BY <1>2, <1>12 DEF ReadsStillStand, Mints, k
  <2>3. QED
    BY <1>3, <1>5, <1>11, <1>12, <2>1, <2>2
<1>13. CASE k.op = "clearReader"
  <2>1. v \in vault /\ v # registry.keys[k.id].reader
    BY <1>4, <1>13 DEF Sealed
  <2>2. QED
    BY <1>3, <1>11, <1>13, <2>1
<1>14. QED
  BY <1>1, <1>9, <1>10, <1>12, <1>13 DEF Ops

-----------------------------------------------------------------------------
(* One job at a time.                                                      *)

(* A job moves on: it was the one at work, or nobody was. *)
LEMMA OneJobMoves ==
  ASSUME VaultInv, NEW j \in Jobs, NEW k \in Task \union {Idle},
         job' = [job EXCEPT ![j] = k], job[j] # Idle \/ (Free /\ up), up' = up
  PROVE  /\ job' \in [Jobs -> Task \union {Idle}] /\ OneAtATime' /\ up
         /\ job'[j] = k /\ \A i \in Jobs : i # j => job'[i] = Idle
<1>1. job \in [Jobs -> Task \union {Idle}] /\ OneAtATime
  BY DEF VaultInv, WorkTypeOK
<1>2. up
  BY <1>1 DEF OneAtATime, Free
<1>3. \A i \in Jobs : i # j => job[i] = Idle
  BY <1>1 DEF OneAtATime, Free
<1>4. job' \in [Jobs -> Task \union {Idle}] /\ job'[j] = k
      /\ \A i \in Jobs : i # j => job'[i] = Idle
  BY <1>1, <1>3
<1>5. OneAtATime'
  BY <1>2, <1>4 DEF OneAtATime
<1>6. QED
  BY <1>2, <1>4, <1>5

(* A task is none of the idle. *)
LEMMA TasksAreAtWork ==
  ASSUME NEW k \in Task
  PROVE  k # Idle /\ k.op \in Ops /\ k.id \in Rows
BY DEF Task, Idle, Ops

(* A job begins with the rows as they are. *)
LEMMA BeginningKeeps ==
  ASSUME VaultAssumption, VaultInv, NEW j \in Jobs, NEW op \in Ops, NEW id \in Rows,
         NEW label \in Labels \union {None}, Begins(j, op, id, label),
         op = "connect" => registry.keys[id] = None /\ label \in Labels /\ NameIsFree(label),
         op # "connect" => registry.keys[id] # None
  PROVE  VaultInv'
<1>0. PICK k : k = [op |-> op, at |-> "open", id |-> id, label |-> label,
                    doc |-> registry, vault |-> {}, ref |-> None]
  OBVIOUS
<1>1. k \in Task /\ k # Idle
  <2>1. registry \in Registry
    BY DEF VaultInv, WorkTypeOK
  <2>2. k \in Task
    BY <1>0, <2>1 DEF Task
  <2>3. QED
    BY <2>2, TasksAreAtWork
<1>2. /\ job' = [job EXCEPT ![j] = k] /\ up /\ Free
      /\ UNCHANGED <<vault, registry, damaged, aside, minted, up, deaths, refusals>>
  BY <1>0 DEF Begins
<1>3. ReadsStillStand(k)
  BY <1>0 DEF ReadsStillStand
<1>4. k.at = "open"
  BY <1>0
<1>5. /\ job' \in [Jobs -> Task \union {Idle}] /\ OneAtATime'
      /\ job'[j] = k /\ \A i \in Jobs : i # j => job'[i] = Idle
  BY <1>1, <1>2, OneJobMoves
<1>6. WorkTypeOK'
  BY <1>2, <1>5 DEF VaultInv, WorkTypeOK
<1>7. RefsStandOnce' /\ NamesAreHeldOnce'
  BY <1>2 DEF VaultInv, RefsStandOnce, NamesAreHeldOnce
<1>8. refusals = 0 => ReachedOrAboutToBe(k)
  BY <1>2, <1>4 DEF VaultInv, NoSecretIsOrphaned, ReachedOrAboutToBe
<1>9. WorkHolds'
  <2>1. ReadsStillStand(k)' /\ (refusals' = 0 => ReachedOrAboutToBe(k)')
    BY <1>2, <1>3, <1>8 DEF ReadsStillStand, ReachedOrAboutToBe, NameIsFree
  <2>2. QED
    BY <1>5, <2>1 DEF WorkHolds
<1>10. NoSecretIsOrphaned'
  BY <1>1, <1>5 DEF NoSecretIsOrphaned, Free
<1>11. QED
  BY <1>5, <1>6, <1>7, <1>9, <1>10 DEF VaultInv

(* What the invariant says of the job at work. *)
LEMMA AtWork ==
  ASSUME VaultInv, NEW j \in Jobs, job[j] # Idle
  PROVE  /\ job[j] \in Task /\ up /\ job[j].op \in Ops /\ job[j].id \in Rows
         /\ ReadsStillStand(job[j]) /\ (refusals = 0 => ReachedOrAboutToBe(job[j]))
BY TasksAreAtWork DEF VaultInv, WorkTypeOK, WorkHolds, OneAtATime, Free

(* Opening reads the vault and mints what no row names. *)
LEMMA OpeningKeeps ==
  ASSUME VaultAssumption, VaultInv, NEW j \in Jobs, Open(j)
  PROVE  VaultInv'
<1>1. /\ job[j] # Idle /\ job[j] \in Task /\ ReadsStillStand(job[j]) /\ up
      /\ (refusals = 0 => ReachedOrAboutToBe(job[j])) /\ job[j].at = "open"
      /\ MaxRefs \in Nat /\ minted \in 0..MaxRefs /\ vault \subseteq Refs
  BY AtWork DEF Open, VaultInv, WorkTypeOK, VaultAssumption
<1>2. PICK k : k = [job[j] EXCEPT !.at = "save", !.vault = vault,
                                  !.ref = IF Mints(job[j].op) THEN minted + 1 ELSE None]
  OBVIOUS
<1>3. /\ job' = [job EXCEPT ![j] = k]
      /\ minted' = IF Mints(job[j].op) THEN minted + 1 ELSE minted
      /\ Mints(job[j].op) => minted < MaxRefs
      /\ UNCHANGED <<vault, registry, damaged, aside, up, deaths, refusals>>
  BY <1>2 DEF Open
<1>4. /\ k.op = job[j].op /\ k.id = job[j].id /\ k.label = job[j].label
      /\ k.doc = job[j].doc /\ k.at = "save" /\ k.vault = vault
      /\ k.ref = IF Mints(job[j].op) THEN minted + 1 ELSE None
  BY <1>1, <1>2 DEF Task
<1>5. k \in Task /\ minted' \in 0..MaxRefs /\ minted' >= minted
      /\ (Mints(k.op) => k.ref \in Refs /\ k.ref = minted + 1 /\ k.ref = minted')
  <2>1. CASE Mints(job[j].op)
    <3>1. k.ref \in Refs /\ k.ref = minted + 1 /\ minted' = minted + 1
      BY <1>1, <1>3, <1>4, <2>1 DEF Refs
    <3>2. k \in Task
      BY <1>1, <1>2, <1>4, <3>1 DEF Task
    <3>3. QED
      BY <1>1, <1>3, <1>4, <2>1, <3>1, <3>2
  <2>2. CASE ~Mints(job[j].op)
    <3>1. k.ref = None
      BY <1>4, <2>2
    <3>2. k \in Task
      BY <1>1, <1>2, <1>4, <3>1 DEF Task
    <3>3. QED
      BY <1>1, <1>3, <1>4, <2>2, <3>2
  <2>3. QED
    BY <2>1, <2>2
<1>6. k # Idle
  BY <1>5, TasksAreAtWork
<1>7. /\ job' \in [Jobs -> Task \union {Idle}] /\ OneAtATime'
      /\ job'[j] = k /\ \A i \in Jobs : i # j => job'[i] = Idle
  BY <1>1, <1>3, <1>5, OneJobMoves
<1>8. WorkTypeOK'
  BY <1>3, <1>5, <1>7 DEF VaultInv, WorkTypeOK
<1>9. \A a \in Standing(registry) : \A r \in VaultRefsOf(registry.keys[a]) :
         r \in Nat /\ r <= minted
  <2>1. ASSUME NEW a \in Standing(registry), NEW r \in VaultRefsOf(registry.keys[a])
        PROVE  r \in Nat /\ r <= minted
    <3>1. registry.keys[a] \in KeyRow
      BY DEF VaultInv, WorkTypeOK, Registry, Standing
    <3>2. r \in Refs
      BY <3>1 DEF VaultRefsOf, KeyRow
    <3>3. QED
      BY <3>2 DEF VaultInv, RefsStandOnce, Refs
  <2>2. QED
    BY <2>1
<1>10. RefsStandOnce'
  <2>1. ASSUME NEW a \in Standing(registry)
        PROVE  /\ registry.keys[a].ref # registry.keys[a].reader
               /\ \A r \in VaultRefsOf(registry.keys[a]) : r <= minted'
               /\ \A b \in Standing(registry) : a # b =>
                    VaultRefsOf(registry.keys[a]) \cap VaultRefsOf(registry.keys[b]) = {}
    <3>1. \A r \in VaultRefsOf(registry.keys[a]) : r <= minted'
      BY <1>1, <1>5, <1>9
    <3>2. QED
      BY <3>1 DEF VaultInv, RefsStandOnce
  <2>2. QED
    BY <1>3, <2>1 DEF RefsStandOnce
<1>11. NamesAreHeldOnce'
  BY <1>3 DEF VaultInv, NamesAreHeldOnce
<1>12. ReadsStillStand(k)'
  <2>1. Mints(k.op) => \A id \in Standing(registry) : k.ref \notin VaultRefsOf(registry.keys[id])
    BY <1>1, <1>5, <1>9
  <2>2. Mints(k.op) => k.ref \in Refs /\ k.ref <= minted'
    BY <1>1, <1>5
  <2>3. QED
    BY <1>1, <1>3, <1>4, <2>1, <2>2 DEF ReadsStillStand, NameIsFree
<1>13. refusals' = 0 => ReachedOrAboutToBe(k)'
  BY <1>1, <1>3, <1>4 DEF ReachedOrAboutToBe
<1>14. WorkHolds'
  BY <1>7, <1>12, <1>13 DEF WorkHolds
<1>15. NoSecretIsOrphaned'
  BY <1>6, <1>7 DEF NoSecretIsOrphaned, Free
<1>16. QED
  BY <1>7, <1>8, <1>10, <1>11, <1>14, <1>15 DEF VaultInv

(* The vault is saved ahead of the registry. *)
LEMMA SavingKeeps ==
  ASSUME VaultAssumption, VaultInv, NEW j \in Jobs, Save(j)
  PROVE  VaultInv'
<1>1. /\ job[j] # Idle /\ job[j] \in Task /\ ReadsStillStand(job[j]) /\ up
      /\ job[j].at = "save" /\ vault \subseteq Refs
  BY AtWork DEF Save, VaultInv, WorkTypeOK
<1>2. PICK k : k = [job[j] EXCEPT !.at = "amend"]
  OBVIOUS
<1>3. /\ job' = [job EXCEPT ![j] = k] /\ vault' = Sealed(job[j])
      /\ UNCHANGED <<registry, damaged, aside, minted, up, deaths, refusals>>
  BY <1>2 DEF Save
<1>4. /\ k.op = job[j].op /\ k.id = job[j].id /\ k.label = job[j].label
      /\ k.doc = job[j].doc /\ k.at = "amend" /\ k.ref = job[j].ref /\ k \in Task
  BY <1>1, <1>2 DEF Task
<1>5. k # Idle
  BY <1>4, TasksAreAtWork
<1>6. /\ job' \in [Jobs -> Task \union {Idle}] /\ OneAtATime'
      /\ job'[j] = k /\ \A i \in Jobs : i # j => job'[i] = Idle
  BY <1>1, <1>3, <1>4, OneJobMoves
<1>7. vault' \subseteq Refs
  <2>1. job[j].vault = vault /\ (Mints(job[j].op) => job[j].ref \in Refs)
    BY <1>1 DEF ReadsStillStand
  <2>2. job[j].op \in Ops
    BY <1>1, TasksAreAtWork
  <2>3. QED
    BY <1>1, <1>3, <2>1, <2>2 DEF Sealed, Mints, Ops
<1>8. WorkTypeOK'
  BY <1>3, <1>6, <1>7 DEF VaultInv, WorkTypeOK
<1>9. RefsStandOnce' /\ NamesAreHeldOnce'
  BY <1>3 DEF VaultInv, RefsStandOnce, NamesAreHeldOnce
<1>10. ReadsStillStand(k)'
  BY <1>1, <1>3, <1>4 DEF ReadsStillStand, NameIsFree
<1>11. refusals' = 0 => ReachedOrAboutToBe(k)'
  <2>1. Amended(k, registry) = Amended(job[j], registry)
    BY <1>4 DEF Amended
  <2>2. refusals = 0 => Sealed(job[j]) \subseteq RefsReached(Amended(job[j], registry))
    BY <1>1, SealedIsReached
  <2>3. QED
    BY <1>3, <1>4, <2>1, <2>2 DEF ReachedOrAboutToBe
<1>12. WorkHolds'
  BY <1>6, <1>10, <1>11 DEF WorkHolds
<1>13. NoSecretIsOrphaned'
  BY <1>5, <1>6 DEF NoSecretIsOrphaned, Free
<1>14. QED
  BY <1>6, <1>8, <1>9, <1>12, <1>13 DEF VaultInv

(* A refused write ends the job, and counts. *)
LEMMA RefusingKeeps ==
  ASSUME VaultInv, NEW j \in Jobs, Refused(j)
  PROVE  VaultInv'
<1>1. /\ job' = [job EXCEPT ![j] = Idle] /\ job[j] # Idle
      /\ refusals' = refusals + 1 /\ refusals \in Nat
      /\ UNCHANGED <<vault, registry, damaged, aside, minted, up, deaths>>
  BY DEF Refused, VaultInv, WorkTypeOK
<1>2. /\ job' \in [Jobs -> Task \union {Idle}] /\ OneAtATime'
      /\ job'[j] = Idle /\ \A i \in Jobs : i # j => job'[i] = Idle
  BY <1>1, OneJobMoves
<1>3. refusals' \in Nat /\ refusals' # 0
  BY <1>1
<1>4. WorkTypeOK' /\ RefsStandOnce' /\ NamesAreHeldOnce'
  BY <1>1, <1>2, <1>3 DEF VaultInv, WorkTypeOK, RefsStandOnce, NamesAreHeldOnce
<1>5. WorkHolds'
  BY <1>2 DEF WorkHolds
<1>6. NoSecretIsOrphaned'
  BY <1>3 DEF NoSecretIsOrphaned
<1>7. QED
  BY <1>2, <1>4, <1>5, <1>6 DEF VaultInv

(* The row that is amended: what it names stood there or was just minted,    *)
(* and its name stood there or was found free.                              *)
LEMMA TheAmendedRow ==
  ASSUME VaultAssumption, VaultInv, NEW j \in Jobs, job[j] # Idle, job[j].at = "amend",
         NEW new, new = Amended(job[j], registry), new.keys[job[j].id] # None
  PROVE  /\ new.keys[job[j].id].ref # new.keys[job[j].id].reader
         /\ \A r \in VaultRefsOf(new.keys[job[j].id]) :
               /\ r <= minted
               /\ \A b \in Standing(registry) :
                     b # job[j].id => r \notin VaultRefsOf(registry.keys[b])
         /\ \A b \in Standing(registry) :
               b # job[j].id => registry.keys[b].label # new.keys[job[j].id].label
<1> DEFINE k == job[j]
<1> DEFINE id == job[j].id
<1> DEFINE row == new.keys[id]
<1> DEFINE old == registry.keys[id]
<1>1. /\ k \in Task /\ registry \in Registry /\ k.op \in Ops /\ id \in Rows
      /\ ReadsStillStand(k) /\ registry.keys \in [Rows -> KeyRow \union {None}]
  BY AtWork DEF VaultInv, WorkTypeOK, Registry
<1>2. /\ k.op = "connect" => row = [label |-> k.label, ref |-> k.ref, reader |-> None]
      /\ k.op = "setReader" => row = [old EXCEPT !.reader = k.ref]
      /\ k.op = "clearReader" => row = [old EXCEPT !.reader = None]
      /\ k.op # "remove"
  <2>1. Amendable(k, registry)
    BY <1>1 DEF ReadsStillStand, Amendable
  <2>2. AmendsOnly(k, registry, new)
    BY <1>1, <2>1, AmendedRows
  <2>3. QED
    BY <2>2 DEF AmendsOnly
<1>3. /\ Mints(k.op) => /\ k.ref \in Refs /\ k.ref <= minted
                        /\ \A b \in Standing(registry) : k.ref \notin VaultRefsOf(registry.keys[b])
      /\ k.op = "connect" => NameIsFree(k.label)
      /\ k.op # "connect" => id \in Standing(registry)
  BY <1>1 DEF ReadsStillStand, Standing
<1>4. None \notin Refs /\ None \notin KeyRow
  BY DEF VaultAssumption
<1> HIDE DEF k, id, row, old
<1>5. CASE k.op = "connect"
  <2>1. row.ref = k.ref /\ row.reader = None /\ row.label = k.label
    BY <1>2, <1>5
  <2>2. k.ref \in Refs /\ Mints(k.op) /\ VaultRefsOf(row) = {k.ref}
    BY <1>3, <1>5, <2>1 DEF Mints, VaultRefsOf
  <2>3. \A b \in Standing(registry) : registry.keys[b].label # row.label
    BY <1>3, <1>5, <2>1 DEF NameIsFree
  <2>4. row.ref # row.reader
    BY <1>4, <2>1, <2>2
  <2>5. QED
    BY <1>3, <2>2, <2>3, <2>4 DEF k, id, row
<1>6. ASSUME k.op # "connect"
      PROVE  /\ id \in Standing(registry) /\ old \in KeyRow /\ old.ref # old.reader
             /\ \A r \in VaultRefsOf(old) :
                   /\ r <= minted
                   /\ \A b \in Standing(registry) : b # id => r \notin VaultRefsOf(registry.keys[b])
             /\ \A b \in Standing(registry) : b # id => registry.keys[b].label # old.label
  <2>1. id \in Standing(registry)
    BY <1>3, <1>6
  <2>2. old \in KeyRow
    BY <1>1, <2>1 DEF Standing, old, id
  <2>3. QED
    BY <2>1, <2>2 DEF VaultInv, RefsStandOnce, NamesAreHeldOnce, old
<1>7. CASE k.op = "setReader"
  <2>1. row.ref = old.ref /\ row.reader = k.ref /\ row.label = old.label
    BY <1>2, <1>6, <1>7 DEF KeyRow
  <2>2. /\ Mints(k.op) /\ VaultRefsOf(row) \subseteq VaultRefsOf(old) \union {k.ref}
    BY <1>7, <2>1 DEF Mints, VaultRefsOf
  <2>3. k.ref \notin VaultRefsOf(old) /\ old.ref \in VaultRefsOf(old)
    BY <1>3, <1>6, <1>7, <2>2 DEF VaultRefsOf, old
  <2>4. row.ref # row.reader
    BY <2>1, <2>3
  <2>5. QED
    BY <1>3, <1>6, <1>7, <2>1, <2>2, <2>4 DEF k, id, row
<1>8. CASE k.op = "clearReader"
  <2>1. row.ref = old.ref /\ row.reader = None /\ row.label = old.label
    BY <1>2, <1>6, <1>8 DEF KeyRow
  <2>2. VaultRefsOf(row) \subseteq VaultRefsOf(old)
    BY <2>1 DEF VaultRefsOf
  <2>3. row.ref # row.reader
    BY <1>4, <1>6, <1>8, <2>1 DEF KeyRow
  <2>4. QED
    BY <1>6, <1>8, <2>1, <2>2, <2>3 DEF k, id, row
<1>9. QED
  BY <1>1, <1>2, <1>5, <1>7, <1>8 DEF Ops

(* The registry is amended: the rows reach what was saved ahead of it. *)
LEMMA AmendingKeeps ==
  ASSUME VaultAssumption, VaultInv, NEW j \in Jobs, Amend(j)
  PROVE  VaultInv'
<1> DEFINE id == job[j].id
<1>1. /\ job[j] # Idle /\ job[j].at = "amend" /\ job[j] \in Task /\ ReadsStillStand(job[j])
      /\ job' = [job EXCEPT ![j] = Idle]
      /\ UNCHANGED <<vault, damaged, aside, minted, up, deaths, refusals>>
      /\ (refusals = 0 => ReachedOrAboutToBe(job[j]))
      /\ id \in Rows /\ registry \in Registry
  BY AtWork DEF Amend, VaultInv, WorkTypeOK
<1>2. PICK new : new = Amended(job[j], registry)
  OBVIOUS
<1>3. registry' = new
  BY <1>2 DEF Amend, Written
<1>4. new \in Registry /\ \A x \in Rows : x # id => new.keys[x] = registry.keys[x]
  <2>1. Amendable(job[j], registry)
    BY <1>1 DEF ReadsStillStand, Amendable
  <2>2. AmendsOnly(job[j], registry, new)
    BY <1>1, <1>2, <2>1, AmendedRows
  <2>3. QED
    BY <2>2 DEF AmendsOnly
<1>5. new.keys[id] # None =>
         /\ new.keys[id].ref # new.keys[id].reader
         /\ \A r \in VaultRefsOf(new.keys[id]) :
               /\ r <= minted
               /\ \A b \in Standing(registry) : b # id => r \notin VaultRefsOf(registry.keys[b])
         /\ \A b \in Standing(registry) :
               b # id => registry.keys[b].label # new.keys[id].label
  BY <1>1, <1>2, TheAmendedRow
<1>6. /\ job' \in [Jobs -> Task \union {Idle}] /\ OneAtATime'
      /\ job'[j] = Idle /\ \A i \in Jobs : i # j => job'[i] = Idle
  BY <1>1, OneJobMoves
<1>7. WorkTypeOK'
  BY <1>1, <1>3, <1>4, <1>6 DEF VaultInv, WorkTypeOK
<1> HIDE DEF id
<1>8. \A x \in Standing(new) :
         x \in Rows /\ (x # id => x \in Standing(registry) /\ new.keys[x] = registry.keys[x])
  BY <1>4 DEF Standing
<1>9. id \in Standing(new) => new.keys[id] # None
  BY DEF Standing
<1>10. RefsStandOnce'
  <2>1. ASSUME NEW a \in Standing(new)
        PROVE  /\ new.keys[a].ref # new.keys[a].reader
               /\ \A r \in VaultRefsOf(new.keys[a]) : r <= minted
               /\ \A b \in Standing(new) : a # b =>
                     VaultRefsOf(new.keys[a]) \cap VaultRefsOf(new.keys[b]) = {}
    <3>1. CASE a = id
      <4>1. \A b \in Standing(new) : a # b =>
               VaultRefsOf(new.keys[a]) \cap VaultRefsOf(new.keys[b]) = {}
        BY <1>5, <1>8, <1>9, <3>1
      <4>2. QED
        BY <1>5, <1>9, <3>1, <4>1
    <3>2. CASE a # id
      <4>1. a \in Standing(registry) /\ new.keys[a] = registry.keys[a]
        BY <1>8, <3>2
      <4>2. ASSUME NEW b \in Standing(new), a # b
            PROVE  VaultRefsOf(new.keys[a]) \cap VaultRefsOf(new.keys[b]) = {}
        <5>1. CASE b = id
          BY <1>5, <1>9, <3>2, <4>1, <5>1
        <5>2. CASE b # id
          BY <1>8, <4>1, <4>2, <5>2 DEF VaultInv, RefsStandOnce
        <5>3. QED
          BY <5>1, <5>2
      <4>3. QED
        BY <4>1, <4>2 DEF VaultInv, RefsStandOnce
    <3>3. QED
      BY <3>1, <3>2
  <2>2. QED
    BY <1>1, <1>3, <2>1 DEF RefsStandOnce
<1>11. NamesAreHeldOnce'
  <2>1. ASSUME NEW a \in Standing(new), NEW b \in Standing(new),
               new.keys[a].label = new.keys[b].label
        PROVE  a = b
    <3>1. CASE a = id \/ b = id
      BY <1>5, <1>8, <1>9, <2>1, <3>1
    <3>2. CASE a # id /\ b # id
      BY <1>8, <2>1, <3>2 DEF VaultInv, NamesAreHeldOnce
    <3>3. QED
      BY <3>1, <3>2
  <2>2. QED
    BY <1>3, <2>1 DEF NamesAreHeldOnce
<1>12. WorkHolds'
  BY <1>6 DEF WorkHolds
<1>13. NoSecretIsOrphaned'
  BY <1>1, <1>2, <1>3 DEF ReachedOrAboutToBe, NoSecretIsOrphaned
<1>14. QED
  BY <1>6, <1>7, <1>10, <1>11, <1>12, <1>13 DEF VaultInv

(* A sign-in adds its row outside the order, and touches no key. *)
LEMMA SigningInKeeps ==
  ASSUME VaultAssumption, VaultInv, NEW p \in Plans, SignIn(p)
  PROVE  VaultInv'
<1>1. /\ UNCHANGED <<vault, damaged, aside, job, minted, up, deaths, refusals>> /\ up
      /\ registry' = [registry EXCEPT !.plans = @ \union {p}] /\ registry \in Registry
  BY DEF SignIn, VaultInv, WorkTypeOK
<1>2. registry' \in Registry /\ registry'.keys = registry.keys
  BY <1>1 DEF Registry
<1>3. Standing(registry') = Standing(registry) /\ RefsReached(registry') = RefsReached(registry)
  BY <1>1, <1>2, PlansReachNothing
<1>4. WorkTypeOK' /\ OneAtATime'
  BY <1>1, <1>2 DEF VaultInv, WorkTypeOK, OneAtATime, Free
<1>5. RefsStandOnce' /\ NamesAreHeldOnce'
  BY <1>1, <1>2, <1>3 DEF VaultInv, RefsStandOnce, NamesAreHeldOnce
<1>6. NoSecretIsOrphaned'
  BY <1>1, <1>3 DEF VaultInv, NoSecretIsOrphaned, Free
<1>7. ASSUME NEW j \in Jobs, job[j] # Idle
      PROVE  ReadsStillStand(job[j])' /\ (refusals = 0 => ReachedOrAboutToBe(job[j])')
  <2>1. /\ job[j] \in Task /\ ReadsStillStand(job[j]) /\ job[j].op \in Ops
        /\ (refusals = 0 => ReachedOrAboutToBe(job[j])) /\ job[j].id \in Rows
    BY <1>7, AtWork
  <2>2. ReadsStillStand(job[j])'
    BY <1>1, <1>2, <1>3, <2>1 DEF ReadsStillStand, NameIsFree
  <2>3. CASE job[j].at = "amend"
    <3>1. PICK a : a = Amended(job[j], registry)
      OBVIOUS
    <3>2. PICK b : b = Amended(job[j], registry')
      OBVIOUS
    <3>3. Amendable(job[j], registry) /\ Amendable(job[j], registry')
      BY <1>2, <2>1, <2>3 DEF ReadsStillStand, Amendable
    <3>4. a \in Registry /\ b \in Registry /\ \A x \in Rows : a.keys[x] = b.keys[x]
      <4>1. AmendsOnly(job[j], registry, a)
        BY <1>1, <2>1, <3>1, <3>3, AmendedRows
      <4>2. AmendsOnly(job[j], registry', b)
        BY <1>2, <2>1, <3>2, <3>3, AmendedRows
      <4>3. a.keys[job[j].id] = b.keys[job[j].id]
        BY <1>2, <2>1, <4>1, <4>2 DEF AmendsOnly, Ops
      <4>4. QED
        BY <1>2, <4>1, <4>2, <4>3 DEF AmendsOnly
    <3>5. a.keys = b.keys
      BY <3>4 DEF Registry
    <3>6. RefsReached(a) = RefsReached(b)
      BY <3>4, <3>5, PlansReachNothing
    <3>7. refusals = 0 => ReachedOrAboutToBe(job[j])'
      BY <1>1, <2>1, <2>3, <3>1, <3>2, <3>6 DEF ReachedOrAboutToBe
    <3>8. QED
      BY <2>2, <3>7
  <2>4. CASE job[j].at # "amend"
    BY <1>1, <1>3, <2>1, <2>2, <2>4 DEF ReachedOrAboutToBe
  <2>5. QED
    BY <2>3, <2>4
<1>8. WorkHolds'
  BY <1>1, <1>7 DEF WorkHolds
<1>9. QED
  BY <1>4, <1>5, <1>6, <1>8 DEF VaultInv

(* The app dies with what it was at, and boots with nobody at work.          *)
LEMMA DyingKeeps ==
  ASSUME VaultInv, Die \/ Damage
  PROVE  VaultInv'
<1>1. /\ UNCHANGED <<vault, registry, aside, minted, refusals>>
      /\ \A j \in Jobs : job'[j] = Idle
      /\ job' \in [Jobs -> Task \union {Idle}] /\ up' = FALSE /\ damaged' \in BOOLEAN
  <2>1. CASE Die
    BY <2>1 DEF Die, VaultInv, WorkTypeOK
  <2>2. CASE Damage
    BY <2>2 DEF Damage, VaultInv, WorkTypeOK, OneAtATime, Free
  <2>3. QED
    BY <2>1, <2>2
<1>2. WorkTypeOK'
  BY <1>1 DEF VaultInv, WorkTypeOK
<1>3. OneAtATime' /\ WorkHolds' /\ NoSecretIsOrphaned'
  BY <1>1 DEF OneAtATime, Free, WorkHolds, NoSecretIsOrphaned
<1>4. RefsStandOnce' /\ NamesAreHeldOnce'
  BY <1>1 DEF VaultInv, RefsStandOnce, NamesAreHeldOnce
<1>5. QED
  BY <1>2, <1>3, <1>4 DEF VaultInv

(* A registry in which nothing stands. *)
LEMMA NothingStands ==
  EmptyRegistry \in Registry /\ Standing(EmptyRegistry) = {} /\ RefsReached(EmptyRegistry) = {}
BY DEF EmptyRegistry, Registry, Standing, RefsReached

(* What boot sweeps no row reaches, so that all that is left is reached. *)
LEMMA BootingKeeps ==
  ASSUME VaultInv, Boot
  PROVE  VaultInv'
<1>1. /\ up' = TRUE /\ registry' = Loaded /\ damaged' = FALSE /\ job' = job /\ minted' = minted
      /\ aside' = (IF damaged THEN aside \union RefsReached(registry) ELSE aside)
      /\ vault' = vault \ Swept(Loaded) /\ refusals' = 0
  BY DEF Boot
<1>2. \A j \in Jobs : job[j] = Idle
  BY DEF VaultInv, OneAtATime, Free, Boot
<1>3. Loaded \in Registry /\ (Loaded = registry \/ Loaded = EmptyRegistry)
  BY NothingStands DEF Loaded, VaultInv, WorkTypeOK
<1>4. RefsReached(registry) \subseteq Refs
  <2>1. ASSUME NEW v \in RefsReached(registry)
        PROVE  v \in Refs
    <3>1. PICK id \in Standing(registry) : v \in VaultRefsOf(registry.keys[id])
      BY Reaching
    <3>2. registry.keys[id] \in KeyRow
      BY DEF VaultInv, WorkTypeOK, Registry, Standing
    <3>3. QED
      BY <3>1, <3>2 DEF VaultRefsOf, KeyRow
  <2>2. QED
    BY <2>1
<1>5. WorkTypeOK'
  BY <1>1, <1>3, <1>4 DEF VaultInv, WorkTypeOK
<1>6. OneAtATime' /\ WorkHolds'
  BY <1>1, <1>2 DEF OneAtATime, Free, WorkHolds
<1>7. RefsStandOnce' /\ NamesAreHeldOnce'
  <2>1. CASE Loaded = registry
    BY <1>1, <2>1 DEF VaultInv, RefsStandOnce, NamesAreHeldOnce
  <2>2. CASE Loaded = EmptyRegistry
    <3>1. registry' = EmptyRegistry
      BY <1>1, <2>2
    <3>2. Standing(registry') = {}
      BY <3>1, NothingStands
    <3>3. QED
      BY <3>2 DEF RefsStandOnce, NamesAreHeldOnce
  <2>3. QED
    BY <1>3, <2>1, <2>2
<1>8. NoSecretIsOrphaned'
  BY <1>1 DEF NoSecretIsOrphaned, Swept
<1>9. QED
  BY <1>5, <1>6, <1>7, <1>8 DEF VaultInv

LEMMA VaultStarts == VaultAssumption /\ Init => VaultInv
<1> SUFFICES ASSUME VaultAssumption, Init PROVE VaultInv
  OBVIOUS
<1>1. /\ vault = {} /\ registry = EmptyRegistry /\ damaged = FALSE /\ aside = {}
      /\ job = [j \in Jobs |-> Idle] /\ minted = 0 /\ up = TRUE /\ refusals = 0
  BY DEF Init
<1>2. WorkTypeOK
  <2>1. 0 \in 0..MaxRefs /\ 0 \in Nat
    BY DEF VaultAssumption
  <2>2. job \in [Jobs -> Task \union {Idle}]
    BY <1>1
  <2>3. QED
    BY <1>1, <2>1, <2>2, NothingStands DEF WorkTypeOK
<1>3. OneAtATime /\ WorkHolds /\ NoSecretIsOrphaned
  BY <1>1 DEF OneAtATime, WorkHolds, NoSecretIsOrphaned
<1>4. RefsStandOnce /\ NamesAreHeldOnce
  BY <1>1, NothingStands DEF RefsStandOnce, NamesAreHeldOnce
<1>5. QED
  BY <1>2, <1>3, <1>4 DEF VaultInv

(* Every step of the vault and its registry. *)
LEMMA VaultSteps ==
  ASSUME VaultAssumption, VaultInv, [Next]_vars
  PROVE  VaultInv'
<1>1. ASSUME NEW j \in Jobs, Asked(j)
      PROVE  VaultInv'
  <2>1. ASSUME NEW id \in Rows, NEW label \in Labels, Connect(j, id, label)
        PROVE  VaultInv'
    BY <2>1, BeginningKeeps DEF Connect, Ops
  <2>2. ASSUME NEW id \in Rows, Remove(j, id) \/ SetReader(j, id) \/ ClearReader(j, id)
        PROVE  VaultInv'
    BY <2>2, BeginningKeeps DEF Remove, SetReader, ClearReader, Ops
  <2>3. QED
    BY <1>1, <2>1, <2>2 DEF Asked
<1>2. ASSUME NEW j \in Jobs, Asked(j) \/ Open(j) \/ Save(j) \/ Amend(j) \/ Refused(j)
      PROVE  VaultInv'
  BY <1>1, <1>2, OpeningKeeps, SavingKeeps, AmendingKeeps, RefusingKeeps
<1>3. CASE UNCHANGED vars
  BY <1>3 DEF vars, VaultInv, WorkTypeOK, OneAtATime, Free, RefsStandOnce, NamesAreHeldOnce,
              WorkHolds, ReadsStillStand, ReachedOrAboutToBe, NameIsFree, NoSecretIsOrphaned
<1>4. QED
  BY <1>2, <1>3, SigningInKeeps, DyingKeeps, BootingKeeps DEF Next

-----------------------------------------------------------------------------
(* vault-order.ts, vault-reconcile.ts.                                     *)

(* Every state is one the files can hold, and every job one that was asked. *)
THEOREM VaultIsTyped == VaultAssumption /\ Spec => []VaultTypeOK
<1>1. VaultAssumption /\ VaultInv /\ [Next]_vars => VaultInv'
  BY VaultSteps
<1>2. VaultInv => VaultTypeOK
  <2> SUFFICES ASSUME VaultInv PROVE VaultTypeOK
    OBVIOUS
  <2>1. \A j \in Jobs : job[j] # Idle => job[j] \in Task
    BY DEF VaultInv, WorkTypeOK
  <2>2. QED
    BY <2>1 DEF VaultInv, WorkTypeOK, VaultTypeOK, Task
<1>3. VaultAssumption => VaultAssumption'
  OBVIOUS
<1>4. QED
  BY VaultStarts, <1>1, <1>2, <1>3, PTL DEF Spec

(* An app at rest whose disk took every write since it booted holds no secret *)
(* that no row reaches, however often it died between the two writes before.  *)
THEOREM RestingVaultsAreReached == VaultAssumption /\ Spec => []NoSecretIsOrphaned
<1>1. VaultAssumption /\ VaultInv /\ [Next]_vars => VaultInv'
  BY VaultSteps
<1>2. VaultInv => NoSecretIsOrphaned
  BY DEF VaultInv
<1>3. VaultAssumption => VaultAssumption'
  OBVIOUS
<1>4. QED
  BY VaultStarts, <1>1, <1>2, <1>3, PTL DEF Spec

(* Two rows never hold one name: a name is found free by the job that is     *)
(* alone at work until it gives it.                                         *)
THEOREM NamesStandApart == VaultAssumption /\ Spec => []NamesAreHeldOnce
<1>1. VaultAssumption /\ VaultInv /\ [Next]_vars => VaultInv'
  BY VaultSteps
<1>2. VaultInv => NamesAreHeldOnce
  BY DEF VaultInv
<1>3. VaultAssumption => VaultAssumption'
  OBVIOUS
<1>4. QED
  BY VaultStarts, <1>1, <1>2, <1>3, PTL DEF Spec

(* What leaves the vault was no row's own secret, but for the removed row's. *)
LEMMA OnlyRemovalsDrop ==
  ASSUME VaultAssumption, VaultInv, [Next]_vars,
         NEW id \in Standing(registry), registry.keys[id].ref \in vault \ vault', ~damaged
  PROVE  \E j \in Jobs : job[j] # Idle /\ job[j].op = "remove" /\ job[j].id = id
<1> DEFINE r == registry.keys[id].ref
<1>1. registry.keys[id] \in KeyRow /\ id \in Rows /\ r \in VaultRefsOf(registry.keys[id])
  BY DEF VaultInv, WorkTypeOK, Registry, Standing, VaultRefsOf
<1>2. vault' # vault
  OBVIOUS
<1> HIDE DEF r
<1>3. ASSUME NEW j \in Jobs, Save(j)
      PROVE  job[j] # Idle /\ job[j].op = "remove" /\ job[j].id = id
  <2>1. /\ job[j] # Idle /\ job[j].op \in Ops /\ job[j].id \in Rows /\ job[j].at = "save"
        /\ ReadsStillStand(job[j]) /\ vault' = Sealed(job[j])
    BY <1>3, AtWork DEF Save
  <2>2. job[j].vault = vault /\ job[j].doc.keys = registry.keys
    BY <2>1 DEF ReadsStillStand
  <2>3. r \in vault /\ r \notin Sealed(job[j])
    BY <2>1 DEF r
  <2> DEFINE other == registry.keys[job[j].id]
  <2>4. job[j].op # "connect"
    BY <2>2, <2>3 DEF Sealed
  <2>5. job[j].id \in Standing(registry)
    BY <2>1, <2>4 DEF ReadsStillStand, Standing
  <2>6. other \in KeyRow
    BY <2>5 DEF VaultInv, WorkTypeOK, Registry, Standing
  <2>7. job[j].id # id => r \notin VaultRefsOf(other)
    BY <1>1, <2>5 DEF VaultInv, RefsStandOnce
  <2>8. r # None
    BY <1>1 DEF r, KeyRow, VaultAssumption
  <2>9. CASE job[j].op = "remove"
    <3>1. Sealed(job[j]) = job[j].vault \ VaultRefsOf(job[j].doc.keys[job[j].id])
      BY <2>9 DEF Sealed
    <3>2. r \in VaultRefsOf(other)
      BY <2>2, <2>3, <3>1
    <3>3. QED
      BY <2>1, <2>7, <2>9, <3>2
  <2>10. CASE job[j].op \in {"setReader", "clearReader"}
    <3>1. r = other.reader
      <4>1. job[j].vault \ {job[j].doc.keys[job[j].id].reader} \subseteq Sealed(job[j])
        BY <2>10 DEF Sealed
      <4>2. QED
        BY <2>2, <2>3, <4>1
    <3>2. r \in VaultRefsOf(other)
      BY <2>8, <3>1 DEF VaultRefsOf
    <3>3. job[j].id = id
      BY <2>7, <3>2
    <3>4. QED
      BY <2>5, <3>1, <3>3 DEF VaultInv, RefsStandOnce, r
  <2>11. QED
    BY <2>1, <2>4, <2>9, <2>10 DEF Ops
<1>4. ~Boot
  <2>1. ASSUME Boot
        PROVE  FALSE
    <3>1. vault' = vault \ (vault \ RefsReached(registry))
      BY <2>1 DEF Boot, Swept, Loaded
    <3>2. r \in RefsReached(registry)
      BY <1>1, Reaching
    <3>3. QED
      BY <3>1, <3>2 DEF r
  <2>2. QED
    BY <2>1
<1>5. ASSUME NEW j \in Jobs, Asked(j) \/ Open(j) \/ Amend(j) \/ Refused(j)
      PROVE  vault' = vault
  BY <1>5 DEF Asked, Connect, Remove, SetReader, ClearReader, Begins, Open, Amend, Refused
<1>6. \/ \E j \in Jobs : Save(j)
      \/ \E j \in Jobs : Asked(j) \/ Open(j) \/ Amend(j) \/ Refused(j)
      \/ (\E p \in Plans : SignIn(p)) \/ Die \/ Damage
  BY <1>2, <1>4 DEF Next, vars
<1>7. QED
  BY <1>2, <1>3, <1>5, <1>6 DEF SignIn, Die, Damage

(* A key a row spends is dropped by the removal of that row and by nothing   *)
(* else: not by another job, in whatever order they were asked, not by the   *)
(* sweep at boot, and not by a death between the two writes.                *)
THEOREM SpentKeysStand == VaultAssumption /\ Spec => SpendingSecretsStand
<1>1. VaultAssumption /\ VaultInv /\ [Next]_vars => VaultInv'
  BY VaultSteps
<1>2. VaultAssumption /\ VaultInv /\ [Next]_vars =>
         [\A id \in Standing(registry) :
             (registry.keys[id].ref \in vault \ vault' /\ ~damaged)
             => \E j \in Jobs : job[j] # Idle /\ job[j].op = "remove" /\ job[j].id = id]_vars
  BY OnlyRemovalsDrop
<1>3. VaultAssumption => VaultAssumption'
  OBVIOUS
<1>4. QED
  BY VaultStarts, <1>1, <1>2, <1>3, PTL DEF Spec, SpendingSecretsStand

(* A job at work while a person signs in amends the registry it finds, and   *)
(* the row the sign-in added stays.                                         *)
THEOREM SignInsOutliveJobs == VaultAssumption /\ Spec => SignInsAreKept
<1>1. VaultAssumption /\ VaultInv /\ [Next]_vars => VaultInv'
  BY VaultSteps
<1>2. VaultAssumption /\ VaultInv /\ [Next]_vars =>
         [~damaged => registry.plans \subseteq registry'.plans]_vars
  <2> SUFFICES ASSUME VaultAssumption, VaultInv, Next, ~damaged
               PROVE  registry.plans \subseteq registry'.plans
    OBVIOUS
  <2>1. registry' = registry => registry.plans \subseteq registry'.plans
    OBVIOUS
  <2>2. ASSUME NEW j \in Jobs, Amend(j)
        PROVE  registry.plans \subseteq registry'.plans
    <3>1. /\ job[j] \in Task /\ registry \in Registry /\ ReadsStillStand(job[j])
          /\ job[j].at = "amend" /\ registry' = Amended(job[j], registry)
      BY <2>2, AtWork DEF Amend, Written, VaultInv, WorkTypeOK
    <3>2. Amended(job[j], registry).plans = registry.plans
      <4>1. Amendable(job[j], registry)
        BY <3>1 DEF ReadsStillStand, Amendable
      <4>2. AmendsOnly(job[j], registry, Amended(job[j], registry))
        BY <3>1, <4>1, AmendedRows
      <4>3. QED
        BY <4>2 DEF AmendsOnly
    <3>3. QED
      BY <3>1, <3>2
  <2>3. ASSUME NEW p \in Plans, SignIn(p)
        PROVE  registry.plans \subseteq registry'.plans
    BY <2>3 DEF SignIn, VaultInv, WorkTypeOK, Registry
  <2>4. ASSUME NEW j \in Jobs, Asked(j) \/ Open(j) \/ Save(j) \/ Refused(j)
        PROVE  registry' = registry
    BY <2>4 DEF Asked, Connect, Remove, SetReader, ClearReader, Begins, Open, Save, Refused
  <2>5. Die \/ Damage \/ Boot => registry' = registry
    BY DEF Die, Damage, Boot, Loaded
  <2>6. QED
    BY <2>1, <2>2, <2>3, <2>4, <2>5 DEF Next
<1>3. VaultAssumption => VaultAssumption'
  OBVIOUS
<1>4. QED
  BY VaultStarts, <1>1, <1>2, <1>3, PTL DEF Spec, SignInsAreKept

(* Together: of every number of rows, names, plans and jobs, no secret is    *)
(* orphaned, dropped under its row or named twice, and no job erases the row *)
(* of a sign-in that came between.                                          *)
THEOREM VaultKeepsItsRegistry == VaultAssumption /\ Spec => VaultAndRegistryAgree
BY VaultIsTyped, RestingVaultsAreReached, NamesStandApart, SpentKeysStand, SignInsOutliveJobs
   DEF VaultAndRegistryAgree

=============================================================================
