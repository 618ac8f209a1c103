----------------------------- MODULE SpendGrants -----------------------------
(***************************************************************************)
(* One attempt's right to spend.  The child names the route node it is       *)
(* about to try; the main process reads the node's target, the account       *)
(* behind it and its secret, each from live storage and each in its turn,     *)
(* while a person rebinds nodes, connects keys and removes them; and what     *)
(* was resolved goes back to the child that asked.                           *)
(***************************************************************************)
EXTENDS Naturals, FiniteSets, TLAPS

CONSTANTS
    Asks,        \* the attempts
    Accounts,    \* accounts a node may name
    MaxRefs,     \* bound: secrets ever sealed
    MaxChildren, \* bound: children ever spawned
    MaxRebinds,  \* bound: times the node is bound anew
    None

GrantsAssumption ==
    /\ MaxRefs \in Nat /\ MaxChildren \in Nat \ {0} /\ MaxRebinds \in Nat
    /\ None \notin Accounts

VARIABLES
    target,  \* the account the route node names, None where no target stands
    row,     \* account |-> the reference its row names, 0 for no row
    vault,   \* the references a secret stands for
    sealed,  \* references minted so far
    lane,    \* the job of a person that has the vault's turn
    rebinds,
    child,   \* the child that lives
    ask,     \* what became of each attempt
    stood    \* attempt |-> what it could have spent at some moment since it asked

vars == <<target, row, vault, sealed, lane, rebinds, child, ask, stood>>
storage == <<target, row, vault, sealed, lane, rebinds>>

Refs == 1..MaxRefs
NoJob == [op |-> "none", account |-> None, ref |-> 0]
Nothing == [targets |-> {}, rows |-> {}]
Unasked == [at |-> "unasked", of |-> 0, account |-> None, ref |-> 0]

(* What an attempt may have met since it asked, kept up by every step.     *)
Open(n) == ask'[n].at \in {"asked", "account", "secret", "answered"}
Meets ==
    stood' = [n \in Asks |->
        IF ~Open(n) THEN Nothing
        ELSE [targets |-> stood[n].targets \union {target'},
              rows |-> stood[n].rows \union {<<a, row'[a]>> : a \in {b \in Accounts : row'[b] # 0}}]]

-----------------------------------------------------------------------------
(* The lane from the child to the vault and back.                          *)

Asked(n) ==
    /\ ask[n].at = "unasked"
    /\ ask' = [ask EXCEPT ![n] = [Unasked EXCEPT !.at = "asked", !.of = child]]
    /\ UNCHANGED <<storage, child>> /\ Meets

Answered(n, ref) == ask' = [ask EXCEPT ![n].at = "answered", ![n].ref = ref]

(* The node is read from the table of the stored gateway.                  *)
StoredTarget(n) ==
    /\ ask[n].at = "asked"
    /\ IF target = None THEN Answered(n, 0)
       ELSE ask' = [ask EXCEPT ![n].at = "account", ![n].account = target]
    /\ UNCHANGED <<storage, child>> /\ Meets

RowOf(n) == row[ask[n].account]

ReadsTheAccount(n) ==
    /\ ask[n].at = "account"
    /\ IF RowOf(n) = 0 THEN Answered(n, 0)
       ELSE ask' = [ask EXCEPT ![n].at = "secret", ![n].ref = RowOf(n)]
    /\ UNCHANGED <<storage, child>> /\ Meets

(* Mutant: an attempt is answered by whatever reference its row named.     *)
NamedIsHeld(n) == TRUE
SecretHeld(n) == ask[n].ref \in vault

(* The secret is read in the vault's order; a reference that is gone is    *)
(* answered as nothing to spend.                                           *)
HeldSecret(n) ==
    /\ ask[n].at = "secret" /\ lane = NoJob
    /\ Answered(n, IF SecretHeld(n) THEN ask[n].ref ELSE 0)
    /\ UNCHANGED <<storage, child>> /\ Meets

(* Storage that cannot be read is answered as nothing standing there.      *)
CannotRead(n) ==
    /\ ask[n].at \in {"asked", "account", "secret"}
    /\ Answered(n, 0)
    /\ UNCHANGED <<storage, child>> /\ Meets

(* Mutant: an answer whose asker is gone is kept for it.                   *)
SettlesAlive(n) ==
    /\ ask[n].at = "answered" /\ ask[n].of = child
    /\ ask' = [ask EXCEPT ![n] = [Unasked EXCEPT !.at = "settled"]]
    /\ UNCHANGED <<storage, child>> /\ Meets

(* The answer goes to the child that asked, and settles its one request.   *)
Settles(n) ==
    /\ ask[n].at = "answered"
    /\ ask' = [ask EXCEPT ![n] = [Unasked EXCEPT !.at = IF ask[n].of = child THEN "settled" ELSE "lost"]]
    /\ UNCHANGED <<storage, child>> /\ Meets

(* The child dies, its open requests with it, and another is spawned.      *)
ChildDies ==
    /\ child < MaxChildren
    /\ child' = child + 1
    /\ UNCHANGED <<storage, ask>> /\ Meets

-----------------------------------------------------------------------------
(* The person, one vault job at a time.                                    *)

Rebind(a) ==
    /\ rebinds < MaxRebinds /\ a # target
    /\ rebinds' = rebinds + 1 /\ target' = a
    /\ UNCHANGED <<row, vault, sealed, lane, child, ask>> /\ Meets

(* A key is connected: its secret is sealed, then its row written.         *)
Connect(a) ==
    /\ lane = NoJob /\ row[a] = 0 /\ sealed < MaxRefs
    /\ sealed' = sealed + 1
    /\ vault' = vault \union {sealed + 1}
    /\ lane' = [op |-> "connect", account |-> a, ref |-> sealed + 1]
    /\ UNCHANGED <<target, row, rebinds, child, ask>> /\ Meets

(* A key is removed: its secret goes, then its row.                        *)
Remove(a) ==
    /\ lane = NoJob /\ row[a] # 0
    /\ vault' = vault \ {row[a]}
    /\ lane' = [op |-> "remove", account |-> a, ref |-> 0]
    /\ UNCHANGED <<target, row, sealed, rebinds, child, ask>> /\ Meets

Amends ==
    /\ lane # NoJob
    /\ row' = [row EXCEPT ![lane.account] = lane.ref]
    /\ lane' = NoJob
    /\ UNCHANGED <<target, vault, sealed, rebinds, child, ask>> /\ Meets

-----------------------------------------------------------------------------

Init ==
    /\ target = None /\ row = [a \in Accounts |-> 0]
    /\ vault = {} /\ sealed = 0 /\ lane = NoJob /\ rebinds = 0
    /\ child = 1
    /\ ask = [n \in Asks |-> Unasked]
    /\ stood = [n \in Asks |-> Nothing]

Answers(n) == StoredTarget(n) \/ ReadsTheAccount(n) \/ HeldSecret(n) \/ CannotRead(n) \/ Settles(n)

Next ==
    \/ \E n \in Asks : Asked(n) \/ Answers(n)
    \/ ChildDies \/ Amends
    \/ \E a \in Accounts : Rebind(a) \/ Connect(a) \/ Remove(a)

(* Reads come back and jobs finish; a person owes nothing.                 *)
Fairness == WF_vars(Amends) /\ \A n \in Asks : SF_vars(Answers(n))

Spec == Init /\ [][Next]_vars /\ Fairness

-----------------------------------------------------------------------------

(* Every attempt, row and secret is one the code can hold.                 *)
GrantsTypeOK ==
    /\ target \in Accounts \union {None} /\ row \in [Accounts -> 0..MaxRefs]
    /\ vault \subseteq 1..sealed /\ sealed \in 0..MaxRefs
    /\ \A n \in Asks : ask[n] \in
         [at : {"unasked", "asked", "account", "secret", "answered", "settled", "lost"},
          of : 0..child, account : Accounts \union {None}, ref : 0..MaxRefs]
    /\ lane = NoJob => \A a \in Accounts : row[a] # 0 => row[a] \in vault

(* What an attempt is granted was the node's own: the account it names was  *)
(* the target at some moment since it asked, and the secret stood in that    *)
(* account's row at some moment since.  A key replaced before an ask is      *)
(* never spent by it.                                                      *)
GrantsAreLive ==
    \A n \in Asks :
        ask[n].at = "answered" /\ ask[n].ref # 0 =>
            /\ ask[n].account \in stood[n].targets
            /\ <<ask[n].account, ask[n].ref>> \in stood[n].rows

(* A key that was removed is not granted: a secret that is gone from the    *)
(* vault as its turn comes opens nothing.                                  *)
GrantsHeldOnly ==
    \A n \in Asks :
        ask[n].at = "secret" /\ ask'[n].at = "answered" /\ ask'[n].ref # 0 => ask'[n].ref \in vault

(* What an attempt is granted was the node's own since it asked, and a key   *)
(* removed by its turn opens nothing.                                      *)
GrantsSpendTheNodesOwn ==
    [](GrantsTypeOK /\ GrantsAreLive) /\ [][GrantsHeldOnly]_vars

SomeoneWaits == \E n \in Asks : ask[n].at \in {"asked", "account", "secret", "answered"}

(* Every attempt draws an answer, or its child is gone.                    *)
EveryAskIsAnswered == SomeoneWaits ~> ~SomeoneWaits

-----------------------------------------------------------------------------
(* Proofs, for every set of attempts and accounts and any number of          *)
(* secrets, children and rebindings.                                         *)


Stages == {"unasked", "asked", "account", "secret", "answered", "settled", "lost"}
Asking == [at : Stages, of : Nat, account : Accounts \union {None}, ref : Nat]
Jobs == [op : {"none", "connect", "remove"}, account : Accounts \union {None}, ref : Nat]

Shapes ==
    /\ target \in Accounts \union {None}
    /\ row \in [Accounts -> Nat]
    /\ sealed \in Nat /\ child \in Nat
    /\ lane \in Jobs
    /\ ask \in [Asks -> Asking]
    /\ \A n \in Asks : ask[n].at = "account" => ask[n].account \in Accounts

Names(n) ==
    ask[n].at \in {"account", "secret"} \/ (ask[n].at = "answered" /\ ask[n].ref # 0)

(* What an attempt carries from one read to the next stood when it was read, *)
(* and what stood since it asked is not forgotten while it is open.          *)
CarriesWhatStood ==
    \A n \in Asks :
        /\ Names(n) => ask[n].account \in stood[n].targets
        /\ Names(n) /\ ask[n].at # "account" => <<ask[n].account, ask[n].ref>> \in stood[n].rows

GrantsInv == Shapes /\ CarriesWhatStood

(* Nothing is asked at first. *)
LEMMA StartsShaped == Init => GrantsInv
BY DEF Init, GrantsInv, Shapes, CarriesWhatStood, Names, Asking, Stages, Jobs, NoJob, Unasked

(* Where an attempt's fields stand still, what it carries still stood.       *)
LEMMA StillStood ==
  ASSUME CarriesWhatStood, Meets, NEW n \in Asks, ask'[n] = ask[n]
  PROVE  /\ Names(n)' => ask'[n].account \in stood'[n].targets
         /\ Names(n)' /\ ask'[n].at # "account"
              => <<ask'[n].account, ask'[n].ref>> \in stood'[n].rows
BY DEF CarriesWhatStood, Meets, Names, Open

(* One attempt moves on: it carries what stood before or what stands now.    *)
LEMMA OneMovesOn ==
  ASSUME GrantsInv, Meets, UNCHANGED <<storage, child>>,
         NEW n \in Asks, NEW r \in Asking, ask' = [ask EXCEPT ![n] = r],
         r.at = "account" => r.account \in Accounts /\ r.account = target,
         r.at = "secret" \/ (r.at = "answered" /\ r.ref # 0) =>
            /\ r.account \in stood[n].targets
            /\ \/ <<r.account, r.ref>> \in stood[n].rows
               \/ r.account \in Accounts /\ r.ref = row[r.account] /\ r.ref # 0
  PROVE  GrantsInv'
<1>1. Shapes'
  BY DEF GrantsInv, Shapes, storage
<1>2. ASSUME NEW m \in Asks
      PROVE  /\ Names(m)' => ask'[m].account \in stood'[m].targets
             /\ Names(m)' /\ ask'[m].at # "account"
                  => <<ask'[m].account, ask'[m].ref>> \in stood'[m].rows
  <2>1. CASE m # n
    <3>1. ask'[m] = ask[m]
      BY <2>1 DEF GrantsInv, Shapes
    <3>2. QED
      BY <3>1, StillStood DEF GrantsInv
  <2>2. CASE m = n
    <3>1. ask'[n] = r
      BY DEF GrantsInv, Shapes
    <3>2. Names(n)' => Open(n)
      BY DEF Names, Open
    <3>3. stood'[n] = IF ~Open(n) THEN Nothing
          ELSE [targets |-> stood[n].targets \union {target},
                rows |-> stood[n].rows \union {<<a, row[a]>> : a \in {b \in Accounts : row[b] # 0}}]
      BY DEF Meets, storage
    <3>4. QED
      BY <2>2, <3>1, <3>2, <3>3 DEF Names
  <2>3. QED
    BY <2>1, <2>2
<1>3. QED
  BY <1>1, <1>2 DEF GrantsInv, CarriesWhatStood

(* The binding an attempt reads stands at that moment. *)
LEMMA TargetReadStands ==
  ASSUME GrantsInv, NEW n \in Asks, StoredTarget(n)
  PROVE  GrantsInv'
<1> DEFINE none == [ask[n] EXCEPT !.at = "answered", !.ref = 0]
           named == [ask[n] EXCEPT !.at = "account", !.account = target]
<1>1. none \in Asking /\ none.at = "answered" /\ none.ref = 0
  BY DEF GrantsInv, Shapes, Asking, Stages
<1>2. named \in Asking /\ named.at = "account" /\ named.account = target
  BY DEF GrantsInv, Shapes, Asking, Stages
<1>3. CASE target = None
  <2>1. ask' = [ask EXCEPT ![n] = none]
    BY <1>3 DEF StoredTarget, Answered, GrantsInv, Shapes
  <2>2. QED
    BY <1>1, <2>1, OneMovesOn DEF StoredTarget
<1>4. CASE target # None
  <2>1. ask' = [ask EXCEPT ![n] = named] /\ target \in Accounts
    BY <1>4 DEF StoredTarget, GrantsInv, Shapes
  <2>2. QED
    BY <1>2, <2>1, OneMovesOn DEF StoredTarget
<1>5. QED
  BY <1>3, <1>4

(* So does the row it reads next. *)
LEMMA RowReadStands ==
  ASSUME GrantsInv, NEW n \in Asks, ReadsTheAccount(n)
  PROVE  GrantsInv'
<1> DEFINE none == [ask[n] EXCEPT !.at = "answered", !.ref = 0]
           held == [ask[n] EXCEPT !.at = "secret", !.ref = RowOf(n)]
<1>0. ask[n] \in Asking /\ ask[n].account \in Accounts /\ RowOf(n) \in Nat
  BY DEF ReadsTheAccount, RowOf, GrantsInv, Shapes
<1>1. none \in Asking /\ none.at = "answered" /\ none.ref = 0
  BY <1>0 DEF Asking, Stages
<1>2. /\ held \in Asking /\ held.at = "secret"
      /\ held.account = ask[n].account /\ held.ref = RowOf(n)
  BY <1>0 DEF Asking, Stages
<1>3. CASE RowOf(n) = 0
  <2>1. ask' = [ask EXCEPT ![n] = none]
    BY <1>3 DEF ReadsTheAccount, Answered, GrantsInv, Shapes
  <2>2. QED
    BY <1>1, <2>1, OneMovesOn DEF ReadsTheAccount
<1>4. CASE RowOf(n) # 0
  <2>1. ask' = [ask EXCEPT ![n] = held]
    BY <1>4 DEF ReadsTheAccount, GrantsInv, Shapes
  <2>2. ask[n].account \in stood[n].targets
    BY DEF ReadsTheAccount, GrantsInv, CarriesWhatStood, Names
  <2>3. held.ref = row[held.account] /\ held.ref # 0
    BY <1>2, <1>4 DEF RowOf
  <2>4. QED
    BY <1>0, <1>2, <2>1, <2>2, <2>3, OneMovesOn DEF ReadsTheAccount
<1>5. QED
  BY <1>3, <1>4

(* And the secret it reads last. *)
LEMMA SecretReadStands ==
  ASSUME GrantsInv, NEW n \in Asks, HeldSecret(n)
  PROVE  GrantsInv'
<1> DEFINE ref == IF SecretHeld(n) THEN ask[n].ref ELSE 0
           r == [ask[n] EXCEPT !.at = "answered", !.ref = ref]
<1>1. /\ r \in Asking /\ r.at = "answered" /\ r.account = ask[n].account
      /\ r.ref # 0 => r.ref = ask[n].ref
  BY DEF GrantsInv, Shapes, Asking, Stages
<1>2. ask' = [ask EXCEPT ![n] = r]
  BY DEF HeldSecret, Answered, GrantsInv, Shapes
<1>3. /\ ask[n].account \in stood[n].targets
      /\ <<ask[n].account, ask[n].ref>> \in stood[n].rows
  BY DEF HeldSecret, GrantsInv, CarriesWhatStood, Names
<1>4. QED
  BY <1>1, <1>2, <1>3, OneMovesOn DEF HeldSecret

(* An attempt that asks, cannot be read for or is settled carries nothing.   *)
LEMMA NothingCarriedStands ==
  ASSUME GrantsInv, NEW n \in Asks, Asked(n) \/ CannotRead(n) \/ Settles(n)
  PROVE  GrantsInv'
<1>1. Meets /\ UNCHANGED <<storage, child>>
  BY DEF Asked, CannotRead, Settles
<1>2. PICK r \in Asking :
        /\ ask' = [ask EXCEPT ![n] = r]
        /\ r.at \in {"asked", "settled", "lost"} \/ (r.at = "answered" /\ r.ref = 0)
  <2>1. CASE Asked(n)
    <3>1. [Unasked EXCEPT !.at = "asked", !.of = child] \in Asking
      BY DEF Asking, Stages, Unasked, GrantsInv, Shapes
    <3>2. QED
      BY <2>1, <3>1 DEF Asked, Unasked
  <2>2. CASE CannotRead(n)
    <3>1. [ask[n] EXCEPT !.at = "answered", !.ref = 0] \in Asking
      BY DEF Asking, Stages, GrantsInv, Shapes
    <3>2. ask' = [ask EXCEPT ![n] = [ask[n] EXCEPT !.at = "answered", !.ref = 0]]
      BY <2>2 DEF CannotRead, Answered, GrantsInv, Shapes
    <3>3. [ask[n] EXCEPT !.at = "answered", !.ref = 0].at = "answered"
          /\ [ask[n] EXCEPT !.at = "answered", !.ref = 0].ref = 0
      BY DEF GrantsInv, Shapes, Asking
    <3>4. QED
      BY <3>1, <3>2, <3>3
  <2>3. CASE Settles(n)
    <3>1. \A a \in {"settled", "lost"} :
            [Unasked EXCEPT !.at = a] \in Asking /\ [Unasked EXCEPT !.at = a].at = a
      BY DEF Asking, Stages, Unasked
    <3>2. PICK a \in {"settled", "lost"} : ask' = [ask EXCEPT ![n] = [Unasked EXCEPT !.at = a]]
      BY <2>3 DEF Settles
    <3>3. QED
      BY <3>1, <3>2
  <2>4. QED
    BY <2>1, <2>2, <2>3
<1>3. QED
  BY <1>1, <1>2, OneMovesOn

(* What a person does, and a death of the child, moves no attempt.          *)
LEMMA PersonsMoveNoAttempt ==
  ASSUME GrantsInv,
         \/ ChildDies \/ Amends
         \/ \E a \in Accounts : Rebind(a) \/ Connect(a) \/ Remove(a)
  PROVE  GrantsInv'
<1>1. Shapes'
  <2>1. CASE ChildDies
    BY <2>1 DEF ChildDies, GrantsInv, Shapes, storage
  <2>2. CASE Amends
    BY <2>2 DEF Amends, GrantsInv, Shapes, Jobs, NoJob
  <2>3. ASSUME NEW a \in Accounts, Rebind(a)
        PROVE  Shapes'
    BY <2>3 DEF Rebind, GrantsInv, Shapes
  <2>4. ASSUME NEW a \in Accounts, Connect(a)
        PROVE  Shapes'
    BY <2>4 DEF Connect, GrantsInv, Shapes, Jobs
  <2>5. ASSUME NEW a \in Accounts, Remove(a)
        PROVE  Shapes'
    BY <2>5 DEF Remove, GrantsInv, Shapes, Jobs
  <2>6. QED
    BY <2>1, <2>2, <2>3, <2>4, <2>5
<1>2. ask' = ask /\ Meets
  BY DEF ChildDies, Amends, Rebind, Connect, Remove
<1>3. QED
  BY <1>1, <1>2, StillStood DEF GrantsInv, CarriesWhatStood

LEMMA GrantsSteps == GrantsInv /\ [Next]_vars => GrantsInv'
<1> SUFFICES ASSUME GrantsInv, [Next]_vars
             PROVE  GrantsInv'
  OBVIOUS
<1>1. ASSUME NEW n \in Asks, Asked(n) \/ Answers(n)
      PROVE  GrantsInv'
  BY <1>1, TargetReadStands, RowReadStands, SecretReadStands, NothingCarriedStands DEF Answers
<1>2. CASE \/ ChildDies \/ Amends
           \/ \E a \in Accounts : Rebind(a) \/ Connect(a) \/ Remove(a)
  BY <1>2, PersonsMoveNoAttempt
<1>3. CASE UNCHANGED vars
  BY <1>3 DEF vars, GrantsInv, Shapes, CarriesWhatStood, Names
<1>4. QED
  BY <1>1, <1>2, <1>3 DEF Next

(* GrantsAreLive, for every number of attempts, accounts, secrets, children  *)
(* and rebindings: a grant was the node's own at some moment since the ask.   *)
THEOREM GrantsStayLive == Spec => []GrantsAreLive
<1>1. GrantsInv => GrantsAreLive
  BY DEF GrantsInv, CarriesWhatStood, GrantsAreLive, Names
<1>2. QED
  BY StartsShaped, GrantsSteps, <1>1, PTL DEF Spec

-----------------------------------------------------------------------------
(* Rows and secrets. A job has one row in hand: the secret it will name is   *)
(* sealed and nobody's yet, or the one its row names is gone already. Every  *)
(* other row names a secret of its own that stands.                         *)

Busy(a) == lane # NoJob /\ a = lane.account

RowsAreHeld ==
    /\ sealed \in 0..MaxRefs /\ vault \subseteq 1..sealed
    /\ \A a \in Accounts : row[a] \in 0..sealed
    /\ \A a, b \in Accounts : row[a] = row[b] /\ row[a] # 0 => a = b
    /\ \A a \in Accounts : row[a] # 0 /\ ~Busy(a) => row[a] \in vault

TheJobsSecretIsItsOwn ==
    lane # NoJob =>
        /\ lane.account \in Accounts
        /\ lane.ref # 0 => lane.ref \in vault /\ \A a \in Accounts : row[a] # lane.ref

AsksAreBounded == \A n \in Asks : ask[n].of \in 0..child /\ ask[n].ref \in 0..MaxRefs

HeldInv == GrantsInv /\ RowsAreHeld /\ TheJobsSecretIsItsOwn /\ AsksAreBounded

LEMMA StartsHeld == GrantsAssumption /\ Init => HeldInv
<1> SUFFICES ASSUME GrantsAssumption, Init PROVE HeldInv
  OBVIOUS
<1>1. RowsAreHeld
  BY DEF GrantsAssumption, Init, RowsAreHeld
<1>2. TheJobsSecretIsItsOwn
  BY DEF Init, TheJobsSecretIsItsOwn
<1>3. AsksAreBounded
  BY DEF GrantsAssumption, Init, AsksAreBounded, Unasked
<1>4. QED
  BY <1>1, <1>2, <1>3, StartsShaped DEF HeldInv

(* An attempt's read carries a row's reference or none, and spends nothing   *)
(* that is not in the vault as its turn comes.                              *)
LEMMA ReadsAreBounded ==
  ASSUME GrantsAssumption, HeldInv, NEW n \in Asks, Asked(n) \/ Answers(n)
  PROVE  AsksAreBounded' /\ GrantsHeldOnly
<1>1. /\ ask \in [Asks -> Asking] /\ child \in Nat /\ sealed \in 0..MaxRefs
      /\ vault \subseteq 1..sealed /\ MaxRefs \in Nat
  BY DEF HeldInv, GrantsInv, Shapes, RowsAreHeld, GrantsAssumption
<1>2. child' = child
  BY DEF Asked, Answers, StoredTarget, ReadsTheAccount, HeldSecret, CannotRead, Settles
<1>3. ask[n].of \in 0..child /\ ask[n].ref \in 0..MaxRefs
  BY DEF HeldInv, AsksAreBounded
<1>4. 0 \in 0..child /\ child \in 0..child /\ 0 \in 0..MaxRefs
  BY <1>1
<1>5. PICK r :
        /\ ask' = [ask EXCEPT ![n] = r] /\ r.of \in 0..child /\ r.ref \in 0..MaxRefs
        /\ ask[n].at = "secret" /\ r.at = "answered" /\ r.ref # 0 => r.ref \in vault
  <2> DEFINE none == [ask[n] EXCEPT !.at = "answered", !.ref = 0]
  <2>0. none.of = ask[n].of /\ none.ref = 0
    BY <1>1 DEF Asking
  <2>1. CASE Asked(n)
    <3> DEFINE new == [Unasked EXCEPT !.at = "asked", !.of = child]
    <3>1. ask' = [ask EXCEPT ![n] = new] /\ new.of = child /\ new.ref = 0
      BY <2>1 DEF Asked, Unasked
    <3> HIDE DEF new
    <3>2. QED
      BY <1>4, <3>1
  <2>2. CASE StoredTarget(n)
    <3> DEFINE named == [ask[n] EXCEPT !.at = "account", !.account = target]
    <3>1. named.of = ask[n].of /\ named.ref = ask[n].ref
      BY <1>1 DEF Asking
    <3>2. ask' = [ask EXCEPT ![n] = none] \/ ask' = [ask EXCEPT ![n] = named]
      BY <2>2, <1>1 DEF StoredTarget, Answered
    <3>3. ask[n].at # "secret"
      BY <2>2 DEF StoredTarget
    <3> HIDE DEF named, none
    <3>4. CASE ask' = [ask EXCEPT ![n] = none]
      BY <1>3, <1>4, <2>0, <3>4
    <3>5. CASE ask' = [ask EXCEPT ![n] = named]
      BY <1>3, <3>1, <3>3, <3>5
    <3>6. QED
      BY <3>2, <3>4, <3>5
  <2>3. CASE ReadsTheAccount(n)
    <3> DEFINE held == [ask[n] EXCEPT !.at = "secret", !.ref = RowOf(n)]
    <3>1. held.of = ask[n].of /\ held.ref = RowOf(n)
      BY <1>1 DEF Asking
    <3>2. ask' = [ask EXCEPT ![n] = none] \/ ask' = [ask EXCEPT ![n] = held]
      BY <2>3, <1>1 DEF ReadsTheAccount, Answered
    <3>3. ask[n].at # "secret" /\ ask[n].account \in Accounts
      BY <2>3 DEF ReadsTheAccount, HeldInv, GrantsInv, Shapes
    <3>4. RowOf(n) \in 0..sealed
      BY <3>3 DEF RowOf, HeldInv, RowsAreHeld
    <3>5. RowOf(n) \in 0..MaxRefs
      BY <1>1, <3>4
    <3> HIDE DEF held, none
    <3>6. CASE ask' = [ask EXCEPT ![n] = none]
      BY <1>3, <1>4, <2>0, <3>6
    <3>7. CASE ask' = [ask EXCEPT ![n] = held]
      BY <1>3, <3>1, <3>3, <3>5, <3>7
    <3>8. QED
      BY <3>2, <3>6, <3>7
  <2>4. CASE HeldSecret(n)
    <3> DEFINE ref == IF SecretHeld(n) THEN ask[n].ref ELSE 0
               spent == [ask[n] EXCEPT !.at = "answered", !.ref = ref]
    <3>1. ask' = [ask EXCEPT ![n] = spent]
      BY <2>4, <1>1 DEF HeldSecret, Answered
    <3>2. spent.of = ask[n].of /\ spent.ref = ref
      BY <1>1 DEF Asking
    <3>3. ref \in 0..MaxRefs /\ (ref # 0 => ref \in vault)
      BY <1>3, <1>4 DEF SecretHeld
    <3> HIDE DEF ref, spent
    <3>4. QED
      BY <1>3, <3>1, <3>2, <3>3
  <2>5. CASE CannotRead(n)
    <3>1. ask' = [ask EXCEPT ![n] = none]
      BY <2>5, <1>1 DEF CannotRead, Answered
    <3> HIDE DEF none
    <3>2. QED
      BY <1>3, <1>4, <2>0, <3>1
  <2>6. CASE Settles(n)
    <3>1. PICK at \in {"settled", "lost"} : ask' = [ask EXCEPT ![n] = [Unasked EXCEPT !.at = at]]
      BY <2>6 DEF Settles
    <3> DEFINE over == [Unasked EXCEPT !.at = at]
    <3>2. over.of = 0 /\ over.ref = 0 /\ ask' = [ask EXCEPT ![n] = over]
      BY <3>1 DEF Unasked
    <3> HIDE DEF over
    <3>3. QED
      BY <1>4, <3>2
  <2>7. QED
    BY <2>1, <2>2, <2>3, <2>4, <2>5, <2>6 DEF Answers
<1>6. \A m \in Asks : m # n => ask'[m] = ask[m]
  BY <1>1, <1>5
<1>7. ask'[n] = r
  BY <1>1, <1>5
<1>8. AsksAreBounded'
  BY <1>2, <1>5, <1>6, <1>7 DEF HeldInv, AsksAreBounded
<1>9. GrantsHeldOnly
  BY <1>5, <1>6, <1>7 DEF GrantsHeldOnly
<1>10. QED
  BY <1>8, <1>9

(* A key is sealed under a number nobody has named.                          *)
LEMMA ConnectingKeepsRows ==
  ASSUME GrantsAssumption, HeldInv, NEW a \in Accounts, Connect(a)
  PROVE  RowsAreHeld' /\ TheJobsSecretIsItsOwn'
<1>1. /\ sealed \in Nat /\ MaxRefs \in Nat /\ sealed < MaxRefs
      /\ vault \subseteq 1..sealed /\ \A b \in Accounts : row[b] \in 0..sealed
  BY DEF HeldInv, RowsAreHeld, GrantsAssumption, Connect
<1>2. /\ sealed' = sealed + 1 /\ vault' = vault \union {sealed + 1} /\ row' = row
      /\ lane'.account = a /\ lane'.ref = sealed + 1 /\ row[a] = 0 /\ lane = NoJob
  BY DEF Connect
<1>3. \A b \in Accounts : row[b] # 0 => row[b] \in vault
  BY <1>2 DEF HeldInv, RowsAreHeld, Busy
<1>4. sealed' \in 0..MaxRefs /\ vault' \subseteq 1..sealed'
  <2>1. /\ sealed + 1 \in 0..MaxRefs /\ sealed + 1 \in 1..(sealed + 1)
        /\ 1..sealed \subseteq 1..(sealed + 1)
    BY <1>1
  <2>2. QED
    BY <1>1, <1>2, <2>1
<1>5. \A b \in Accounts : row[b] \in 0..sealed' /\ row[b] # sealed + 1
  BY <1>1, <1>2
<1>6. RowsAreHeld'
  BY <1>2, <1>3, <1>4, <1>5 DEF HeldInv, RowsAreHeld, Busy
<1>7. TheJobsSecretIsItsOwn'
  BY <1>2, <1>5 DEF TheJobsSecretIsItsOwn
<1>8. QED
  BY <1>6, <1>7

(* Only the removed row's secret goes: no other row names it.                *)
LEMMA RemovingKeepsRows ==
  ASSUME GrantsAssumption, HeldInv, NEW a \in Accounts, Remove(a)
  PROVE  RowsAreHeld' /\ TheJobsSecretIsItsOwn'
<1>1. /\ sealed' = sealed /\ vault' = vault \ {row[a]} /\ row' = row /\ row[a] # 0
      /\ lane' # NoJob /\ lane'.account = a /\ lane'.ref = 0 /\ lane = NoJob
  BY DEF Remove, NoJob
<1>2. \A b \in Accounts : row[b] # 0 => row[b] \in vault
  BY <1>1 DEF HeldInv, RowsAreHeld, Busy
<1>3. \A b \in Accounts : row[b] # 0 /\ b # a => row[b] \in vault'
  BY <1>1, <1>2 DEF HeldInv, RowsAreHeld
<1>4. RowsAreHeld'
  BY <1>1, <1>3 DEF HeldInv, RowsAreHeld, Busy
<1>5. TheJobsSecretIsItsOwn'
  BY <1>1 DEF TheJobsSecretIsItsOwn
<1>6. QED
  BY <1>4, <1>5

(* The row in hand takes the secret sealed for it, or none.                  *)
LEMMA AmendingKeepsRows ==
  ASSUME GrantsAssumption, HeldInv, Amends
  PROVE  RowsAreHeld' /\ TheJobsSecretIsItsOwn'
<1>1. /\ lane # NoJob /\ lane' = NoJob /\ sealed' = sealed /\ vault' = vault
      /\ row' = [row EXCEPT ![lane.account] = lane.ref] /\ row \in [Accounts -> Nat]
  BY DEF Amends, HeldInv, GrantsInv, Shapes
<1>2. /\ lane.account \in Accounts
      /\ lane.ref # 0 => lane.ref \in vault /\ \A a \in Accounts : row[a] # lane.ref
  BY <1>1 DEF HeldInv, TheJobsSecretIsItsOwn
<1>3. \A a \in Accounts : row'[a] = IF a = lane.account THEN lane.ref ELSE row[a]
  BY <1>1, <1>2
<1>4. sealed \in 0..MaxRefs /\ vault \subseteq 1..sealed /\ sealed \in Nat
  BY DEF HeldInv, RowsAreHeld
<1>5. lane.ref \in 0..sealed
  <2>1. 0 \in 0..sealed /\ 1..sealed \subseteq 0..sealed
    BY <1>4
  <2>2. QED
    BY <1>2, <1>4, <2>1
<1>6. \A a \in Accounts : row[a] # 0 /\ a # lane.account => row[a] \in vault
  BY DEF HeldInv, RowsAreHeld, Busy
<1>7. \A a, b \in Accounts : row[a] = row[b] /\ row[a] # 0 => a = b
  BY DEF HeldInv, RowsAreHeld
<1>8. \A a \in Accounts : row'[a] \in 0..sealed' /\ (row'[a] # 0 => row'[a] \in vault')
  BY <1>1, <1>2, <1>3, <1>5, <1>6 DEF HeldInv, RowsAreHeld
<1>9. \A a, b \in Accounts : row'[a] = row'[b] /\ row'[a] # 0 => a = b
  BY <1>2, <1>3, <1>7
<1>10. RowsAreHeld'
  BY <1>1, <1>4, <1>8, <1>9 DEF RowsAreHeld
<1>11. TheJobsSecretIsItsOwn'
  BY <1>1 DEF TheJobsSecretIsItsOwn
<1>12. QED
  BY <1>10, <1>11

LEMMA HeldSteps ==
  ASSUME GrantsAssumption, HeldInv, [Next]_vars
  PROVE  HeldInv' /\ [GrantsHeldOnly]_vars
<1>1. GrantsInv'
  BY GrantsSteps DEF HeldInv
<1>2. ASSUME NEW n \in Asks, Asked(n) \/ Answers(n)
      PROVE  /\ RowsAreHeld' /\ TheJobsSecretIsItsOwn' /\ AsksAreBounded'
             /\ GrantsHeldOnly
  <2>1. UNCHANGED storage
    BY <1>2 DEF Asked, Answers, StoredTarget, ReadsTheAccount, HeldSecret, CannotRead, Settles
  <2>2. RowsAreHeld' /\ TheJobsSecretIsItsOwn'
    BY <2>1 DEF storage, HeldInv, RowsAreHeld, Busy, TheJobsSecretIsItsOwn
  <2>3. QED
    BY <1>2, <2>2, ReadsAreBounded
<1>3. ASSUME \/ ChildDies \/ Amends
             \/ \E a \in Accounts : Rebind(a) \/ Connect(a) \/ Remove(a)
      PROVE  /\ RowsAreHeld' /\ TheJobsSecretIsItsOwn' /\ AsksAreBounded'
             /\ GrantsHeldOnly
  <2>1. ask' = ask /\ (child' = child \/ child' = child + 1) /\ child \in Nat
    BY <1>3 DEF ChildDies, Amends, Rebind, Connect, Remove, HeldInv, GrantsInv, Shapes
  <2>2. 0..child \subseteq 0..child'
    BY <2>1
  <2>3. AsksAreBounded'
    BY <2>1, <2>2 DEF HeldInv, AsksAreBounded
  <2>4. GrantsHeldOnly
    BY <2>1 DEF GrantsHeldOnly
  <2>5. ASSUME ChildDies \/ \E a \in Accounts : Rebind(a)
        PROVE  RowsAreHeld' /\ TheJobsSecretIsItsOwn'
    <3>1. UNCHANGED <<row, vault, sealed, lane>>
      BY <2>5 DEF ChildDies, Rebind, storage
    <3>2. QED
      BY <3>1 DEF HeldInv, RowsAreHeld, Busy, TheJobsSecretIsItsOwn
  <2>6. RowsAreHeld' /\ TheJobsSecretIsItsOwn'
    BY <1>3, <2>5, ConnectingKeepsRows, RemovingKeepsRows, AmendingKeepsRows
  <2>7. QED
    BY <2>3, <2>4, <2>6
<1>4. CASE UNCHANGED vars
  <2>1. UNCHANGED <<row, vault, sealed, lane, child, ask>>
    BY <1>4 DEF vars
  <2>2. QED
    BY <1>1, <1>4, <2>1 DEF HeldInv, RowsAreHeld, Busy, TheJobsSecretIsItsOwn, AsksAreBounded
<1>5. CASE Next
  BY <1>1, <1>2, <1>3, <1>5 DEF Next, HeldInv
<1>6. QED
  BY <1>4, <1>5

(* GrantsSpendTheNodesOwn, for every number of attempts, accounts, secrets,  *)
(* children and rebindings: while no job is at work every row names a secret *)
(* that stands, what is granted was the node's own since the ask, and a key  *)
(* removed by its turn opens nothing.                                       *)
THEOREM GrantsAreTheNodesOwn == GrantsAssumption /\ Spec => GrantsSpendTheNodesOwn
<1>1. GrantsAssumption /\ HeldInv /\ [Next]_vars => HeldInv' /\ [GrantsHeldOnly]_vars
  BY HeldSteps
<1>2. GrantsAssumption /\ HeldInv => GrantsTypeOK /\ GrantsAreLive
  <2> SUFFICES ASSUME GrantsAssumption, HeldInv PROVE GrantsTypeOK /\ GrantsAreLive
    OBVIOUS
  <2>1. GrantsAreLive
    BY DEF HeldInv, GrantsInv, CarriesWhatStood, GrantsAreLive, Names
  <2>2. /\ target \in Accounts \union {None} /\ row \in [Accounts -> Nat]
        /\ ask \in [Asks -> Asking]
    BY DEF HeldInv, GrantsInv, Shapes
  <2>3. 0..sealed \subseteq 0..MaxRefs /\ sealed \in 0..MaxRefs /\ vault \subseteq 1..sealed
    BY DEF GrantsAssumption, HeldInv, RowsAreHeld
  <2>4. row \in [Accounts -> 0..MaxRefs]
    BY <2>2, <2>3 DEF HeldInv, RowsAreHeld
  <2>5. \A n \in Asks : ask[n] \in
          [at : Stages, of : 0..child, account : Accounts \union {None}, ref : 0..MaxRefs]
    BY <2>2 DEF Asking, HeldInv, AsksAreBounded
  <2>6. lane = NoJob => \A a \in Accounts : row[a] # 0 => row[a] \in vault
    BY DEF HeldInv, RowsAreHeld, Busy
  <2>7. QED
    BY <2>1, <2>2, <2>3, <2>4, <2>5, <2>6 DEF GrantsTypeOK, Stages
<1>3. GrantsAssumption => GrantsAssumption'
  OBVIOUS
<1>4. QED
  BY StartsHeld, <1>1, <1>2, <1>3, PTL DEF Spec, GrantsSpendTheNodesOwn

=============================================================================
