-------------------------- MODULE CredentialProofs --------------------------
(***************************************************************************)
(* Proofs about what renews, repairs and signs in for a plan's credential:   *)
(* CredentialRenewal, for every set of turns, any number of rotations, of    *)
(* either kind of plan, and whether or not answers are lost and writes        *)
(* refused; then CustodyRepair, AdoptedRenewal, DeviceSignIn, BrowserSignIn   *)
(* and AccountSignIns, each by an invariant of its own.                      *)
(***************************************************************************)
EXTENDS CredentialRenewal, TLAPS

CONSTANTS Accounts, None, Login, MaxAges,
    Plans, MaxAsks, MaxWaits, MaxTries, Other, Nobody, MaxTakes, MaxUnopened,
    Jobs, Ops, Addresses, MaxIds, InKeychain, LateTools, OldTools, Refusals, Pending, Plan

VARIABLES
    \* CustodyRepair
    active, shared, home, slot, reserved, at, held, carrying, cut,
    \* AdoptedRenewal
    store, toolFile, ages, toolLane, step, toolTurn, moved,
    \* DeviceSignIn
    pending, asks, screen, waits, answers,
    \* BrowserSignIn
    port, listener, handed, browser, result, takes, unopened,
    \* AccountSignIns
    rows, folders, cred, named, chosen, item, tools, wrote, strayed, ids, refused, job

Repair == INSTANCE CustodyRepair
Adopted == INSTANCE AdoptedRenewal WITH lane <- toolLane, turn <- toolTurn
Device == INSTANCE DeviceSignIn
Browser == INSTANCE BrowserSignIn
Homes == INSTANCE AccountSignIns WITH active <- chosen, minted <- ids

Held == [phase : Phases, gen : Gen, stamped : BOOLEAN, again : BOOLEAN,
         by : Turns \union {NoTurn}, minted : {"no", "yes"}]
Update == [turn : Turns, gen : Gen, stamped : BOOLEAN]
Bearing == {"granted", "ready", "profiling", "stamping", "waiting", "clear", "sent"}

(* What main keeps it has written, and the provider is past what it rotated. *)
MainAndProvider == stored.gen \in written /\ \A g \in rotated : g < head

(* A renewal is waited for by the turns that hold its token, each once.      *)
FlightsHold ==
    \A g \in Gen : \A i \in 1..Len(flight[g]) :
        /\ turn[flight[g][i]].phase = "renewing" /\ turn[flight[g][i]].gen = g
        /\ \A j \in 1..Len(flight[g]) : flight[g][i] = flight[g][j] => i = j

(* What is handed to main is waited on by the one turn that handed it over.  *)
UpdatesHold ==
    \A i \in 1..Len(updates) :
        /\ turn[updates[i].turn].phase \in {"storing", "stamping"}
        /\ turn[updates[i].turn].gen = updates[i].gen
        /\ \A j \in 1..Len(updates) : updates[i].turn = updates[j].turn => i = j

(* Whatever a turn bears on its way to the provider main has written.        *)
BornIsWritten == \A t \in Turns : turn[t].phase \in Bearing => turn[t].gen \in written

RenewalInv ==
    RenewalTypeOK /\ MainAndProvider /\ FlightsHold /\ UpdatesHold /\ BornIsWritten

(* The first state, with nobody asking, is a good one. *)
LEMMA RenewalStarts == RenewalAssumption /\ Init => RenewalInv
BY DEF RenewalAssumption, Init, RenewalInv, RenewalTypeOK, MainAndProvider, FlightsHold,
       UpdatesHold, BornIsWritten, Bearing, Blob, Gen, Phases, Away, NoStanding

(* What the type invariant says of one turn. *)
LEMMA TurnTypes ==
  ASSUME RenewalTypeOK, NEW t \in Turns
  PROVE  turn \in [Turns -> Held] /\ turn[t] \in Held
BY DEF RenewalTypeOK, Held

(* Three facts about sequences: nothing waits in the empty one, *)
LEMMA NothingWaits ==
  ASSUME NEW S
  PROVE  <<>> \in Seq(S) /\ Len(<<>>) = 0 /\ ~(\E i \in 1..Len(<<>>) : TRUE)
OBVIOUS

(* what waits is of its kind, *)
LEMMA ElementsAreTyped ==
  ASSUME NEW S, NEW s \in Seq(S), NEW i \in 1..Len(s)
  PROVE  s[i] \in S
OBVIOUS

(* and what is queued behind keeps both orders. *)
LEMMA QueuedBehind ==
  ASSUME NEW S, NEW a \in Seq(S), NEW b \in Seq(S)
  PROVE  /\ a \o b \in Seq(S) /\ Len(a \o b) = Len(a) + Len(b)
         /\ \A i \in 1..Len(a) : (a \o b)[i] = a[i]
         /\ \A i \in (Len(a)+1)..(Len(a)+Len(b)) : (a \o b)[i] = b[i - Len(a)]
OBVIOUS

(* A turn that waits for main is not free to move. *)
LEMMA HandedOver ==
  ASSUME RenewalInv, NEW i \in 1..Len(updates)
  PROVE  /\ updates[i] \in Update /\ updates[i].turn \in Turns
         /\ turn[updates[i].turn].phase \in {"storing", "stamping"}
         /\ turn[updates[i].turn].gen = updates[i].gen
<1>1. updates \in Seq(Update)
  BY DEF RenewalInv, RenewalTypeOK, Update
<1>2. updates[i] \in Update
  <2> HIDE DEF Update
  <2> QED
    BY <1>1, ElementsAreTyped
<1>3. QED
  BY <1>2 DEF Update, RenewalInv, UpdatesHold

(* A turn nobody waits on moves, and takes along only what is written.       *)
LEMMA OneTurnMoves ==
  ASSUME RenewalInv, NEW t \in Turns, NEW r \in Held,
         turn' = [turn EXCEPT ![t] = r],
         turn[t].phase \notin {"renewing", "storing", "stamping"},
         r.phase \in Bearing => r.gen \in written,
         UNCHANGED <<stored, written, head, rotated, aged, blocked, flight, updates>>,
         standing' \in [gen : 0..MaxGen, by : Turns \union {NoTurn}]
  PROVE  RenewalInv'
<1>1. turn \in [Turns -> Held]
  BY DEF RenewalInv, RenewalTypeOK, Held
<1>2. RenewalTypeOK'
  BY <1>1 DEF RenewalInv, RenewalTypeOK, Held
<1>3. MainAndProvider'
  BY DEF RenewalInv, MainAndProvider
<1>4. FlightsHold'
  <2>1. ASSUME NEW g \in Gen, NEW i \in 1..Len(flight[g])
        PROVE  flight[g][i] \in Turns /\ flight[g][i] # t
    BY DEF RenewalInv, RenewalTypeOK, FlightsHold
  <2>2. QED
    BY <1>1, <2>1 DEF RenewalInv, FlightsHold
<1>5. UpdatesHold'
  <2>1. ASSUME NEW i \in 1..Len(updates)
        PROVE  updates[i].turn \in Turns /\ updates[i].turn # t
    BY HandedOver
  <2>2. QED
    BY <1>1, <2>1 DEF RenewalInv, UpdatesHold
<1>6. BornIsWritten'
  BY <1>1 DEF RenewalInv, BornIsWritten
<1>7. QED
  BY <1>2, <1>3, <1>4, <1>5, <1>6 DEF RenewalInv

(* The turns' own moves that nobody waits on: asking, being granted, going   *)
(* out, and what failing or sharing an identity leaves behind.              *)
LEMMA LoneMovesKeep ==
  ASSUME RenewalAssumption, RenewalInv, NEW t \in Turns,
         Ask(t) \/ Resolve(t) \/ Identify(t) \/ Share(t) \/ ProfileFails(t)
           \/ Send(t) \/ Answered(t)
  PROVE  RenewalInv'
<1>1. turn[t] \in Held /\ turn \in [Turns -> Held]
  BY TurnTypes DEF RenewalInv
<1>2. stored \in Blob /\ stored.gen \in written
      /\ standing \in [gen : 0..MaxGen, by : Turns \union {NoTurn}]
  BY DEF RenewalInv, RenewalTypeOK, MainAndProvider
<1>3. turn[t].phase \in Bearing => turn[t].gen \in written
  BY DEF RenewalInv, BornIsWritten
<1>4. NoStanding \in [gen : 0..MaxGen, by : Turns \union {NoTurn}]
  BY DEF RenewalAssumption, NoStanding
<1>5. CASE Ask(t)
  <2>1. [turn[t] EXCEPT !.phase = "asked"] \in Held
    BY <1>1 DEF Held, Phases
  <2> QED
    <3>1. [turn[t] EXCEPT !.phase = "asked"].phase = "asked"
      BY <1>1 DEF Held
    <3> QED
      BY <1>5, <1>2, <2>1, <3>1, OneTurnMoves DEF Ask, MoveTo, Bearing
<1>6. CASE Resolve(t)
  <2> DEFINE r == [turn[t] EXCEPT !.phase = "granted", !.gen = stored.gen,
                                  !.stamped = stored.stamped]
  <2>1. r \in Held /\ r.gen = stored.gen
    BY <1>1, <1>2 DEF Held, Phases, Blob
  <2>2. turn' = [turn EXCEPT ![t] = r]
    BY <1>6, <1>1 DEF Resolve, Held
  <2> HIDE DEF r
  <2> QED
    BY <1>6, <1>2, <2>1, <2>2, OneTurnMoves DEF Resolve
<1>7. CASE Identify(t)
  <2>1. CASE turn' = [turn EXCEPT ![t].phase = "clear"] /\ UNCHANGED standing
    <3>1. [turn[t] EXCEPT !.phase = "clear"] \in Held
      BY <1>1 DEF Held, Phases
    <3>2. [turn[t] EXCEPT !.phase = "clear"].gen = turn[t].gen /\ turn[t].phase \in Bearing
      BY <1>7, <1>1 DEF Held, Identify, Bearing
    <3> QED
      BY <1>7, <1>1, <1>2, <1>3, <2>1, <3>1, <3>2, OneTurnMoves DEF Identify
  <2>2. CASE turn' = [turn EXCEPT ![t].phase = "waiting", ![t].by = standing.by]
             /\ UNCHANGED standing
    <3> DEFINE r == [turn[t] EXCEPT !.phase = "waiting", !.by = standing.by]
    <3>1. r \in Held /\ r.gen = turn[t].gen /\ turn[t].phase \in Bearing
      BY <1>7, <1>1, <1>2 DEF Held, Phases, Identify, Bearing
    <3>2. turn' = [turn EXCEPT ![t] = r]
      BY <2>2, <1>1 DEF Held
    <3> HIDE DEF r
    <3> QED
      BY <1>7, <1>2, <1>3, <2>2, <3>1, <3>2, OneTurnMoves DEF Identify
  <2>3. CASE MoveTo(t, "profiling") /\ standing' = [gen |-> turn[t].gen, by |-> t]
    <3>1. [turn[t] EXCEPT !.phase = "profiling"] \in Held
      BY <1>1 DEF Held, Phases
    <3>2. [turn[t] EXCEPT !.phase = "profiling"].gen = turn[t].gen /\ turn[t].phase \in Bearing
      BY <1>7, <1>1 DEF Held, Identify, Bearing
    <3>3. standing' \in [gen : 0..MaxGen, by : Turns \union {NoTurn}]
      BY <1>1, <2>3 DEF Held, Gen
    <3> QED
      BY <1>7, <1>1, <1>3, <2>3, <3>1, <3>2, <3>3, OneTurnMoves DEF Identify, MoveTo
  <2> QED
    BY <1>7, <2>1, <2>2, <2>3 DEF Identify, MoveTo
<1>8. CASE Share(t)
  <2>1. CASE turn' = [turn EXCEPT ![t].phase = "clear", ![t].stamped = TRUE]
    <3> DEFINE r == [turn[t] EXCEPT !.phase = "clear", !.stamped = TRUE]
    <3>1. r \in Held /\ r.gen = turn[t].gen /\ turn[t].phase \in Bearing
      BY <1>8, <1>1 DEF Held, Phases, Share, Bearing
    <3>2. turn' = [turn EXCEPT ![t] = r]
      BY <2>1, <1>1 DEF Held
    <3> HIDE DEF r
    <3> QED
      BY <1>8, <1>2, <1>3, <3>1, <3>2, OneTurnMoves DEF Share
  <2>2. CASE MoveTo(t, "failed")
    <3>1. [turn[t] EXCEPT !.phase = "failed"] \in Held
      BY <1>1 DEF Held, Phases
    <3> QED
      BY <1>8, <1>1, <1>2, <2>2, <3>1, OneTurnMoves DEF Share, MoveTo, Bearing, Held
  <2> QED
    BY <1>8, <2>1, <2>2 DEF Share
<1>9. CASE ProfileFails(t)
  <2>1. [turn[t] EXCEPT !.phase = "failed"] \in Held
    BY <1>1 DEF Held, Phases
  <2>2. [turn[t] EXCEPT !.phase = "failed"].phase = "failed"
    BY <1>1 DEF Held
  <2>3. standing' \in [gen : 0..MaxGen, by : Turns \union {NoTurn}]
    BY <1>2, <1>4, <1>9 DEF ProfileFails
  <2> QED
    BY <1>9, <2>1, <2>2, <2>3, OneTurnMoves DEF ProfileFails, MoveTo, Bearing
<1>10. CASE Send(t)
  <2>1. [turn[t] EXCEPT !.phase = "sent"] \in Held
    BY <1>1 DEF Held, Phases
  <2>2. [turn[t] EXCEPT !.phase = "sent"].gen = turn[t].gen /\ turn[t].phase \in Bearing
    BY <1>10, <1>1 DEF Held, Send, Bearing
  <2> QED
    BY <1>10, <1>2, <1>3, <2>1, <2>2, OneTurnMoves DEF Send, MoveTo
<1>11. CASE Answered(t)
  <2>1. [turn[t] EXCEPT !.phase = "done"] \in Held
    BY <1>1 DEF Held, Phases
  <2>2. [turn[t] EXCEPT !.phase = "done"].phase = "done"
    BY <1>1 DEF Held
  <2> QED
    BY <1>11, <1>2, <2>1, <2>2, OneTurnMoves DEF Answered, MoveTo, Bearing
<1>12. QED
  BY <1>5, <1>6, <1>7, <1>8, <1>9, <1>10, <1>11

(* A turn that finds its token due joins whoever is renewing it.             *)
LEMMA JoiningKeeps ==
  ASSUME RenewalInv, NEW t \in Turns, NEW again \in BOOLEAN,
         turn[t].phase \in {"granted", "sent"},
         Renew(t, again),
         UNCHANGED <<stored, written, head, rotated, aged, blocked, standing, updates>>
  PROVE  RenewalInv'
<1>1. turn[t] \in Held /\ turn \in [Turns -> Held]
  BY TurnTypes DEF RenewalInv
<1>2. standing \in [gen : 0..MaxGen, by : Turns \union {NoTurn}]
  BY DEF RenewalInv, RenewalTypeOK
<1>3. CASE MoveTo(t, "failed") /\ UNCHANGED flight
  <2>1. [turn[t] EXCEPT !.phase = "failed"] \in Held
    BY <1>1 DEF Held, Phases
  <2>2. [turn[t] EXCEPT !.phase = "failed"].phase = "failed"
    BY <1>1 DEF Held
  <2> QED
    BY <1>2, <1>3, <2>1, <2>2, OneTurnMoves DEF MoveTo, Bearing
<1>4. CASE /\ turn' = [turn EXCEPT ![t].phase = "renewing", ![t].again = again]
           /\ flight' = [flight EXCEPT ![turn[t].gen] = Append(@, t)]
  <2> DEFINE h == turn[t].gen
  <2>1. h \in Gen /\ flight[h] \in Seq(Turns) /\ flight \in [Gen -> Seq(Turns)]
    BY <1>1 DEF Held, RenewalInv, RenewalTypeOK
  <2>2. turn'[t].phase = "renewing" /\ turn'[t].gen = h /\ turn' \in [Turns -> Held]
        /\ \A s \in Turns : s # t => turn'[s] = turn[s]
    BY <1>1, <1>4 DEF Held, Phases
  <2>3. flight'[h] = Append(flight[h], t) /\ \A g \in Gen : g # h => flight'[g] = flight[g]
    BY <1>4, <2>1
  <2>4. RenewalTypeOK'
    BY <1>4, <2>1, <2>2 DEF RenewalInv, RenewalTypeOK, Held
  <2>5. MainAndProvider'
    BY DEF RenewalInv, MainAndProvider
  <2>6. ASSUME NEW g \in Gen, NEW i \in 1..Len(flight[g])
        PROVE  flight[g][i] \in Turns /\ flight[g][i] # t
    BY DEF RenewalInv, RenewalTypeOK, FlightsHold
  <2>7. FlightsHold'
    <3> SUFFICES ASSUME NEW g \in Gen, NEW i \in 1..Len(flight'[g])
                 PROVE  /\ turn'[flight'[g][i]].phase = "renewing"
                        /\ turn'[flight'[g][i]].gen = g
                        /\ \A j \in 1..Len(flight'[g]) :
                               flight'[g][i] = flight'[g][j] => i = j
      BY DEF FlightsHold
    <3>1. CASE g # h
      <4>1. flight'[g] = flight[g]
        BY <3>1, <2>3
      <4>2. flight[g][i] \in Turns /\ flight[g][i] # t
        BY <4>1, <2>6
      <4>3. turn'[flight[g][i]] = turn[flight[g][i]]
        BY <4>2, <2>2
      <4>4. /\ turn[flight[g][i]].phase = "renewing" /\ turn[flight[g][i]].gen = g
            /\ \A j \in 1..Len(flight[g]) : flight[g][i] = flight[g][j] => i = j
        BY <4>1 DEF RenewalInv, FlightsHold
      <4>5. QED
        BY <4>1, <4>3, <4>4
    <3>2. CASE g = h
      <4>1. /\ Len(flight'[g]) = Len(flight[h]) + 1
            /\ \A k \in 1..Len(flight[h]) : flight'[g][k] = flight[h][k]
            /\ flight'[g][Len(flight[h]) + 1] = t
        BY <3>2, <2>1, <2>3
      <4>2. CASE i = Len(flight[h]) + 1
        <5>1. flight'[g][i] = t
          BY <4>1, <4>2
        <5>2. ASSUME NEW j \in 1..Len(flight'[g]), j # i
              PROVE  flight'[g][j] # t
          <6>1. j \in 1..Len(flight[h]) /\ flight'[g][j] = flight[h][j]
            BY <4>1, <4>2, <5>2, <2>1
          <6>2. QED
            BY <6>1, <2>1, <2>6
        <5>3. QED
          BY <5>1, <5>2, <2>2, <3>2
      <4>3. CASE i \in 1..Len(flight[h])
        <5>1. flight'[g][i] = flight[h][i] /\ flight[h][i] # t /\ flight[h][i] \in Turns
          BY <4>1, <4>3, <2>1, <2>6
        <5>2. turn[flight[h][i]].phase = "renewing" /\ turn[flight[h][i]].gen = h
              /\ \A j \in 1..Len(flight[h]) : flight[h][i] = flight[h][j] => i = j
          BY <4>3, <2>1 DEF RenewalInv, FlightsHold
        <5>3. turn'[flight'[g][i]].phase = "renewing" /\ turn'[flight'[g][i]].gen = g
          BY <5>1, <5>2, <2>2, <3>2
        <5>4. ASSUME NEW j \in 1..Len(flight'[g]), flight'[g][i] = flight'[g][j]
              PROVE  i = j
          <6>1. j # Len(flight[h]) + 1
            BY <5>1, <5>4, <4>1
          <6>2. j \in 1..Len(flight[h])
            BY <6>1, <4>1, <2>1
          <6>3. flight'[g][j] = flight[h][j]
            BY <6>2, <4>1
          <6>4. flight[h][i] = flight[h][j]
            BY <6>3, <5>1, <5>4
          <6>5. QED
            BY <6>2, <6>4, <5>2
        <5>5. QED
          BY <5>3, <5>4
      <4>4. QED
        BY <4>1, <4>2, <4>3, <2>1
    <3>3. QED
      BY <3>1, <3>2
  <2>8. ASSUME NEW i \in 1..Len(updates)
        PROVE  updates[i].turn \in Turns /\ updates[i].turn # t
    BY HandedOver
  <2>9. UpdatesHold'
    BY <2>2, <2>8 DEF RenewalInv, UpdatesHold
  <2>10. BornIsWritten'
    BY <2>2 DEF RenewalInv, BornIsWritten, Bearing
  <2>11. QED
    BY <2>4, <2>5, <2>7, <2>9, <2>10 DEF RenewalInv
<1>5. QED
  BY <1>3, <1>4 DEF Renew

(* A stamped credential is handed to main by the turn that had it stamped.   *)
LEMMA ProfiledKeeps ==
  ASSUME RenewalInv, NEW t \in Turns, Profiled(t)
  PROVE  RenewalInv'
<1> DEFINE u == [turn |-> t, gen |-> turn[t].gen, stamped |-> TRUE]
<1> DEFINE n == Len(updates)
<1>1. turn[t] \in Held /\ turn \in [Turns -> Held] /\ turn[t].phase = "profiling"
  BY TurnTypes DEF RenewalInv, Profiled
<1>2. /\ turn' \in [Turns -> Held] /\ turn'[t].phase = "stamping"
      /\ turn'[t].gen = turn[t].gen
      /\ \A s \in Turns : s # t => turn'[s] = turn[s]
  BY <1>1 DEF Profiled, MoveTo, Held, Phases
<1>3. u \in Update /\ u.turn = t /\ u.gen = turn[t].gen
  BY <1>1 DEF Update, Held
<1>4. updates \in Seq(Update) /\ updates' = Append(updates, u)
  BY DEF RenewalInv, RenewalTypeOK, Update, Profiled
<1> HIDE DEF u
<1>5. /\ n \in Nat /\ Len(updates') = n + 1
      /\ updates'[n + 1] = u
      /\ updates' \in Seq(Update)
      /\ \A k \in 1..n : updates'[k] = updates[k]
  BY <1>3, <1>4 DEF Update
<1>6. RenewalTypeOK'
  BY <1>2, <1>5 DEF RenewalInv, RenewalTypeOK, Update, Held, Profiled
<1>7. MainAndProvider'
  BY DEF RenewalInv, MainAndProvider, Profiled
<1>8. ASSUME NEW g \in Gen, NEW i \in 1..Len(flight[g])
      PROVE  flight[g][i] \in Turns /\ flight[g][i] # t
  BY <1>1 DEF RenewalInv, RenewalTypeOK, FlightsHold
<1>9. FlightsHold'
  BY <1>2, <1>8 DEF RenewalInv, FlightsHold, Profiled
<1>10. ASSUME NEW i \in 1..n
       PROVE  updates[i].turn \in Turns /\ updates[i].turn # t
  BY <1>1, HandedOver
<1>11. UpdatesHold'
  <2> SUFFICES ASSUME NEW i \in 1..Len(updates')
               PROVE  /\ turn'[updates'[i].turn].phase \in {"storing", "stamping"}
                      /\ turn'[updates'[i].turn].gen = updates'[i].gen
                      /\ \A j \in 1..Len(updates') :
                            updates'[i].turn = updates'[j].turn => i = j
    BY DEF UpdatesHold
  <2>1. CASE i = n + 1
    <3>1. updates'[i] = u
      BY <2>1, <1>5
    <3>2. ASSUME NEW j \in 1..Len(updates'), j # i
          PROVE  updates'[j].turn # t
      <4>1. j \in 1..n /\ updates'[j] = updates[j]
        BY <2>1, <3>2, <1>5
      <4>2. QED
        BY <4>1, <1>10
    <3>3. QED
      BY <3>1, <3>2, <1>2, <1>3
  <2>2. CASE i \in 1..n
    <3>1. updates'[i] = updates[i] /\ updates[i].turn \in Turns /\ updates[i].turn # t
      BY <2>2, <1>5, <1>10
    <3>2. /\ turn[updates[i].turn].phase \in {"storing", "stamping"}
          /\ turn[updates[i].turn].gen = updates[i].gen
          /\ \A j \in 1..n : updates[i].turn = updates[j].turn => i = j
      BY <2>2 DEF RenewalInv, UpdatesHold
    <3>3. ASSUME NEW j \in 1..Len(updates'), updates'[i].turn = updates'[j].turn
          PROVE  i = j
      <4>1. j # n + 1
        BY <3>1, <3>3, <1>3, <1>5
      <4>2. j \in 1..n /\ updates'[j] = updates[j]
        BY <4>1, <1>5
      <4>3. QED
        BY <4>2, <3>1, <3>2, <3>3
    <3>4. QED
      BY <3>1, <3>2, <3>3, <1>2
  <2>3. QED
    BY <2>1, <2>2, <1>5
<1>12. BornIsWritten'
  BY <1>1, <1>2 DEF RenewalInv, BornIsWritten, Bearing, Profiled
<1>13. QED
  BY <1>6, <1>7, <1>9, <1>11, <1>12 DEF RenewalInv

(* What the provider and time do on their own touches no turn.               *)
LEMMA OutsideKeeps ==
  ASSUME RenewalAssumption, RenewalInv, NEW g \in Gen, Rotate(g) \/ Ages(g) \/ WaitOver(g)
  PROVE  RenewalInv'
<1>1. UNCHANGED <<stored, written, flight, standing, updates, turn>>
  BY DEF Rotate, Ages, WaitOver
<1>0. /\ MaxGen \in Nat /\ head \in Gen /\ rotated \subseteq Gen
      /\ aged \subseteq Gen /\ blocked \subseteq Gen
      /\ \A k \in rotated : k < head
  BY DEF RenewalInv, RenewalTypeOK, MainAndProvider, RenewalAssumption
<1>2. /\ head' \in Gen /\ rotated' \subseteq Gen
      /\ aged' \subseteq Gen /\ blocked' \subseteq Gen
      /\ \A k \in rotated' : k < head'
  <2>1. CASE Rotate(g)
    <3>1. /\ head' = head + 1 /\ head < MaxGen /\ g = head
          /\ rotated' = rotated \union {g} /\ UNCHANGED <<aged, blocked>>
      BY <2>1 DEF Rotate
    <3>2. head' \in Gen /\ rotated' \subseteq Gen
      BY <1>0, <3>1 DEF Gen
    <3>3. ASSUME NEW k \in rotated'
          PROVE  k < head'
      <4>1. k \in Gen /\ (k < head \/ k = head)
        BY <1>0, <3>1, <3>2
      <4>2. QED
        BY <4>1, <3>1, <1>0 DEF Gen
    <3>4. QED
      BY <1>0, <3>1, <3>2, <3>3
  <2>2. CASE Ages(g)
    BY <2>2, <1>0 DEF Ages
  <2>3. CASE WaitOver(g)
    BY <2>3, <1>0 DEF WaitOver
  <2>4. QED
    BY <2>1, <2>2, <2>3
<1>3. RenewalTypeOK'
  BY <1>1, <1>2 DEF RenewalInv, RenewalTypeOK
<1>4. MainAndProvider'
  BY <1>1, <1>2 DEF RenewalInv, MainAndProvider
<1>5. FlightsHold' /\ UpdatesHold' /\ BornIsWritten'
  BY <1>1 DEF RenewalInv, FlightsHold, UpdatesHold, BornIsWritten
<1>6. QED
  BY <1>3, <1>4, <1>5 DEF RenewalInv

(* The turns that waited for a renewal all leave together, so no other lane  *)
(* and nothing already handed to main is about one of them.                 *)
LEMMA LandingKeeps ==
  ASSUME RenewalInv, NEW g \in Gen, NEW p \in {"storing", "failed"}, NEW n \in Gen,
         Landed(g), blocked' \subseteq Gen,
         turn' = [t \in Turns |-> IF turn[t].phase = "renewing" /\ turn[t].gen = g
                                 THEN [turn[t] EXCEPT !.phase = p, !.gen = n] ELSE turn[t]],
         UNCHANGED <<stored, written, head, aged, standing>>
  PROVE  /\ turn' \in [Turns -> Held] /\ MainAndProvider' /\ FlightsHold' /\ BornIsWritten'
         /\ flight' \in [Gen -> Seq(Turns)] /\ rotated' \subseteq Gen
         /\ \A t \in Turns : turn[t].phase # "renewing" => turn'[t] = turn[t]
<1>1. turn \in [Turns -> Held] /\ flight \in [Gen -> Seq(Turns)] /\ rotated \subseteq Gen
  BY DEF RenewalInv, RenewalTypeOK, Held
<1>2. flight' = [flight EXCEPT ![g] = <<>>] /\ rotated' = rotated \ {g}
  BY DEF Landed
<1>3. turn' \in [Turns -> Held]
  <2>1. ASSUME NEW t \in Turns
        PROVE  turn[t] \in Held /\ [turn[t] EXCEPT !.phase = p, !.gen = n] \in Held
    <3>1. turn[t] \in Held /\ p \in Phases
      BY <1>1 DEF Phases
    <3>2. QED
      BY <3>1 DEF Held
  <2>2. QED
    BY <2>1
<1>4. \A t \in Turns : turn[t].phase # "renewing" => turn'[t] = turn[t]
  OBVIOUS
<1>5. MainAndProvider'
  BY <1>2 DEF RenewalInv, MainAndProvider
<1>6. FlightsHold'
  <2> SUFFICES ASSUME NEW h \in Gen, NEW i \in 1..Len(flight'[h])
               PROVE  /\ turn'[flight'[h][i]].phase = "renewing"
                      /\ turn'[flight'[h][i]].gen = h
                      /\ \A j \in 1..Len(flight'[h]) :
                            flight'[h][i] = flight'[h][j] => i = j
    BY DEF FlightsHold
  <2>0. flight'[g] = <<>> /\ \A k \in Gen : k # g => flight'[k] = flight[k]
    BY <1>1, <1>2
  <2>1. h # g /\ flight'[h] = flight[h]
    <3>1. ASSUME h = g PROVE FALSE
      <4>1. i \in 1..Len(<<>>)
        BY <2>0, <3>1
      <4>2. QED
        BY <4>1, NothingWaits
    <3>2. h # g
      BY <3>1
    <3>3. QED
      BY <2>0, <3>2
  <2>2. /\ turn[flight[h][i]].phase = "renewing" /\ turn[flight[h][i]].gen = h
        /\ \A j \in 1..Len(flight[h]) : flight[h][i] = flight[h][j] => i = j
    BY <2>1 DEF RenewalInv, FlightsHold
  <2>5. flight[h][i] \in Turns
    <3>1. flight[h] \in Seq(Turns) /\ i \in 1..Len(flight[h])
      BY <2>1, <1>1
    <3>2. QED
      BY <3>1, ElementsAreTyped
  <2>3. turn'[flight[h][i]] = turn[flight[h][i]]
    BY <2>1, <2>2, <2>5
  <2>4. QED
    BY <2>1, <2>2, <2>3
<1>7. BornIsWritten'
  <2>1. ASSUME NEW t \in Turns, turn'[t].phase \in Bearing
        PROVE  turn'[t].gen \in written
    <3>1. turn[t] \in Held
      BY <1>1
    <3>2. CASE turn[t].phase = "renewing" /\ turn[t].gen = g
      BY <3>1, <3>2, <2>1 DEF Held, Bearing
    <3>3. CASE ~(turn[t].phase = "renewing" /\ turn[t].gen = g)
      BY <3>3, <2>1 DEF RenewalInv, BornIsWritten
    <3>4. QED
      BY <3>2, <3>3
  <2>2. QED
    BY <2>1 DEF BornIsWritten
<1>8. flight' \in [Gen -> Seq(Turns)] /\ rotated' \subseteq Gen
  <2>1. <<>> \in Seq(Turns)
    BY NothingWaits
  <2>2. QED
    BY <1>1, <1>2, <2>1
<1>9. QED
  BY <1>3, <1>4, <1>5, <1>6, <1>7, <1>8

(* A renewal that fails throws in every turn that waited. *)
LEMMA RenewalFailsKeeps ==
  ASSUME RenewalInv, NEW g \in Gen, RenewalFails(g)
  PROVE  RenewalInv'
<1>1. turn \in [Turns -> Held] /\ blocked \subseteq Gen
  BY DEF RenewalInv, RenewalTypeOK, Held
<1>2. ASSUME NEW t \in Turns, turn[t].gen = g
      PROVE  [turn[t] EXCEPT !.phase = "failed"]
             = [turn[t] EXCEPT !.phase = "failed", !.gen = g]
  BY <1>1, <1>2 DEF Held
<1>3. turn' = [t \in Turns |-> IF turn[t].phase = "renewing" /\ turn[t].gen = g
                              THEN [turn[t] EXCEPT !.phase = "failed", !.gen = g]
                              ELSE turn[t]]
  BY <1>2 DEF RenewalFails
<1>4. /\ Landed(g) /\ blocked' \subseteq Gen
      /\ UNCHANGED <<stored, written, head, aged, standing, updates>>
  BY <1>1 DEF RenewalFails
<1>5. /\ turn' \in [Turns -> Held] /\ MainAndProvider' /\ FlightsHold' /\ BornIsWritten'
      /\ flight' \in [Gen -> Seq(Turns)] /\ rotated' \subseteq Gen
      /\ \A t \in Turns : turn[t].phase # "renewing" => turn'[t] = turn[t]
  BY <1>3, <1>4, LandingKeeps
<1>6. RenewalTypeOK'
  BY <1>4, <1>5 DEF RenewalInv, RenewalTypeOK, Held
<1>7. UpdatesHold'
  <2>1. ASSUME NEW i \in 1..Len(updates)
        PROVE  turn'[updates[i].turn] = turn[updates[i].turn]
    BY <1>5, HandedOver
  <2>2. QED
    BY <1>4, <2>1 DEF RenewalInv, UpdatesHold
<1>8. QED
  BY <1>5, <1>6, <1>7 DEF RenewalInv

(* A turn that waits in a flight holds the token being renewed.              *)
LEMMA WaitingHolds ==
  ASSUME RenewalInv, NEW g \in Gen, NEW i \in 1..Len(flight[g])
  PROVE  /\ flight[g][i] \in Turns
         /\ turn[flight[g][i]].phase = "renewing" /\ turn[flight[g][i]].gen = g
         /\ \A j \in 1..Len(flight[g]) : flight[g][i] = flight[g][j] => i = j
<1>1. flight[g] \in Seq(Turns)
  BY DEF RenewalInv, RenewalTypeOK
<1>2. flight[g][i] \in Turns
  BY <1>1, ElementsAreTyped
<1>3. QED
  BY <1>2 DEF RenewalInv, FlightsHold

(* What a renewal hands over comes behind what main was handed before.       *)
LEMMA RenewedHandsOver ==
  ASSUME RenewalAssumption, RenewalInv, NEW g \in Gen, Renewed(g)
  PROVE  /\ g + 1 \in Gen /\ updates' \in Seq(Update)
         /\ Len(updates') = Len(updates) + Len(flight[g])
         /\ \A i \in 1..Len(updates) : updates'[i] = updates[i]
         /\ \A i \in (Len(updates) + 1)..(Len(updates) + Len(flight[g])) :
                /\ i - Len(updates) \in 1..Len(flight[g])
                /\ updates'[i].turn = flight[g][i - Len(updates)]
                /\ updates'[i].gen = g + 1
<1> DEFINE m == Len(updates)
<1> DEFINE k == Len(flight[g])
<1> DEFINE h == HandOver(g)
<1>1. /\ turn \in [Turns -> Held] /\ flight[g] \in Seq(Turns) /\ updates \in Seq(Update)
      /\ m \in Nat /\ k \in Nat
  BY DEF RenewalInv, RenewalTypeOK, Held, Update
<1>2. g + 1 \in Gen
  <2>1. head \in Gen /\ g < head /\ MaxGen \in Nat
    BY DEF Renewed, RenewalInv, RenewalTypeOK, MainAndProvider, RenewalAssumption
  <2>2. QED
    BY <2>1 DEF Gen
<1>3. /\ h \in Seq(Update) /\ Len(h) = k
      /\ \A i \in 1..k : h[i].turn = flight[g][i] /\ h[i].gen = g + 1
  <2>1. DOMAIN flight[g] = 1..k
    BY <1>1
  <2>2. \A i \in 1..k : turn[flight[g][i]].stamped \in BOOLEAN
    BY <1>1, WaitingHolds DEF Held
  <2>3. h = [i \in 1..k |-> [turn |-> flight[g][i], gen |-> g + 1,
                            stamped |-> turn[flight[g][i]].stamped]]
    BY <2>1 DEF HandOver
  <2> HIDE DEF h
  <2>4. h \in [1..k -> Update]
    BY <2>2, <2>3, <1>2, WaitingHolds DEF Update
  <2>5. h \in Seq(Update) /\ Len(h) = k
    BY <2>4, <1>1
  <2>6. QED
    BY <2>3, <2>5
<1> HIDE DEF h
<1>4. /\ updates' \in Seq(Update) /\ Len(updates') = m + k
      /\ \A i \in 1..m : updates'[i] = updates[i]
      /\ \A i \in (m+1)..(m+k) : updates'[i] = h[i - m]
  <2>1. updates' = updates \o h
    BY DEF Renewed, h
  <2> HIDE DEF Update
  <2>2. updates \in Seq(Update) /\ h \in Seq(Update)
    BY <1>1, <1>3
  <2>3. /\ updates \o h \in Seq(Update) /\ Len(updates \o h) = m + Len(h)
        /\ \A i \in 1..m : (updates \o h)[i] = updates[i]
        /\ \A i \in (m+1)..(m+Len(h)) : (updates \o h)[i] = h[i - m]
    BY <2>2, QueuedBehind
  <2>4. Len(h) = k
    BY <1>3
  <2>5. QED
    BY <2>1, <2>3, <2>4
<1>5. ASSUME NEW i \in (m+1)..(m+k)
       PROVE  /\ i - m \in 1..k
              /\ updates'[i].turn = flight[g][i - m] /\ updates'[i].gen = g + 1
  <2>1. i - m \in 1..k
    BY <1>1
  <2>2. QED
    BY <2>1, <1>3, <1>4
<1>6. QED
  BY <1>2, <1>4, <1>5

(* Every turn that waited hands over the credential it now carries.          *)
LEMMA RenewedKeeps ==
  ASSUME RenewalAssumption, RenewalInv, NEW g \in Gen, Renewed(g)
  PROVE  RenewalInv'
<1> DEFINE m == Len(updates)
<1> DEFINE k == Len(flight[g])
<1>1. /\ turn \in [Turns -> Held] /\ blocked \subseteq Gen
      /\ flight[g] \in Seq(Turns) /\ updates \in Seq(Update)
      /\ m \in Nat /\ k \in Nat
  BY DEF RenewalInv, RenewalTypeOK, Held, Update
<1>2. g + 1 \in Gen
  BY RenewedHandsOver
<1>3. /\ Landed(g) /\ blocked' \subseteq Gen
      /\ UNCHANGED <<stored, written, head, aged, standing>>
      /\ turn' = [t \in Turns |-> IF turn[t].phase = "renewing" /\ turn[t].gen = g
                                THEN [turn[t] EXCEPT !.phase = "storing", !.gen = g + 1]
                                ELSE turn[t]]
  BY <1>1 DEF Renewed
<1>4. /\ turn' \in [Turns -> Held] /\ MainAndProvider' /\ FlightsHold' /\ BornIsWritten'
      /\ flight' \in [Gen -> Seq(Turns)] /\ rotated' \subseteq Gen
      /\ \A t \in Turns : turn[t].phase # "renewing" => turn'[t] = turn[t]
  BY <1>2, <1>3, LandingKeeps
<1>5. ASSUME NEW i \in 1..k
      PROVE  /\ flight[g][i] \in Turns
             /\ turn[flight[g][i]].phase = "renewing" /\ turn[flight[g][i]].gen = g
             /\ \A j \in 1..k : flight[g][i] = flight[g][j] => i = j
  BY WaitingHolds
<1>6. ASSUME NEW i \in 1..k
      PROVE  turn'[flight[g][i]].phase = "storing" /\ turn'[flight[g][i]].gen = g + 1
  <2>1. turn[flight[g][i]] \in Held
    BY <1>1, <1>5
  <2>2. turn'[flight[g][i]] = [turn[flight[g][i]] EXCEPT !.phase = "storing", !.gen = g + 1]
    BY <1>3, <1>5
  <2>3. QED
    BY <2>1, <2>2 DEF Held
<1>8. /\ updates' \in Seq(Update) /\ Len(updates') = m + k
      /\ \A i \in 1..m : updates'[i] = updates[i]
  BY RenewedHandsOver
<1>9. RenewalTypeOK'
  BY <1>3, <1>4, <1>8 DEF RenewalInv, RenewalTypeOK, Held, Update
<1>10. ASSUME NEW i \in 1..m
       PROVE  /\ updates'[i] = updates[i] /\ updates[i].turn \in Turns
              /\ turn'[updates[i].turn] = turn[updates[i].turn]
              /\ turn[updates[i].turn].phase \in {"storing", "stamping"}
              /\ turn[updates[i].turn].gen = updates[i].gen
              /\ \A j \in 1..m : updates[i].turn = updates[j].turn => i = j
  BY <1>4, <1>8, HandedOver DEF RenewalInv, UpdatesHold
<1>11. ASSUME NEW i \in (m+1)..(m+k)
       PROVE  /\ i - m \in 1..k
              /\ updates'[i].turn = flight[g][i - m] /\ updates'[i].gen = g + 1
  BY RenewedHandsOver
<1>12. UpdatesHold'
  <2> SUFFICES ASSUME NEW i \in 1..Len(updates')
               PROVE  /\ turn'[updates'[i].turn].phase \in {"storing", "stamping"}
                      /\ turn'[updates'[i].turn].gen = updates'[i].gen
                      /\ \A j \in 1..Len(updates') :
                            updates'[i].turn = updates'[j].turn => i = j
    BY DEF UpdatesHold
  <2>1. CASE i \in 1..m
    <3>1. ASSUME NEW j \in 1..Len(updates'), updates'[i].turn = updates'[j].turn
          PROVE  i = j
      <4>1. CASE j \in 1..m
        BY <4>1, <2>1, <3>1, <1>10
      <4>2. CASE j \in (m+1)..(m+k)
        <5>1. turn[updates'[j].turn].phase = "renewing"
          BY <4>2, <1>5, <1>11
        <5>2. turn[updates'[i].turn].phase # "renewing"
          BY <2>1, <1>10
        <5>3. QED
          BY <3>1, <5>1, <5>2
      <4>3. QED
        BY <4>1, <4>2, <1>1, <1>8
    <3>2. QED
      BY <2>1, <3>1, <1>10
  <2>2. CASE i \in (m+1)..(m+k)
    <3>1. ASSUME NEW j \in 1..Len(updates'), updates'[i].turn = updates'[j].turn
          PROVE  i = j
      <4>1. CASE j \in 1..m
        <5>1. turn[updates'[i].turn].phase = "renewing"
          BY <2>2, <1>5, <1>11
        <5>2. turn[updates'[j].turn].phase # "renewing"
          BY <4>1, <1>10
        <5>3. QED
          BY <3>1, <5>1, <5>2
      <4>2. CASE j \in (m+1)..(m+k)
        <5>1. flight[g][i - m] = flight[g][j - m] /\ i - m \in 1..k /\ j - m \in 1..k
          BY <2>2, <3>1, <4>2, <1>11
        <5>2. i - m = j - m
          BY <5>1, <1>5
        <5>3. QED
          BY <5>2, <2>2, <4>2, <1>1
      <4>3. QED
        BY <4>1, <4>2, <1>1, <1>8
    <3>2. i - m \in 1..k /\ updates'[i].turn = flight[g][i - m] /\ updates'[i].gen = g + 1
      BY <2>2, <1>11
    <3>3. PICK n : n = i - m
      OBVIOUS
    <3>4. n \in 1..k /\ updates'[i].turn = flight[g][n]
      BY <3>2, <3>3
    <3>5. /\ turn'[updates'[i].turn].phase \in {"storing", "stamping"}
          /\ turn'[updates'[i].turn].gen = updates'[i].gen
      BY <3>2, <3>4, <1>6
    <3>6. QED
      BY <3>1, <3>5
  <2>3. QED
    BY <2>1, <2>2, <1>1, <1>8
<1>13. QED
  BY <1>4, <1>9, <1>12 DEF RenewalInv

(* Main answers the turn at the head of what it was handed, and no other.    *)
LEMMA StoresKeep ==
  ASSUME RenewalAssumption, RenewalInv, NEW ok \in BOOLEAN, Stores(ok)
  PROVE  RenewalInv'
<1> DEFINE u == Head(updates)
<1> DEFINE m == Len(updates)
<1>1. /\ turn \in [Turns -> Held] /\ updates \in Seq(Update) /\ updates # <<>>
      /\ written \subseteq Gen /\ stored \in Blob /\ stored.gen \in written
      /\ standing \in [gen : 0..MaxGen, by : Turns \union {NoTurn}]
  BY DEF RenewalInv, RenewalTypeOK, Held, Update, Stores, MainAndProvider
<1>2. /\ m \in Nat /\ m > 0 /\ u = updates[1] /\ 1 \in 1..m
      /\ updates' = Tail(updates)
  BY <1>1 DEF Stores, Update
<1>3. /\ u \in Update /\ u.turn \in Turns /\ u.gen \in Gen /\ u.stamped \in BOOLEAN
      /\ turn[u.turn].phase \in {"storing", "stamping"} /\ turn[u.turn].gen = u.gen
  BY <1>2, HandedOver DEF Update
<1> HIDE DEF u
<1>4. /\ updates' \in Seq(Update) /\ Len(updates') = m - 1
      /\ \A i \in 1..(m - 1) : updates'[i] = updates[i + 1]
  <2> HIDE DEF Update
  <2>1. QED
    BY <1>1, <1>2
<1>5. ASSUME NEW i \in 1..(m - 1)
      PROVE  /\ i + 1 \in 1..m /\ updates[i + 1].turn \in Turns
             /\ updates[i + 1].turn # u.turn
             /\ turn[updates[i + 1].turn].phase \in {"storing", "stamping"}
             /\ turn[updates[i + 1].turn].gen = updates[i + 1].gen
             /\ \A j \in 1..(m - 1) : updates[i + 1].turn = updates[j + 1].turn => i = j
  <2>1. i + 1 \in 1..m /\ i + 1 # 1
    BY <1>2
  <2>2. \A j \in 1..m : updates[i + 1].turn = updates[j].turn => i + 1 = j
    BY <2>1 DEF RenewalInv, UpdatesHold
  <2>3. \A j \in 1..(m - 1) : j + 1 \in 1..m
    BY <1>2
  <2>4. updates[i + 1].turn # u.turn
    BY <2>1, <2>2, <1>2
  <2>5. \A j \in 1..(m - 1) : updates[i + 1].turn = updates[j + 1].turn => i = j
    BY <2>2, <2>3, <1>2
  <2>6. QED
    BY <2>1, <2>4, <2>5, HandedOver
<1>6. PICK r \in Held :
         /\ turn' = [turn EXCEPT ![u.turn] = r]
         /\ r.phase \in {"clear", "ready", "failed"}
         /\ r.phase # "failed" => ok /\ r.gen = u.gen
  <2>1. turn[u.turn] \in Held
    BY <1>1, <1>3
  <2>2. CASE ok /\ turn[u.turn].phase = "stamping"
    <3> DEFINE q == [turn[u.turn] EXCEPT !.phase = "clear", !.stamped = TRUE,
                                         !.minted = "yes"]
    <3>1. q \in Held /\ q.phase = "clear" /\ q.gen = u.gen
      BY <2>1, <1>3 DEF Held, Phases
    <3>2. turn' = [turn EXCEPT ![u.turn] = q]
      BY <2>2 DEF Stores, u
    <3> HIDE DEF q
    <3>3. QED
      BY <3>1, <3>2, <2>2
  <2>3. CASE ok /\ turn[u.turn].phase # "stamping"
    <3> DEFINE p == IF turn[u.turn].again THEN "clear" ELSE "ready"
    <3> DEFINE q == [turn[u.turn] EXCEPT !.phase = p]
    <3>1. q \in Held /\ q.phase \in {"clear", "ready"} /\ q.gen = u.gen
      BY <2>1, <1>3 DEF Held, Phases
    <3>2. turn' = [turn EXCEPT ![u.turn] = q]
      BY <2>3 DEF Stores, u
    <3> HIDE DEF q
    <3>3. QED
      BY <3>1, <3>2, <2>3
  <2>4. CASE ~ok
    <3> DEFINE q == [turn[u.turn] EXCEPT !.phase = "failed"]
    <3>1. q \in Held /\ q.phase = "failed"
      BY <2>1 DEF Held, Phases
    <3>2. turn' = [turn EXCEPT ![u.turn] = q]
      BY <2>4, <1>1 DEF Stores, u
    <3> HIDE DEF q
    <3>3. QED
      BY <3>1, <3>2
  <2>5. QED
    BY <2>2, <2>3, <2>4
<1>7. turn' \in [Turns -> Held] /\ turn'[u.turn] = r
      /\ \A s \in Turns : s # u.turn => turn'[s] = turn[s]
  BY <1>1, <1>3, <1>6
<1>8. /\ stored' \in Blob /\ written' \subseteq Gen /\ written \subseteq written'
      /\ stored'.gen \in written' /\ (ok => u.gen \in written')
  BY <1>1, <1>3 DEF Stores, Blob, u
<1>9. standing' \in [gen : 0..MaxGen, by : Turns \union {NoTurn}]
  <2>1. standing' = standing \/ standing' = NoStanding
    BY DEF Stores
  <2>2. standing.gen \in 0..MaxGen /\ standing.by \in Turns \union {NoTurn}
    BY <1>1
  <2>3. CASE standing' = NoStanding
    <3>1. 0 \in 0..MaxGen
      BY DEF RenewalAssumption
    <3>2. QED
      BY <2>3, <3>1 DEF NoStanding
  <2>4. QED
    BY <1>1, <2>1, <2>3
<1>10. UNCHANGED <<head, rotated, aged, blocked, flight>>
  BY DEF Stores
<1>11. RenewalTypeOK'
  BY <1>4, <1>7, <1>8, <1>9, <1>10 DEF RenewalInv, RenewalTypeOK, Held, Update
<1>12. MainAndProvider'
  BY <1>8, <1>10 DEF RenewalInv, MainAndProvider
<1>13. FlightsHold'
  <2>1. ASSUME NEW g \in Gen, NEW i \in 1..Len(flight[g])
        PROVE  flight[g][i] \in Turns /\ flight[g][i] # u.turn
    <3>1. flight[g] \in Seq(Turns)
      BY DEF RenewalInv, RenewalTypeOK
    <3>2. flight[g][i] \in Turns /\ turn[flight[g][i]].phase = "renewing"
      BY <3>1, ElementsAreTyped DEF RenewalInv, FlightsHold
    <3>3. QED
      BY <3>2, <1>3
  <2>2. QED
    BY <1>7, <1>10, <2>1 DEF RenewalInv, FlightsHold
<1>14. UpdatesHold'
  BY <1>4, <1>5, <1>7 DEF UpdatesHold
<1>15. BornIsWritten'
  <2>1. ASSUME NEW s \in Turns, turn'[s].phase \in Bearing
        PROVE  turn'[s].gen \in written'
    <3>1. CASE s = u.turn
      BY <2>1, <3>1, <1>6, <1>7, <1>8 DEF Bearing
    <3>2. CASE s # u.turn
      BY <2>1, <3>2, <1>7, <1>8 DEF RenewalInv, BornIsWritten
    <3>3. QED
      BY <3>1, <3>2
  <2>2. QED
    BY <2>1 DEF BornIsWritten
<1>16. QED
  BY <1>11, <1>12, <1>13, <1>14, <1>15 DEF RenewalInv

(* Every step of the lane, one lemma each. *)
LEMMA RenewalSteps ==
  ASSUME RenewalAssumption, RenewalInv, [Next]_vars
  PROVE  RenewalInv'
<1>1. ASSUME NEW t \in Turns, Ready(t)
      PROVE  RenewalInv'
  <2>1. CASE Renew(t, FALSE)
    BY <1>1, <2>1, JoiningKeeps DEF Ready
  <2>2. CASE MoveTo(t, "ready") /\ UNCHANGED flight
    <3>1. turn[t] \in Held
      BY TurnTypes DEF RenewalInv
    <3>2. [turn[t] EXCEPT !.phase = "ready"] \in Held
      BY <3>1 DEF Held, Phases
    <3>3. [turn[t] EXCEPT !.phase = "ready"].gen = turn[t].gen /\ turn[t].gen \in written
      BY <1>1, <3>1 DEF Ready, RenewalInv, BornIsWritten, Bearing, Held
    <3>4. standing \in [gen : 0..MaxGen, by : Turns \union {NoTurn}]
      BY DEF RenewalInv, RenewalTypeOK
    <3>5. QED
      BY <1>1, <2>2, <3>2, <3>3, <3>4, OneTurnMoves DEF Ready, MoveTo
  <2>3. QED
    BY <1>1, <2>1, <2>2 DEF Ready
<1>2. ASSUME NEW t \in Turns, Unauthorized(t)
      PROVE  RenewalInv'
  BY <1>2, JoiningKeeps DEF Unauthorized
<1>3. CASE UNCHANGED vars
  BY <1>3 DEF vars, RenewalInv, RenewalTypeOK, MainAndProvider, FlightsHold, UpdatesHold,
              BornIsWritten
<1>4. CASE Stored \/ StoreFails
  BY <1>4, StoresKeep DEF Stored, StoreFails
<1>5. ASSUME NEW t \in Turns, Ask(t) \/ TurnSteps(t) \/ ProfileFails(t) \/ Unauthorized(t)
      PROVE  RenewalInv'
  BY <1>1, <1>2, <1>5, LoneMovesKeep, ProfiledKeeps DEF TurnSteps
<1>6. ASSUME NEW g \in Gen, Rotate(g) \/ Answers(g) \/ Ages(g) \/ WaitOver(g)
      PROVE  RenewalInv'
  BY <1>6, OutsideKeeps, RenewedKeeps, RenewalFailsKeeps DEF Answers
<1>7. QED
  BY <1>3, <1>4, <1>5, <1>6 DEF Next

(* A turn that is out at the provider carries a credential main has kept:    *)
(* what the provider rotates is never spent before the disk holds it.        *)
THEOREM NothingIsSpentUnkept == RenewalAssumption /\ Spec => []DurableBeforeSpent
<1>1. RenewalAssumption /\ Init => RenewalInv
  BY RenewalStarts
<1>2. RenewalAssumption /\ RenewalInv /\ [Next]_vars => RenewalInv'
  BY RenewalSteps
<1>3. RenewalInv => DurableBeforeSpent
  BY DEF RenewalInv, BornIsWritten, Bearing, DurableBeforeSpent, InPhase
<1>4. RenewalAssumption => RenewalAssumption'
  OBVIOUS
<1>5. QED
  BY <1>1, <1>2, <1>3, <1>4, PTL DEF Spec

-----------------------------------------------------------------------------
(* The chain of rotations is kept in order from the provider to the disk,    *)
(* whatever Claude's turns stamp; of another plan nobody stamps anything.    *)

NoneIsStamped == \A t \in Turns : turn[t].phase \notin {"profiling", "stamping"}

(* Nobody but the provider has a rotation past this one.                     *)
NoneIsPast(g) ==
    /\ stored.gen <= g
    /\ \A t \in Turns : turn[t].gen <= g
    /\ \A i \in 1..Len(updates) : updates[i].gen <= g

(* The provider is one rotation ahead of everybody while the answer to it    *)
(* is to come, and somebody waits for that answer.                          *)
RotationsAreAnswered ==
    /\ NoneIsPast(head)
    /\ \A g \in rotated : head = g + 1 /\ flight[g] # <<>> /\ NoneIsPast(g)

(* What is on its way to main from a renewal is no older than what it keeps  *)
(* and what was handed over before.                                        *)
FromARenewal(i) == turn[updates[i].turn].phase = "storing"
HandedOverInOrder ==
    \A i \in 1..Len(updates) : FromARenewal(i) =>
        /\ stored.gen <= updates[i].gen
        /\ \A j \in 1..Len(updates) : j <= i => updates[j].gen <= updates[i].gen

ChainInv ==
    /\ RotationsAreAnswered /\ HandedOverInOrder
    /\ ~Claude => NoneIsStamped /\ TheChainIsKept

LEMMA ChainStarts == RenewalAssumption /\ Init => ChainInv
BY DEF RenewalAssumption, Init, ChainInv, NoneIsStamped, RotationsAreAnswered, NoneIsPast,
       HandedOverInOrder, TheChainIsKept, Away

(* What is handed over stays where no turn comes to wait for it.             *)
LEMMA OrderIsKept ==
  ASSUME RenewalInv, ChainInv, stored' = stored, updates' = updates,
         \A u \in Turns : turn'[u].phase = "storing" => turn[u].phase = "storing"
  PROVE  HandedOverInOrder'
<1>1. \A i \in 1..Len(updates) : updates[i].turn \in Turns
  BY HandedOver
<1>2. \A i \in 1..Len(updates) : FromARenewal(i)' => FromARenewal(i)
  BY <1>1 DEF FromARenewal
<1>3. QED
  BY <1>2 DEF ChainInv, HandedOverInOrder

(* A turn moves with the rotation it holds, or with the one main keeps.      *)
LEMMA MovesKeepTheChain ==
  ASSUME RenewalInv, ChainInv, NEW t \in Turns, NEW r \in Held,
         turn' = [turn EXCEPT ![t] = r], r.gen = turn[t].gen \/ r.gen = stored.gen,
         r.phase # "storing", Claude \/ r.phase \notin {"profiling", "stamping"},
         stored' = stored, head' = head, rotated' = rotated, updates' = updates,
         \A g \in Gen : flight[g] # <<>> => flight'[g] # <<>>
  PROVE  ChainInv'
<1>1. turn \in [Turns -> Held] /\ rotated \subseteq Gen
  BY DEF RenewalInv, RenewalTypeOK, Held
<1>2. \A u \in Turns : turn'[u] = IF u = t THEN r ELSE turn[u]
  BY <1>1
<1>3. ~Claude => NoneIsStamped'
  BY <1>2 DEF ChainInv, NoneIsStamped
<1>4. \A g : NoneIsPast(g) => NoneIsPast(g)'
  BY <1>2 DEF NoneIsPast
<1>5. RotationsAreAnswered'
  BY <1>1, <1>4 DEF ChainInv, RotationsAreAnswered
<1>6. HandedOverInOrder' /\ (~Claude => TheChainIsKept')
  BY <1>2, OrderIsKept DEF ChainInv, TheChainIsKept
<1>7. QED
  BY <1>3, <1>5, <1>6 DEF ChainInv

(* A stamp is handed over with the rotation its turn holds, in no order.     *)
LEMMA StampingKeepsTheChain ==
  ASSUME RenewalAssumption, RenewalInv, ChainInv, NEW t \in Turns, Profiled(t)
  PROVE  ChainInv'
<1> DEFINE m == Len(updates)
<1>1. PICK stamp, r :
        /\ stamp = [turn |-> t, gen |-> turn[t].gen, stamped |-> TRUE]
        /\ r = [turn[t] EXCEPT !.phase = "stamping"]
  OBVIOUS
<1>2. /\ turn[t].phase = "profiling" /\ turn' = [turn EXCEPT ![t] = r]
      /\ updates' = Append(updates, stamp)
      /\ UNCHANGED <<stored, head, rotated, flight>>
  BY <1>1 DEF Profiled, MoveTo
<1>3. turn \in [Turns -> Held] /\ turn[t] \in Held
  BY TurnTypes DEF RenewalInv
<1>4. /\ stamp \in Update /\ stamp.turn = t /\ stamp.gen = turn[t].gen
      /\ r \in Held /\ r.gen = turn[t].gen /\ r.phase = "stamping"
  BY <1>1, <1>3 DEF Update, Held, Phases
<1>5. /\ updates \in Seq(Update) /\ m \in Nat
  BY DEF RenewalInv, RenewalTypeOK, Update
<1>6. /\ Len(updates') = m + 1 /\ updates'[m + 1] = stamp
      /\ \A i \in 1..m : updates'[i] = updates[i]
      /\ \A i \in 1..(m + 1) : i \in 1..m \/ i = m + 1
  <2> HIDE DEF Update
  <2> QED
    BY <1>2, <1>4, <1>5
<1>7. \A u \in Turns : turn'[u] = IF u = t THEN r ELSE turn[u]
  BY <1>2, <1>3
<1>8. \A c : NoneIsPast(c) => NoneIsPast(c)'
  BY <1>2, <1>4, <1>6, <1>7 DEF NoneIsPast
<1>9. RotationsAreAnswered'
  BY <1>2, <1>8 DEF ChainInv, RotationsAreAnswered
<1>10. ASSUME NEW i \in 1..Len(updates'), FromARenewal(i)'
       PROVE  i \in 1..m /\ FromARenewal(i)
  <2>1. i # m + 1
    BY <1>4, <1>6, <1>7, <1>10 DEF FromARenewal
  <2>2. i \in 1..m /\ updates[i].turn \in Turns
    BY <1>6, <2>1, HandedOver
  <2>3. QED
    BY <1>4, <1>6, <1>7, <1>10, <2>2 DEF FromARenewal
<1>11. HandedOverInOrder'
  <2>1. ASSUME NEW i \in 1..Len(updates'), FromARenewal(i)'
        PROVE  /\ stored.gen <= updates'[i].gen
               /\ \A j \in 1..Len(updates') : j <= i => updates'[j].gen <= updates'[i].gen
    <3>1. i \in 1..m /\ FromARenewal(i)
      BY <1>10, <2>1
    <3>2. \A j \in 1..Len(updates') : j <= i => j \in 1..m
      BY <1>5, <1>6, <3>1
    <3>3. QED
      BY <1>6, <3>1, <3>2 DEF ChainInv, HandedOverInOrder
  <2>2. QED
    BY <1>2, <2>1 DEF HandedOverInOrder
<1>12. Claude
  BY <1>2 DEF ChainInv, NoneIsStamped
<1>13. QED
  BY <1>9, <1>11, <1>12 DEF ChainInv

(* Asking, being granted, joining a renewal and going out.                  *)
LEMMA TurnsKeepTheChain ==
  ASSUME RenewalAssumption, RenewalInv, ChainInv, NEW t \in Turns,
         Ask(t) \/ TurnSteps(t) \/ ProfileFails(t) \/ Unauthorized(t)
  PROVE  ChainInv'
<1>1. turn[t] \in Held /\ turn \in [Turns -> Held] /\ stored \in Blob
      /\ flight \in [Gen -> Seq(Turns)] /\ turn[t].gen \in Gen
  BY TurnTypes DEF RenewalInv, RenewalTypeOK, Held
<1>2. ASSUME NEW p \in Phases \ {"storing"}, MoveTo(t, p),
             Claude \/ p \notin {"profiling", "stamping"},
             stored' = stored, head' = head, rotated' = rotated, updates' = updates,
             flight' = flight
      PROVE  ChainInv'
  <2> DEFINE r == [turn[t] EXCEPT !.phase = p]
  <2>1. r \in Held /\ r.gen = turn[t].gen /\ r.phase = p
    BY <1>1 DEF Held
  <2>2. turn' = [turn EXCEPT ![t] = r]
    BY <1>2 DEF MoveTo
  <2> HIDE DEF r
  <2>3. QED
    BY <1>2, <2>1, <2>2, MovesKeepTheChain
<1>3. ASSUME NEW again \in BOOLEAN, Renew(t, again),
             stored' = stored, head' = head, rotated' = rotated, updates' = updates
      PROVE  ChainInv'
  <2> DEFINE r == [turn[t] EXCEPT !.phase = "renewing", !.again = again]
  <2>0. CASE Claude /\ turn[t].gen \in blocked
    BY <1>2, <1>3, <2>0 DEF Renew, Phases
  <2> SUFFICES ASSUME ~(Claude /\ turn[t].gen \in blocked) PROVE ChainInv'
    BY <2>0
  <2>1. r \in Held /\ r.gen = turn[t].gen /\ r.phase = "renewing"
    BY <1>1 DEF Held, Phases
  <2>2. /\ turn' = [turn EXCEPT ![t] = r]
        /\ flight' = [flight EXCEPT ![turn[t].gen] = Append(@, t)]
    BY <1>3 DEF Renew
  <2>3. \A g \in Gen : flight[g] # <<>> => flight'[g] # <<>>
    <3> DEFINE s == flight[turn[t].gen]
    <3>1. s \in Seq(Turns)
      BY <1>1
    <3> HIDE DEF s
    <3>2. Append(s, t) # <<>>
      BY <3>1
    <3>3. \A g \in Gen : flight'[g] = IF g = turn[t].gen THEN Append(s, t) ELSE flight[g]
      BY <1>1, <2>2 DEF s
    <3>4. QED
      BY <3>2, <3>3
  <2> HIDE DEF r
  <2>4. QED
    BY <1>3, <2>1, <2>2, <2>3, MovesKeepTheChain
<1>4. CASE Ask(t)
  BY <1>2, <1>4 DEF Ask, Phases
<1>5. CASE Resolve(t)
  <2> DEFINE r == [turn[t] EXCEPT !.phase = "granted", !.gen = stored.gen,
                                  !.stamped = stored.stamped]
  <2>1. r \in Held /\ r.gen = stored.gen /\ r.phase = "granted"
    BY <1>1 DEF Held, Phases, Blob
  <2>2. turn' = [turn EXCEPT ![t] = r]
    BY <1>5 DEF Resolve
  <2> HIDE DEF r
  <2>3. QED
    BY <1>5, <2>1, <2>2, MovesKeepTheChain DEF Resolve
<1>6. CASE Ready(t)
  BY <1>2, <1>3, <1>6 DEF Ready, Phases
<1>7. CASE Identify(t)
  <2>1. CASE MoveTo(t, "clear")
    BY <1>2, <1>7, <2>1 DEF Identify, Phases
  <2>2. CASE Claude /\ MoveTo(t, "profiling")
    BY <1>2, <1>7, <2>2 DEF Identify, Phases
  <2>3. CASE Claude /\ turn' = [turn EXCEPT ![t].phase = "waiting", ![t].by = standing.by]
    <3> DEFINE r == [turn[t] EXCEPT !.phase = "waiting", !.by = standing.by]
    <3>1. r \in Held /\ r.gen = turn[t].gen /\ r.phase = "waiting"
      <4>1. standing.by \in Turns \union {NoTurn}
        BY DEF RenewalInv, RenewalTypeOK
      <4>2. QED
        BY <1>1, <4>1 DEF Held, Phases
    <3>2. turn' = [turn EXCEPT ![t] = r]
      BY <2>3
    <3> HIDE DEF r
    <3>3. QED
      BY <1>7, <2>3, <3>1, <3>2, MovesKeepTheChain DEF Identify
  <2>4. QED
    BY <1>7, <2>1, <2>2, <2>3 DEF Identify
<1>8. CASE Profiled(t) \/ ProfileFails(t)
  <2>1. CASE Profiled(t)
    BY <2>1, StampingKeepsTheChain
  <2>2. CASE ProfileFails(t)
    <3>1. Claude \/ turn[t].phase # "profiling"
      BY DEF ChainInv, NoneIsStamped
    <3>2. QED
      BY <1>2, <2>2 DEF ProfileFails, Phases
  <2>3. QED
    BY <1>8, <2>1, <2>2
<1>9. CASE Share(t)
  <2>1. CASE MoveTo(t, "failed")
    BY <1>2, <1>9, <2>1 DEF Share, Phases
  <2>2. CASE turn' = [turn EXCEPT ![t].phase = "clear", ![t].stamped = TRUE]
    <3> DEFINE r == [turn[t] EXCEPT !.phase = "clear", !.stamped = TRUE]
    <3>1. r \in Held /\ r.gen = turn[t].gen /\ r.phase = "clear"
      BY <1>1 DEF Held, Phases
    <3>2. turn' = [turn EXCEPT ![t] = r]
      BY <2>2
    <3> HIDE DEF r
    <3>3. QED
      BY <1>9, <3>1, <3>2, MovesKeepTheChain DEF Share
  <2>3. QED
    BY <1>9, <2>1, <2>2 DEF Share
<1>10. CASE Send(t)
  BY <1>2, <1>10 DEF Send, Phases
<1>11. CASE Answered(t)
  BY <1>2, <1>11 DEF Answered, Phases
<1>12. CASE Unauthorized(t)
  BY <1>3, <1>12 DEF Unauthorized
<1>13. QED
  BY <1>4, <1>5, <1>6, <1>7, <1>8, <1>9, <1>10, <1>11, <1>12 DEF TurnSteps

(* The numbers the chain is told in. *)
LEMMA ChainNumbers ==
  ASSUME RenewalAssumption, RenewalInv
  PROVE  /\ head \in Nat /\ stored.gen \in Nat /\ rotated \subseteq Nat
         /\ \A t \in Turns : turn[t].gen \in Nat
         /\ Len(updates) \in Nat
         /\ \A i \in 1..Len(updates) : updates[i].gen \in Nat
<1>1. \A i \in 1..Len(updates) : updates[i] \in Update
  BY HandedOver
<1>2. \A i \in 1..Len(updates) : updates[i].gen \in Nat
  BY <1>1 DEF Gen, Update
<1>3. head \in Nat /\ stored.gen \in Nat /\ rotated \subseteq Nat
  BY DEF RenewalInv, RenewalTypeOK, Gen, Blob
<1>4. \A t \in Turns : turn[t].gen \in Nat
  BY TurnTypes DEF RenewalInv, Held, Gen
<1>5. Len(updates) \in Nat
  BY DEF RenewalInv, RenewalTypeOK
<1>6. QED
  BY <1>2, <1>3, <1>4, <1>5

(* The provider rotates: it had not, or nobody would hold its newest.        *)
LEMMA RotatingKeepsTheChain ==
  ASSUME RenewalAssumption, RenewalInv, ChainInv, NEW g \in Gen, Rotate(g)
  PROVE  ChainInv'
<1>1. /\ head \in Gen /\ head \in Nat /\ stored.gen \in Nat
      /\ \A t \in Turns : turn[t].gen \in Nat
      /\ \A i \in 1..Len(updates) : updates[i].gen \in Nat
      /\ flight[g] \in Seq(Turns)
  BY ChainNumbers DEF RenewalInv, RenewalTypeOK
<1>2. PICK t \in Turns : turn[t].gen = head
  <2>1. 1 \in 1..Len(flight[g])
    BY <1>1 DEF Rotate
  <2>2. flight[g][1] \in Turns /\ turn[flight[g][1]].gen = g
    BY <1>1, <2>1, ElementsAreTyped DEF RenewalInv, FlightsHold
  <2>3. QED
    BY <2>2 DEF Rotate
<1>3. rotated = {}
  <2>1. ASSUME NEW k \in rotated
        PROVE  FALSE
    <3>1. k \in Nat /\ head = k + 1
      BY DEF RenewalInv, RenewalTypeOK, Gen, ChainInv, RotationsAreAnswered
    <3>2. turn[t].gen <= k
      BY DEF ChainInv, RotationsAreAnswered, NoneIsPast
    <3>3. QED
      BY <3>1, <3>2, <1>2
  <2>2. QED
    BY <2>1
<1>4. /\ head' = head + 1 /\ rotated' = {head} /\ flight[head] # <<>>
      /\ stored' = stored /\ turn' = turn /\ updates' = updates /\ flight' = flight
  BY <1>3 DEF Rotate
<1>5. NoneIsPast(head)
  BY DEF ChainInv, RotationsAreAnswered
<1>6. NoneIsPast(head)' /\ (\A h \in rotated' : NoneIsPast(h)')
  BY <1>1, <1>4, <1>5 DEF NoneIsPast
<1>7. RotationsAreAnswered'
  BY <1>1, <1>4, <1>6 DEF RotationsAreAnswered
<1>8. TheChainIsKept'
  BY <1>1, <1>4 DEF TheChainIsKept
<1>9. (~Claude => NoneIsStamped') /\ HandedOverInOrder'
  BY <1>4, OrderIsKept DEF ChainInv, NoneIsStamped
<1>10. QED
  BY <1>7, <1>8, <1>9 DEF ChainInv

(* The answer comes: what it hands over is the newest, behind everything     *)
(* that was handed over before, and nobody is left waiting for a rotation.   *)
LEMMA AnsweringKeepsTheChain ==
  ASSUME RenewalAssumption, RenewalInv, ChainInv, NEW g \in Gen, Renewed(g)
  PROVE  ChainInv'
<1> DEFINE m == Len(updates)
<1> DEFINE k == Len(flight[g])
<1>1. /\ head \in Nat /\ stored.gen \in Nat /\ g \in Nat /\ m \in Nat /\ k \in Nat
      /\ \A t \in Turns : turn[t].gen \in Nat
      /\ \A i \in 1..m : updates[i].gen \in Nat
  BY ChainNumbers DEF Gen, RenewalInv, RenewalTypeOK
<1>2. /\ g \in rotated /\ head = g + 1 /\ flight[g] # <<>> /\ NoneIsPast(g)
      /\ \A c \in rotated : c = g
  <2>1. g \in rotated /\ \A c \in rotated : head = c + 1 /\ c \in Nat
    BY ChainNumbers DEF Renewed, ChainInv, RotationsAreAnswered
  <2>2. QED
    BY <1>1, <2>1 DEF ChainInv, RotationsAreAnswered
<1>3. stored' = stored /\ head' = head /\ rotated' = {}
  BY <1>2 DEF Renewed, Landed
<1>4. /\ Len(updates') = m + k
      /\ \A i \in 1..m : updates'[i] = updates[i] /\ updates[i].gen <= g
      /\ \A i \in (m+1)..(m+k) : updates'[i].gen = g + 1
  BY <1>2, RenewedHandsOver DEF NoneIsPast
<1>5. ASSUME NEW t \in Turns
      PROVE  turn'[t].gen \in {turn[t].gen, g + 1}
             /\ turn'[t].phase \in {turn[t].phase, "storing"}
             /\ (turn[t].phase # "renewing" => turn'[t].phase = turn[t].phase)
  <2>1. turn[t] \in Held
    BY TurnTypes DEF RenewalInv
  <2>2. CASE turn[t].phase = "renewing" /\ turn[t].gen = g
    <3>1. turn'[t] = [turn[t] EXCEPT !.phase = "storing", !.gen = g + 1]
      BY <2>2 DEF Renewed
    <3>2. QED
      BY <2>1, <2>2, <3>1 DEF Held
  <2>3. CASE ~(turn[t].phase = "renewing" /\ turn[t].gen = g)
    BY <2>3 DEF Renewed
  <2>4. QED
    BY <2>2, <2>3
<1>6. ~Claude => NoneIsStamped'
  BY <1>5 DEF ChainInv, NoneIsStamped
<1>7. ASSUME NEW i \in 1..Len(updates')
      PROVE  i \in 1..m \/ i \in (m+1)..(m+k)
  BY <1>1, <1>4
<1>8. RotationsAreAnswered'
  <2>1. \A t \in Turns : turn'[t].gen <= g + 1
    BY <1>1, <1>2, <1>5 DEF NoneIsPast
  <2>2. \A i \in 1..Len(updates') : updates'[i].gen <= g + 1
    BY <1>1, <1>4, <1>7
  <2>3. stored'.gen <= g + 1
    BY <1>1, <1>2, <1>3 DEF NoneIsPast
  <2>4. QED
    BY <1>2, <1>3, <2>1, <2>2, <2>3 DEF RotationsAreAnswered, NoneIsPast
<1>9. HandedOverInOrder'
  <2>1. ASSUME NEW i \in 1..Len(updates'), FromARenewal(i)'
        PROVE  stored.gen <= updates'[i].gen
               /\ \A j \in 1..Len(updates') : j <= i => updates'[j].gen <= updates'[i].gen
    <3>1. CASE i \in 1..m
      <4>0. FromARenewal(i) /\ updates'[i] = updates[i]
        <5>1. updates'[i] = updates[i] /\ updates[i].turn \in Turns
              /\ turn[updates[i].turn].phase \in {"storing", "stamping"}
          BY <1>4, <3>1, HandedOver
        <5>2. QED
          BY <1>5, <2>1, <5>1 DEF FromARenewal
      <4>1. updates'[i] = updates[i] /\ stored.gen <= updates[i].gen
        BY <3>1, <4>0 DEF ChainInv, HandedOverInOrder
      <4>2. ASSUME NEW j \in 1..Len(updates'), j <= i
            PROVE  updates'[j].gen <= updates'[i].gen
        <5>1. j \in 1..m /\ updates'[j] = updates[j]
          BY <1>1, <1>4, <3>1, <4>2
        <5>2. updates[j].gen <= updates[i].gen
          BY <3>1, <4>0, <4>2, <5>1 DEF ChainInv, HandedOverInOrder
        <5>3. QED
          BY <4>1, <5>1, <5>2
      <4>3. QED
        BY <4>1, <4>2
    <3>2. CASE i \in (m+1)..(m+k)
      <4>1. updates'[i].gen = g + 1 /\ stored.gen <= g
        BY <1>2, <1>4, <3>2 DEF NoneIsPast
      <4>2. ASSUME NEW j \in 1..Len(updates')
            PROVE  updates'[j].gen <= g + 1
        <5>1. CASE j \in 1..m
          <6>1. updates'[j].gen \in Nat /\ updates'[j].gen <= g
            BY <1>1, <1>4, <5>1
          <6>2. QED
            BY <1>1, <6>1
        <5>2. CASE j \in (m+1)..(m+k)
          <6>1. updates'[j].gen = g + 1
            BY <1>4, <5>2
          <6>2. QED
            BY <1>1, <6>1
        <5>3. QED
          BY <1>7, <5>1, <5>2
      <4>3. QED
        BY <1>1, <4>1, <4>2
    <3>3. QED
      BY <3>1, <3>2, <1>7
  <2>2. QED
    BY <1>3, <2>1 DEF HandedOverInOrder
<1>10. TheChainIsKept'
  <2>1. updates' \in Seq(Update) /\ k > 0
    <3>1. flight[g] \in Seq(Turns)
      BY DEF RenewalInv, RenewalTypeOK
    <3>2. QED
      BY <3>1, <1>2, RenewedHandsOver
  <2>2. m + 1 \in DOMAIN updates' /\ updates'[m + 1].gen = head'
    <3>1. m + 1 \in 1..(m + k) /\ m + 1 \in (m+1)..(m+k)
      BY <1>1, <2>1
    <3>2. DOMAIN updates' = 1..(m + k)
      <4> HIDE DEF Update
      <4> QED
        BY <1>4, <2>1
    <3>3. QED
      BY <3>1, <3>2, <1>2, <1>3, <1>4
  <2>3. QED
    BY <2>2 DEF TheChainIsKept
<1>11. QED
  BY <1>6, <1>8, <1>9, <1>10 DEF ChainInv

(* A renewal that fails loses a rotation only with the answer to it.         *)
LEMMA FailingKeepsTheChain ==
  ASSUME RenewalAssumption, RenewalInv, ChainInv, NEW g \in Gen, RenewalFails(g)
  PROVE  ChainInv'
<1>1. /\ stored' = stored /\ head' = head /\ updates' = updates
      /\ rotated' = rotated \ {g} /\ (g \in rotated => Loses)
      /\ flight' = [flight EXCEPT ![g] = <<>>] /\ flight \in [Gen -> Seq(Turns)]
      /\ rotated \subseteq Gen
  BY DEF RenewalFails, Landed, RenewalInv, RenewalTypeOK
<1>2. ASSUME NEW t \in Turns
      PROVE  turn'[t].gen = turn[t].gen /\ turn'[t].phase \in {turn[t].phase, "failed"}
  <2>1. turn[t] \in Held
    BY TurnTypes DEF RenewalInv
  <2>2. [turn[t] EXCEPT !.phase = "failed"].gen = turn[t].gen
        /\ [turn[t] EXCEPT !.phase = "failed"].phase = "failed"
    BY <2>1 DEF Held
  <2>3. turn'[t] = turn[t] \/ turn'[t] = [turn[t] EXCEPT !.phase = "failed"]
    BY DEF RenewalFails
  <2>4. QED
    BY <2>2, <2>3
<1>3. \A c : NoneIsPast(c) => NoneIsPast(c)'
  BY <1>1, <1>2 DEF NoneIsPast
<1>4. ~Claude => NoneIsStamped'
  BY <1>2 DEF ChainInv, NoneIsStamped
<1>5. RotationsAreAnswered'
  BY <1>1, <1>3 DEF ChainInv, RotationsAreAnswered
<1>6. HandedOverInOrder'
  BY <1>1, <1>2, OrderIsKept
<1>7. ~Claude => TheChainIsKept'
  <2>1. CASE g \in rotated
    BY <1>1, <2>1 DEF TheChainIsKept
  <2>2. CASE g \notin rotated
    BY <1>1, <2>2 DEF ChainInv, TheChainIsKept
  <2>3. QED
    BY <2>1, <2>2
<1>8. QED
  BY <1>4, <1>5, <1>6, <1>7 DEF ChainInv

(* Main keeps the oldest it was handed, and everything behind it is newer.   *)
LEMMA StoringKeepsTheChain ==
  ASSUME RenewalAssumption, RenewalInv, ChainInv, NEW ok \in BOOLEAN, Stores(ok),
         ok \/ Refuses
  PROVE  ChainInv' /\ StoreMovesOn
<1> DEFINE u == Head(updates)
<1> DEFINE m == Len(updates)
<1>1. /\ updates \in Seq(Update) /\ updates # <<>> /\ turn \in [Turns -> Held]
      /\ updates' = Tail(updates)
  BY DEF RenewalInv, RenewalTypeOK, Update, Held, Stores
<1>2. /\ m \in Nat /\ m > 0 /\ u = updates[1] /\ 1 \in 1..m
      /\ Len(updates') = m - 1 /\ updates' \in Seq(Update)
      /\ \A i \in 1..(m - 1) : updates'[i] = updates[i + 1] /\ i + 1 \in 1..m
  <2> HIDE DEF Update
  <2> QED
    BY <1>1
<1>3. /\ u.turn \in Turns /\ u.gen \in Nat
      /\ turn[u.turn].phase \in {"storing", "stamping"}
      /\ turn[u.turn].phase = "stamping" => Claude
  BY <1>2, HandedOver, ChainNumbers DEF ChainInv, NoneIsStamped
<1>4. /\ head \in Nat /\ stored.gen \in Nat
      /\ \A i \in 1..m : updates[i].gen \in Nat
  BY ChainNumbers
<1>5. /\ head' = head /\ rotated' = rotated /\ flight' = flight
      /\ (IF ok THEN stored' = [gen |-> u.gen, stamped |-> u.stamped]
                ELSE stored' = stored)
  BY DEF Stores
<1>6. ASSUME NEW t \in Turns
      PROVE  turn'[t].gen = turn[t].gen
             /\ turn'[t].phase \in {turn[t].phase, "clear", "ready", "failed"}
  <2>1. turn[t] \in Held
    BY TurnTypes DEF RenewalInv
  <2>2. ASSUME NEW p \in {"clear", "ready", "failed"}
        PROVE  [turn[t] EXCEPT !.phase = p].gen = turn[t].gen
               /\ [turn[t] EXCEPT !.phase = p].phase = p
    BY <2>1 DEF Held
  <2>3. \/ turn'[t] = turn[t]
        \/ \E p \in {"clear", "ready", "failed"} : turn'[t] = [turn[t] EXCEPT !.phase = p]
        \/ turn'[t] = [turn[t] EXCEPT !.phase = "clear", !.stamped = TRUE, !.minted = "yes"]
    BY <1>1, <1>3 DEF Stores
  <2>4. /\ [turn[t] EXCEPT !.phase = "clear", !.stamped = TRUE, !.minted = "yes"].gen = turn[t].gen
        /\ [turn[t] EXCEPT !.phase = "clear", !.stamped = TRUE, !.minted = "yes"].phase = "clear"
    BY <2>1 DEF Held
  <2>5. QED
    BY <2>2, <2>3, <2>4
<1> HIDE DEF u
<1>7. /\ turn[u.turn].phase = "storing" => stored.gen <= u.gen
      /\ \A i \in 1..m :
           FromARenewal(i) => u.gen <= updates[i].gen /\ stored.gen <= updates[i].gen
  BY <1>2 DEF ChainInv, HandedOverInOrder, FromARenewal
<1>8. stored'.gen \in {stored.gen, u.gen} /\ (ok => stored'.gen = u.gen)
  BY <1>5
<1>9. StoreMovesOn
  BY <1>3, <1>4, <1>7, <1>8 DEF StoreMovesOn, u
<1>10. ~Claude => NoneIsStamped'
  BY <1>6 DEF ChainInv, NoneIsStamped
<1>11. ASSUME NEW c, NoneIsPast(c)
       PROVE  NoneIsPast(c)'
  <2>1. u.gen <= c
    BY <1>2, <1>11 DEF NoneIsPast
  <2>2. \A i \in 1..Len(updates') : updates'[i].gen <= c
    BY <1>2, <1>11 DEF NoneIsPast
  <2>3. stored'.gen <= c
    BY <1>8, <1>11, <2>1 DEF NoneIsPast
  <2>4. QED
    BY <1>6, <1>11, <2>2, <2>3 DEF NoneIsPast
<1>12. RotationsAreAnswered'
  BY <1>5, <1>11 DEF ChainInv, RotationsAreAnswered
<1>13. HandedOverInOrder'
  <2>1. ASSUME NEW i \in 1..(m - 1), FromARenewal(i)'
        PROVE  stored'.gen <= updates'[i].gen
               /\ \A j \in 1..(m - 1) : j <= i => updates'[j].gen <= updates'[i].gen
    <3>0. FromARenewal(i + 1)
      <4>1. i + 1 \in 1..m /\ updates'[i] = updates[i + 1]
        BY <1>2
      <4>2. updates[i + 1].turn \in Turns
        BY <4>1, HandedOver
      <4>3. QED
        BY <1>6, <2>1, <4>1, <4>2 DEF FromARenewal
    <3>1. stored'.gen <= updates'[i].gen
      BY <1>2, <1>7, <1>8, <3>0
    <3>2. ASSUME NEW j \in 1..(m - 1), j <= i
          PROVE  updates[j + 1].gen <= updates[i + 1].gen
      <4>1. j + 1 \in 1..m /\ i + 1 \in 1..m /\ j + 1 <= i + 1
        BY <1>2, <3>2
      <4>2. QED
        BY <3>0, <4>1 DEF ChainInv, HandedOverInOrder
    <3>3. QED
      BY <1>2, <3>1, <3>2
  <2>2. QED
    BY <1>2, <2>1 DEF HandedOverInOrder
<1>14. ~Claude => TheChainIsKept'
  <2> SUFFICES ASSUME ~Claude, ~Loses, ~Refuses
               PROVE  \/ head = stored'.gen
                      \/ \E i \in DOMAIN updates' : updates'[i].gen = head
                      \/ head - 1 \in rotated
    BY <1>5 DEF TheChainIsKept
  <2>1. stored'.gen = u.gen
    BY <1>8
  <2>2. DOMAIN updates' = 1..(m - 1) /\ DOMAIN updates = 1..m
    <3> HIDE DEF Update
    <3> QED
      BY <1>1, <1>2
  <2>3. CASE head = stored.gen
    <3>1. u.gen <= head
      BY <1>2 DEF ChainInv, RotationsAreAnswered, NoneIsPast
    <3>2. QED
      BY <1>3, <1>4, <1>7, <2>1, <2>3, <3>1
  <2>4. ASSUME NEW i \in 1..m, updates[i].gen = head
        PROVE  head = stored'.gen \/ \E j \in 1..(m - 1) : updates'[j].gen = head
    <3>1. CASE i = 1
      BY <1>2, <2>1, <2>4, <3>1
    <3>2. CASE i # 1
      <4>1. i - 1 \in 1..(m - 1) /\ (i - 1) + 1 = i
        BY <1>2, <3>2
      <4>2. QED
        BY <1>2, <2>4, <4>1
    <3>3. QED
      BY <3>1, <3>2
  <2>5. QED
    BY <2>2, <2>3, <2>4 DEF ChainInv, TheChainIsKept
<1>15. QED
  BY <1>9, <1>10, <1>12, <1>13, <1>14 DEF ChainInv

(* Every step keeps the chain, and no step but a stamp takes the store back.  *)
LEMMA ChainSteps ==
  ASSUME RenewalAssumption, RenewalInv, ChainInv, [Next]_vars
  PROVE  ChainInv' /\ [StoreMovesOn]_vars
<1>1. stored.gen \in Nat
  BY ChainNumbers
<1>2. stored' = stored => StoreMovesOn
  BY <1>1 DEF StoreMovesOn
<1>3. ASSUME NEW t \in Turns, Ask(t) \/ TurnSteps(t) \/ ProfileFails(t) \/ Unauthorized(t)
      PROVE  ChainInv' /\ stored' = stored
  <2>1. stored' = stored
    BY <1>3 DEF Ask, TurnSteps, ProfileFails, Unauthorized, Resolve, Ready, Identify,
                Profiled, Share, Send, Answered
  <2>2. QED
    BY <1>3, <2>1, TurnsKeepTheChain
<1>4. ASSUME NEW g \in Gen, Rotate(g) \/ Answers(g) \/ Ages(g) \/ WaitOver(g)
      PROVE  ChainInv' /\ stored' = stored
  <2>1. stored' = stored
    BY <1>4 DEF Rotate, Answers, Renewed, RenewalFails, Ages, WaitOver
  <2>2. CASE Ages(g) \/ WaitOver(g)
    BY <2>2 DEF Ages, WaitOver, ChainInv, NoneIsStamped, RotationsAreAnswered, NoneIsPast,
                HandedOverInOrder, FromARenewal, TheChainIsKept
  <2>3. QED
    BY <1>4, <2>1, <2>2, RotatingKeepsTheChain, AnsweringKeepsTheChain,
       FailingKeepsTheChain DEF Answers
<1>5. CASE Stored \/ StoreFails
  BY <1>5, StoringKeepsTheChain DEF Stored, StoreFails
<1>6. CASE UNCHANGED vars
  BY <1>6 DEF vars, ChainInv, NoneIsStamped, RotationsAreAnswered, NoneIsPast,
              HandedOverInOrder, FromARenewal, TheChainIsKept
<1>7. QED
  BY <1>2, <1>3, <1>4, <1>5, <1>6 DEF Next

(* While no answer is lost and the disk takes every write, the token the     *)
(* provider takes next is kept, on its way, or in the answer to come: a plan *)
(* that stamps nothing never has to be signed in to again.                  *)
THEOREM TheNextTokenIsNeverLost ==
  RenewalAssumption /\ ~Claude /\ Spec => []TheChainIsKept
<1>1. RenewalAssumption /\ Init => RenewalInv /\ ChainInv
  BY RenewalStarts, ChainStarts
<1>2. RenewalAssumption /\ RenewalInv /\ ChainInv /\ [Next]_vars
        => RenewalInv' /\ ChainInv'
  BY RenewalSteps, ChainSteps
<1>3. ~Claude /\ ChainInv => TheChainIsKept
  BY DEF ChainInv
<1>4. (RenewalAssumption => RenewalAssumption') /\ (~Claude => ~Claude')
  OBVIOUS
<1>5. QED
  BY <1>1, <1>2, <1>3, <1>4, PTL DEF Spec

(* What main keeps only ever moves forward along the chain of rotations, but  *)
(* for a stamp: a late renewal never puts an older credential over a newer    *)
(* one, even when answers are lost and writes refused.                      *)
THEOREM StoresNeverGoBack ==
  RenewalAssumption /\ Spec => [][StoreMovesOn]_vars
<1>1. RenewalAssumption /\ Init => RenewalInv /\ ChainInv
  BY RenewalStarts, ChainStarts
<1>2. RenewalAssumption /\ RenewalInv /\ ChainInv /\ [Next]_vars
        => RenewalInv' /\ ChainInv' /\ [StoreMovesOn]_vars
  BY RenewalSteps, ChainSteps
<1>3. RenewalAssumption => RenewalAssumption'
  OBVIOUS
<1>4. QED
  BY <1>1, <1>2, <1>3, PTL DEF Spec

(* Together, of any number of turns and rotations: every state is one the    *)
(* code can be in, nothing is spent unkept, and of a plan that stamps nothing *)
(* the next token is never lost.                                            *)
THEOREM RenewalsStayKept == RenewalAssumption /\ Spec => []RenewalsAreKept
<1>1. RenewalAssumption /\ Init => RenewalInv /\ ChainInv
  BY RenewalStarts, ChainStarts
<1>2. RenewalAssumption /\ RenewalInv /\ ChainInv /\ [Next]_vars => RenewalInv' /\ ChainInv'
  BY RenewalSteps, ChainSteps
<1>3. RenewalInv /\ ChainInv => RenewalsAreKept
  <2> SUFFICES ASSUME RenewalInv, ChainInv PROVE RenewalsAreKept
    OBVIOUS
  <2>1. RenewalTypeOK /\ BornIsWritten
    BY DEF RenewalInv
  <2>2. DurableBeforeSpent
    BY <2>1 DEF BornIsWritten, Bearing, DurableBeforeSpent, InPhase
  <2>3. ~Claude => TheChainIsKept
    BY DEF ChainInv
  <2>4. QED
    BY <2>1, <2>2, <2>3 DEF RenewalsAreKept
<1>4. RenewalAssumption => RenewalAssumption'
  OBVIOUS
<1>5. QED
  BY <1>1, <1>2, <1>3, <1>4, PTL DEF Spec

-----------------------------------------------------------------------------
(* The repair. Before its first part the active account's credential stands   *)
(* in the shared item alone; after it the person's login does, unless the     *)
(* part was cut between its two writes and left the credential in both.       *)

HomesAndSlots ==
    /\ \A a \in Accounts : home[a] \in {a, None} /\ slot[a] \in {a, None}
    /\ active # None => slot[active] = None

Sharings == {"mine", "shared", "writeMine", "parked", "restore"}

(* An account is carried from its slot to its home without a copy between.    *)
CarriedInOrder ==
    \A a \in Accounts :
        /\ carrying[a] \in {"to", "write", "remove"} => slot[a] = a
        /\ carrying[a] = "write" => home[a] = None
        /\ carrying[a] = "remove" => home[a] = a
        /\ carrying[a] = "done" => slot[a] = None
        /\ at \in Sharings => carrying[a] = "read"
        /\ at \in {"release", "carried"} => carrying[a] = "done"

NobodyActive ==
    active = None =>
        /\ at \notin Sharings
        /\ shared \in {None, Login} /\ reserved = None /\ ~cut

BeforeSharing ==
    active # None /\ home[active] = None =>
        /\ at \in {"off", "refused", "mine", "shared", "writeMine"} /\ ~cut
        /\ shared = active /\ reserved \in {None, Login}
        /\ at = "writeMine" => held = active

AfterSharing ==
    active # None /\ home[active] = active =>
        /\ at \notin {"shared", "writeMine"}
        /\ at \in {"parked", "restore"} => ~cut
        /\ cut \/ at \in {"parked", "restore"} => shared = active /\ reserved \in {None, Login}
        /\ at = "restore" => held = reserved
        /\ ~cut /\ at \notin {"parked", "restore"} =>
               shared \in {None, Login} /\ reserved \in {None, shared}

RepairInv ==
    /\ Repair!RepairTypeOK /\ HomesAndSlots /\ CarriedInOrder
    /\ NobodyActive /\ BeforeSharing /\ AfterSharing
    /\ at = "carried" => reserved = None

LEMMA RepairStarts == Repair!RepairAssumption /\ Repair!Init => RepairInv
<1> SUFFICES ASSUME Repair!RepairAssumption, Repair!Init
             PROVE  RepairInv
  OBVIOUS
<1>1. Accounts \union {None, Login} = Repair!Blobs
  BY DEF Repair!Blobs
<1>2. active = None \/ active \in Accounts
  BY DEF Repair!Init
<1>3. None \notin Accounts /\ Login \notin Accounts /\ None # Login
  BY DEF Repair!RepairAssumption
<1>4. /\ at = "off" /\ held = None /\ cut = FALSE /\ home = [a \in Accounts |-> None]
      /\ carrying = [a \in Accounts |-> "read"]
      /\ slot \in [Accounts -> Repair!Blobs] /\ \A a \in Accounts : slot[a] \in {None, a}
  BY DEF Repair!Init
<1>5. /\ active = None => shared \in {None, Login} /\ reserved = None
      /\ active # None => slot[active] = None /\ shared = active /\ reserved \in {None, Login}
  BY DEF Repair!Init
<1>6. Repair!RepairTypeOK
  <2>1. shared \in Repair!Blobs /\ reserved \in Repair!Blobs /\ held \in Repair!Blobs
    BY <1>1, <1>2, <1>4, <1>5
  <2>2. /\ home \in [Accounts -> Repair!Blobs] /\ carrying \in [Accounts -> Repair!CarrySteps]
        /\ cut \in BOOLEAN
    BY <1>1, <1>4 DEF Repair!CarrySteps
  <2>3. QED
    BY <1>2, <1>4, <2>1, <2>2 DEF Repair!RepairTypeOK, Repair!Steps
<1>7. HomesAndSlots /\ CarriedInOrder
  BY <1>4, <1>5 DEF HomesAndSlots, CarriedInOrder, Sharings
<1>8. NobodyActive /\ BeforeSharing /\ AfterSharing
  BY <1>2, <1>3, <1>4, <1>5 DEF NobodyActive, BeforeSharing, AfterSharing, Sharings
<1>9. QED
  BY <1>4, <1>6, <1>7, <1>8 DEF RepairInv

LEMMA RepairNames ==
  ASSUME Repair!RepairAssumption, RepairInv
  PROVE  /\ Accounts \union {None, Login} = Repair!Blobs
         /\ None \notin Accounts /\ Login \notin Accounts /\ None # Login
         /\ active = None \/ active \in Accounts
         /\ home \in [Accounts -> Repair!Blobs] /\ slot \in [Accounts -> Repair!Blobs]
         /\ carrying \in [Accounts -> Repair!CarrySteps]
         /\ shared \in Repair!Blobs /\ reserved \in Repair!Blobs /\ held \in Repair!Blobs
         /\ at \in Repair!Steps /\ cut \in BOOLEAN
BY DEF Repair!RepairAssumption, RepairInv, Repair!RepairTypeOK, Repair!Blobs

Keeps ==
    RepairInv' /\ Repair!Kept \ (IF cut THEN {None, Login} ELSE {None}) \subseteq (Repair!Kept)'

(* Where no item is written nothing is lost.                                 *)
LEMMA UnwrittenKept == ASSUME UNCHANGED Repair!items PROVE (Repair!Kept)' = Repair!Kept
BY DEF Repair!items, Repair!Kept

LEMMA ReadingKeeps ==
  ASSUME Repair!RepairAssumption, RepairInv, cut' = cut,
         \/ Repair!Launch \/ Repair!ReadMine \/ Repair!ReadShared \/ Repair!ReadParked
         \/ Repair!AllCarried
  PROVE  Keeps
<1>1. UNCHANGED Repair!items /\ active' = active
  BY DEF Repair!Launch, Repair!ReadMine, Repair!ReadShared, Repair!ReadParked,
         Repair!AllCarried
<1>2. shared' = shared /\ home' = home /\ slot' = slot /\ reserved' = reserved
  BY <1>1 DEF Repair!items
<1>3. \/ carrying' = carrying
      \/ carrying' = [a \in Accounts |-> "read"]
  BY DEF Repair!Launch, Repair!ReadMine, Repair!ReadShared, Repair!ReadParked,
         Repair!AllCarried
<1>4. /\ at' \in Repair!Steps /\ held' \in {held, None, shared, reserved}
      /\ carrying' \in [Accounts -> Repair!CarrySteps]
  <2>1. at' \in Repair!Steps /\ held' \in {held, None, shared, reserved}
    BY DEF Repair!Launch, Repair!ReadMine, Repair!ReadShared, Repair!ReadParked,
           Repair!AllCarried, Repair!Steps
  <2>2. QED
    BY <1>3, <2>1, RepairNames DEF Repair!CarrySteps
<1>5. Repair!RepairTypeOK'
  BY <1>1, <1>2, <1>4, RepairNames DEF Repair!RepairTypeOK
<1>6. HomesAndSlots'
  BY <1>1, <1>2 DEF RepairInv, HomesAndSlots
<1>7. HomesAndSlots /\ CarriedInOrder /\ NobodyActive /\ BeforeSharing /\ AfterSharing
  BY DEF RepairInv
<1>8. active # None => home[active] \in {active, None}
  BY <1>7, RepairNames DEF HomesAndSlots
<1>9. CASE Repair!Launch
  <2>1. /\ at \in {"off", "carried", "refused"} /\ at' = (IF active = None THEN "carry" ELSE "mine")
        /\ carrying' = [a \in Accounts |-> "read"]
    BY <1>9 DEF Repair!Launch
  <2>2. CarriedInOrder'
    BY <2>1, <1>2 DEF CarriedInOrder
  <2>3. NobodyActive' /\ BeforeSharing' /\ AfterSharing' /\ (at' = "carried" => reserved' = None)
    BY <2>1, <1>1, <1>2, <1>7 DEF NobodyActive, BeforeSharing, AfterSharing, Sharings
  <2>4. QED
    BY <1>1, <1>5, <1>6, <2>2, <2>3, UnwrittenKept DEF RepairInv, Keeps
<1>10. CASE Repair!ReadMine
  <2>1. /\ at = "mine" /\ at' = (IF home[active] # None THEN "carry" ELSE "shared")
        /\ carrying' = carrying
    BY <1>10 DEF Repair!ReadMine
  <2>2. active # None
    BY <2>1, <1>7 DEF NobodyActive, Sharings
  <2>3. CarriedInOrder'
    BY <2>1, <1>2, <1>7 DEF CarriedInOrder, Sharings
  <2>4. NobodyActive' /\ BeforeSharing' /\ AfterSharing' /\ (at' = "carried" => reserved' = None)
    BY <2>1, <2>2, <1>1, <1>2, <1>7, <1>8 DEF NobodyActive, BeforeSharing, AfterSharing, Sharings
  <2>5. QED
    BY <1>1, <1>5, <1>6, <2>3, <2>4, UnwrittenKept DEF RepairInv, Keeps
<1>11. CASE Repair!ReadShared
  <2>1. /\ at = "shared" /\ at' = (IF shared = None THEN "carry" ELSE "writeMine")
        /\ held' = shared /\ carrying' = carrying
    BY <1>11 DEF Repair!ReadShared
  <2>2. active # None /\ home[active] = None
    BY <2>1, <1>7, <1>8 DEF NobodyActive, AfterSharing, Sharings
  <2>3. shared = active
    BY <2>2, <1>7 DEF BeforeSharing
  <2>4. CarriedInOrder'
    BY <2>1, <1>2, <1>7 DEF CarriedInOrder, Sharings
  <2>5. NobodyActive' /\ BeforeSharing' /\ AfterSharing' /\ (at' = "carried" => reserved' = None)
    BY <2>1, <2>2, <2>3, <1>1, <1>2, <1>7 DEF NobodyActive, BeforeSharing, AfterSharing, Sharings
  <2>6. QED
    BY <1>1, <1>5, <1>6, <2>4, <2>5, UnwrittenKept DEF RepairInv, Keeps
<1>12. CASE Repair!ReadParked
  <2>1. /\ at = "parked" /\ at' = "restore" /\ held' = reserved /\ carrying' = carrying
    BY <1>12 DEF Repair!ReadParked
  <2>2. active # None /\ home[active] = active
    BY <2>1, <1>7, <1>8 DEF NobodyActive, BeforeSharing, Sharings
  <2>3. CarriedInOrder'
    BY <2>1, <1>2, <1>7 DEF CarriedInOrder, Sharings
  <2>4. NobodyActive' /\ BeforeSharing' /\ AfterSharing' /\ (at' = "carried" => reserved' = None)
    BY <2>1, <2>2, <1>1, <1>2, <1>7, RepairNames
       DEF NobodyActive, BeforeSharing, AfterSharing, Sharings
  <2>5. QED
    BY <1>1, <1>5, <1>6, <2>3, <2>4, UnwrittenKept DEF RepairInv, Keeps
<1>13. CASE Repair!AllCarried
  <2>1. /\ at = "carry" /\ at' \in {"release", "carried"}
        /\ \A a \in Accounts : carrying[a] = "done"
        /\ at' = "carried" => reserved = None
        /\ carrying' = carrying
    BY <1>13 DEF Repair!AllCarried
  <2>2. CarriedInOrder'
    BY <2>1, <1>2, <1>7 DEF CarriedInOrder, Sharings
  <2>3. NobodyActive' /\ BeforeSharing' /\ AfterSharing'
    BY <2>1, <1>1, <1>2, <1>7 DEF NobodyActive, BeforeSharing, AfterSharing, Sharings
  <2>4. QED
    BY <1>1, <1>2, <1>5, <1>6, <2>1, <2>2, <2>3, UnwrittenKept DEF RepairInv, Keeps
<1>14. QED
  BY <1>9, <1>10, <1>11, <1>12, <1>13

(* Wherever it stops, nothing is written; between the two writes of the first *)
(* part the shared item is left with the active account's credential.         *)
LEMMA StoppingKeeps ==
  ASSUME Repair!RepairAssumption, RepairInv, Repair!Stops
  PROVE  Keeps
<1>1. /\ at' \in {"off", "refused"} /\ held' = None
      /\ UNCHANGED <<active, shared, home, slot, reserved, carrying>> /\ UNCHANGED Repair!items
      /\ cut' = (cut \/ at \in {"parked", "restore"})
  BY DEF Repair!Stops, Repair!items
<1>2. HomesAndSlots /\ CarriedInOrder /\ NobodyActive /\ BeforeSharing /\ AfterSharing
  BY DEF RepairInv
<1>3. Repair!RepairTypeOK'
  BY <1>1, RepairNames DEF Repair!RepairTypeOK, Repair!Steps
<1>4. HomesAndSlots' /\ CarriedInOrder'
  BY <1>1, <1>2 DEF HomesAndSlots, CarriedInOrder, Sharings
<1>5. NobodyActive'
  BY <1>1, <1>2 DEF NobodyActive, Sharings
<1>6. BeforeSharing'
  BY <1>1, <1>2 DEF BeforeSharing
<1>7. AfterSharing'
  BY <1>1, <1>2, RepairNames DEF AfterSharing
<1>8. QED
  BY <1>1, <1>3, <1>4, <1>5, <1>6, <1>7, UnwrittenKept DEF RepairInv, Keeps

(* Nothing stood in the active account's home before its credential does, and *)
(* the credential stands there before the person's login takes its place.     *)
LEMMA SharingKeeps ==
  ASSUME Repair!RepairAssumption, RepairInv, cut' = cut, Repair!WriteMine \/ Repair!Restore
  PROVE  Keeps
<1>1. HomesAndSlots /\ CarriedInOrder /\ NobodyActive /\ BeforeSharing /\ AfterSharing
  BY DEF RepairInv
<1>2. at \in Sharings /\ at # "carried"
  BY DEF Repair!WriteMine, Repair!Restore, Sharings
<1>3. active \in Accounts /\ active # None
  BY <1>1, <1>2, RepairNames DEF NobodyActive
<1>4. home[active] \in {active, None}
  BY <1>1, <1>3 DEF HomesAndSlots
<1>5. \A a \in Accounts : carrying[a] = "read"
  BY <1>1, <1>2 DEF CarriedInOrder
<1>6. CASE Repair!WriteMine
  <2>1. /\ at = "writeMine" /\ home' = [home EXCEPT ![active] = held] /\ at' = "parked"
        /\ UNCHANGED <<active, shared, slot, reserved, held, carrying>>
    BY <1>6 DEF Repair!WriteMine
  <2>2. home[active] = None
    BY <1>1, <1>3, <1>4, <2>1 DEF AfterSharing
  <2>3. held = active /\ shared = active /\ reserved \in {None, Login} /\ ~cut
    BY <1>1, <1>3, <2>1, <2>2 DEF BeforeSharing
  <2>4. /\ home' \in [Accounts -> Repair!Blobs]
        /\ \A a \in Accounts : home'[a] = IF a = active THEN active ELSE home[a]
    BY <2>1, <2>3, RepairNames
  <2>5. Repair!RepairTypeOK'
    BY <2>1, <2>4, RepairNames DEF Repair!RepairTypeOK, Repair!Steps
  <2>6. HomesAndSlots' /\ CarriedInOrder'
    BY <1>1, <1>5, <2>1, <2>4 DEF HomesAndSlots, CarriedInOrder, Sharings
  <2>7. NobodyActive' /\ BeforeSharing' /\ AfterSharing'
    BY <1>3, <2>1, <2>3, <2>4 DEF NobodyActive, BeforeSharing, AfterSharing
  <2>8. Repair!Kept \ {None} \subseteq (Repair!Kept)'
    BY <2>1, <2>2, <2>4 DEF Repair!Kept
  <2>9. QED
    BY <2>1, <2>5, <2>6, <2>7, <2>8 DEF RepairInv, Keeps
<1>7. CASE Repair!Restore
  <2>1. /\ at = "restore" /\ shared' = held /\ held' = None /\ at' = "carry"
        /\ UNCHANGED <<active, home, slot, reserved, carrying>>
    BY <1>7 DEF Repair!Restore
  <2>2. home[active] = active
    BY <1>1, <1>3, <1>4, <2>1 DEF BeforeSharing
  <2>3. shared = active /\ held = reserved /\ reserved \in {None, Login} /\ ~cut
    BY <1>1, <1>3, <2>1, <2>2 DEF AfterSharing
  <2>4. Repair!RepairTypeOK'
    BY <2>1, RepairNames DEF Repair!RepairTypeOK, Repair!Steps
  <2>5. HomesAndSlots' /\ CarriedInOrder'
    BY <1>1, <1>5, <2>1 DEF HomesAndSlots, CarriedInOrder, Sharings
  <2>6. NobodyActive' /\ BeforeSharing' /\ AfterSharing'
    BY <1>3, <2>1, <2>2, <2>3 DEF NobodyActive, BeforeSharing, AfterSharing
  <2>7. Repair!Kept \ {None} \subseteq (Repair!Kept)'
    BY <1>3, <2>1, <2>2, <2>3 DEF Repair!Kept
  <2>8. QED
    BY <2>1, <2>4, <2>5, <2>6, <2>7 DEF RepairInv, Keeps
<1>8. QED
  BY <1>6, <1>7

(* A slot is emptied only once its home holds what stood there.               *)
LEMMA CarryingKeeps ==
  ASSUME Repair!RepairAssumption, RepairInv, cut' = cut, NEW a \in Accounts, Repair!Carrying(a)
  PROVE  Keeps
<1>1. HomesAndSlots /\ CarriedInOrder /\ NobodyActive /\ BeforeSharing /\ AfterSharing
  BY DEF RepairInv
<1>2. PICK s \in Repair!CarrySteps : carrying' = [carrying EXCEPT ![a] = s]
  BY DEF Repair!Carrying, Repair!ReadSlot, Repair!ReadHome, Repair!WriteHome,
         Repair!RemoveSlot, Repair!CarryTo, Repair!CarrySteps
<1>3. /\ at = "carry" /\ at' = at /\ active' = active /\ held' = held
      /\ shared' = shared /\ reserved' = reserved
  BY DEF Repair!Carrying, Repair!ReadSlot, Repair!ReadHome, Repair!WriteHome,
         Repair!RemoveSlot, Repair!items
<1>4. /\ carrying' \in [Accounts -> Repair!CarrySteps] /\ carrying'[a] = s
      /\ \A b \in Accounts : b # a => carrying'[b] = carrying[b]
  BY <1>2, RepairNames
<1>5. /\ home[a] \in {a, None} /\ slot[a] \in {a, None} /\ a # None
      /\ active # None => home[active] = active
  BY <1>1, <1>3, RepairNames DEF HomesAndSlots, BeforeSharing
<1>6. /\ carrying[a] \in {"to", "write", "remove"} => slot[a] = a
      /\ carrying[a] = "write" => home[a] = None
      /\ carrying[a] = "remove" => home[a] = a
  BY <1>1 DEF CarriedInOrder
<1>7. /\ home' \in [Accounts -> Repair!Blobs] /\ slot' \in [Accounts -> Repair!Blobs]
      /\ \A b \in Accounts : b # a => home'[b] = home[b] /\ slot'[b] = slot[b]
      /\ \/ /\ home'[a] = home[a] /\ slot'[a] = slot[a] /\ s = "done" /\ slot[a] = None
         \/ /\ home'[a] = home[a] /\ slot'[a] = slot[a] /\ s = "to" /\ slot[a] = a
         \/ /\ home'[a] = home[a] /\ slot'[a] = slot[a] /\ s = "write" /\ slot[a] = a
            /\ home[a] = None
         \/ /\ home'[a] = home[a] /\ slot'[a] = slot[a] /\ s = "remove" /\ slot[a] = a
            /\ home[a] = a
         \/ /\ home'[a] = a /\ slot'[a] = slot[a] /\ s = "remove" /\ slot[a] = a
            /\ home[a] = None
         \/ /\ home'[a] = home[a] /\ slot'[a] = None /\ s = "done" /\ slot[a] = a
            /\ home[a] = a
  <2>1. CASE Repair!ReadSlot(a)
    BY <2>1, <1>2, <1>4, <1>5, RepairNames DEF Repair!ReadSlot, Repair!CarryTo, Repair!items
  <2>2. CASE Repair!ReadHome(a)
    BY <2>2, <1>2, <1>4, <1>5, <1>6, RepairNames DEF Repair!ReadHome, Repair!CarryTo, Repair!items
  <2>3. CASE Repair!WriteHome(a)
    BY <2>3, <1>2, <1>4, <1>5, <1>6, RepairNames DEF Repair!WriteHome, Repair!CarryTo
  <2>4. CASE Repair!RemoveSlot(a)
    BY <2>4, <1>2, <1>4, <1>5, <1>6, RepairNames DEF Repair!RemoveSlot, Repair!CarryTo
  <2>5. QED
    BY <2>1, <2>2, <2>3, <2>4 DEF Repair!Carrying
<1>8. Repair!RepairTypeOK'
  BY <1>3, <1>4, <1>7, RepairNames DEF Repair!RepairTypeOK
<1>9. HomesAndSlots'
  <2>1. home'[a] \in {a, None} /\ slot'[a] \in {a, None} /\ slot'[a] \in {slot[a], None}
    BY <1>5, <1>7
  <2>2. \A b \in Accounts : home'[b] \in {b, None} /\ slot'[b] \in {b, None}
    BY <1>1, <1>7, <2>1 DEF HomesAndSlots
  <2>3. active # None => slot[active] = None /\ active \in Accounts
    BY <1>1, RepairNames DEF HomesAndSlots
  <2>4. active # None => slot'[active] = None
    BY <1>7, <2>1, <2>3
  <2>5. QED
    BY <1>3, <2>2, <2>4 DEF HomesAndSlots
<1>10. CarriedInOrder'
  BY <1>1, <1>3, <1>4, <1>5, <1>7 DEF CarriedInOrder, Sharings
<1>11. home'[a] = home[a] \/ (home[a] = None /\ home'[a] = a)
  BY <1>7
<1>12. active # None => home'[active] = active
  BY <1>5, <1>7, <1>11, RepairNames
<1>13. NobodyActive' /\ BeforeSharing' /\ AfterSharing'
  BY <1>1, <1>3, <1>5, <1>12 DEF NobodyActive, BeforeSharing, AfterSharing
<1>14. Repair!Kept \ {None} \subseteq (Repair!Kept)'
  BY <1>3, <1>7 DEF Repair!Kept
<1>15. QED
  BY <1>3, <1>8, <1>9, <1>10, <1>13, <1>14 DEF RepairInv, Keeps

(* What is let go of at the end is a login the shared item holds.             *)
LEMMA ReleasingKeeps ==
  ASSUME Repair!RepairAssumption, RepairInv, cut' = cut, Repair!Release
  PROVE  Keeps
<1>1. HomesAndSlots /\ CarriedInOrder /\ NobodyActive /\ BeforeSharing /\ AfterSharing
  BY DEF RepairInv
<1>2. /\ at = "release" /\ reserved' = None /\ at' = "carried"
      /\ UNCHANGED <<active, shared, home, slot, held, carrying>>
  BY DEF Repair!Release
<1>3. active # None => home[active] = active
  BY <1>1, <1>2, RepairNames DEF HomesAndSlots, BeforeSharing
<1>4. reserved \in {None, IF cut THEN Login ELSE shared}
  BY <1>1, <1>2, <1>3 DEF NobodyActive, AfterSharing
<1>5. Repair!RepairTypeOK'
  BY <1>2, RepairNames DEF Repair!RepairTypeOK, Repair!Steps
<1>6. HomesAndSlots' /\ CarriedInOrder'
  BY <1>1, <1>2 DEF HomesAndSlots, CarriedInOrder, Sharings
<1>7. NobodyActive' /\ BeforeSharing' /\ AfterSharing'
  BY <1>1, <1>2, <1>3, RepairNames DEF NobodyActive, BeforeSharing, AfterSharing, Sharings
<1>8. Repair!Kept \ (IF cut THEN {None, Login} ELSE {None}) \subseteq (Repair!Kept)'
  BY <1>2, <1>4 DEF Repair!Kept
<1>9. QED
  BY <1>2, <1>5, <1>6, <1>7, <1>8 DEF RepairInv, Keeps

LEMMA RepairSteps ==
  ASSUME Repair!RepairAssumption, RepairInv, [Repair!Next]_(Repair!vars)
  PROVE  /\ RepairInv'
         /\ [Repair!Kept \ (IF cut THEN {None, Login} ELSE {None})
               \subseteq (Repair!Kept)']_(Repair!vars)
<1>1. CASE UNCHANGED Repair!vars
  <2>1. UNCHANGED <<active, shared, home, slot, reserved, at, held, carrying, cut>>
    BY <1>1 DEF Repair!vars, Repair!items
  <2>2. RepairInv'
    BY <2>1 DEF RepairInv, Repair!RepairTypeOK, HomesAndSlots, CarriedInOrder, NobodyActive,
                BeforeSharing, AfterSharing
  <2>3. QED
    BY <1>1, <2>2
<1>2. CASE Repair!Next
  <2>1. Keeps
    BY <1>2, ReadingKeeps, SharingKeeps, CarryingKeeps, ReleasingKeeps, StoppingKeeps
       DEF Repair!Next, Repair!Sharing
  <2>2. QED
    BY <2>1 DEF Keeps
<1>3. QED
  BY <1>1, <1>2

LEMMA RepairMeans ==
  ASSUME Repair!RepairAssumption, RepairInv
  PROVE  Repair!RepairTypeOK /\ Repair!EachHoldsItsOwn
<1> SUFFICES ASSUME at = "carried"
             PROVE  /\ \A a \in Accounts : home[a] \in {a, None} /\ slot[a] = None
                    /\ shared \in IF cut THEN {active} ELSE {Login, None}
                    /\ reserved = None
  BY DEF RepairInv, Repair!EachHoldsItsOwn
<1>1. active # None => home[active] = active
  BY RepairNames DEF RepairInv, HomesAndSlots, BeforeSharing
<1>2. shared \in IF cut THEN {active} ELSE {Login, None}
  BY <1>1 DEF RepairInv, NobodyActive, AfterSharing
<1>3. QED
  BY <1>2 DEF RepairInv, HomesAndSlots, CarriedInOrder

-----------------------------------------------------------------------------
(* A plan a person's own tool keeps. What the lane found ageing is ageing     *)
(* still as the tool runs, unless the store moved since.                     *)

AdoptedInv ==
    /\ Adopted!AdoptedTypeOK
    /\ step # "waits" => toolLane # <<>>
    /\ step = "checked" => store = "ageing" \/ moved

LEMMA AdoptedStarts == Adopted!AdoptedAssumption /\ Adopted!Init => AdoptedInv
<1> SUFFICES ASSUME Adopted!AdoptedAssumption, Adopted!Init
             PROVE  AdoptedInv
  OBVIOUS
<1>1. toolTurn \in [Turns -> [phase : Adopted!Phases, read : Adopted!Blobs, got : Adopted!Blobs]]
  <2>1. Adopted!Away \in [phase : Adopted!Phases, read : Adopted!Blobs, got : Adopted!Blobs]
    BY DEF Adopted!Away, Adopted!Phases, Adopted!Blobs
  <2>2. QED
    BY <2>1 DEF Adopted!Init
<1>2. /\ store \in Adopted!Blobs /\ toolFile \in BOOLEAN /\ ages \in 0..MaxAges
      /\ toolLane \in Seq(Turns) /\ step = "waits" /\ moved \in BOOLEAN
  <2>1. /\ store \in Adopted!Blobs /\ toolFile \in BOOLEAN /\ ages = 0 /\ toolLane = <<>>
        /\ step = "waits" /\ moved = FALSE
    BY DEF Adopted!Init
  <2>2. 0 \in 0..MaxAges
    BY DEF Adopted!AdoptedAssumption
  <2>3. <<>> \in Seq(Turns)
    OBVIOUS
  <2>4. QED
    BY <2>1, <2>2, <2>3
<1>3. QED
  BY <1>1, <1>2 DEF AdoptedInv, Adopted!AdoptedTypeOK

LEMMA ServingIsTyped ==
  ASSUME AdoptedInv, NEW t \in Turns, NEW blob \in Adopted!Blobs
  PROVE  Adopted!Serve(t, blob) \in
             [Turns -> [phase : Adopted!Phases, read : Adopted!Blobs, got : Adopted!Blobs]]
BY DEF AdoptedInv, Adopted!AdoptedTypeOK, Adopted!Serve, Adopted!Phases

LEMMA PhasesAreTyped ==
  ASSUME AdoptedInv, NEW t \in Turns, NEW phase \in Adopted!Phases
  PROVE  [toolTurn EXCEPT ![t].phase = phase] \in
             [Turns -> [phase : Adopted!Phases, read : Adopted!Blobs, got : Adopted!Blobs]]
BY DEF AdoptedInv, Adopted!AdoptedTypeOK

LEMMA LeavingIsTyped ==
  ASSUME AdoptedInv, toolLane # <<>>, NEW renewed \in BOOLEAN, Adopted!Leave(renewed)
  PROVE  /\ toolLane' \in Seq(Turns) /\ step' = "waits"
         /\ toolTurn' \in
             [Turns -> [phase : Adopted!Phases, read : Adopted!Blobs, got : Adopted!Blobs]]
<1>1. toolLane \in Seq(Turns) /\ Head(toolLane) \in Turns /\ Tail(toolLane) \in Seq(Turns)
  BY DEF AdoptedInv, Adopted!AdoptedTypeOK
<1>2. toolTurn[Head(toolLane)].read \in Adopted!Blobs
  BY <1>1 DEF AdoptedInv, Adopted!AdoptedTypeOK
<1>3. "rereading" \in Adopted!Phases
  BY DEF Adopted!Phases
<1>4. QED
  BY <1>1, <1>2, <1>3, ServingIsTyped, PhasesAreTyped DEF Adopted!Leave

LEMMA AdoptedSteps ==
  ASSUME Adopted!AdoptedAssumption, AdoptedInv, [Adopted!Next]_(Adopted!vars)
  PROVE  /\ AdoptedInv'
         /\ [step # "runs" /\ step' = "runs" => store = "ageing" \/ moved]_(Adopted!vars)
<1>1. /\ store \in Adopted!Blobs /\ toolFile \in BOOLEAN /\ ages \in 0..MaxAges
      /\ toolLane \in Seq(Turns) /\ step \in {"waits", "checked", "runs"}
      /\ toolTurn \in
             [Turns -> [phase : Adopted!Phases, read : Adopted!Blobs, got : Adopted!Blobs]]
      /\ moved \in BOOLEAN /\ MaxAges \in Nat
      /\ step # "waits" => toolLane # <<>>
      /\ step = "checked" => store = "ageing" \/ moved
  BY DEF AdoptedInv, Adopted!AdoptedTypeOK, Adopted!AdoptedAssumption
<1>2. CASE UNCHANGED Adopted!vars
  BY <1>2 DEF Adopted!vars, AdoptedInv, Adopted!AdoptedTypeOK
<1>3. ASSUME NEW t \in Turns, Adopted!Ask(t) \/ Adopted!Reread(t)
      PROVE  AdoptedInv' /\ step' = step
  <2>1. {"reading"} \subseteq Adopted!Phases
    BY DEF Adopted!Phases
  <2>2. UNCHANGED <<store, toolFile, ages, toolLane, step, moved>>
    BY <1>3 DEF Adopted!Ask, Adopted!Reread
  <2>3. toolTurn' \in
             [Turns -> [phase : Adopted!Phases, read : Adopted!Blobs, got : Adopted!Blobs]]
    <3>1. CASE Adopted!Ask(t)
      BY <2>1, <3>1, PhasesAreTyped DEF Adopted!Ask
    <3>2. CASE Adopted!Reread(t)
      BY <1>1, <3>2, ServingIsTyped DEF Adopted!Reread
    <3>3. QED
      BY <1>3, <3>1, <3>2
  <2>4. QED
    BY <1>1, <2>2, <2>3 DEF AdoptedInv, Adopted!AdoptedTypeOK
<1>4. ASSUME NEW t \in Turns, Adopted!Read(t)
      PROVE  AdoptedInv' /\ step' = step
  <2>1. UNCHANGED <<store, toolFile, ages, step, moved>>
    BY <1>4 DEF Adopted!Read
  <2>2. /\ toolTurn' \in
             [Turns -> [phase : Adopted!Phases, read : Adopted!Blobs, got : Adopted!Blobs]]
        /\ toolLane' \in {toolLane, Append(toolLane, t)}
    <3>1. CASE store = "ageing"
      <4>1. "queued" \in Adopted!Phases
        BY DEF Adopted!Phases
      <4>2. toolTurn' = [toolTurn EXCEPT ![t].phase = "queued", ![t].read = store]
            /\ toolLane' = Append(toolLane, t)
        BY <1>4, <3>1 DEF Adopted!Read
      <4>3. QED
        BY <1>1, <4>1, <4>2
    <3>2. CASE store # "ageing"
      BY <1>1, <1>4, <3>2, ServingIsTyped DEF Adopted!Read
    <3>3. QED
      BY <3>1, <3>2
  <2>3. toolLane' \in Seq(Turns) /\ (toolLane # <<>> => toolLane' # <<>>)
    <3>1. Append(toolLane, t) \in Seq(Turns) /\ Append(toolLane, t) # <<>>
      BY <1>1
    <3>2. QED
      BY <1>1, <2>2, <3>1
  <2>4. QED
    BY <1>1, <2>1, <2>2, <2>3 DEF AdoptedInv, Adopted!AdoptedTypeOK
<1>5. CASE Adopted!Stale
  <2>1. /\ toolLane # <<>> /\ step = "waits" /\ moved' = FALSE
        /\ UNCHANGED <<store, toolFile, ages>>
    BY <1>5 DEF Adopted!Stale
  <2>2. CASE store = "ageing"
    <3>1. step' = "checked" /\ UNCHANGED <<toolLane, toolTurn>>
      BY <1>5, <2>2 DEF Adopted!Stale
    <3>2. QED
      BY <1>1, <2>1, <2>2, <3>1 DEF AdoptedInv, Adopted!AdoptedTypeOK
  <2>3. CASE store # "ageing"
    <3>1. Adopted!Leave(TRUE)
      BY <1>5, <2>3 DEF Adopted!Stale
    <3>2. QED
      BY <1>1, <2>1, <3>1, LeavingIsTyped DEF AdoptedInv, Adopted!AdoptedTypeOK
  <2>4. QED
    BY <2>2, <2>3
<1>6. CASE Adopted!StaleFails
  <2>1. /\ toolLane # <<>> /\ step = "waits" /\ toolLane' = Tail(toolLane)
        /\ toolTurn' = [toolTurn EXCEPT ![Head(toolLane)].phase = "failed"]
        /\ UNCHANGED <<store, toolFile, ages, step, moved>>
    BY <1>6 DEF Adopted!StaleFails
  <2>2. Head(toolLane) \in Turns /\ Tail(toolLane) \in Seq(Turns) /\ "failed" \in Adopted!Phases
    BY <1>1, <2>1 DEF Adopted!Phases
  <2>3. QED
    BY <1>1, <2>1, <2>2, PhasesAreTyped DEF AdoptedInv, Adopted!AdoptedTypeOK
<1>7. CASE Adopted!RunTool
  <2>1. step = "checked" /\ UNCHANGED <<store, toolFile, ages, moved>>
    BY <1>7 DEF Adopted!RunTool
  <2>2. CASE toolFile
    <3>1. step' = "runs" /\ UNCHANGED <<toolLane, toolTurn>>
      BY <1>7, <2>2 DEF Adopted!RunTool
    <3>2. QED
      BY <1>1, <2>1, <3>1 DEF AdoptedInv, Adopted!AdoptedTypeOK
  <2>3. CASE ~toolFile
    <3>1. Adopted!Leave(FALSE)
      BY <1>7, <2>3 DEF Adopted!RunTool
    <3>2. QED
      BY <1>1, <2>1, <3>1, LeavingIsTyped DEF AdoptedInv, Adopted!AdoptedTypeOK
  <2>4. QED
    BY <2>2, <2>3
<1>8. ASSUME NEW ok \in BOOLEAN, Adopted!ToolEnds(ok)
      PROVE  AdoptedInv' /\ step' = "waits"
  <2>1. /\ step = "runs" /\ Adopted!Leave(ok) /\ store' \in Adopted!Blobs
        /\ UNCHANGED <<toolFile, ages, moved>>
    BY <1>1, <1>8 DEF Adopted!ToolEnds, Adopted!Blobs
  <2>2. QED
    BY <1>1, <2>1, LeavingIsTyped DEF AdoptedInv, Adopted!AdoptedTypeOK
<1>9. CASE Adopted!PersonRenews \/ Adopted!PersonSignsOut \/ Adopted!Ages
  <2>1. /\ store' \in Adopted!Blobs /\ moved' = TRUE /\ ages' \in 0..MaxAges
        /\ UNCHANGED <<toolFile, toolLane, step, toolTurn>>
    BY <1>1, <1>9 DEF Adopted!PersonRenews, Adopted!PersonSignsOut, Adopted!Ages, Adopted!Blobs
  <2>2. QED
    BY <1>1, <2>1 DEF AdoptedInv, Adopted!AdoptedTypeOK
<1>10. step' = "runs" /\ step # "runs" /\ Adopted!Next => step = "checked"
  <2>1. Adopted!PersonRenews \/ Adopted!PersonSignsOut \/ Adopted!Ages => step' = step
    BY DEF Adopted!PersonRenews, Adopted!PersonSignsOut, Adopted!Ages
  <2>2. Adopted!Stale \/ Adopted!StaleFails => step' # "runs"
    BY DEF Adopted!Stale, Adopted!StaleFails, Adopted!Leave
  <2>3. Adopted!RunTool => step = "checked"
    BY DEF Adopted!RunTool
  <2>4. QED
    BY <1>3, <1>4, <1>8, <2>1, <2>2, <2>3 DEF Adopted!Next, Adopted!LaneSteps
<1>11. Adopted!Next => AdoptedInv'
  BY <1>3, <1>4, <1>5, <1>6, <1>7, <1>8, <1>9 DEF Adopted!Next, Adopted!LaneSteps
<1>12. QED
  BY <1>1, <1>2, <1>10, <1>11

(* What main keeps only moves forward along the rotations, no step of the     *)
(* repair leaves a credential nowhere and each account ends with its own, and *)
(* a run of a person's tool begins only on what ages.                        *)
CustodyIsKept ==
    /\ [][StoreMovesOn]_vars
    /\ Repair!NoCredentialIsLost
    /\ []Repair!RepairTypeOK
    /\ []Repair!EachHoldsItsOwn
    /\ []Adopted!AdoptedTypeOK
    /\ Adopted!EveryRunFindsItAgeing

(* Of either kind of plan, for any number of accounts and of turns over a     *)
(* person's tool, and wherever a process ends or a keychain refuses.          *)
THEOREM CustodyStaysKept ==
  /\ RenewalAssumption /\ Spec
  /\ Repair!RepairAssumption /\ Repair!Spec
  /\ Adopted!AdoptedAssumption /\ Adopted!Spec
  => CustodyIsKept
<1>1. Repair!RepairAssumption /\ RepairInv /\ [Repair!Next]_(Repair!vars)
        => /\ RepairInv'
           /\ [Repair!Kept \ (IF cut THEN {None, Login} ELSE {None})
                 \subseteq (Repair!Kept)']_(Repair!vars)
  BY RepairSteps
<1>2. Repair!RepairAssumption /\ RepairInv => Repair!RepairTypeOK /\ Repair!EachHoldsItsOwn
  BY RepairMeans
<1>3. Adopted!AdoptedAssumption /\ AdoptedInv /\ [Adopted!Next]_(Adopted!vars)
        => /\ AdoptedInv'
           /\ [step # "runs" /\ step' = "runs" => store = "ageing" \/ moved]_(Adopted!vars)
  BY AdoptedSteps
<1>4. AdoptedInv => Adopted!AdoptedTypeOK
  BY DEF AdoptedInv
<1>5. /\ Repair!RepairAssumption => Repair!RepairAssumption'
      /\ Adopted!AdoptedAssumption => Adopted!AdoptedAssumption'
  OBVIOUS
<1>6. QED
  <2>1. Repair!RepairAssumption /\ Repair!Spec
          => /\ Repair!NoCredentialIsLost
             /\ []Repair!RepairTypeOK /\ []Repair!EachHoldsItsOwn
    BY RepairStarts, <1>1, <1>2, <1>5, PTL DEF Repair!Spec, Repair!NoCredentialIsLost
  <2>2. Adopted!AdoptedAssumption /\ Adopted!Spec
          => []Adopted!AdoptedTypeOK /\ Adopted!EveryRunFindsItAgeing
    BY AdoptedStarts, <1>3, <1>4, <1>5, PTL DEF Adopted!Spec, Adopted!EveryRunFindsItAgeing
  <2>3. QED
    BY <2>1, <2>2, StoresNeverGoBack DEF CustodyIsKept

-----------------------------------------------------------------------------
(* Codes typed at the vendor. A code goes from its ask to the map, from the  *)
(* map to the one wait at the head of the lane, and out of the map with it.   *)

Code == [plan : Plans, open : BOOLEAN,
         at : {"asking", "refused", "shown", "entered", "denied", "spent"}]
Wait == [plan : Plans, at : Device!Waiting, code : Nat, good : Nat]
Told(list, n) == n \in 1..Len(list) /\ list[n].at \notin {"asking", "refused"}

CodesAndWaits ==
    /\ asks \in Seq(Code) /\ Len(asks) <= MaxAsks
    /\ waits \in Seq(Wait) /\ answers \in Seq(Device!Answers) /\ Len(answers) = Len(waits)
    /\ pending \in [Plans -> Nat] /\ screen \in [Plans -> Nat]
    /\ \A p \in Plans : screen[p] <= Len(asks)
    /\ \A w \in 1..Len(waits) : waits[w].good <= Len(asks)

(* The map holds a code the vendor gave for that very plan.                  *)
HandlesAreTold ==
    \A p \in Plans : pending[p] # 0 => Told(asks, pending[p]) /\ asks[pending[p]].plan = p

(* A wait that began took its code then, with every wait before it over.      *)
WaitsAreInTurn ==
    \A w \in 1..Len(waits) :
        /\ waits[w].at = "queued" => waits[w].code = 0
        /\ waits[w].at # "queued" => \A v \in 1..(w - 1) : waits[v].at = "done"
        /\ waits[w].at \notin {"queued", "done"} => waits[w].code # 0
        /\ waits[w].code # 0 => Told(asks, waits[w].code) /\ asks[waits[w].code].plan = waits[w].plan

(* The code of a wait that is over is in no place of the map.                *)
OverIsForgotten ==
    \A w \in 1..Len(waits) :
        waits[w].at = "done" /\ waits[w].code # 0 => \A p \in Plans : pending[p] # waits[w].code

DeviceInv ==
    /\ CodesAndWaits /\ HandlesAreTold /\ WaitsAreInTurn /\ OverIsForgotten
    /\ Device!ACodeEndsOneWait

LEMMA CodesStart == Device!DeviceAssumption /\ Device!Init => DeviceInv
BY DEF Device!DeviceAssumption, Device!Init, DeviceInv, CodesAndWaits, HandlesAreTold,
       WaitsAreInTurn, OverIsForgotten, Device!ACodeEndsOneWait

(* A code moves on at the vendor, and the map lets go or takes it as it is    *)
(* first told: no wait is any different.                                     *)
LEMMA CodesMoveOn ==
  ASSUME DeviceInv, NEW n \in 1..Len(asks), NEW code \in Code,
         asks' = [asks EXCEPT ![n] = code], code.plan = asks[n].plan,
         asks[n].at \notin {"asking", "refused"} => code.at \notin {"asking", "refused"},
         \/ pending' = pending
         \/ pending' = [pending EXCEPT ![code.plan] = 0]
         \/ /\ asks[n].at = "asking" /\ code.at = "shown"
            /\ pending' = [pending EXCEPT ![code.plan] = n],
         UNCHANGED <<screen, waits, answers>>
  PROVE  DeviceInv'
<1>1. /\ asks \in Seq(Code) /\ pending \in [Plans -> Nat] /\ n \in Nat
      /\ code.plan \in Plans /\ screen' = screen /\ waits' = waits /\ answers' = answers
  BY DEF DeviceInv, CodesAndWaits, Code
<1>2. /\ asks' \in Seq(Code) /\ Len(asks') = Len(asks)
      /\ \A m \in 1..Len(asks) : asks'[m] = IF m = n THEN code ELSE asks[m]
  BY <1>1
<1>3. \A m : Told(asks, m) => Told(asks', m) /\ asks'[m].plan = asks[m].plan
  BY <1>2 DEF Told
<1>4. /\ pending' \in [Plans -> Nat]
      /\ \A p \in Plans : \/ pending'[p] \in {pending[p], 0}
                          \/ /\ p = code.plan /\ pending'[p] = n
                             /\ asks[n].at = "asking" /\ code.at = "shown"
  BY <1>1
<1>5. CodesAndWaits'
  BY <1>1, <1>2, <1>4 DEF DeviceInv, CodesAndWaits
<1>6. HandlesAreTold'
  <2> SUFFICES ASSUME NEW p \in Plans, pending'[p] # 0
               PROVE  Told(asks', pending'[p]) /\ asks'[pending'[p]].plan = p
    BY DEF HandlesAreTold
  <2>1. CASE pending'[p] \in {pending[p], 0}
    <3>1. pending'[p] = pending[p] /\ pending[p] # 0
      BY <2>1
    <3>2. Told(asks, pending[p]) /\ asks[pending[p]].plan = p
      BY <3>1 DEF DeviceInv, HandlesAreTold
    <3>3. QED
      BY <3>1, <3>2, <1>3
  <2>2. CASE p = code.plan /\ pending'[p] = n /\ code.at = "shown"
    BY <2>2, <1>2 DEF Told
  <2>3. QED
    BY <2>1, <2>2, <1>4
<1>7. WaitsAreInTurn'
  <2> SUFFICES ASSUME NEW w \in 1..Len(waits')
               PROVE  /\ waits'[w].at = "queued" => waits'[w].code = 0
                      /\ waits'[w].at # "queued" => \A v \in 1..(w - 1) : waits'[v].at = "done"
                      /\ waits'[w].at \notin {"queued", "done"} => waits'[w].code # 0
                      /\ waits'[w].code # 0 =>
                             Told(asks', waits'[w].code) /\ asks'[waits'[w].code].plan = waits'[w].plan
    BY DEF WaitsAreInTurn
  <2>1. w \in 1..Len(waits) /\ waits' = waits
    BY <1>1
  <2>2. waits[w].code # 0 => Told(asks, waits[w].code) /\ asks[waits[w].code].plan = waits[w].plan
    BY <2>1 DEF DeviceInv, WaitsAreInTurn
  <2>3. waits[w].code # 0 =>
            Told(asks', waits[w].code) /\ asks'[waits[w].code].plan = waits[w].plan
    BY <1>3, <2>2
  <2>4. QED
    BY <2>1, <2>3 DEF DeviceInv, WaitsAreInTurn
<1>8. OverIsForgotten'
  <2> SUFFICES ASSUME NEW w \in 1..Len(waits), waits[w].at = "done", waits[w].code # 0,
                      NEW p \in Plans, pending'[p] = waits[w].code
               PROVE  FALSE
    BY <1>1 DEF OverIsForgotten
  <2>1. Told(asks, waits[w].code) /\ pending[p] # waits[w].code
    BY DEF DeviceInv, WaitsAreInTurn, OverIsForgotten
  <2>2. pending'[p] = n /\ asks[n].at = "asking"
    BY <2>1, <1>4
  <2>3. QED
    BY <2>1, <2>2 DEF Told
<1>9. Device!ACodeEndsOneWait'
  BY <1>1 DEF DeviceInv, Device!ACodeEndsOneWait
<1>10. QED
  BY <1>5, <1>6, <1>7, <1>8, <1>9 DEF DeviceInv

LEMMA VendorsMoveCodes ==
  ASSUME DeviceInv, NEW n \in Device!Asked,
         \/ Device!Shown(n) \/ Device!NotShown(n) \/ Device!WindowEnds(n)
         \/ Device!Decides(n, "entered") \/ Device!Decides(n, "denied")
  PROVE  DeviceInv'
<1>1. asks \in Seq(Code) /\ n \in 1..Len(asks) /\ asks[n] \in Code
  BY DEF DeviceInv, CodesAndWaits, Device!Asked
<1>2. CASE Device!WindowEnds(n)
  <2> DEFINE code == [asks[n] EXCEPT !.open = FALSE]
  <2>1. /\ code \in Code /\ code.plan = asks[n].plan /\ code.at = asks[n].at
        /\ asks' = [asks EXCEPT ![n] = code]
    BY <1>1, <1>2 DEF Device!WindowEnds, Code
  <2>2. pending' = pending /\ UNCHANGED <<screen, waits, answers>>
    BY <1>2 DEF Device!WindowEnds
  <2> HIDE DEF code
  <2>3. QED
    BY <1>1, <2>1, <2>2, CodesMoveOn
<1>3. ASSUME NEW how \in {"shown", "refused", "entered", "denied"},
             asks' = [asks EXCEPT ![n].at = how]
      PROVE  LET code == [asks[n] EXCEPT !.at = how]
             IN  /\ code \in Code /\ code.plan = asks[n].plan /\ code.at = how
                 /\ asks' = [asks EXCEPT ![n] = code]
  BY <1>1, <1>3 DEF Code
<1>4. CASE Device!Shown(n)
  <2> DEFINE code == [asks[n] EXCEPT !.at = "shown"]
  <2>1. /\ code \in Code /\ code.plan = asks[n].plan /\ code.at = "shown"
        /\ asks' = [asks EXCEPT ![n] = code]
    BY <1>3, <1>4 DEF Device!Shown
  <2>2. /\ asks[n].at = "asking" /\ pending' = [pending EXCEPT ![code.plan] = n]
        /\ UNCHANGED <<screen, waits, answers>>
    BY <1>4, <2>1 DEF Device!Shown
  <2> HIDE DEF code
  <2>3. QED
    BY <1>1, <2>1, <2>2, CodesMoveOn
<1>5. CASE Device!NotShown(n)
  <2> DEFINE code == [asks[n] EXCEPT !.at = "refused"]
  <2>1. /\ code \in Code /\ code.plan = asks[n].plan
        /\ asks' = [asks EXCEPT ![n] = code]
    BY <1>3, <1>5 DEF Device!NotShown
  <2>2. /\ asks[n].at = "asking" /\ pending' = [pending EXCEPT ![code.plan] = 0]
        /\ UNCHANGED <<screen, waits, answers>>
    BY <1>5, <2>1 DEF Device!NotShown
  <2> HIDE DEF code
  <2>3. QED
    BY <1>1, <2>1, <2>2, CodesMoveOn
<1>6. ASSUME NEW how \in {"entered", "denied"}, Device!Decides(n, how)
      PROVE  DeviceInv'
  <2> DEFINE code == [asks[n] EXCEPT !.at = how]
  <2>1. /\ code \in Code /\ code.plan = asks[n].plan /\ code.at = how
        /\ asks' = [asks EXCEPT ![n] = code]
    BY <1>3, <1>6 DEF Device!Decides
  <2>2. pending' = pending /\ UNCHANGED <<screen, waits, answers>>
    BY <1>6 DEF Device!Decides
  <2> HIDE DEF code
  <2>3. QED
    BY <1>1, <2>1, <2>2, CodesMoveOn
<1>7. QED
  BY <1>2, <1>4, <1>5, <1>6

(* A code asked for is nobody's yet, and a wait that queues has none.         *)
LEMMA PersonsAskAndPress ==
  ASSUME Device!DeviceAssumption, DeviceInv, NEW p \in Plans,
         Device!AskForADeviceCode(p) \/ Device!Press(p)
  PROVE  DeviceInv'
<1>1. /\ asks \in Seq(Code) /\ waits \in Seq(Wait) /\ Len(asks) \in Nat /\ Len(waits) \in Nat
      /\ answers \in Seq(Device!Answers) /\ Len(answers) = Len(waits)
      /\ MaxAsks \in Nat /\ screen \in [Plans -> Nat] /\ pending \in [Plans -> Nat]
  BY DEF DeviceInv, CodesAndWaits, Device!DeviceAssumption
<1>2. CASE Device!AskForADeviceCode(p)
  <2> DEFINE code == [plan |-> p, at |-> "asking", open |-> TRUE]
  <2>0. code \in Code
    BY DEF Code
  <2>1. /\ asks' = Append(asks, code) /\ Len(asks) < MaxAsks
        /\ screen' = [screen EXCEPT ![p] = Len(asks) + 1]
        /\ pending' = pending /\ waits' = waits /\ answers' = answers
    BY <1>2 DEF Device!AskForADeviceCode
  <2>2. /\ asks' \in Seq(Code) /\ Len(asks') = Len(asks) + 1 /\ Len(asks') <= MaxAsks
        /\ \A m \in 1..Len(asks) : asks'[m] = asks[m] /\ m \in 1..Len(asks')
    BY <1>1, <2>0, <2>1
  <2>3. \A m : Told(asks, m) => Told(asks', m) /\ asks'[m] = asks[m]
    BY <2>2 DEF Told
  <2>4. /\ screen' \in [Plans -> Nat]
        /\ \A q \in Plans : screen'[q] <= Len(asks')
    <3>1. \A q \in Plans : screen[q] \in Nat /\ screen[q] <= Len(asks)
      BY DEF DeviceInv, CodesAndWaits
    <3>2. QED
      BY <1>1, <2>1, <2>2, <3>1
  <2>5. \A w \in 1..Len(waits) : waits[w].good <= Len(asks')
    <3>1. \A w \in 1..Len(waits) : waits[w] \in Wait /\ waits[w].good <= Len(asks)
      BY <1>1 DEF DeviceInv, CodesAndWaits
    <3>2. \A w \in 1..Len(waits) : waits[w].good \in Nat /\ waits[w].good <= Len(asks)
      BY <3>1 DEF Wait
    <3>3. \A m \in Nat : m <= Len(asks) => m <= Len(asks')
      BY <1>1, <2>2
    <3>4. QED
      BY <3>2, <3>3
  <2>6. CodesAndWaits'
    BY <1>1, <2>1, <2>2, <2>4, <2>5 DEF CodesAndWaits
  <2>7. HandlesAreTold'
    BY <2>1, <2>3 DEF DeviceInv, HandlesAreTold
  <2>8. WaitsAreInTurn'
    BY <2>1, <2>3 DEF DeviceInv, WaitsAreInTurn
  <2>9. OverIsForgotten' /\ Device!ACodeEndsOneWait'
    BY <2>1 DEF DeviceInv, OverIsForgotten, Device!ACodeEndsOneWait
  <2>10. QED
    BY <2>6, <2>7, <2>8, <2>9 DEF DeviceInv
<1>3. CASE Device!Press(p)
  <2> DEFINE good == IF pending[p] # 0 /\ asks[pending[p]].open THEN pending[p] ELSE 0
             wait == [plan |-> p, at |-> "queued", code |-> 0, good |-> good]
  <2>1. /\ waits' = Append(waits, wait) /\ answers' = Append(answers, "open")
        /\ pending' = pending /\ asks' = asks /\ screen' = screen
    BY <1>3 DEF Device!Press
  <2>2. good \in Nat /\ good <= Len(asks)
    BY <1>1 DEF DeviceInv, HandlesAreTold, Told
  <2>3. wait \in Wait /\ wait.at = "queued" /\ wait.code = 0 /\ wait.good = good
    BY <2>2 DEF Wait, Device!Waiting
  <2> HIDE DEF wait, good
  <2>4. /\ waits' \in Seq(Wait) /\ Len(waits') = Len(waits) + 1
        /\ \A w \in 1..Len(waits') : waits'[w] = IF w = Len(waits) + 1 THEN wait ELSE waits[w]
    BY <1>1, <2>1, <2>3
  <2>5. answers' \in Seq(Device!Answers) /\ Len(answers') = Len(waits')
    BY <1>1, <2>1, <2>4 DEF Device!Answers
  <2>6. \A w \in 1..Len(waits') : w # Len(waits) + 1 => w \in 1..Len(waits)
    BY <1>1, <2>4
  <2>7. CodesAndWaits'
    BY <2>1, <2>2, <2>3, <2>4, <2>5, <2>6 DEF DeviceInv, CodesAndWaits
  <2>8. HandlesAreTold' /\ OverIsForgotten' /\ Device!ACodeEndsOneWait'
    <3>1. HandlesAreTold'
      BY <2>1 DEF DeviceInv, HandlesAreTold
    <3>2. OverIsForgotten'
      BY <2>1, <2>3, <2>4, <2>6 DEF DeviceInv, OverIsForgotten
    <3>3. Device!ACodeEndsOneWait'
      BY <2>3, <2>4, <2>6 DEF DeviceInv, Device!ACodeEndsOneWait
    <3>4. QED
      BY <3>1, <3>2, <3>3
  <2>9. WaitsAreInTurn'
    <3> SUFFICES ASSUME NEW w \in 1..Len(waits')
                 PROVE  /\ waits'[w].at = "queued" => waits'[w].code = 0
                        /\ waits'[w].at # "queued" =>
                               \A v \in 1..(w - 1) : waits'[v].at = "done"
                        /\ waits'[w].at \notin {"queued", "done"} => waits'[w].code # 0
                        /\ waits'[w].code # 0 =>
                               Told(asks', waits'[w].code) /\ asks'[waits'[w].code].plan = waits'[w].plan
      BY DEF WaitsAreInTurn
    <3>1. CASE w = Len(waits) + 1
      BY <3>1, <2>3, <2>4
    <3>2. CASE w \in 1..Len(waits)
      <4>1. \A v \in 1..(w - 1) : v \in 1..Len(waits') /\ v # Len(waits) + 1
        BY <1>1, <2>4, <3>2
      <4>2. waits'[w] = waits[w] /\ \A v \in 1..(w - 1) : waits'[v] = waits[v]
        BY <1>1, <2>4, <3>2, <4>1
      <4>3. QED
        BY <2>1, <3>2, <4>2 DEF DeviceInv, WaitsAreInTurn, Told
    <3>3. QED
      BY <2>6, <3>1, <3>2
  <2>10. QED
    BY <2>7, <2>8, <2>9 DEF DeviceInv
<1>4. QED
  BY <1>2, <1>3

(* One wait goes on: what it takes no wait before it had, and what it leaves  *)
(* leaves the map with it.                                                  *)
LEMMA WaitsGoOn ==
  ASSUME DeviceInv, NEW w \in 1..Len(waits), NEW wait \in Wait,
         waits' = [waits EXCEPT ![w] = wait],
         wait.plan = waits[w].plan, wait.good = waits[w].good, wait.at # "queued",
         \A v \in 1..(w - 1) : waits[v].at = "done",
         \/ wait.code = waits[w].code /\ (wait.code # 0 \/ wait.at = "done")
         \/ waits[w].code = 0 /\ wait.code = pending[waits[w].plan] /\ wait.code # 0
            /\ wait.at # "done",
         waits[w].at # "done",
         wait.at = "done" /\ wait.code # 0 => pending' = [pending EXCEPT ![waits[w].plan] = 0],
         wait.at # "done" \/ wait.code = 0 => pending' = pending,
         Len(answers') = Len(answers), answers' \in Seq(Device!Answers),
         asks' \in Seq(Code), Len(asks') = Len(asks), screen' = screen,
         \A n : Told(asks, n) => Told(asks', n) /\ asks'[n].plan = asks[n].plan
  PROVE  DeviceInv'
<1>1. /\ waits \in Seq(Wait) /\ Len(waits) \in Nat /\ w \in Nat
      /\ pending \in [Plans -> Nat] /\ waits[w] \in Wait /\ waits[w].plan \in Plans
  <2>1. waits \in Seq(Wait) /\ pending \in [Plans -> Nat]
    BY DEF DeviceInv, CodesAndWaits
  <2>2. waits[w] \in Wait /\ Len(waits) \in Nat /\ w \in Nat
    BY <2>1
  <2>3. waits[w].plan \in Plans
    BY <2>2 DEF Wait
  <2>4. QED
    BY <2>1, <2>2, <2>3
<1>2. /\ waits' \in Seq(Wait) /\ Len(waits') = Len(waits)
      /\ \A v \in 1..Len(waits) : waits'[v] = IF v = w THEN wait ELSE waits[v]
  BY <1>1
<1>3. /\ pending' \in [Plans -> Nat]
      /\ \A p \in Plans : pending'[p] \in {pending[p], 0}
  BY <1>1
<1>4. CodesAndWaits'
  BY <1>2, <1>3 DEF DeviceInv, CodesAndWaits
<1>5. HandlesAreTold'
  BY <1>3 DEF DeviceInv, HandlesAreTold
<1>6. wait.code # 0 => Told(asks, wait.code) /\ asks[wait.code].plan = waits[w].plan
  BY <1>1 DEF DeviceInv, WaitsAreInTurn, HandlesAreTold
<1>7. WaitsAreInTurn'
  <2> SUFFICES ASSUME NEW v \in 1..Len(waits)
               PROVE  /\ waits'[v].at = "queued" => waits'[v].code = 0
                      /\ waits'[v].at # "queued" =>
                             \A u \in 1..(v - 1) : waits'[u].at = "done"
                      /\ waits'[v].at \notin {"queued", "done"} => waits'[v].code # 0
                      /\ waits'[v].code # 0 =>
                             Told(asks', waits'[v].code) /\ asks'[waits'[v].code].plan = waits'[v].plan
    BY <1>2 DEF WaitsAreInTurn
  <2>1. CASE v = w
    <3>1. \A u \in 1..(w - 1) : u \in 1..Len(waits) /\ u # w
      BY <1>1
    <3>2. waits'[w] = wait /\ \A u \in 1..(w - 1) : waits'[u] = waits[u]
      BY <1>2, <3>1
    <3>3. QED
      BY <2>1, <3>2, <1>6
  <2>2. CASE v # w
    <3>1. waits'[v] = waits[v]
      BY <1>2, <2>2
    <3>2. ASSUME waits[v].at # "queued"
          PROVE  \A u \in 1..(v - 1) : waits'[u].at = "done"
      <4>1. \A u \in 1..(v - 1) : u \in 1..Len(waits) /\ waits[u].at = "done"
        BY <1>1, <3>2 DEF DeviceInv, WaitsAreInTurn
      <4>2. QED
        BY <1>2, <4>1
    <3>3. /\ waits[v].at = "queued" => waits[v].code = 0
          /\ waits[v].at \notin {"queued", "done"} => waits[v].code # 0
          /\ waits[v].code # 0 => Told(asks, waits[v].code) /\ asks[waits[v].code].plan = waits[v].plan
      BY DEF DeviceInv, WaitsAreInTurn
    <3>4. QED
      BY <3>1, <3>2, <3>3
  <2>3. QED
    BY <2>1, <2>2
<1>8. OverIsForgotten'
  <2> SUFFICES ASSUME NEW v \in 1..Len(waits), waits'[v].at = "done", waits'[v].code # 0,
                      NEW p \in Plans
               PROVE  pending'[p] # waits'[v].code
    BY <1>2 DEF OverIsForgotten
  <2>1. CASE v = w
    <3>1. waits'[v] = wait /\ pending' = [pending EXCEPT ![waits[w].plan] = 0]
      BY <2>1, <1>2
    <3>2. CASE p = waits[w].plan
      BY <3>1, <3>2, <1>1
    <3>3. CASE p # waits[w].plan
      BY <3>1, <3>3, <1>1, <1>6 DEF DeviceInv, HandlesAreTold
    <3>4. QED
      BY <3>2, <3>3
  <2>2. CASE v # w
    BY <2>2, <1>2, <1>3 DEF DeviceInv, OverIsForgotten
  <2>3. QED
    BY <2>1, <2>2
<1>9. Device!ACodeEndsOneWait'
  <2>1. ASSUME NEW v \in 1..Len(waits), v # w, waits[v].code # 0
        PROVE  waits[v].code # wait.code
    <3>1. CASE wait.code = waits[w].code
      BY <2>1, <3>1 DEF DeviceInv, Device!ACodeEndsOneWait
    <3>2. CASE waits[w].code = 0 /\ wait.code = pending[waits[w].plan] /\ wait.code # 0
      <4>1. waits[v].at # "queued"
        BY <2>1 DEF DeviceInv, WaitsAreInTurn
      <4>2. v \in 1..(w - 1)
        <5>1. CASE v < w
          BY <5>1, <1>1
        <5>2. CASE w < v
          <6>1. w \in 1..(v - 1)
            BY <5>2, <1>1
          <6>2. QED
            BY <6>1, <4>1, <2>1 DEF DeviceInv, WaitsAreInTurn
        <5>3. QED
          BY <5>1, <5>2, <2>1, <1>1
      <4>3. waits[v].at = "done"
        BY <4>2
      <4>4. QED
        BY <2>1, <4>3, <3>2, <1>1 DEF DeviceInv, OverIsForgotten
    <3>3. QED
      BY <3>1, <3>2
  <2>2. QED
    BY <1>2, <2>1 DEF DeviceInv, Device!ACodeEndsOneWait
<1>10. QED
  BY <1>4, <1>5, <1>7, <1>8, <1>9 DEF DeviceInv

LEMMA AWaitIsRunOn ==
  ASSUME DeviceInv, NEW w \in 1..Len(waits), Device!Waits(w)
  PROVE  DeviceInv'
<1>1. /\ waits \in Seq(Wait) /\ w \in Nat /\ waits[w] \in Wait /\ asks \in Seq(Code)
      /\ waits[w].plan \in Plans /\ answers \in Seq(Device!Answers) /\ Len(answers) = Len(waits)
      /\ pending \in [Plans -> Nat]
  <2>1. /\ waits \in Seq(Wait) /\ pending \in [Plans -> Nat] /\ asks \in Seq(Code)
        /\ answers \in Seq(Device!Answers) /\ Len(answers) = Len(waits)
    BY DEF DeviceInv, CodesAndWaits
  <2>2. waits[w] \in Wait
    BY <2>1
  <2>3. QED
    BY <2>1, <2>2 DEF Wait
<1>2. /\ waits[w].at # "queued" => \A v \in 1..(w - 1) : waits[v].at = "done"
      /\ waits[w].at \notin {"queued", "done"} => waits[w].code # 0 /\ Told(asks, waits[w].code)
      /\ waits[w].at = "queued" => waits[w].code = 0
  BY DEF DeviceInv, WaitsAreInTurn
<1>3. asks' = asks => /\ \A n : Told(asks, n) => Told(asks', n) /\ asks'[n].plan = asks[n].plan
                      /\ asks' \in Seq(Code) /\ Len(asks') = Len(asks)
  BY <1>1 DEF Told
<1>4. ASSUME NEW how \in Device!Answers, answers' = [answers EXCEPT ![w] = how]
      PROVE  answers' \in Seq(Device!Answers) /\ Len(answers') = Len(answers)
  BY <1>1, <1>4
<1> DEFINE over == [waits[w] EXCEPT !.at = "done"]
<1>5. /\ over \in Wait /\ over.at = "done" /\ over.plan = waits[w].plan
      /\ over.good = waits[w].good /\ over.code = waits[w].code
  BY <1>1 DEF Wait, Device!Waiting
<1>6. CASE Device!Starts(w)
  <2> DEFINE started == pending[waits[w].plan]
             begun == [waits[w] EXCEPT !.at = "top", !.code = started]
  <2>1. waits[w].at = "queued" /\ \A v \in 1..(w - 1) : waits[v].at = "done"
    BY <1>6 DEF Device!Starts, Device!AtHead
  <2>2. CASE started = 0
    <3>1. /\ waits' = [waits EXCEPT ![w] = over] /\ pending' = pending
          /\ answers' = [answers EXCEPT ![w] = "noneWaiting"] /\ asks' = asks /\ screen' = screen
      BY <1>6, <2>2, <1>1 DEF Device!Starts, Device!Settle
    <3>2. "noneWaiting" \in Device!Answers
      BY DEF Device!Answers
    <3> HIDE DEF over, begun, started
    <3>3. QED
      BY <1>1, <1>2, <1>3, <1>4, <1>5, <2>1, <3>1, <3>2, WaitsGoOn
  <2>3. CASE started # 0
    <3>1. /\ waits' = [waits EXCEPT ![w] = begun] /\ pending' = pending
          /\ answers' = answers /\ asks' = asks /\ screen' = screen
      BY <1>6, <2>3, <1>1 DEF Device!Starts
    <3>2. /\ begun \in Wait /\ begun.at = "top" /\ begun.plan = waits[w].plan
          /\ begun.good = waits[w].good /\ begun.code = pending[waits[w].plan]
      BY <1>1 DEF Wait, Device!Waiting
    <3>3. begun.code # 0
      BY <2>3, <3>2
    <3> HIDE DEF over, begun, started
    <3>4. QED
      BY <1>1, <1>2, <1>3, <2>1, <3>1, <3>2, <3>3, WaitsGoOn
  <2>4. QED
    BY <2>2, <2>3
<1>7. ASSUME NEW s \in {"top", "asking", "asleep"}, waits' = [waits EXCEPT ![w].at = s],
             waits[w].at \notin {"queued", "done"}, UNCHANGED <<pending, asks, screen, answers>>
      PROVE  DeviceInv'
  <2> DEFINE on == [waits[w] EXCEPT !.at = s]
  <2>1. /\ on \in Wait /\ on.at = s /\ on.plan = waits[w].plan
        /\ on.good = waits[w].good /\ on.code = waits[w].code
        /\ waits' = [waits EXCEPT ![w] = on]
    BY <1>1, <1>7 DEF Wait, Device!Waiting
  <2>2. pending' = pending /\ asks' = asks /\ screen' = screen /\ answers' = answers
    BY <1>7
  <2> HIDE DEF on
  <2>3. QED
    BY <1>1, <1>2, <1>3, <1>7, <2>1, <2>2, WaitsGoOn
<1>8. CASE Device!LoopTop(w) /\ ~asks[waits[w].code].open
  <2>1. /\ waits' = [waits EXCEPT ![w] = over] /\ waits[w].at = "top"
        /\ pending' = [pending EXCEPT ![waits[w].plan] = 0]
        /\ answers' = [answers EXCEPT ![w] = "expired"] /\ asks' = asks /\ screen' = screen
    BY <1>8, <1>1 DEF Device!LoopTop, Device!Settle, Device!Dropped
  <2>2. "expired" \in Device!Answers
    BY DEF Device!Answers
  <2> HIDE DEF over
  <2>3. QED
    BY <1>1, <1>2, <1>3, <1>4, <1>5, <2>1, <2>2, WaitsGoOn
<1>9. CASE Device!Terminal(w)
  <2> DEFINE n == waits[w].code
             spent == [asks[n] EXCEPT !.at = "spent"]
  <2>1. /\ waits' = [waits EXCEPT ![w] = over] /\ waits[w].at = "asking"
        /\ pending' = [pending EXCEPT ![waits[w].plan] = 0]
        /\ answers' = [answers EXCEPT ![w] = Device!Said(n)] /\ screen' = screen
        /\ Device!Said(n) # "pending"
    BY <1>9, <1>1 DEF Device!Terminal, Device!Dropped
  <2>2. Device!Said(n) \in Device!Answers
    BY <2>1 DEF Device!Said, Device!Answers
  <2>3. asks' = asks \/ asks' = [asks EXCEPT ![n] = spent]
    BY <1>9, <1>1 DEF Device!Terminal
  <2>4. n \in 1..Len(asks) /\ n # 0
    BY <1>2, <2>1 DEF Told
  <2>5. spent \in Code /\ spent.plan = asks[n].plan /\ spent.at = "spent"
    <3>1. asks[n] \in Code
      BY <1>1, <2>4
    <3>2. QED
      BY <3>1 DEF Code
  <2> HIDE DEF n, spent, over
  <2>6. /\ asks' \in Seq(Code) /\ Len(asks') = Len(asks)
        /\ \A m \in 1..Len(asks) : m # n => asks'[m] = asks[m]
        /\ asks'[n] \in {asks[n], spent}
    <3>1. CASE asks' = asks
      BY <1>1, <3>1
    <3>2. CASE asks' = [asks EXCEPT ![n] = spent]
      BY <1>1, <2>4, <2>5, <3>2
    <3>3. QED
      BY <2>3, <3>1, <3>2
  <2>7. \A m : Told(asks, m) => Told(asks', m) /\ asks'[m].plan = asks[m].plan
    BY <2>4, <2>5, <2>6 DEF Told
  <2>8. answers' \in Seq(Device!Answers) /\ Len(answers') = Len(answers)
    BY <1>4, <2>1, <2>2
  <2>9. QED
    BY <1>1, <1>2, <1>5, <2>1, <2>4, <2>6, <2>7, <2>8, WaitsGoOn
<1>10. QED
  BY <1>6, <1>7, <1>8, <1>9 DEF Device!Waits, Device!LoopTop, Device!StillWaiting, Device!Wakes

LEMMA DeviceSteps ==
  Device!DeviceAssumption /\ DeviceInv /\ [Device!Next]_(Device!vars) => DeviceInv'
<1> SUFFICES ASSUME Device!DeviceAssumption, DeviceInv, [Device!Next]_(Device!vars)
             PROVE  DeviceInv'
  OBVIOUS
<1>1. CASE UNCHANGED Device!vars
  <2>1. UNCHANGED <<pending, asks, screen, waits, answers>>
    BY <1>1 DEF Device!vars
  <2>2. CodesAndWaits' /\ HandlesAreTold' /\ WaitsAreInTurn'
    BY <2>1 DEF DeviceInv, CodesAndWaits, HandlesAreTold, WaitsAreInTurn
  <2>3. OverIsForgotten' /\ Device!ACodeEndsOneWait'
    BY <2>1 DEF DeviceInv, OverIsForgotten, Device!ACodeEndsOneWait
  <2>4. QED
    BY <2>2, <2>3 DEF DeviceInv
<1>2. CASE Device!Next
  BY <1>2, PersonsAskAndPress, VendorsMoveCodes, AWaitIsRunOn DEF Device!Next
<1>3. QED
  BY <1>1, <1>2

LEMMA DeviceMeans ==
  Device!DeviceAssumption /\ DeviceInv => Device!DeviceTypeOK /\ Device!ACodeEndsOneWait
<1> SUFFICES ASSUME Device!DeviceAssumption, DeviceInv
             PROVE  Device!DeviceTypeOK
  BY DEF DeviceInv
<1>1. MaxAsks \in Nat /\ Len(asks) \in Nat /\ Len(asks) <= MaxAsks /\ asks \in Seq(Code)
  BY DEF Device!DeviceAssumption, DeviceInv, CodesAndWaits
<1>2. \A m \in Nat : m <= Len(asks) => m \in 0..MaxAsks
  BY <1>1
<1>3. pending \in [Plans -> 0..MaxAsks]
  <2>1. \A p \in Plans : pending[p] \in Nat /\ pending[p] <= Len(asks)
    BY <1>1 DEF DeviceInv, CodesAndWaits, HandlesAreTold, Told
  <2>2. QED
    BY <1>2, <2>1 DEF DeviceInv, CodesAndWaits
<1>4. screen \in [Plans -> 0..MaxAsks]
  BY <1>2 DEF DeviceInv, CodesAndWaits
<1>5. \A n \in 1..Len(asks) : asks[n] \in Code
  BY <1>1
<1>6. \A w \in 1..Len(waits) :
        waits[w] \in [plan : Plans, at : Device!Waiting, code : 0..MaxAsks, good : 0..MaxAsks]
  <2> SUFFICES ASSUME NEW w \in 1..Len(waits)
               PROVE  waits[w] \in [plan : Plans, at : Device!Waiting, code : 0..MaxAsks,
                                    good : 0..MaxAsks]
    OBVIOUS
  <2>1. waits[w] \in Wait
    BY DEF DeviceInv, CodesAndWaits
  <2>2. waits[w].code \in Nat /\ waits[w].code <= Len(asks)
    BY <1>1, <2>1 DEF DeviceInv, WaitsAreInTurn, Told, Wait
  <2>3. waits[w].good \in Nat /\ waits[w].good <= Len(asks)
    BY <2>1 DEF DeviceInv, CodesAndWaits, Wait
  <2>4. QED
    BY <1>2, <2>1, <2>2, <2>3 DEF Wait
<1>7. /\ answers \in Seq(Device!Answers) /\ Len(answers) = Len(waits)
      /\ \A p \in Plans : pending[p] # 0 => asks[pending[p]].plan = p
  BY DEF DeviceInv, CodesAndWaits, HandlesAreTold
<1>8. QED
  BY <1>3, <1>4, <1>5, <1>6, <1>7 DEF Device!DeviceTypeOK, Device!Asked, Device!Handles, Code

-----------------------------------------------------------------------------
(* Browsers sent back to one port. A listener holds the port from its bind   *)
(* until it closes, and keeps the first word it hears; the sign-in behind it  *)
(* goes on only once it is closed.                                          *)

PagesAndPorts ==
    /\ port \in Browser!Tries \union {Other, Nobody}
    /\ listener \in [Browser!Tries -> Browser!Listeners]
    /\ handed \in [Browser!Tries -> Browser!Handed]
    /\ browser \in [Browser!Tries -> Browser!Pages]
    /\ result \in [Browser!Tries -> Browser!Results]

ListenersHoldThePort ==
    \A n \in Browser!Tries :
        /\ listener[n] = "listening" => port = n
        /\ listener[n] \in {"none", "binding", "closed"} => port # n
        /\ listener[n] \in {"none", "binding", "listening"} <=> handed[n] = "nothing"

SignInsFollowTheirListener ==
    \A n \in Browser!Tries :
        /\ result[n] = "queued" => listener[n] = "none"
        /\ result[n] \in {"exchanging", "signedIn", "refused"} => listener[n] = "closed"
        /\ handed[n] = "code" => browser[n] = "authorized"
        /\ result[n] \in {"exchanging", "signedIn"} => handed[n] = "code"

BrowserInv == PagesAndPorts /\ ListenersHoldThePort /\ SignInsFollowTheirListener

LEMMA BrowsersStart == Browser!BrowserAssumption /\ Browser!Init => BrowserInv
BY DEF Browser!BrowserAssumption, Browser!Init, BrowserInv, PagesAndPorts,
       ListenersHoldThePort, SignInsFollowTheirListener, Browser!Listeners, Browser!Handed,
       Browser!Pages, Browser!Results

(* What one listener does to itself and the port is the others' no concern.   *)
LEMMA ListenersMove ==
  ASSUME BrowserInv, NEW n \in Browser!Tries,
         NEW l \in Browser!Listeners, NEW h \in Browser!Handed,
         listener' = [listener EXCEPT ![n] = l], handed' = [handed EXCEPT ![n] = h],
         UNCHANGED <<browser, result>>,
         port' \in Browser!Tries \union {Other, Nobody},
         \A m \in Browser!Tries : m # n => (port' = m <=> port = m),
         l = "listening" => port' = n,
         l \in {"none", "binding", "closed"} => port' # n,
         l \in {"none", "binding", "listening"} <=> h = "nothing",
         result[n] = "queued" => l = "none",
         result[n] \in {"exchanging", "signedIn", "refused"} => l = "closed" /\ h = handed[n],
         h = "code" => browser[n] = "authorized"
  PROVE  BrowserInv'
<1>1. /\ listener' \in [Browser!Tries -> Browser!Listeners]
      /\ handed' \in [Browser!Tries -> Browser!Handed]
      /\ listener'[n] = l /\ handed'[n] = h
      /\ \A m \in Browser!Tries : m # n => listener'[m] = listener[m] /\ handed'[m] = handed[m]
  BY DEF BrowserInv, PagesAndPorts
<1>2. PagesAndPorts'
  BY <1>1 DEF BrowserInv, PagesAndPorts
<1>3. ListenersHoldThePort'
  BY <1>1 DEF BrowserInv, ListenersHoldThePort
<1>4. SignInsFollowTheirListener'
  BY <1>1 DEF BrowserInv, SignInsFollowTheirListener
<1>5. QED
  BY <1>2, <1>3, <1>4 DEF BrowserInv

(* So is what a person does at a page, and what becomes of a sign-in.         *)
LEMMA SignInsMove ==
  ASSUME BrowserInv, NEW n \in Browser!Tries,
         NEW page \in Browser!Pages, NEW end \in Browser!Results,
         browser' = [browser EXCEPT ![n] = page], result' = [result EXCEPT ![n] = end],
         UNCHANGED <<port, listener, handed>>,
         browser[n] = "authorized" => page = "authorized",
         end = "queued" => listener[n] = "none",
         end \in {"exchanging", "signedIn", "refused"} => listener[n] = "closed",
         end \in {"exchanging", "signedIn"} => handed[n] = "code"
  PROVE  BrowserInv'
<1>1. /\ browser' \in [Browser!Tries -> Browser!Pages]
      /\ result' \in [Browser!Tries -> Browser!Results]
      /\ browser'[n] = page /\ result'[n] = end
      /\ \A m \in Browser!Tries : m # n => browser'[m] = browser[m] /\ result'[m] = result[m]
  BY DEF BrowserInv, PagesAndPorts
<1>2. PagesAndPorts' /\ ListenersHoldThePort'
  BY <1>1 DEF BrowserInv, PagesAndPorts, ListenersHoldThePort
<1>3. SignInsFollowTheirListener'
  BY <1>1 DEF BrowserInv, SignInsFollowTheirListener
<1>4. QED
  BY <1>2, <1>3 DEF BrowserInv

LEMMA AListenerIsTold ==
  ASSUME BrowserInv, NEW n \in Browser!Tries, NEW how \in Browser!Handed \ {"nothing"},
         Browser!Done(n, how), UNCHANGED <<port, browser, result>>,
         listener[n] # "none",
         how = "code" => browser[n] = "authorized"
  PROVE  BrowserInv'
<1>1. /\ listener' = [listener EXCEPT ![n] = "closing"] /\ handed' = [handed EXCEPT ![n] = how]
      /\ handed[n] = "nothing"
  BY DEF Browser!Done
<1>2. /\ "closing" \in Browser!Listeners /\ port \in Browser!Tries \union {Other, Nobody}
      /\ listener[n] # "closed" /\ result[n] # "queued"
  BY <1>1 DEF Browser!Listeners, BrowserInv, PagesAndPorts, ListenersHoldThePort,
              SignInsFollowTheirListener
<1>3. result[n] \notin {"exchanging", "signedIn", "refused"}
  BY <1>2 DEF BrowserInv, SignInsFollowTheirListener
<1>4. QED
  BY <1>1, <1>2, <1>3, ListenersMove

LEMMA ListenersRun ==
  ASSUME Browser!BrowserAssumption, BrowserInv, NEW n \in Browser!Tries,
         \/ Browser!Binds(n) \/ Browser!GivesUp(n) \/ Browser!Closes(n) \/ Browser!Stray(n)
         \/ \E m \in Browser!Tries : Browser!Redirected(n, m)
  PROVE  BrowserInv'
<1>1. {"portHeld", "late", "noCode", "code", "denied"} \subseteq Browser!Handed \ {"nothing"}
  BY DEF Browser!Handed
<1>2. /\ port \in Browser!Tries \union {Other, Nobody}
      /\ Other \notin Browser!Tries /\ Nobody \notin Browser!Tries
      /\ handed \in [Browser!Tries -> Browser!Handed]
  BY DEF BrowserInv, PagesAndPorts, Browser!BrowserAssumption
<1>3. CASE Browser!Binds(n)
  <2>1. listener[n] = "binding" /\ handed[n] = "nothing" /\ UNCHANGED <<browser, result>>
    BY <1>3 DEF Browser!Binds
  <2>2. CASE port = Nobody
    <3>1. /\ port' = n /\ listener' = [listener EXCEPT ![n] = "listening"] /\ handed' = handed
      BY <1>3, <2>2 DEF Browser!Binds
    <3>2. handed' = [handed EXCEPT ![n] = "nothing"]
      BY <1>2, <2>1, <3>1
    <3>3. \A m \in Browser!Tries : m # n => (port' = m <=> port = m)
      BY <1>2, <2>2, <3>1
    <3>4. result[n] \notin {"queued", "exchanging", "signedIn", "refused"}
      BY <2>1 DEF BrowserInv, SignInsFollowTheirListener
    <3>5. "listening" \in Browser!Listeners /\ "nothing" \in Browser!Handed
      BY DEF Browser!Listeners, Browser!Handed
    <3>6. QED
      BY <2>1, <3>1, <3>2, <3>3, <3>4, <3>5, ListenersMove
  <2>3. CASE port # Nobody
    BY <1>1, <1>3, <2>1, <2>3, AListenerIsTold DEF Browser!Binds
  <2>4. QED
    BY <2>2, <2>3
<1>4. CASE Browser!GivesUp(n)
  BY <1>1, <1>4, AListenerIsTold DEF Browser!GivesUp
<1>5. CASE Browser!Stray(n)
  BY <1>1, <1>5, AListenerIsTold DEF Browser!Stray
<1>6. ASSUME NEW m \in Browser!Tries, Browser!Redirected(n, m)
      PROVE  BrowserInv'
  BY <1>1, <1>6, AListenerIsTold DEF Browser!Redirected, Browser!WordOf
<1>7. CASE Browser!Closes(n)
  <2>1. /\ listener[n] = "closing" /\ listener' = [listener EXCEPT ![n] = "closed"]
        /\ port' = (IF port = n THEN Nobody ELSE port)
        /\ handed' = handed /\ UNCHANGED <<browser, result>>
    BY <1>7 DEF Browser!Closes
  <2>2. handed' = [handed EXCEPT ![n] = handed[n]] /\ handed[n] \in Browser!Handed
    BY <1>2, <2>1
  <2>3. /\ port' \in Browser!Tries \union {Other, Nobody} /\ port' # n
        /\ \A m \in Browser!Tries : m # n => (port' = m <=> port = m)
    BY <1>2, <2>1
  <2>4. handed[n] # "nothing"
    BY <2>1 DEF BrowserInv, ListenersHoldThePort
  <2>5. /\ result[n] \notin {"queued", "exchanging", "signedIn", "refused"}
        /\ handed[n] = "code" => browser[n] = "authorized"
    BY <2>1 DEF BrowserInv, SignInsFollowTheirListener
  <2>6. "closed" \in Browser!Listeners
    BY DEF Browser!Listeners
  <2>7. QED
    BY <2>1, <2>2, <2>3, <2>4, <2>5, <2>6, ListenersMove
<1>8. QED
  BY <1>3, <1>4, <1>5, <1>6, <1>7

LEMMA SignInsRun ==
  ASSUME Browser!BrowserAssumption, BrowserInv, NEW n \in Browser!Tries,
         \/ Browser!Starts(n) \/ Browser!Opens(n) \/ Browser!CannotOpen(n)
         \/ Browser!Settles(n) \/ Browser!Exchanged(n) \/ Browser!Person(n)
  PROVE  BrowserInv'
<1>1. /\ browser \in [Browser!Tries -> Browser!Pages] /\ browser[n] \in Browser!Pages
      /\ result \in [Browser!Tries -> Browser!Results] /\ result[n] \in Browser!Results
  BY DEF BrowserInv, PagesAndPorts
<1>2. browser = [browser EXCEPT ![n] = browser[n]] /\ result = [result EXCEPT ![n] = result[n]]
  BY <1>1
<1>3. /\ result[n] = "queued" => listener[n] = "none"
      /\ result[n] \in {"exchanging", "signedIn", "refused"} => listener[n] = "closed"
      /\ result[n] \in {"exchanging", "signedIn"} => handed[n] = "code"
  BY DEF BrowserInv, SignInsFollowTheirListener
<1>4. /\ {"open", "authorized", "denied", "refused"} \subseteq Browser!Pages
      /\ {"waiting", "exchanging", "signedIn", "refused", "failed"} \subseteq Browser!Results
  BY DEF Browser!Pages, Browser!Results
<1>5. CASE Browser!Starts(n)
  <2>1. /\ result[n] = "queued" /\ result' = [result EXCEPT ![n] = "waiting"]
        /\ listener' = [listener EXCEPT ![n] = "binding"]
        /\ UNCHANGED <<port, handed, browser>>
    BY <1>5 DEF Browser!Starts
  <2>2. /\ listener[n] = "none" /\ listener \in [Browser!Tries -> Browser!Listeners]
        /\ "binding" \in Browser!Listeners
    BY <1>3, <2>1 DEF BrowserInv, PagesAndPorts, Browser!Listeners
  <2>3. /\ listener'[n] = "binding" /\ result'[n] = "waiting"
        /\ listener' \in [Browser!Tries -> Browser!Listeners]
        /\ result' \in [Browser!Tries -> Browser!Results]
        /\ \A m \in Browser!Tries : m # n => listener'[m] = listener[m] /\ result'[m] = result[m]
    BY <1>1, <1>4, <2>1, <2>2
  <2>4. PagesAndPorts' /\ ListenersHoldThePort'
    BY <2>1, <2>2, <2>3 DEF BrowserInv, PagesAndPorts, ListenersHoldThePort
  <2>5. SignInsFollowTheirListener'
    BY <2>1, <2>2, <2>3 DEF BrowserInv, SignInsFollowTheirListener
  <2>6. QED
    BY <2>4, <2>5 DEF BrowserInv
<1>6. CASE Browser!Opens(n)
  <2>1. /\ result[n] = "waiting" /\ browser[n] = "none" /\ result' = result
        /\ browser' = [browser EXCEPT ![n] = "open"] /\ UNCHANGED <<port, listener, handed>>
    BY <1>6 DEF Browser!Opens
  <2>2. QED
    BY <1>1, <1>2, <1>3, <1>4, <2>1, SignInsMove
<1>7. CASE Browser!CannotOpen(n)
  <2>1. /\ browser[n] = "none" /\ result' = [result EXCEPT ![n] = "failed"]
        /\ browser' = [browser EXCEPT ![n] = "refused"] /\ UNCHANGED <<port, listener, handed>>
    BY <1>7 DEF Browser!CannotOpen
  <2>2. QED
    BY <1>1, <1>4, <2>1, SignInsMove
<1>8. CASE Browser!Settles(n)
  <2> DEFINE end == IF handed[n] = "code" THEN "exchanging" ELSE "refused"
  <2>1. /\ listener[n] = "closed" /\ browser' = browser
        /\ result' = [result EXCEPT ![n] = end] /\ UNCHANGED <<port, listener, handed>>
    BY <1>8 DEF Browser!Settles, Browser!HandsOver
  <2>2. /\ end \in Browser!Results /\ end \in {"exchanging", "refused"}
        /\ end = "exchanging" => handed[n] = "code"
    BY <1>4
  <2> HIDE DEF end
  <2>3. QED
    BY <1>1, <1>2, <2>1, <2>2, SignInsMove
<1>9. CASE Browser!Exchanged(n)
  <2>1. PICK end \in {"signedIn", "refused"} : result' = [result EXCEPT ![n] = end]
    BY <1>9 DEF Browser!Exchanged
  <2>2. /\ result[n] = "exchanging" /\ browser' = browser /\ UNCHANGED <<port, listener, handed>>
    BY <1>9 DEF Browser!Exchanged
  <2>3. QED
    BY <1>1, <1>2, <1>3, <1>4, <2>1, <2>2, SignInsMove
<1>10. CASE Browser!Person(n)
  <2>1. PICK page \in {"authorized", "denied"} : browser' = [browser EXCEPT ![n] = page]
    BY <1>10 DEF Browser!Person
  <2>2. /\ browser[n] = "open" /\ result' = result /\ UNCHANGED <<port, listener, handed>>
    BY <1>10 DEF Browser!Person
  <2>3. QED
    BY <1>1, <1>2, <1>3, <1>4, <2>1, <2>2, SignInsMove
<1>11. QED
  BY <1>5, <1>6, <1>7, <1>8, <1>9, <1>10

LEMMA BrowserSteps ==
  Browser!BrowserAssumption /\ BrowserInv /\ [Browser!Next]_(Browser!vars) => BrowserInv'
<1> SUFFICES ASSUME Browser!BrowserAssumption, BrowserInv, [Browser!Next]_(Browser!vars)
             PROVE  BrowserInv'
  OBVIOUS
<1>1. CASE UNCHANGED Browser!vars
  BY <1>1 DEF Browser!vars, BrowserInv, PagesAndPorts, ListenersHoldThePort,
              SignInsFollowTheirListener
<1>2. CASE Browser!OtherTakes \/ Browser!OtherLets
  <2>1. UNCHANGED <<listener, handed, browser, result>>
    BY <1>2 DEF Browser!OtherTakes, Browser!OtherLets
  <2>2. /\ port' \in {Other, Nobody} /\ port \in {Other, Nobody}
        /\ Other \notin Browser!Tries /\ Nobody \notin Browser!Tries
    BY <1>2 DEF Browser!OtherTakes, Browser!OtherLets, Browser!BrowserAssumption
  <2>3. QED
    BY <2>1, <2>2 DEF BrowserInv, PagesAndPorts, ListenersHoldThePort,
                      SignInsFollowTheirListener
<1>3. CASE Browser!Next
  BY <1>2, <1>3, ListenersRun, SignInsRun DEF Browser!Next, Browser!Runs
<1>4. QED
  BY <1>1, <1>3

LEMMA BrowserMeans ==
  Browser!BrowserAssumption /\ BrowserInv =>
      /\ Browser!BrowserTypeOK /\ Browser!SignedInByItsOwnPage /\ Browser!AnsweredMeansLetGo
<1> SUFFICES ASSUME Browser!BrowserAssumption, BrowserInv
             PROVE  /\ Browser!BrowserTypeOK /\ Browser!SignedInByItsOwnPage
                    /\ Browser!AnsweredMeansLetGo
  OBVIOUS
<1>1. \A n \in Browser!Tries : listener[n] = "listening" <=> port = n /\ handed[n] = "nothing"
  BY DEF BrowserInv, ListenersHoldThePort
<1>2. Browser!BrowserTypeOK
  BY <1>1 DEF BrowserInv, PagesAndPorts, Browser!BrowserTypeOK
<1>3. Browser!SignedInByItsOwnPage /\ Browser!AnsweredMeansLetGo
  BY DEF BrowserInv, ListenersHoldThePort, SignInsFollowTheirListener,
         Browser!SignedInByItsOwnPage, Browser!AnsweredMeansLetGo
<1>4. QED
  BY <1>2, <1>3

(* A code ends one wait, nobody is signed in by a page of another sign-in,    *)
(* and the port is let go before the answer.                                *)
SignInsAreTheirOwn ==
    /\ Device!DeviceTypeOK /\ Device!ACodeEndsOneWait
    /\ Browser!BrowserTypeOK /\ Browser!SignedInByItsOwnPage /\ Browser!AnsweredMeansLetGo

(* Of any number of plans, codes, waits and pages, however they overlap.      *)
THEOREM SignInsStayTheirOwn ==
  /\ Device!DeviceAssumption /\ Device!Spec
  /\ Browser!BrowserAssumption /\ Browser!Spec
  => []SignInsAreTheirOwn
<1>1. Device!DeviceAssumption => Device!DeviceAssumption'
  OBVIOUS
<1>2. Browser!BrowserAssumption => Browser!BrowserAssumption'
  OBVIOUS
<1>3. DeviceInv /\ BrowserInv /\ Device!DeviceAssumption /\ Browser!BrowserAssumption
        => SignInsAreTheirOwn
  BY DeviceMeans, BrowserMeans DEF SignInsAreTheirOwn
<1>4. QED
  BY CodesStart, DeviceSteps, BrowsersStart, BrowserSteps, <1>1, <1>2, <1>3, PTL
     DEF Device!Spec, Browser!Spec

-----------------------------------------------------------------------------
(* The accounts of a plan, for any number of jobs, addresses and accounts.    *)

Stages == {"idle", "done", "cut", "tool", "reclaim", "giveBack", "reclaimed", "landed",
           "promoted", "written", "record", "point", "keep",
           "adopt", "release", "heal", "healKept", "forget"}
Task == [op : {"none", "signIn", "browser", "restore", "activate", "adopt", "remove"},
         at : Stages, id : Homes!Ids \union {0}, who : Addresses \union {None},
         name : Addresses \union {None}, survivors : SUBSET Homes!Ids,
         snapshot : Homes!Written \union {None}]
HomesTyped == Homes!SignInsAssumption /\ Homes!SignInsTypeOK /\ job \in [Jobs -> Task]

IsAtWork(j) == job[j].at \notin Homes!Rest

(* Sign-ins, restores and activations share a lane, and a tool that is waited *)
(* for no longer writes nothing.                                            *)
SignsInOnly == Ops \subseteq {"signIn", "browser", "restore", "activate"} /\ ~LateTools
OneIsAtWork == \A j, k \in Jobs : IsAtWork(j) /\ IsAtWork(k) => j = k

(* Where the credential a job brings stands as it goes on.                  *)
Brings(j) ==
    /\ job[j].id \in 1..ids /\ job[j].who \in Addresses /\ job[j].name \in {job[j].who, None}
    /\ job[j].at = "landed" => cred[Pending] = job[j].who /\ named[Pending] = job[j].name
    /\ job[j].at = "promoted" => cred[Pending] = job[j].who
    /\ job[j].at \in {"promoted", "written"} => InKeychain /\ named[Pending] = None
    /\ job[j].at \in {"written", "record"} => cred[job[j].id] = job[j].who
    /\ job[j].at = "record" /\ ~InKeychain => named[job[j].id] = job[j].name

Runs(j) ==
    /\ Pending \in folders
    /\ \/ job[j].op = "signIn" /\ job[j].id = 0
       \/ job[j].op = "restore" /\ job[j].id \in Homes!Standing

TaskStands(j) ==
    /\ job[j].at \in {"idle", "done", "tool", "reclaim", "giveBack", "reclaimed", "landed",
                      "promoted", "written", "record", "point", "keep"}
    /\ IsAtWork(j) => job[j].op \in Ops
    /\ ~OldTools => job[j].snapshot = None
    /\ job[j].at \in {"tool", "reclaim", "giveBack", "reclaimed"} => Runs(j)
    /\ job[j].at \in {"reclaim", "giveBack", "reclaimed"} => OldTools
    /\ job[j].at \in {"landed", "promoted", "written", "record", "keep"} => Brings(j)
    /\ job[j].at = "point" => job[j].id \in Homes!Ids

(* What stands in the pending home is named after its owner or after nobody,  *)
(* and only old tools write the item of the person's own install.            *)
ToolsTellTheTruth ==
    /\ named[Pending] \in {None, cred[Pending]}
    /\ IF OldTools THEN named[Pending] = None ELSE item = None

(* A home written over and a row not written yet: the one moment an account  *)
(* does not hold the credential of the address it is named by.              *)
WrittenOver(id) == \E j \in Jobs : job[j].id = id /\ job[j].at \in {"written", "record"}
RowsHoldTheirs ==
    \A id \in Homes!Standing : rows[id].label \in {cred[id], Plan} \/ WrittenOver(id)

(* Out of the keychain a row reads as the records of its home do, and a       *)
(* sign-in brings the one account of its address, or the first.              *)
Called(name) == IF name = None THEN Plan ELSE name
RowsReadAsNamed ==
    \A id \in Homes!Standing : rows[id].label = Called(named[id]) \/ WrittenOver(id)
BringsTheOnlyOne(j) ==
    job[j].at \in {"landed", "record", "keep"} /\ job[j].op # "restore"
      => \A id \in Homes!Standing \ strayed :
            rows[id].label = job[j].name => id = job[j].id \/ job[j].id \in strayed
AccountsStandAlone ==
    /\ RowsReadAsNamed /\ Homes!OneRowPerAddress
    /\ \A j \in Jobs : BringsTheOnlyOne(j)

HomesInv ==
    /\ HomesTyped /\ SignsInOnly /\ OneIsAtWork
    /\ \A j \in Jobs : TaskStands(j)
    /\ ToolsTellTheTruth /\ RowsHoldTheirs
    /\ ~InKeychain => AccountsStandAlone

LEMMA HomesFacts ==
  ASSUME HomesTyped
  PROVE  /\ MaxIds \in Nat /\ Homes!Ids = 1..MaxIds /\ ids \in 0..MaxIds
         /\ Pending \notin Homes!Ids /\ Pending \in Homes!Paths /\ Homes!Ids \subseteq Homes!Paths
         /\ None \notin Homes!Paths /\ None \notin Addresses /\ None \notin Homes!Row
         /\ Plan # None /\ Plan \notin Addresses
         /\ rows \in [Homes!Ids -> Homes!Row \union {None}]
         /\ folders \subseteq Homes!Paths
         /\ cred \in [Homes!Paths -> Addresses \union {None}]
         /\ named \in [Homes!Paths -> Addresses \union {None}]
         /\ chosen \in Homes!Ids \union {None} /\ job \in [Jobs -> Task]
         /\ item \in Homes!Written \union {None} /\ strayed \subseteq Homes!Ids
         /\ refused \in 0..Refusals /\ Refusals \in Nat
BY DEF HomesTyped, Homes!SignInsAssumption, Homes!SignInsTypeOK, Homes!Ids, Homes!Paths

LEMMA RowsOfStanding ==
  ASSUME HomesTyped, NEW id \in Homes!Standing
  PROVE  /\ id \in Homes!Ids /\ id \in 1..ids /\ rows[id] \in Homes!Row /\ rows[id] # None
         /\ rows[id].label \in Addresses \union {Plan}
<1>1. id \in Homes!Ids /\ rows[id] # None
  BY DEF Homes!Standing
<1>2. rows[id] \in Homes!Row
  BY <1>1, HomesFacts
<1>3. id \in 1..MaxIds /\ ids \in 0..MaxIds /\ MaxIds \in Nat /\ ~(id > ids)
  BY <1>1, HomesFacts DEF HomesTyped, Homes!SignInsTypeOK
<1>4. QED
  BY <1>1, <1>2, <1>3 DEF Homes!Row

(* One job moves, and the others stand.                                    *)
LEMMA OneTaskMoves ==
  ASSUME HomesTyped, NEW j \in Jobs, NEW task \in Task, job' = [job EXCEPT ![j] = task]
  PROVE  /\ job' \in [Jobs -> Task] /\ job'[j] = task
         /\ \A k \in Jobs : k # j => job'[k] = job[k]
BY HomesFacts

(* To: it moves on, and nothing else of it changes.                         *)
LEMMA TaskGoesOn ==
  ASSUME HomesTyped, NEW j \in Jobs, NEW stage \in Stages, Homes!To(j, stage)
  PROVE  /\ job' \in [Jobs -> Task]
         /\ job'[j].at = stage /\ job'[j].op = job[j].op /\ job'[j].id = job[j].id
         /\ job'[j].who = job[j].who /\ job'[j].name = job[j].name
         /\ job'[j].survivors = job[j].survivors /\ job'[j].snapshot = job[j].snapshot
         /\ \A k \in Jobs : k # j => job'[k] = job[k]
<1>1. job[j] \in Task
  BY HomesFacts
<1>2. PICK task : task = [job[j] EXCEPT !.at = stage]
  OBVIOUS
<1>3. /\ task \in Task /\ task.at = stage /\ task.op = job[j].op /\ task.id = job[j].id
      /\ task.who = job[j].who /\ task.name = job[j].name
      /\ task.survivors = job[j].survivors /\ task.snapshot = job[j].snapshot
  BY <1>1, <1>2 DEF Task
<1>4. job' = [job EXCEPT ![j] = task]
  BY <1>2 DEF Homes!To
<1>5. QED
  BY <1>3, <1>4, OneTaskMoves

(* A job asked for, new and in its lane.                                   *)
LEMMA TaskBegins ==
  ASSUME HomesTyped, NEW j \in Jobs, NEW task \in Task, Homes!Begins(j, task)
  PROVE  /\ job' \in [Jobs -> Task] /\ job'[j] = task /\ task.op \in Ops
         /\ \A k \in Jobs : k # j => job'[k] = job[k]
         /\ job[j].at = "idle" /\ Homes!LaneIsFree(task.op)
BY OneTaskMoves DEF Homes!Begins

-----------------------------------------------------------------------------
(* One at work in the lane.                                                *)

(* Whoever begins finds nobody at work.                                    *)
LEMMA LaneIsOne ==
  ASSUME HomesInv, NEW op \in {"signIn", "browser", "restore", "activate"},
         Homes!LaneIsFree(op), NEW j \in Jobs
  PROVE  ~IsAtWork(j)
<1>1. IsAtWork(j) => job[j].op \in {"signIn", "browser", "restore", "activate"}
  BY DEF HomesInv, TaskStands, SignsInOnly
<1>2. QED
  BY <1>1 DEF Homes!LaneIsFree, Homes!LaneOf, IsAtWork

(* So only the job that moves has to be looked at.                          *)
LEMMA OneIsLookedAt ==
  ASSUME HomesInv, HomesTyped', NEW j \in Jobs,
         \A k \in Jobs : k # j => ~IsAtWork(k) /\ job'[k] = job[k],
         TaskStands(j)', ToolsTellTheTruth', RowsHoldTheirs',
         ~InKeychain => RowsReadAsNamed' /\ Homes!OneRowPerAddress' /\ BringsTheOnlyOne(j)'
  PROVE  HomesInv'
<1>1. ASSUME NEW k \in Jobs, k # j
      PROVE  job'[k] = job[k] /\ job[k].at \in {"idle", "done"} /\ TaskStands(k)
  BY <1>1 DEF HomesInv, TaskStands, IsAtWork, Homes!Rest
<1>2. ASSUME NEW k \in Jobs, k # j PROVE TaskStands(k)' /\ BringsTheOnlyOne(k)' /\ ~IsAtWork(k)'
  BY <1>1, <1>2 DEF TaskStands, BringsTheOnlyOne, IsAtWork, Homes!Rest
<1>3. OneIsAtWork'
  BY <1>2 DEF OneIsAtWork
<1>4. \A k \in Jobs : TaskStands(k)'
  BY <1>2
<1>5. ~InKeychain => AccountsStandAlone'
  <2>1. ~InKeychain => \A k \in Jobs : BringsTheOnlyOne(k)'
    BY <1>2
  <2>2. QED
    BY <2>1 DEF AccountsStandAlone
<1>6. SignsInOnly'
  BY DEF HomesInv, SignsInOnly
<1>7. QED
  BY <1>3, <1>4, <1>5, <1>6 DEF HomesInv

(* What every job that is at work may count on.                             *)
LEMMA AtWorkAlone ==
  ASSUME HomesInv, NEW j \in Jobs, IsAtWork(j)
  PROVE  /\ HomesTyped /\ TaskStands(j) /\ job[j].op \in Ops
         /\ (~InKeychain => BringsTheOnlyOne(j))
         /\ \A k \in Jobs : k # j => ~IsAtWork(k)
BY DEF HomesInv, OneIsAtWork, AccountsStandAlone, TaskStands

(* What stands while no home is written over.                               *)
LEMMA NoneIsWrittenOver ==
  ASSUME HomesInv, NEW j \in Jobs, \A k \in Jobs : k # j => ~IsAtWork(k),
         job[j].at \notin {"written", "record"}, NEW id \in Homes!Standing
  PROVE  /\ ~WrittenOver(id) /\ rows[id].label \in {cred[id], Plan}
         /\ ~InKeychain => rows[id].label = Called(named[id])
<1>1. ~WrittenOver(id)
  BY DEF WrittenOver, IsAtWork, Homes!Rest
<1>2. QED
  BY <1>1 DEF HomesInv, RowsHoldTheirs, AccountsStandAlone, RowsReadAsNamed

(* A job that moves on while the rows and the homes of accounts stand.        *)
LEMMA AccountsUntouched ==
  ASSUME HomesInv, NEW j \in Jobs, \A k \in Jobs : k # j => ~IsAtWork(k),
         job' \in [Jobs -> Task], \A k \in Jobs : k # j => job'[k] = job[k],
         rows' = rows, strayed' = strayed, folders' \subseteq Homes!Paths,
         cred' \in [Homes!Paths -> Addresses \union {None}],
         named' \in [Homes!Paths -> Addresses \union {None}],
         \A i \in Homes!Ids : cred'[i] = cred[i] /\ named'[i] = named[i],
         ids' \in ids..MaxIds, chosen' \in Homes!Ids \union {None},
         item' \in Homes!Written \union {None}, refused' \in 0..Refusals,
         TaskStands(j)', ToolsTellTheTruth', ~InKeychain => BringsTheOnlyOne(j)',
         job[j].at \in {"written", "record"} =>
            job'[j].id = job[j].id /\ job'[j].at \in {"written", "record"}
  PROVE  HomesInv'
<1>1. HomesTyped
  BY DEF HomesInv
<1>2. Homes!Standing' = Homes!Standing /\ \A i \in Homes!Standing : i \in Homes!Ids
  BY DEF Homes!Standing
<1>3. ids' \in 0..MaxIds /\ ids' >= ids /\ ids \in Nat
  BY <1>1, HomesFacts
<1>4. \A i \in Homes!Ids : i > ids' => rows[i] = None
  <2>1. \A i \in Homes!Ids : i > ids => rows[i] = None
    BY <1>1 DEF HomesTyped, Homes!SignInsTypeOK
  <2>2. \A i \in Homes!Ids : i \in Nat
    BY <1>1, HomesFacts
  <2>3. QED
    BY <1>3, <2>1, <2>2
<1>5. HomesTyped'
  BY <1>1, <1>3, <1>4 DEF HomesTyped, Homes!SignInsTypeOK, Homes!SignInsAssumption
<1>6. \A i \in Homes!Standing : WrittenOver(i) => WrittenOver(i)'
  BY DEF WrittenOver, IsAtWork, Homes!Rest
<1>7. RowsHoldTheirs'
  <2>1. ASSUME NEW i \in Homes!Standing PROVE rows[i].label \in {cred[i], Plan} \/ WrittenOver(i)'
    BY <1>6 DEF HomesInv, RowsHoldTheirs
  <2>2. QED
    BY <1>2, <2>1 DEF RowsHoldTheirs
<1>8. ~InKeychain => RowsReadAsNamed' /\ Homes!OneRowPerAddress'
  <2>1. ~InKeychain => Homes!OneRowPerAddress'
    BY <1>2 DEF HomesInv, AccountsStandAlone, Homes!OneRowPerAddress
  <2>2. ASSUME ~InKeychain, NEW i \in Homes!Standing
        PROVE  rows[i].label = Called(named[i]) \/ WrittenOver(i)'
    BY <1>6, <2>2 DEF HomesInv, AccountsStandAlone, RowsReadAsNamed
  <2>3. ~InKeychain => RowsReadAsNamed'
    BY <1>2, <2>2 DEF RowsReadAsNamed, Called
  <2>4. QED
    BY <2>1, <2>3
<1>9. QED
  BY <1>5, <1>7, <1>8, OneIsLookedAt

-----------------------------------------------------------------------------
(* A sign-in through the plan's own tool.                                  *)

LEMMA RunsTheToolKeeps ==
  ASSUME HomesInv, NEW j \in Jobs, NEW op \in {"signIn", "restore"}, NEW id,
         (op = "signIn" /\ id = 0) \/ (op = "restore" /\ id \in Homes!Standing),
         Homes!RunsTheTool(j, op, id)
  PROVE  HomesInv'
<1>1. PICK task : task = [Homes!Waits EXCEPT !.op = op, !.at = "tool", !.id = id,
                                             !.snapshot = item]
  OBVIOUS
<1>2. /\ Homes!Begins(j, task) /\ Homes!ResetPending
      /\ UNCHANGED <<rows, chosen, item, strayed, ids, refused>>
  BY <1>1 DEF Homes!RunsTheTool
<1>3. HomesTyped /\ id \in Homes!Ids \union {0}
  BY RowsOfStanding DEF HomesInv
<1>4. /\ task \in Task /\ task.at = "tool" /\ task.op = op /\ task.id = id
      /\ task.snapshot = item
  BY <1>1, <1>3, HomesFacts DEF Homes!Waits, Task, Stages
<1>5. /\ job' \in [Jobs -> Task] /\ op \in Ops /\ job'[j] = task
      /\ \A k \in Jobs : k # j => job'[k] = job[k]
      /\ Homes!LaneIsFree(op) /\ job[j].at = "idle"
  BY <1>2, <1>3, <1>4, TaskBegins
<1>6. \A k \in Jobs : ~IsAtWork(k)
  BY <1>5, LaneIsOne
<1>7. /\ folders' = folders \union {Pending} /\ named' = [named EXCEPT ![Pending] = None]
      /\ cred' = IF InKeychain THEN cred ELSE [cred EXCEPT ![Pending] = None]
  BY <1>2 DEF Homes!ResetPending
<1>8. /\ cred' \in [Homes!Paths -> Addresses \union {None}]
      /\ named' \in [Homes!Paths -> Addresses \union {None}]
      /\ named'[Pending] = None
      /\ \A i \in Homes!Ids : cred'[i] = cred[i] /\ named'[i] = named[i]
  BY <1>3, <1>7, HomesFacts
<1>9. Homes!Standing' = Homes!Standing
  BY <1>2 DEF Homes!Standing
<1>10. ToolsTellTheTruth'
  BY <1>2, <1>8 DEF HomesInv, ToolsTellTheTruth
<1>11. TaskStands(j)' /\ BringsTheOnlyOne(j)'
  BY <1>4, <1>5, <1>7, <1>9 DEF HomesInv, ToolsTellTheTruth, TaskStands, Runs, BringsTheOnlyOne
<1>12. folders' \subseteq Homes!Paths /\ ids' \in ids..MaxIds
  BY <1>2, <1>3, <1>7, HomesFacts
<1>13. QED
  BY <1>2, <1>3, <1>5, <1>6, <1>8, <1>10, <1>11, <1>12, HomesFacts, AccountsUntouched

LEMMA SignInKeeps ==
  ASSUME HomesInv, NEW j \in Jobs, Homes!SignIn(j)
  PROVE  HomesInv'
<1>1. PICK op, id : op = "signIn" /\ id = 0
  OBVIOUS
<1>2. Homes!RunsTheTool(j, op, id) /\ op \in {"signIn", "restore"}
  BY <1>1 DEF Homes!SignIn
<1>3. QED
  BY <1>1, <1>2, RunsTheToolKeeps

LEMMA RestoreKeeps ==
  ASSUME HomesInv, NEW j \in Jobs, Homes!Restore(j)
  PROVE  HomesInv'
BY RunsTheToolKeeps DEF Homes!Restore

(* Whatever the tool leaves, it leaves it to the pending home or to the       *)
(* person's own item.                                                       *)
LEMMA FinishesKeeps ==
  ASSUME HomesInv, NEW j \in Jobs, Homes!Finishes(j),
         cred' \in [Homes!Paths -> Addresses \union {None}],
         named' \in [Homes!Paths -> Addresses \union {None}],
         \A i \in Homes!Ids : cred'[i] = cred[i] /\ named'[i] = named[i],
         item' \in Homes!Written \union {None}, ToolsTellTheTruth'
  PROVE  HomesInv'
<1>1. /\ job[j].at = "tool" /\ UNCHANGED <<rows, folders, chosen, strayed, ids, refused, job>>
  BY DEF Homes!Finishes, HomesInv, SignsInOnly
<1>2. /\ HomesTyped /\ TaskStands(j) /\ \A k \in Jobs : k # j => ~IsAtWork(k)
  BY <1>1, AtWorkAlone DEF IsAtWork, Homes!Rest
<1>3. Homes!Standing' = Homes!Standing
  BY <1>1 DEF Homes!Standing
<1>4. TaskStands(j)' /\ BringsTheOnlyOne(j)'
  BY <1>1, <1>2, <1>3 DEF TaskStands, Runs, BringsTheOnlyOne, IsAtWork
<1>5. ids' \in ids..MaxIds
  BY <1>1, <1>2, HomesFacts
<1>6. QED
  BY <1>1, <1>2, <1>4, <1>5, HomesFacts, AccountsUntouched

LEMMA ToolWritesKeeps ==
  ASSUME HomesInv, NEW j \in Jobs, NEW who \in Addresses, Homes!ToolWrites(j, who)
  PROVE  HomesInv'
<1>1. PICK name \in {who, None} :
        /\ ~OldTools /\ Homes!Finishes(j) /\ item' = item
        /\ cred' = [cred EXCEPT ![Pending] = who]
        /\ named' = IF Pending \in folders THEN [named EXCEPT ![Pending] = name] ELSE named
  BY DEF Homes!ToolWrites
<1>2. job[j].at = "tool"
  BY <1>1 DEF Homes!Finishes, HomesInv, SignsInOnly
<1>3. HomesTyped /\ Pending \in folders
  BY <1>2, AtWorkAlone DEF IsAtWork, Homes!Rest, TaskStands, Runs
<1>4. /\ cred' \in [Homes!Paths -> Addresses \union {None}]
      /\ named' \in [Homes!Paths -> Addresses \union {None}]
      /\ cred'[Pending] = who /\ named'[Pending] = name
      /\ \A i \in Homes!Ids : cred'[i] = cred[i] /\ named'[i] = named[i]
  BY <1>1, <1>3, HomesFacts
<1>5. ToolsTellTheTruth'
  BY <1>1, <1>4 DEF HomesInv, ToolsTellTheTruth
<1>6. QED
  BY <1>1, <1>3, <1>4, <1>5, HomesFacts, FinishesKeeps

LEMMA OldToolWritesKeeps ==
  ASSUME HomesInv, NEW j \in Jobs, NEW who \in Addresses, Homes!OldToolWrites(j, who)
  PROVE  HomesInv'
<1>1. /\ OldTools /\ Homes!Finishes(j) /\ item' = [who |-> who, by |-> j]
      /\ cred' = cred /\ named' = named
  BY DEF Homes!OldToolWrites
<1>2. HomesTyped /\ item' \in Homes!Written
  BY <1>1 DEF HomesInv, Homes!Written
<1>3. ToolsTellTheTruth'
  BY <1>1 DEF HomesInv, ToolsTellTheTruth
<1>4. QED
  BY <1>1, <1>2, <1>3, HomesFacts, FinishesKeeps

LEMMA LandsKeeps ==
  ASSUME HomesInv, NEW j \in Jobs, Homes!Lands(j)
  PROVE  HomesInv'
<1>1. PICK id \in Homes!AccountsFor(j) :
        /\ job[j].at \in {"tool", "reclaimed"} /\ cred[Pending] # None /\ id \in Homes!Ids
        /\ ids' = (IF id = ids + 1 THEN ids + 1 ELSE ids)
        /\ job' = [job EXCEPT ![j].at = "landed", ![j].id = id, ![j].who = cred[Pending],
                              ![j].name = named[Pending]]
        /\ UNCHANGED <<rows, folders, cred, named, chosen, item, strayed, refused>>
  BY DEF Homes!Lands, Homes!Mints, Homes!Fresh, Homes!disk, Homes!runs
<1>2. /\ HomesTyped /\ TaskStands(j) /\ \A k \in Jobs : k # j => ~IsAtWork(k)
      /\ job[j].op \in Ops
  BY <1>1, AtWorkAlone DEF IsAtWork, Homes!Rest
<1>3. PICK who, name : who = cred[Pending] /\ name = named[Pending]
  OBVIOUS
<1>4. who \in Addresses /\ name \in {who, None}
  BY <1>1, <1>2, <1>3, HomesFacts DEF HomesInv, ToolsTellTheTruth
<1>5. /\ job' \in [Jobs -> Task] /\ job'[j].at = "landed" /\ job'[j].id = id
      /\ job'[j].who = who /\ job'[j].name = name /\ job'[j].op = job[j].op
      /\ job'[j].snapshot = job[j].snapshot
      /\ \A k \in Jobs : k # j => job'[k] = job[k]
  <2>1. job[j] \in Task
    BY <1>2, HomesFacts
  <2>2. PICK task : task = [job[j] EXCEPT !.at = "landed", !.id = id, !.who = who, !.name = name]
    OBVIOUS
  <2>3. /\ task \in Task /\ task.at = "landed" /\ task.id = id /\ task.who = who
        /\ task.name = name /\ task.op = job[j].op /\ task.snapshot = job[j].snapshot
    BY <1>1, <1>4, <2>1, <2>2 DEF Task, Stages
  <2>4. job' = [job EXCEPT ![j] = task]
    BY <1>1, <1>3, <2>2
  <2>5. QED
    BY <1>2, <2>3, <2>4, OneTaskMoves
<1>6. PICK found : found = Homes!HeldUnderTheAddress(name)
  OBVIOUS
<1>7. found = {i \in Homes!Standing : name # None /\ named[i] = name}
  BY <1>6 DEF Homes!HeldUnderTheAddress
<1>8. \/ job[j].op = "restore" /\ id \in Homes!Standing
      \/ job[j].op = "signIn" /\ id \in found
      \/ job[j].op = "signIn" /\ found = {} /\ id = ids + 1
  BY <1>1, <1>2, <1>3, <1>6, RowsOfStanding, HomesFacts
     DEF Homes!AccountsFor, Homes!PickedFrom, Homes!Fresh, TaskStands, Runs
<1>9. ids' \in ids..MaxIds /\ id \in 1..ids'
  <2>1. id \in Homes!Standing => id \in 1..ids
    BY <1>2, RowsOfStanding
  <2>2. id \in 1..MaxIds /\ ids \in 0..MaxIds /\ MaxIds \in Nat
    BY <1>1, <1>2, HomesFacts
  <2>3. QED
    BY <1>1, <1>7, <1>8, <2>1, <2>2
<1>10. TaskStands(j)'
  BY <1>1, <1>2, <1>3, <1>4, <1>5, <1>9 DEF TaskStands, IsAtWork, Brings
<1>11. Homes!Standing' = Homes!Standing
  BY <1>1 DEF Homes!Standing
<1>12. ASSUME ~InKeychain PROVE BringsTheOnlyOne(j)'
  <2>1. ASSUME job[j].op = "signIn", NEW i \in Homes!Standing \ strayed, rows[i].label = name
        PROVE  i = id \/ id \in strayed
    <3>1. name # None /\ name # Plan
      BY <1>2, <1>4, <2>1, RowsOfStanding, HomesFacts
    <3>2. \A k \in Homes!Standing : rows[k].label = Called(named[k])
      BY <1>1, <1>2, <1>12, NoneIsWrittenOver
    <3>3. i \in found
      BY <1>7, <2>1, <3>1, <3>2 DEF Called
    <3>4. id \in Homes!Standing /\ rows[id].label = name
      BY <1>7, <1>8, <2>1, <3>1, <3>2, <3>3 DEF Called
    <3>5. QED
      BY <1>12, <2>1, <3>1, <3>4 DEF HomesInv, AccountsStandAlone, Homes!OneRowPerAddress
  <2>2. QED
    BY <1>1, <1>5, <1>8, <1>11, <2>1 DEF BringsTheOnlyOne
<1>13. ToolsTellTheTruth'
  BY <1>1 DEF HomesInv, ToolsTellTheTruth
<1>14. QED
  BY <1>1, <1>2, <1>5, <1>9, <1>10, <1>12, <1>13, HomesFacts, AccountsUntouched

(* A job that only goes on, or is refused.                                  *)
LEMMA OnlyTheJobMoves ==
  ASSUME HomesInv, NEW j \in Jobs, IsAtWork(j), NEW stage \in Stages, Homes!To(j, stage),
         UNCHANGED <<rows, folders, named, strayed, ids>>,
         cred' \in [Homes!Paths -> Addresses \union {None}],
         \A i \in Homes!Ids : cred'[i] = cred[i],
         chosen' \in Homes!Ids \union {None}, refused' \in {refused, refused + 1},
         refused' # refused => refused < Refusals,
         item' \in Homes!Written \union {None},
         TaskStands(j)', ToolsTellTheTruth',
         stage \in {"landed", "record", "keep"} => job[j].at \in {"landed", "record", "keep"}
                                                   \/ InKeychain,
         job[j].at \in {"written", "record"} => stage \in {"written", "record"}
  PROVE  HomesInv'
<1>1. /\ HomesTyped /\ (~InKeychain => BringsTheOnlyOne(j))
      /\ \A k \in Jobs : k # j => ~IsAtWork(k)
  BY AtWorkAlone
<1>2. /\ job' \in [Jobs -> Task] /\ job'[j].at = stage /\ job'[j].id = job[j].id
      /\ job'[j].op = job[j].op /\ job'[j].name = job[j].name
      /\ \A k \in Jobs : k # j => job'[k] = job[k]
  BY <1>1, TaskGoesOn
<1>3. ~InKeychain => BringsTheOnlyOne(j)'
  BY <1>1, <1>2 DEF BringsTheOnlyOne, Homes!Standing
<1>4. refused' \in 0..Refusals /\ ids' \in ids..MaxIds /\ folders' \subseteq Homes!Paths
  BY <1>1, HomesFacts
<1>5. /\ named' \in [Homes!Paths -> Addresses \union {None}]
      /\ \A i \in Homes!Ids : cred'[i] = cred[i] /\ named'[i] = named[i]
  BY <1>1, HomesFacts
<1>6. QED
  BY <1>1, <1>2, <1>3, <1>4, <1>5, AccountsUntouched

LEMMA TimesOutKeeps ==
  ASSUME HomesInv, NEW j \in Jobs, Homes!TimesOut(j)
  PROVE  HomesInv'
<1>1. PICK stage : stage = IF InKeychain /\ item # job[j].snapshot THEN "reclaim" ELSE "done"
  OBVIOUS
<1>2. /\ job[j].at = "tool" /\ Homes!To(j, stage) /\ stage \in Stages
      /\ UNCHANGED <<rows, folders, cred, named, chosen, item, strayed, ids, refused>>
  BY <1>1 DEF Homes!TimesOut, Homes!disk, Homes!runs, Stages
<1>3. IsAtWork(j) /\ HomesTyped /\ TaskStands(j)
  BY <1>2, AtWorkAlone DEF IsAtWork, Homes!Rest
<1>4. /\ job'[j].at = stage /\ job'[j].id = job[j].id /\ job'[j].op = job[j].op
      /\ job'[j].snapshot = job[j].snapshot
  BY <1>2, <1>3, TaskGoesOn
<1>5. stage = "reclaim" => OldTools
  BY <1>1, <1>2, <1>3 DEF HomesInv, ToolsTellTheTruth, TaskStands
<1>6. TaskStands(j)'
  BY <1>1, <1>2, <1>3, <1>4, <1>5 DEF TaskStands, Runs, IsAtWork, Homes!Standing, Homes!Rest
<1>7. ToolsTellTheTruth'
  BY <1>2 DEF HomesInv, ToolsTellTheTruth
<1>8. stage \in {"reclaim", "done"}
  BY <1>1
<1>9. QED
  BY <1>2, <1>3, <1>6, <1>7, <1>8, HomesFacts, OnlyTheJobMoves

(* Where the old tool's write goes, and the person's login back.             *)
LEMMA MoveTheWriteHomeKeeps ==
  ASSUME HomesInv, NEW j \in Jobs, Homes!MoveTheWriteHome(j)
  PROVE  HomesInv'
<1>1. /\ job[j].at = "reclaim" /\ item # None
      /\ \/ /\ cred' = [cred EXCEPT ![Pending] = item.who]
            /\ Homes!To(j, "giveBack") /\ refused' = refused
         \/ /\ cred' = cred /\ Homes!To(j, "done")
            /\ refused < Refusals /\ refused' = refused + 1
      /\ UNCHANGED <<rows, folders, named, chosen, item, strayed, ids>>
  BY DEF Homes!MoveTheWriteHome, Homes!IsRefused, Homes!runs
<1>2. IsAtWork(j) /\ HomesTyped /\ TaskStands(j) /\ OldTools /\ named[Pending] = None
  BY <1>1, AtWorkAlone DEF IsAtWork, Homes!Rest, TaskStands, HomesInv, ToolsTellTheTruth
<1>3. item \in Homes!Written /\ item.who \in Addresses
  BY <1>1, <1>2, HomesFacts DEF Homes!Written
<1>4. /\ cred' \in [Homes!Paths -> Addresses \union {None}]
      /\ \A i \in Homes!Ids : cred'[i] = cred[i]
  BY <1>1, <1>2, <1>3, HomesFacts
<1>5. PICK stage \in {"giveBack", "done"} : Homes!To(j, stage)
  BY <1>1
<1>6. stage \in Stages
  BY <1>5 DEF Stages
<1>7. /\ job'[j].at = stage /\ job'[j].id = job[j].id /\ job'[j].op = job[j].op
  BY <1>2, <1>5, <1>6, TaskGoesOn
<1>8. TaskStands(j)' /\ ToolsTellTheTruth'
  BY <1>1, <1>2, <1>5, <1>7
     DEF TaskStands, Runs, IsAtWork, Homes!Standing, Homes!Rest, ToolsTellTheTruth
<1>9. QED
  BY <1>1, <1>2, <1>4, <1>5, <1>6, <1>8, HomesFacts, OnlyTheJobMoves

LEMMA PutTheSnapshotBackKeeps ==
  ASSUME HomesInv, NEW j \in Jobs, Homes!PutTheSnapshotBack(j), Homes!NothingIsCut'
  PROVE  HomesInv'
<1>1. /\ job[j].at = "giveBack"
      /\ \/ item' = job[j].snapshot /\ Homes!To(j, "reclaimed") /\ refused' = refused
         \/ Homes!To(j, "cut")
      /\ UNCHANGED <<rows, folders, cred, named, chosen, strayed, ids>>
  BY DEF Homes!PutTheSnapshotBack, Homes!IsRefused, Homes!disk
<1>2. IsAtWork(j) /\ HomesTyped /\ TaskStands(j) /\ OldTools /\ job[j] \in Task
  BY <1>1, AtWorkAlone, HomesFacts DEF IsAtWork, Homes!Rest, TaskStands
<1>3. ~Homes!To(j, "cut")
  <2>1. ASSUME Homes!To(j, "cut") PROVE job'[j].at = "cut"
    BY <1>2, <2>1, TaskGoesOn DEF Stages
  <2>2. QED
    BY <2>1 DEF Homes!NothingIsCut
<1>4. item' \in Homes!Written \union {None}
  BY <1>1, <1>2, <1>3 DEF Task
<1>5. Homes!To(j, "reclaimed") /\ refused' = refused
  BY <1>1, <1>3
<1>6. PICK stage : stage = "reclaimed"
  OBVIOUS
<1>7. /\ job'[j].at = stage /\ job'[j].id = job[j].id /\ job'[j].op = job[j].op
      /\ stage \in Stages
  BY <1>2, <1>5, <1>6, TaskGoesOn DEF Stages
<1>8. TaskStands(j)' /\ ToolsTellTheTruth'
  BY <1>1, <1>2, <1>6, <1>7
     DEF TaskStands, Runs, IsAtWork, Homes!Standing, Homes!Rest, ToolsTellTheTruth, HomesInv
<1>9. QED
  BY <1>1, <1>2, <1>4, <1>5, <1>6, <1>7, <1>8, HomesFacts, OnlyTheJobMoves

(* The pending home takes the place of the account's own.                   *)
LEMMA PromotePendingKeeps ==
  ASSUME HomesInv, NEW j \in Jobs, Homes!PromotePending(j)
  PROVE  HomesInv'
<1>0. PICK id, who, name : id = job[j].id /\ who = job[j].who /\ name = job[j].name
  OBVIOUS
<1>1. /\ job[j].at = "landed"
      /\ folders' = (folders \ {Pending}) \union {id}
      /\ named' = [named EXCEPT ![id] = named[Pending], ![Pending] = None]
      /\ IF InKeychain
           THEN Homes!To(j, "promoted") /\ cred' = cred
           ELSE /\ Homes!To(j, "record")
                /\ cred' = [cred EXCEPT ![id] = cred[Pending], ![Pending] = None]
      /\ UNCHANGED <<rows, chosen, item, strayed, ids, refused>>
  BY <1>0 DEF Homes!PromotePending, Homes!runs
<1>2. /\ HomesTyped /\ TaskStands(j) /\ (~InKeychain => BringsTheOnlyOne(j))
      /\ \A k \in Jobs : k # j => ~IsAtWork(k)
      /\ job[j].op \in Ops /\ job[j] \in Task
  BY <1>1, AtWorkAlone, HomesFacts DEF IsAtWork, Homes!Rest
<1>3. /\ id \in 1..ids /\ who \in Addresses /\ name \in {who, None}
      /\ cred[Pending] = who /\ named[Pending] = name
  BY <1>0, <1>1, <1>2 DEF TaskStands, Brings
<1>4. id \in Homes!Ids
  BY <1>2, <1>3, HomesFacts
<1>5. PICK stage : stage = IF InKeychain THEN "promoted" ELSE "record"
  OBVIOUS
<1>6. Homes!To(j, stage) /\ stage \in Stages
  BY <1>1, <1>5 DEF Stages
<1>7. /\ job' \in [Jobs -> Task] /\ job'[j].at = stage /\ job'[j].id = id
      /\ job'[j].op = job[j].op /\ job'[j].who = who /\ job'[j].name = name
      /\ job'[j].snapshot = job[j].snapshot
      /\ \A k \in Jobs : k # j => job'[k] = job[k]
  BY <1>0, <1>2, <1>6, TaskGoesOn
<1>8. /\ cred' \in [Homes!Paths -> Addresses \union {None}]
      /\ named' \in [Homes!Paths -> Addresses \union {None}]
      /\ named'[Pending] = None /\ named'[id] = name
      /\ \A i \in Homes!Ids : i # id => cred'[i] = cred[i] /\ named'[i] = named[i]
      /\ InKeychain => cred' = cred
      /\ ~InKeychain => cred'[id] = who
  BY <1>1, <1>2, <1>3, <1>4, HomesFacts
<1>9. Homes!Standing' = Homes!Standing
  BY <1>1 DEF Homes!Standing
<1>10. HomesTyped'
  <2>1. folders' \subseteq Homes!Paths
    BY <1>1, <1>2, <1>4, HomesFacts
  <2>2. QED
    BY <1>1, <1>2, <1>7, <1>8, <2>1 DEF HomesTyped, Homes!SignInsTypeOK, Homes!SignInsAssumption
<1>11. TaskStands(j)'
  BY <1>1, <1>2, <1>3, <1>5, <1>7, <1>8 DEF TaskStands, IsAtWork, Brings
<1>12. ToolsTellTheTruth'
  BY <1>1, <1>8 DEF HomesInv, ToolsTellTheTruth
<1>13. ~InKeychain => WrittenOver(id)'
  BY <1>5, <1>7 DEF WrittenOver
<1>14. ASSUME NEW i \in Homes!Standing
       PROVE  /\ i \in Homes!Ids /\ rows[i].label \in {cred[i], Plan}
              /\ ~InKeychain => rows[i].label = Called(named[i])
  BY <1>1, <1>2, NoneIsWrittenOver, RowsOfStanding
<1>15. RowsHoldTheirs'
  <2>1. ASSUME NEW i \in Homes!Standing PROVE rows[i].label \in {cred'[i], Plan} \/ WrittenOver(i)'
    BY <1>8, <1>13, <1>14
  <2>2. QED
    BY <1>1, <1>9, <2>1 DEF RowsHoldTheirs
<1>16. ASSUME ~InKeychain
       PROVE  RowsReadAsNamed' /\ Homes!OneRowPerAddress' /\ BringsTheOnlyOne(j)'
  <2>1. ASSUME NEW i \in Homes!Standing
        PROVE  rows[i].label = Called(named'[i]) \/ WrittenOver(i)'
    BY <1>8, <1>13, <1>14, <1>16
  <2>2. RowsReadAsNamed'
    BY <1>1, <1>9, <2>1 DEF RowsReadAsNamed, Called
  <2>3. Homes!OneRowPerAddress'
    BY <1>1, <1>9, <1>16 DEF HomesInv, AccountsStandAlone, Homes!OneRowPerAddress
  <2>4. BringsTheOnlyOne(j)'
    BY <1>0, <1>1, <1>2, <1>7, <1>9, <1>16 DEF BringsTheOnlyOne
  <2>5. QED
    BY <2>2, <2>3, <2>4
<1>17. QED
  BY <1>2, <1>7, <1>10, <1>11, <1>12, <1>15, <1>16, OneIsLookedAt

(* The credential follows its home, or is refused and the sign-in ends.      *)
LEMMA WriteUnderKeeps ==
  ASSUME HomesInv, NEW j \in Jobs, Homes!WriteUnder(j)
  PROVE  HomesInv'
<1>0. PICK id, who : id = job[j].id /\ who = job[j].who
  OBVIOUS
<1>1. /\ job[j].at = "promoted"
      /\ \/ /\ cred' = [cred EXCEPT ![id] = cred[Pending]]
            /\ Homes!To(j, "written") /\ refused' = refused
         \/ /\ cred' = cred /\ Homes!To(j, "done")
            /\ refused < Refusals /\ refused' = refused + 1
      /\ UNCHANGED <<rows, folders, named, chosen, item, strayed, ids>>
  BY <1>0 DEF Homes!WriteUnder, Homes!IsRefused, Homes!runs
<1>2. /\ IsAtWork(j) /\ HomesTyped /\ TaskStands(j) /\ job[j].op \in Ops
      /\ \A k \in Jobs : k # j => ~IsAtWork(k)
  BY <1>1, AtWorkAlone DEF IsAtWork, Homes!Rest
<1>3. /\ id \in 1..ids /\ who \in Addresses /\ job[j].name \in {who, None} /\ InKeychain
      /\ cred[Pending] = who /\ named[Pending] = None
  BY <1>0, <1>1, <1>2 DEF TaskStands, Brings
<1>4. id \in Homes!Ids
  BY <1>2, <1>3, HomesFacts
<1>5. CASE Homes!To(j, "done") /\ cred' = cred /\ refused < Refusals /\ refused' = refused + 1
  <2>1. PICK stage : stage = "done"
    OBVIOUS
  <2>2. /\ job'[j].at = stage /\ job'[j].snapshot = job[j].snapshot /\ stage \in Stages
    BY <1>2, <1>5, <2>1, TaskGoesOn DEF Stages
  <2>3. TaskStands(j)' /\ ToolsTellTheTruth'
    BY <1>1, <1>2, <1>5, <2>1, <2>2
       DEF TaskStands, IsAtWork, Homes!Rest, HomesInv, ToolsTellTheTruth
  <2>4. QED
    BY <1>1, <1>2, <1>5, <2>1, <2>2, <2>3, HomesFacts, OnlyTheJobMoves
<1>6. CASE /\ Homes!To(j, "written") /\ refused' = refused
           /\ cred' = [cred EXCEPT ![id] = cred[Pending]]
  <2>1. /\ job' \in [Jobs -> Task] /\ job'[j].at = "written" /\ job'[j].id = id
        /\ job'[j].op = job[j].op /\ job'[j].who = who /\ job'[j].name = job[j].name
        /\ job'[j].snapshot = job[j].snapshot
        /\ \A k \in Jobs : k # j => job'[k] = job[k]
    BY <1>0, <1>2, <1>6, TaskGoesOn DEF Stages
  <2>2. /\ cred' \in [Homes!Paths -> Addresses \union {None}] /\ cred'[id] = who
        /\ cred'[Pending] = cred[Pending]
        /\ \A i \in Homes!Ids : i # id => cred'[i] = cred[i]
    BY <1>2, <1>3, <1>4, <1>6, HomesFacts
  <2>3. HomesTyped'
    BY <1>1, <1>2, <1>6, <2>1, <2>2 DEF HomesTyped, Homes!SignInsTypeOK, Homes!SignInsAssumption
  <2>4. TaskStands(j)' /\ ToolsTellTheTruth'
    BY <1>1, <1>2, <1>3, <2>1, <2>2
       DEF TaskStands, Brings, IsAtWork, HomesInv, ToolsTellTheTruth
  <2>5. RowsHoldTheirs'
    <3>1. WrittenOver(id)'
      BY <2>1 DEF WrittenOver
    <3>2. ASSUME NEW i \in Homes!Standing
          PROVE  rows[i].label \in {cred'[i], Plan} \/ WrittenOver(i)'
      BY <1>1, <1>2, <2>2, <3>1, NoneIsWrittenOver, RowsOfStanding
    <3>3. Homes!Standing' = Homes!Standing
      BY <1>1 DEF Homes!Standing
    <3>4. QED
      BY <1>1, <3>2, <3>3 DEF RowsHoldTheirs
  <2>6. QED
    BY <1>2, <1>3, <2>1, <2>3, <2>4, <2>5, OneIsLookedAt
<1>7. QED
  BY <1>1, <1>5, <1>6

LEMMA LetGoOfPendingKeeps ==
  ASSUME HomesInv, NEW j \in Jobs, Homes!LetGoOfPending(j), Homes!NothingIsCut'
  PROVE  HomesInv'
<1>1. /\ job[j].at = "written"
      /\ \/ /\ cred' = [cred EXCEPT ![Pending] = None]
            /\ Homes!To(j, "record") /\ refused' = refused
         \/ Homes!To(j, "cut")
      /\ UNCHANGED <<rows, folders, named, chosen, item, strayed, ids>>
  BY DEF Homes!LetGoOfPending, Homes!IsRefused, Homes!runs
<1>2. IsAtWork(j) /\ HomesTyped /\ TaskStands(j) /\ job[j].op \in Ops
  BY <1>1, AtWorkAlone DEF IsAtWork, Homes!Rest
<1>3. ~Homes!To(j, "cut")
  <2>1. ASSUME Homes!To(j, "cut") PROVE job'[j].at = "cut"
    BY <1>2, <2>1, TaskGoesOn DEF Stages
  <2>2. QED
    BY <2>1 DEF Homes!NothingIsCut
<1>4. /\ cred' \in [Homes!Paths -> Addresses \union {None}]
      /\ \A i \in Homes!Ids : cred'[i] = cred[i]
  BY <1>1, <1>2, <1>3, HomesFacts
<1>5. PICK stage : stage = "record"
  OBVIOUS
<1>6. /\ job'[j].at = stage /\ job'[j].id = job[j].id /\ job'[j].op = job[j].op
      /\ job'[j].who = job[j].who /\ job'[j].name = job[j].name
      /\ job'[j].snapshot = job[j].snapshot /\ stage \in Stages
      /\ Homes!To(j, stage) /\ refused' = refused
  BY <1>1, <1>2, <1>3, <1>5, TaskGoesOn DEF Stages
<1>7. Brings(j) /\ InKeychain /\ named[Pending] = None
  BY <1>1, <1>2 DEF TaskStands, Brings
<1>8. job[j].id \in Homes!Ids
  BY <1>2, <1>7, HomesFacts DEF Brings
<1>9. TaskStands(j)' /\ ToolsTellTheTruth'
  BY <1>1, <1>2, <1>4, <1>5, <1>6, <1>7, <1>8
     DEF TaskStands, Brings, IsAtWork, HomesInv, ToolsTellTheTruth
<1>10. QED
  BY <1>1, <1>2, <1>4, <1>5, <1>6, <1>7, <1>9, HomesFacts, OnlyTheJobMoves

(* The row is written, by then holding the credential it is named by.        *)
LEMMA RecordKeeps ==
  ASSUME HomesInv, NEW j \in Jobs, Homes!Record(j)
  PROVE  HomesInv'
<1>0. PICK id, name : id = job[j].id /\ name = job[j].name
  OBVIOUS
<1>1. PICK label \in Homes!LabelsFor(j) :
        /\ job[j].at = "record" /\ Homes!To(j, "point")
        /\ rows' = [rows EXCEPT ![id] = [label |-> label, machine |-> FALSE]]
        /\ strayed' = IF job[j].op = "restore" /\ Homes!IsRenamed(id, label)
                        THEN strayed \union {id} ELSE strayed
        /\ UNCHANGED <<folders, cred, named, chosen, item, ids, refused>>
  BY <1>0 DEF Homes!Record, Homes!RecordTheAccount, Homes!disk, Homes!runs
<1>2. /\ HomesTyped /\ TaskStands(j) /\ (~InKeychain => BringsTheOnlyOne(j))
      /\ \A k \in Jobs : k # j => ~IsAtWork(k)
      /\ job[j].op \in Ops
  BY <1>1, AtWorkAlone DEF IsAtWork, Homes!Rest
<1>3. /\ id \in 1..ids /\ cred[id] \in Addresses /\ name \in {cred[id], None}
      /\ ~InKeychain => named[id] = name
  BY <1>0, <1>1, <1>2 DEF TaskStands, Brings
<1>4. id \in Homes!Ids /\ id \in Nat /\ id <= ids /\ None \notin Addresses
  BY <1>2, <1>3, HomesFacts
<1>5. label \in {cred[id], Plan} /\ (~InKeychain => label = Called(name))
  BY <1>0, <1>1, <1>3, <1>4 DEF Homes!LabelsFor, Called
<1>6. /\ job' \in [Jobs -> Task] /\ job'[j].at = "point" /\ job'[j].id = id
      /\ job'[j].op = job[j].op /\ job'[j].snapshot = job[j].snapshot
      /\ \A k \in Jobs : k # j => job'[k] = job[k]
  BY <1>0, <1>1, <1>2, TaskGoesOn DEF Stages
<1>7. PICK row : row = [label |-> label, machine |-> FALSE]
  OBVIOUS
<1>8. row \in Homes!Row /\ row.label = label /\ row # None
  <2>1. row \in Homes!Row /\ row.label = label
    BY <1>3, <1>5, <1>7 DEF Homes!Row
  <2>2. QED
    BY <1>2, <2>1, HomesFacts
<1>9. /\ rows' \in [Homes!Ids -> Homes!Row \union {None}] /\ rows'[id] = row
      /\ \A i \in Homes!Ids : i # id => rows'[i] = rows[i]
  BY <1>1, <1>2, <1>4, <1>7, <1>8, HomesFacts
<1>10. Homes!Standing' = Homes!Standing \union {id} /\ Homes!Standing \subseteq Homes!Ids
  BY <1>4, <1>8, <1>9 DEF Homes!Standing, Homes!Ids
<1>11. HomesTyped'
  <2>1. \A i \in Homes!Ids : i > ids => rows'[i] = None
    <3>1. \A i \in Homes!Ids : i > ids => rows[i] = None
      BY <1>2 DEF HomesTyped, Homes!SignInsTypeOK
    <3>2. ids \in Nat
      BY <1>2, HomesFacts
    <3>3. QED
      BY <1>4, <1>9, <3>1, <3>2
  <2>2. strayed' \subseteq Homes!Ids
    BY <1>1, <1>2, <1>4, HomesFacts
  <2>3. QED
    BY <1>1, <1>2, <1>6, <1>9, <2>1, <2>2
       DEF HomesTyped, Homes!SignInsTypeOK, Homes!SignInsAssumption
<1>12. TaskStands(j)' /\ BringsTheOnlyOne(j)'
  BY <1>2, <1>3, <1>4, <1>6 DEF TaskStands, BringsTheOnlyOne, IsAtWork
<1>13. ToolsTellTheTruth'
  BY <1>1 DEF HomesInv, ToolsTellTheTruth
<1>14. ASSUME NEW i \in Homes!Standing, i # id PROVE ~WrittenOver(i)
  BY <1>0, <1>1, <1>2, <1>14 DEF WrittenOver, IsAtWork, Homes!Rest
<1>15. RowsHoldTheirs'
  <2>1. ASSUME NEW i \in Homes!Standing \union {id} PROVE rows'[i].label \in {cred[i], Plan}
    <3>1. CASE i = id
      BY <1>5, <1>8, <1>9, <3>1
    <3>2. CASE i # id
      BY <1>9, <1>10, <1>14, <2>1, <3>2 DEF HomesInv, RowsHoldTheirs
    <3>3. QED
      BY <3>1, <3>2
  <2>2. QED
    BY <1>1, <1>10, <2>1 DEF RowsHoldTheirs
<1>16. ~InKeychain => RowsReadAsNamed'
  <2>1. ASSUME ~InKeychain, NEW i \in Homes!Standing \union {id}
        PROVE  rows'[i].label = Called(named[i])
    <3>1. CASE i = id
      BY <1>3, <1>5, <1>8, <1>9, <2>1, <3>1
    <3>2. CASE i # id
      BY <1>9, <1>10, <1>14, <2>1, <3>2 DEF HomesInv, AccountsStandAlone, RowsReadAsNamed
    <3>3. QED
      BY <3>1, <3>2
  <2>2. QED
    BY <1>1, <1>10, <2>1 DEF RowsReadAsNamed, Called
<1>17. ASSUME ~InKeychain PROVE Homes!OneRowPerAddress'
  <2>1. \A i, m \in Homes!Standing \ strayed :
           rows[i].label = rows[m].label => i = m \/ rows[i].label = Plan
    BY <1>17 DEF HomesInv, AccountsStandAlone, Homes!OneRowPerAddress
  <2>2. \A i \in Homes!Standing \ strayed :
           i # id /\ id \notin strayed' /\ label # Plan => rows[i].label # label
    <3>1. ASSUME NEW i \in Homes!Standing \ strayed, i # id, id \notin strayed', label # Plan,
                 rows[i].label = label
          PROVE  FALSE
      <4>1. label = name /\ id \notin strayed
        BY <1>1, <1>5, <1>17, <3>1 DEF Called
      <4>2. job[j].op = "restore"
        BY <1>0, <1>1, <1>2, <1>17, <3>1, <4>1 DEF BringsTheOnlyOne
      <4>3. rows[id] # None /\ rows[id].label = label
        BY <1>1, <3>1, <4>2 DEF Homes!IsRenamed
      <4>4. id \in Homes!Standing
        BY <1>4, <4>3 DEF Homes!Standing, Homes!Ids
      <4>5. QED
        BY <2>1, <3>1, <4>1, <4>3, <4>4
    <3>2. QED
      BY <3>1
  <2>3. strayed \subseteq strayed'
    BY <1>1
  <2>4. ASSUME NEW i \in (Homes!Standing \union {id}) \ strayed',
               NEW m \in (Homes!Standing \union {id}) \ strayed', rows'[i].label = rows'[m].label
        PROVE  i = m \/ rows'[i].label = Plan
    <3>1. CASE i # id /\ m # id
      BY <1>9, <1>10, <2>1, <2>3, <2>4, <3>1
    <3>2. CASE i = id \/ m = id
      BY <1>8, <1>9, <1>10, <2>2, <2>3, <2>4, <3>2
    <3>3. QED
      BY <3>1, <3>2
  <2>5. QED
    BY <1>10, <2>4 DEF Homes!OneRowPerAddress
<1>18. QED
  BY <1>2, <1>6, <1>11, <1>12, <1>13, <1>15, <1>16, <1>17, OneIsLookedAt

LEMMA PointActiveAtKeeps ==
  ASSUME HomesInv, NEW j \in Jobs, Homes!PointActiveAt(j)
  PROVE  HomesInv'
<1>1. /\ job[j].at = "point" /\ Homes!To(j, "done") /\ chosen' = job[j].id
      /\ UNCHANGED <<rows, folders, cred, named, item, strayed, ids, refused>>
  BY DEF Homes!PointActiveAt, Homes!disk, Homes!runs
<1>2. IsAtWork(j) /\ HomesTyped /\ TaskStands(j)
  BY <1>1, AtWorkAlone DEF IsAtWork, Homes!Rest
<1>3. PICK stage : stage = "done"
  OBVIOUS
<1>4. /\ job'[j].at = stage /\ job'[j].snapshot = job[j].snapshot /\ stage \in Stages
  BY <1>1, <1>2, <1>3, TaskGoesOn DEF Stages
<1>5. TaskStands(j)' /\ ToolsTellTheTruth'
  BY <1>1, <1>2, <1>3, <1>4 DEF TaskStands, IsAtWork, Homes!Rest, HomesInv, ToolsTellTheTruth
<1>6. chosen' \in Homes!Ids \union {None}
  BY <1>1, <1>2 DEF TaskStands
<1>7. QED
  BY <1>1, <1>2, <1>3, <1>4, <1>5, <1>6, HomesFacts, OnlyTheJobMoves

LEMMA ActivateKeeps ==
  ASSUME HomesInv, NEW j \in Jobs, Homes!Activate(j)
  PROVE  HomesInv'
<1>1. PICK id, task :
        /\ id \in Homes!Standing
        /\ task = [Homes!Waits EXCEPT !.op = "activate", !.at = "point", !.id = id]
        /\ Homes!Begins(j, task)
        /\ UNCHANGED <<rows, folders, cred, named, chosen, item, strayed, ids, refused>>
  BY DEF Homes!Activate, Homes!disk, Homes!runs
<1>2. HomesTyped /\ id \in Homes!Ids
  BY <1>1, RowsOfStanding DEF HomesInv
<1>3. /\ task \in Task /\ task.at = "point" /\ task.op = "activate" /\ task.id = id
      /\ task.snapshot = None
  BY <1>1, <1>2 DEF Homes!Waits, Task, Stages
<1>4. /\ job' \in [Jobs -> Task] /\ job'[j] = task /\ task.op \in Ops
      /\ \A k \in Jobs : k # j => job'[k] = job[k]
      /\ job[j].at = "idle" /\ Homes!LaneIsFree(task.op)
  BY <1>1, <1>2, <1>3, TaskBegins
<1>5. \A k \in Jobs : ~IsAtWork(k)
  BY <1>3, <1>4, LaneIsOne
<1>6. TaskStands(j)' /\ BringsTheOnlyOne(j)' /\ ToolsTellTheTruth'
  BY <1>1, <1>2, <1>3, <1>4
     DEF TaskStands, BringsTheOnlyOne, Homes!Ids, HomesInv, ToolsTellTheTruth
<1>7. ids' \in ids..MaxIds
  BY <1>1, <1>2, HomesFacts
<1>8. QED
  BY <1>1, <1>2, <1>4, <1>5, <1>6, <1>7, HomesFacts, AccountsUntouched

-----------------------------------------------------------------------------
(* A sign-in recompose runs itself.                                         *)

(* The account of the address, or the first.                                 *)
LEMMA BrowserSignInKeeps ==
  ASSUME HomesInv, NEW j \in Jobs, NEW who \in Addresses, NEW name \in {who, None},
         Homes!BrowserSignIn(j, who, name)
  PROVE  HomesInv'
<1>0. PICK found : found = Homes!StandingUnderTheAddress(name)
  OBVIOUS
<1>1. PICK id, task :
        /\ id \in Homes!PickedFrom(found) /\ id \in Homes!Ids /\ Homes!Mints(id)
        /\ task = [Homes!Waits EXCEPT !.op = "browser", !.at = "keep", !.id = id, !.who = who,
                                      !.name = name]
        /\ Homes!Begins(j, task)
        /\ UNCHANGED <<rows, folders, cred, named, chosen, item, strayed, refused>>
  BY <1>0 DEF Homes!BrowserSignIn, Homes!disk, Homes!runs
<1>2. HomesTyped
  BY DEF HomesInv
<1>3. /\ task \in Task /\ task.at = "keep" /\ task.op = "browser" /\ task.id = id
      /\ task.who = who /\ task.name = name /\ task.snapshot = None
  BY <1>1 DEF Homes!Waits, Task, Stages
<1>4. /\ job' \in [Jobs -> Task] /\ job'[j] = task /\ task.op \in Ops
      /\ \A k \in Jobs : k # j => job'[k] = job[k]
      /\ job[j].at = "idle" /\ Homes!LaneIsFree(task.op)
  BY <1>1, <1>2, <1>3, TaskBegins
<1>5. \A k \in Jobs : ~IsAtWork(k)
  BY <1>3, <1>4, LaneIsOne
<1>6. /\ found = {i \in Homes!Standing : name # None /\ rows[i].label = name}
      /\ id \in found \/ (found = {} /\ id = ids + 1)
      /\ ids' = (IF id = ids + 1 THEN ids + 1 ELSE ids)
  BY <1>0, <1>1
     DEF Homes!StandingUnderTheAddress, Homes!PickedFrom, Homes!Fresh, Homes!Mints
<1>7. ids' \in ids..MaxIds /\ id \in 1..ids'
  <2>1. id \in found => id \in 1..ids
    BY <1>2, <1>6, RowsOfStanding
  <2>2. id \in 1..MaxIds /\ ids \in 0..MaxIds /\ MaxIds \in Nat
    BY <1>1, <1>2, HomesFacts
  <2>3. QED
    BY <1>6, <2>1, <2>2
<1>8. TaskStands(j)' /\ ToolsTellTheTruth'
  BY <1>1, <1>3, <1>4, <1>7 DEF TaskStands, Brings, HomesInv, ToolsTellTheTruth
<1>9. ASSUME ~InKeychain PROVE BringsTheOnlyOne(j)'
  <2>1. ASSUME NEW i \in Homes!Standing \ strayed, rows[i].label = name
        PROVE  i = id \/ id \in strayed
    <3>1. name # None /\ name # Plan
      BY <1>2, <2>1, RowsOfStanding, HomesFacts
    <3>2. id \in Homes!Standing /\ rows[id].label = name
      BY <1>6, <2>1, <3>1
    <3>3. QED
      BY <1>9, <2>1, <3>1, <3>2 DEF HomesInv, AccountsStandAlone, Homes!OneRowPerAddress
  <2>2. Homes!Standing' = Homes!Standing
    BY <1>1 DEF Homes!Standing
  <2>3. QED
    BY <1>1, <1>3, <1>4, <2>1, <2>2 DEF BringsTheOnlyOne
<1>10. QED
  BY <1>1, <1>2, <1>4, <1>5, <1>7, <1>8, <1>9, HomesFacts, AccountsUntouched

LEMMA WriteCredentialKeeps ==
  ASSUME HomesInv, NEW j \in Jobs, Homes!WriteCredential(j)
  PROVE  HomesInv'
<1>0. PICK id, who, name : id = job[j].id /\ who = job[j].who /\ name = job[j].name
  OBVIOUS
<1>1. /\ job[j].at = "keep" /\ Homes!To(j, "record")
      /\ folders' = folders \union {id}
      /\ cred' = [cred EXCEPT ![id] = who] /\ named' = [named EXCEPT ![id] = name]
      /\ UNCHANGED <<rows, chosen, item, strayed, ids, refused>>
  BY <1>0 DEF Homes!WriteCredential, Homes!runs
<1>2. /\ HomesTyped /\ TaskStands(j) /\ (~InKeychain => BringsTheOnlyOne(j))
      /\ \A k \in Jobs : k # j => ~IsAtWork(k)
      /\ job[j].op \in Ops
  BY <1>1, AtWorkAlone DEF IsAtWork, Homes!Rest
<1>3. id \in 1..ids /\ who \in Addresses /\ name \in {who, None}
  BY <1>0, <1>1, <1>2 DEF TaskStands, Brings
<1>4. id \in Homes!Ids /\ id # Pending
  BY <1>2, <1>3, HomesFacts
<1>5. /\ job' \in [Jobs -> Task] /\ job'[j].at = "record" /\ job'[j].id = id
      /\ job'[j].op = job[j].op /\ job'[j].who = who /\ job'[j].name = name
      /\ job'[j].snapshot = job[j].snapshot
      /\ \A k \in Jobs : k # j => job'[k] = job[k]
  BY <1>0, <1>1, <1>2, TaskGoesOn DEF Stages
<1>6. /\ cred' \in [Homes!Paths -> Addresses \union {None}]
      /\ named' \in [Homes!Paths -> Addresses \union {None}]
      /\ \A i \in Homes!Ids : i # id => cred'[i] = cred[i] /\ named'[i] = named[i]
      /\ cred'[id] = who /\ named'[id] = name
      /\ cred'[Pending] = cred[Pending] /\ named'[Pending] = named[Pending]
  BY <1>1, <1>2, <1>3, <1>4, HomesFacts
<1>7. Homes!Standing' = Homes!Standing
  BY <1>1 DEF Homes!Standing
<1>8. HomesTyped'
  <2>1. folders' \subseteq Homes!Paths
    BY <1>1, <1>2, <1>4, HomesFacts
  <2>2. QED
    BY <1>1, <1>2, <1>5, <1>6, <2>1 DEF HomesTyped, Homes!SignInsTypeOK, Homes!SignInsAssumption
<1>9. TaskStands(j)' /\ ToolsTellTheTruth'
  BY <1>1, <1>2, <1>3, <1>5, <1>6 DEF TaskStands, IsAtWork, Brings, HomesInv, ToolsTellTheTruth
<1>10. WrittenOver(id)'
  BY <1>5 DEF WrittenOver
<1>11. ASSUME NEW i \in Homes!Standing
       PROVE  /\ rows[i].label \in {cred'[i], Plan} \/ WrittenOver(i)'
              /\ ~InKeychain => rows[i].label = Called(named'[i]) \/ WrittenOver(i)'
  BY <1>1, <1>2, <1>6, <1>10, NoneIsWrittenOver, RowsOfStanding
<1>12. RowsHoldTheirs'
  BY <1>1, <1>7, <1>11 DEF RowsHoldTheirs
<1>13. ASSUME ~InKeychain
       PROVE  RowsReadAsNamed' /\ Homes!OneRowPerAddress' /\ BringsTheOnlyOne(j)'
  <2>1. RowsReadAsNamed'
    BY <1>1, <1>7, <1>11, <1>13 DEF RowsReadAsNamed, Called
  <2>2. Homes!OneRowPerAddress'
    BY <1>1, <1>7, <1>13 DEF HomesInv, AccountsStandAlone, Homes!OneRowPerAddress
  <2>3. BringsTheOnlyOne(j)'
    BY <1>0, <1>1, <1>2, <1>5, <1>7, <1>13 DEF BringsTheOnlyOne
  <2>4. QED
    BY <2>1, <2>2, <2>3
<1>14. QED
  BY <1>2, <1>5, <1>8, <1>9, <1>12, <1>13, OneIsLookedAt

-----------------------------------------------------------------------------
(* The whole of it.                                                        *)

(* No adoption and no removal is asked for.                                 *)
LEMMA OnlySignIns ==
  ASSUME HomesInv, NEW j \in Jobs
  PROVE  /\ ~Homes!RecordAdopted(j) /\ ~Homes!Remove(j) /\ ~Homes!RemoveHome(j)
         /\ ~Homes!HealActive(j) /\ ~Homes!ForgetRow(j)
         /\ \A name \in Addresses \union {None} : ~Homes!Adopt(j, name)
<1>1. job[j].at \notin {"adopt", "release", "heal", "healKept", "forget"}
  BY DEF HomesInv, TaskStands
<1>2. "adopt" \notin Ops /\ "remove" \notin Ops
  BY DEF HomesInv, SignsInOnly
<1>3. ~Homes!RecordAdopted(j) /\ ~Homes!RemoveHome(j) /\ ~Homes!HealActive(j) /\ ~Homes!ForgetRow(j)
  BY <1>1 DEF Homes!RecordAdopted, Homes!RemoveHome, Homes!HealActive, Homes!ForgetRow
<1>4. ~Homes!Remove(j)
  BY <1>2 DEF Homes!Remove, Homes!Begins, Homes!Waits
<1>5. \A name \in Addresses \union {None} : ~Homes!Adopt(j, name)
  BY <1>2 DEF Homes!Adopt, Homes!Begins, Homes!Waits
<1>6. QED
  BY <1>3, <1>4, <1>5

LEMMA HomesStep ==
  HomesInv /\ [Homes!Next]_(Homes!vars) /\ Homes!NothingIsCut' => HomesInv'
<1> SUFFICES ASSUME HomesInv, [Homes!Next]_(Homes!vars), Homes!NothingIsCut'
             PROVE  HomesInv'
  OBVIOUS
<1>1. CASE UNCHANGED Homes!vars
  BY <1>1 DEF Homes!vars, HomesInv, HomesTyped, Homes!SignInsTypeOK, Homes!SignInsAssumption,
     SignsInOnly, OneIsAtWork, IsAtWork, TaskStands, Runs, Brings, ToolsTellTheTruth,
     RowsHoldTheirs, WrittenOver, AccountsStandAlone, RowsReadAsNamed, Called,
     BringsTheOnlyOne, Homes!OneRowPerAddress, Homes!Standing
<1>2. CASE Homes!Next
  <2>1. PICK j \in Jobs :
          \/ Homes!SignIn(j) \/ Homes!Restore(j) \/ Homes!Lands(j) \/ Homes!TimesOut(j)
          \/ Homes!MoveTheWriteHome(j) \/ Homes!PutTheSnapshotBack(j)
          \/ Homes!PromotePending(j) \/ Homes!WriteUnder(j) \/ Homes!LetGoOfPending(j)
          \/ Homes!Record(j) \/ Homes!PointActiveAt(j) \/ Homes!WriteCredential(j)
          \/ Homes!Activate(j)
          \/ \E who \in Addresses : Homes!ToolWrites(j, who) \/ Homes!OldToolWrites(j, who)
          \/ \E who \in Addresses : \E name \in {who, None} : Homes!BrowserSignIn(j, who, name)
    BY <1>2, OnlySignIns DEF Homes!Next
  <2>2. QED
    BY <2>1, SignInKeeps, RestoreKeeps, LandsKeeps, TimesOutKeeps, MoveTheWriteHomeKeeps,
       PutTheSnapshotBackKeeps, PromotePendingKeeps, WriteUnderKeeps, LetGoOfPendingKeeps,
       RecordKeeps, PointActiveAtKeeps, WriteCredentialKeeps, ActivateKeeps, ToolWritesKeeps,
       OldToolWritesKeeps, BrowserSignInKeeps
<1>3. QED
  BY <1>1, <1>2

(* A move that was cut stays so: a job at rest is not taken up again.         *)
OneTurns(j) ==
    /\ job[j].at # "cut" /\ DOMAIN job' = DOMAIN job
    /\ \A k \in Jobs : k # j => job'[k] = job[k]

LEMMA GoesOnTurns ==
  ASSUME DOMAIN job = Jobs, NEW j \in Jobs, job[j].at # "cut",
         (\E stage : Homes!To(j, stage)) \/ (\E task : job' = [job EXCEPT ![j] = task])
  PROVE  OneTurns(j)
BY DEF Homes!To, OneTurns

LEMMA CutsStay ==
  DOMAIN job = Jobs /\ [Homes!Next]_(Homes!vars)
    => DOMAIN job' = Jobs /\ (Homes!NothingIsCut' => Homes!NothingIsCut)
<1> SUFFICES ASSUME DOMAIN job = Jobs, [Homes!Next]_(Homes!vars)
             PROVE  DOMAIN job' = Jobs /\ (Homes!NothingIsCut' => Homes!NothingIsCut)
  OBVIOUS
<1>1. job' = job \/ \E j \in Jobs : OneTurns(j)
  <2>1. CASE UNCHANGED Homes!vars
    BY <2>1 DEF Homes!vars
  <2>2. ASSUME NEW j \in Jobs, \E task : Homes!Begins(j, task) PROVE OneTurns(j)
    BY <2>2, GoesOnTurns DEF Homes!Begins
  <2>3. ASSUME NEW j \in Jobs,
               \/ Homes!SignIn(j) \/ Homes!Restore(j) \/ Homes!Activate(j) \/ Homes!Remove(j)
               \/ \E who \in Addresses : \E name \in {who, None} : Homes!BrowserSignIn(j, who, name)
               \/ \E name \in Addresses \union {None} : Homes!Adopt(j, name)
        PROVE  OneTurns(j)
    BY <2>2, <2>3 DEF Homes!SignIn, Homes!Restore, Homes!RunsTheTool, Homes!Activate,
       Homes!Remove, Homes!BrowserSignIn, Homes!Adopt
  <2>4. ASSUME NEW j \in Jobs,
               \/ Homes!TimesOut(j) \/ Homes!MoveTheWriteHome(j) \/ Homes!PutTheSnapshotBack(j)
               \/ Homes!PromotePending(j) \/ Homes!WriteUnder(j) \/ Homes!LetGoOfPending(j)
               \/ Homes!Record(j) \/ Homes!PointActiveAt(j) \/ Homes!WriteCredential(j)
               \/ Homes!RecordAdopted(j) \/ Homes!RemoveHome(j) \/ Homes!HealActive(j)
               \/ Homes!ForgetRow(j)
        PROVE  OneTurns(j)
    <3>1. job[j].at # "cut" /\ \E stage : Homes!To(j, stage)
      BY <2>4 DEF Homes!TimesOut, Homes!MoveTheWriteHome, Homes!PutTheSnapshotBack,
         Homes!PromotePending, Homes!WriteUnder, Homes!LetGoOfPending, Homes!Record,
         Homes!PointActiveAt, Homes!WriteCredential, Homes!RecordAdopted, Homes!RemoveHome,
         Homes!HealActive, Homes!ForgetRow, Homes!IsRefused
    <3>2. QED
      BY <3>1, GoesOnTurns
  <2>5. ASSUME NEW j \in Jobs, Homes!Lands(j) PROVE OneTurns(j)
    BY <2>5 DEF Homes!Lands, OneTurns
  <2>6. ASSUME NEW j \in Jobs, NEW who \in Addresses,
               Homes!ToolWrites(j, who) \/ Homes!OldToolWrites(j, who)
        PROVE  job' = job
    BY <2>6 DEF Homes!ToolWrites, Homes!OldToolWrites, Homes!Finishes
  <2>7. QED
    BY <2>1, <2>3, <2>4, <2>5, <2>6 DEF Homes!Next
<1>2. CASE job' = job
  BY <1>2 DEF Homes!NothingIsCut
<1>3. ASSUME NEW j \in Jobs, OneTurns(j)
      PROVE  DOMAIN job' = Jobs /\ (Homes!NothingIsCut' => Homes!NothingIsCut)
  BY <1>3 DEF OneTurns, Homes!NothingIsCut
<1>4. QED
  BY <1>1, <1>2, <1>3

(* The accounts signed in before.                                           *)
LEMMA AccountsAtFirst ==
  ASSUME Homes!SignInsAssumption, Homes!Init
  PROVE  /\ HomesTyped /\ folders = Homes!Standing /\ Homes!OneRowPerAddress
         /\ Pending \notin folders /\ named[Pending] = None /\ item = None
         /\ \A id \in Homes!Standing :
               rows[id].label = cred[id] /\ rows[id].label = Called(named[id])
<1>1. ids \in 0..MaxIds /\ MaxIds \in Nat /\ Homes!Ids = 1..MaxIds
  BY DEF Homes!Init, Homes!Ids, Homes!SignInsAssumption
<1>2. PICK who \in [1..ids -> Addresses] :
        /\ \A m, n \in 1..ids : who[m] = who[n] => m = n
        /\ rows = [id \in Homes!Ids |-> IF id \in 1..ids THEN [label |-> who[id], machine |-> FALSE]
                                                        ELSE None]
        /\ named = [p \in Homes!Paths |-> IF p \in 1..ids THEN who[p] ELSE None]
  BY DEF Homes!Init
<1>3. /\ cred = named /\ folders = 1..ids /\ chosen \in 1..ids \union {None}
      /\ item = None /\ strayed = {} /\ refused = 0 /\ job = [j \in Jobs |-> Homes!Waits]
  BY DEF Homes!Init
<1>4. 1..ids \subseteq Homes!Ids /\ Homes!Ids \subseteq Homes!Paths /\ Pending \notin 1..ids
  BY <1>1 DEF Homes!Paths, Homes!SignInsAssumption
<1>5. \A id \in 1..ids : [label |-> who[id], machine |-> FALSE] \in Homes!Row
  BY <1>2 DEF Homes!Row
<1>6. /\ rows \in [Homes!Ids -> Homes!Row \union {None}]
      /\ named \in [Homes!Paths -> Addresses \union {None}] /\ named[Pending] = None
  BY <1>2, <1>4, <1>5 DEF Homes!Paths
<1>7. \A id \in Homes!Ids : id > ids => rows[id] = None
  BY <1>1, <1>2
<1>8. Homes!Waits \in Task
  BY DEF Homes!Waits, Task, Stages
<1>9. HomesTyped
  <2>1. folders \subseteq Homes!Paths /\ chosen \in Homes!Ids \union {None}
    BY <1>3, <1>4
  <2>2. refused \in 0..Refusals
    BY <1>3 DEF Homes!SignInsAssumption
  <2>3. QED
    BY <1>1, <1>3, <1>6, <1>7, <1>8, <2>1, <2>2 DEF HomesTyped, Homes!SignInsTypeOK
<1>10. \A id \in 1..ids : /\ rows[id] # None /\ rows[id].label = who[id]
                          /\ cred[id] = who[id] /\ named[id] = who[id] /\ who[id] # None
  BY <1>2, <1>3, <1>4, <1>5 DEF Homes!SignInsAssumption
<1>11. Homes!Standing = 1..ids
  <2>1. \A id \in Homes!Ids : id \notin 1..ids => rows[id] = None
    BY <1>2
  <2>2. QED
    BY <1>4, <1>10, <2>1 DEF Homes!Standing
<1>12. Homes!OneRowPerAddress
  <2>1. \A m, n \in 1..ids : rows[m].label = rows[n].label => m = n
    <3>1. /\ \A m, n \in 1..ids : who[m] = who[n] => m = n
          /\ \A m \in 1..ids : rows[m].label = who[m]
      BY <1>2, <1>10
    <3>2. QED
      BY <3>1
  <2>2. Homes!Standing \ strayed \subseteq 1..ids
    BY <1>11
  <2>3. QED
    BY <2>1, <2>2 DEF Homes!OneRowPerAddress
<1>13. QED
  BY <1>3, <1>4, <1>6, <1>9, <1>10, <1>11, <1>12 DEF Called

LEMMA HomesInit == Homes!SignInsAssumption /\ SignsInOnly /\ Homes!Init => HomesInv
<1> SUFFICES ASSUME Homes!SignInsAssumption, SignsInOnly, Homes!Init
             PROVE  HomesInv
  OBVIOUS
<1>1. \A j \in Jobs : job[j].at = "idle" /\ job[j].snapshot = None
  BY DEF Homes!Init, Homes!Waits
<1>2. \A j \in Jobs : TaskStands(j) /\ BringsTheOnlyOne(j) /\ ~IsAtWork(j)
  BY <1>1 DEF TaskStands, BringsTheOnlyOne, IsAtWork, Homes!Rest
<1>3. /\ HomesTyped /\ Homes!OneRowPerAddress /\ named[Pending] = None /\ item = None
      /\ \A id \in Homes!Standing :
            rows[id].label = cred[id] /\ rows[id].label = Called(named[id])
  BY AccountsAtFirst
<1>4. QED
  BY <1>2, <1>3 DEF HomesInv, OneIsAtWork, RowsHoldTheirs, AccountsStandAlone, RowsReadAsNamed,
     ToolsTellTheTruth

(* Signing in, again and again, through either door, as whoever one pleases   *)
(* and with a tool that names its owner or not, leaves every account with the *)
(* credential of the address it is named by, until a move between two items   *)
(* of the keychain is cut; and out of the keychain an address has one account *)
(* beside those a restore was finished for under another name.               *)
THEOREM AccountsHoldTheirOwn ==
  Homes!SignInsAssumption /\ SignsInOnly /\ Homes!Spec =>
    [](Homes!NothingIsCut =>
         /\ Homes!SignInsTypeOK /\ Homes!RowsHoldTheirCredential
         /\ (~InKeychain => Homes!OneRowPerAddress))
<1> DEFINE Inv == DOMAIN job = Jobs /\ (Homes!NothingIsCut => HomesInv)
<1>1. Inv => (Homes!NothingIsCut =>
                /\ Homes!SignInsTypeOK /\ Homes!RowsHoldTheirCredential
                /\ (~InKeychain => Homes!OneRowPerAddress))
  <2> SUFFICES ASSUME HomesInv
               PROVE  /\ Homes!SignInsTypeOK /\ Homes!RowsHoldTheirCredential
                      /\ (~InKeychain => Homes!OneRowPerAddress)
    OBVIOUS
  <2>1. Homes!Quiet => \A id \in Homes!Standing : ~WrittenOver(id)
    BY DEF Homes!Quiet, WrittenOver, Homes!Rest
  <2>2. QED
    BY <2>1 DEF HomesInv, HomesTyped, RowsHoldTheirs, Homes!RowsHoldTheirCredential, AccountsStandAlone
<1>2. Homes!SignInsAssumption /\ SignsInOnly /\ Homes!Init => Inv
  BY HomesInit DEF Homes!Init
<1>3. Inv /\ [Homes!Next]_(Homes!vars) => Inv'
  BY HomesStep, CutsStay
<1>4. Homes!SignInsAssumption /\ SignsInOnly => [](Homes!SignInsAssumption /\ SignsInOnly)
  <2>1. Homes!SignInsAssumption /\ SignsInOnly => (Homes!SignInsAssumption /\ SignsInOnly)'
    BY DEF Homes!SignInsAssumption, SignsInOnly
  <2>2. QED
    BY <2>1, PTL
<1> HIDE DEF Inv
<1>5. QED
  BY <1>1, <1>2, <1>3, <1>4, PTL DEF Homes!Spec

-----------------------------------------------------------------------------
(* Accounts adopted, activated and let go, one of each at a time.             *)

LetsGoOnly == Ops \subseteq {"activate", "adopt", "remove"}

(* A home that is gone stays gone, and an adoption knows of every account of   *)
(* its address.                                                             *)
TaskLetsGo(j) ==
    /\ job[j].at \in {"idle", "done", "point", "adopt", "release", "heal", "healKept", "forget"}
    /\ job[j].at = "adopt" =>
           /\ job[j].op = "adopt" /\ job[j].id \in 1..ids
           /\ \A id \in Homes!Standing : rows[id].label = job[j].name => id = job[j].id
    /\ job[j].at \in {"point", "release", "heal", "healKept", "forget"} => job[j].id \in Homes!Ids
    /\ job[j].at \in {"heal", "healKept", "forget"} => job[j].id \notin folders

OneAdopts == \A j, k \in Jobs : job[j].at = "adopt" /\ job[k].at = "adopt" => j = k

LetGoInv ==
    /\ HomesTyped /\ LetsGoOnly /\ OneAdopts
    /\ \A j \in Jobs : TaskLetsGo(j)
    /\ tools = {} /\ strayed = {} /\ folders \subseteq Homes!Standing
    /\ Homes!OneRowPerAddress

(* The jobs that do not move stand, when no home comes and no account comes   *)
(* that an adoption would have to know of.                                    *)
LEMMA TheOthersLetGo ==
  ASSUME LetGoInv, HomesTyped', NEW j \in Jobs, \A k \in Jobs : k # j => job'[k] = job[k],
         folders' \subseteq folders, ids \in 0..ids',
         tools' = {}, strayed' = {},
         TaskLetsGo(j)', (folders \subseteq Homes!Standing)', Homes!OneRowPerAddress',
         \/ \A k \in Jobs : k # j => job[k].at # "adopt"
         \/ /\ \A id \in Homes!Standing' : id \in Homes!Standing /\ rows'[id] = rows[id]
            /\ job'[j].at # "adopt"
  PROVE  LetGoInv'
<1>1. HomesTyped /\ ids \in Nat /\ ids' \in Nat /\ ids <= ids'
  BY HomesFacts DEF LetGoInv, HomesTyped, Homes!SignInsTypeOK
<1>2. ASSUME NEW k \in Jobs, k # j PROVE TaskLetsGo(k)'
  <2>1. job'[k] = job[k] /\ TaskLetsGo(k)
    BY <1>2 DEF LetGoInv
  <2>2. \A id \in 1..ids : id \in 1..ids'
    BY <1>1
  <2>3. CASE job[k].at # "adopt"
    BY <2>1, <2>3 DEF TaskLetsGo, Homes!Ids
  <2>4. CASE job[k].at = "adopt"
    <3>1. \A id \in Homes!Standing' : id \in Homes!Standing /\ rows'[id] = rows[id]
      BY <1>2, <2>4
    <3>2. QED
      BY <2>1, <2>2, <2>4, <3>1 DEF TaskLetsGo
  <2>5. QED
    BY <2>3, <2>4
<1>3. \A k \in Jobs : TaskLetsGo(k)'
  BY <1>2
<1>4. OneAdopts'
  BY DEF LetGoInv, OneAdopts
<1>5. LetsGoOnly'
  BY DEF LetGoInv, LetsGoOnly
<1>6. QED
  BY <1>3, <1>4, <1>5 DEF LetGoInv

(* And so when the rows and the homes stand.                                 *)
LEMMA RowsUntouched ==
  ASSUME LetGoInv, NEW j \in Jobs, job' \in [Jobs -> Task],
         \A k \in Jobs : k # j => job'[k] = job[k],
         UNCHANGED <<rows, folders, cred, named, item, tools, strayed, ids, refused>>,
         chosen' \in Homes!Ids \union {None}, TaskLetsGo(j)', job'[j].at # "adopt"
  PROVE  LetGoInv'
<1>1. Homes!Standing' = Homes!Standing
  BY DEF Homes!Standing
<1>2. HomesTyped /\ ids \in 0..ids'
  BY HomesFacts DEF LetGoInv
<1>3. HomesTyped'
  BY <1>2 DEF HomesTyped, Homes!SignInsTypeOK, Homes!SignInsAssumption
<1>4. (folders \subseteq Homes!Standing)' /\ Homes!OneRowPerAddress' /\ tools' = {} /\ strayed' = {}
  BY <1>1 DEF LetGoInv, Homes!OneRowPerAddress
<1>5. QED
  BY <1>1, <1>2, <1>3, <1>4, TheOthersLetGo

(* Who adopts finds nobody adopting.                                         *)
LEMMA AdoptLetsGo ==
  ASSUME LetGoInv, NEW j \in Jobs, NEW name \in Addresses \union {None},
         Homes!Adopt(j, name)
  PROVE  LetGoInv'
<1>0. PICK under, found :
        /\ under = Homes!StandingUnderTheAddress(name)
        /\ found = (IF under = {} THEN Homes!HeldUnderTheAddress(name) ELSE under)
  OBVIOUS
<1>1. PICK id, task :
        /\ id \in Homes!PickedFrom(found) /\ id \in Homes!Ids /\ Homes!Mints(id)
        /\ task = [Homes!Waits EXCEPT !.op = "adopt", !.at = "adopt", !.id = id, !.name = name]
        /\ Homes!Begins(j, task)
        /\ UNCHANGED <<rows, folders, cred, named, chosen, item, tools, strayed, refused>>
  BY <1>0 DEF Homes!Adopt, Homes!disk, Homes!runs
<1>2. HomesTyped
  BY DEF LetGoInv
<1>3. /\ task \in Task /\ task.at = "adopt" /\ task.op = "adopt" /\ task.id = id
      /\ task.name = name
  BY <1>1 DEF Homes!Waits, Task, Stages
<1>4. /\ job' \in [Jobs -> Task] /\ job'[j] = task
      /\ \A k \in Jobs : k # j => job'[k] = job[k] /\ job[k].at # "adopt"
  <2>1. /\ job' \in [Jobs -> Task] /\ job'[j] = task
        /\ \A k \in Jobs : k # j => job'[k] = job[k]
        /\ Homes!LaneIsFree("adopt")
    BY <1>1, <1>2, <1>3, TaskBegins
  <2>2. \A k \in Jobs : job[k].at # "adopt"
    BY <2>1 DEF LetGoInv, TaskLetsGo, Homes!LaneIsFree, Homes!LaneOf, Homes!Rest
  <2>3. QED
    BY <2>1, <2>2
<1>5. /\ under = {i \in Homes!Standing : name # None /\ rows[i].label = name}
      /\ found \subseteq Homes!Standing
  BY <1>0 DEF Homes!StandingUnderTheAddress, Homes!HeldUnderTheAddress
<1>6. ids' = (IF id = ids + 1 THEN ids + 1 ELSE ids)
  BY <1>1 DEF Homes!Mints, Homes!Fresh
<1>7. id \in found \/ (found = {} /\ id = ids + 1)
  BY <1>1 DEF Homes!PickedFrom, Homes!Fresh
<1>8. ids' \in 0..MaxIds /\ ids \in 0..ids' /\ id \in 1..ids'
  <2>1. id \in found => id \in 1..ids
    BY <1>2, <1>5, RowsOfStanding
  <2>2. id \in 1..MaxIds /\ ids \in 0..MaxIds /\ MaxIds \in Nat
    BY <1>1, <1>2, HomesFacts
  <2>3. QED
    BY <1>6, <1>7, <2>1, <2>2
<1>9. ASSUME NEW i \in Homes!Standing, rows[i].label = name PROVE i = id
  <2>1. name # None /\ name # Plan
    BY <1>2, <1>9, RowsOfStanding, HomesFacts
  <2>2. i \in under /\ found = under
    BY <1>0, <1>5, <1>9, <2>1
  <2>3. id \in Homes!Standing /\ rows[id].label = name
    BY <1>5, <1>7, <2>2
  <2>4. QED
    BY <1>9, <2>1, <2>3 DEF LetGoInv, Homes!OneRowPerAddress
<1>10. Homes!Standing' = Homes!Standing
  BY <1>1 DEF Homes!Standing
<1>11. HomesTyped'
  <2>1. \A i \in Homes!Ids : i > ids' => rows[i] = None
    <3>1. \A i \in Homes!Ids : i > ids => rows[i] = None
      BY <1>2 DEF HomesTyped, Homes!SignInsTypeOK
    <3>2. \A i \in Homes!Ids : i \in Nat
      BY <1>2, HomesFacts
    <3>3. QED
      BY <1>8, <3>1, <3>2
  <2>2. QED
    BY <1>1, <1>2, <1>4, <1>8, <2>1 DEF HomesTyped, Homes!SignInsTypeOK, Homes!SignInsAssumption
<1>12. TaskLetsGo(j)'
  BY <1>1, <1>3, <1>4, <1>8, <1>9, <1>10 DEF TaskLetsGo
<1>13. (folders \subseteq Homes!Standing)' /\ Homes!OneRowPerAddress' /\ tools' = {} /\ strayed' = {}
  BY <1>1, <1>10 DEF LetGoInv, Homes!OneRowPerAddress
<1>14. folders' \subseteq folders
  BY <1>1
<1>15. QED
  BY <1>4, <1>8, <1>11, <1>12, <1>13, <1>14, TheOthersLetGo

LEMMA RecordAdoptedLetsGo ==
  ASSUME LetGoInv, NEW j \in Jobs, Homes!RecordAdopted(j)
  PROVE  LetGoInv'
<1>0. PICK id, name, row : /\ id = job[j].id /\ name = job[j].name
                           /\ row = [label |-> Called(name), machine |-> TRUE]
  OBVIOUS
<1>1. /\ job[j].at = "adopt" /\ Homes!To(j, "done") /\ rows' = [rows EXCEPT ![id] = row]
      /\ UNCHANGED <<folders, cred, named, chosen, item, tools, strayed, ids, refused>>
  BY <1>0 DEF Homes!RecordAdopted, Homes!RecordTheAccount, Called, Homes!disk, Homes!runs
<1>2. HomesTyped /\ TaskLetsGo(j) /\ \A k \in Jobs : k # j => job[k].at # "adopt"
  BY <1>1 DEF LetGoInv, OneAdopts
<1>3. /\ id \in 1..ids /\ name \in Addresses \union {None}
      /\ \A i \in Homes!Standing : rows[i].label = Called(name) => i = id \/ Called(name) = Plan
  <2>1. job[j] \in Task
    BY <1>2, HomesFacts
  <2>2. QED
    BY <1>0, <1>1, <1>2, <2>1 DEF TaskLetsGo, Task, Called
<1>4. ids \in 0..MaxIds /\ MaxIds \in Nat /\ id \in Homes!Ids /\ id \in Nat /\ id <= ids
  BY <1>2, <1>3, HomesFacts
<1>5. row \in Homes!Row /\ row.label = Called(name) /\ row # None
  <2>1. row \in Homes!Row /\ row.label = Called(name)
    BY <1>0, <1>3 DEF Homes!Row, Called
  <2>2. QED
    BY <1>2, <2>1, HomesFacts
<1>6. /\ job' \in [Jobs -> Task] /\ job'[j].at = "done"
      /\ \A k \in Jobs : k # j => job'[k] = job[k]
  BY <1>1, <1>2, TaskGoesOn DEF Stages
<1>7. /\ rows' \in [Homes!Ids -> Homes!Row \union {None}] /\ rows'[id] = row
      /\ \A i \in Homes!Ids : i # id => rows'[i] = rows[i]
  BY <1>1, <1>2, <1>4, <1>5, HomesFacts
<1>8. Homes!Standing' = Homes!Standing \union {id}
  BY <1>4, <1>5, <1>7 DEF Homes!Standing, Homes!Ids
<1>9. HomesTyped'
  <2>1. \A i \in Homes!Ids : i > ids => rows'[i] = None
    <3>1. \A i \in Homes!Ids : i > ids => rows[i] = None
      BY <1>2 DEF HomesTyped, Homes!SignInsTypeOK
    <3>2. QED
      BY <1>4, <1>7, <3>1
  <2>2. QED
    BY <1>1, <1>2, <1>6, <1>7, <2>1 DEF HomesTyped, Homes!SignInsTypeOK, Homes!SignInsAssumption
<1>10. TaskLetsGo(j)'
  BY <1>6 DEF TaskLetsGo
<1>11. Homes!OneRowPerAddress'
  <2>1. \A i, m \in Homes!Standing : rows[i].label = rows[m].label => i = m \/ rows[i].label = Plan
    BY DEF LetGoInv, Homes!OneRowPerAddress
  <2>2. \A i \in Homes!Standing : i \in Homes!Ids
    BY DEF Homes!Standing
  <2>3. \A i, m \in Homes!Standing \union {id} : rows'[i].label = rows'[m].label
          => i = m \/ rows'[i].label = Plan
    BY <1>3, <1>5, <1>7, <2>1, <2>2
  <2>4. QED
    BY <1>8, <2>3 DEF Homes!OneRowPerAddress
<1>12. (folders \subseteq Homes!Standing)' /\ tools' = {} /\ strayed' = {} /\ ids \in 0..ids' /\ folders' \subseteq folders
  BY <1>1, <1>4, <1>8 DEF LetGoInv
<1>13. QED
  BY <1>2, <1>6, <1>9, <1>10, <1>11, <1>12, TheOthersLetGo

LEMMA ActivateLetsGo ==
  ASSUME LetGoInv, NEW j \in Jobs, Homes!Activate(j)
  PROVE  LetGoInv'
<1>1. PICK id, task :
        /\ id \in Homes!Standing
        /\ task = [Homes!Waits EXCEPT !.op = "activate", !.at = "point", !.id = id]
        /\ Homes!Begins(j, task)
        /\ UNCHANGED <<rows, folders, cred, named, chosen, item, tools, strayed, ids, refused>>
  BY DEF Homes!Activate, Homes!disk, Homes!runs
<1>2. HomesTyped /\ id \in Homes!Ids
  BY <1>1, RowsOfStanding DEF LetGoInv
<1>3. task \in Task /\ task.at = "point" /\ task.id = id
  BY <1>1, <1>2 DEF Homes!Waits, Task, Stages
<1>4. /\ job' \in [Jobs -> Task] /\ job'[j] = task
      /\ \A k \in Jobs : k # j => job'[k] = job[k]
  BY <1>1, <1>2, <1>3, TaskBegins
<1>5. TaskLetsGo(j)' /\ chosen' \in Homes!Ids \union {None}
  BY <1>1, <1>2, <1>3, <1>4, HomesFacts DEF TaskLetsGo, Homes!Ids
<1>6. QED
  BY <1>1, <1>3, <1>4, <1>5, RowsUntouched

LEMMA PointActiveAtLetsGo ==
  ASSUME LetGoInv, NEW j \in Jobs, Homes!PointActiveAt(j)
  PROVE  LetGoInv'
<1>1. /\ job[j].at = "point" /\ Homes!To(j, "done") /\ chosen' = job[j].id
      /\ UNCHANGED <<rows, folders, cred, named, item, tools, strayed, ids, refused>>
  BY DEF Homes!PointActiveAt, Homes!disk, Homes!runs
<1>2. HomesTyped /\ TaskLetsGo(j)
  BY DEF LetGoInv
<1>3. /\ job' \in [Jobs -> Task] /\ job'[j].at = "done"
      /\ \A k \in Jobs : k # j => job'[k] = job[k]
  BY <1>1, <1>2, TaskGoesOn DEF Stages
<1>4. TaskLetsGo(j)' /\ chosen' \in Homes!Ids \union {None}
  BY <1>1, <1>2, <1>3 DEF TaskLetsGo
<1>5. QED
  BY <1>1, <1>3, <1>4, RowsUntouched

LEMMA RemoveLetsGo ==
  ASSUME LetGoInv, NEW j \in Jobs, Homes!Remove(j)
  PROVE  LetGoInv'
<1>1. PICK id, task :
        /\ id \in Homes!Standing
        /\ task = [Homes!Waits EXCEPT !.op = "remove", !.at = "release", !.id = id,
                                      !.survivors = Homes!Standing \ {id}]
        /\ Homes!Begins(j, task)
        /\ UNCHANGED <<rows, folders, cred, named, chosen, item, tools, strayed, ids, refused>>
  BY DEF Homes!Remove, Homes!disk, Homes!runs
<1>2. HomesTyped /\ id \in Homes!Ids /\ Homes!Standing \subseteq Homes!Ids
  BY <1>1, RowsOfStanding DEF LetGoInv, Homes!Standing
<1>3. task \in Task /\ task.at = "release" /\ task.id = id
  BY <1>1, <1>2 DEF Homes!Waits, Task, Stages
<1>4. /\ job' \in [Jobs -> Task] /\ job'[j] = task
      /\ \A k \in Jobs : k # j => job'[k] = job[k]
  BY <1>1, <1>2, <1>3, TaskBegins
<1>5. TaskLetsGo(j)' /\ chosen' \in Homes!Ids \union {None}
  BY <1>1, <1>2, <1>3, <1>4, HomesFacts DEF TaskLetsGo, Homes!Ids
<1>6. QED
  BY <1>1, <1>3, <1>4, <1>5, RowsUntouched

(* The home goes, whether or not the keychain lets go of its item.             *)
LEMMA RemoveHomeLetsGo ==
  ASSUME LetGoInv, NEW j \in Jobs, Homes!RemoveHome(j)
  PROVE  LetGoInv'
<1>0. PICK id : id = job[j].id
  OBVIOUS
<1>1. /\ job[j].at = "release" /\ named' = [named EXCEPT ![id] = None] /\ folders' = folders \ {id}
      /\ \/ /\ cred' = [cred EXCEPT ![id] = None]
            /\ Homes!To(j, "heal") /\ UNCHANGED refused
         \/ /\ refused < Refusals /\ refused' = refused + 1
            /\ Homes!To(j, "healKept") /\ UNCHANGED cred
      /\ UNCHANGED <<rows, chosen, item, tools, strayed, ids>>
  BY <1>0 DEF Homes!RemoveHome, Homes!runs
<1>2. HomesTyped /\ TaskLetsGo(j)
  BY DEF LetGoInv
<1>3. id \in Homes!Ids
  BY <1>0, <1>1, <1>2 DEF TaskLetsGo
<1>4. /\ job' \in [Jobs -> Task] /\ job'[j].at \in {"heal", "healKept"} /\ job'[j].id = id
      /\ \A k \in Jobs : k # j => job'[k] = job[k]
  <2>1. CASE Homes!To(j, "heal")
    BY <1>0, <1>2, <2>1, TaskGoesOn DEF Stages
  <2>2. CASE Homes!To(j, "healKept")
    BY <1>0, <1>2, <2>2, TaskGoesOn DEF Stages
  <2>3. QED
    BY <1>1, <2>1, <2>2
<1>5. /\ cred' \in [Homes!Paths -> Addresses \union {None}]
      /\ named' \in [Homes!Paths -> Addresses \union {None}]
  BY <1>1, <1>2, <1>3, HomesFacts
<1>6. refused' \in 0..Refusals
  <2>1. refused \in 0..Refusals /\ Refusals \in Nat
    BY <1>2 DEF HomesTyped, Homes!SignInsTypeOK, Homes!SignInsAssumption
  <2>2. QED
    BY <1>1, <2>1
<1>7. Homes!Standing' = Homes!Standing
  BY <1>1 DEF Homes!Standing
<1>8. HomesTyped'
  <2>1. folders' \subseteq Homes!Paths
    BY <1>1, <1>2, HomesFacts
  <2>2. QED
    BY <1>1, <1>2, <1>4, <1>5, <1>6, <2>1 DEF HomesTyped, Homes!SignInsTypeOK, Homes!SignInsAssumption
<1>9. TaskLetsGo(j)'
  BY <1>1, <1>3, <1>4 DEF TaskLetsGo, Homes!Ids
<1>10. /\ (folders \subseteq Homes!Standing)' /\ Homes!OneRowPerAddress' /\ tools' = {} /\ strayed' = {}
       /\ folders' \subseteq folders
  BY <1>1, <1>7 DEF LetGoInv, Homes!OneRowPerAddress
<1>11. /\ ids \in 0..ids' /\ job'[j].at # "adopt"
       /\ \A i \in Homes!Standing' : i \in Homes!Standing /\ rows'[i] = rows[i]
  BY <1>1, <1>2, <1>4, <1>7, HomesFacts
<1>12. QED
  BY <1>4, <1>8, <1>9, <1>10, <1>11, TheOthersLetGo

LEMMA HealActiveLetsGo ==
  ASSUME LetGoInv, NEW j \in Jobs, Homes!HealActive(j)
  PROVE  LetGoInv'
<1>1. /\ job[j].at \in {"heal", "healKept"}
      /\ Homes!To(j, IF job[j].at = "heal" THEN "forget" ELSE "done")
      /\ chosen' \in {chosen, None} \union job[j].survivors
      /\ UNCHANGED <<rows, folders, cred, named, item, tools, strayed, ids, refused>>
  BY DEF Homes!HealActive, Homes!disk, Homes!runs
<1>2. HomesTyped /\ TaskLetsGo(j)
  BY DEF LetGoInv
<1>3. PICK stage \in {"forget", "done"} : Homes!To(j, stage)
  BY <1>1
<1>4. /\ job' \in [Jobs -> Task] /\ job'[j].at = stage /\ job'[j].id = job[j].id
      /\ \A k \in Jobs : k # j => job'[k] = job[k]
  BY <1>2, <1>3, TaskGoesOn DEF Stages
<1>5. TaskLetsGo(j)'
  BY <1>1, <1>2, <1>3, <1>4 DEF TaskLetsGo, Homes!Ids
<1>6. chosen' \in Homes!Ids \union {None}
  <2>1. job[j] \in Task /\ chosen \in Homes!Ids \union {None}
    BY <1>2, HomesFacts
  <2>2. QED
    BY <1>1, <2>1 DEF Task
<1>7. QED
  BY <1>1, <1>3, <1>4, <1>5, <1>6, RowsUntouched

(* The row goes last, its home gone before it.                               *)
LEMMA ForgetRowLetsGo ==
  ASSUME LetGoInv, NEW j \in Jobs, Homes!ForgetRow(j)
  PROVE  LetGoInv'
<1>0. PICK id : id = job[j].id
  OBVIOUS
<1>1. /\ job[j].at = "forget" /\ rows' = [rows EXCEPT ![id] = None] /\ Homes!To(j, "done")
      /\ UNCHANGED <<folders, cred, named, chosen, item, tools, strayed, ids, refused>>
  BY <1>0 DEF Homes!ForgetRow, Homes!disk, Homes!runs
<1>2. HomesTyped /\ TaskLetsGo(j)
  BY DEF LetGoInv
<1>3. id \in Homes!Ids /\ id \notin folders
  BY <1>0, <1>1, <1>2 DEF TaskLetsGo
<1>4. /\ job' \in [Jobs -> Task] /\ job'[j].at = "done"
      /\ \A k \in Jobs : k # j => job'[k] = job[k]
  BY <1>1, <1>2, TaskGoesOn DEF Stages
<1>5. /\ rows' \in [Homes!Ids -> Homes!Row \union {None}] /\ rows'[id] = None
      /\ \A i \in Homes!Ids : i # id => rows'[i] = rows[i]
  BY <1>1, <1>2, <1>3, HomesFacts
<1>6. Homes!Standing' = Homes!Standing \ {id}
  BY <1>5 DEF Homes!Standing, Homes!Ids
<1>7. \A i \in Homes!Standing' : i \in Homes!Standing /\ rows'[i] = rows[i]
  BY <1>5, <1>6 DEF Homes!Standing
<1>8. HomesTyped'
  <2>1. \A i \in Homes!Ids : i > ids => rows'[i] = None
    BY <1>2, <1>5 DEF HomesTyped, Homes!SignInsTypeOK
  <2>2. QED
    BY <1>1, <1>2, <1>4, <1>5, <2>1 DEF HomesTyped, Homes!SignInsTypeOK, Homes!SignInsAssumption
<1>9. TaskLetsGo(j)'
  BY <1>4 DEF TaskLetsGo
<1>10. /\ (folders \subseteq Homes!Standing)' /\ tools' = {} /\ strayed' = {} /\ folders' \subseteq folders
       /\ ids \in 0..ids' /\ job'[j].at # "adopt"
  BY <1>1, <1>2, <1>3, <1>4, <1>6, HomesFacts DEF LetGoInv
<1>11. Homes!OneRowPerAddress'
  <2>1. \A i, m \in Homes!Standing : rows[i].label = rows[m].label => i = m \/ rows[i].label = Plan
    BY DEF LetGoInv, Homes!OneRowPerAddress
  <2>2. QED
    BY <1>7, <2>1 DEF Homes!OneRowPerAddress
<1>12. QED
  BY <1>4, <1>7, <1>8, <1>9, <1>10, <1>11, TheOthersLetGo

(* Nobody signs in.                                                        *)
LEMMA NobodySignsIn ==
  ASSUME LetGoInv, NEW j \in Jobs
  PROVE  /\ ~Homes!SignIn(j) /\ ~Homes!Restore(j) /\ ~Homes!Lands(j) /\ ~Homes!TimesOut(j)
         /\ ~Homes!MoveTheWriteHome(j) /\ ~Homes!PutTheSnapshotBack(j)
         /\ ~Homes!PromotePending(j) /\ ~Homes!WriteUnder(j) /\ ~Homes!LetGoOfPending(j)
         /\ ~Homes!Record(j) /\ ~Homes!WriteCredential(j)
         /\ \A who \in Addresses : ~Homes!ToolWrites(j, who) /\ ~Homes!OldToolWrites(j, who)
         /\ \A who \in Addresses : \A name \in {who, None} : ~Homes!BrowserSignIn(j, who, name)
<1>1. /\ job[j].at \notin {"tool", "reclaim", "giveBack", "reclaimed", "landed", "promoted",
                          "written", "record", "keep"}
      /\ tools = {}
  BY DEF LetGoInv, TaskLetsGo
<1>2. "signIn" \notin Ops /\ "restore" \notin Ops /\ "browser" \notin Ops
  BY DEF LetGoInv, LetsGoOnly
<1>3. /\ ~Homes!Lands(j) /\ ~Homes!TimesOut(j)
      /\ ~Homes!MoveTheWriteHome(j) /\ ~Homes!PutTheSnapshotBack(j)
      /\ ~Homes!PromotePending(j) /\ ~Homes!WriteUnder(j) /\ ~Homes!LetGoOfPending(j)
      /\ ~Homes!Record(j) /\ ~Homes!WriteCredential(j)
  BY <1>1 DEF Homes!Lands, Homes!TimesOut, Homes!MoveTheWriteHome, Homes!PutTheSnapshotBack,
     Homes!PromotePending, Homes!WriteUnder, Homes!LetGoOfPending, Homes!Record,
     Homes!WriteCredential
<1>4. \A op \in {"signIn", "restore"}, id \in Homes!Ids \union {0} : ~Homes!RunsTheTool(j, op, id)
  <2>1. ASSUME NEW op \in {"signIn", "restore"}, NEW id \in Homes!Ids \union {0},
               Homes!RunsTheTool(j, op, id)
        PROVE  FALSE
    <3>1. PICK task :
            /\ task = [Homes!Waits EXCEPT !.op = op, !.at = "tool", !.id = id, !.snapshot = item]
            /\ Homes!Begins(j, task)
      BY <2>1 DEF Homes!RunsTheTool
    <3>2. task.op = op
      BY <3>1 DEF Homes!Waits
    <3>3. QED
      BY <1>2, <3>1, <3>2 DEF Homes!Begins
  <2>2. QED
    BY <2>1
<1>5. ~Homes!SignIn(j) /\ ~Homes!Restore(j)
  BY <1>4 DEF Homes!SignIn, Homes!Restore, Homes!Standing
<1>6. \A who \in Addresses : ~Homes!ToolWrites(j, who) /\ ~Homes!OldToolWrites(j, who)
  BY <1>1 DEF Homes!ToolWrites, Homes!OldToolWrites, Homes!Finishes
<1>7. ASSUME NEW who \in Addresses, NEW name \in {who, None}, Homes!BrowserSignIn(j, who, name)
      PROVE  FALSE
  <2>1. PICK id, task :
          /\ task = [Homes!Waits EXCEPT !.op = "browser", !.at = "keep", !.id = id, !.who = who,
                                        !.name = name]
          /\ Homes!Begins(j, task)
    BY <1>7 DEF Homes!BrowserSignIn
  <2>2. task.op = "browser"
    BY <2>1 DEF Homes!Waits
  <2>3. QED
    BY <1>2, <2>1, <2>2 DEF Homes!Begins
<1>8. QED
  BY <1>3, <1>5, <1>6, <1>7

LEMMA LetGoStep == LetGoInv /\ [Homes!Next]_(Homes!vars) => LetGoInv'
<1> SUFFICES ASSUME LetGoInv, [Homes!Next]_(Homes!vars)
             PROVE  LetGoInv'
  OBVIOUS
<1>1. CASE UNCHANGED Homes!vars
  BY <1>1 DEF Homes!vars, LetGoInv, HomesTyped, Homes!SignInsTypeOK, Homes!SignInsAssumption,
     LetsGoOnly, OneAdopts, TaskLetsGo, Homes!OneRowPerAddress, Homes!Standing
<1>2. CASE Homes!Next
  <2>1. PICK j \in Jobs :
          \/ Homes!PointActiveAt(j) \/ Homes!RecordAdopted(j) \/ Homes!Activate(j)
          \/ Homes!Remove(j) \/ Homes!RemoveHome(j) \/ Homes!HealActive(j) \/ Homes!ForgetRow(j)
          \/ \E name \in Addresses \union {None} : Homes!Adopt(j, name)
    BY <1>2, NobodySignsIn DEF Homes!Next
  <2>2. QED
    BY <2>1, PointActiveAtLetsGo, RecordAdoptedLetsGo, ActivateLetsGo, RemoveLetsGo,
       RemoveHomeLetsGo, HealActiveLetsGo, ForgetRowLetsGo, AdoptLetsGo
<1>3. QED
  BY <1>1, <1>2

LEMMA LetGoInit == Homes!SignInsAssumption /\ LetsGoOnly /\ Homes!Init => LetGoInv
<1> SUFFICES ASSUME Homes!SignInsAssumption, LetsGoOnly, Homes!Init
             PROVE  LetGoInv
  OBVIOUS
<1>1. HomesTyped /\ folders = Homes!Standing /\ Homes!OneRowPerAddress
  BY AccountsAtFirst
<1>2. tools = {} /\ strayed = {} /\ \A j \in Jobs : job[j].at = "idle"
  BY DEF Homes!Init, Homes!Waits
<1>3. OneAdopts /\ \A j \in Jobs : TaskLetsGo(j)
  BY <1>2 DEF OneAdopts, TaskLetsGo
<1>4. QED
  BY <1>1, <1>2, <1>3 DEF LetGoInv

(* Whatever is adopted, activated and let go, in whatever order the lanes run *)
(* it, the chosen home is of an account that stands and each address has one. *)
THEOREM TheChosenOneStaysStanding ==
  Homes!SignInsAssumption /\ LetsGoOnly /\ Homes!Spec =>
    [](Homes!SignInsTypeOK /\ Homes!OneRowPerAddress /\ Homes!TheChosenOneStands)
<1>1. LetGoInv => Homes!SignInsTypeOK /\ Homes!OneRowPerAddress /\ Homes!TheChosenOneStands
  BY DEF LetGoInv, HomesTyped, Homes!TheChosenOneStands, Homes!ReadActive
<1>2. Homes!SignInsAssumption /\ LetsGoOnly => [](Homes!SignInsAssumption /\ LetsGoOnly)
  <2>1. Homes!SignInsAssumption /\ LetsGoOnly => (Homes!SignInsAssumption /\ LetsGoOnly)'
    BY DEF Homes!SignInsAssumption, LetsGoOnly
  <2>2. QED
    BY <2>1, PTL
<1>3. QED
  BY <1>1, LetGoInit, LetGoStep, PTL DEF Homes!Spec

=============================================================================
