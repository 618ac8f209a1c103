-------------------------- MODULE EngineHostProofs --------------------------
(***************************************************************************)
(* Proofs about what main keeps running: EngineHost, for every set of      *)
(* gateways, any number of acts, directives given up on, deaths of the     *)
(* child and gateways forgotten; the looks the host takes through that     *)
(* child, however many are taken and however many children die under them; *)
(* the ledger of what the child settled, for every set of rows; and the    *)
(* cables and rows its turns leave behind, for any turns and children.     *)
(***************************************************************************)
EXTENDS EngineHost, UsageLedger, TLAPS

CONSTANTS
    Looks, MaxChildren, MaxUnspawned,              \* EngineLooks
    Turns, Nodes, Unbound, Subscribed, Throws, MaxStops  \* TurnTraffic

VARIABLES
    \* EngineLooks
    engine, alive, spawned, unspawned, desk, timers, askedOf, working, said, answer,
    \* TurnTraffic
    stage, turnAsked, tried, notes, attempts, owedRows, raised, turnGiven, dropped, turnAnswer,
    aborted, interrupted, words, turnServing, turnUp, cables, inactive, turnChild, stops, turnDeaths

Looking == INSTANCE EngineLooks WITH child <- engine
Traffic == INSTANCE TurnTraffic WITH asked <- turnAsked, answer <- turnAnswer, given <- turnGiven,
    serving <- turnServing, up <- turnUp, child <- turnChild, deaths <- turnDeaths

Awaiting == {"starting", "stopping", "restart-stopping", "restart-starting"}

(* A directive is awaited just while an act waits on one, and the act at   *)
(* work is the first of its gateway's.                                     *)
ActsAwaitTheirOwn ==
    \A g \in Gateways :
        /\ awaiting[g] # 0 <=> phase[g] \in Awaiting
        /\ phase[g] # "idle" =>
              asked[g] # <<>> /\ (phase[g] \in Restarting <=> Current(g).act = "restart")

(* A child that is not up serves nothing and owes nothing.                 *)
OnlyTheLivingServe ==
    /\ child # "up" => \A g \in Gateways : lanes[g] = <<>> /\ serving[g] = 0
    /\ child = "none" => reports = <<>>

(* What is still to come of a gateway is numbered in the order it comes:   *)
(* first what was said, then what is owed, nothing past the directive       *)
(* awaited.                                                                *)
SaidInTurn ==
    \A i \in 1..Len(reports) :
        LET g == reports[i].gateway IN
        /\ reports[i].answers <= sent
        /\ awaiting[g] # 0 => reports[i].answers <= awaiting[g]
        /\ \A j \in 1..Len(reports) :
              i < j /\ reports[j].gateway = g => reports[i].answers < reports[j].answers
        /\ \A k \in 1..Len(lanes[g]) : reports[i].answers < lanes[g][k].id

OwedInTurn ==
    \A g \in Gateways : \A k \in 1..Len(lanes[g]) :
        /\ lanes[g][k].id <= sent
        /\ awaiting[g] # 0 => lanes[g][k].id <= awaiting[g]
        /\ \A j \in 1..Len(lanes[g]) : k < j => lanes[g][k].id < lanes[g][j].id

NumbersRise ==
    /\ \A g \in Gateways : awaiting[g] <= sent
    /\ SaidInTurn
    /\ OwedInTurn

(* Nothing more is to come of a gateway.                                   *)
Quiet(g) ==
    /\ lanes[g] = <<>>
    /\ \A i \in 1..Len(reports) : reports[i].gateway # g

(* The last word on a gateway says what it serves.                         *)
LastWordIsTrue ==
    \A i \in 1..Len(reports) :
        LET g == reports[i].gateway IN
        child = "up" /\ (\A j \in 1..Len(reports) : i < j => reports[j].gateway # g)
            => (reports[i].state = "running" <=> serving[g] # 0)

Starts(stood) == stood \in {"starting", "restart-starting"}

(* What is awaited is the directive the act's phase sends, and its answer. *)
AwaitedFits ==
    \A g \in Gateways : awaiting[g] # 0 =>
        /\ \A k \in 1..Len(lanes[g]) :
              lanes[g][k].id = awaiting[g] => (lanes[g][k].kind = "start" <=> Starts(phase[g]))
        /\ \A i \in 1..Len(reports) :
              reports[i].gateway = g /\ reports[i].answers = awaiting[g] =>
                  \/ Starts(phase[g]) /\ reports[i].state = "running"
                  \/ Starts(phase[g]) /\ reports[i].state = "failed" /\ PortsMayBeTaken
                  \/ ~Starts(phase[g]) /\ reports[i].state = "stopped"

(* Whatever the first n directives of a lane find served, they leave       *)
(* nothing.                                                                *)
Cleared(lane, served, n) == IF n = 0 THEN served = 0 ELSE lane[n].kind = "stop"

(* Between a restart's stop and its start nothing can come to serve, and   *)
(* its start is the last of the lane.                                      *)
ClearFor(stood, lane, served, version) ==
    LET n == Len(lane) IN
    /\ stood \in {"restart-stopping", "restart-between"} => Cleared(lane, served, n)
    /\ stood = "restart-starting" =>
          IF n = 0 THEN served \in {0, version}
          ELSE /\ Cleared(lane, served, n - 1)
               /\ lane[n].kind = "start" /\ lane[n].version = version

RestartsClear ==
    \A g \in Gateways : ClearFor(phase[g], lanes[g], serving[g], Current(g).version)

(* What is true of a gateway whose last act was answered.                  *)
RestsWell(g) ==
    Resting(g) =>
        /\ Quiet(g)
        /\ serving[g] # 0 => states[g] \in {"running", "absent"}
        /\ child # "dead" /\ states[g] = "running" /\ serving[g] = 0
              => PortsMayBeTaken /\ last[g].act = "restart"
        /\ last[g].act = "restart" /\ serving[g] # 0 => serving[g] = last[g].version

TypeInv == TypeOK /\ ActsAwaitTheirOwn

HostInv ==
    /\ TypeInv
    /\ OnlyTheLivingServe
    /\ NumbersRise
    /\ LastWordIsTrue
    /\ AwaitedFits
    /\ RestartsClear
    /\ \A g \in Gateways : RestsWell(g)

-----------------------------------------------------------------------------
(* Queues.                                                                 *)

LEMMA TakenFirst ==
  ASSUME NEW S, NEW q \in Seq(S), q # <<>>
  PROVE  /\ Head(q) \in S /\ Head(q) = q[1] /\ Tail(q) \in Seq(S)
         /\ Len(q) \in Nat /\ 1 \in 1..Len(q) /\ Len(Tail(q)) = Len(q) - 1
         /\ \A k \in 1..Len(Tail(q)) : k + 1 \in 1..Len(q) /\ Tail(q)[k] = q[k + 1]
OBVIOUS

LEMMA AddedLast ==
  ASSUME NEW S, NEW q \in Seq(S), NEW e \in S
  PROVE  /\ Append(q, e) \in Seq(S) /\ Append(q, e) # <<>>
         /\ Len(q) \in Nat /\ Len(Append(q, e)) = Len(q) + 1
         /\ \A k \in 1..Len(q) : Append(q, e)[k] = q[k]
         /\ Append(q, e)[Len(q) + 1] = e
         /\ q # <<>> => Head(Append(q, e)) = Head(q)
<1>1. /\ Append(q, e) \in Seq(S)
      /\ Len(q) \in Nat /\ Len(Append(q, e)) = Len(q) + 1
      /\ \A k \in 1..Len(q) : Append(q, e)[k] = q[k]
      /\ Append(q, e)[Len(q) + 1] = e
  OBVIOUS
<1>2. Append(q, e) # <<>>
  BY <1>1
<1>3. ASSUME q # <<>> PROVE Head(Append(q, e)) = Head(q)
  <2>1. 1 \in 1..Len(q) /\ Head(q) = q[1]
    BY <1>3, TakenFirst
  <2>2. Head(Append(q, e)) = Append(q, e)[1]
    BY <1>1, <1>2, TakenFirst
  <2>3. QED
    BY <1>1, <2>1, <2>2
<1>4. QED
  BY <1>1, <1>2, <1>3

-----------------------------------------------------------------------------
(* Types, and what an act at work awaits.                                  *)

(* What a directive sent does to the host and to the child's lanes.        *)
LEMMA Sent ==
  ASSUME TypeOK, NEW g \in Gateways, NEW kind \in {"start", "stop"}, NEW version \in Versions,
         Send(g, kind, version)
  PROVE  /\ sent' = sent + 1 /\ sent' \in Nat
         /\ awaiting' = [awaiting EXCEPT ![g] = sent + 1] /\ awaiting' \in [Gateways -> Nat]
         /\ child' \in {"none", "up", "dead"}
         /\ child' = "dead" <=> child = "dead"
         /\ child' # "none"
         /\ lanes' \in [Gateways -> Seq(Directive)]
         /\ \A h \in Gateways \ {g} : lanes'[h] = lanes[h]
         /\ child = "dead" => lanes' = lanes
         /\ child # "dead" =>
               lanes'[g] = Append(lanes[g], [id |-> sent + 1, kind |-> kind, version |-> version])
<1>1. [id |-> sent + 1, kind |-> kind, version |-> version] \in Directive
  BY DEF TypeOK, Directive
<1>2. lanes[g] \in Seq(Directive)
  BY DEF TypeOK
<1>3. Append(lanes[g], [id |-> sent + 1, kind |-> kind, version |-> version]) \in Seq(Directive)
  BY <1>1, <1>2
<1>4. QED
  BY <1>3 DEF Send, TypeOK

(* What settling the acts at work over some gateways leaves.               *)
LEMMA SettledTypes ==
  ASSUME TypeOK, NEW over \in SUBSET Gateways, \A g \in over : asked[g] # <<>>,
         NEW how \in {"answered", "refused"}, SettlesAs(over, how)
  PROVE  /\ asked' \in [Gateways -> Seq(Act)]
         /\ outcome' \in [1..MaxAsks -> Outcomes]
         /\ last' \in [Gateways -> Settled]
         /\ \A g \in Gateways \ over : asked'[g] = asked[g] /\ last'[g] = last[g]
         /\ \A g \in over :
               /\ last'[g].act = Current(g).act /\ last'[g].version = Current(g).version
               /\ last'[g].outcome = how
<1>1. \A g \in over : Tail(asked[g]) \in Seq(Act) /\ Current(g) \in Act
  <2>1. ASSUME NEW g \in over PROVE Tail(asked[g]) \in Seq(Act) /\ Current(g) \in Act
    <3>1. asked[g] \in Seq(Act) /\ asked[g] # <<>>
      BY DEF TypeOK
    <3>2. QED
      BY <3>1, TakenFirst DEF Current
  <2>2. QED
    BY <2>1
<1>2. asked' \in [Gateways -> Seq(Act)]
  BY <1>1 DEF SettlesAs, TypeOK
<1>3. outcome' \in [1..MaxAsks -> Outcomes]
  BY DEF SettlesAs, TypeOK, Outcomes
<1>4. \A g \in over :
         [act |-> Current(g).act, version |-> Current(g).version, outcome |-> how] \in Settled
  BY <1>1 DEF Act, Settled, Outcomes
<1>5. last' \in [Gateways -> Settled]
  BY <1>4 DEF SettlesAs, TypeOK
<1>6. QED
  BY <1>2, <1>3, <1>5 DEF SettlesAs

LEMMA InitTypes == Init => TypeInv
<1>1. SUFFICES ASSUME Init PROVE TypeInv
  OBVIOUS
<1>2. TypeOK
  <2>1. NeverAsked \in Settled
    BY DEF NeverAsked, Settled, Outcomes
  <2>2. QED
    BY <1>1, <2>1, HostAssumption DEF Init, TypeOK, States, Phases, Outcomes
<1>3. ActsAwaitTheirOwn
  BY <1>1 DEF Init, ActsAwaitTheirOwn, Awaiting, Restarting
<1>4. QED
  BY <1>2, <1>3 DEF TypeInv

LEMMA AskTypes ==
  ASSUME TypeInv, NEW g \in Gateways, NEW act \in Acts, NEW version \in Versions,
         Ask(g, act, version)
  PROVE  TypeInv'
<1> DEFINE new == [act |-> act, version |-> version, ask |-> asks + 1]
<1>1. asks' \in 0..MaxAsks /\ asks + 1 \in 1..MaxAsks
  BY HostAssumption DEF TypeInv, TypeOK, Ask, Queue
<1>2. new \in Act
  BY <1>1 DEF Act
<1>3. asked[g] \in Seq(Act) /\ asked' = [asked EXCEPT ![g] = Append(asked[g], new)]
  BY DEF TypeInv, TypeOK, Ask, Queue
<1> HIDE DEF new
<1>4. Append(asked[g], new) \in Seq(Act)
  BY <1>2, <1>3
<1>5. TypeOK'
  BY <1>1, <1>3, <1>4 DEF TypeInv, TypeOK, Ask, childVars
<1>6. \A h \in Gateways : asked[h] # <<>> => asked'[h] # <<>> /\ Current(h)' = Current(h)
  <2>1. Append(asked[g], new) # <<>> /\ (asked[g] # <<>> => Head(Append(asked[g], new)) = Head(asked[g]))
    BY <1>2, <1>3, AddedLast
  <2>2. QED
    BY <1>3, <2>1 DEF TypeInv, TypeOK, Current
<1>7. ActsAwaitTheirOwn'
  <2>1. \A h \in Gateways : phase'[h] = phase[h] /\ awaiting'[h] = awaiting[h]
    BY DEF Ask
  <2>2. QED
    BY <1>6, <2>1 DEF TypeInv, ActsAwaitTheirOwn, Restarting
<1>8. QED
  BY <1>5, <1>7 DEF TypeInv

LEMMA BeginTypes ==
  ASSUME TypeInv, NEW g \in Gateways, BeginAct(g)
  PROVE  TypeInv'
<1>1. asked[g] \in Seq(Act) /\ asked[g] # <<>> /\ Current(g) \in Act
  BY TakenFirst DEF TypeInv, TypeOK, BeginAct, Current
<1>2. Current(g).act \in Acts /\ Current(g).version \in Versions
  BY <1>1 DEF Act
<1>3. FirstDirective(Current(g).act) \in {"start", "stop"}
  BY DEF FirstDirective
<1>4. /\ sent' \in Nat /\ awaiting' \in [Gateways -> Nat] /\ awaiting'[g] # 0
      /\ \A h \in Gateways \ {g} : awaiting'[h] = awaiting[h]
      /\ child' \in {"none", "up", "dead"} /\ lanes' \in [Gateways -> Seq(Directive)]
  <2>1. TypeOK /\ Send(g, FirstDirective(Current(g).act), Current(g).version)
    BY DEF TypeInv, BeginAct
  <2>2. /\ sent' \in Nat /\ awaiting' = [awaiting EXCEPT ![g] = sent + 1]
        /\ child' \in {"none", "up", "dead"} /\ lanes' \in [Gateways -> Seq(Directive)]
    BY <1>2, <1>3, <2>1, Sent
  <2>3. QED
    BY <2>2 DEF TypeInv, TypeOK
<1>5. /\ FirstPhase(Current(g).act) \in Phases \cap Awaiting
      /\ FirstPhase(Current(g).act) \in Restarting <=> Current(g).act = "restart"
  BY <1>2 DEF FirstPhase, Phases, Awaiting, Restarting, Acts
<1>6. TypeOK'
  BY <1>4, <1>5 DEF TypeInv, TypeOK, BeginAct, boundVars
<1>7. ActsAwaitTheirOwn'
  BY <1>1, <1>4, <1>5 DEF TypeInv, TypeOK, ActsAwaitTheirOwn, BeginAct, Current
<1>8. QED
  BY <1>6, <1>7 DEF TypeInv

LEMMA StandTypes ==
  ASSUME TypeInv, NEW g \in Gateways, StandBackUp(g)
  PROVE  TypeInv'
<1>1. asked[g] \in Seq(Act) /\ asked[g] # <<>> /\ Current(g) \in Act /\ Current(g).act = "restart"
  BY TakenFirst DEF TypeInv, TypeOK, ActsAwaitTheirOwn, StandBackUp, Current, Restarting
<1>2. Current(g).version \in Versions
  BY <1>1 DEF Act
<1>3. /\ sent' \in Nat /\ awaiting' \in [Gateways -> Nat] /\ awaiting'[g] # 0
      /\ \A h \in Gateways \ {g} : awaiting'[h] = awaiting[h]
      /\ child' \in {"none", "up", "dead"} /\ lanes' \in [Gateways -> Seq(Directive)]
  <2>1. TypeOK /\ Send(g, "start", Current(g).version)
    BY DEF TypeInv, StandBackUp
  <2>2. /\ sent' \in Nat /\ awaiting' = [awaiting EXCEPT ![g] = sent + 1]
        /\ child' \in {"none", "up", "dead"} /\ lanes' \in [Gateways -> Seq(Directive)]
    BY <1>2, <2>1, Sent
  <2>3. QED
    BY <2>2 DEF TypeInv, TypeOK
<1>4. TypeOK'
  BY <1>3 DEF TypeInv, TypeOK, StandBackUp, boundVars, Phases
<1>5. ActsAwaitTheirOwn'
  BY <1>1, <1>3 DEF TypeInv, TypeOK, ActsAwaitTheirOwn, StandBackUp, Current, Awaiting, Restarting
<1>6. QED
  BY <1>4, <1>5 DEF TypeInv

LEMMA HeardReport ==
  ASSUME TypeOK, reports # <<>>
  PROVE  /\ Head(reports) = reports[1] /\ Head(reports) \in Report
         /\ Head(reports).answers \in Nat \ {0} /\ Head(reports).gateway \in Gateways
         /\ Head(reports).state \in States \ {"absent"}
         /\ Tail(reports) \in Seq(Report) /\ 1 \in 1..Len(reports)
         /\ Len(reports) \in Nat /\ Len(Tail(reports)) = Len(reports) - 1
         /\ \A i \in 1..Len(Tail(reports)) :
               i + 1 \in 1..Len(reports) /\ Tail(reports)[i] = reports[i + 1]
<1>1. reports \in Seq(Report)
  BY DEF TypeOK
<1>2. Head(reports) \in Report
  BY <1>1, TakenFirst
<1>3. QED
  BY <1>1, <1>2, TakenFirst DEF Report

LEMMA HearTypes ==
  ASSUME TypeInv, HearAnswer
  PROVE  TypeInv'
<1> DEFINE report == Head(reports)
           g == report.gateway
<1>1. /\ g \in Gateways /\ report.answers # 0 /\ report.state \in States
      /\ awaiting[g] = report.answers /\ Tail(reports) \in Seq(Report)
  BY HeardReport DEF TypeInv, HearAnswer, StillAwaited
<1>2. /\ awaiting' = [awaiting EXCEPT ![g] = 0] /\ reports' = Tail(reports)
      /\ states' = states \/ states' = [states EXCEPT ![g] = report.state]
  BY DEF HearAnswer
<1>3. phase[g] \in Awaiting /\ asked[g] # <<>>
  BY <1>1 DEF TypeInv, ActsAwaitTheirOwn, Awaiting
<1>4. CASE phase[g] = "restart-stopping"
  <2>1. phase' = [phase EXCEPT ![g] = "restart-between"] /\ UNCHANGED <<asked, outcome, last>>
    BY <1>4 DEF HearAnswer
  <2>2. TypeOK'
    <3>1. phase' \in [Gateways -> Phases]
      BY <2>1 DEF TypeInv, TypeOK, Phases
    <3>2. awaiting' \in [Gateways -> Nat]
      BY <1>2 DEF TypeInv, TypeOK
    <3>3. states' \in [Gateways -> States]
      BY <1>1, <1>2 DEF TypeInv, TypeOK
    <3>4. reports' \in Seq(Report)
      BY <1>1, <1>2
    <3>5. UNCHANGED <<asked, outcome, last, child, sent, lanes, serving, asks, giveUps, deaths, forgets>>
      BY <2>1 DEF HearAnswer
    <3>6. QED
      BY <3>1, <3>2, <3>3, <3>4, <3>5 DEF TypeInv, TypeOK
  <2>3. ActsAwaitTheirOwn'
    BY <1>1, <1>2, <1>3, <1>4, <2>1
       DEF TypeInv, TypeOK, ActsAwaitTheirOwn, Awaiting, Restarting, Current
  <2>4. QED
    BY <2>2, <2>3 DEF TypeInv
<1>5. CASE phase[g] # "restart-stopping"
  <2>1. phase' = [phase EXCEPT ![g] = "idle"] /\ SettlesAs({g}, "answered")
    BY <1>5 DEF HearAnswer
  <2>2. /\ asked' \in [Gateways -> Seq(Act)] /\ outcome' \in [1..MaxAsks -> Outcomes]
        /\ last' \in [Gateways -> Settled] /\ \A h \in Gateways \ {g} : asked'[h] = asked[h]
    BY <1>1, <1>3, <2>1, SettledTypes DEF TypeInv
  <2>3. TypeOK'
    <3>1. /\ states' \in [Gateways -> States] /\ phase' \in [Gateways -> Phases]
          /\ awaiting' \in [Gateways -> Nat]
      BY <1>1, <1>2, <2>1 DEF TypeInv, TypeOK, Phases
    <3>2. QED
      BY <1>1, <1>2, <2>2, <3>1 DEF TypeInv, TypeOK, HearAnswer
  <2>4. ActsAwaitTheirOwn'
    <3>1. phase'[g] = "idle" /\ awaiting'[g] = 0
      BY <1>1, <1>2, <2>1 DEF TypeInv, TypeOK
    <3>2. \A h \in Gateways \ {g} :
             phase'[h] = phase[h] /\ awaiting'[h] = awaiting[h] /\ asked'[h] = asked[h]
      BY <1>1, <1>2, <2>1, <2>2 DEF TypeInv, TypeOK
    <3>3. QED
      BY <3>1, <3>2 DEF TypeInv, ActsAwaitTheirOwn, Awaiting, Current
  <2>5. QED
    BY <2>3, <2>4 DEF TypeInv
<1>6. QED
  BY <1>4, <1>5

LEMMA RefusedTypes ==
  ASSUME TypeInv, NEW waiting \in SUBSET Gateways, \A g \in waiting : awaiting[g] # 0,
         Refuse(waiting)
  PROVE  /\ awaiting' \in [Gateways -> Nat] /\ phase' \in [Gateways -> Phases]
         /\ asked' \in [Gateways -> Seq(Act)] /\ outcome' \in [1..MaxAsks -> Outcomes]
         /\ last' \in [Gateways -> Settled]
         /\ \A g \in waiting :
               /\ awaiting'[g] = 0 /\ phase[g] \in Awaiting
               /\ phase[g] = "restart-stopping" =>
                     phase'[g] = "restart-between" /\ asked'[g] = asked[g]
               /\ phase[g] # "restart-stopping" => phase'[g] = "idle" /\ last'[g].outcome = "refused"
         /\ \A g \in Gateways \ waiting :
               /\ awaiting'[g] = awaiting[g] /\ phase'[g] = phase[g]
               /\ asked'[g] = asked[g] /\ last'[g] = last[g]
         /\ ActsAwaitTheirOwn'
<1> DEFINE over == {g \in waiting : phase[g] # "restart-stopping"}
<1>1. \A g \in waiting : phase[g] \in Awaiting /\ asked[g] # <<>>
  BY DEF TypeInv, ActsAwaitTheirOwn, Awaiting
<1>2. over \in SUBSET Gateways /\ \A g \in over : asked[g] # <<>>
  BY <1>1
<1>3. SettlesAs(over, "refused")
  BY DEF Refuse
<1> HIDE DEF over
<1>4. /\ asked' \in [Gateways -> Seq(Act)] /\ outcome' \in [1..MaxAsks -> Outcomes]
      /\ last' \in [Gateways -> Settled]
      /\ \A g \in Gateways \ over : asked'[g] = asked[g] /\ last'[g] = last[g]
      /\ \A g \in over : last'[g].outcome = "refused"
  BY <1>2, <1>3, SettledTypes DEF TypeInv
<1>5. awaiting' \in [Gateways -> Nat] /\ phase' \in [Gateways -> Phases]
  BY DEF TypeInv, TypeOK, Refuse, AfterRefusal, Phases
<1>6. \A g \in waiting :
         /\ awaiting'[g] = 0
         /\ phase[g] = "restart-stopping" => phase'[g] = "restart-between" /\ asked'[g] = asked[g]
         /\ phase[g] # "restart-stopping" => phase'[g] = "idle" /\ last'[g].outcome = "refused"
  BY <1>4 DEF Refuse, AfterRefusal, over
<1>7. \A g \in Gateways \ waiting :
         /\ awaiting'[g] = awaiting[g] /\ phase'[g] = phase[g]
         /\ asked'[g] = asked[g] /\ last'[g] = last[g]
  BY <1>4 DEF Refuse, over
<1>8. ActsAwaitTheirOwn'
  <2>1. SUFFICES ASSUME NEW g \in Gateways
                 PROVE  /\ awaiting'[g] # 0 <=> phase'[g] \in Awaiting
                        /\ phase'[g] # "idle" =>
                              /\ asked'[g] # <<>>
                              /\ phase'[g] \in Restarting <=> Current(g)'.act = "restart"
    BY DEF ActsAwaitTheirOwn
  <2>2. CASE g \in waiting
    BY <1>1, <1>6, <2>2 DEF TypeInv, ActsAwaitTheirOwn, Awaiting, Restarting, Current
  <2>3. CASE g \notin waiting
    BY <1>7, <2>3 DEF TypeInv, ActsAwaitTheirOwn, Current
  <2>4. QED
    BY <2>2, <2>3
<1>9. QED
  BY <1>1, <1>4, <1>5, <1>6, <1>7, <1>8

LEMMA GiveUpTypes ==
  ASSUME TypeInv, NEW g \in Gateways, GiveUp(g)
  PROVE  TypeInv'
<1>1. /\ awaiting' \in [Gateways -> Nat] /\ phase' \in [Gateways -> Phases]
      /\ asked' \in [Gateways -> Seq(Act)] /\ outcome' \in [1..MaxAsks -> Outcomes]
      /\ last' \in [Gateways -> Settled] /\ ActsAwaitTheirOwn'
  BY RefusedTypes DEF GiveUp
<1>2. states' \in [Gateways -> States] /\ giveUps' \in 0..MaxGiveUps
  BY HostAssumption DEF TypeInv, TypeOK, GiveUp, States
<1>3. QED
  BY <1>1, <1>2 DEF TypeInv, TypeOK, GiveUp, childVars

LEMMA HearExitTypes ==
  ASSUME TypeInv, HearExit
  PROVE  TypeInv'
<1> DEFINE waiting == {g \in Gateways : awaiting[g] # 0}
<1>1. Refuse(waiting) /\ waiting \in SUBSET Gateways
  BY DEF HearExit
<1>2. /\ awaiting' \in [Gateways -> Nat] /\ phase' \in [Gateways -> Phases]
      /\ asked' \in [Gateways -> Seq(Act)] /\ outcome' \in [1..MaxAsks -> Outcomes]
      /\ last' \in [Gateways -> Settled] /\ ActsAwaitTheirOwn'
  BY <1>1, RefusedTypes
<1>3. states' \in [Gateways -> States] /\ reports' \in Seq(Report) /\ child' = "none"
  BY DEF HearExit, States
<1>4. QED
  BY <1>2, <1>3 DEF TypeInv, TypeOK, HearExit

(* The lane a directive is taken off.                                      *)
LEMMA Owed ==
  ASSUME TypeOK, NEW g \in Gateways, lanes[g] # <<>>
  PROVE  /\ Head(lanes[g]) = lanes[g][1] /\ lanes[g][1] \in Directive
         /\ lanes[g][1].id \in Nat \ {0} /\ lanes[g][1].kind \in {"start", "stop"}
         /\ lanes[g][1].version \in Versions
         /\ Tail(lanes[g]) \in Seq(Directive) /\ 1 \in 1..Len(lanes[g])
         /\ Len(lanes[g]) \in Nat /\ Len(Tail(lanes[g])) = Len(lanes[g]) - 1
         /\ \A k \in 1..Len(Tail(lanes[g])) :
               k + 1 \in 1..Len(lanes[g]) /\ Tail(lanes[g])[k] = lanes[g][k + 1]
<1>1. lanes[g] \in Seq(Directive)
  BY DEF TypeOK
<1>2. Head(lanes[g]) \in Directive
  BY <1>1, TakenFirst
<1>3. QED
  BY <1>1, <1>2, TakenFirst DEF Directive

(* What the child says of the directive it works off, and what it leaves   *)
(* serving.                                                                *)
LEMMA Answered ==
  ASSUME TypeOK, NEW g \in Gateways, ChildAnswers(g)
  PROVE  \E r \in Report :
            /\ reports' = Append(reports, r) /\ r.gateway = g /\ r.answers = lanes[g][1].id
            /\ serving' \in [Gateways -> Versions \cup {0}]
            /\ \A h \in Gateways \ {g} : serving'[h] = serving[h]
            /\ r.state = "running" <=> serving'[g] # 0
            /\ lanes[g][1].kind = "stop" => r.state = "stopped"
            /\ lanes[g][1].kind = "start" =>
                  r.state = "running" \/ (r.state = "failed" /\ PortsMayBeTaken)
            /\ lanes[g][1].kind = "start" /\ serving[g] = 0 =>
                  serving'[g] \in {0, lanes[g][1].version}
<1> DEFINE d == lanes[g][1]
<1>1. d = Head(lanes[g]) /\ d.id \in Nat \ {0} /\ d.kind \in {"start", "stop"} /\ d.version \in Versions
  BY Owed DEF ChildAnswers
<1>2. PICK after \in ServedAfter(g, d) :
         /\ serving' = [serving EXCEPT ![g] = after[2]]
         /\ reports' = Append(reports, [answers |-> d.id, gateway |-> g, state |-> after[1]])
  BY <1>1 DEF ChildAnswers
<1> HIDE DEF d
<1>3. serving \in [Gateways -> Versions \cup {0}] /\ 0 \notin Versions
  BY HostAssumption DEF TypeOK
<1>4. /\ after[1] \in States \ {"absent"} /\ after[2] \in Versions \cup {0}
      /\ after[1] = "running" <=> after[2] # 0
      /\ d.kind = "stop" => after[1] = "stopped"
      /\ d.kind = "start" => after[1] = "running" \/ (after[1] = "failed" /\ PortsMayBeTaken)
      /\ d.kind = "start" /\ serving[g] = 0 => after[2] \in {0, d.version}
  <2>1. CASE d.kind = "stop"
    <3>1. after = <<"stopped", 0>>
      BY <1>2, <2>1 DEF ServedAfter
    <3>2. QED
      BY <2>1, <3>1 DEF States
  <2>2. CASE d.kind = "start" /\ serving[g] # 0
    <3>1. after = <<"running", serving[g]>>
      BY <1>2, <2>2 DEF ServedAfter
    <3>2. serving[g] \in Versions /\ after[1] = "running" /\ after[2] = serving[g]
      BY <1>3, <2>2, <3>1
    <3>3. QED
      BY <2>2, <3>2 DEF States
  <2>3. CASE d.kind = "start" /\ serving[g] = 0
    <3>1. after = <<"running", d.version>> \/ (after = <<"failed", 0>> /\ PortsMayBeTaken)
      <4>1. after \in {<<"running", d.version>>}
                      \cup IF PortsMayBeTaken THEN {<<"failed", 0>>} ELSE {}
        BY <1>2, <2>3 DEF ServedAfter
      <4>2. CASE PortsMayBeTaken
        BY <4>1, <4>2
      <4>3. CASE ~PortsMayBeTaken
        BY <4>1, <4>3
      <4>4. QED
        BY <4>2, <4>3
    <3>2. QED
      BY <1>1, <1>3, <2>3, <3>1 DEF States
  <2>4. QED
    BY <1>1, <2>1, <2>2, <2>3
<1> DEFINE r == [answers |-> d.id, gateway |-> g, state |-> after[1]]
<1>5. r \in Report /\ r.gateway = g /\ r.answers = d.id /\ r.state = after[1]
  BY <1>1, <1>4 DEF Report
<1>6. reports' = Append(reports, r)
  BY <1>2
<1> HIDE DEF r
<1>7. /\ serving' \in [Gateways -> Versions \cup {0}] /\ serving'[g] = after[2]
      /\ \A h \in Gateways \ {g} : serving'[h] = serving[h]
  BY <1>2, <1>3, <1>4
<1>8. QED
  BY <1>4, <1>5, <1>6, <1>7 DEF d

LEMMA AnswerTypes ==
  ASSUME TypeInv, NEW g \in Gateways, ChildAnswers(g)
  PROVE  TypeInv'
<1>1. /\ lanes' = [lanes EXCEPT ![g] = Tail(lanes[g])] /\ Tail(lanes[g]) \in Seq(Directive)
  BY Owed DEF TypeInv, ChildAnswers
<1>2. PICK r \in Report :
         reports' = Append(reports, r) /\ serving' \in [Gateways -> Versions \cup {0}]
  BY Answered DEF TypeInv
<1>3. TypeOK'
  <2>1. lanes' \in [Gateways -> Seq(Directive)]
    BY <1>1 DEF TypeInv, TypeOK
  <2>2. reports' \in Seq(Report)
    <3> HIDE DEF Report
    <3>1. QED
      BY <1>2 DEF TypeInv, TypeOK
  <2>3. UNCHANGED <<hostVars, boundVars>>
    BY DEF ChildAnswers
  <2>4. child' = child
    BY DEF ChildAnswers, hostVars
  <2>5. QED
    BY <1>2, <2>1, <2>2, <2>3, <2>4 DEF TypeInv, TypeOK, hostVars, boundVars
<1>4. ActsAwaitTheirOwn'
  BY DEF TypeInv, ActsAwaitTheirOwn, Current, ChildAnswers, hostVars
<1>5. QED
  BY <1>3, <1>4 DEF TypeInv

LEMMA SilenceTypes ==
  ASSUME TypeInv, NEW g \in Gateways, ChildSaysNothing(g)
  PROVE  TypeInv'
<1>1. /\ lanes' = [lanes EXCEPT ![g] = Tail(lanes[g])] /\ Tail(lanes[g]) \in Seq(Directive)
  BY Owed DEF TypeInv, ChildSaysNothing
<1>2. TypeOK'
  BY <1>1 DEF TypeInv, TypeOK, ChildSaysNothing, hostVars, boundVars
<1>3. ActsAwaitTheirOwn'
  BY DEF TypeInv, ActsAwaitTheirOwn, Current, ChildSaysNothing, hostVars
<1>4. QED
  BY <1>2, <1>3 DEF TypeInv

(* What outlives the child of what it had said.                            *)
LEMMA Outlived ==
  ASSUME TypeOK, NEW heard \in 0..Len(reports)
  PROVE  /\ SubSeq(reports, 1, heard) \in Seq(Report)
         /\ Len(SubSeq(reports, 1, heard)) = heard /\ Len(reports) \in Nat
         /\ \A i \in 1..heard : i \in 1..Len(reports) /\ SubSeq(reports, 1, heard)[i] = reports[i]
BY DEF TypeOK

LEMMA DieTypes ==
  ASSUME TypeInv, Die
  PROVE  TypeInv'
<1>1. PICK heard \in 0..Len(reports) : reports' = SubSeq(reports, 1, heard)
  BY DEF Die
<1>2. reports' \in Seq(Report)
  BY <1>1, Outlived DEF TypeInv
<1>3. deaths' \in 0..MaxDeaths
  BY HostAssumption DEF TypeInv, TypeOK, Die
<1>4. TypeOK'
  BY <1>2, <1>3 DEF TypeInv, TypeOK, Die
<1>5. ActsAwaitTheirOwn'
  BY DEF TypeInv, ActsAwaitTheirOwn, Current, Die
<1>6. QED
  BY <1>4, <1>5 DEF TypeInv

LEMMA DropTypes ==
  ASSUME TypeInv, DropReport
  PROVE  TypeInv'
<1>1. Tail(reports) \in Seq(Report)
  BY HeardReport DEF TypeInv, DropReport
<1>2. TypeOK'
  BY <1>1 DEF TypeInv, TypeOK, DropReport, hostVars, boundVars
<1>3. ActsAwaitTheirOwn'
  BY DEF TypeInv, ActsAwaitTheirOwn, Current, DropReport, hostVars
<1>4. QED
  BY <1>2, <1>3 DEF TypeInv

LEMMA ForgetTypes ==
  ASSUME TypeInv, NEW g \in Gateways, Forget(g)
  PROVE  TypeInv'
<1>1. states' \in [Gateways -> States] /\ forgets' \in 0..MaxForgets
  BY HostAssumption DEF TypeInv, TypeOK, Forget, States
<1>2. TypeOK'
  BY <1>1 DEF TypeInv, TypeOK, Forget, childVars
<1>3. ActsAwaitTheirOwn'
  BY DEF TypeInv, ActsAwaitTheirOwn, Current, Forget
<1>4. QED
  BY <1>2, <1>3 DEF TypeInv

LEMMA StepTypes == TypeInv /\ [Next]_vars => TypeInv'
<1>1. SUFFICES ASSUME TypeInv, [Next]_vars PROVE TypeInv'
  OBVIOUS
<1>2. CASE UNCHANGED vars
  <2>1. TypeOK'
    BY <1>1, <1>2 DEF TypeInv, TypeOK, vars, hostVars, childVars, boundVars
  <2>2. ActsAwaitTheirOwn'
    BY <1>1, <1>2 DEF TypeInv, ActsAwaitTheirOwn, Current, vars, hostVars
  <2>3. QED
    BY <2>1, <2>2 DEF TypeInv
<1>3. CASE \E g \in Gateways, act \in Acts, version \in Versions : Ask(g, act, version)
  BY <1>1, <1>3, AskTypes
<1>4. CASE HostSteps
  BY <1>1, <1>4, BeginTypes, StandTypes, HearTypes, DropTypes, GiveUpTypes, ForgetTypes,
     HearExitTypes DEF HostSteps
<1>5. CASE ChildSteps
  BY <1>1, <1>5, AnswerTypes, SilenceTypes, DieTypes DEF ChildSteps
<1>6. QED
  BY <1>1, <1>2, <1>3, <1>4, <1>5 DEF Next

LEMMA AlwaysTyped == Spec => []TypeInv
BY InitTypes, StepTypes, PTL DEF Spec

(* Every variable of the host and of its child keeps its type.             *)
THEOREM HostIsTyped == Spec => []TypeOK
<1>1. TypeInv => TypeOK
  BY DEF TypeInv
<1>2. QED
  BY <1>1, AlwaysTyped, PTL

(* While a restart stands over a gateway the windows read as serving, only *)
(* a refusal, the child's death or the gateway's removal tells them        *)
(* otherwise.                                                              *)
THEOREM RestartsBlinkNothing == Spec => RestartsNeverBlink
<1> DEFINE Blinks(g) ==
      /\ phase[g] \in Restarting /\ states[g] = "running" /\ states'[g] # "running"
      /\ ~(giveUps' # giveUps \/ child' # child \/ forgets' # forgets)
<1>1. ASSUME TypeInv, [Next]_vars, NEW g \in Gateways, Blinks(g) PROVE FALSE
  <2>1. states' # states /\ giveUps' = giveUps /\ child' = child /\ forgets' = forgets
    BY <1>1
  <2>2. ASSUME NEW h \in Gateways PROVE ~GiveUp(h) /\ ~Forget(h)
    BY <1>1, <2>1 DEF GiveUp, Forget, TypeInv, TypeOK
  <2>3. ~HearExit
    BY <2>1 DEF HearExit
  <2>4. CASE HearAnswer
    <3>1. /\ states' = [states EXCEPT ![Head(reports).gateway] = Head(reports).state]
          /\ ~MidRestart(Head(reports))
      BY <2>1, <2>4 DEF HearAnswer
    <3>2. Head(reports).gateway = g /\ Head(reports).state # "running"
      BY <1>1, <3>1 DEF TypeInv, TypeOK
    <3>3. QED
      BY <1>1, <3>1, <3>2 DEF MidRestart
  <2>5. HearAnswer
    BY <1>1, <2>1, <2>2, <2>3
       DEF Next, HostSteps, ChildSteps, Ask, BeginAct, StandBackUp, DropReport, ChildAnswers,
           ChildSaysNothing, Die, vars, hostVars, childVars, boundVars
  <2>6. QED
    BY <2>4, <2>5
<1>2. QED
  <2>1. TypeInv /\ [Next]_vars =>
           [\A g \in Gateways :
               phase[g] \in Restarting /\ states[g] = "running" /\ states'[g] # "running"
                   => giveUps' # giveUps \/ child' # child \/ forgets' # forgets]_vars
    BY <1>1
  <2>2. QED
    BY <2>1, AlwaysTyped, PTL DEF Spec, RestartsNeverBlink

-----------------------------------------------------------------------------
(* What is still to come of a gateway.                                     *)

LEMMA ToCome ==
  ASSUME TypeOK
  PROVE  /\ Len(reports) \in Nat /\ sent \in Nat
         /\ \A i \in 1..Len(reports) :
               /\ reports[i] \in Report /\ reports[i].gateway \in Gateways
               /\ reports[i].answers \in Nat \ {0}
         /\ \A g \in Gateways :
               /\ Len(lanes[g]) \in Nat /\ awaiting[g] \in Nat
               /\ \A k \in 1..Len(lanes[g]) :
                     /\ lanes[g][k] \in Directive /\ lanes[g][k].id \in Nat \ {0}
                     /\ lanes[g][k].kind \in {"start", "stop"}
<1>1. \A i \in 1..Len(reports) : reports[i] \in Report
  BY DEF TypeOK
<1>2. \A g \in Gateways : \A k \in 1..Len(lanes[g]) : lanes[g][k] \in Directive
  BY DEF TypeOK
<1>3. Len(reports) \in Nat /\ sent \in Nat
  BY DEF TypeOK
<1>4. \A g \in Gateways : Len(lanes[g]) \in Nat /\ awaiting[g] \in Nat
  BY DEF TypeOK
<1>5. QED
  BY <1>1, <1>2, <1>3, <1>4 DEF Report, Directive

(* A step that sends and answers nothing: what was to come is still to     *)
(* come but for what was taken, and awaited by whoever still awaits it.    *)
SaidFewer ==
    \E r \in Nat :
        /\ Len(reports') + r <= Len(reports)
        /\ \A i \in 1..Len(reports') : reports'[i] = reports[i + r]

OwedFewer(g) ==
    \E n \in Nat :
        /\ Len(lanes'[g]) + n <= Len(lanes[g])
        /\ \A k \in 1..Len(lanes'[g]) : lanes'[g][k] = lanes[g][k + n]

Fewer ==
    /\ sent' = sent
    /\ \A g \in Gateways : awaiting'[g] # 0 => awaiting'[g] = awaiting[g] /\ phase'[g] = phase[g]
    /\ SaidFewer
    /\ \A g \in Gateways : OwedFewer(g)

LEMMA QueuesAreCounted ==
  ASSUME TypeOK, TypeOK'
  PROVE  /\ Len(reports) \in Nat /\ Len(reports') \in Nat
         /\ \A g \in Gateways : Len(lanes[g]) \in Nat /\ Len(lanes'[g]) \in Nat
<1>1. reports \in Seq(Report) /\ reports' \in Seq(Report)
  BY DEF TypeOK
<1>2. \A g \in Gateways : lanes[g] \in Seq(Directive) /\ lanes'[g] \in Seq(Directive)
  BY DEF TypeOK
<1> HIDE DEF Report, Directive
<1>3. QED
  BY <1>1, <1>2

LEMMA FewerToCome ==
  ASSUME TypeOK, TypeOK', NumbersRise, AwaitedFits, Fewer
  PROVE  NumbersRise' /\ AwaitedFits' /\ \A g \in Gateways : Quiet(g) => Quiet(g)'
<1>1. PICK r \in Nat : /\ Len(reports') + r <= Len(reports)
                       /\ \A i \in 1..Len(reports') : reports'[i] = reports[i + r]
  BY DEF Fewer, SaidFewer
<1>2. Len(reports) \in Nat /\ Len(reports') \in Nat
  BY QueuesAreCounted
<1>3. \A i \in 1..Len(reports') : i + r \in 1..Len(reports) /\ reports'[i] = reports[i + r]
  BY <1>1, <1>2
<1>4. ASSUME NEW i \in 1..Len(reports')
      PROVE  /\ i + r \in 1..Len(reports) /\ reports'[i] = reports[i + r]
             /\ reports[i + r].gateway \in Gateways
  BY <1>3, ToCome
<1>5. ASSUME NEW g \in Gateways, NEW k \in 1..Len(lanes'[g])
      PROVE  \E m \in 1..Len(lanes[g]) :
                /\ lanes'[g][k] = lanes[g][m]
                /\ \A j \in 1..Len(lanes'[g]) :
                      k < j => \E l \in 1..Len(lanes[g]) : m < l /\ lanes'[g][j] = lanes[g][l]
  <2>1. PICK n \in Nat : /\ Len(lanes'[g]) + n <= Len(lanes[g])
                         /\ \A j \in 1..Len(lanes'[g]) : lanes'[g][j] = lanes[g][j + n]
    BY DEF Fewer, OwedFewer
  <2>2. Len(lanes[g]) \in Nat /\ Len(lanes'[g]) \in Nat
    BY QueuesAreCounted
  <2>3. \A j \in 1..Len(lanes'[g]) : j + n \in 1..Len(lanes[g])
    BY <2>1, <2>2
  <2>4. \A j \in 1..Len(lanes'[g]) : k < j => k + n < j + n
    BY <2>1, <2>2
  <2>5. QED
    BY <2>1, <2>3, <2>4
<1>6. SaidInTurn'
  <2>1. SUFFICES ASSUME NEW i \in 1..Len(reports')
                 PROVE  /\ reports'[i].answers <= sent'
                        /\ awaiting'[reports'[i].gateway] # 0 =>
                              reports'[i].answers <= awaiting'[reports'[i].gateway]
                        /\ \A j \in 1..Len(reports') :
                              i < j /\ reports'[j].gateway = reports'[i].gateway
                                  => reports'[i].answers < reports'[j].answers
                        /\ \A k \in 1..Len(lanes'[reports'[i].gateway]) :
                              reports'[i].answers < lanes'[reports'[i].gateway][k].id
    BY DEF SaidInTurn
  <2>2. /\ i + r \in 1..Len(reports) /\ reports'[i] = reports[i + r]
        /\ reports[i + r].gateway \in Gateways
    BY <1>4
  <2>3. /\ reports'[i].answers <= sent'
        /\ awaiting'[reports'[i].gateway] # 0 =>
              reports'[i].answers <= awaiting'[reports'[i].gateway]
    BY <2>2 DEF NumbersRise, SaidInTurn, Fewer
  <2>4. ASSUME NEW j \in 1..Len(reports'), i < j, reports'[j].gateway = reports'[i].gateway
        PROVE  reports'[i].answers < reports'[j].answers
    <3>1. j + r \in 1..Len(reports) /\ reports'[j] = reports[j + r] /\ i + r < j + r
      BY <1>2, <1>4, <2>4
    <3>2. QED
      BY <2>2, <2>4, <3>1 DEF NumbersRise, SaidInTurn
  <2>5. ASSUME NEW k \in 1..Len(lanes'[reports'[i].gateway])
        PROVE  reports'[i].answers < lanes'[reports'[i].gateway][k].id
    <3>1. reports'[i].gateway \in Gateways
      BY <2>2
    <3>2. PICK m \in 1..Len(lanes[reports'[i].gateway]) :
             lanes'[reports'[i].gateway][k] = lanes[reports'[i].gateway][m]
      BY <1>5, <2>5, <3>1
    <3>3. QED
      BY <2>2, <3>2 DEF NumbersRise, SaidInTurn
  <2>6. QED
    BY <2>3, <2>4, <2>5
<1>7. OwedInTurn'
  <2>1. SUFFICES ASSUME NEW g \in Gateways, NEW k \in 1..Len(lanes'[g])
                 PROVE  /\ lanes'[g][k].id <= sent'
                        /\ awaiting'[g] # 0 => lanes'[g][k].id <= awaiting'[g]
                        /\ \A j \in 1..Len(lanes'[g]) : k < j => lanes'[g][k].id < lanes'[g][j].id
    BY DEF OwedInTurn
  <2>2. PICK m \in 1..Len(lanes[g]) :
                /\ lanes'[g][k] = lanes[g][m]
                /\ \A j \in 1..Len(lanes'[g]) :
                      k < j => \E l \in 1..Len(lanes[g]) : m < l /\ lanes'[g][j] = lanes[g][l]
    BY <1>5
  <2>3. QED
    BY <2>2 DEF NumbersRise, OwedInTurn, Fewer
<1>8. NumbersRise'
  <2>1. ASSUME NEW g \in Gateways PROVE awaiting'[g] <= sent'
    BY ToCome DEF NumbersRise, Fewer
  <2>2. QED
    BY <1>6, <1>7, <2>1 DEF NumbersRise
<1>9. AwaitedFits'
  <2>1. SUFFICES ASSUME NEW g \in Gateways, awaiting'[g] # 0
                 PROVE  /\ \A k \in 1..Len(lanes'[g]) :
                              lanes'[g][k].id = awaiting'[g] =>
                                  (lanes'[g][k].kind = "start" <=> Starts(phase'[g]))
                        /\ \A i \in 1..Len(reports') :
                              reports'[i].gateway = g /\ reports'[i].answers = awaiting'[g] =>
                                \/ Starts(phase'[g]) /\ reports'[i].state = "running"
                                \/ Starts(phase'[g]) /\ reports'[i].state = "failed" /\ PortsMayBeTaken
                                \/ ~Starts(phase'[g]) /\ reports'[i].state = "stopped"
    BY DEF AwaitedFits, Starts
  <2>2. awaiting'[g] = awaiting[g] /\ phase'[g] = phase[g] /\ awaiting[g] # 0
    BY <2>1 DEF Fewer
  <2>3. ASSUME NEW k \in 1..Len(lanes'[g]), lanes'[g][k].id = awaiting'[g]
        PROVE  lanes'[g][k].kind = "start" <=> Starts(phase'[g])
    <3>1. PICK m \in 1..Len(lanes[g]) : lanes'[g][k] = lanes[g][m]
      BY <1>5
    <3>2. lanes[g][m].id = awaiting[g]
      BY <2>2, <2>3, <3>1
    <3>3. lanes[g][m].kind = "start" <=> Starts(phase[g])
      BY <2>2, <3>2 DEF AwaitedFits
    <3>4. QED
      BY <2>2, <3>1, <3>3
  <2>4. ASSUME NEW i \in 1..Len(reports'), reports'[i].gateway = g, reports'[i].answers = awaiting'[g]
        PROVE  \/ Starts(phase'[g]) /\ reports'[i].state = "running"
               \/ Starts(phase'[g]) /\ reports'[i].state = "failed" /\ PortsMayBeTaken
               \/ ~Starts(phase'[g]) /\ reports'[i].state = "stopped"
    <3>1. /\ i + r \in 1..Len(reports) /\ reports'[i] = reports[i + r]
          /\ reports[i + r].gateway = g /\ reports[i + r].answers = awaiting[g]
      BY <1>4, <2>2, <2>4
    <3>2. \/ Starts(phase[g]) /\ reports[i + r].state = "running"
          \/ Starts(phase[g]) /\ reports[i + r].state = "failed" /\ PortsMayBeTaken
          \/ ~Starts(phase[g]) /\ reports[i + r].state = "stopped"
      BY <2>2, <3>1 DEF AwaitedFits
    <3>3. QED
      BY <2>2, <3>1, <3>2
  <2>5. QED
    BY <2>3, <2>4
<1>10. ASSUME NEW g \in Gateways, Quiet(g) PROVE Quiet(g)'
  <2>1. \A i \in 1..Len(reports') : reports'[i].gateway # g
    BY <1>4, <1>10 DEF Quiet
  <2>2. Len(lanes[g]) = 0
    BY <1>10 DEF Quiet
  <2>3. lanes'[g] \in Seq(Directive) /\ Len(lanes'[g]) = 0
    BY <2>2, ToCome DEF Fewer, OwedFewer, TypeOK
  <2>4. lanes'[g] = <<>>
    BY <2>3
  <2>5. QED
    BY <2>1, <2>4 DEF Quiet
<1>11. QED
  BY <1>8, <1>9, <1>10

(* A directive sent is numbered past everything, and awaited.              *)
LEMMA SentToCome ==
  ASSUME TypeOK, NumbersRise, AwaitedFits,
         NEW g \in Gateways, NEW kind \in {"start", "stop"}, NEW version \in Versions,
         Send(g, kind, version), reports' = reports,
         \A h \in Gateways \ {g} : phase'[h] = phase[h],
         kind = "start" <=> Starts(phase'[g])
  PROVE  /\ NumbersRise' /\ AwaitedFits'
         /\ \A h \in Gateways \ {g} : Quiet(h) => Quiet(h)'
<1> DEFINE new == [id |-> sent + 1, kind |-> kind, version |-> version]
<1>1. /\ sent' = sent + 1 /\ awaiting' = [awaiting EXCEPT ![g] = sent + 1]
      /\ \A h \in Gateways \ {g} : lanes'[h] = lanes[h]
      /\ lanes' = lanes \/ lanes'[g] = Append(lanes[g], new)
  BY Sent
<1>2. new \in Directive /\ new.id = sent + 1 /\ new.kind = kind
  BY DEF TypeOK, Directive
<1>3. lanes[g] \in Seq(Directive) /\ sent \in Nat /\ awaiting \in [Gateways -> Nat]
  BY DEF TypeOK
<1> HIDE DEF new
<1>4. /\ Len(lanes[g]) \in Nat
      /\ \A k \in 1..Len(lanes'[g]) :
            \/ k \in 1..Len(lanes[g]) /\ lanes'[g][k] = lanes[g][k]
            \/ lanes'[g][k] = new /\ \A j \in 1..Len(lanes'[g]) : j <= k
  <2>1. CASE lanes' = lanes
    BY <1>3, <2>1
  <2>2. CASE lanes'[g] = Append(lanes[g], new)
    <3>1. /\ Len(lanes[g]) \in Nat /\ Len(lanes'[g]) = Len(lanes[g]) + 1
          /\ \A k \in 1..Len(lanes[g]) : lanes'[g][k] = lanes[g][k]
          /\ lanes'[g][Len(lanes[g]) + 1] = new
      BY <1>2, <1>3, <2>2, AddedLast
    <3>2. QED
      BY <3>1
  <2>3. QED
    BY <1>1, <2>1, <2>2
<1>5. ASSUME NEW h \in Gateways, NEW k \in 1..Len(lanes'[h])
      PROVE  /\ \/ k \in 1..Len(lanes[h]) /\ lanes'[h][k] = lanes[h][k]
                \/ /\ h = g /\ lanes'[h][k].id = sent' /\ lanes'[h][k].kind = kind
                   /\ \A j \in 1..Len(lanes'[h]) : j <= k
             /\ lanes'[h][k].id <= sent'
  <2>1. CASE h # g
    <3>1. lanes'[h] = lanes[h] /\ k \in 1..Len(lanes[h])
      <4>1. lanes'[h] = lanes[h]
        BY <1>1, <2>1
      <4>2. QED
        BY <4>1, <1>5
    <3>2. lanes[h][k].id <= sent /\ lanes[h][k].id \in Nat /\ sent \in Nat
      BY <3>1, ToCome DEF NumbersRise, OwedInTurn
    <3>3. QED
      BY <1>1, <3>1, <3>2
  <2>2. CASE h = g
    <3>1. CASE k \in 1..Len(lanes[g]) /\ lanes'[g][k] = lanes[g][k]
      BY <1>1, <1>3, <2>2, <3>1, ToCome DEF NumbersRise, OwedInTurn
    <3>2. CASE lanes'[g][k] = new /\ \A j \in 1..Len(lanes'[g]) : j <= k
      BY <1>1, <1>2, <1>3, <2>2, <3>2
    <3>3. QED
      BY <1>4, <1>5, <2>2, <3>1, <3>2
  <2>3. QED
    BY <2>1, <2>2
<1>6. \A h \in Gateways : awaiting'[h] <= sent'
  BY <1>1, <1>3 DEF NumbersRise
<1>7. OwedInTurn'
  <2>1. SUFFICES ASSUME NEW h \in Gateways, NEW k \in 1..Len(lanes'[h])
                 PROVE  /\ lanes'[h][k].id <= sent'
                        /\ awaiting'[h] # 0 => lanes'[h][k].id <= awaiting'[h]
                        /\ \A j \in 1..Len(lanes'[h]) : k < j => lanes'[h][k].id < lanes'[h][j].id
    BY DEF OwedInTurn
  <2>2. awaiting'[h] # 0 => lanes'[h][k].id <= awaiting'[h]
    <3>1. CASE h = g
      BY <1>1, <1>3, <1>5, <3>1
    <3>2. CASE h # g
      BY <1>1, <1>3, <3>2 DEF NumbersRise, OwedInTurn
    <3>3. QED
      BY <3>1, <3>2
  <2>3. ASSUME NEW j \in 1..Len(lanes'[h]), k < j
        PROVE  lanes'[h][k].id < lanes'[h][j].id
    <3>1. k \in 1..Len(lanes[h]) /\ lanes'[h][k] = lanes[h][k]
      BY <1>5, <2>3
    <3>2. lanes[h][k].id <= sent /\ lanes[h][k].id \in Nat
      BY <3>1, ToCome DEF NumbersRise, OwedInTurn
    <3>3. CASE j \in 1..Len(lanes[h]) /\ lanes'[h][j] = lanes[h][j]
      BY <2>3, <3>1, <3>3 DEF NumbersRise, OwedInTurn
    <3>4. CASE lanes'[h][j].id = sent'
      BY <1>1, <1>3, <3>1, <3>2, <3>4
    <3>5. QED
      BY <1>5, <3>3, <3>4
  <2>4. QED
    BY <1>5, <2>2, <2>3
<1>8. SaidInTurn'
  <2>1. SUFFICES ASSUME NEW i \in 1..Len(reports)
                 PROVE  /\ reports[i].answers <= sent'
                        /\ awaiting'[reports[i].gateway] # 0 =>
                              reports[i].answers <= awaiting'[reports[i].gateway]
                        /\ \A j \in 1..Len(reports) :
                              i < j /\ reports[j].gateway = reports[i].gateway
                                  => reports[i].answers < reports[j].answers
                        /\ \A k \in 1..Len(lanes'[reports[i].gateway]) :
                              reports[i].answers < lanes'[reports[i].gateway][k].id
    BY DEF SaidInTurn
  <2>2. PICK h \in Gateways : h = reports[i].gateway
    BY ToCome
  <2>3. reports[i].answers <= sent /\ reports[i].answers \in Nat
    BY ToCome DEF NumbersRise, SaidInTurn
  <2>4. awaiting'[h] # 0 => reports[i].answers <= awaiting'[h]
    <3>1. CASE h = g
      BY <1>1, <1>3, <2>3, <3>1
    <3>2. CASE h # g
      BY <1>1, <1>3, <2>2, <3>2 DEF NumbersRise, SaidInTurn
    <3>3. QED
      BY <3>1, <3>2
  <2>5. ASSUME NEW k \in 1..Len(lanes'[h]) PROVE reports[i].answers < lanes'[h][k].id
    <3>1. CASE k \in 1..Len(lanes[h]) /\ lanes'[h][k] = lanes[h][k]
      BY <2>2, <3>1 DEF NumbersRise, SaidInTurn
    <3>2. CASE lanes'[h][k].id = sent'
      BY <1>1, <1>3, <2>3, <3>2
    <3>3. QED
      BY <1>5, <3>1, <3>2
  <2>6. reports[i].answers <= sent'
    BY <1>1, <1>3, <2>3
  <2>7. \A j \in 1..Len(reports) :
           i < j /\ reports[j].gateway = reports[i].gateway => reports[i].answers < reports[j].answers
    BY DEF NumbersRise, SaidInTurn
  <2>8. QED
    BY <2>2, <2>4, <2>5, <2>6, <2>7
<1>9. AwaitedFits'
  <2>1. SUFFICES ASSUME NEW h \in Gateways, awaiting'[h] # 0
                 PROVE  /\ \A k \in 1..Len(lanes'[h]) :
                              lanes'[h][k].id = awaiting'[h] =>
                                  (lanes'[h][k].kind = "start" <=> Starts(phase'[h]))
                        /\ \A i \in 1..Len(reports) :
                              reports[i].gateway = h /\ reports[i].answers = awaiting'[h] =>
                                \/ Starts(phase'[h]) /\ reports[i].state = "running"
                                \/ Starts(phase'[h]) /\ reports[i].state = "failed" /\ PortsMayBeTaken
                                \/ ~Starts(phase'[h]) /\ reports[i].state = "stopped"
    BY DEF AwaitedFits, Starts
  <2>2. CASE h = g
    <3>1. awaiting'[h] = sent + 1
      BY <1>1, <1>3, <2>2
    <3>2. \A i \in 1..Len(reports) : reports[i].answers # awaiting'[h]
      BY <1>3, <3>1, ToCome DEF NumbersRise, SaidInTurn
    <3>3. ASSUME NEW k \in 1..Len(lanes'[h]), lanes'[h][k].id = awaiting'[h]
          PROVE  lanes'[h][k].kind = kind
      <4>1. CASE k \in 1..Len(lanes[h]) /\ lanes'[h][k] = lanes[h][k]
        BY <1>3, <3>1, <3>3, <4>1, ToCome DEF NumbersRise, OwedInTurn
      <4>2. QED
        BY <1>5, <4>1
    <3>4. QED
      BY <2>2, <3>2, <3>3
  <2>3. CASE h # g
    <3>1. awaiting'[h] = awaiting[h] /\ phase'[h] = phase[h] /\ lanes'[h] = lanes[h]
      BY <1>1, <1>3, <2>3
    <3>2. QED
      BY <2>1, <3>1 DEF AwaitedFits
  <2>4. QED
    BY <2>2, <2>3
<1>10. \A h \in Gateways \ {g} : Quiet(h) => Quiet(h)'
  BY <1>1 DEF Quiet
<1>11. QED
  BY <1>6, <1>7, <1>8, <1>9, <1>10 DEF NumbersRise

(* An answer is the first that was owed and the last that was said.        *)
LEMMA AnsweredToCome ==
  ASSUME TypeInv, NumbersRise, AwaitedFits, LastWordIsTrue, NEW g \in Gateways, ChildAnswers(g)
  PROVE  /\ NumbersRise' /\ AwaitedFits' /\ LastWordIsTrue'
         /\ \A h \in Gateways \ {g} : Quiet(h) => Quiet(h)'
<1>1. PICK r \in Report :
         /\ reports' = Append(reports, r) /\ r.gateway = g /\ r.answers = lanes[g][1].id
         /\ \A h \in Gateways \ {g} : serving'[h] = serving[h]
         /\ r.state = "running" <=> serving'[g] # 0
         /\ lanes[g][1].kind = "stop" => r.state = "stopped"
         /\ lanes[g][1].kind = "start" =>
               r.state = "running" \/ (r.state = "failed" /\ PortsMayBeTaken)
  BY Answered DEF TypeInv
<1>2. /\ UNCHANGED <<awaiting, phase, sent, child>> /\ child = "up"
      /\ lanes' = [lanes EXCEPT ![g] = Tail(lanes[g])]
  BY DEF ChildAnswers, hostVars
<1>3. /\ 1 \in 1..Len(lanes[g]) /\ Len(lanes[g]) \in Nat /\ Len(lanes'[g]) = Len(lanes[g]) - 1
      /\ \A k \in 1..Len(lanes'[g]) : k + 1 \in 1..Len(lanes[g]) /\ lanes'[g][k] = lanes[g][k + 1]
      /\ \A h \in Gateways \ {g} : lanes'[h] = lanes[h]
  BY <1>2, Owed DEF TypeInv, TypeOK, ChildAnswers
<1>4. /\ reports \in Seq(Report) /\ Len(reports) \in Nat /\ Len(reports') = Len(reports) + 1
      /\ \A i \in 1..Len(reports) : reports'[i] = reports[i]
      /\ reports'[Len(reports) + 1] = r
  BY <1>1, AddedLast DEF TypeInv, TypeOK
<1>5. \A i \in 1..Len(reports') :
         (i \in 1..Len(reports) /\ reports'[i] = reports[i]) \/ (i = Len(reports) + 1 /\ reports'[i] = r)
  BY <1>4
<1>6. ASSUME NEW h \in Gateways, NEW k \in 1..Len(lanes'[h])
      PROVE  \E m \in 1..Len(lanes[h]) :
                /\ lanes'[h][k] = lanes[h][m]
                /\ h = g => 1 < m
                /\ \A j \in 1..Len(lanes'[h]) :
                      k < j => \E l \in 1..Len(lanes[h]) : m < l /\ lanes'[h][j] = lanes[h][l]
  <2>1. CASE h = g
    <3>1. k + 1 \in 1..Len(lanes[g]) /\ 1 < k + 1
      BY <1>3, <1>6, <2>1
    <3>2. ASSUME NEW j \in 1..Len(lanes'[g]), k < j
          PROVE  j + 1 \in 1..Len(lanes[g]) /\ k + 1 < j + 1
      BY <1>3, <1>6, <2>1, <3>2
    <3>3. QED
      BY <1>3, <1>6, <2>1, <3>1, <3>2
  <2>2. CASE h # g
    BY <1>3, <1>6, <2>2
  <2>3. QED
    BY <2>1, <2>2
<1>7. OwedInTurn'
  <2>1. SUFFICES ASSUME NEW h \in Gateways, NEW k \in 1..Len(lanes'[h])
                 PROVE  /\ lanes'[h][k].id <= sent'
                        /\ awaiting'[h] # 0 => lanes'[h][k].id <= awaiting'[h]
                        /\ \A j \in 1..Len(lanes'[h]) : k < j => lanes'[h][k].id < lanes'[h][j].id
    BY DEF OwedInTurn
  <2>2. PICK m \in 1..Len(lanes[h]) :
                /\ lanes'[h][k] = lanes[h][m]
                /\ \A j \in 1..Len(lanes'[h]) :
                      k < j => \E l \in 1..Len(lanes[h]) : m < l /\ lanes'[h][j] = lanes[h][l]
    BY <1>6
  <2>3. QED
    BY <1>2, <2>2 DEF NumbersRise, OwedInTurn
<1>8. /\ r.answers <= sent
      /\ awaiting[g] # 0 => r.answers <= awaiting[g]
      /\ \A i \in 1..Len(reports) : reports[i].gateway = g => reports[i].answers < r.answers
  BY <1>1, <1>3 DEF NumbersRise, OwedInTurn, SaidInTurn
<1>9. SaidInTurn'
  <2>1. SUFFICES ASSUME NEW i \in 1..Len(reports')
                 PROVE  /\ reports'[i].answers <= sent'
                        /\ awaiting'[reports'[i].gateway] # 0 =>
                              reports'[i].answers <= awaiting'[reports'[i].gateway]
                        /\ \A j \in 1..Len(reports') :
                              i < j /\ reports'[j].gateway = reports'[i].gateway
                                  => reports'[i].answers < reports'[j].answers
                        /\ \A k \in 1..Len(lanes'[reports'[i].gateway]) :
                              reports'[i].answers < lanes'[reports'[i].gateway][k].id
    BY DEF SaidInTurn
  <2>2. CASE i \in 1..Len(reports) /\ reports'[i] = reports[i]
    <3>1. PICK h \in Gateways : h = reports[i].gateway
      BY <2>2, ToCome DEF TypeInv
    <3>2. /\ reports[i].answers <= sent
          /\ awaiting[h] # 0 => reports[i].answers <= awaiting[h]
      BY <2>2, <3>1 DEF NumbersRise, SaidInTurn
    <3>3. ASSUME NEW j \in 1..Len(reports'), i < j, reports'[j].gateway = h
          PROVE  reports[i].answers < reports'[j].answers
      <4>1. CASE j \in 1..Len(reports) /\ reports'[j] = reports[j]
        BY <2>2, <3>1, <3>3, <4>1 DEF NumbersRise, SaidInTurn
      <4>2. CASE reports'[j] = r
        BY <1>1, <1>8, <2>2, <3>1, <3>3, <4>2
      <4>3. QED
        BY <1>5, <4>1, <4>2
    <3>4. ASSUME NEW k \in 1..Len(lanes'[h]) PROVE reports[i].answers < lanes'[h][k].id
      <4>1. PICK m \in 1..Len(lanes[h]) : lanes'[h][k] = lanes[h][m]
        BY <1>6
      <4>2. QED
        BY <2>2, <3>1, <4>1 DEF NumbersRise, SaidInTurn
    <3>5. QED
      BY <1>2, <2>2, <3>1, <3>2, <3>3, <3>4
  <2>3. CASE i = Len(reports) + 1 /\ reports'[i] = r
    <3>1. ASSUME NEW k \in 1..Len(lanes'[g]) PROVE r.answers < lanes'[g][k].id
      <4>1. PICK m \in 1..Len(lanes[g]) : lanes'[g][k] = lanes[g][m] /\ 1 < m
        BY <1>6
      <4>2. QED
        BY <1>1, <1>3, <4>1 DEF NumbersRise, OwedInTurn
    <3>2. \A j \in 1..Len(reports') : ~(i < j)
      BY <1>4, <2>3
    <3>3. QED
      BY <1>1, <1>2, <1>8, <2>3, <3>1, <3>2
  <2>4. QED
    BY <1>5, <2>2, <2>3
<1>10. NumbersRise'
  BY <1>2, <1>7, <1>9 DEF NumbersRise
<1>11. AwaitedFits'
  <2>1. SUFFICES ASSUME NEW h \in Gateways, awaiting[h] # 0
                 PROVE  /\ \A k \in 1..Len(lanes'[h]) :
                              lanes'[h][k].id = awaiting[h] =>
                                  (lanes'[h][k].kind = "start" <=> Starts(phase[h]))
                        /\ \A i \in 1..Len(reports') :
                              reports'[i].gateway = h /\ reports'[i].answers = awaiting[h] =>
                                \/ Starts(phase[h]) /\ reports'[i].state = "running"
                                \/ Starts(phase[h]) /\ reports'[i].state = "failed" /\ PortsMayBeTaken
                                \/ ~Starts(phase[h]) /\ reports'[i].state = "stopped"
    BY <1>2 DEF AwaitedFits, Starts
  <2>2. ASSUME NEW k \in 1..Len(lanes'[h]), lanes'[h][k].id = awaiting[h]
        PROVE  lanes'[h][k].kind = "start" <=> Starts(phase[h])
    <3>1. PICK m \in 1..Len(lanes[h]) : lanes'[h][k] = lanes[h][m]
      BY <1>6
    <3>2. QED
      BY <2>1, <2>2, <3>1 DEF AwaitedFits
  <2>3. ASSUME NEW i \in 1..Len(reports'), reports'[i].gateway = h, reports'[i].answers = awaiting[h]
        PROVE  \/ Starts(phase[h]) /\ reports'[i].state = "running"
               \/ Starts(phase[h]) /\ reports'[i].state = "failed" /\ PortsMayBeTaken
               \/ ~Starts(phase[h]) /\ reports'[i].state = "stopped"
    <3>1. CASE i \in 1..Len(reports) /\ reports'[i] = reports[i]
      BY <2>1, <2>3, <3>1 DEF AwaitedFits
    <3>2. CASE reports'[i] = r
      <4>1. h = g /\ lanes[g][1].id = awaiting[g]
        BY <1>1, <2>3, <3>2
      <4>2. lanes[g][1].kind = "start" <=> Starts(phase[g])
        BY <1>3, <2>1, <4>1 DEF AwaitedFits
      <4>3. lanes[g][1].kind \in {"start", "stop"}
        BY <1>3, ToCome DEF TypeInv
      <4>4. QED
        BY <1>1, <3>2, <4>1, <4>2, <4>3
    <3>3. QED
      BY <1>5, <3>1, <3>2
  <2>4. QED
    BY <2>2, <2>3
<1>12. LastWordIsTrue'
  <2>1. SUFFICES ASSUME NEW i \in 1..Len(reports'),
                        \A j \in 1..Len(reports') : i < j => reports'[j].gateway # reports'[i].gateway
                 PROVE  reports'[i].state = "running" <=> serving'[reports'[i].gateway] # 0
    BY DEF LastWordIsTrue
  <2>2. CASE i \in 1..Len(reports) /\ reports'[i] = reports[i]
    <3>1. Len(reports) + 1 \in 1..Len(reports') /\ i < Len(reports) + 1
      BY <1>4, <2>2
    <3>2. reports[i].gateway \in Gateways \ {g}
      BY <1>1, <1>4, <2>1, <2>2, <3>1, ToCome DEF TypeInv
    <3>3. \A j \in 1..Len(reports) : i < j => reports[j].gateway # reports[i].gateway
      BY <1>4, <2>1, <2>2
    <3>4. reports[i].state = "running" <=> serving[reports[i].gateway] # 0
      BY <1>2, <2>2, <3>3 DEF LastWordIsTrue
    <3>5. QED
      BY <1>1, <2>2, <3>2, <3>4
  <2>3. CASE reports'[i] = r
    BY <1>1, <2>3
  <2>4. QED
    BY <1>5, <2>2, <2>3
<1>13. ASSUME NEW h \in Gateways \ {g}, Quiet(h) PROVE Quiet(h)'
  BY <1>1, <1>3, <1>5, <1>13 DEF Quiet
<1>14. QED
  BY <1>10, <1>11, <1>12, <1>13

-----------------------------------------------------------------------------
(* The invariant of the host and its child.                                *)

LEMMA LastWordStands ==
  ASSUME TypeOK, LastWordIsTrue, UNCHANGED <<child, serving>>,
         reports' = reports \/ (reports # <<>> /\ reports' = Tail(reports))
  PROVE  LastWordIsTrue'
<1>1. CASE reports' = reports
  BY <1>1 DEF LastWordIsTrue
<1>2. CASE reports # <<>> /\ reports' = Tail(reports)
  <2>1. SUFFICES ASSUME NEW i \in 1..Len(reports'), child = "up",
                        \A j \in 1..Len(reports') : i < j => reports'[j].gateway # reports'[i].gateway
                 PROVE  reports'[i].state = "running" <=> serving[reports'[i].gateway] # 0
    BY DEF LastWordIsTrue
  <2>2. /\ Len(reports') = Len(reports) - 1 /\ Len(reports) \in Nat
        /\ \A j \in 1..Len(reports') : j + 1 \in 1..Len(reports) /\ reports'[j] = reports[j + 1]
    BY <1>2, HeardReport
  <2>3. ASSUME NEW j \in 1..Len(reports), i + 1 < j
        PROVE  reports[j].gateway # reports[i + 1].gateway
    <3>1. j - 1 \in 1..Len(reports') /\ i < j - 1 /\ (j - 1) + 1 = j
      BY <2>2, <2>3
    <3>2. QED
      BY <2>1, <2>2, <3>1
  <2>4. i + 1 \in 1..Len(reports) /\ reports'[i] = reports[i + 1]
    BY <2>2
  <2>5. QED
    BY <2>1, <2>3, <2>4 DEF LastWordIsTrue
<1>3. QED
  BY <1>1, <1>2

(* A gateway that goes on resting as it did.                               *)
LEMMA RestStands ==
  ASSUME NEW g \in Gateways, RestsWell(g),
         phase'[g] = "idle" => phase[g] = "idle" /\ last'[g] = last[g],
         serving'[g] = serving[g], states'[g] = states[g], child' = "dead" <=> child = "dead",
         Quiet(g) => Quiet(g)'
  PROVE  RestsWell(g)'
BY DEF RestsWell, Resting

(* A gateway at no rest: its act is under way or was refused.              *)
LEMMA NoRest ==
  ASSUME NEW g \in Gateways, phase'[g] # "idle" \/ last'[g].outcome = "refused"
  PROVE  RestsWell(g)'
BY DEF RestsWell, Resting

LEMMA RestartsStand ==
  ASSUME RestartsClear, UNCHANGED <<lanes, serving>>,
         \A g \in Gateways :
            /\ phase'[g] \in {"restart-stopping", "restart-between"} =>
                  phase[g] \in {"restart-stopping", "restart-between"}
            /\ phase'[g] = "restart-starting" =>
                  phase[g] = "restart-starting" /\ Current(g)' = Current(g)
  PROVE  RestartsClear'
BY DEF RestartsClear, ClearFor

(* What a lane comes to when a restart's stop, then its start, is added.   *)
LEMMA StopAdded ==
  ASSUME NEW lane \in Seq(Directive), NEW stop \in Directive, stop.kind = "stop",
         NEW served, NEW version
  PROVE  ClearFor("restart-stopping", Append(lane, stop), served, version)
<1>1. /\ Len(Append(lane, stop)) = Len(lane) + 1 /\ Len(lane) \in Nat
      /\ Append(lane, stop)[Len(lane) + 1] = stop
  BY AddedLast
<1>2. Len(Append(lane, stop)) # 0 /\ Append(lane, stop)[Len(Append(lane, stop))].kind = "stop"
  BY <1>1
<1>3. QED
  BY <1>2 DEF ClearFor, Cleared

LEMMA StartAdded ==
  ASSUME NEW lane \in Seq(Directive), NEW start \in Directive, start.kind = "start",
         NEW served, Cleared(lane, served, Len(lane))
  PROVE  ClearFor("restart-starting", Append(lane, start), served, start.version)
<1> DEFINE longer == Append(lane, start)
<1>1. /\ Len(longer) = Len(lane) + 1 /\ Len(lane) \in Nat /\ longer[Len(lane) + 1] = start
      /\ \A k \in 1..Len(lane) : longer[k] = lane[k]
  BY AddedLast
<1> HIDE DEF longer
<1>2. Len(longer) # 0 /\ Len(longer) - 1 = Len(lane) /\ longer[Len(longer)] = start
  BY <1>1
<1>3. Cleared(longer, served, Len(lane))
  BY <1>1 DEF Cleared
<1>4. ClearFor("restart-starting", longer, served, start.version)
  BY <1>2, <1>3 DEF ClearFor
<1>5. QED
  BY <1>4 DEF longer

LEMMA NothingServed ==
  ASSUME NEW stood, NEW version
  PROVE  ClearFor(stood, <<>>, 0, version)
BY DEF ClearFor, Cleared

LEMMA SamePending ==
  ASSUME TypeOK, UNCHANGED <<lanes, reports>>
  PROVE  SaidFewer /\ \A g \in Gateways : OwedFewer(g)
<1>1. Len(reports) \in Nat /\ \A g \in Gateways : Len(lanes[g]) \in Nat
  BY ToCome
<1>2. SaidFewer
  <2>1. Len(reports') + 0 <= Len(reports) /\ \A i \in 1..Len(reports') : reports'[i] = reports[i + 0]
    BY <1>1
  <2>2. QED
    BY <2>1 DEF SaidFewer
<1>3. ASSUME NEW g \in Gateways PROVE OwedFewer(g)
  <2>1. /\ Len(lanes'[g]) + 0 <= Len(lanes[g])
        /\ \A k \in 1..Len(lanes'[g]) : lanes'[g][k] = lanes[g][k + 0]
    BY <1>1
  <2>2. QED
    BY <2>1 DEF OwedFewer
<1>4. QED
  BY <1>2, <1>3

LEMMA OneReportLess ==
  ASSUME TypeOK, reports # <<>>, reports' = Tail(reports)
  PROVE  SaidFewer
<1>1. /\ Len(reports') + 1 <= Len(reports)
      /\ \A i \in 1..Len(reports') : reports'[i] = reports[i + 1]
  BY HeardReport
<1>2. QED
  BY <1>1 DEF SaidFewer

LEMMA NoneOwed ==
  ASSUME TypeOK, \A g \in Gateways : lanes'[g] = <<>>
  PROVE  \A g \in Gateways : OwedFewer(g)
<1>1. ASSUME NEW g \in Gateways PROVE OwedFewer(g)
  <2>1. Len(lanes[g]) \in Nat /\ Len(lanes'[g]) = 0
    BY ToCome
  <2>2. Len(lanes'[g]) + 0 <= Len(lanes[g]) /\ \A k \in 1..Len(lanes'[g]) : lanes'[g][k] = lanes[g][k + 0]
    BY <2>1
  <2>3. QED
    BY <2>2 DEF OwedFewer
<1>2. QED
  BY <1>1

LEMMA AskKeeps ==
  ASSUME HostInv, NEW g \in Gateways, NEW act \in Acts, NEW version \in Versions,
         Ask(g, act, version)
  PROVE  HostInv'
<1>1. TypeInv /\ TypeInv'
  BY AskTypes DEF HostInv
<1>2. /\ UNCHANGED <<states, phase, awaiting, child, sent, lanes, serving, reports, last>>
      /\ \E new : asked' = [asked EXCEPT ![g] = Append(asked[g], new)]
  BY DEF Ask, Queue, childVars
<1>3. Fewer
  BY <1>1, <1>2, SamePending DEF Fewer, TypeInv
<1>4. NumbersRise' /\ AwaitedFits' /\ \A h \in Gateways : Quiet(h) => Quiet(h)'
  BY <1>1, <1>3, FewerToCome DEF HostInv, TypeInv
<1>5. OnlyTheLivingServe'
  BY <1>2 DEF HostInv, OnlyTheLivingServe
<1>6. LastWordIsTrue'
  BY <1>1, <1>2, LastWordStands DEF HostInv, TypeInv
<1>7. \A h \in Gateways : phase[h] # "idle" => Current(h)' = Current(h)
  <2>1. ASSUME NEW h \in Gateways, phase[h] # "idle" PROVE Current(h)' = Current(h)
    <3>1. asked[h] # <<>> /\ asked[h] \in Seq(Act)
      BY <1>1, <2>1 DEF TypeInv, TypeOK, ActsAwaitTheirOwn
    <3>2. [act |-> act, version |-> version, ask |-> asks + 1] \in Act
      BY <1>1, HostAssumption DEF Act, TypeInv, TypeOK, Ask, Queue
    <3>3. asked' = [asked EXCEPT ![g] =
                       Append(asked[g], [act |-> act, version |-> version, ask |-> asks + 1])]
      BY DEF Ask, Queue
    <3>4. CASE h = g
      <4>1. asked'[h] = Append(asked[h], [act |-> act, version |-> version, ask |-> asks + 1])
        BY <1>1, <3>3, <3>4 DEF TypeInv, TypeOK
      <4>2. Head(asked'[h]) = Head(asked[h])
        BY <3>1, <3>2, <4>1, AddedLast
      <4>3. QED
        BY <4>2 DEF Current
    <3>5. CASE h # g
      BY <1>1, <3>3, <3>5 DEF Current, TypeInv, TypeOK
    <3>6. QED
      BY <3>4, <3>5
  <2>2. QED
    BY <2>1
<1>8. RestartsClear'
  BY <1>2, <1>7, RestartsStand DEF HostInv
<1>9. \A h \in Gateways : RestsWell(h)'
  BY <1>2, <1>4, RestStands DEF HostInv
<1>10. QED
  BY <1>1, <1>4, <1>5, <1>6, <1>8, <1>9 DEF HostInv

LEMMA BeginKeeps ==
  ASSUME HostInv, NEW g \in Gateways, BeginAct(g)
  PROVE  HostInv'
<1> DEFINE act == Current(g).act
           version == Current(g).version
<1>1. TypeInv /\ TypeInv' /\ TypeOK
  BY BeginTypes DEF HostInv, TypeInv
<1>2. act \in Acts /\ version \in Versions
  <2>1. asked[g] \in Seq(Act) /\ asked[g] # <<>>
    BY <1>1 DEF TypeOK, BeginAct
  <2>2. Current(g) \in Act
    BY <2>1, TakenFirst DEF Current
  <2>3. QED
    BY <2>2 DEF Act
<1>3. /\ Send(g, FirstDirective(act), version)
      /\ phase' = [phase EXCEPT ![g] = FirstPhase(act)]
      /\ UNCHANGED <<states, asked, serving, reports, last>>
  BY DEF BeginAct, boundVars
<1>4. /\ FirstDirective(act) \in {"start", "stop"}
      /\ FirstDirective(act) = "start" <=> Starts(FirstPhase(act))
      /\ FirstPhase(act) \notin {"idle", "restart-between", "restart-starting"}
      /\ FirstPhase(act) = "restart-stopping" => FirstDirective(act) = "stop"
  BY <1>2 DEF FirstDirective, FirstPhase, Starts, Acts
<1> HIDE DEF act, version
<1>5. phase'[g] = FirstPhase(act) /\ \A h \in Gateways \ {g} : phase'[h] = phase[h]
  BY <1>1, <1>3 DEF TypeOK
<1>6. /\ child' = "dead" <=> child = "dead"
      /\ child' \in {"up", "dead"}
      /\ \A h \in Gateways \ {g} : lanes'[h] = lanes[h]
      /\ child = "dead" => lanes' = lanes
      /\ child # "dead" =>
            lanes'[g] = Append(lanes[g], [id |-> sent + 1, kind |-> FirstDirective(act), version |-> version])
  BY <1>1, <1>2, <1>3, <1>4, Sent
<1>7. NumbersRise' /\ AwaitedFits' /\ \A h \in Gateways \ {g} : Quiet(h) => Quiet(h)'
  BY <1>1, <1>2, <1>3, <1>4, <1>5, SentToCome DEF HostInv
<1>8. OnlyTheLivingServe'
  BY <1>3, <1>6 DEF HostInv, OnlyTheLivingServe
<1>9. LastWordIsTrue'
  <2>1. CASE child = "none"
    BY <1>3, <2>1 DEF HostInv, OnlyTheLivingServe, LastWordIsTrue
  <2>2. CASE child # "none"
    BY <1>3, <2>2 DEF HostInv, Send, LastWordIsTrue
  <2>3. QED
    BY <2>1, <2>2
<1>10. RestartsClear'
  <2>1. SUFFICES ASSUME NEW h \in Gateways
                 PROVE  ClearFor(phase'[h], lanes'[h], serving'[h], Current(h)'.version)
    BY DEF RestartsClear
  <2>2. CASE h # g
    <3>1. /\ phase'[h] = phase[h] /\ lanes'[h] = lanes[h] /\ serving'[h] = serving[h]
          /\ Current(h)' = Current(h)
      BY <1>3, <1>5, <1>6, <2>2 DEF Current
    <3>2. QED
      BY <3>1 DEF HostInv, RestartsClear
  <2>3. CASE h = g /\ FirstPhase(act) = "restart-stopping"
    <3>1. CASE child = "dead"
      <4>1. lanes'[g] = <<>> /\ serving'[g] = 0
        BY <1>3, <1>6, <3>1 DEF HostInv, OnlyTheLivingServe
      <4>2. QED
        BY <2>3, <4>1, NothingServed
    <3>2. CASE child # "dead"
      <4> DEFINE stop == [id |-> sent + 1, kind |-> "stop", version |-> version]
      <4>1. stop \in Directive /\ stop.kind = "stop" /\ lanes[g] \in Seq(Directive)
        <5>1. sent + 1 \in Nat \ {0} /\ lanes[g] \in Seq(Directive)
          BY <1>1 DEF TypeOK
        <5>2. stop \in Directive
          BY <1>2, <5>1 DEF Directive
        <5>3. QED
          BY <5>1, <5>2
      <4>2. lanes'[g] = Append(lanes[g], stop)
        BY <1>4, <1>6, <2>3, <3>2
      <4> HIDE DEF stop
      <4>3. QED
        BY <1>5, <2>3, <4>1, <4>2, StopAdded
    <3>3. QED
      BY <3>1, <3>2
  <2>4. CASE h = g /\ FirstPhase(act) # "restart-stopping"
    BY <1>4, <1>5, <2>4 DEF ClearFor
  <2>5. QED
    BY <2>2, <2>3, <2>4
<1>11. \A h \in Gateways : RestsWell(h)'
  <2>1. RestsWell(g)'
    BY <1>4, <1>5, NoRest
  <2>2. ASSUME NEW h \in Gateways \ {g} PROVE RestsWell(h)'
    <3>1. phase'[h] = phase[h] /\ last'[h] = last[h] /\ serving'[h] = serving[h] /\ states'[h] = states[h]
      BY <1>3, <1>5
    <3>2. RestsWell(h) /\ (Quiet(h) => Quiet(h)') /\ (child' = "dead" <=> child = "dead")
      BY <1>6, <1>7 DEF HostInv
    <3>3. QED
      BY <3>1, <3>2, RestStands
  <2>3. QED
    BY <2>1, <2>2
<1>12. QED
  BY <1>1, <1>7, <1>8, <1>9, <1>10, <1>11 DEF HostInv

LEMMA StandKeeps ==
  ASSUME HostInv, NEW g \in Gateways, StandBackUp(g)
  PROVE  HostInv'
<1> DEFINE version == Current(g).version
           new == [id |-> sent + 1, kind |-> "start", version |-> version]
<1>1. TypeInv /\ TypeInv' /\ TypeOK
  BY StandTypes DEF HostInv, TypeInv
<1>2. version \in Versions
  <2>1. asked[g] \in Seq(Act) /\ asked[g] # <<>>
    BY <1>1 DEF TypeInv, TypeOK, ActsAwaitTheirOwn, StandBackUp
  <2>2. Current(g) \in Act
    BY <2>1, TakenFirst DEF Current
  <2>3. QED
    BY <2>2 DEF Act
<1>3. /\ Send(g, "start", version) /\ phase[g] = "restart-between"
      /\ phase' = [phase EXCEPT ![g] = "restart-starting"]
      /\ UNCHANGED <<states, asked, serving, reports, last>>
  BY DEF StandBackUp, boundVars
<1>4. Current(g)'.version = version
  BY <1>3 DEF Current
<1> HIDE DEF version
<1>5. phase'[g] = "restart-starting" /\ \A h \in Gateways \ {g} : phase'[h] = phase[h]
  BY <1>1, <1>3 DEF TypeOK
<1>6. /\ child' = "dead" <=> child = "dead"
      /\ child' \in {"up", "dead"}
      /\ \A h \in Gateways \ {g} : lanes'[h] = lanes[h]
      /\ child = "dead" => lanes' = lanes
      /\ child # "dead" => lanes'[g] = Append(lanes[g], new)
  BY <1>1, <1>2, <1>3, Sent
<1>7. NumbersRise' /\ AwaitedFits' /\ \A h \in Gateways \ {g} : Quiet(h) => Quiet(h)'
  <2>1. "start" = "start" <=> Starts(phase'[g])
    BY <1>5 DEF Starts
  <2>2. QED
    BY <1>1, <1>2, <1>3, <1>5, <2>1, SentToCome DEF HostInv
<1>8. OnlyTheLivingServe'
  BY <1>3, <1>6 DEF HostInv, OnlyTheLivingServe
<1>9. LastWordIsTrue'
  <2>1. CASE child = "none"
    BY <1>3, <2>1 DEF HostInv, OnlyTheLivingServe, LastWordIsTrue
  <2>2. CASE child # "none"
    BY <1>3, <2>2 DEF HostInv, Send, LastWordIsTrue
  <2>3. QED
    BY <2>1, <2>2
<1>10. RestartsClear'
  <2>1. SUFFICES ASSUME NEW h \in Gateways
                 PROVE  ClearFor(phase'[h], lanes'[h], serving'[h], Current(h)'.version)
    BY DEF RestartsClear
  <2>2. CASE h # g
    <3>1. /\ phase'[h] = phase[h] /\ lanes'[h] = lanes[h] /\ serving'[h] = serving[h]
          /\ Current(h)' = Current(h)
      BY <1>3, <1>5, <1>6, <2>2 DEF Current
    <3>2. QED
      BY <3>1 DEF HostInv, RestartsClear
  <2>3. CASE h = g /\ child = "dead"
    <3>1. lanes'[g] = <<>> /\ serving'[g] = 0
      BY <1>3, <1>6, <2>3 DEF HostInv, OnlyTheLivingServe
    <3>2. QED
      BY <2>3, <3>1, NothingServed
  <2>4. CASE h = g /\ child # "dead"
    <3>1. /\ new \in Directive /\ new.kind = "start" /\ new.version = version
          /\ lanes[g] \in Seq(Directive)
      <4>1. sent + 1 \in Nat \ {0} /\ lanes[g] \in Seq(Directive)
        BY <1>1 DEF TypeOK
      <4>2. new \in Directive
        BY <1>2, <4>1 DEF Directive
      <4>3. QED
        BY <4>1, <4>2
    <3>2. lanes'[g] = Append(lanes[g], new) /\ serving'[g] = serving[g]
      BY <1>3, <1>6, <2>4
    <3> HIDE DEF new
    <3>3. Cleared(lanes[g], serving[g], Len(lanes[g]))
      BY <1>3 DEF HostInv, RestartsClear, ClearFor
    <3>4. ClearFor("restart-starting", Append(lanes[g], new), serving[g], version)
      BY <3>1, <3>3, StartAdded
    <3>5. QED
      BY <1>4, <1>5, <2>4, <3>2, <3>4
  <2>5. QED
    BY <2>2, <2>3, <2>4
<1>11. \A h \in Gateways : RestsWell(h)'
  <2>1. RestsWell(g)'
    BY <1>5, NoRest
  <2>2. ASSUME NEW h \in Gateways \ {g} PROVE RestsWell(h)'
    <3>1. phase'[h] = phase[h] /\ last'[h] = last[h] /\ serving'[h] = serving[h] /\ states'[h] = states[h]
      BY <1>3, <1>5
    <3>2. RestsWell(h) /\ (Quiet(h) => Quiet(h)') /\ (child' = "dead" <=> child = "dead")
      BY <1>6, <1>7 DEF HostInv
    <3>3. QED
      BY <3>1, <3>2, RestStands
  <2>3. QED
    BY <2>1, <2>2
<1>12. QED
  BY <1>1, <1>7, <1>8, <1>9, <1>10, <1>11 DEF HostInv

(* The answer to the directive awaited is the last to come of its gateway. *)
LEMMA NothingAfterTheAwaited ==
  ASSUME TypeOK, NumbersRise, reports # <<>>, StillAwaited(Head(reports))
  PROVE  /\ lanes[Head(reports).gateway] = <<>>
         /\ \A i \in 1..Len(reports) : 1 < i => reports[i].gateway # Head(reports).gateway
<1>1. PICK g \in Gateways : g = Head(reports).gateway
  BY HeardReport
<1>2. /\ 1 \in 1..Len(reports) /\ reports[1].gateway = g /\ awaiting[g] = reports[1].answers
      /\ awaiting[g] \in Nat \ {0}
  BY <1>1, HeardReport DEF StillAwaited
<1>3. ASSUME NEW i \in 1..Len(reports), 1 < i, reports[i].gateway = g PROVE FALSE
  <2>1. reports[1].answers < reports[i].answers /\ reports[i].answers <= awaiting[g]
    BY <1>2, <1>3 DEF NumbersRise, SaidInTurn
  <2>2. reports[i].answers \in Nat
    BY ToCome
  <2>3. QED
    BY <1>2, <2>1, <2>2
<1>4. ASSUME lanes[g] # <<>> PROVE FALSE
  <2>1. 1 \in 1..Len(lanes[g]) /\ lanes[g][1].id \in Nat
    BY <1>4, Owed
  <2>2. reports[1].answers < lanes[g][1].id /\ lanes[g][1].id <= awaiting[g]
    BY <1>2, <2>1 DEF NumbersRise, SaidInTurn, OwedInTurn
  <2>3. QED
    BY <1>2, <2>1, <2>2
<1>5. QED
  BY <1>1, <1>3, <1>4

LEMMA HearKeeps ==
  ASSUME HostInv, HearAnswer
  PROVE  HostInv'
<1> DEFINE report == Head(reports)
<1>1. TypeInv /\ TypeInv' /\ TypeOK
  BY HearTypes DEF HostInv, TypeInv
<1>2. PICK g \in Gateways : g = report.gateway
  BY <1>1, HeardReport DEF HearAnswer
<1>3. /\ reports # <<>> /\ StillAwaited(report) /\ child # "none"
      /\ awaiting[g] = report.answers /\ awaiting[g] # 0 /\ report.state \in States \ {"absent"}
      /\ awaiting' = [awaiting EXCEPT ![g] = 0] /\ reports' = Tail(reports)
      /\ states' = IF MidRestart(report) THEN states ELSE [states EXCEPT ![g] = report.state]
      /\ UNCHANGED <<child, sent, lanes, serving>>
  BY <1>1, <1>2, HeardReport DEF HearAnswer, StillAwaited
<1>4. /\ phase[g] = "restart-stopping" =>
            phase' = [phase EXCEPT ![g] = "restart-between"] /\ UNCHANGED <<asked, last>>
      /\ phase[g] # "restart-stopping" =>
            phase' = [phase EXCEPT ![g] = "idle"] /\ SettlesAs({g}, "answered")
  BY <1>2 DEF HearAnswer
<1>5. /\ phase[g] \in Awaiting /\ asked[g] # <<>>
      /\ phase[g] \in Restarting <=> Current(g).act = "restart"
  BY <1>1, <1>3 DEF TypeInv, ActsAwaitTheirOwn, Awaiting
<1>6. /\ \A h \in Gateways \ {g} :
            /\ phase'[h] = phase[h] /\ awaiting'[h] = awaiting[h] /\ states'[h] = states[h]
            /\ asked'[h] = asked[h] /\ last'[h] = last[h]
      /\ awaiting'[g] = 0
      /\ phase[g] = "restart-stopping" => phase'[g] = "restart-between" /\ asked'[g] = asked[g]
      /\ phase[g] # "restart-stopping" =>
            /\ phase'[g] = "idle" /\ last'[g].act = Current(g).act
            /\ last'[g].version = Current(g).version
  <2>1. \A h \in Gateways \ {g} :
           phase'[h] = phase[h] /\ awaiting'[h] = awaiting[h] /\ states'[h] = states[h]
    BY <1>1, <1>3, <1>4 DEF TypeOK
  <2>2. awaiting'[g] = 0
    BY <1>1, <1>3 DEF TypeOK
  <2>3. CASE phase[g] = "restart-stopping"
    BY <1>1, <1>4, <2>1, <2>2, <2>3 DEF TypeOK
  <2>4. CASE phase[g] # "restart-stopping"
    <3>1. /\ \A h \in Gateways \ {g} : asked'[h] = asked[h] /\ last'[h] = last[h]
          /\ last'[g].act = Current(g).act /\ last'[g].version = Current(g).version
      BY <1>1, <1>4, <1>5, <2>4, SettledTypes
    <3>2. phase'[g] = "idle"
      BY <1>1, <1>4, <2>4 DEF TypeOK
    <3>3. QED
      BY <2>1, <2>2, <2>4, <3>1, <3>2
  <2>5. QED
    BY <2>3, <2>4
<1> HIDE DEF report
<1>7. Fewer
  <2>1. SaidFewer
    BY <1>1, <1>3, OneReportLess
  <2>2. \A h \in Gateways : awaiting'[h] # 0 => awaiting'[h] = awaiting[h] /\ phase'[h] = phase[h]
    BY <1>6
  <2>3. \A h \in Gateways : OwedFewer(h)
    <3>1. \A h \in Gateways : Len(lanes[h]) \in Nat
      BY <1>1, ToCome
    <3>2. ASSUME NEW h \in Gateways PROVE OwedFewer(h)
      <4>1. /\ Len(lanes'[h]) + 0 <= Len(lanes[h])
            /\ \A k \in 1..Len(lanes'[h]) : lanes'[h][k] = lanes[h][k + 0]
        BY <1>3, <3>1
      <4>2. QED
        BY <4>1 DEF OwedFewer
    <3>3. QED
      BY <3>2
  <2>4. QED
    BY <1>3, <2>1, <2>2, <2>3 DEF Fewer
<1>8. NumbersRise' /\ AwaitedFits' /\ \A h \in Gateways : Quiet(h) => Quiet(h)'
  BY <1>1, <1>7, FewerToCome DEF HostInv, TypeInv
<1>9. OnlyTheLivingServe'
  BY <1>3 DEF HostInv, OnlyTheLivingServe
<1>10. LastWordIsTrue'
  BY <1>1, <1>3, LastWordStands DEF HostInv
<1>11. RestartsClear'
  <2>1. ASSUME NEW h \in Gateways
        PROVE  ClearFor(phase'[h], lanes'[h], serving'[h], Current(h)'.version)
    <3>1. CASE h # g
      BY <1>3, <1>6, <3>1 DEF HostInv, RestartsClear, Current
    <3>2. CASE h = g /\ phase[g] = "restart-stopping"
      <4>1. phase'[g] = "restart-between"
        BY <1>6, <3>2
      <4>2. ClearFor("restart-stopping", lanes[g], serving[g], Current(g).version)
        BY <3>2 DEF HostInv, RestartsClear
      <4>3. QED
        BY <1>3, <3>2, <4>1, <4>2 DEF ClearFor
    <3>3. CASE h = g /\ phase[g] # "restart-stopping"
      BY <1>6, <3>3 DEF ClearFor
    <3>4. QED
      BY <3>1, <3>2, <3>3
  <2>2. QED
    BY <2>1 DEF RestartsClear
<1>12. ASSUME phase[g] # "restart-stopping" PROVE RestsWell(g)'
  <2>1. /\ lanes[g] = <<>>
        /\ \A i \in 1..Len(reports) : 1 < i => reports[i].gateway # g
    BY <1>1, <1>2, <1>3, NothingAfterTheAwaited DEF HostInv, report
  <2>2. /\ 1 \in 1..Len(reports) /\ reports[1] = report /\ report.gateway = g
        /\ Len(reports') = Len(reports) - 1 /\ Len(reports) \in Nat
        /\ \A i \in 1..Len(reports') : i + 1 \in 1..Len(reports) /\ reports'[i] = reports[i + 1]
    BY <1>1, <1>2, <1>3, HeardReport DEF report
  <2>3. Quiet(g)'
    <3>1. \A i \in 1..Len(reports') : reports'[i].gateway # g
      BY <2>1, <2>2
    <3>2. QED
      BY <1>3, <2>1, <3>1 DEF Quiet
  <2>4. child = "up" => (report.state = "running" <=> serving[g] # 0)
    BY <2>1, <2>2 DEF HostInv, LastWordIsTrue
  <2>5. child # "up" => serving[g] = 0
    BY DEF HostInv, OnlyTheLivingServe
  <2>6. \/ Starts(phase[g]) /\ report.state = "running"
        \/ Starts(phase[g]) /\ report.state = "failed" /\ PortsMayBeTaken
        \/ ~Starts(phase[g]) /\ report.state = "stopped"
    BY <1>3, <2>2 DEF HostInv, AwaitedFits
  <2>7. phase'[g] = "idle" /\ last'[g].act = Current(g).act /\ last'[g].version = Current(g).version
    BY <1>6, <1>12
  <2>8. ASSUME child # "dead", states'[g] = "running", serving[g] = 0
        PROVE  PortsMayBeTaken /\ last'[g].act = "restart"
    <3>1. child = "up" /\ report.state # "running"
      BY <1>1, <1>3, <2>4, <2>8 DEF TypeOK
    <3>2. MidRestart(report)
      BY <1>1, <1>3, <2>8, <3>1 DEF TypeOK
    <3>3. phase[g] \in Restarting /\ phase[g] # "restart-stopping"
      BY <1>12, <2>2, <3>2 DEF MidRestart
    <3>4. Starts(phase[g])
      BY <1>5, <3>3 DEF Restarting, Awaiting, Starts
    <3>5. QED
      BY <1>5, <2>6, <2>7, <3>1, <3>3, <3>4
  <2>9. ASSUME serving[g] # 0 PROVE states'[g] = "running"
    <3>1. report.state = "running" /\ ~MidRestart(report)
      BY <2>4, <2>5, <2>9 DEF MidRestart
    <3>2. QED
      BY <1>1, <1>3, <3>1 DEF TypeOK
  <2>10. ASSUME last'[g].act = "restart", serving[g] # 0 PROVE serving[g] = last'[g].version
    <3>1. phase[g] = "restart-starting"
      <4>1. Starts(phase[g]) /\ phase[g] \in Restarting
        BY <1>1, <1>3, <1>5, <2>4, <2>5, <2>6, <2>7, <2>10 DEF TypeOK
      <4>2. QED
        BY <4>1 DEF Starts, Restarting
    <3>2. ClearFor("restart-starting", <<>>, serving[g], Current(g).version)
      BY <2>1, <3>1 DEF HostInv, RestartsClear
    <3>3. QED
      BY <2>7, <2>10, <3>2 DEF ClearFor
  <2>11. QED
    BY <1>3, <2>3, <2>8, <2>9, <2>10 DEF RestsWell
<1>13. \A h \in Gateways : RestsWell(h)'
  <2>1. ASSUME phase[g] = "restart-stopping" PROVE RestsWell(g)'
    BY <1>6, <2>1, NoRest
  <2>2. RestsWell(g)'
    BY <1>12, <2>1
  <2>3. ASSUME NEW h \in Gateways \ {g} PROVE RestsWell(h)'
    BY <1>3, <1>6, <1>8, RestStands DEF HostInv
  <2>4. QED
    BY <2>2, <2>3
<1>14. QED
  BY <1>1, <1>8, <1>9, <1>10, <1>11, <1>13 DEF HostInv

LEMMA DropKeeps ==
  ASSUME HostInv, DropReport
  PROVE  HostInv'
<1>1. TypeInv /\ TypeInv' /\ TypeOK
  BY DropTypes DEF HostInv, TypeInv
<1>2. /\ reports # <<>> /\ reports' = Tail(reports)
      /\ UNCHANGED <<states, asked, phase, awaiting, child, sent, lanes, serving, last>>
  BY DEF DropReport, hostVars, boundVars
<1>3. Fewer
  <2>1. \A h \in Gateways : OwedFewer(h)
    <3>1. ASSUME NEW h \in Gateways PROVE OwedFewer(h)
      <4>1. /\ Len(lanes'[h]) + 0 <= Len(lanes[h])
            /\ \A k \in 1..Len(lanes'[h]) : lanes'[h][k] = lanes[h][k + 0]
        BY <1>1, <1>2, ToCome
      <4>2. QED
        BY <4>1 DEF OwedFewer
    <3>2. QED
      BY <3>1
  <2>2. QED
    BY <1>1, <1>2, <2>1, OneReportLess DEF Fewer
<1>4. NumbersRise' /\ AwaitedFits' /\ \A h \in Gateways : Quiet(h) => Quiet(h)'
  BY <1>1, <1>3, FewerToCome DEF HostInv, TypeInv
<1>5. OnlyTheLivingServe'
  <2>1. child = "none" => reports = <<>>
    BY DEF HostInv, OnlyTheLivingServe
  <2>2. QED
    BY <1>2, <2>1 DEF HostInv, OnlyTheLivingServe
<1>6. LastWordIsTrue'
  BY <1>1, <1>2, LastWordStands DEF HostInv
<1>7. RestartsClear'
  BY <1>2 DEF HostInv, RestartsClear, Current
<1>8. \A h \in Gateways : RestsWell(h)'
  BY <1>2, <1>4, RestStands DEF HostInv
<1>9. QED
  BY <1>1, <1>4, <1>5, <1>6, <1>7, <1>8 DEF HostInv

LEMMA GiveUpKeeps ==
  ASSUME HostInv, NEW g \in Gateways, GiveUp(g)
  PROVE  HostInv'
<1>1. TypeInv /\ TypeInv' /\ TypeOK
  BY GiveUpTypes DEF HostInv, TypeInv
<1>2. /\ awaiting[g] # 0 /\ Refuse({g})
      /\ states' = [h \in Gateways |-> IF h \in WentQuiet({g}) THEN "stopped" ELSE states[h]]
      /\ UNCHANGED <<child, sent, lanes, serving, reports>>
  BY DEF GiveUp, childVars
<1>3. /\ awaiting'[g] = 0
      /\ phase[g] = "restart-stopping" => phase'[g] = "restart-between" /\ asked'[g] = asked[g]
      /\ phase[g] # "restart-stopping" => phase'[g] = "idle" /\ last'[g].outcome = "refused"
      /\ \A h \in Gateways \ {g} :
            /\ awaiting'[h] = awaiting[h] /\ phase'[h] = phase[h]
            /\ asked'[h] = asked[h] /\ last'[h] = last[h]
  BY <1>1, <1>2, RefusedTypes
<1>4. Fewer
  <2>1. \A h \in Gateways : awaiting'[h] # 0 => awaiting'[h] = awaiting[h] /\ phase'[h] = phase[h]
    BY <1>3
  <2>2. QED
    BY <1>1, <1>2, <2>1, SamePending DEF Fewer
<1>5. NumbersRise' /\ AwaitedFits' /\ \A h \in Gateways : Quiet(h) => Quiet(h)'
  BY <1>1, <1>4, FewerToCome DEF HostInv, TypeInv
<1>6. OnlyTheLivingServe'
  BY <1>2 DEF HostInv, OnlyTheLivingServe
<1>7. LastWordIsTrue'
  BY <1>1, <1>2, LastWordStands DEF HostInv
<1>8. RestartsClear'
  <2>1. ASSUME NEW h \in Gateways
        PROVE  /\ phase'[h] \in {"restart-stopping", "restart-between"} =>
                     phase[h] \in {"restart-stopping", "restart-between"}
               /\ phase'[h] = "restart-starting" =>
                     phase[h] = "restart-starting" /\ Current(h)' = Current(h)
    <3>1. CASE h = g
      BY <1>3, <3>1
    <3>2. CASE h # g
      BY <1>3, <3>2 DEF Current
    <3>3. QED
      BY <3>1, <3>2
  <2>2. QED
    BY <1>2, <2>1, RestartsStand DEF HostInv
<1>9. \A h \in Gateways : RestsWell(h)'
  <2>1. RestsWell(g)'
    BY <1>3, NoRest
  <2>2. ASSUME NEW h \in Gateways \ {g} PROVE RestsWell(h)'
    <3>1. states'[h] = states[h]
      BY <1>2, <2>2 DEF WentQuiet
    <3>2. phase'[h] = phase[h] /\ last'[h] = last[h] /\ serving' = serving /\ child' = child
      BY <1>2, <1>3
    <3>3. RestsWell(h) /\ (Quiet(h) => Quiet(h)')
      BY <1>5 DEF HostInv
    <3>4. QED
      BY <3>1, <3>2, <3>3, RestStands
  <2>3. QED
    BY <2>1, <2>2
<1>10. QED
  BY <1>1, <1>5, <1>6, <1>7, <1>8, <1>9 DEF HostInv

LEMMA ForgetKeeps ==
  ASSUME HostInv, NEW g \in Gateways, Forget(g)
  PROVE  HostInv'
<1>1. TypeInv /\ TypeInv' /\ TypeOK
  BY ForgetTypes DEF HostInv, TypeInv
<1>2. /\ UNCHANGED <<asked, phase, awaiting, child, sent, lanes, serving, reports, last>>
      /\ states' = [states EXCEPT ![g] = "absent"]
  BY DEF Forget, childVars
<1>3. Fewer
  BY <1>1, <1>2, SamePending DEF Fewer
<1>4. NumbersRise' /\ AwaitedFits' /\ \A h \in Gateways : Quiet(h) => Quiet(h)'
  BY <1>1, <1>3, FewerToCome DEF HostInv, TypeInv
<1>5. OnlyTheLivingServe'
  BY <1>2 DEF HostInv, OnlyTheLivingServe
<1>6. LastWordIsTrue'
  BY <1>1, <1>2, LastWordStands DEF HostInv
<1>7. RestartsClear'
  BY <1>2 DEF HostInv, RestartsClear, Current
<1>8. \A h \in Gateways : RestsWell(h)'
  <2>1. ASSUME NEW h \in Gateways PROVE RestsWell(h)'
    <3>1. states'[h] = states[h] \/ states'[h] = "absent"
      BY <1>1, <1>2 DEF TypeOK
    <3>2. RestsWell(h) /\ (Quiet(h) => Quiet(h)')
      BY <1>4 DEF HostInv
    <3>3. QED
      BY <1>2, <3>1, <3>2 DEF RestsWell, Resting
  <2>2. QED
    BY <2>1
<1>9. QED
  BY <1>1, <1>4, <1>5, <1>6, <1>7, <1>8 DEF HostInv

LEMMA HearExitKeeps ==
  ASSUME HostInv, HearExit
  PROVE  HostInv'
<1> DEFINE waiting == {g \in Gateways : awaiting[g] # 0}
<1>1. TypeInv /\ TypeInv' /\ TypeOK
  BY HearExitTypes DEF HostInv, TypeInv
<1>2. /\ child = "dead" /\ child' = "none" /\ Refuse(waiting)
      /\ \A g \in Gateways : states'[g] \in {"absent", "stopped"}
      /\ reports' = <<>> /\ UNCHANGED <<sent, lanes, serving>>
  BY DEF HearExit
<1>3. \A g \in Gateways : lanes[g] = <<>> /\ serving[g] = 0
  BY <1>2 DEF HostInv, OnlyTheLivingServe
<1>4. /\ \A g \in waiting :
            /\ awaiting'[g] = 0
            /\ phase[g] = "restart-stopping" => phase'[g] = "restart-between" /\ asked'[g] = asked[g]
            /\ phase[g] # "restart-stopping" => phase'[g] = "idle" /\ last'[g].outcome = "refused"
      /\ \A g \in Gateways \ waiting :
            /\ awaiting'[g] = awaiting[g] /\ phase'[g] = phase[g]
            /\ asked'[g] = asked[g] /\ last'[g] = last[g]
  BY <1>1, <1>2, RefusedTypes
<1>5. Fewer
  <2>1. \A g \in Gateways : awaiting'[g] # 0 => awaiting'[g] = awaiting[g] /\ phase'[g] = phase[g]
    BY <1>4
  <2>2. SaidFewer
    <3>1. Len(reports) \in Nat /\ Len(reports') = 0
      BY <1>1, <1>2, ToCome
    <3>2. Len(reports') + 0 <= Len(reports) /\ \A i \in 1..Len(reports') : reports'[i] = reports[i + 0]
      BY <3>1
    <3>3. QED
      BY <3>2 DEF SaidFewer
  <2>3. \A g \in Gateways : OwedFewer(g)
    BY <1>1, <1>2, <1>3, NoneOwed
  <2>4. QED
    BY <1>2, <2>1, <2>2, <2>3 DEF Fewer
<1>6. NumbersRise' /\ AwaitedFits' /\ \A g \in Gateways : Quiet(g) => Quiet(g)'
  BY <1>1, <1>5, FewerToCome DEF HostInv, TypeInv
<1>7. OnlyTheLivingServe'
  BY <1>2, <1>3 DEF OnlyTheLivingServe
<1>8. LastWordIsTrue'
  BY <1>2 DEF LastWordIsTrue
<1>9. RestartsClear'
  BY <1>2, <1>3, NothingServed DEF RestartsClear
<1>10. \A g \in Gateways : RestsWell(g)'
  <2>1. ASSUME NEW g \in Gateways PROVE RestsWell(g)'
    <3>1. CASE g \in waiting
      BY <1>4, <3>1, NoRest
    <3>2. CASE g \notin waiting
      <4>1. phase'[g] = phase[g] /\ last'[g] = last[g]
        BY <1>4, <3>2
      <4>2. RestsWell(g) /\ (Quiet(g) => Quiet(g)')
        BY <1>6 DEF HostInv
      <4>3. serving'[g] = 0 /\ states'[g] # "running"
        BY <1>2, <1>3
      <4>4. QED
        BY <4>1, <4>2, <4>3 DEF RestsWell, Resting
    <3>3. QED
      BY <3>1, <3>2
  <2>2. QED
    BY <2>1
<1>11. QED
  BY <1>1, <1>6, <1>7, <1>8, <1>9, <1>10 DEF HostInv

(* Whichever way the child disposes of a lane's first directive.           *)
LEMMA FirstTaken ==
  ASSUME NEW lane \in Seq(Directive), lane # <<>>, NEW stood, NEW served, NEW after, NEW version,
         ClearFor(stood, lane, served, version),
         lane[1].kind = "stop" => after = 0,
         lane[1].kind = "start" /\ served = 0 => after \in {0, lane[1].version}
  PROVE  ClearFor(stood, Tail(lane), after, version)
<1> DEFINE rest == Tail(lane)
           n == Len(lane)
<1>1. /\ n \in Nat \ {0} /\ Len(rest) = n - 1
      /\ \A k \in 1..(n - 1) : rest[k] = lane[k + 1]
  BY TakenFirst
<1> HIDE DEF rest, n
<1>2. \A m \in 1..n : Cleared(lane, served, m) => Cleared(rest, after, m - 1)
  <2>1. ASSUME NEW m \in 1..n, Cleared(lane, served, m) PROVE Cleared(rest, after, m - 1)
    <3>1. lane[m].kind = "stop" /\ m # 0
      BY <1>1, <2>1 DEF Cleared
    <3>2. CASE m = 1
      BY <3>1, <3>2 DEF Cleared
    <3>3. CASE m # 1
      <4>1. m - 1 \in 1..(n - 1) /\ (m - 1) + 1 = m
        BY <1>1, <3>3
      <4>2. rest[m - 1] = lane[m]
        BY <1>1, <4>1
      <4>3. QED
        BY <3>1, <4>1, <4>2 DEF Cleared
    <3>4. QED
      BY <3>2, <3>3
  <2>2. QED
    BY <2>1
<1>3. ASSUME stood \in {"restart-stopping", "restart-between"} PROVE Cleared(rest, after, n - 1)
  BY <1>1, <1>2, <1>3 DEF ClearFor, n
<1>4. ASSUME stood = "restart-starting"
      PROVE  IF n - 1 = 0 THEN after \in {0, version}
             ELSE /\ Cleared(rest, after, n - 2)
                  /\ rest[n - 1].kind = "start" /\ rest[n - 1].version = version
  <2>1. Cleared(lane, served, n - 1) /\ lane[n].kind = "start" /\ lane[n].version = version
    BY <1>1, <1>4 DEF ClearFor, n
  <2>2. CASE n = 1
    BY <2>1, <2>2 DEF Cleared
  <2>3. CASE n # 1
    <3>1. n - 1 \in 1..n /\ n - 1 \in 1..(n - 1) /\ (n - 1) - 1 = n - 2 /\ (n - 1) + 1 = n
      BY <1>1, <2>3
    <3>2. Cleared(rest, after, n - 2)
      BY <1>2, <2>1, <3>1
    <3>3. rest[n - 1] = lane[n]
      BY <1>1, <3>1
    <3>4. QED
      BY <2>1, <3>1, <3>2, <3>3
  <2>4. QED
    BY <2>2, <2>3
<1>5. (n - 1) - 1 = n - 2
  BY <1>1
<1>6. ClearFor(stood, rest, after, version)
  BY <1>1, <1>3, <1>4, <1>5 DEF ClearFor
<1>7. QED
  BY <1>6 DEF rest

LEMMA AnswerKeeps ==
  ASSUME HostInv, NEW g \in Gateways, ChildAnswers(g)
  PROVE  HostInv'
<1>1. TypeInv /\ TypeInv' /\ TypeOK
  BY AnswerTypes DEF HostInv, TypeInv
<1>2. NumbersRise' /\ AwaitedFits' /\ LastWordIsTrue' /\ \A h \in Gateways \ {g} : Quiet(h) => Quiet(h)'
  BY AnsweredToCome DEF HostInv
<1>3. /\ UNCHANGED <<states, asked, phase, awaiting, child, sent, last>> /\ child = "up"
      /\ lanes' = [lanes EXCEPT ![g] = Tail(lanes[g])]
      /\ lanes[g] # <<>> /\ lanes[g] \in Seq(Directive)
  BY <1>1 DEF ChildAnswers, hostVars, boundVars, TypeOK
<1>4. PICK r \in Report :
         /\ \A h \in Gateways \ {g} : serving'[h] = serving[h]
         /\ r.state = "running" <=> serving'[g] # 0
         /\ lanes[g][1].kind = "stop" => r.state = "stopped"
         /\ lanes[g][1].kind = "start" /\ serving[g] = 0 => serving'[g] \in {0, lanes[g][1].version}
  BY <1>1, Answered
<1>5. OnlyTheLivingServe'
  BY <1>3 DEF OnlyTheLivingServe
<1>6. RestartsClear'
  <2>1. ASSUME NEW h \in Gateways
        PROVE  ClearFor(phase'[h], lanes'[h], serving'[h], Current(h)'.version)
    <3>1. phase'[h] = phase[h] /\ Current(h)' = Current(h)
      BY <1>3 DEF Current
    <3>2. ClearFor(phase[h], lanes[h], serving[h], Current(h).version)
      BY DEF HostInv, RestartsClear
    <3>3. CASE h # g
      BY <1>1, <1>3, <1>4, <3>1, <3>2, <3>3 DEF TypeOK
    <3>4. CASE h = g
      <4>1. lanes'[g] = Tail(lanes[g])
        BY <1>1, <1>3 DEF TypeOK
      <4>2. lanes[g][1].kind = "stop" => serving'[g] = 0
        BY <1>4
      <4>3. lanes[g][1].kind = "start" /\ serving[g] = 0 => serving'[g] \in {0, lanes[g][1].version}
        BY <1>4
      <4>4. ClearFor(phase[g], Tail(lanes[g]), serving'[g], Current(g).version)
        BY <1>3, <3>2, <3>4, <4>2, <4>3, FirstTaken
      <4>5. QED
        BY <3>1, <3>4, <4>1, <4>4
    <3>5. QED
      BY <3>3, <3>4
  <2>2. QED
    BY <2>1 DEF RestartsClear
<1>7. \A h \in Gateways : RestsWell(h)'
  <2>1. RestsWell(g)'
    BY <1>3 DEF HostInv, RestsWell, Resting, Quiet
  <2>2. ASSUME NEW h \in Gateways \ {g} PROVE RestsWell(h)'
    BY <1>2, <1>3, <1>4, RestStands DEF HostInv
  <2>3. QED
    BY <2>1, <2>2
<1>8. QED
  BY <1>1, <1>2, <1>5, <1>6, <1>7 DEF HostInv

LEMMA SilenceKeeps ==
  ASSUME HostInv, NEW g \in Gateways, ChildSaysNothing(g)
  PROVE  HostInv'
<1>1. TypeInv /\ TypeInv' /\ TypeOK
  BY SilenceTypes DEF HostInv, TypeInv
<1>2. /\ UNCHANGED <<states, asked, phase, awaiting, child, sent, last, serving, reports>>
      /\ child = "up" /\ lanes' = [lanes EXCEPT ![g] = Tail(lanes[g])]
      /\ lanes[g] # <<>> /\ lanes[g] \in Seq(Directive) /\ lanes[g][1].kind = "start"
  <2>1. lanes[g] # <<>> /\ Head(lanes[g]).kind = "start"
    BY DEF ChildSaysNothing
  <2>2. lanes[g][1].kind = "start"
    BY <1>1, <2>1, Owed
  <2>3. QED
    BY <1>1, <2>1, <2>2 DEF ChildSaysNothing, hostVars, boundVars, TypeOK
<1>3. /\ lanes'[g] = Tail(lanes[g])
      /\ \A h \in Gateways \ {g} : lanes'[h] = lanes[h]
  BY <1>1, <1>2 DEF TypeOK
<1>4. Fewer
  <2>1. SaidFewer
    <3>1. Len(reports') + 0 <= Len(reports) /\ \A i \in 1..Len(reports') : reports'[i] = reports[i + 0]
      BY <1>1, <1>2, ToCome
    <3>2. QED
      BY <3>1 DEF SaidFewer
  <2>2. ASSUME NEW h \in Gateways PROVE OwedFewer(h)
    <3>1. CASE h = g
      <4>1. /\ Len(Tail(lanes[g])) + 1 <= Len(lanes[g])
            /\ \A k \in 1..Len(Tail(lanes[g])) : Tail(lanes[g])[k] = lanes[g][k + 1]
        BY <1>1, <1>2, Owed
      <4>2. /\ Len(lanes'[g]) + 1 <= Len(lanes[g])
            /\ \A k \in 1..Len(lanes'[g]) : lanes'[g][k] = lanes[g][k + 1]
        BY <1>3, <4>1
      <4>3. QED
        BY <3>1, <4>2 DEF OwedFewer
    <3>2. CASE h # g
      <4>1. /\ Len(lanes'[h]) + 0 <= Len(lanes[h])
            /\ \A k \in 1..Len(lanes'[h]) : lanes'[h][k] = lanes[h][k + 0]
        BY <1>1, <1>3, <3>2, ToCome
      <4>2. QED
        BY <4>1 DEF OwedFewer
    <3>3. QED
      BY <3>1, <3>2
  <2>3. QED
    BY <1>2, <2>1, <2>2 DEF Fewer
<1>5. NumbersRise' /\ AwaitedFits' /\ \A h \in Gateways : Quiet(h) => Quiet(h)'
  BY <1>1, <1>4, FewerToCome DEF HostInv, TypeInv
<1>6. OnlyTheLivingServe'
  BY <1>2 DEF OnlyTheLivingServe
<1>7. LastWordIsTrue'
  BY <1>1, <1>2, LastWordStands DEF HostInv
<1>8. RestartsClear'
  <2>1. ASSUME NEW h \in Gateways
        PROVE  ClearFor(phase'[h], lanes'[h], serving'[h], Current(h)'.version)
    <3>1. phase'[h] = phase[h] /\ Current(h)' = Current(h) /\ serving'[h] = serving[h]
      BY <1>2 DEF Current
    <3>2. ClearFor(phase[h], lanes[h], serving[h], Current(h).version)
      BY DEF HostInv, RestartsClear
    <3>3. CASE h # g
      BY <1>3, <3>1, <3>2, <3>3
    <3>4. CASE h = g
      <4>1. ClearFor(phase[g], Tail(lanes[g]), serving[g], Current(g).version)
        BY <1>2, <3>2, <3>4, FirstTaken
      <4>2. QED
        BY <1>3, <3>1, <3>4, <4>1
    <3>5. QED
      BY <3>3, <3>4
  <2>2. QED
    BY <2>1 DEF RestartsClear
<1>9. \A h \in Gateways : RestsWell(h)'
  BY <1>2, <1>5, RestStands DEF HostInv
<1>10. QED
  BY <1>1, <1>5, <1>6, <1>7, <1>8, <1>9 DEF HostInv

LEMMA DieKeeps ==
  ASSUME HostInv, Die
  PROVE  HostInv'
<1>1. TypeInv /\ TypeInv' /\ TypeOK
  BY DieTypes DEF HostInv, TypeInv
<1>2. /\ child = "up" /\ child' = "dead" /\ UNCHANGED <<states, asked, phase, awaiting, sent, last>>
      /\ \A g \in Gateways : lanes'[g] = <<>> /\ serving'[g] = 0
  BY DEF Die
<1>3. PICK heard \in 0..Len(reports) : reports' = SubSeq(reports, 1, heard)
  BY DEF Die
<1>4. Fewer
  <2>1. SaidFewer
    <3>1. Len(reports') + 0 <= Len(reports) /\ \A i \in 1..Len(reports') : reports'[i] = reports[i + 0]
      BY <1>1, <1>3, Outlived
    <3>2. QED
      BY <3>1 DEF SaidFewer
  <2>2. QED
    BY <1>1, <1>2, <2>1, NoneOwed DEF Fewer
<1>5. NumbersRise' /\ AwaitedFits' /\ \A g \in Gateways : Quiet(g) => Quiet(g)'
  BY <1>1, <1>4, FewerToCome DEF HostInv, TypeInv
<1>6. OnlyTheLivingServe'
  BY <1>2 DEF OnlyTheLivingServe
<1>7. LastWordIsTrue'
  BY <1>2 DEF LastWordIsTrue
<1>8. RestartsClear'
  BY <1>2, NothingServed DEF RestartsClear
<1>9. \A g \in Gateways : RestsWell(g)'
  BY <1>2, <1>5 DEF HostInv, RestsWell, Resting
<1>10. QED
  BY <1>1, <1>5, <1>6, <1>7, <1>8, <1>9 DEF HostInv

LEMMA InitHost == Init => HostInv
<1>1. SUFFICES ASSUME Init PROVE HostInv
  OBVIOUS
<1>2. /\ awaiting = [g \in Gateways |-> 0] /\ sent = 0 /\ child = "none" /\ reports = <<>>
      /\ lanes = [g \in Gateways |-> <<>>] /\ serving = [g \in Gateways |-> 0]
      /\ phase = [g \in Gateways |-> "idle"] /\ last = [g \in Gateways |-> NeverAsked]
      /\ states \in [Gateways -> {"absent", "stopped"}]
  BY <1>1 DEF Init
<1>3. Len(reports) = 0 /\ \A g \in Gateways : Len(lanes[g]) = 0 /\ lanes[g] = <<>>
  BY <1>2
<1>4. NumbersRise /\ AwaitedFits /\ LastWordIsTrue
  BY <1>2, <1>3 DEF NumbersRise, SaidInTurn, OwedInTurn, AwaitedFits, LastWordIsTrue
<1>5. OnlyTheLivingServe /\ RestartsClear
  BY <1>2, <1>3, NothingServed DEF OnlyTheLivingServe, RestartsClear
<1>6. \A g \in Gateways : RestsWell(g)
  BY <1>2, <1>3 DEF RestsWell, Resting, Quiet, NeverAsked
<1>7. QED
  BY <1>1, <1>4, <1>5, <1>6, InitTypes DEF HostInv

LEMMA StepKeeps == HostInv /\ [Next]_vars => HostInv'
<1>1. SUFFICES ASSUME HostInv, [Next]_vars PROVE HostInv'
  OBVIOUS
<1>2. CASE UNCHANGED vars
  <2>1. UNCHANGED <<states, asked, phase, awaiting, child, sent, lanes, serving, reports, last>>
    BY <1>2 DEF vars, hostVars, childVars, boundVars
  <2>2. TypeInv'
    BY <1>1, StepTypes DEF HostInv
  <2>3. OnlyTheLivingServe' /\ NumbersRise' /\ LastWordIsTrue' /\ AwaitedFits' /\ RestartsClear'
    BY <1>1, <2>1 DEF HostInv, OnlyTheLivingServe, NumbersRise, SaidInTurn, OwedInTurn,
                      LastWordIsTrue, AwaitedFits, RestartsClear, Current
  <2>4. \A g \in Gateways : RestsWell(g)'
    BY <1>1, <2>1 DEF HostInv, RestsWell, Resting, Quiet
  <2>5. QED
    BY <2>2, <2>3, <2>4 DEF HostInv
<1>3. CASE \E g \in Gateways, act \in Acts, version \in Versions : Ask(g, act, version)
  BY <1>1, <1>3, AskKeeps
<1>4. CASE HostSteps
  BY <1>1, <1>4, BeginKeeps, StandKeeps, HearKeeps, DropKeeps, GiveUpKeeps, ForgetKeeps,
     HearExitKeeps DEF HostSteps
<1>5. CASE ChildSteps
  BY <1>1, <1>5, AnswerKeeps, SilenceKeeps, DieKeeps DEF ChildSteps
<1>6. QED
  BY <1>1, <1>2, <1>3, <1>4, <1>5 DEF Next

LEMMA AlwaysHeld == Spec => []HostInv
BY InitHost, StepKeeps, PTL DEF Spec

(* Once the last act asked of a gateway was answered, no window calls down *)
(* what serves, and nothing but a restart whose port was taken leaves a    *)
(* window calling up what does not.                                        *)
THEOREM WindowsAreTold == Spec => []WindowsShowWhatServes
<1>1. HostInv => WindowsShowWhatServes
  BY DEF HostInv, RestsWell, WindowsShowWhatServes, ServedIsShown, OnlyRefusedRestartsHide
<1>2. QED
  BY <1>1, AlwaysHeld, PTL

(* Where no port is ever taken, no window calls up what does not serve.    *)
THEOREM WithPortsFreeShownIsServed ==
  ASSUME ~PortsMayBeTaken
  PROVE  Spec => []ShownIsServed
<1>1. HostInv => ShownIsServed
  BY DEF HostInv, RestsWell, ShownIsServed
<1>2. QED
  BY <1>1, AlwaysHeld, PTL

(* A restart that was answered left its own snapshot serving, whichever of *)
(* its two directives was lost.                                            *)
THEOREM RestartsServeTheirOwn == Spec => []RestartsServeTheirSnapshot
<1>1. HostInv => RestartsServeTheirSnapshot
  BY DEF HostInv, RestsWell, RestartsServeTheirSnapshot
<1>2. QED
  BY <1>1, AlwaysHeld, PTL

-----------------------------------------------------------------------------
(* The looks.                                                              *)

(* A look waits on the child the host holds, and while it holds none nobody   *)
(* waits: with that, the child spawned for the next look finds no desk of     *)
(* another's.                                                              *)
LooksTyped ==
    /\ answer \in [Looks -> {"unasked", "waiting", "given", "folded"}]
    /\ askedOf \in [Looks -> Nat]
    /\ engine \in Nat /\ spawned \in Nat

LooksInv ==
    /\ LooksTyped
    /\ Looking!DesksHoldWhoWaits
    /\ Looking!NobodyWaitsOnTheGone
    /\ engine = 0 => desk = {}

(* A look that starts to wait, on the child just spawned or on the one held. *)
LEMMA WaitingKeeps ==
  ASSUME LooksInv, NEW l \in Looks, answer[l] = "unasked",
         NEW c \in Nat \ {0}, Looking!WaitsOnTheChild(l, c), engine' = c, spawned' \in Nat,
         engine = c \/ engine = 0
  PROVE  LooksInv'
<1>1. /\ desk' = desk \cup {l} /\ timers' = timers \cup {l}
      /\ askedOf' = [askedOf EXCEPT ![l] = c] /\ answer' = [answer EXCEPT ![l] = "waiting"]
  BY DEF Looking!WaitsOnTheChild
<1>2. LooksTyped'
  BY <1>1 DEF LooksInv, LooksTyped
<1>3. Looking!DesksHoldWhoWaits'
  <2>1. \A m \in Looks : answer'[m] = IF m = l THEN "waiting" ELSE answer[m]
    BY <1>1 DEF LooksInv, LooksTyped
  <2>2. QED
    BY <1>1, <2>1 DEF LooksInv, Looking!DesksHoldWhoWaits
<1>4. Looking!NobodyWaitsOnTheGone'
  <2>1. SUFFICES ASSUME NEW m \in desk' PROVE askedOf'[m] = c
    BY DEF Looking!NobodyWaitsOnTheGone
  <2>2. m \in Looks /\ (m # l => m \in desk)
    BY <1>1 DEF LooksInv, Looking!DesksHoldWhoWaits
  <2>3. askedOf'[m] = IF m = l THEN c ELSE askedOf[m]
    BY <1>1, <2>2 DEF LooksInv, LooksTyped
  <2>4. m # l => askedOf[m] = engine /\ engine = c
    BY <2>2 DEF LooksInv, Looking!NobodyWaitsOnTheGone
  <2>5. QED
    BY <2>3, <2>4
<1>5. QED
  BY <1>2, <1>3, <1>4 DEF LooksInv

(* A look that stops to wait, answered or given up on.                      *)
LEMMA LeavingKeeps ==
  ASSUME LooksInv, NEW l \in desk, NEW how \in {"given", "folded"},
         desk' = desk \ {l}, timers' = timers \ {l}, answer' = [answer EXCEPT ![l] = how],
         UNCHANGED <<engine, spawned, askedOf>>
  PROVE  LooksInv'
<1>1. l \in Looks
  BY DEF LooksInv, Looking!DesksHoldWhoWaits
<1>2. LooksTyped'
  BY DEF LooksInv, LooksTyped
<1>3. Looking!DesksHoldWhoWaits'
  <2>1. \A m \in Looks : answer'[m] = IF m = l THEN how ELSE answer[m]
    BY <1>1 DEF LooksInv, LooksTyped
  <2>2. QED
    BY <2>1 DEF LooksInv, Looking!DesksHoldWhoWaits
<1>4. Looking!NobodyWaitsOnTheGone' /\ (engine' = 0 => desk' = {})
  BY DEF LooksInv, Looking!NobodyWaitsOnTheGone
<1>5. QED
  BY <1>2, <1>3, <1>4 DEF LooksInv

LEMMA LookStepsKeep ==
  ASSUME LooksInv, [Looking!Next]_(Looking!vars)
  PROVE  LooksInv'
<1>1. ASSUME NEW l \in Looks, Looking!CannotSpawn(l)
      PROVE  LooksInv'
  <2>1. /\ answer[l] = "unasked" /\ answer' = [answer EXCEPT ![l] = "folded"]
        /\ UNCHANGED <<engine, spawned, desk, timers, askedOf>>
    BY <1>1 DEF Looking!CannotSpawn
  <2>2. LooksTyped'
    BY <2>1 DEF LooksInv, LooksTyped
  <2>3. \A m \in Looks : answer'[m] = IF m = l THEN "folded" ELSE answer[m]
    BY <2>1 DEF LooksInv, LooksTyped
  <2>4. Looking!DesksHoldWhoWaits'
    BY <2>1, <2>3 DEF LooksInv, Looking!DesksHoldWhoWaits
  <2>5. QED
    BY <2>1, <2>2, <2>4 DEF LooksInv, Looking!NobodyWaitsOnTheGone
<1>2. ASSUME NEW l \in Looks, Looking!Spawns(l)
      PROVE  LooksInv'
  <2>1. /\ answer[l] = "unasked" /\ engine = 0 /\ engine' = spawned + 1 /\ spawned' = spawned + 1
        /\ Looking!WaitsOnTheChild(l, spawned + 1)
    BY <1>2 DEF Looking!Spawns
  <2>2. spawned + 1 \in Nat \ {0}
    BY DEF LooksInv, LooksTyped
  <2>3. QED
    BY <2>1, <2>2, WaitingKeeps
<1>3. ASSUME NEW l \in Looks, Looking!Asks(l)
      PROVE  LooksInv'
  <2>1. /\ answer[l] = "unasked" /\ engine' = engine /\ spawned' = spawned
        /\ Looking!WaitsOnTheChild(l, engine)
        /\ engine \in Nat \ {0} /\ spawned' \in Nat
    BY <1>3 DEF Looking!Asks, LooksInv, LooksTyped
  <2>2. QED
    BY <2>1, WaitingKeeps
<1>4. ASSUME NEW l \in Looks, Looking!AnswerWaiting(l)
      PROVE  LooksInv'
  <2>1. CASE l \in desk
    BY <1>4, <2>1, LeavingKeeps DEF Looking!AnswerWaiting
  <2>2. CASE l \notin desk
    BY <1>4, <2>2 DEF Looking!AnswerWaiting, LooksInv, LooksTyped, Looking!DesksHoldWhoWaits,
                      Looking!NobodyWaitsOnTheGone
  <2>3. QED
    BY <2>1, <2>2
<1>5. ASSUME NEW l \in Looks, Looking!GivesUp(l)
      PROVE  LooksInv'
  <2>1. l \in desk
    BY <1>5 DEF Looking!GivesUp, LooksInv, Looking!DesksHoldWhoWaits
  <2>2. QED
    BY <1>5, <2>1, LeavingKeeps DEF Looking!GivesUp
<1>6. CASE Looking!HearsExit
  <2>1. /\ engine' = 0 /\ desk' = {} /\ timers' = {}
        /\ answer' = [l \in Looks |-> IF l \in desk THEN "folded" ELSE answer[l]]
        /\ UNCHANGED <<spawned, askedOf>>
    BY <1>6 DEF Looking!HearsExit, LooksInv, Looking!DesksHoldWhoWaits
  <2>2. LooksTyped'
    BY <2>1 DEF LooksInv, LooksTyped
  <2>3. \A l \in Looks : answer'[l] # "waiting"
    BY <2>1 DEF LooksInv, Looking!DesksHoldWhoWaits
  <2>4. Looking!DesksHoldWhoWaits'
    BY <2>1, <2>3 DEF Looking!DesksHoldWhoWaits
  <2>5. QED
    BY <2>1, <2>2, <2>4 DEF LooksInv, Looking!NobodyWaitsOnTheGone
<1>7. CASE \/ \E l \in Looks : Looking!Says(l) \/ Looking!SaysNothing(l)
           \/ Looking!Dies \/ UNCHANGED Looking!vars
  <2>1. UNCHANGED <<engine, spawned, desk, timers, askedOf, answer>>
    BY <1>7 DEF Looking!Says, Looking!SaysNothing, Looking!Dies, Looking!vars
  <2>2. QED
    BY <2>1 DEF LooksInv, LooksTyped, Looking!DesksHoldWhoWaits, Looking!NobodyWaitsOnTheGone
<1>8. QED
  BY <1>1, <1>2, <1>3, <1>4, <1>5, <1>6, <1>7 DEF Looking!Next

LEMMA AlwaysLooking == Looking!Spec => []LooksInv
<1>1. Looking!Init => LooksInv
  BY DEF Looking!Init, LooksInv, LooksTyped, Looking!DesksHoldWhoWaits,
         Looking!NobodyWaitsOnTheGone
<1>2. LooksInv /\ [Looking!Next]_(Looking!vars) => LooksInv'
  BY LookStepsKeep
<1>3. QED
  BY <1>1, <1>2, PTL DEF Looking!Spec

(* The desks hold just the looks still waited on, each with its bound        *)
(* running, and each waits on the child the host holds: no exit of a child    *)
(* leaves anybody waiting on it.                                           *)
THEOREM LooksWaitOnTheLiving ==
  Looking!Spec => [](Looking!DesksHoldWhoWaits /\ Looking!NobodyWaitsOnTheGone)
<1>1. LooksInv => Looking!DesksHoldWhoWaits /\ Looking!NobodyWaitsOnTheGone
  BY DEF LooksInv
<1>2. QED
  BY <1>1, AlwaysLooking, PTL

(* A look is answered once: what an exit folded, or a bound, no late answer   *)
(* of a child changes.                                                     *)
THEOREM LooksAreAnsweredOnce == Looking!Spec => Looking!AnswersStand
<1> DEFINE Stands == \A l \in Looks : answer[l] \in {"given", "folded"} => answer'[l] = answer[l]
<1>1. LooksInv /\ [Looking!Next]_(Looking!vars) => Stands \/ UNCHANGED Looking!vars
  <2> SUFFICES ASSUME LooksInv, [Looking!Next]_(Looking!vars),
                      NEW l \in Looks, answer[l] \in {"given", "folded"}
               PROVE  answer'[l] = answer[l]
    OBVIOUS
  <2>1. l \notin desk /\ l \notin timers /\ answer \in [Looks -> {"unasked", "waiting", "given", "folded"}]
    BY DEF LooksInv, LooksTyped, Looking!DesksHoldWhoWaits
  <2>3. ASSUME NEW m \in Looks,
               Looking!CannotSpawn(m) \/ Looking!Spawns(m) \/ Looking!Asks(m)
        PROVE  answer'[l] = answer[l]
    BY <2>1, <2>3 DEF Looking!CannotSpawn, Looking!Spawns, Looking!Asks, Looking!WaitsOnTheChild
  <2>4. ASSUME NEW m \in Looks, Looking!AnswerWaiting(m) \/ Looking!GivesUp(m)
        PROVE  answer'[l] = answer[l]
    BY <2>1, <2>4 DEF Looking!AnswerWaiting, Looking!GivesUp
  <2>5. CASE Looking!HearsExit
    BY <2>1, <2>5 DEF Looking!HearsExit
  <2>6. CASE \/ \E m \in Looks : Looking!Says(m) \/ Looking!SaysNothing(m)
             \/ Looking!Dies \/ UNCHANGED Looking!vars
    BY <2>6 DEF Looking!Says, Looking!SaysNothing, Looking!Dies, Looking!vars
  <2>7. QED
    BY <2>3, <2>4, <2>5, <2>6 DEF Looking!Next
<1>2. QED
  BY <1>1, AlwaysLooking, PTL DEF Looking!Spec, Looking!AnswersStand

-----------------------------------------------------------------------------
(* The usage ledger, for every set of rows, any number of standing flushes,  *)
(* refused writes and ends of the process.                                 *)

(* One flush works at a time, and none outlives the process.               *)
OneAtWork ==
    /\ \A n \in 1..Len(flushes) : flushes[n].at # "asked" => n = 1
    /\ up = "down" => flushes = <<>>

(* What a write carries: nothing memory lacks, everything the disk had, and  *)
(* the whole of memory while no row settled behind it.                     *)
CarriesEnough(flush) ==
    /\ flush.covered <= revision
    /\ flush.snapshot \subseteq memory
    /\ Kept(disk) \subseteq flush.snapshot
    /\ flush.covered = revision => Kept(memory) \subseteq flush.snapshot

WritesCarryEnough ==
    \A n \in 1..Len(flushes) : flushes[n].at = "writing" => CarriesEnough(flushes[n])

DiskIsHeld == up # "down" => Kept(disk) \subseteq memory

LedgerInv ==
    /\ LedgerTypeOK
    /\ OneAtWork
    /\ WritesCarryEnough
    /\ DiskIsHeld
    /\ NoSettledRowIsDropped
    /\ WrittenMeansOnDisk

LEMMA FlushTypes ==
  ASSUME LedgerTypeOK, NEW n \in 1..Len(flushes)
  PROVE  /\ flushes[n] \in Flush /\ flushes[n].covered \in Nat
         /\ flushes[n].snapshot \subseteq Rows
         /\ flushes[n].at \in {"asked", "aging", "writing"}
<1>1. flushes[n] \in Flush
  BY DEF LedgerTypeOK
<1>2. QED
  BY <1>1 DEF Flush

LEMMA OverType ==
  ASSUME LedgerTypeOK, InTurn(1), 1 \in 1..Len(flushes), Over(1)
  PROVE  /\ flushes' \in Seq(Flush)
         /\ \A m \in 1..Len(flushes') : m + 1 \in 1..Len(flushes) /\ flushes'[m] = flushes[m + 1]
<1>1. flushes' = [m \in 1..(Len(flushes) - 1) |-> flushes[m + 1]]
  BY DEF Over, LedgerTypeOK
<1>2. Len(flushes) \in Nat /\ \A m \in 1..(Len(flushes) - 1) : flushes[m + 1] \in Flush
  BY DEF LedgerTypeOK
<1>3. flushes' \in Seq(Flush) /\ Len(flushes') = Len(flushes) - 1
  BY <1>1, <1>2
<1>4. QED
  BY <1>1, <1>2, <1>3

(* Once the one at work is over nobody is.                                 *)
LEMMA OverLeavesNobodyAtWork ==
  ASSUME LedgerInv, 1 \in 1..Len(flushes), Over(1)
  PROVE  /\ flushes' \in Seq(Flush)
         /\ \A m \in 1..Len(flushes') : flushes'[m].at = "asked"
<1>1. /\ flushes' \in Seq(Flush)
      /\ \A m \in 1..Len(flushes') : m + 1 \in 1..Len(flushes) /\ flushes'[m] = flushes[m + 1]
  BY OverType DEF LedgerInv, InTurn
<1>2. Len(flushes') \in Nat
  BY <1>1
<1>3. \A m \in 1..Len(flushes') : m + 1 # 1
  BY <1>2
<1>4. QED
  BY <1>1, <1>3 DEF LedgerInv, OneAtWork

LEMMA LedgerInitIsGood == LedgerInit => LedgerInv
<1>1. SUFFICES ASSUME LedgerInit PROVE LedgerInv
  OBVIOUS
<1>2. LedgerTypeOK
  <2>1. quiet \in BOOLEAN /\ ceiling \in BOOLEAN
    BY <1>1, Zenon DEF LedgerInit
  <2>2. QED
    BY <1>1, <2>1, LedgerAssumption DEF LedgerInit, LedgerTypeOK
<1>3. OneAtWork /\ WritesCarryEnough /\ DiskIsHeld /\ NoSettledRowIsDropped /\ WrittenMeansOnDisk
  BY <1>1 DEF LedgerInit, OneAtWork, WritesCarryEnough, DiskIsHeld, NoSettledRowIsDropped,
              WrittenMeansOnDisk, Kept
<1>4. QED
  BY <1>2, <1>3 DEF LedgerInv

LEMMA AccrueKeeps ==
  ASSUME LedgerInv, NEW row \in Rows, Accrue(row)
  PROVE  LedgerInv'
<1>1. LedgerTypeOK'
  <2>1. (quiet \in BOOLEAN /\ ceiling \in BOOLEAN)'
    BY Zenon DEF Accrue, WatchForQuiet
  <2>2. QED
    BY <2>1 DEF LedgerInv, LedgerTypeOK, Accrue
<1>2. OneAtWork'
  BY DEF LedgerInv, OneAtWork, Accrue
<1>3. WritesCarryEnough'
  <2>1. SUFFICES ASSUME NEW n \in 1..Len(flushes), flushes[n].at = "writing"
                 PROVE  CarriesEnough(flushes[n])'
    BY DEF WritesCarryEnough, Accrue
  <2>2. CarriesEnough(flushes[n]) /\ flushes[n].covered \in Nat
    BY <2>1, FlushTypes DEF LedgerInv, WritesCarryEnough
  <2>3. revision \in Nat /\ revision' = revision + 1 /\ memory \subseteq memory'
    BY DEF LedgerInv, LedgerTypeOK, Accrue
  <2>4. flushes[n].covered <= revision' /\ flushes[n].covered # revision'
    BY <2>2, <2>3 DEF CarriesEnough
  <2>5. flushes[n].snapshot \subseteq memory'
    BY <2>2, <2>3 DEF CarriesEnough
  <2>6. Kept(disk)' \subseteq flushes[n].snapshot
    BY <2>2 DEF CarriesEnough, Kept, Accrue
  <2>7. flushes'[n] = flushes[n]
    BY DEF Accrue
  <2>8. QED
    BY <2>4, <2>5, <2>6, <2>7 DEF CarriesEnough
<1>4. DiskIsHeld' /\ NoSettledRowIsDropped'
  BY DEF LedgerInv, DiskIsHeld, NoSettledRowIsDropped, Kept, Accrue
<1>5. WrittenMeansOnDisk'
  <2>1. revision' # writtenRevision'
    BY DEF LedgerInv, LedgerTypeOK, Accrue
  <2>2. QED
    BY <2>1 DEF WrittenMeansOnDisk
<1>6. QED
  BY <1>1, <1>2, <1>3, <1>4, <1>5 DEF LedgerInv

LEMMA AgeKeeps ==
  ASSUME LedgerInv, NEW row \in Rows, Age(row)
  PROVE  LedgerInv'
<1>1. LedgerTypeOK'
  BY DEF LedgerInv, LedgerTypeOK, Age
<1>2. OneAtWork'
  BY DEF LedgerInv, OneAtWork, Age
<1>3. WritesCarryEnough' /\ DiskIsHeld' /\ NoSettledRowIsDropped' /\ WrittenMeansOnDisk'
  BY DEF LedgerInv, WritesCarryEnough, CarriesEnough, DiskIsHeld, NoSettledRowIsDropped,
         WrittenMeansOnDisk, Kept, Age
<1>4. QED
  BY <1>1, <1>2, <1>3 DEF LedgerInv

LEMMA AskFlushKeeps ==
  ASSUME LedgerInv, up # "down", AskFlush
  PROVE  LedgerInv'
<1>1. Asked \in Flush
  BY DEF Asked, Flush
<1>2. LedgerTypeOK'
  <2>1. (quiet \in BOOLEAN /\ ceiling \in BOOLEAN)'
    BY Zenon DEF AskFlush, StopWatching
  <2>2. QED
    BY <1>1, <2>1 DEF LedgerInv, LedgerTypeOK, AskFlush
<1>3. \A n \in 1..Len(flushes') :
          (n \in 1..Len(flushes) /\ flushes'[n] = flushes[n]) \/ flushes'[n].at = "asked"
  BY DEF LedgerInv, LedgerTypeOK, AskFlush, Asked
<1>4. OneAtWork'
  BY <1>3 DEF LedgerInv, OneAtWork, AskFlush
<1>5. WritesCarryEnough'
  BY <1>3 DEF LedgerInv, WritesCarryEnough, CarriesEnough, Kept, AskFlush
<1>6. DiskIsHeld' /\ NoSettledRowIsDropped' /\ WrittenMeansOnDisk'
  BY DEF LedgerInv, DiskIsHeld, NoSettledRowIsDropped, WrittenMeansOnDisk, Kept, AskFlush
<1>7. QED
  BY <1>2, <1>4, <1>5, <1>6 DEF LedgerInv

(* A flush that goes away and changes nothing else.                        *)
LEMMA OverKeeps ==
  ASSUME LedgerInv, 1 \in 1..Len(flushes), Over(1), refusals' \in 0..MaxRefusals,
         UNCHANGED <<up, memory, revision, writtenRevision, quiet, ceiling, disk, aged, settled, ends>>
  PROVE  LedgerInv'
<1>1. /\ flushes' \in Seq(Flush)
      /\ \A m \in 1..Len(flushes') : flushes'[m].at = "asked"
  BY OverLeavesNobodyAtWork
<1>2. LedgerTypeOK'
  BY <1>1 DEF LedgerInv, LedgerTypeOK
<1>3. up # "down"
  BY DEF LedgerInv, OneAtWork
<1>4. OneAtWork' /\ WritesCarryEnough'
  BY <1>1, <1>3 DEF OneAtWork, WritesCarryEnough
<1>5. DiskIsHeld' /\ NoSettledRowIsDropped' /\ WrittenMeansOnDisk'
  BY DEF LedgerInv, DiskIsHeld, NoSettledRowIsDropped, WrittenMeansOnDisk, Kept
<1>6. QED
  BY <1>2, <1>4, <1>5 DEF LedgerInv

LEMMA BeginFlushKeeps ==
  ASSUME LedgerInv, NEW n \in 1..Len(flushes), BeginFlush(n)
  PROVE  LedgerInv'
<1>1. n = 1 /\ 1 \in 1..Len(flushes)
  BY DEF BeginFlush, InTurn
<1>2. CASE Over(1)
  BY <1>1, <1>2, OverKeeps DEF BeginFlush, LedgerInv, LedgerTypeOK
<1>3. CASE flushes' = [flushes EXCEPT ![n].at = "aging"]
  <2>1. [flushes[n] EXCEPT !.at = "aging"] \in Flush
    BY <1>1, FlushTypes DEF LedgerInv, Flush
  <2>2. flushes' = [flushes EXCEPT ![n] = [flushes[n] EXCEPT !.at = "aging"]]
    BY <1>3
  <2>3. LedgerTypeOK'
    BY <2>1, <2>2 DEF LedgerInv, LedgerTypeOK, BeginFlush
  <2>4. /\ Len(flushes') = Len(flushes)
        /\ \A m \in 1..Len(flushes) : m # n => flushes'[m] = flushes[m]
        /\ flushes'[n].at = "aging"
    BY <2>1, <2>2, FlushTypes DEF LedgerInv, LedgerTypeOK, Flush
  <2>5. OneAtWork'
    BY <1>1, <2>4 DEF LedgerInv, OneAtWork, BeginFlush
  <2>6. WritesCarryEnough'
    BY <1>1, <2>4 DEF LedgerInv, WritesCarryEnough, CarriesEnough, Kept, BeginFlush
  <2>7. DiskIsHeld' /\ NoSettledRowIsDropped' /\ WrittenMeansOnDisk'
    BY DEF LedgerInv, DiskIsHeld, NoSettledRowIsDropped, WrittenMeansOnDisk, Kept, BeginFlush
  <2>8. QED
    BY <2>3, <2>5, <2>6, <2>7 DEF LedgerInv
<1>4. QED
  BY <1>1, <1>2, <1>3 DEF BeginFlush

LEMMA SnapshotKeeps ==
  ASSUME LedgerInv, NEW n \in 1..Len(flushes), Snapshot(n)
  PROVE  LedgerInv'
<1> DEFINE taken == [at |-> "writing", covered |-> revision, snapshot |-> Kept(memory)]
<1>1. n = 1 /\ flushes' = [flushes EXCEPT ![n] = taken]
  BY DEF Snapshot, InTurn
<1>2. taken \in Flush
  BY DEF LedgerInv, LedgerTypeOK, Flush, Kept
<1>3. LedgerTypeOK'
  BY <1>1, <1>2 DEF LedgerInv, LedgerTypeOK, Snapshot
<1>4. /\ Len(flushes') = Len(flushes)
      /\ \A m \in 1..Len(flushes) : m # n => flushes'[m] = flushes[m]
      /\ flushes'[n] = taken
  BY <1>1, <1>2 DEF LedgerInv, LedgerTypeOK
<1>5. up # "down"
  BY DEF LedgerInv, OneAtWork
<1>6. OneAtWork'
  BY <1>1, <1>4 DEF LedgerInv, OneAtWork, Snapshot
<1>7. CarriesEnough(taken)'
  BY <1>5 DEF LedgerInv, LedgerTypeOK, DiskIsHeld, CarriesEnough, Kept, Snapshot
<1>8. WritesCarryEnough'
  <2>1. SUFFICES ASSUME NEW m \in 1..Len(flushes'), flushes'[m].at = "writing"
                 PROVE  CarriesEnough(flushes[m])'
    BY DEF WritesCarryEnough
  <2>2. CASE m = n
    <3>1. taken' = taken
      BY DEF Snapshot, Kept
    <3>2. flushes'[m] = taken'
      BY <1>4, <2>2, <3>1
    <3>3. QED
      BY <1>7, <3>2 DEF CarriesEnough
  <2>3. CASE m # n
    <3>1. flushes'[m] = flushes[m] /\ flushes[m].at = "writing"
      BY <1>4, <2>1, <2>3
    <3>2. m = 1
      BY <1>4, <3>1 DEF LedgerInv, OneAtWork
    <3>3. QED
      BY <1>1, <2>3, <3>2
  <2>4. QED
    BY <2>2, <2>3
<1>9. DiskIsHeld' /\ NoSettledRowIsDropped' /\ WrittenMeansOnDisk'
  BY DEF LedgerInv, DiskIsHeld, NoSettledRowIsDropped, WrittenMeansOnDisk, Kept, Snapshot
<1>10. QED
  BY <1>3, <1>6, <1>8, <1>9 DEF LedgerInv

LEMMA RenameKeeps ==
  ASSUME LedgerInv, NEW n \in 1..Len(flushes), Rename(n)
  PROVE  LedgerInv'
<1> DEFINE flush == flushes[1]
<1>1. /\ n = 1 /\ 1 \in 1..Len(flushes) /\ Over(1)
      /\ flush.at = "writing"
      /\ disk' = flush.snapshot
      /\ writtenRevision' = flush.covered
      /\ memory' = IF revision = flush.covered THEN flush.snapshot ELSE memory
      /\ UNCHANGED <<up, revision, quiet, ceiling, aged, settled, refusals, ends>>
  BY DEF Rename, InTurn, Covered, NothingMoved
<1>2. CarriesEnough(flush) /\ flush.covered \in Nat /\ flush.snapshot \subseteq Rows
  BY <1>1, FlushTypes DEF LedgerInv, WritesCarryEnough
<1>3. /\ flushes' \in Seq(Flush)
      /\ \A m \in 1..Len(flushes') : flushes'[m].at = "asked"
  BY <1>1, OverLeavesNobodyAtWork
<1>4. up # "down"
  BY <1>1 DEF LedgerInv, OneAtWork
<1>5. LedgerTypeOK'
  <2>1. flush.covered \in 0..revision
    BY <1>2 DEF CarriesEnough, LedgerInv, LedgerTypeOK
  <2>2. QED
    BY <1>1, <1>2, <1>3, <2>1 DEF LedgerInv, LedgerTypeOK
<1>6. OneAtWork' /\ WritesCarryEnough'
  BY <1>1, <1>3, <1>4 DEF OneAtWork, WritesCarryEnough
<1>7. DiskIsHeld'
  BY <1>1, <1>2 DEF DiskIsHeld, Kept, CarriesEnough
<1>8. NoSettledRowIsDropped'
  BY <1>1, <1>2, <1>4 DEF LedgerInv, NoSettledRowIsDropped, Kept, CarriesEnough
<1>9. WrittenMeansOnDisk'
  BY <1>1, <1>2 DEF WrittenMeansOnDisk, Kept
<1>10. QED
  BY <1>5, <1>6, <1>7, <1>8, <1>9 DEF LedgerInv

LEMMA WriteRefusedKeeps ==
  ASSUME LedgerInv, NEW n \in 1..Len(flushes), WriteRefused(n)
  PROVE  LedgerInv'
<1>1. n = 1 /\ 1 \in 1..Len(flushes) /\ Over(1)
  BY DEF WriteRefused, InTurn
<1>2. refusals' \in 0..MaxRefusals
  BY LedgerAssumption DEF WriteRefused, LedgerInv, LedgerTypeOK
<1>3. QED
  BY <1>1, <1>2, OverKeeps DEF WriteRefused

LEMMA QuitKeeps ==
  ASSUME LedgerInv, Quit
  PROVE  LedgerInv'
<1>1. LedgerTypeOK' /\ OneAtWork'
  BY DEF LedgerInv, LedgerTypeOK, OneAtWork, Quit
<1>2. WritesCarryEnough' /\ DiskIsHeld' /\ NoSettledRowIsDropped' /\ WrittenMeansOnDisk'
  BY DEF LedgerInv, WritesCarryEnough, CarriesEnough, DiskIsHeld, NoSettledRowIsDropped,
         WrittenMeansOnDisk, Kept, Quit
<1>3. QED
  BY <1>1, <1>2 DEF LedgerInv

LEMMA EndKeeps ==
  ASSUME LedgerInv, End
  PROVE  LedgerInv'
<1>1. LedgerTypeOK'
  <2>1. (quiet \in BOOLEAN /\ ceiling \in BOOLEAN)'
    BY Zenon DEF End, StopWatching
  <2>2. QED
    BY <2>1, LedgerAssumption DEF LedgerInv, LedgerTypeOK, End
<1>2. OneAtWork' /\ WritesCarryEnough'
  BY DEF OneAtWork, WritesCarryEnough, End
<1>3. DiskIsHeld' /\ NoSettledRowIsDropped' /\ WrittenMeansOnDisk'
  BY DEF DiskIsHeld, NoSettledRowIsDropped, WrittenMeansOnDisk, End
<1>4. QED
  BY <1>1, <1>2, <1>3 DEF LedgerInv

LEMMA LaunchKeeps ==
  ASSUME LedgerInv, Launch
  PROVE  LedgerInv'
<1>1. flushes = <<>>
  BY DEF LedgerInv, OneAtWork, Launch
<1>2. LedgerTypeOK'
  BY DEF LedgerInv, LedgerTypeOK, Launch, NothingWrittenYet, Kept
<1>3. OneAtWork' /\ WritesCarryEnough'
  BY <1>1 DEF OneAtWork, WritesCarryEnough, Launch
<1>4. DiskIsHeld' /\ NoSettledRowIsDropped'
  BY DEF DiskIsHeld, NoSettledRowIsDropped, Launch, Kept
<1>5. WrittenMeansOnDisk'
  BY DEF WrittenMeansOnDisk, Launch, NothingWrittenYet, Kept
<1>6. QED
  BY <1>2, <1>3, <1>4, <1>5 DEF LedgerInv

LEMMA LedgerStutterKeeps ==
  ASSUME LedgerInv, UNCHANGED ledgerVars
  PROVE  LedgerInv'
<1>1. LedgerTypeOK' /\ OneAtWork'
  BY DEF LedgerInv, LedgerTypeOK, OneAtWork, ledgerVars
<1>2. WritesCarryEnough' /\ DiskIsHeld' /\ NoSettledRowIsDropped' /\ WrittenMeansOnDisk'
  BY DEF LedgerInv, WritesCarryEnough, CarriesEnough, DiskIsHeld, NoSettledRowIsDropped,
         WrittenMeansOnDisk, Kept, ledgerVars
<1>3. QED
  BY <1>1, <1>2 DEF LedgerInv

LEMMA LedgerStepIsGood == LedgerInv /\ [LedgerNext]_ledgerVars => LedgerInv'
<1>1. SUFFICES ASSUME LedgerInv, [LedgerNext]_ledgerVars PROVE LedgerInv'
  OBVIOUS
<1>2. CASE \E row \in Rows : Accrue(row) \/ Age(row)
  BY <1>1, <1>2, AccrueKeeps, AgeKeeps
<1>3. CASE QuietFires \/ CeilingFires \/ StatesChanged
  BY <1>1, <1>3, AskFlushKeeps DEF QuietFires, CeilingFires, StatesChanged
<1>4. CASE FlushSteps
  BY <1>1, <1>4, BeginFlushKeeps, SnapshotKeeps, RenameKeeps DEF FlushSteps
<1>5. CASE \E n \in 1..Len(flushes) : WriteRefused(n)
  BY <1>1, <1>5, WriteRefusedKeeps
<1>6. CASE Quit \/ End \/ Launch
  BY <1>1, <1>6, QuitKeeps, EndKeeps, LaunchKeeps
<1>7. CASE UNCHANGED ledgerVars
  BY <1>1, <1>7, LedgerStutterKeeps
<1>8. QED
  BY <1>1, <1>2, <1>3, <1>4, <1>5, <1>6, <1>7 DEF LedgerNext

LEMMA LedgerAlwaysGood == LedgerSpec => []LedgerInv
  BY LedgerInitIsGood, LedgerStepIsGood, PTL DEF LedgerSpec

(* A row that settles while the disk is busy is never dropped from the       *)
(* readings, and a ledger that reads as written is.                        *)
THEOREM ReadingsAndDiskAgree == LedgerSpec => [](NoSettledRowIsDropped /\ WrittenMeansOnDisk)
<1>1. LedgerInv => NoSettledRowIsDropped /\ WrittenMeansOnDisk
  BY DEF LedgerInv
<1>2. QED
  BY <1>1, LedgerAlwaysGood, PTL

(* Whatever flushes overlap, the document never goes back to an older        *)
(* snapshot.                                                               *)
THEOREM DiskOnlyGoesForward == LedgerSpec => TheDiskNeverGoesBack
<1>1. ASSUME LedgerInv, [LedgerNext]_ledgerVars
      PROVE  [Kept(disk) \subseteq disk' \cup aged']_ledgerVars
  <2>1. CASE disk' = disk
    BY <2>1 DEF Kept
  <2>2. ASSUME NEW n \in 1..Len(flushes), Rename(n)
        PROVE  Kept(disk) \subseteq disk'
    BY <1>1, <2>2 DEF LedgerInv, WritesCarryEnough, CarriesEnough, Rename, InTurn
  <2>3. CASE \E n \in 1..Len(flushes) : Rename(n)
    BY <2>2, <2>3
  <2>4. disk' = disk \/ \E n \in 1..Len(flushes) : Rename(n)
    BY <1>1 DEF LedgerNext, Accrue, Age, QuietFires, CeilingFires, StatesChanged, AskFlush,
                FlushSteps, BeginFlush, Snapshot, WriteRefused, Quit, End, Launch, ledgerVars
  <2>5. QED
    BY <2>1, <2>3, <2>4
<1>2. QED
  BY <1>1, LedgerAlwaysGood, PTL DEF LedgerSpec, TheDiskNeverGoesBack

-----------------------------------------------------------------------------
(* What serving leaves behind.                                             *)

TurnWords == [turn : Turns, node : Nodes, word : Traffic!Words]

TrafficTyped ==
    /\ Traffic!TrafficAssumption /\ Traffic!TrafficTypeOK
    /\ turnAsked \in [Turns -> Seq(Nodes \ Unbound)]
    /\ turnUp \in Seq(TurnWords \union {Traffic!Stopped})

LastAsked(t) == turnAsked[t][Len(turnAsked[t])]

(* A walk notes every child it asked for before it goes on to the next, and   *)
(* the child it tried last is the one it asked last, or one it did not have to *)
(* ask for.                                                                 *)
WalkStands(t) ==
    /\ stage[t] = "unsent" => Len(turnAsked[t]) = 0
    /\ stage[t] = "choosing" =>
           /\ \A i \in 1..Len(turnAsked[t]) : notes[t][turnAsked[t][i]] # "none"
           /\ Len(turnAsked[t]) > 0 => tried[t] \in Unbound \union {LastAsked(t)}
    /\ stage[t] \in {"asking", "sending"} =>
           /\ Len(turnAsked[t]) > 0 /\ notes[t][LastAsked(t)] = "none"
           /\ \A i \in 1..Len(turnAsked[t]) :
                 i # Len(turnAsked[t]) => notes[t][turnAsked[t][i]] # "none"
    /\ stage[t] \in {"quoting", "handed"} => turnAnswer[t] \in {"served", "failed"}
    /\ stage[t] = "thrown" => Throws

(* Whose row still reads in flight: a child that refused, one whose answer is  *)
(* being let go, or the one whose answer the caller is given.                *)
RowsStand(t) ==
    /\ stage[t] \in {"unsent", "choosing", "asking", "sending"} =>
           \A n \in Nodes : attempts[t][n] = "in-flight" => notes[t][n] = "refused"
    /\ stage[t] = "sending" => attempts[t][LastAsked(t)] \in {"open", "cut"}
    /\ stage[t] \in {"quoting", "handed"} =>
           \A n \in Nodes : attempts[t][n] = "in-flight" => n \in dropped[t] \/ n = turnGiven[t]
    /\ stage[t] = "over" /\ turnDeaths = 0 =>
           /\ \A n \in Nodes : attempts[t][n] = "in-flight" => n \in dropped[t]
           /\ turnAnswer[t] = "failed" /\ ~interrupted[t] => raised[t] \/ Traffic!RowPublished(t)
    /\ raised[t] => stage[t] = "over" /\ ~Traffic!RowPublished(t)

(* Which cables a turn has told of.                                         *)
WordsStand(t) ==
    /\ interrupted[t] => aborted[t]
    /\ stage[t] \in {"unsent", "choosing", "asking", "sending"} /\ ~interrupted[t] =>
           \A n \in Nodes : words[t][n] = 0
    /\ stage[t] \in {"quoting", "handed"} /\ ~interrupted[t] /\ Len(turnAsked[t]) > 0 =>
           /\ words[t][turnAsked[t][1]] = 0 => turnAsked[t][1] = LastAsked(t)
           /\ Unbound = {} => words[t][LastAsked(t)] = 0
    /\ ~aborted[t] /\ Unbound = {} => \A n \in Nodes : words[t][n] <= 1

TurnStands(t) == WalkStands(t) /\ RowsStand(t) /\ WordsStand(t)

(* A turn that goes on has yet to tell of the cable it opened.               *)
Carries(t, n) ==
    /\ Len(turnAsked[t]) > 0 /\ turnAsked[t][1] = n
    /\ stage[t] \in Traffic!Going /\ ~interrupted[t] /\ words[t][n] = 0

(* Nothing said after its last live word ends it: one on its way, or the one   *)
(* the desk holds.                                                          *)
Pulses(n) ==
    \/ /\ cables[n] = "live"
       /\ \A m \in 1..Len(turnUp) : turnUp[m].node = n => turnUp[m].word = "live"
    \/ \E m \in 1..Len(turnUp) :
          /\ turnUp[m].node = n /\ turnUp[m].word = "live"
          /\ \A k \in 1..Len(turnUp) : k > m /\ turnUp[k].node = n => turnUp[k].word = "live"

PulsesAreCarried == \A n \in Nodes : Pulses(n) => \E t \in Turns : Carries(t, n)

TrafficInv ==
    /\ TrafficTyped
    /\ \A t \in Turns : TurnStands(t)
    /\ inactive => \A n \in Nodes : cables[n] # "live"
    /\ turnChild = "dead" => turnUp = <<>>
    /\ turnChild = "up" /\ ~Throws => PulsesAreCarried

SameTurn(t) ==
    /\ stage'[t] = stage[t] /\ turnAsked'[t] = turnAsked[t] /\ tried'[t] = tried[t]
    /\ notes'[t] = notes[t] /\ attempts'[t] = attempts[t] /\ raised'[t] = raised[t]
    /\ turnGiven'[t] = turnGiven[t] /\ dropped'[t] = dropped[t] /\ turnAnswer'[t] = turnAnswer[t]
    /\ aborted'[t] = aborted[t] /\ interrupted'[t] = interrupted[t] /\ words'[t] = words[t]

deskVars == <<turnServing, cables, inactive, turnChild, stops, turnDeaths>>

LEMMA TrafficFacts ==
  ASSUME TrafficTyped
  PROVE  /\ "none" \notin Nodes /\ Unbound \subseteq Nodes
         /\ stage \in [Turns -> Traffic!Stages] /\ turnAsked \in [Turns -> Seq(Nodes \ Unbound)]
         /\ tried \in [Turns -> Nodes \union {"none"}]
         /\ notes \in [Turns -> [Nodes -> {"none", "refused", "unanswered"}]]
         /\ attempts \in [Turns -> [Nodes -> {"none", "open", "in-flight", "measured", "cut"}]]
         /\ owedRows \in [Turns -> SUBSET Nodes] /\ raised \in [Turns -> BOOLEAN]
         /\ turnGiven \in [Turns -> Nodes \union {"none"}] /\ dropped \in [Turns -> SUBSET Nodes]
         /\ turnAnswer \in [Turns -> {"none", "served", "failed"}]
         /\ aborted \in [Turns -> BOOLEAN] /\ interrupted \in [Turns -> BOOLEAN]
         /\ words \in [Turns -> [Nodes -> Nat]]
         /\ turnUp \in Seq(TurnWords \union {Traffic!Stopped})
         /\ cables \in [Nodes -> {"none", "live", "served", "failed"}]
BY DEF TrafficTyped, Traffic!TrafficAssumption, Traffic!TrafficTypeOK, Traffic!None,
   Traffic!NoteKinds, Traffic!Attempts, Traffic!Words

(* The same of a list told: every word is of a child of a turn, or says that   *)
(* the gateway stopped.                                                     *)
LEMMA LaneFacts ==
  ASSUME TrafficTyped, NEW m \in 1..Len(turnUp)
  PROVE  turnUp[m] \in TurnWords \/ turnUp[m] = Traffic!Stopped
BY TrafficFacts

(* The lane as it was typed is the lane as the module types it.               *)
LEMMA LaneIsTyped ==
  ASSUME NEW lane \in Seq(TurnWords \union {Traffic!Stopped})
  PROVE  lane \in Seq([turn : Turns \union {"none"}, node : Nodes \union {"none"},
                       word : Traffic!Words \union {"stopped"}])
<1>1. PICK Said, Sayable :
        /\ Said = TurnWords \union {Traffic!Stopped}
        /\ Sayable = [turn : Turns \union {"none"}, node : Nodes \union {"none"},
                      word : Traffic!Words \union {"stopped"}]
  OBVIOUS
<1>2. Said \subseteq Sayable
  BY <1>1 DEF TurnWords, Traffic!Stopped, Traffic!None
<1>3. lane \in Seq(Said)
  BY <1>1
<1>4. lane \in Seq(Sayable)
  BY <1>2, <1>3
<1>5. QED
  BY <1>1, <1>4

(* What a turn holds, and what another keeps as it moves.                      *)
LEMMA OthersStand ==
  ASSUME TrafficInv, NEW t \in Turns, SameTurn(t), turnDeaths' = turnDeaths
  PROVE  TurnStands(t)' /\ \A n \in Nodes : Carries(t, n) <=> Carries(t, n)'
<1>1. TurnStands(t)
  BY DEF TrafficInv
<1>2. WalkStands(t)'
  BY <1>1 DEF TurnStands, WalkStands, SameTurn, LastAsked
<1>3. Traffic!RowPublished(t)' <=> Traffic!RowPublished(t)
  BY DEF SameTurn, Traffic!RowPublished
<1>4. RowsStand(t)'
  BY <1>1, <1>3 DEF TurnStands, RowsStand, SameTurn, LastAsked
<1>5. WordsStand(t)'
  BY <1>1 DEF TurnStands, WordsStand, SameTurn, LastAsked
<1>6. \A n \in Nodes : Carries(t, n) <=> Carries(t, n)'
  BY DEF Carries, SameTurn
<1>7. QED
  BY <1>2, <1>4, <1>5, <1>6 DEF TurnStands

-----------------------------------------------------------------------------
(* The lane from the child to the desk.                                     *)

(* Words that end a flow, said after what was said before.                    *)
LEMMA LaneGrows ==
  ASSUME TrafficTyped, NEW tells \in Seq(TurnWords), turnUp' = turnUp \o tells, cables' = cables,
         \A i \in 1..Len(tells) : tells[i].word # "live", NEW n \in Nodes, Pulses(n)'
  PROVE  Pulses(n) /\ \A i \in 1..Len(tells) : tells[i].node # n
<1>1. /\ Len(turnUp) \in Nat /\ Len(tells) \in Nat /\ Len(turnUp') = Len(turnUp) + Len(tells)
      /\ \A m \in 1..Len(turnUp) : turnUp'[m] = turnUp[m]
      /\ \A i \in 1..Len(tells) : turnUp'[Len(turnUp) + i] = tells[i]
  BY TrafficFacts
<1>2. \A m \in 1..Len(turnUp') : m \in 1..Len(turnUp) \/ m - Len(turnUp) \in 1..Len(tells)
  BY <1>1
<1>3. ASSUME NEW m \in 1..Len(turnUp'), turnUp'[m].word = "live" PROVE m \in 1..Len(turnUp)
  <2>1. CASE m - Len(turnUp) \in 1..Len(tells)
    <3>1. PICK i \in 1..Len(tells) : i = m - Len(turnUp)
      BY <2>1
    <3>2. m = Len(turnUp) + i
      BY <1>1, <3>1
    <3>3. QED
      BY <1>1, <1>3, <3>2
  <2>2. QED
    BY <1>2, <2>1
<1>4. ASSUME NEW i \in 1..Len(tells) PROVE tells[i].node # n
  <2>1. Len(turnUp) + i \in 1..Len(turnUp') /\ turnUp'[Len(turnUp) + i] = tells[i]
    BY <1>1
  <2>2. \A m \in 1..Len(turnUp) : Len(turnUp) + i > m
    BY <1>1
  <2>3. SUFFICES ASSUME tells[i].node = n PROVE FALSE
    OBVIOUS
  <2>4. turnUp'[Len(turnUp) + i].node = n /\ turnUp'[Len(turnUp) + i].word # "live"
    BY <2>1, <2>3
  <2>5. PICK m \in 1..Len(turnUp') :
          /\ turnUp'[m].node = n /\ turnUp'[m].word = "live"
          /\ \A k \in 1..Len(turnUp') : k > m /\ turnUp'[k].node = n => turnUp'[k].word = "live"
    BY <2>1, <2>4 DEF Pulses
  <2>6. QED
    BY <1>3, <2>1, <2>2, <2>4, <2>5
<1>5. \A m \in 1..Len(turnUp) : m \in 1..Len(turnUp')
  BY <1>1
<1>6. Pulses(n)
  <2>1. CASE /\ cables'[n] = "live"
             /\ \A m \in 1..Len(turnUp') : turnUp'[m].node = n => turnUp'[m].word = "live"
    BY <1>1, <1>5, <2>1 DEF Pulses
  <2>2. CASE \E m \in 1..Len(turnUp') :
          /\ turnUp'[m].node = n /\ turnUp'[m].word = "live"
          /\ \A k \in 1..Len(turnUp') : k > m /\ turnUp'[k].node = n => turnUp'[k].word = "live"
    <3>1. PICK m \in 1..Len(turnUp') :
          /\ turnUp'[m].node = n /\ turnUp'[m].word = "live"
          /\ \A k \in 1..Len(turnUp') : k > m /\ turnUp'[k].node = n => turnUp'[k].word = "live"
      BY <2>2
    <3>2. m \in 1..Len(turnUp)
      BY <1>3, <3>1
    <3>3. QED
      BY <1>1, <1>5, <3>1, <3>2 DEF Pulses
  <2>3. QED
    BY <2>1, <2>2 DEF Pulses
<1>7. QED
  BY <1>4, <1>6

(* One turn moves: it stands, and where it stops carrying a cable it says so.  *)
LEMMA TurnMoves ==
  ASSUME TrafficInv, NEW t \in Turns, \A k \in Turns : k # t => SameTurn(k), UNCHANGED deskVars,
         TrafficTyped', TurnStands(t)', turnChild = "up",
         NEW tells \in Seq(TurnWords), turnUp' = turnUp \o tells,
         \A i \in 1..Len(tells) : tells[i].word # "live",
         ~Throws => \A n \in Nodes :
            Carries(t, n) => Carries(t, n)' \/ \E i \in 1..Len(tells) : tells[i].node = n
  PROVE  TrafficInv'
<1>1. \A k \in Turns : TurnStands(k)'
  BY OthersStand DEF deskVars
<1>2. (inactive => \A n \in Nodes : cables[n] # "live")' /\ turnChild' = "up"
  BY DEF TrafficInv, deskVars
<1>3. ASSUME ~Throws, NEW n \in Nodes, Pulses(n)' PROVE \E k \in Turns : Carries(k, n)'
  <2>1. Pulses(n) /\ \A i \in 1..Len(tells) : tells[i].node # n
    BY <1>3, LaneGrows DEF TrafficInv, deskVars
  <2>2. PICK k \in Turns : Carries(k, n)
    BY <1>3, <2>1 DEF TrafficInv, PulsesAreCarried
  <2>3. CASE k = t
    BY <1>3, <2>1, <2>2, <2>3
  <2>4. CASE k # t
    BY <2>2, <2>4, OthersStand DEF deskVars
  <2>5. QED
    BY <2>3, <2>4
<1>4. ~Throws => PulsesAreCarried'
  BY <1>3 DEF PulsesAreCarried
<1>5. QED
  BY <1>1, <1>2, <1>4 DEF TrafficInv

(* And so when it says nothing.                                              *)
LEMMA TurnMovesSilently ==
  ASSUME TrafficInv, NEW t \in Turns, \A k \in Turns : k # t => SameTurn(k), UNCHANGED deskVars,
         TrafficTyped', TurnStands(t)', turnChild = "up", turnUp' = turnUp,
         ~Throws => \A n \in Nodes : Carries(t, n) => Carries(t, n)'
  PROVE  TrafficInv'
<1>1. PICK tells : tells = <<>>
  OBVIOUS
<1>2. tells \in Seq(TurnWords) /\ Len(tells) = 0
  BY <1>1
<1>3. turnUp' = turnUp \o tells
  BY <1>1, TrafficFacts DEF TrafficInv
<1>4. \A i \in 1..Len(tells) : tells[i].word # "live"
  BY <1>2
<1>5. QED
  BY <1>2, <1>3, <1>4, TurnMoves

-----------------------------------------------------------------------------
(* The steps of the walk.                                                   *)

(* A list that was asked of nobody, and one that was.                         *)
LEMMA AskedFacts ==
  ASSUME TrafficTyped, NEW t \in Turns
  PROVE  /\ turnAsked[t] \in Seq(Nodes \ Unbound) /\ Len(turnAsked[t]) \in Nat
         /\ turnAsked[t] = <<>> <=> Len(turnAsked[t]) = 0
         /\ Len(turnAsked[t]) > 0 =>
               /\ turnAsked[t][1] \in Nodes \ Unbound /\ LastAsked(t) \in Nodes \ Unbound
               /\ Traffic!Spending(t) = LastAsked(t) /\ Head(turnAsked[t]) = turnAsked[t][1]
               /\ 1 \in 1..Len(turnAsked[t]) /\ Len(turnAsked[t]) \in 1..Len(turnAsked[t])
<1>1. turnAsked[t] \in Seq(Nodes \ Unbound)
  BY TrafficFacts
<1>2. Len(turnAsked[t]) \in Nat /\ (turnAsked[t] = <<>> <=> Len(turnAsked[t]) = 0)
  BY <1>1
<1>3. ASSUME Len(turnAsked[t]) > 0
      PROVE  1 \in 1..Len(turnAsked[t]) /\ Len(turnAsked[t]) \in 1..Len(turnAsked[t])
  BY <1>2, <1>3
<1>4. Len(turnAsked[t]) > 0 => LastAsked(t) \in Nodes \ Unbound /\ turnAsked[t][1] \in Nodes \ Unbound
  BY <1>1, <1>3 DEF LastAsked
<1>5. Len(turnAsked[t]) > 0 => Head(turnAsked[t]) = turnAsked[t][1]
  BY <1>1
<1>6. Traffic!Spending(t) = LastAsked(t)
  BY DEF Traffic!Spending, Traffic!Last, LastAsked
<1>7. QED
  BY <1>1, <1>2, <1>3, <1>4, <1>5, <1>6

(* What noting a child does.                                                *)
LEMMA NotedDoes ==
  ASSUME TrafficTyped, NEW t \in Turns, NEW n \in Nodes, NEW kind \in {"refused", "unanswered"},
         Traffic!Noted(t, n, kind)
  PROVE  /\ stage' \in [Turns -> Traffic!Stages] /\ stage'[t] = "choosing"
         /\ notes' \in [Turns -> [Nodes -> {"none", "refused", "unanswered"}]]
         /\ notes'[t][n] = kind /\ \A m \in Nodes : m # n => notes'[t][m] = notes[t][m]
         /\ tried' \in [Turns -> Nodes \union {"none"}] /\ tried'[t] = n
         /\ dropped' \in [Turns -> SUBSET Nodes]
         /\ \A k \in Turns : k # t => /\ stage'[k] = stage[k] /\ notes'[k] = notes[k]
                                      /\ tried'[k] = tried[k] /\ dropped'[k] = dropped[k]
<1>1. /\ notes' = [notes EXCEPT ![t][n] = kind] /\ tried' = [tried EXCEPT ![t] = n]
      /\ dropped' = [dropped EXCEPT ![t] = dropped[t] \union Traffic!Answerable(t)]
      /\ stage' = [stage EXCEPT ![t] = "choosing"]
  BY DEF Traffic!Noted
<1>2. Traffic!Answerable(t) \subseteq Nodes
  BY DEF Traffic!Answerable
<1>3. "choosing" \in Traffic!Stages
  BY DEF Traffic!Stages
<1>4. /\ notes' \in [Turns -> [Nodes -> {"none", "refused", "unanswered"}]]
      /\ notes'[t][n] = kind /\ \A m \in Nodes : m # n => notes'[t][m] = notes[t][m]
      /\ \A k \in Turns : k # t => notes'[k] = notes[k]
  BY <1>1, TrafficFacts
<1>5. /\ dropped' \in [Turns -> SUBSET Nodes]
      /\ \A k \in Turns : k # t => dropped'[k] = dropped[k]
  BY <1>1, <1>2, TrafficFacts
<1>6. QED
  BY <1>1, <1>3, <1>4, <1>5, TrafficFacts

(* A turn that lists another attempt: nothing else of the log changes.         *)
LEMMA AnswersDoes ==
  ASSUME TrafficTyped, NEW t \in Turns, NEW n \in Nodes,
         NEW listed \in {"open", "in-flight", "measured"}, Traffic!Answers(t, n, listed)
  PROVE  /\ attempts' \in [Turns -> [Nodes -> {"none", "open", "in-flight", "measured", "cut"}]]
         /\ attempts'[t][n] \in {"cut", listed}
         /\ \A m \in Nodes : m # n => attempts'[t][m] = attempts[t][m]
         /\ \A k \in Turns : k # t => attempts'[k] = attempts[k]
<1>1. PICK a : a = IF attempts[t][n] = "cut" THEN "cut" ELSE listed
  OBVIOUS
<1>2. attempts' = [attempts EXCEPT ![t][n] = a] /\ a \in {"cut", listed}
  BY <1>1 DEF Traffic!Answers
<1>3. QED
  BY <1>2, TrafficFacts

(* The turn's own steps keep the types of what they do not touch.             *)
restVars == <<owedRows, raised, turnGiven, turnAnswer, aborted, interrupted, words>>

(* A walk leaves the child it asked last for the next.                         *)
LEMMA LeavesAChild ==
  ASSUME TrafficInv, NEW t \in Turns, turnChild = "up", stage[t] \in {"asking", "sending"},
         NEW kind \in {"refused", "unanswered"}, Traffic!Noted(t, LastAsked(t), kind),
         attempts' \in [Turns -> [Nodes -> {"none", "open", "in-flight", "measured", "cut"}]],
         \A k \in Turns : k # t => attempts'[k] = attempts[k],
         \A m \in Nodes : m # LastAsked(t) => attempts'[t][m] = attempts[t][m],
         attempts'[t][LastAsked(t)] = "in-flight" => kind = "refused",
         UNCHANGED <<turnAsked, turnUp, restVars, deskVars>>
  PROVE  TrafficInv'
<1>1. TrafficTyped /\ WalkStands(t) /\ RowsStand(t) /\ WordsStand(t)
  BY DEF TrafficInv, TurnStands
<1>2. Len(turnAsked[t]) > 0 /\ LastAsked(t) \in Nodes \ Unbound
  BY <1>1, AskedFacts DEF WalkStands
<1>3. PICK final : final = LastAsked(t) /\ final \in Nodes
  BY <1>2
<1>4. Traffic!Noted(t, final, kind)
  BY <1>3
<1>5. /\ stage' \in [Turns -> Traffic!Stages] /\ stage'[t] = "choosing"
      /\ notes' \in [Turns -> [Nodes -> {"none", "refused", "unanswered"}]]
      /\ notes'[t][final] = kind /\ \A m \in Nodes : m # final => notes'[t][m] = notes[t][m]
      /\ tried' \in [Turns -> Nodes \union {"none"}] /\ tried'[t] = final
      /\ dropped' \in [Turns -> SUBSET Nodes]
      /\ \A k \in Turns : k # t => /\ stage'[k] = stage[k] /\ notes'[k] = notes[k]
                                   /\ tried'[k] = tried[k] /\ dropped'[k] = dropped[k]
  BY <1>1, <1>3, <1>4, NotedDoes
<1>6. TrafficTyped'
  BY <1>1, <1>5 DEF TrafficTyped, Traffic!TrafficAssumption, Traffic!TrafficTypeOK, Traffic!None,
     Traffic!NoteKinds, Traffic!Attempts, restVars, deskVars
<1>7. \A k \in Turns : k # t => SameTurn(k)
  BY <1>5 DEF SameTurn, restVars
<1>8. WalkStands(t)'
  <2>1. \A i \in 1..Len(turnAsked[t]) : notes'[t][turnAsked[t][i]] # "none"
    <3>1. ASSUME NEW i \in 1..Len(turnAsked[t]) PROVE notes'[t][turnAsked[t][i]] # "none"
      <4>1. turnAsked[t][i] \in Nodes
        BY <1>1, AskedFacts
      <4>2. i # Len(turnAsked[t]) => notes[t][turnAsked[t][i]] # "none"
        BY <1>1 DEF WalkStands
      <4>3. i = Len(turnAsked[t]) => turnAsked[t][i] = final
        BY <1>3 DEF LastAsked
      <4>4. QED
        BY <1>5, <4>1, <4>2, <4>3
    <3>2. QED
      BY <3>1
  <2>2. LastAsked(t)' = final
    BY <1>3 DEF LastAsked
  <2>3. QED
    BY <1>5, <2>1, <2>2 DEF WalkStands
<1>9. RowsStand(t)'
  <2>1. \A n \in Nodes : attempts'[t][n] = "in-flight" => notes'[t][n] = "refused"
    BY <1>1, <1>3, <1>5 DEF RowsStand
  <2>2. ~raised[t]
    BY <1>1 DEF RowsStand
  <2>3. QED
    BY <1>5, <2>1, <2>2 DEF RowsStand, restVars
<1>10. WordsStand(t)'
  BY <1>1, <1>5 DEF WordsStand, restVars
<1>11. \A n \in Nodes : Carries(t, n) => Carries(t, n)'
  BY <1>5 DEF Carries, restVars, Traffic!Going
<1>12. QED
  BY <1>6, <1>7, <1>8, <1>9, <1>10, <1>11, TurnMovesSilently DEF TurnStands

(* A turn's first step is taken by a gateway that serves.                      *)
LEMMA ArriveKeeps ==
  ASSUME TrafficInv, NEW t \in Turns, turnChild = "up", Traffic!Arrive(t)
  PROVE  TrafficInv'
<1>1. TrafficTyped /\ WalkStands(t) /\ RowsStand(t) /\ WordsStand(t)
  BY DEF TrafficInv, TurnStands
<1>2. /\ stage[t] = "unsent" /\ stage' = [stage EXCEPT ![t] = "choosing"]
      /\ UNCHANGED <<turnAsked, tried, notes, dropped, attempts, turnUp, restVars, deskVars>>
  BY DEF Traffic!Arrive, Traffic!log, Traffic!client, Traffic!desk, restVars, deskVars
<1>3. "choosing" \in Traffic!Stages
  BY DEF Traffic!Stages
<1>4. /\ stage' \in [Turns -> Traffic!Stages] /\ stage'[t] = "choosing"
      /\ \A k \in Turns : k # t => stage'[k] = stage[k]
  BY <1>1, <1>2, <1>3, TrafficFacts
<1>5. TrafficTyped'
  BY <1>1, <1>2, <1>4 DEF TrafficTyped, Traffic!TrafficAssumption, Traffic!TrafficTypeOK, restVars, deskVars
<1>6. \A k \in Turns : k # t => SameTurn(k)
  BY <1>2, <1>4 DEF SameTurn, restVars
<1>7. Len(turnAsked[t]) = 0 /\ Len(turnAsked[t]) \in Nat
  BY <1>1, <1>2, AskedFacts DEF WalkStands
<1>8. WalkStands(t)'
  BY <1>2, <1>4, <1>7 DEF WalkStands
<1>9. RowsStand(t)'
  BY <1>1, <1>2, <1>4 DEF RowsStand, restVars
<1>10. WordsStand(t)'
  BY <1>1, <1>2, <1>4 DEF WordsStand, restVars
<1>11. \A n \in Nodes : ~Carries(t, n)
  BY <1>2 DEF Carries, Traffic!Going
<1>12. QED
  BY <1>2, <1>5, <1>6, <1>8, <1>9, <1>10, <1>11, TurnMovesSilently DEF TurnStands

(* A child the table stands unbound is noted and left.                         *)
LEMMA TryUnboundKeeps ==
  ASSUME TrafficInv, NEW t \in Turns, turnChild = "up", NEW n \in Nodes, Traffic!TryUnbound(t, n)
  PROVE  TrafficInv'
<1>1. TrafficTyped /\ WalkStands(t) /\ RowsStand(t) /\ WordsStand(t)
  BY DEF TrafficInv, TurnStands
<1>2. /\ stage[t] = "choosing" /\ n \in Unbound /\ notes[t][n] = "none"
      /\ Traffic!Noted(t, n, "unanswered")
      /\ UNCHANGED <<turnAsked, attempts, turnUp, restVars, deskVars>>
  BY DEF Traffic!TryUnbound, Traffic!None, Traffic!log, Traffic!client, Traffic!desk, restVars, deskVars
<1>3. /\ stage' \in [Turns -> Traffic!Stages] /\ stage'[t] = "choosing"
      /\ notes' \in [Turns -> [Nodes -> {"none", "refused", "unanswered"}]]
      /\ notes'[t][n] = "unanswered" /\ \A m \in Nodes : m # n => notes'[t][m] = notes[t][m]
      /\ tried' \in [Turns -> Nodes \union {"none"}] /\ tried'[t] = n
      /\ dropped' \in [Turns -> SUBSET Nodes]
      /\ \A k \in Turns : k # t => /\ stage'[k] = stage[k] /\ notes'[k] = notes[k]
                                   /\ tried'[k] = tried[k] /\ dropped'[k] = dropped[k]
  BY <1>1, <1>2, NotedDoes
<1>4. TrafficTyped'
  BY <1>1, <1>2, <1>3 DEF TrafficTyped, Traffic!TrafficAssumption, Traffic!TrafficTypeOK, Traffic!None,
     Traffic!NoteKinds, restVars, deskVars
<1>5. \A k \in Turns : k # t => SameTurn(k)
  BY <1>2, <1>3 DEF SameTurn, restVars
<1>6. \A i \in 1..Len(turnAsked[t]) : turnAsked[t][i] \in Nodes
  BY <1>1, AskedFacts
<1>7. WalkStands(t)'
  BY <1>1, <1>2, <1>3, <1>6 DEF WalkStands
<1>8. \A m \in Nodes : attempts[t][m] = "in-flight" => notes[t][m] = "refused"
  BY <1>1, <1>2 DEF RowsStand
<1>9. \A m \in Nodes : attempts'[t][m] = "in-flight" => notes'[t][m] = "refused"
  BY <1>2, <1>3, <1>8
<1>10. RowsStand(t)'
  BY <1>1, <1>2, <1>3, <1>9 DEF RowsStand, restVars
<1>11. WordsStand(t)'
  BY <1>1, <1>2, <1>3 DEF WordsStand, restVars
<1>12. \A m \in Nodes : Carries(t, m) => Carries(t, m)'
  BY <1>2, <1>3 DEF Carries, restVars, Traffic!Going
<1>13. QED
  BY <1>2, <1>4, <1>5, <1>7, <1>10, <1>11, <1>12, TurnMovesSilently DEF TurnStands

(* A grant that named no place to send.                                       *)
LEMMA GrantMissingKeeps ==
  ASSUME TrafficInv, NEW t \in Turns, turnChild = "up", Traffic!GrantMissing(t)
  PROVE  TrafficInv'
<1>1. TrafficTyped /\ WalkStands(t) /\ RowsStand(t)
  BY DEF TrafficInv, TurnStands
<1>2. stage[t] = "asking"
  BY DEF Traffic!GrantMissing
<1>3. Traffic!Spending(t) = LastAsked(t) /\ LastAsked(t) \in Nodes
  BY <1>1, <1>2, AskedFacts DEF WalkStands
<1>4. /\ Traffic!Noted(t, LastAsked(t), "unanswered")
      /\ UNCHANGED <<turnAsked, attempts, turnUp, restVars, deskVars>>
  BY <1>3 DEF Traffic!GrantMissing, Traffic!log, Traffic!client, Traffic!desk, restVars, deskVars
<1>5. attempts' \in [Turns -> [Nodes -> {"none", "open", "in-flight", "measured", "cut"}]]
  BY <1>1, <1>4, TrafficFacts
<1>6. attempts'[t][LastAsked(t)] # "in-flight"
  BY <1>1, <1>2, <1>3, <1>4 DEF RowsStand, WalkStands
<1>7. QED
  BY <1>2, <1>4, <1>5, <1>6, LeavesAChild

(* An attempt that ended, by what it is listed as and what the walk notes.     *)
LEMMA AttemptLeaves ==
  ASSUME TrafficInv, NEW t \in Turns, turnChild = "up", stage[t] = "sending",
         NEW listed \in {"open", "in-flight", "measured"}, Traffic!Answers(t, Traffic!Spending(t), listed),
         NEW kind \in {"refused", "unanswered"}, Traffic!Noted(t, Traffic!Spending(t), kind),
         listed = "in-flight" => kind = "refused",
         UNCHANGED <<turnAsked, turnUp, restVars, deskVars>>
  PROVE  TrafficInv'
<1>1. TrafficTyped /\ WalkStands(t) /\ RowsStand(t)
  BY DEF TrafficInv, TurnStands
<1>2. Traffic!Spending(t) = LastAsked(t) /\ LastAsked(t) \in Nodes
  BY <1>1, AskedFacts DEF WalkStands
<1>3. Traffic!Answers(t, LastAsked(t), listed) /\ Traffic!Noted(t, LastAsked(t), kind)
  BY <1>2
<1>4. /\ attempts' \in [Turns -> [Nodes -> {"none", "open", "in-flight", "measured", "cut"}]]
      /\ attempts'[t][LastAsked(t)] \in {"cut", listed}
      /\ \A m \in Nodes : m # LastAsked(t) => attempts'[t][m] = attempts[t][m]
      /\ \A k \in Turns : k # t => attempts'[k] = attempts[k]
  BY <1>1, <1>2, <1>3, AnswersDoes
<1>5. QED
  BY <1>3, <1>4, LeavesAChild

LEMMA AttemptEndsKeep ==
  ASSUME TrafficInv, NEW t \in Turns, turnChild = "up",
         Traffic!Unreached(t) \/ Traffic!DiedBeforeCommit(t) \/ Traffic!Refused(t)
  PROVE  TrafficInv'
<1>1. CASE Traffic!Unreached(t)
  <2>1. PICK listed \in {"open", "measured"} : Traffic!Answers(t, Traffic!Spending(t), listed)
    BY <1>1 DEF Traffic!Unreached
  <2>2. stage[t] = "sending" /\ Traffic!Noted(t, Traffic!Spending(t), "unanswered")
        /\ UNCHANGED <<turnAsked, turnUp, restVars, deskVars>>
    BY <1>1 DEF Traffic!Unreached, Traffic!client, Traffic!desk, restVars, deskVars
  <2>3. QED
    BY <2>1, <2>2, AttemptLeaves
<1>2. CASE Traffic!DiedBeforeCommit(t)
  <2>1. stage[t] = "sending" /\ Traffic!Noted(t, Traffic!Spending(t), "unanswered")
        /\ Traffic!Answers(t, Traffic!Spending(t), "measured")
        /\ UNCHANGED <<turnAsked, turnUp, restVars, deskVars>>
    BY <1>2 DEF Traffic!DiedBeforeCommit, Traffic!client, Traffic!desk, restVars, deskVars
  <2>2. QED
    BY <2>1, AttemptLeaves
<1>3. CASE Traffic!Refused(t)
  <2>1. stage[t] = "sending" /\ Traffic!Noted(t, Traffic!Spending(t), "refused")
        /\ Traffic!Answers(t, Traffic!Spending(t), "in-flight")
        /\ UNCHANGED <<turnAsked, turnUp, restVars, deskVars>>
    BY <1>3 DEF Traffic!Refused, Traffic!client, Traffic!desk, restVars, deskVars
  <2>2. QED
    BY <2>1, AttemptLeaves
<1>4. QED
  BY <1>1, <1>2, <1>3

(* A grant that named where to send: the attempt is listed, and is in flight   *)
(* only once it was answered.                                               *)
LEMMA GrantResolvedKeeps ==
  ASSUME TrafficInv, NEW t \in Turns, turnChild = "up", Traffic!GrantResolved(t)
  PROVE  TrafficInv'
<1>1. TrafficTyped /\ WalkStands(t) /\ RowsStand(t) /\ WordsStand(t)
  BY DEF TrafficInv, TurnStands
<1>2. stage[t] = "asking" /\ stage' = [stage EXCEPT ![t] = "sending"]
      /\ UNCHANGED <<turnAsked, tried, notes, dropped, turnUp, restVars, deskVars>>
  BY DEF Traffic!GrantResolved, Traffic!client, Traffic!desk, restVars, deskVars
<1>3. Traffic!Spending(t) = LastAsked(t) /\ LastAsked(t) \in Nodes
  BY <1>1, <1>2, AskedFacts DEF WalkStands
<1>4. PICK final : final = LastAsked(t) /\ final \in Nodes
  BY <1>3
<1>5. PICK a \in {"cut", "open"} : attempts' = [attempts EXCEPT ![t][final] = a]
  BY <1>3, <1>4 DEF Traffic!GrantResolved
<1>6. /\ attempts' \in [Turns -> [Nodes -> {"none", "open", "in-flight", "measured", "cut"}]]
      /\ attempts'[t][final] = a /\ \A m \in Nodes : m # final => attempts'[t][m] = attempts[t][m]
      /\ \A k \in Turns : k # t => attempts'[k] = attempts[k]
  BY <1>1, <1>4, <1>5, TrafficFacts
<1>7. "sending" \in Traffic!Stages
  BY DEF Traffic!Stages
<1>8. /\ stage' \in [Turns -> Traffic!Stages] /\ stage'[t] = "sending"
      /\ \A k \in Turns : k # t => stage'[k] = stage[k]
  BY <1>1, <1>2, <1>7, TrafficFacts
<1>9. TrafficTyped'
  BY <1>1, <1>2, <1>6, <1>8 DEF TrafficTyped, Traffic!TrafficAssumption, Traffic!TrafficTypeOK, Traffic!None,
     Traffic!Attempts, restVars, deskVars
<1>10. \A k \in Turns : k # t => SameTurn(k)
  BY <1>2, <1>6, <1>8 DEF SameTurn, restVars
<1>11. LastAsked(t)' = final
  BY <1>2, <1>4 DEF LastAsked
<1>12. WalkStands(t)'
  BY <1>1, <1>2, <1>4, <1>8, <1>11 DEF WalkStands
<1>13. RowsStand(t)'
  BY <1>1, <1>2, <1>4, <1>6, <1>8, <1>11 DEF RowsStand, restVars
<1>14. WordsStand(t)'
  BY <1>1, <1>2, <1>8 DEF WordsStand, restVars
<1>15. \A m \in Nodes : Carries(t, m) => Carries(t, m)'
  BY <1>2, <1>8 DEF Carries, restVars, Traffic!Going
<1>16. QED
  BY <1>2, <1>9, <1>10, <1>12, <1>13, <1>14, <1>15, TurnMovesSilently DEF TurnStands

(* An attempt that threw ends its turn, and carries its cable no further.      *)
LEMMA AttemptThrowsKeeps ==
  ASSUME TrafficInv, NEW t \in Turns, turnChild = "up", Traffic!AttemptThrows(t)
  PROVE  TrafficInv'
<1>1. TrafficTyped /\ WalkStands(t) /\ RowsStand(t) /\ WordsStand(t)
  BY DEF TrafficInv, TurnStands
<1>2. Throws /\ stage[t] = "sending" /\ stage' = [stage EXCEPT ![t] = "thrown"]
      /\ UNCHANGED <<turnAsked, tried, notes, dropped, turnUp, restVars, deskVars>>
  BY DEF Traffic!AttemptThrows, Traffic!client, Traffic!desk, restVars, deskVars
<1>3. Traffic!Spending(t) = LastAsked(t) /\ LastAsked(t) \in Nodes
  BY <1>1, <1>2, AskedFacts DEF WalkStands
<1>4. PICK listed \in {"open", "in-flight"} : Traffic!Answers(t, LastAsked(t), listed)
  BY <1>3 DEF Traffic!AttemptThrows
<1>5. /\ attempts' \in [Turns -> [Nodes -> {"none", "open", "in-flight", "measured", "cut"}]]
      /\ \A k \in Turns : k # t => attempts'[k] = attempts[k]
  BY <1>1, <1>3, <1>4, AnswersDoes
<1>6. "thrown" \in Traffic!Stages
  BY DEF Traffic!Stages
<1>7. /\ stage' \in [Turns -> Traffic!Stages] /\ stage'[t] = "thrown"
      /\ \A k \in Turns : k # t => stage'[k] = stage[k]
  BY <1>1, <1>2, <1>6, TrafficFacts
<1>8. TrafficTyped'
  BY <1>1, <1>2, <1>5, <1>7 DEF TrafficTyped, Traffic!TrafficAssumption, Traffic!TrafficTypeOK, Traffic!None,
     Traffic!Attempts, restVars, deskVars
<1>9. \A k \in Turns : k # t => SameTurn(k)
  BY <1>2, <1>5, <1>7 DEF SameTurn, restVars
<1>10. WalkStands(t)'
  BY <1>2, <1>7 DEF WalkStands
<1>11. RowsStand(t)'
  BY <1>1, <1>2, <1>7 DEF RowsStand, restVars
<1>12. WordsStand(t)'
  BY <1>1, <1>2, <1>7 DEF WordsStand, restVars
<1>13. QED
  BY <1>2, <1>8, <1>9, <1>10, <1>11, <1>12, TurnMovesSilently DEF TurnStands

(* A dropped answer is read to where its row is measured.                      *)
LEMMA DroppedIsReadKeeps ==
  ASSUME TrafficInv, NEW t \in Turns, turnChild = "up", NEW n \in Nodes, Traffic!DroppedIsRead(t, n)
  PROVE  TrafficInv'
<1>1. TrafficTyped /\ WalkStands(t) /\ RowsStand(t) /\ WordsStand(t)
  BY DEF TrafficInv, TurnStands
<1>2. attempts[t][n] = "in-flight" /\ attempts' = [attempts EXCEPT ![t][n] = "measured"]
      /\ UNCHANGED <<stage, turnAsked, tried, notes, dropped, turnUp, restVars, deskVars>>
  BY DEF Traffic!DroppedIsRead, Traffic!walk, Traffic!client, Traffic!desk, restVars, deskVars
<1>3. /\ attempts' \in [Turns -> [Nodes -> {"none", "open", "in-flight", "measured", "cut"}]]
      /\ attempts'[t][n] = "measured" /\ \A m \in Nodes : m # n => attempts'[t][m] = attempts[t][m]
      /\ \A k \in Turns : k # t => attempts'[k] = attempts[k]
  BY <1>1, <1>2, TrafficFacts
<1>4. TrafficTyped'
  BY <1>1, <1>2, <1>3 DEF TrafficTyped, Traffic!TrafficAssumption, Traffic!TrafficTypeOK, Traffic!None,
     Traffic!Attempts, restVars, deskVars
<1>5. \A k \in Turns : k # t => SameTurn(k)
  BY <1>2, <1>3 DEF SameTurn, restVars
<1>6. WalkStands(t)'
  BY <1>1, <1>2 DEF WalkStands, LastAsked, restVars
<1>7. Traffic!RowPublished(t) /\ Traffic!RowPublished(t)'
  BY <1>2, <1>3 DEF Traffic!RowPublished, Traffic!Listed
<1>8. RowsStand(t)'
  <2>1. \A m \in Nodes : attempts'[t][m] = "in-flight" => attempts[t][m] = "in-flight"
    BY <1>2, <1>3
  <2>2. ~raised[t]
    BY <1>1, <1>7 DEF RowsStand
  <2>3. ASSUME stage[t] = "sending" PROVE attempts'[t][LastAsked(t)] \in {"open", "cut"}
    <3>1. LastAsked(t) \in Nodes /\ attempts[t][LastAsked(t)] \in {"open", "cut"}
      BY <1>1, <2>3, AskedFacts DEF WalkStands, RowsStand
    <3>2. LastAsked(t) # n
      BY <1>2, <3>1
    <3>3. QED
      BY <1>3, <3>1, <3>2
  <2>4. LastAsked(t)' = LastAsked(t)
    BY <1>2 DEF LastAsked
  <2>5. QED
    BY <1>1, <1>2, <1>7, <2>1, <2>2, <2>3, <2>4 DEF RowsStand, restVars, deskVars
<1>9. WordsStand(t)'
  BY <1>1, <1>2 DEF WordsStand, LastAsked, restVars
<1>10. \A m \in Nodes : Carries(t, m) => Carries(t, m)'
  BY <1>2 DEF Carries, restVars
<1>11. QED
  BY <1>2, <1>4, <1>5, <1>6, <1>8, <1>9, <1>10, TurnMovesSilently DEF TurnStands

(* The quote of a failed answer is read before it is handed on.                *)
LEMMA QuoteReadKeeps ==
  ASSUME TrafficInv, NEW t \in Turns, turnChild = "up", Traffic!QuoteRead(t)
  PROVE  TrafficInv'
<1>1. TrafficTyped /\ WalkStands(t) /\ RowsStand(t) /\ WordsStand(t)
  BY DEF TrafficInv, TurnStands
<1>2. /\ stage[t] = "quoting" /\ stage' = [stage EXCEPT ![t] = "handed"]
      /\ UNCHANGED <<turnAsked, tried, notes, dropped, attempts, turnUp, restVars, deskVars>>
  BY DEF Traffic!QuoteRead, Traffic!log, Traffic!client, Traffic!desk, restVars, deskVars
<1>3. "handed" \in Traffic!Stages
  BY DEF Traffic!Stages
<1>4. /\ stage' \in [Turns -> Traffic!Stages] /\ stage'[t] = "handed"
      /\ \A k \in Turns : k # t => stage'[k] = stage[k]
  BY <1>1, <1>2, <1>3, TrafficFacts
<1>5. TrafficTyped'
  BY <1>1, <1>2, <1>4 DEF TrafficTyped, Traffic!TrafficAssumption, Traffic!TrafficTypeOK, restVars, deskVars
<1>6. \A k \in Turns : k # t => SameTurn(k)
  BY <1>2, <1>4 DEF SameTurn, restVars
<1>7. LastAsked(t)' = LastAsked(t)
  BY <1>2 DEF LastAsked
<1>8. WalkStands(t)'
  BY <1>1, <1>2, <1>4 DEF WalkStands, restVars
<1>9. RowsStand(t)'
  BY <1>1, <1>2, <1>4 DEF RowsStand, restVars
<1>10. WordsStand(t)'
  BY <1>1, <1>2, <1>4, <1>7 DEF WordsStand, restVars
<1>11. \A n \in Nodes : Carries(t, n) => Carries(t, n)'
  BY <1>2, <1>4 DEF Carries, restVars, Traffic!Going
<1>12. QED
  BY <1>2, <1>5, <1>6, <1>8, <1>9, <1>10, <1>11, TurnMovesSilently DEF TurnStands

-----------------------------------------------------------------------------
(* The words that end a flow.                                               *)

(* Each child of a set is settled once more, and no other.                     *)
LEMMA SettledDoes ==
  ASSUME TrafficTyped, NEW t \in Turns, NEW told \in SUBSET Nodes,
         words' = Traffic!Settled(words, t, told)
  PROVE  /\ words' \in [Turns -> [Nodes -> Nat]]
         /\ \A n \in Nodes : /\ n \in told => words'[t][n] = words[t][n] + 1
                             /\ n \notin told => words'[t][n] = words[t][n]
         /\ \A k \in Turns : k # t => words'[k] = words[k]
<1>1. PICK counts : counts = [n \in Nodes |-> words[t][n] + IF n \in told THEN 1 ELSE 0]
  OBVIOUS
<1>2. words' = [words EXCEPT ![t] = counts]
  BY <1>1 DEF Traffic!Settled
<1>3. words \in [Turns -> [Nodes -> Nat]]
  BY TrafficFacts
<1>4. /\ \A n \in Nodes : words[t][n] \in Nat
      /\ counts \in [Nodes -> Nat]
  BY <1>1, <1>3
<1>5. \A n \in Nodes : /\ n \in told => counts[n] = words[t][n] + 1
                       /\ n \notin told => counts[n] = words[t][n]
  BY <1>1, <1>4
<1>6. words'[t] = counts /\ \A k \in Turns : k # t => words'[k] = words[k]
  BY <1>2, <1>3
<1>7. words' \in [Turns -> [Nodes -> Nat]]
  BY <1>2, <1>3, <1>4
<1>8. QED
  BY <1>5, <1>6, <1>7

(* One word, said after the rest.                                           *)
LEMMA OneWord ==
  ASSUME TrafficTyped, NEW t \in Turns, NEW n \in Nodes, NEW word \in {"served", "failed"},
         turnUp' = Append(turnUp, Traffic!Word(t, n, word))
  PROVE  \E tells \in Seq(TurnWords) : /\ turnUp' = turnUp \o tells /\ Len(tells) = 1
                                      /\ tells[1].node = n /\ tells[1].word # "live"
<1>1. PICK spoken : spoken = Traffic!Word(t, n, word)
  OBVIOUS
<1>2. spoken \in TurnWords /\ spoken.node = n /\ spoken.word # "live"
  BY <1>1 DEF TurnWords, Traffic!Word, Traffic!Words
<1>3. PICK tells : tells = <<spoken>>
  OBVIOUS
<1>4. tells \in Seq(TurnWords) /\ Len(tells) = 1 /\ tells[1] = spoken
  BY <1>2, <1>3
<1>5. turnUp' = turnUp \o tells
  BY <1>1, <1>3, TrafficFacts
<1>6. QED
  BY <1>2, <1>4, <1>5

(* Words of a turn leave the lane one of turns and stops.                      *)
LEMMA LaneStaysTyped ==
  ASSUME TrafficTyped, NEW tells \in Seq(TurnWords), turnUp' = turnUp \o tells
  PROVE  /\ turnUp' \in Seq(TurnWords \union {Traffic!Stopped})
         /\ turnUp' \in Seq([turn : Turns \union {"none"}, node : Nodes \union {"none"},
                             word : Traffic!Words \union {"stopped"}])
<1>1. PICK Said, Turned : Said = TurnWords \union {Traffic!Stopped} /\ Turned = TurnWords
  OBVIOUS
<1>2. Turned \subseteq Said /\ turnUp \in Seq(Said) /\ tells \in Seq(Turned)
  BY <1>1, TrafficFacts
<1>3. tells \in Seq(Said)
  BY <1>2
<1>4. turnUp \o tells \in Seq(Said)
  BY <1>2, <1>3
<1>5. turnUp' \in Seq(TurnWords \union {Traffic!Stopped})
  BY <1>1, <1>4
<1>6. QED
  BY <1>5, LaneIsTyped

(* A client that leaves has the cable of its first child told.                 *)
LEMMA AbortKeeps ==
  ASSUME TrafficInv, NEW t \in Turns, turnChild = "up", Traffic!Abort(t)
  PROVE  TrafficInv'
<1>1. TrafficTyped /\ WalkStands(t) /\ RowsStand(t) /\ WordsStand(t)
  BY DEF TrafficInv, TurnStands
<1>2. /\ stage[t] \in Traffic!Going /\ ~aborted[t] /\ aborted' = [aborted EXCEPT ![t] = TRUE]
      /\ UNCHANGED <<stage, turnAsked, tried, notes, turnGiven, dropped, turnAnswer>>
      /\ UNCHANGED <<owedRows, raised, deskVars>>
  BY DEF Traffic!Abort, Traffic!walk, Traffic!desk, deskVars
<1>3. PICK listed : listed = [n \in Nodes |-> IF attempts[t][n] \in {"open", "in-flight"}
                                              THEN "cut" ELSE attempts[t][n]]
  OBVIOUS
<1>4. attempts' = [attempts EXCEPT ![t] = listed]
  BY <1>3 DEF Traffic!Abort
<1>5. /\ attempts' \in [Turns -> [Nodes -> {"none", "open", "in-flight", "measured", "cut"}]]
      /\ attempts'[t] = listed /\ \A k \in Turns : k # t => attempts'[k] = attempts[k]
  <2>1. listed \in [Nodes -> {"none", "open", "in-flight", "measured", "cut"}]
    BY <1>1, <1>3, TrafficFacts
  <2>2. QED
    BY <1>1, <1>4, <2>1, TrafficFacts
<1>6. /\ aborted' \in [Turns -> BOOLEAN] /\ aborted'[t]
      /\ \A k \in Turns : k # t => aborted'[k] = aborted[k]
  BY <1>1, <1>2, TrafficFacts
<1>7. /\ ~interrupted[t] /\ ~raised[t]
      /\ stage[t] \in {"choosing", "asking", "sending", "quoting", "handed"}
  BY <1>1, <1>2 DEF WordsStand, RowsStand, Traffic!Going
<1>8. WalkStands(t)'
  BY <1>1, <1>2 DEF WalkStands, LastAsked
<1>9. RowsStand(t)'
  <2>1. \A n \in Nodes : attempts'[t][n] # "in-flight"
    BY <1>1, <1>3, <1>5, TrafficFacts
  <2>2. LastAsked(t)' = LastAsked(t)
    BY <1>2 DEF LastAsked
  <2>3. ASSUME stage[t] = "sending" PROVE attempts'[t][LastAsked(t)] \in {"open", "cut"}
    <3>1. LastAsked(t) \in Nodes /\ attempts[t][LastAsked(t)] \in {"open", "cut"}
      BY <1>1, <2>3, AskedFacts DEF WalkStands, RowsStand
    <3>2. QED
      BY <1>3, <1>5, <3>1
  <2>4. QED
    BY <1>2, <1>7, <2>1, <2>2, <2>3 DEF RowsStand
<1>10. CASE Len(turnAsked[t]) = 0
  <2>1. UNCHANGED <<turnUp, interrupted, words>>
    BY <1>1, <1>10, AskedFacts DEF Traffic!Abort
  <2>2. TrafficTyped'
    BY <1>1, <1>2, <1>5, <1>6, <2>1 DEF TrafficTyped, Traffic!TrafficAssumption, Traffic!TrafficTypeOK,
       Traffic!None, Traffic!Attempts, deskVars
  <2>3. \A k \in Turns : k # t => SameTurn(k)
    BY <1>2, <1>5, <1>6, <2>1 DEF SameTurn
  <2>4. WordsStand(t)'
    BY <1>1, <1>2, <1>6, <1>7, <1>10, <2>1 DEF WordsStand
  <2>5. \A n \in Nodes : ~Carries(t, n)
    BY <1>10 DEF Carries
  <2>6. QED
    BY <1>2, <1>8, <1>9, <2>1, <2>2, <2>3, <2>4, <2>5, TurnMovesSilently DEF TurnStands
<1>11. CASE Len(turnAsked[t]) > 0
  <2>1. turnAsked[t][1] \in Nodes /\ Head(turnAsked[t]) = turnAsked[t][1] /\ turnAsked[t] # <<>>
    BY <1>1, <1>11, AskedFacts
  <2>2. /\ turnUp' = Append(turnUp, Traffic!Word(t, turnAsked[t][1], "failed"))
        /\ interrupted' = [interrupted EXCEPT ![t] = TRUE]
        /\ words' = Traffic!Settled(words, t, {turnAsked[t][1]})
    BY <2>1 DEF Traffic!Abort
  <2>3. PICK tells \in Seq(TurnWords) : /\ turnUp' = turnUp \o tells /\ Len(tells) = 1
                                       /\ tells[1].node = turnAsked[t][1] /\ tells[1].word # "live"
    BY <1>1, <2>1, <2>2, OneWord
  <2>4. words' \in [Turns -> [Nodes -> Nat]] /\ \A k \in Turns : k # t => words'[k] = words[k]
    <3>1. {turnAsked[t][1]} \in SUBSET Nodes
      BY <2>1
    <3>2. QED
      BY <1>1, <2>2, <3>1, SettledDoes
  <2>5. /\ interrupted' \in [Turns -> BOOLEAN] /\ interrupted'[t]
        /\ \A k \in Turns : k # t => interrupted'[k] = interrupted[k]
    BY <1>1, <2>2, TrafficFacts
  <2>6. TrafficTyped'
    BY <1>1, <1>2, <1>5, <1>6, <2>3, <2>4, <2>5, LaneStaysTyped DEF TrafficTyped, Traffic!TrafficAssumption,
       Traffic!TrafficTypeOK, Traffic!None, Traffic!Attempts, deskVars
  <2>7. \A k \in Turns : k # t => SameTurn(k)
    BY <1>2, <1>5, <1>6, <2>4, <2>5 DEF SameTurn
  <2>8. WordsStand(t)'
    BY <1>6, <2>5 DEF WordsStand
  <2>9. \A i \in 1..Len(tells) : tells[i].word # "live"
    BY <2>3
  <2>10. \A n \in Nodes : Carries(t, n) => \E i \in 1..Len(tells) : tells[i].node = n
    BY <2>3 DEF Carries
  <2>11. QED
    BY <1>2, <1>8, <1>9, <2>3, <2>6, <2>7, <2>8, <2>9, <2>10, TurnMoves DEF TurnStands
<1>12. QED
  BY <1>1, <1>10, <1>11, AskedFacts

(* The body of the answer ended, and the cable of the child it is attributed   *)
(* to is told, unless the client's leaving told it.                          *)
LEMMA BodyEndsKeeps ==
  ASSUME TrafficInv, NEW t \in Turns, turnChild = "up", Traffic!BodyEnds(t)
  PROVE  TrafficInv'
<1>1. TrafficTyped /\ WalkStands(t) /\ RowsStand(t) /\ WordsStand(t)
  BY DEF TrafficInv, TurnStands
<1>2. /\ stage[t] = "handed" /\ stage' = [stage EXCEPT ![t] = "over"]
      /\ UNCHANGED <<turnAsked, tried, notes, turnGiven, dropped, turnAnswer>>
      /\ UNCHANGED <<owedRows, aborted, interrupted, deskVars>>
  BY DEF Traffic!BodyEnds, Traffic!client, Traffic!desk, deskVars
<1>3. PICK listed : listed = [n \in Nodes |-> IF n = turnGiven[t] /\ attempts[t][n] = "in-flight"
                                              THEN "measured" ELSE attempts[t][n]]
  OBVIOUS
<1>4. attempts' = [attempts EXCEPT ![t] = listed]
  BY <1>3 DEF Traffic!BodyEnds
<1>5. /\ attempts' \in [Turns -> [Nodes -> {"none", "open", "in-flight", "measured", "cut"}]]
      /\ attempts'[t] = listed /\ \A k \in Turns : k # t => attempts'[k] = attempts[k]
  <2>1. listed \in [Nodes -> {"none", "open", "in-flight", "measured", "cut"}]
    BY <1>1, <1>3, TrafficFacts
  <2>2. QED
    BY <1>1, <1>4, <2>1, TrafficFacts
<1>6. "over" \in Traffic!Stages
  BY DEF Traffic!Stages
<1>7. /\ stage' \in [Turns -> Traffic!Stages] /\ stage'[t] = "over"
      /\ \A k \in Turns : k # t => stage'[k] = stage[k]
  BY <1>1, <1>2, <1>6, TrafficFacts
<1>8. WalkStands(t)'
  BY <1>7 DEF WalkStands
<1>9. Traffic!RowPublished(t)' <=> Traffic!RowPublished(t)
  BY <1>3, <1>5 DEF Traffic!RowPublished, Traffic!Listed
<1>10. \A n \in Nodes : attempts'[t][n] = "in-flight" => n \in dropped'[t]
  BY <1>1, <1>2, <1>3, <1>5 DEF RowsStand
<1>11. ~raised[t] /\ turnAnswer[t] \in {"served", "failed"}
  BY <1>1, <1>2 DEF RowsStand, WalkStands
<1>12. CASE interrupted[t]
  <2>1. UNCHANGED <<raised, words, turnUp>>
    BY <1>12 DEF Traffic!BodyEnds
  <2>2. TrafficTyped'
    BY <1>1, <1>2, <1>5, <1>7, <2>1 DEF TrafficTyped, Traffic!TrafficAssumption, Traffic!TrafficTypeOK,
       Traffic!None, Traffic!Attempts, deskVars
  <2>3. \A k \in Turns : k # t => SameTurn(k)
    BY <1>2, <1>5, <1>7, <2>1 DEF SameTurn
  <2>4. RowsStand(t)'
    BY <1>2, <1>7, <1>10, <1>11, <1>12, <2>1 DEF RowsStand
  <2>5. WordsStand(t)'
    BY <1>1, <1>2, <1>7, <2>1 DEF WordsStand
  <2>6. \A n \in Nodes : ~Carries(t, n)
    BY <1>12 DEF Carries
  <2>7. QED
    BY <1>2, <1>8, <2>1, <2>2, <2>3, <2>4, <2>5, <2>6, TurnMovesSilently DEF TurnStands
<1>13. CASE ~interrupted[t]
  <2>1. /\ raised' = [raised EXCEPT ![t] = Traffic!RaisesItsFailure(t)]
        /\ words' = Traffic!Settled(words, t, Traffic!Carried(t))
        /\ turnUp' = IF turnAsked[t] = <<>> THEN turnUp
                     ELSE Append(turnUp, Traffic!Word(t, Traffic!Last(turnAsked[t]), turnAnswer[t]))
    BY <1>13 DEF Traffic!BodyEnds
  <2>2. /\ raised' \in [Turns -> BOOLEAN]
        /\ raised'[t] <=> turnAnswer[t] = "failed" /\ ~Traffic!RowPublished(t)
        /\ \A k \in Turns : k # t => raised'[k] = raised[k]
    <3>1. Traffic!RaisesItsFailure(t) \in BOOLEAN
      BY DEF Traffic!RaisesItsFailure
    <3>2. raised \in [Turns -> BOOLEAN]
      BY <1>1, TrafficFacts
    <3>3. /\ raised' \in [Turns -> BOOLEAN] /\ raised'[t] = Traffic!RaisesItsFailure(t)
          /\ \A k \in Turns : k # t => raised'[k] = raised[k]
      BY <2>1, <3>1, <3>2
    <3>4. QED
      BY <3>3 DEF Traffic!RaisesItsFailure
  <2>3. Traffic!Carried(t) \in SUBSET Nodes
    BY DEF Traffic!Carried
  <2>4. /\ words' \in [Turns -> [Nodes -> Nat]]
        /\ \A n \in Nodes : /\ n \in Traffic!Carried(t) => words'[t][n] = words[t][n] + 1
                            /\ n \notin Traffic!Carried(t) => words'[t][n] = words[t][n]
        /\ \A k \in Turns : k # t => words'[k] = words[k]
    BY <1>1, <2>1, <2>3, SettledDoes
  <2>5. \A k \in Turns : k # t => SameTurn(k)
    BY <1>2, <1>5, <1>7, <2>2, <2>4 DEF SameTurn
  <2>6. RowsStand(t)'
    BY <1>2, <1>7, <1>9, <1>10, <2>2 DEF RowsStand
  <2>7. \A n \in Nodes : n \in Traffic!Carried(t) <=> Len(turnAsked[t]) > 0 /\ n = LastAsked(t)
    <3>1. turnAsked[t] # <<>> <=> Len(turnAsked[t]) > 0
      BY <1>1, AskedFacts
    <3>2. QED
      BY <3>1 DEF Traffic!Carried, Traffic!Last, LastAsked
  <2>8. WordsStand(t)'
    <3>1. ASSUME ~aborted[t], Unbound = {}, NEW n \in Nodes PROVE words'[t][n] <= 1
      <4>1. words[t][n] \in Nat /\ words[t][n] <= 1
        BY <1>1, <3>1, TrafficFacts DEF WordsStand
      <4>2. CASE n \in Traffic!Carried(t)
        <5>1. words[t][n] = 0
          BY <1>1, <1>2, <1>13, <2>7, <3>1, <4>2 DEF WordsStand
        <5>2. QED
          BY <2>4, <4>2, <5>1
      <4>3. CASE n \notin Traffic!Carried(t)
        BY <2>4, <4>1, <4>3
      <4>4. QED
        BY <4>2, <4>3
    <3>2. QED
      BY <1>2, <1>7, <1>13, <3>1 DEF WordsStand
  <2>9. CASE Len(turnAsked[t]) = 0
    <3>1. turnUp' = turnUp
      BY <1>1, <2>1, <2>9, AskedFacts
    <3>2. TrafficTyped'
      BY <1>1, <1>2, <1>5, <1>7, <2>2, <2>4, <3>1 DEF TrafficTyped, Traffic!TrafficAssumption,
         Traffic!TrafficTypeOK, Traffic!None, Traffic!Attempts, deskVars
    <3>3. \A n \in Nodes : ~Carries(t, n)
      BY <2>9 DEF Carries
    <3>4. QED
      BY <1>2, <1>8, <2>5, <2>6, <2>8, <3>1, <3>2, <3>3, TurnMovesSilently DEF TurnStands
  <2>10. CASE Len(turnAsked[t]) > 0
    <3>1. LastAsked(t) \in Nodes /\ turnAsked[t] # <<>> /\ Traffic!Last(turnAsked[t]) = LastAsked(t)
      BY <1>1, <2>10, AskedFacts DEF Traffic!Last, LastAsked
    <3>2. turnUp' = Append(turnUp, Traffic!Word(t, LastAsked(t), turnAnswer[t]))
      BY <2>1, <3>1
    <3>3. PICK tells \in Seq(TurnWords) : /\ turnUp' = turnUp \o tells /\ Len(tells) = 1
                                         /\ tells[1].node = LastAsked(t) /\ tells[1].word # "live"
      BY <1>1, <1>11, <3>1, <3>2, OneWord
    <3>4. TrafficTyped'
      BY <1>1, <1>2, <1>5, <1>7, <2>2, <2>4, <3>3, LaneStaysTyped DEF TrafficTyped,
         Traffic!TrafficAssumption, Traffic!TrafficTypeOK, Traffic!None, Traffic!Attempts, deskVars
    <3>5. \A i \in 1..Len(tells) : tells[i].word # "live"
      BY <3>3
    <3>6. \A n \in Nodes : Carries(t, n) => \E i \in 1..Len(tells) : tells[i].node = n
      <4>1. ASSUME NEW n \in Nodes, Carries(t, n) PROVE n = LastAsked(t)
        BY <1>1, <1>2, <1>13, <2>10, <4>1 DEF Carries, WordsStand
      <4>2. QED
        BY <3>3, <4>1
    <3>7. QED
      BY <1>2, <1>8, <2>5, <2>6, <2>8, <3>3, <3>4, <3>5, <3>6, TurnMoves DEF TurnStands
  <2>11. QED
    BY <1>1, <2>9, <2>10, AskedFacts
<1>14. QED
  BY <1>12, <1>13

-----------------------------------------------------------------------------
(* The walk settles.                                                        *)

(* The children a walk left behind are told of, one word for each.            *)
LEMMA PaintedOneByOne ==
  ASSUME TrafficTyped, NEW t \in Turns, NEW told \in SUBSET Nodes, NEW painted \in Traffic!OneByOne(told),
         turnUp' = turnUp \o [m \in DOMAIN painted |-> Traffic!Word(t, painted[m], "failed")]
  PROVE  \E tells \in Seq(TurnWords) :
            /\ turnUp' = turnUp \o tells
            /\ \A i \in 1..Len(tells) : tells[i].word # "live"
            /\ \A n \in told : \E i \in 1..Len(tells) : tells[i].node = n
<1>1. PICK k \in 0..Traffic!Cardinality(told) :
        painted \in {line \in [1..k -> told] : told = {line[m] : m \in 1..k}}
  BY DEF Traffic!OneByOne
<1>2. k \in Nat /\ painted \in [1..k -> told] /\ told = {painted[m] : m \in 1..k}
  BY <1>1
<1>3. PICK tells : tells = [m \in 1..k |-> Traffic!Word(t, painted[m], "failed")]
  OBVIOUS
<1>4. \A m \in 1..k : tells[m] \in TurnWords /\ tells[m].node = painted[m] /\ tells[m].word = "failed"
  BY <1>2, <1>3 DEF TurnWords, Traffic!Word, Traffic!Words
<1>5. tells \in [1..k -> TurnWords]
  BY <1>3, <1>4
<1>6. tells \in Seq(TurnWords) /\ Len(tells) = k
  BY <1>2, <1>5
<1>7. DOMAIN painted = 1..k
  BY <1>2
<1>8. turnUp' = turnUp \o tells
  BY <1>3, <1>7
<1>9. \A n \in told : \E i \in 1..Len(tells) : tells[i].node = n
  BY <1>2, <1>4, <1>6
<1>10. QED
  BY <1>4, <1>6, <1>8, <1>9

(* What is handed on of a walk that settled, and what is let go.               *)
LEMMA WalkSettlesKeeps ==
  ASSUME TrafficInv, NEW t \in Turns, turnChild = "up", stage[t] \in {"choosing", "sending"},
         NEW final, NEW from, NEW result \in {"served", "failed"},
         final \in Nodes \union {"none"}, from \in Nodes \union {"none"},
         Traffic!WalkSettles(t, final, from, result),
         attempts' \in [Turns -> [Nodes -> {"none", "open", "in-flight", "measured", "cut"}]],
         \A k \in Turns : k # t => attempts'[k] = attempts[k],
         \A n \in Nodes : attempts'[t][n] = "in-flight" => n = from \/ notes[t][n] = "refused",
         Len(turnAsked[t]) > 0 =>
            /\ turnAsked[t][1] # final => notes[t][turnAsked[t][1]] # "none"
            /\ turnAsked[t][1] = final => turnAsked[t][1] = LastAsked(t)
            /\ Unbound = {} => final = LastAsked(t),
         UNCHANGED <<turnAsked, notes, raised, aborted, interrupted, deskVars>>
  PROVE  TrafficInv'
<1>1. TrafficTyped /\ WalkStands(t) /\ RowsStand(t) /\ WordsStand(t)
  BY DEF TrafficInv, TurnStands
<1>2. PICK owed \in SUBSET Nodes :
        /\ owed = Traffic!PaintedByTheWalk(t, Traffic!OwedACable(t, final))
        /\ \A n \in Nodes : n \in owed <=> Len(turnAsked[t]) > 0 /\ notes[t][n] # "none" /\ n # final
  <2>1. turnAsked[t] = <<>> <=> Len(turnAsked[t]) = 0
    BY <1>1, AskedFacts
  <2>2. Len(turnAsked[t]) \in Nat
    BY <1>1, AskedFacts
  <2>3. PICK owed : owed = Traffic!PaintedByTheWalk(t, Traffic!OwedACable(t, final))
    OBVIOUS
  <2>4. CASE Len(turnAsked[t]) = 0
    <3>1. owed = {}
      BY <2>1, <2>3, <2>4 DEF Traffic!PaintedByTheWalk
    <3>2. owed \in SUBSET Nodes /\ \A n \in Nodes : n \notin owed
      BY <3>1
    <3>3. ~(Len(turnAsked[t]) > 0)
      BY <2>4
    <3>4. QED
      BY <2>3, <3>2, <3>3
  <2>5. CASE Len(turnAsked[t]) > 0
    <3>1. turnAsked[t] # <<>>
      BY <2>1, <2>5
    <3>2. owed = {n \in Nodes : notes[t][n] # "none" /\ n # final}
      BY <2>3, <3>1 DEF Traffic!PaintedByTheWalk, Traffic!OwedACable, Traffic!None
    <3>3. QED
      BY <2>3, <2>5, <3>2
  <2>6. QED
    BY <2>2, <2>4, <2>5
<1>3. /\ words' = Traffic!Settled(words, t, owed)
      /\ tried' = [tried EXCEPT ![t] = final] /\ turnGiven' = [turnGiven EXCEPT ![t] = from]
      /\ turnAnswer' = [turnAnswer EXCEPT ![t] = result]
      /\ stage' = [stage EXCEPT ![t] = "quoting"]
  BY <1>2 DEF Traffic!WalkSettles
<1>4. PICK painted \in Traffic!OneByOne(owed) :
        turnUp' = turnUp \o [m \in DOMAIN painted |-> Traffic!Word(t, painted[m], "failed")]
  BY <1>2 DEF Traffic!WalkSettles
<1>5. PICK tells \in Seq(TurnWords) :
        /\ turnUp' = turnUp \o tells
        /\ \A i \in 1..Len(tells) : tells[i].word # "live"
        /\ \A n \in owed : \E i \in 1..Len(tells) : tells[i].node = n
  BY <1>1, <1>4, PaintedOneByOne
<1>6. /\ words' \in [Turns -> [Nodes -> Nat]]
      /\ \A n \in Nodes : /\ n \in owed => words'[t][n] = words[t][n] + 1
                          /\ n \notin owed => words'[t][n] = words[t][n]
      /\ \A k \in Turns : k # t => words'[k] = words[k]
  BY <1>1, <1>3, SettledDoes
<1>7. PICK unread, letGo :
        /\ unread = {n \in Traffic!OwedACable(t, final) : notes[t][n] = "unanswered"}
        /\ letGo = dropped[t] \union Traffic!DroppedFor(t, from)
        /\ owedRows' = [owedRows EXCEPT ![t] = unread] /\ dropped' = [dropped EXCEPT ![t] = letGo]
  BY DEF Traffic!WalkSettles
<1>8. unread \in SUBSET Nodes /\ letGo \in SUBSET Nodes
  <2>1. dropped[t] \in SUBSET Nodes
    BY <1>1, TrafficFacts
  <2>2. QED
    BY <1>7, <2>1 DEF Traffic!OwedACable, Traffic!DroppedFor, Traffic!Answerable
<1>9. owedRows' \in [Turns -> SUBSET Nodes]
  BY <1>1, <1>7, <1>8, TrafficFacts
<1>10. /\ dropped' \in [Turns -> SUBSET Nodes] /\ dropped'[t] = letGo
       /\ \A k \in Turns : k # t => dropped'[k] = dropped[k]
  BY <1>1, <1>7, <1>8, TrafficFacts
<1>11. "quoting" \in Traffic!Stages
  BY DEF Traffic!Stages
<1>12. /\ stage' \in [Turns -> Traffic!Stages] /\ stage'[t] = "quoting"
       /\ \A k \in Turns : k # t => stage'[k] = stage[k]
  BY <1>1, <1>3, <1>11, TrafficFacts
<1>13. /\ tried' \in [Turns -> Nodes \union {"none"}] /\ \A k \in Turns : k # t => tried'[k] = tried[k]
       /\ turnGiven' \in [Turns -> Nodes \union {"none"}] /\ turnGiven'[t] = from
       /\ \A k \in Turns : k # t => turnGiven'[k] = turnGiven[k]
  BY <1>1, <1>3, TrafficFacts
<1>14. /\ turnAnswer' \in [Turns -> {"none", "served", "failed"}] /\ turnAnswer'[t] = result
       /\ \A k \in Turns : k # t => turnAnswer'[k] = turnAnswer[k]
  BY <1>1, <1>3, TrafficFacts
<1>15. TrafficTyped'
  BY <1>1, <1>5, <1>6, <1>9, <1>10, <1>12, <1>13, <1>14, LaneStaysTyped DEF TrafficTyped,
     Traffic!TrafficAssumption, Traffic!TrafficTypeOK, Traffic!None, Traffic!Attempts, deskVars
<1>16. \A k \in Turns : k # t => SameTurn(k)
  BY <1>6, <1>10, <1>12, <1>13, <1>14 DEF SameTurn
<1>17. WalkStands(t)'
  BY <1>12, <1>14 DEF WalkStands
<1>18. RowsStand(t)'
  <2>1. \A n \in Nodes : attempts'[t][n] = "in-flight" => n \in dropped'[t] \/ n = turnGiven'[t]
    <3>1. ASSUME NEW n \in Nodes, attempts'[t][n] = "in-flight", n # from PROVE n \in letGo
      <4>1. notes[t][n] = "refused"
        BY <3>1
      <4>2. QED
        BY <1>7, <3>1, <4>1 DEF Traffic!DroppedFor, Traffic!Answerable
    <3>2. QED
      BY <1>10, <1>13, <3>1
  <2>2. ~raised[t]
    BY <1>1 DEF RowsStand
  <2>3. QED
    BY <1>12, <2>1, <2>2 DEF RowsStand
<1>19. ASSUME ~interrupted[t], NEW n \in Nodes
       PROVE  (n \in owed => words'[t][n] = 1) /\ (n \notin owed => words'[t][n] = 0)
  <2>1. words[t][n] = 0
    BY <1>1, <1>19 DEF WordsStand
  <2>2. QED
    BY <1>6, <2>1
<1>20. LastAsked(t)' = LastAsked(t)
  BY DEF LastAsked
<1>21. WordsStand(t)'
  <2>1. ASSUME ~interrupted[t], Len(turnAsked[t]) > 0
        PROVE  /\ words'[t][turnAsked[t][1]] = 0 => turnAsked[t][1] = LastAsked(t)
               /\ Unbound = {} => words'[t][LastAsked(t)] = 0
    <3>1. turnAsked[t][1] \in Nodes /\ LastAsked(t) \in Nodes
      BY <1>1, <2>1, AskedFacts
    <3>2. ASSUME words'[t][turnAsked[t][1]] = 0 PROVE turnAsked[t][1] = LastAsked(t)
      <4>1. turnAsked[t][1] \notin owed
        BY <1>19, <2>1, <3>1, <3>2
      <4>2. turnAsked[t][1] = final
        BY <1>2, <2>1, <3>1, <4>1
      <4>3. QED
        BY <2>1, <4>2
    <3>3. ASSUME Unbound = {} PROVE words'[t][LastAsked(t)] = 0
      <4>1. LastAsked(t) \notin owed
        BY <1>2, <2>1, <3>3
      <4>2. QED
        BY <1>19, <2>1, <3>1, <4>1
    <3>4. QED
      BY <3>2, <3>3
  <2>2. ASSUME ~aborted[t], NEW n \in Nodes PROVE words'[t][n] <= 1
    <3>1. ~interrupted[t]
      BY <1>1, <2>2 DEF WordsStand
    <3>2. words'[t][n] = 1 \/ words'[t][n] = 0
      BY <1>19, <3>1
    <3>3. QED
      BY <3>2
  <2>3. interrupted[t] => aborted[t]
    BY <1>1 DEF WordsStand
  <2>4. QED
    BY <1>12, <1>20, <2>1, <2>2, <2>3 DEF WordsStand
<1>22. \A n \in Nodes : Carries(t, n) => Carries(t, n)' \/ \E i \in 1..Len(tells) : tells[i].node = n
  <2>1. ASSUME NEW n \in Nodes, Carries(t, n), n \notin owed PROVE Carries(t, n)'
    <3>1. words'[t][n] = 0
      BY <1>6, <2>1 DEF Carries
    <3>2. QED
      BY <1>12, <2>1, <3>1 DEF Carries, Traffic!Going
  <2>2. QED
    BY <1>5, <2>1
<1>23. QED
  BY <1>5, <1>15, <1>16, <1>17, <1>18, <1>21, <1>22, TurnMoves DEF TurnStands

(* A child's answer stands.                                                 *)
LEMMA AnswerStandsKeeps ==
  ASSUME TrafficInv, NEW t \in Turns, turnChild = "up", NEW result \in {"served", "failed"},
         Traffic!AnswerStands(t, result)
  PROVE  TrafficInv'
<1>1. TrafficTyped /\ WalkStands(t) /\ RowsStand(t)
  BY DEF TrafficInv, TurnStands
<1>2. stage[t] = "sending" /\ UNCHANGED <<turnAsked, notes, raised, aborted, interrupted, deskVars>>
  BY DEF Traffic!AnswerStands, Traffic!client, Traffic!desk, deskVars
<1>3. Len(turnAsked[t]) > 0 /\ Traffic!Spending(t) = LastAsked(t) /\ LastAsked(t) \in Nodes
  BY <1>1, <1>2, AskedFacts DEF WalkStands
<1>4. PICK final \in Nodes : final = LastAsked(t)
  BY <1>3
<1>5. Traffic!Answers(t, final, "in-flight") /\ Traffic!WalkSettles(t, final, final, result)
  BY <1>3, <1>4 DEF Traffic!AnswerStands
<1>6. /\ attempts' \in [Turns -> [Nodes -> {"none", "open", "in-flight", "measured", "cut"}]]
      /\ \A m \in Nodes : m # final => attempts'[t][m] = attempts[t][m]
      /\ \A k \in Turns : k # t => attempts'[k] = attempts[k]
  BY <1>1, <1>5, AnswersDoes
<1>7. \A n \in Nodes : attempts'[t][n] = "in-flight" => n = final \/ notes[t][n] = "refused"
  BY <1>1, <1>2, <1>6 DEF RowsStand
<1>8. turnAsked[t][1] # final => notes[t][turnAsked[t][1]] # "none"
  <2>1. 1 \in 1..Len(turnAsked[t]) /\ (1 = Len(turnAsked[t]) => turnAsked[t][1] = final)
    BY <1>1, <1>3, <1>4, AskedFacts DEF LastAsked
  <2>2. QED
    BY <1>1, <1>2, <2>1 DEF WalkStands
<1>9. QED
  BY <1>2, <1>4, <1>5, <1>6, <1>7, <1>8, WalkSettlesKeeps

(* Nobody served: a lone child's refusal is handed on, and a ladder is refused *)
(* in the gateway's own words.                                              *)
LEMMA NobodyServesKeeps ==
  ASSUME TrafficInv, NEW t \in Turns, turnChild = "up", Traffic!NobodyServes(t)
  PROVE  TrafficInv'
<1>1. TrafficTyped /\ WalkStands(t) /\ RowsStand(t)
  BY DEF TrafficInv, TurnStands
<1>2. /\ stage[t] = "choosing"
      /\ UNCHANGED <<turnAsked, notes, attempts, raised, aborted, interrupted, deskVars>>
  BY DEF Traffic!NobodyServes, Traffic!client, Traffic!desk, deskVars
<1>3. PICK final \in Nodes \union {"none"} : final = tried[t]
  BY <1>1, TrafficFacts
<1>4. PICK from \in Nodes \union {"none"} : Traffic!WalkSettles(t, final, from, "failed")
  BY <1>3 DEF Traffic!NobodyServes, Traffic!None
<1>5. /\ attempts' \in [Turns -> [Nodes -> {"none", "open", "in-flight", "measured", "cut"}]]
      /\ \A k \in Turns : k # t => attempts'[k] = attempts[k]
  BY <1>1, <1>2, TrafficFacts
<1>6. \A n \in Nodes : attempts'[t][n] = "in-flight" => n = from \/ notes[t][n] = "refused"
  BY <1>1, <1>2 DEF RowsStand
<1>7. ASSUME Len(turnAsked[t]) > 0
      PROVE  /\ notes[t][turnAsked[t][1]] # "none"
             /\ turnAsked[t][1] = final => turnAsked[t][1] = LastAsked(t)
             /\ Unbound = {} => final = LastAsked(t)
  <2>1. 1 \in 1..Len(turnAsked[t]) /\ turnAsked[t][1] \notin Unbound
    BY <1>1, <1>7, AskedFacts
  <2>2. final \in Unbound \union {LastAsked(t)}
    BY <1>1, <1>2, <1>3, <1>7 DEF WalkStands
  <2>3. QED
    BY <1>1, <1>2, <2>1, <2>2 DEF WalkStands
<1>8. QED
  BY <1>2, <1>4, <1>5, <1>6, <1>7, WalkSettlesKeeps

-----------------------------------------------------------------------------
(* A flow opens.                                                            *)

(* What is said of one child is silent about the others, and ends with its     *)
(* last word.                                                               *)
LEMMA LaneSays ==
  ASSUME TrafficTyped, NEW tells \in Seq(TurnWords), turnUp' = turnUp \o tells, cables' = cables,
         NEW n \in Nodes, \A i \in 1..Len(tells) : tells[i].node = n, Len(tells) > 0
  PROVE  /\ \A m \in Nodes : m # n /\ Pulses(m)' => Pulses(m)
         /\ Pulses(n)' => tells[Len(tells)].word = "live"
<1>1. /\ Len(turnUp) \in Nat /\ Len(tells) \in Nat /\ Len(turnUp') = Len(turnUp) + Len(tells)
      /\ \A m \in 1..Len(turnUp) : turnUp'[m] = turnUp[m]
      /\ \A i \in 1..Len(tells) : turnUp'[Len(turnUp) + i] = tells[i]
  BY TrafficFacts
<1>2. \A m \in 1..Len(turnUp) : m \in 1..Len(turnUp')
  BY <1>1
<1>3. ASSUME NEW k \in 1..Len(turnUp'), k \notin 1..Len(turnUp) PROVE turnUp'[k].node = n
  <2>1. PICK i \in 1..Len(tells) : i = k - Len(turnUp)
    BY <1>1, <1>3
  <2>2. k = Len(turnUp) + i
    BY <1>1, <2>1
  <2>3. QED
    BY <1>1, <2>2
<1>4. ASSUME NEW m \in Nodes, m # n, Pulses(m)' PROVE Pulses(m)
  <2>1. CASE /\ cables'[m] = "live"
             /\ \A k \in 1..Len(turnUp') : turnUp'[k].node = m => turnUp'[k].word = "live"
    BY <1>1, <1>2, <2>1 DEF Pulses
  <2>2. CASE \E j \in 1..Len(turnUp') :
          /\ turnUp'[j].node = m /\ turnUp'[j].word = "live"
          /\ \A k \in 1..Len(turnUp') : k > j /\ turnUp'[k].node = m => turnUp'[k].word = "live"
    <3>1. PICK j \in 1..Len(turnUp') :
          /\ turnUp'[j].node = m /\ turnUp'[j].word = "live"
          /\ \A k \in 1..Len(turnUp') : k > j /\ turnUp'[k].node = m => turnUp'[k].word = "live"
      BY <2>2
    <3>2. j \in 1..Len(turnUp)
      BY <1>3, <1>4, <3>1
    <3>3. QED
      BY <1>1, <1>2, <3>1, <3>2 DEF Pulses
  <2>3. QED
    BY <1>4, <2>1, <2>2 DEF Pulses
<1>5. ASSUME Pulses(n)', tells[Len(tells)].word # "live" PROVE FALSE
  <2>1. /\ Len(turnUp') \in 1..Len(turnUp') /\ Len(tells) \in 1..Len(tells)
        /\ turnUp'[Len(turnUp')] = tells[Len(tells)]
    BY <1>1
  <2>2. turnUp'[Len(turnUp')].node = n /\ turnUp'[Len(turnUp')].word # "live"
    BY <1>5, <2>1
  <2>3. PICK j \in 1..Len(turnUp') :
          /\ turnUp'[j].node = n /\ turnUp'[j].word = "live"
          /\ \A k \in 1..Len(turnUp') : k > j /\ turnUp'[k].node = n => turnUp'[k].word = "live"
    BY <1>5, <2>1, <2>2 DEF Pulses
  <2>4. j # Len(turnUp')
    BY <2>2, <2>3
  <2>5. Len(turnUp') > j
    <3>1. PICK most \in Nat : most = Len(turnUp')
      BY <1>1
    <3>2. j \in 1..most /\ j # most
      BY <2>4, <3>1
    <3>3. most > j
      BY <3>2
    <3>4. QED
      BY <3>1, <3>3
  <2>6. QED
    BY <2>1, <2>2, <2>3, <2>5
<1>6. QED
  BY <1>4, <1>5

(* The first child a turn asks a grant for has its cable live, and told again  *)
(* at once where the client already left; a later one changes no cable.        *)
LEMMA AskGrantKeeps ==
  ASSUME TrafficInv, NEW t \in Turns, turnChild = "up", NEW n \in Nodes, Traffic!AskGrant(t, n)
  PROVE  TrafficInv'
<1>1. TrafficTyped /\ WalkStands(t) /\ RowsStand(t) /\ WordsStand(t)
  BY DEF TrafficInv, TurnStands
<1>2. /\ stage[t] = "choosing" /\ n \notin Unbound /\ notes[t][n] = "none"
      /\ stage' = [stage EXCEPT ![t] = "asking"]
      /\ UNCHANGED <<tried, notes, turnGiven, dropped, turnAnswer>>
      /\ UNCHANGED <<attempts, owedRows, raised, aborted, deskVars>>
  BY DEF Traffic!AskGrant, Traffic!None, Traffic!log, Traffic!desk, deskVars
<1>3. turnAsked' = [turnAsked EXCEPT ![t] = Append(turnAsked[t], n)] /\ Traffic!FlowOpens(t, n)
  BY DEF Traffic!AskGrant
<1>4. /\ turnAsked[t] \in Seq(Nodes \ Unbound) /\ Len(turnAsked[t]) \in Nat
      /\ turnAsked[t] = <<>> <=> Len(turnAsked[t]) = 0
  BY <1>1, AskedFacts
<1>5. PICK line : line = Append(turnAsked[t], n)
  OBVIOUS
<1>6. /\ line \in Seq(Nodes \ Unbound) /\ line \in Seq(Nodes) /\ Len(line) = Len(turnAsked[t]) + 1
      /\ line[Len(line)] = n /\ \A i \in 1..Len(turnAsked[t]) : line[i] = turnAsked[t][i]
  <2>1. PICK Bound : Bound = Nodes \ Unbound /\ Bound \subseteq Nodes
    OBVIOUS
  <2>2. line \in Seq(Bound)
    BY <1>2, <1>4, <1>5, <2>1
  <2>3. line \in Seq(Nodes)
    BY <2>1, <2>2
  <2>4. /\ Len(line) = Len(turnAsked[t]) + 1 /\ line[Len(line)] = n
        /\ \A i \in 1..Len(turnAsked[t]) : line[i] = turnAsked[t][i]
    BY <1>4, <1>5
  <2>5. QED
    BY <2>1, <2>2, <2>3, <2>4
<1>7. /\ turnAsked' \in [Turns -> Seq(Nodes \ Unbound)] /\ turnAsked' \in [Turns -> Seq(Nodes)]
      /\ turnAsked'[t] = line /\ \A k \in Turns : k # t => turnAsked'[k] = turnAsked[k]
  <2>1. turnAsked' = [turnAsked EXCEPT ![t] = line]
    BY <1>3, <1>5
  <2>2. turnAsked \in [Turns -> Seq(Nodes \ Unbound)]
    BY <1>1, TrafficFacts
  <2>3. turnAsked \in [Turns -> Seq(Nodes)]
    BY <1>1 DEF TrafficTyped, Traffic!TrafficTypeOK
  <2>4. QED
    BY <1>6, <2>1, <2>2, <2>3
<1>8. "asking" \in Traffic!Stages
  BY DEF Traffic!Stages
<1>9. /\ stage' \in [Turns -> Traffic!Stages] /\ stage'[t] = "asking"
      /\ \A k \in Turns : k # t => stage'[k] = stage[k]
  BY <1>1, <1>2, <1>8, TrafficFacts
<1>10. LastAsked(t)' = n /\ Len(turnAsked'[t]) = Len(turnAsked[t]) + 1
  BY <1>6, <1>7 DEF LastAsked
<1>11. WalkStands(t)'
  <2>1. ASSUME NEW i \in 1..Len(turnAsked'[t]), i # Len(turnAsked'[t])
        PROVE  notes[t][turnAsked'[t][i]] # "none"
    <3>1. i \in 1..Len(turnAsked[t])
      BY <1>4, <1>10, <2>1
    <3>2. QED
      BY <1>1, <1>2, <1>6, <1>7, <3>1 DEF WalkStands
  <2>2. Len(turnAsked'[t]) > 0
    BY <1>4, <1>10
  <2>3. QED
    BY <1>2, <1>9, <1>10, <2>1, <2>2 DEF WalkStands
<1>12. RowsStand(t)'
  BY <1>1, <1>2, <1>9 DEF RowsStand
<1>13. CASE Len(turnAsked[t]) > 0
  <2>1. UNCHANGED <<turnUp, interrupted, words>>
    BY <1>3, <1>4, <1>13 DEF Traffic!FlowOpens
  <2>2. TrafficTyped'
    BY <1>1, <1>2, <1>7, <1>9, <2>1 DEF TrafficTyped, Traffic!TrafficAssumption, Traffic!TrafficTypeOK, deskVars
  <2>3. \A k \in Turns : k # t => SameTurn(k)
    BY <1>2, <1>7, <1>9, <2>1 DEF SameTurn
  <2>4. WordsStand(t)'
    BY <1>1, <1>2, <1>9, <2>1 DEF WordsStand
  <2>5. turnAsked'[t][1] = turnAsked[t][1] /\ Len(turnAsked'[t]) > 0
    <3>1. 1 \in 1..Len(turnAsked[t])
      BY <1>4, <1>13
    <3>2. QED
      BY <1>4, <1>6, <1>7, <1>10, <3>1
  <2>6. \A m \in Nodes : Carries(t, m) => Carries(t, m)'
    BY <1>9, <2>1, <2>5 DEF Carries, Traffic!Going
  <2>7. QED
    BY <1>2, <1>11, <1>12, <2>1, <2>2, <2>3, <2>4, <2>6, TurnMovesSilently DEF TurnStands
<1>14. CASE Len(turnAsked[t]) = 0
  <2>1. /\ turnUp' = turnUp \o IF aborted[t] THEN <<Traffic!Word(t, n, "live"), Traffic!Word(t, n, "failed")>>
                                             ELSE <<Traffic!Word(t, n, "live")>>
        /\ interrupted' = [interrupted EXCEPT ![t] = aborted[t]]
        /\ words' = IF aborted[t] THEN Traffic!Settled(words, t, {n}) ELSE words
    BY <1>3, <1>4, <1>14 DEF Traffic!FlowOpens
  <2>2. PICK tells \in Seq(TurnWords) :
          /\ turnUp' = turnUp \o tells /\ Len(tells) > 0
          /\ \A i \in 1..Len(tells) : tells[i].node = n
          /\ aborted[t] => tells[Len(tells)].word # "live"
    <3>1. PICK opening, closing : opening = Traffic!Word(t, n, "live") /\ closing = Traffic!Word(t, n, "failed")
      OBVIOUS
    <3>2. /\ opening \in TurnWords /\ closing \in TurnWords /\ opening.node = n /\ closing.node = n
          /\ closing.word = "failed"
      BY <3>1 DEF Traffic!Word, TurnWords, Traffic!Words
    <3>3. CASE aborted[t]
      <4>1. PICK tells : tells = <<opening, closing>>
        OBVIOUS
      <4>2. tells \in Seq(TurnWords) /\ Len(tells) = 2 /\ tells[1] = opening /\ tells[2] = closing
        BY <3>2, <4>1
      <4>3. turnUp' = turnUp \o tells
        BY <2>1, <3>1, <3>3, <4>1
      <4>4. \A i \in 1..Len(tells) : tells[i].node = n
        BY <3>2, <4>2
      <4>5. tells[Len(tells)].word # "live" /\ Len(tells) > 0
        BY <3>2, <4>2
      <4>6. QED
        BY <4>2, <4>3, <4>4, <4>5
    <3>4. CASE ~aborted[t]
      <4>1. PICK tells : tells = <<opening>>
        OBVIOUS
      <4>2. tells \in Seq(TurnWords) /\ Len(tells) = 1 /\ tells[1] = opening
        BY <3>2, <4>1
      <4>3. turnUp' = turnUp \o tells
        BY <2>1, <3>1, <3>4, <4>1
      <4>4. (\A i \in 1..Len(tells) : tells[i].node = n) /\ Len(tells) > 0
        BY <3>2, <4>2
      <4>5. QED
        BY <3>4, <4>2, <4>3, <4>4
    <3>5. QED
      BY <3>3, <3>4
  <2>3. /\ interrupted' \in [Turns -> BOOLEAN] /\ interrupted'[t] = aborted[t]
        /\ \A k \in Turns : k # t => interrupted'[k] = interrupted[k]
    <3>1. aborted[t] \in BOOLEAN /\ interrupted \in [Turns -> BOOLEAN]
      BY <1>1, TrafficFacts
    <3>2. QED
      BY <2>1, <3>1
  <2>4. /\ words' \in [Turns -> [Nodes -> Nat]] /\ \A k \in Turns : k # t => words'[k] = words[k]
        /\ ~aborted[t] => words' = words
    <3>1. CASE aborted[t]
      <4>1. {n} \in SUBSET Nodes
        OBVIOUS
      <4>2. words' = Traffic!Settled(words, t, {n})
        BY <2>1, <3>1
      <4>3. QED
        BY <1>1, <3>1, <4>1, <4>2, SettledDoes
    <3>2. CASE ~aborted[t]
      BY <1>1, <2>1, <3>2, TrafficFacts
    <3>3. QED
      BY <3>1, <3>2
  <2>5. TrafficTyped'
    BY <1>1, <1>2, <1>7, <1>9, <2>2, <2>3, <2>4, LaneStaysTyped DEF TrafficTyped,
       Traffic!TrafficAssumption, Traffic!TrafficTypeOK, Traffic!None, deskVars
  <2>6. \A k \in Turns : k # t => SameTurn(k)
    BY <1>2, <1>7, <1>9, <2>3, <2>4 DEF SameTurn
  <2>7. ~aborted[t] => ~interrupted[t] /\ \A m \in Nodes : words[t][m] = 0
    BY <1>1, <1>2 DEF WordsStand
  <2>8. WordsStand(t)'
    BY <1>2, <1>9, <2>3, <2>4, <2>7 DEF WordsStand
  <2>9. \A k \in Turns : TurnStands(k)'
    BY <1>2, <1>11, <1>12, <2>6, <2>8, OthersStand DEF TurnStands, deskVars
  <2>10. (inactive => \A m \in Nodes : cables[m] # "live")' /\ turnChild' = "up"
    BY <1>2 DEF TrafficInv, deskVars
  <2>11. cables' = cables
    BY <1>2 DEF deskVars
  <2>12. /\ \A m \in Nodes : m # n /\ Pulses(m)' => Pulses(m)
         /\ Pulses(n)' => tells[Len(tells)].word = "live"
    BY <1>1, <2>2, <2>11, LaneSays
  <2>13. ASSUME ~Throws, NEW m \in Nodes, Pulses(m)' PROVE \E k \in Turns : Carries(k, m)'
    <3>1. CASE m = n
      <4>1. ~aborted[t]
        BY <2>2, <2>12, <2>13, <3>1
      <4>2. turnAsked'[t][1] = n /\ Len(turnAsked'[t]) > 0
        <5>1. Len(line) = 1
          BY <1>6, <1>14
        <5>2. line[1] = n
          BY <1>6, <5>1
        <5>3. QED
          BY <1>7, <5>1, <5>2
      <4>3. interrupted'[t] = FALSE /\ words'[t][n] = 0
        BY <2>3, <2>4, <2>7, <4>1
      <4>4. Carries(t, n)'
        BY <1>9, <4>2, <4>3 DEF Carries, Traffic!Going
      <4>5. QED
        BY <3>1, <4>4
    <3>2. CASE m # n
      <4>1. Pulses(m)
        BY <2>12, <2>13, <3>2
      <4>2. PICK k \in Turns : Carries(k, m)
        BY <2>13, <4>1 DEF TrafficInv, PulsesAreCarried
      <4>3. k # t
        BY <1>14, <4>2 DEF Carries
      <4>4. QED
        BY <1>2, <2>6, <4>2, <4>3, OthersStand DEF deskVars
    <3>3. QED
      BY <3>1, <3>2
  <2>14. ~Throws => PulsesAreCarried'
    BY <2>13 DEF PulsesAreCarried
  <2>15. QED
    BY <2>5, <2>9, <2>10, <2>14 DEF TrafficInv
<1>15. QED
  BY <1>4, <1>13, <1>14

-----------------------------------------------------------------------------
(* The steps of the desk, of the gateway and of the child.                     *)

(* What an end leaves on the desk is live nowhere.                            *)
LEMMA LiveFailedDoes ==
  ASSUME TrafficTyped, cables' = Traffic!LiveFailed
  PROVE  /\ cables' \in [Nodes -> {"none", "live", "served", "failed"}]
         /\ \A n \in Nodes : cables'[n] # "live"
<1>1. cables \in [Nodes -> {"none", "live", "served", "failed"}]
  BY TrafficFacts
<1>2. cables' = [n \in Nodes |-> IF cables[n] = "live" THEN "failed" ELSE cables[n]]
  BY DEF Traffic!LiveFailed
<1>3. QED
  BY <1>1, <1>2

(* A step of the desk that takes no turn further and has nothing pulse that    *)
(* did not.                                                                 *)
LEMMA DeskMoves ==
  ASSUME TrafficInv, TrafficTyped', UNCHANGED Traffic!walk, UNCHANGED Traffic!log,
         UNCHANGED Traffic!client, UNCHANGED <<words, turnDeaths>>,
         inactive' => \A n \in Nodes : cables'[n] # "live",
         turnChild = "up", turnChild' = "up", \A n \in Nodes : Pulses(n)' => Pulses(n)
  PROVE  TrafficInv'
<1>1. \A t \in Turns : SameTurn(t)
  BY DEF SameTurn, Traffic!walk, Traffic!log, Traffic!client
<1>2. \A t \in Turns : TurnStands(t)' /\ \A n \in Nodes : Carries(t, n) <=> Carries(t, n)'
  BY <1>1, OthersStand
<1>3. ~Throws => PulsesAreCarried'
  BY <1>2 DEF TrafficInv, PulsesAreCarried
<1>4. QED
  BY <1>2, <1>3 DEF TrafficInv

(* The first word of the lane is heard, and the lane is one shorter.           *)
LEMMA LaneShrinks ==
  ASSUME TrafficTyped, turnUp # <<>>, turnUp' = Tail(turnUp)
  PROVE  /\ turnUp' \in Seq(TurnWords \union {Traffic!Stopped})
         /\ turnUp' \in Seq([turn : Turns \union {"none"}, node : Nodes \union {"none"},
                             word : Traffic!Words \union {"stopped"}])
         /\ Len(turnUp) \in Nat \ {0} /\ 1 \in 1..Len(turnUp) /\ Head(turnUp) = turnUp[1]
         /\ Len(turnUp') = Len(turnUp) - 1
         /\ \A m \in 1..Len(turnUp') : m + 1 \in 1..Len(turnUp) /\ turnUp'[m] = turnUp[m + 1]
<1>1. PICK Said : Said = TurnWords \union {Traffic!Stopped} /\ turnUp \in Seq(Said)
  BY TrafficFacts
<1>2. /\ turnUp' \in Seq(Said) /\ Len(turnUp) \in Nat \ {0} /\ Head(turnUp) = turnUp[1]
      /\ Len(turnUp') = Len(turnUp) - 1
      /\ \A m \in 1..Len(turnUp') : turnUp'[m] = turnUp[m + 1]
  BY <1>1
<1>3. turnUp' \in Seq(TurnWords \union {Traffic!Stopped})
  BY <1>1, <1>2
<1>4. 1 \in 1..Len(turnUp) /\ \A m \in 1..Len(turnUp') : m + 1 \in 1..Len(turnUp)
  BY <1>2
<1>5. QED
  BY <1>2, <1>3, <1>4, LaneIsTyped

(* And nothing pulses by it, where a live word was taken down and no other     *)
(* word of the child was the first.                                         *)
LEMMA HeardPulses ==
  ASSUME TrafficTyped, turnUp # <<>>, turnUp' = Tail(turnUp), NEW n \in Nodes, Pulses(n)',
         cables'[n] = "live" => \/ turnUp[1].node = n /\ turnUp[1].word = "live"
                                \/ cables[n] = "live" /\ turnUp[1].node # n
  PROVE  Pulses(n)
<1>1. /\ Len(turnUp) \in Nat \ {0} /\ 1 \in 1..Len(turnUp)
      /\ Len(turnUp') = Len(turnUp) - 1
      /\ \A m \in 1..Len(turnUp') : m + 1 \in 1..Len(turnUp) /\ turnUp'[m] = turnUp[m + 1]
  BY LaneShrinks
<1>2. ASSUME NEW k \in 1..Len(turnUp), k # 1
      PROVE  \E j \in 1..Len(turnUp') : k = j + 1 /\ turnUp'[j] = turnUp[k]
  <2>1. k - 1 \in 1..Len(turnUp') /\ k = (k - 1) + 1
    BY <1>1, <1>2
  <2>2. QED
    BY <1>1, <2>1
<1>3. CASE /\ cables'[n] = "live"
           /\ \A m \in 1..Len(turnUp') : turnUp'[m].node = n => turnUp'[m].word = "live"
  <2>1. ASSUME NEW k \in 1..Len(turnUp), k # 1, turnUp[k].node = n PROVE turnUp[k].word = "live"
    <3>1. PICK j \in 1..Len(turnUp') : turnUp'[j] = turnUp[k]
      BY <1>2, <2>1
    <3>2. QED
      BY <1>3, <2>1, <3>1
  <2>2. CASE turnUp[1].node = n /\ turnUp[1].word = "live"
    <3>1. \A k \in 1..Len(turnUp) : k > 1 => k # 1
      BY <1>1
    <3>2. QED
      BY <1>1, <2>1, <2>2, <3>1 DEF Pulses
  <2>3. CASE cables[n] = "live" /\ turnUp[1].node # n
    BY <2>1, <2>3 DEF Pulses
  <2>4. QED
    BY <1>3, <2>2, <2>3
<1>4. CASE \E j \in 1..Len(turnUp') :
          /\ turnUp'[j].node = n /\ turnUp'[j].word = "live"
          /\ \A k \in 1..Len(turnUp') : k > j /\ turnUp'[k].node = n => turnUp'[k].word = "live"
  <2>1. PICK j \in 1..Len(turnUp') :
          /\ turnUp'[j].node = n /\ turnUp'[j].word = "live"
          /\ \A k \in 1..Len(turnUp') : k > j /\ turnUp'[k].node = n => turnUp'[k].word = "live"
    BY <1>4
  <2>2. j + 1 \in 1..Len(turnUp) /\ turnUp[j + 1].node = n /\ turnUp[j + 1].word = "live"
    BY <1>1, <2>1
  <2>3. ASSUME NEW k \in 1..Len(turnUp), k > j + 1, turnUp[k].node = n PROVE turnUp[k].word = "live"
    <3>1. k # 1
      BY <1>1, <2>1, <2>3
    <3>2. PICK i \in 1..Len(turnUp') : k = i + 1 /\ turnUp'[i] = turnUp[k]
      BY <1>2, <3>1
    <3>3. i > j
      BY <1>1, <2>1, <2>3, <3>2
    <3>4. QED
      BY <2>1, <2>3, <3>2, <3>3
  <2>4. QED
    BY <2>2, <2>3 DEF Pulses
<1>5. QED
  BY <1>3, <1>4 DEF Pulses

(* A word of a turn is heard.                                               *)
LEMMA HearWordKeeps ==
  ASSUME TrafficInv, Traffic!HearWord
  PROVE  TrafficInv'
<1>1. TrafficTyped
  BY DEF TrafficInv
<1>2. /\ turnUp # <<>> /\ turnChild = "up" /\ turnUp' = Tail(turnUp) /\ Head(turnUp) # Traffic!Stopped
      /\ UNCHANGED Traffic!walk /\ UNCHANGED Traffic!log /\ UNCHANGED Traffic!client
      /\ UNCHANGED <<words, turnServing, inactive, turnChild, stops, turnDeaths>>
  BY DEF Traffic!HearWord
<1>3. 1 \in 1..Len(turnUp) /\ Head(turnUp) = turnUp[1]
  BY <1>1, <1>2, LaneShrinks
<1>4. turnUp[1] \in TurnWords
  BY <1>1, <1>2, <1>3, LaneFacts
<1>5. PICK spoken \in TurnWords : spoken = turnUp[1]
  BY <1>4
<1>6. spoken.node \in Nodes /\ spoken.word \in {"live", "served", "failed"}
  BY DEF TurnWords, Traffic!Words
<1>7. cables' = IF inactive THEN cables ELSE [cables EXCEPT ![spoken.node] = spoken.word]
  BY <1>3, <1>5 DEF Traffic!HearWord
<1>8. cables \in [Nodes -> {"none", "live", "served", "failed"}]
  BY <1>1, TrafficFacts
<1>9. cables' \in [Nodes -> {"none", "live", "served", "failed"}]
  BY <1>6, <1>7, <1>8
<1>10. TrafficTyped'
  BY <1>1, <1>2, <1>9, LaneShrinks DEF TrafficTyped, Traffic!TrafficAssumption, Traffic!TrafficTypeOK,
     Traffic!None, Traffic!Words, Traffic!walk, Traffic!log, Traffic!client
<1>11. inactive => \A n \in Nodes : cables[n] # "live"
  BY DEF TrafficInv
<1>12. inactive' => \A n \in Nodes : cables'[n] # "live"
  BY <1>2, <1>7, <1>11
<1>13. ASSUME NEW n \in Nodes, cables'[n] = "live"
       PROVE  \/ turnUp[1].node = n /\ turnUp[1].word = "live"
              \/ cables[n] = "live" /\ turnUp[1].node # n
  BY <1>5, <1>6, <1>7, <1>8, <1>11, <1>13
<1>14. \A n \in Nodes : Pulses(n)' => Pulses(n)
  BY <1>1, <1>2, <1>13, HeardPulses
<1>15. QED
  BY <1>2, <1>10, <1>12, <1>14, DeskMoves

(* That the gateway stopped is heard.                                       *)
LEMMA HearStoppedKeeps ==
  ASSUME TrafficInv, Traffic!HearStopped
  PROVE  TrafficInv'
<1>1. TrafficTyped /\ (inactive => \A n \in Nodes : cables[n] # "live")
  BY DEF TrafficInv
<1>2. /\ turnUp # <<>> /\ turnChild = "up" /\ turnUp' = Tail(turnUp) /\ Head(turnUp) = Traffic!Stopped
      /\ UNCHANGED Traffic!walk /\ UNCHANGED Traffic!log /\ UNCHANGED Traffic!client
      /\ UNCHANGED <<words, turnServing, turnChild, stops, turnDeaths>>
  BY DEF Traffic!HearStopped
<1>3. turnUp[1] = Traffic!Stopped
  BY <1>1, <1>2, LaneShrinks
<1>4. \A n \in Nodes : turnUp[1].node # n
  BY <1>1, <1>3, TrafficFacts DEF Traffic!Stopped, Traffic!None
<1>5. (cables' = Traffic!LiveFailed /\ inactive' = TRUE) \/ UNCHANGED <<cables, inactive>>
  BY DEF Traffic!HearStopped, Traffic!Interrupt
<1>6. inactive' \in BOOLEAN /\ inactive \in BOOLEAN
  BY <1>1, <1>5 DEF TrafficTyped, Traffic!TrafficTypeOK
<1>7. /\ cables' \in [Nodes -> {"none", "live", "served", "failed"}]
      /\ inactive' => \A n \in Nodes : cables'[n] # "live"
      /\ \A n \in Nodes : cables'[n] = "live" => cables[n] = "live"
  <2>1. CASE cables' = Traffic!LiveFailed /\ inactive' = TRUE
    BY <1>1, <2>1, LiveFailedDoes
  <2>2. CASE UNCHANGED <<cables, inactive>>
    BY <1>1, <2>2, TrafficFacts
  <2>3. QED
    BY <1>5, <2>1, <2>2
<1>8. TrafficTyped'
  BY <1>1, <1>2, <1>6, <1>7, LaneShrinks DEF TrafficTyped, Traffic!TrafficAssumption, Traffic!TrafficTypeOK,
     Traffic!None, Traffic!Words, Traffic!walk, Traffic!log, Traffic!client
<1>9. \A n \in Nodes : Pulses(n)' => Pulses(n)
  BY <1>1, <1>2, <1>4, <1>7, HeardPulses
<1>10. QED
  BY <1>2, <1>7, <1>8, <1>9, DeskMoves

(* The gateway stops, and says so behind what its turns said.                  *)
LEMMA StopServingKeeps ==
  ASSUME TrafficInv, Traffic!StopServing
  PROVE  TrafficInv'
<1>1. TrafficTyped /\ (inactive => \A n \in Nodes : cables[n] # "live")
  BY DEF TrafficInv
<1>2. /\ turnChild = "up" /\ stops < MaxStops /\ stops' = stops + 1 /\ turnServing' = FALSE
      /\ turnUp' = Append(turnUp, Traffic!Stopped)
      /\ UNCHANGED Traffic!walk /\ UNCHANGED Traffic!log /\ UNCHANGED Traffic!client
      /\ UNCHANGED <<words, cables, inactive, turnChild, turnDeaths>>
  BY DEF Traffic!StopServing
<1>3. PICK Said, final : /\ Said = TurnWords \union {Traffic!Stopped} /\ final = Traffic!Stopped
                        /\ turnUp \in Seq(Said) /\ final \in Said
  <2>1. PICK Said : Said = TurnWords \union {Traffic!Stopped}
    OBVIOUS
  <2>2. turnUp \in Seq(Said) /\ Traffic!Stopped \in Said
    BY <1>1, <2>1, TrafficFacts
  <2>3. QED
    BY <2>1, <2>2
<1>4. /\ turnUp' \in Seq(Said) /\ Len(turnUp) \in Nat /\ Len(turnUp') = Len(turnUp) + 1
      /\ turnUp'[Len(turnUp')] = final /\ \A m \in 1..Len(turnUp) : turnUp'[m] = turnUp[m]
  BY <1>2, <1>3
<1>5. turnUp' \in Seq(TurnWords \union {Traffic!Stopped})
  BY <1>3, <1>4
<1>6. stops' \in 0..MaxStops
  <2>1. stops \in 0..MaxStops /\ MaxStops \in Nat
    BY <1>1 DEF TrafficTyped, Traffic!TrafficAssumption, Traffic!TrafficTypeOK
  <2>2. QED
    BY <1>2, <2>1
<1>7. TrafficTyped'
  BY <1>1, <1>2, <1>5, <1>6, LaneIsTyped DEF TrafficTyped, Traffic!TrafficAssumption, Traffic!TrafficTypeOK,
     Traffic!None, Traffic!walk, Traffic!log, Traffic!client
<1>8. \A n \in Nodes : final.node # n
  BY <1>1, <1>3, TrafficFacts DEF Traffic!Stopped, Traffic!None
<1>9. \A m \in 1..Len(turnUp') : m \in 1..Len(turnUp) \/ m = Len(turnUp')
  BY <1>4
<1>10. \A m \in 1..Len(turnUp) : m \in 1..Len(turnUp')
  BY <1>4
<1>11. ASSUME NEW n \in Nodes, Pulses(n)' PROVE Pulses(n)
  <2>1. CASE /\ cables'[n] = "live"
             /\ \A m \in 1..Len(turnUp') : turnUp'[m].node = n => turnUp'[m].word = "live"
    BY <1>2, <1>4, <1>10, <2>1 DEF Pulses
  <2>2. CASE \E j \in 1..Len(turnUp') :
          /\ turnUp'[j].node = n /\ turnUp'[j].word = "live"
          /\ \A k \in 1..Len(turnUp') : k > j /\ turnUp'[k].node = n => turnUp'[k].word = "live"
    <3>1. PICK j \in 1..Len(turnUp') :
          /\ turnUp'[j].node = n /\ turnUp'[j].word = "live"
          /\ \A k \in 1..Len(turnUp') : k > j /\ turnUp'[k].node = n => turnUp'[k].word = "live"
      BY <2>2
    <3>2. j \in 1..Len(turnUp)
      BY <1>4, <1>8, <1>9, <3>1
    <3>3. QED
      BY <1>4, <1>10, <3>1, <3>2 DEF Pulses
  <2>3. QED
    BY <1>11, <2>1, <2>2 DEF Pulses
<1>12. QED
  BY <1>1, <1>2, <1>7, <1>11, DeskMoves

(* It starts again, and its desk counts what is said from then on.             *)
LEMMA StartServingKeeps ==
  ASSUME TrafficInv, Traffic!StartServing
  PROVE  TrafficInv'
<1>1. TrafficTyped
  BY DEF TrafficInv
<1>2. /\ turnChild = "up" /\ turnServing' = TRUE /\ inactive' = FALSE
      /\ UNCHANGED Traffic!walk /\ UNCHANGED Traffic!log /\ UNCHANGED Traffic!client
      /\ UNCHANGED <<words, turnUp, cables, turnChild, stops, turnDeaths>>
  BY DEF Traffic!StartServing
<1>3. TrafficTyped'
  BY <1>1, <1>2 DEF TrafficTyped, Traffic!TrafficAssumption, Traffic!TrafficTypeOK, Traffic!walk, Traffic!log,
     Traffic!client
<1>4. \A n \in Nodes : Pulses(n)' => Pulses(n)
  BY <1>2 DEF Pulses
<1>5. QED
  BY <1>2, <1>3, <1>4, DeskMoves

(* The child dies with its turns, and of what it said last some was heard.     *)
LEMMA DeathKeepsTraffic ==
  ASSUME TrafficInv, Traffic!Die
  PROVE  TrafficInv'
<1>1. TrafficTyped /\ (inactive => \A n \in Nodes : cables[n] # "live")
  BY DEF TrafficInv
<1>2. /\ turnDeaths < MaxDeaths /\ turnDeaths' = turnDeaths + 1 /\ turnChild' = "dead" /\ turnServing' = FALSE
      /\ stage' = [t \in Turns |-> IF stage[t] = "unsent" THEN "unsent" ELSE "over"] /\ turnUp' = <<>>
      /\ UNCHANGED <<turnAsked, tried, notes, turnGiven, dropped, turnAnswer, words, inactive, stops>>
      /\ UNCHANGED Traffic!log /\ UNCHANGED Traffic!client
  BY DEF Traffic!Die
<1>3. PICK heard \in 0..Len(turnUp) :
        cables' = IF inactive THEN cables
                  ELSE [n \in Nodes |->
                           LET final == {m \in 1..heard : /\ turnUp[m].node = n
                                                         /\ \A k \in m+1..heard : turnUp[k].node # n}
                           IN  IF final = {} THEN cables[n] ELSE turnUp[CHOOSE m \in final : TRUE].word]
  BY DEF Traffic!Die
<1>4. cables \in [Nodes -> {"none", "live", "served", "failed"}]
  BY <1>1, TrafficFacts
<1>5. cables' \in [Nodes -> {"none", "live", "served", "failed"}]
  <2>1. CASE inactive
    BY <1>3, <1>4, <2>1
  <2>2. CASE ~inactive
    <3>1. ASSUME NEW n \in Nodes,
                 NEW final, final = {m \in 1..heard : /\ turnUp[m].node = n
                                                    /\ \A k \in m+1..heard : turnUp[k].node # n}
          PROVE  (IF final = {} THEN cables[n] ELSE turnUp[CHOOSE m \in final : TRUE].word)
                    \in {"none", "live", "served", "failed"}
      <4>1. CASE final # {}
        <5>1. PICK m \in final : m = CHOOSE j \in final : TRUE
          BY <4>1
        <5>2. m \in 1..heard /\ turnUp[m].node = n
          BY <3>1
        <5>3. m \in 1..Len(turnUp)
          <6>1. Len(turnUp) \in Nat
            BY <1>1, TrafficFacts
          <6>2. QED
            BY <5>2, <6>1
        <5>4. turnUp[m] # Traffic!Stopped
          BY <1>1, <5>2, TrafficFacts DEF Traffic!Stopped, Traffic!None
        <5>5. turnUp[m] \in TurnWords
          BY <1>1, <5>3, <5>4, LaneFacts
        <5>6. turnUp[m].word \in {"live", "served", "failed"}
          BY <5>5 DEF TurnWords, Traffic!Words
        <5>7. QED
          BY <4>1, <5>1, <5>6
      <4>2. QED
        BY <1>4, <4>1
    <3>2. PICK hear : hear = [n \in Nodes |->
                           LET final == {m \in 1..heard : /\ turnUp[m].node = n
                                                         /\ \A k \in m+1..heard : turnUp[k].node # n}
                           IN  IF final = {} THEN cables[n] ELSE turnUp[CHOOSE m \in final : TRUE].word]
      OBVIOUS
    <3>3. hear \in [Nodes -> {"none", "live", "served", "failed"}]
      BY <3>1, <3>2
    <3>4. QED
      BY <1>3, <2>2, <3>2, <3>3
  <2>3. QED
    BY <2>1, <2>2
<1>6. stage \in [Turns -> Traffic!Stages] /\ stage' \in [Turns -> Traffic!Stages]
      /\ \A t \in Turns : stage'[t] = IF stage[t] = "unsent" THEN "unsent" ELSE "over"
  BY <1>1, <1>2, TrafficFacts DEF Traffic!Stages
<1>7. turnDeaths' \in 0..MaxDeaths /\ turnDeaths' # 0
  <2>1. turnDeaths \in 0..MaxDeaths /\ MaxDeaths \in Nat
    BY <1>1 DEF TrafficTyped, Traffic!TrafficAssumption, Traffic!TrafficTypeOK
  <2>2. QED
    BY <1>2, <2>1
<1>8. turnUp' \in Seq(TurnWords \union {Traffic!Stopped})
  BY <1>2
<1>9. TrafficTyped'
  BY <1>1, <1>2, <1>5, <1>6, <1>7, <1>8, LaneIsTyped DEF TrafficTyped, Traffic!TrafficAssumption,
     Traffic!TrafficTypeOK, Traffic!None, Traffic!Words, Traffic!log, Traffic!client
<1>10. ASSUME NEW t \in Turns PROVE TurnStands(t)'
  <2>1. WalkStands(t) /\ RowsStand(t) /\ WordsStand(t)
    BY DEF TrafficInv, TurnStands
  <2>2. stage'[t] = (IF stage[t] = "unsent" THEN "unsent" ELSE "over")
    BY <1>6
  <2>3. WalkStands(t)'
    BY <1>2, <2>1, <2>2 DEF WalkStands
  <2>4. Traffic!RowPublished(t)' <=> Traffic!RowPublished(t)
    BY <1>2 DEF Traffic!RowPublished, Traffic!log
  <2>5. RowsStand(t)'
    BY <1>2, <1>7, <2>1, <2>2, <2>4 DEF RowsStand, Traffic!log
  <2>6. WordsStand(t)'
    BY <1>2, <2>1, <2>2 DEF WordsStand, Traffic!client
  <2>7. QED
    BY <2>3, <2>5, <2>6 DEF TurnStands
<1>11. inactive' => \A n \in Nodes : cables'[n] # "live"
  BY <1>1, <1>2, <1>3
<1>12. QED
  BY <1>2, <1>9, <1>10, <1>11 DEF TrafficInv

(* And its exit is heard, with nothing of it on its way.                       *)
LEMMA ExitKeepsTraffic ==
  ASSUME TrafficInv, Traffic!HearExit
  PROVE  TrafficInv'
<1>1. TrafficTyped
  BY DEF TrafficInv
<1>2. /\ turnChild = "dead" /\ turnChild' = "up" /\ cables' = Traffic!LiveFailed /\ inactive' = TRUE
      /\ UNCHANGED Traffic!walk /\ UNCHANGED Traffic!log /\ UNCHANGED Traffic!client
      /\ UNCHANGED <<words, turnServing, turnUp, stops, turnDeaths>>
  BY DEF Traffic!HearExit, Traffic!Interrupt
<1>3. turnUp = <<>>
  BY <1>2 DEF TrafficInv
<1>4. /\ cables' \in [Nodes -> {"none", "live", "served", "failed"}]
      /\ \A n \in Nodes : cables'[n] # "live"
  BY <1>1, <1>2, LiveFailedDoes
<1>5. TrafficTyped'
  BY <1>1, <1>2, <1>4 DEF TrafficTyped, Traffic!TrafficAssumption, Traffic!TrafficTypeOK, Traffic!None,
     Traffic!Words, Traffic!walk, Traffic!log, Traffic!client
<1>6. \A t \in Turns : SameTurn(t)
  BY <1>2 DEF SameTurn, Traffic!walk, Traffic!log, Traffic!client
<1>7. \A t \in Turns : TurnStands(t)'
  BY <1>2, <1>6, OthersStand
<1>8. 1..Len(turnUp') = {}
  BY <1>2, <1>3
<1>9. PulsesAreCarried'
  BY <1>4, <1>8 DEF PulsesAreCarried, Pulses
<1>10. QED
  BY <1>2, <1>4, <1>5, <1>7, <1>9 DEF TrafficInv

-----------------------------------------------------------------------------
LEMMA TrafficInit ==
  ASSUME Traffic!TrafficAssumption, Traffic!Init
  PROVE  TrafficInv
<1>1. /\ stage = [t \in Turns |-> "unsent"] /\ turnAsked = [t \in Turns |-> <<>>]
      /\ tried = [t \in Turns |-> "none"] /\ notes = [t \in Turns |-> [n \in Nodes |-> "none"]]
      /\ attempts = [t \in Turns |-> [n \in Nodes |-> "none"]] /\ owedRows = [t \in Turns |-> {}]
      /\ raised = [t \in Turns |-> FALSE] /\ turnGiven = [t \in Turns |-> "none"]
      /\ dropped = [t \in Turns |-> {}] /\ turnAnswer = [t \in Turns |-> "none"]
      /\ aborted = [t \in Turns |-> FALSE] /\ interrupted = [t \in Turns |-> FALSE]
      /\ words = [t \in Turns |-> [n \in Nodes |-> 0]] /\ turnServing = TRUE /\ turnUp = <<>>
      /\ cables = [n \in Nodes |-> "none"] /\ inactive = FALSE /\ turnChild = "up"
      /\ stops = 0 /\ turnDeaths = 0
  BY DEF Traffic!Init, Traffic!None
<1>2. "unsent" \in Traffic!Stages
  BY DEF Traffic!Stages
<1>3. turnUp \in Seq(TurnWords \union {Traffic!Stopped})
  BY <1>1
<1>4. turnUp \in Seq([turn : Turns \union {"none"}, node : Nodes \union {"none"},
                      word : Traffic!Words \union {"stopped"}])
  BY <1>3, LaneIsTyped
<1>5. turnAsked \in [Turns -> Seq(Nodes \ Unbound)] /\ turnAsked \in [Turns -> Seq(Nodes)]
  BY <1>1
<1>6. MaxStops \in Nat /\ MaxDeaths \in Nat
  BY DEF Traffic!TrafficAssumption
<1>7. stops \in 0..MaxStops /\ turnDeaths \in 0..MaxDeaths
  BY <1>1, <1>6
<1>8. TrafficTyped
  BY <1>1, <1>2, <1>3, <1>4, <1>5, <1>7 DEF TrafficTyped, Traffic!TrafficTypeOK, Traffic!None, Traffic!NoteKinds,
     Traffic!Attempts, Traffic!Words
<1>9. ASSUME NEW t \in Turns PROVE TurnStands(t)
  <2>1. Len(turnAsked[t]) = 0 /\ stage[t] = "unsent"
    BY <1>1
  <2>2. \A n \in Nodes : attempts[t][n] = "none" /\ words[t][n] = 0
    BY <1>1
  <2>3. ~raised[t] /\ ~interrupted[t]
    BY <1>1
  <2>4. WalkStands(t)
    BY <2>1 DEF WalkStands
  <2>5. RowsStand(t)
    BY <2>1, <2>2, <2>3 DEF RowsStand
  <2>6. WordsStand(t)
    BY <2>1, <2>2, <2>3 DEF WordsStand
  <2>7. QED
    BY <2>4, <2>5, <2>6 DEF TurnStands
<1>10. 1..Len(turnUp) = {} /\ \A n \in Nodes : cables[n] # "live"
  BY <1>1
<1>11. PulsesAreCarried
  BY <1>10 DEF PulsesAreCarried, Pulses
<1>12. QED
  BY <1>1, <1>8, <1>9, <1>11 DEF TrafficInv

LEMMA TrafficNext ==
  ASSUME TrafficInv, [Traffic!Next]_Traffic!vars
  PROVE  TrafficInv'
<1>1. ASSUME turnChild = "up", NEW t \in Turns, Traffic!TurnSteps(t) PROVE TrafficInv'
  <2>1. CASE Traffic!Arrive(t)
    BY <1>1, <2>1, ArriveKeeps
  <2>2. CASE Traffic!Abort(t)
    BY <1>1, <2>2, AbortKeeps
  <2>3. ASSUME NEW n \in Nodes, Traffic!TryUnbound(t, n) \/ Traffic!AskGrant(t, n) \/ Traffic!DroppedIsRead(t, n)
        PROVE  TrafficInv'
    BY <1>1, <2>3, TryUnboundKeeps, AskGrantKeeps, DroppedIsReadKeeps
  <2>4. CASE Traffic!GrantMissing(t)
    BY <1>1, <2>4, GrantMissingKeeps
  <2>5. CASE Traffic!GrantResolved(t)
    BY <1>1, <2>5, GrantResolvedKeeps
  <2>6. CASE Traffic!Unreached(t) \/ Traffic!DiedBeforeCommit(t) \/ Traffic!Refused(t)
    BY <1>1, <2>6, AttemptEndsKeep
  <2>7. CASE Traffic!AttemptThrows(t)
    BY <1>1, <2>7, AttemptThrowsKeeps
  <2>8. ASSUME NEW result \in {"served", "failed"}, Traffic!AnswerStands(t, result) PROVE TrafficInv'
    BY <1>1, <2>8, AnswerStandsKeeps
  <2>9. CASE Traffic!NobodyServes(t)
    BY <1>1, <2>9, NobodyServesKeeps
  <2>10. CASE Traffic!QuoteRead(t)
    BY <1>1, <2>10, QuoteReadKeeps
  <2>11. CASE Traffic!BodyEnds(t)
    BY <1>1, <2>11, BodyEndsKeeps
  <2>12. QED
    BY <1>1, <2>1, <2>2, <2>3, <2>4, <2>5, <2>6, <2>7, <2>8, <2>9, <2>10, <2>11 DEF Traffic!TurnSteps
<1>2. CASE Traffic!DeskSteps
  BY <1>2, HearWordKeeps, HearStoppedKeeps, StartServingKeeps DEF Traffic!DeskSteps
<1>3. CASE UNCHANGED Traffic!vars
  <2>1. /\ UNCHANGED Traffic!walk /\ UNCHANGED Traffic!log /\ UNCHANGED Traffic!client
        /\ UNCHANGED <<words, turnServing, turnUp, cables, inactive, turnChild, stops, turnDeaths>>
    BY <1>3 DEF Traffic!vars, Traffic!desk
  <2>2. TrafficTyped'
    BY <2>1 DEF TrafficInv, TrafficTyped, Traffic!TrafficAssumption, Traffic!TrafficTypeOK, Traffic!walk, Traffic!log,
       Traffic!client
  <2>3. \A t \in Turns : SameTurn(t)
    BY <2>1 DEF SameTurn, Traffic!walk, Traffic!log, Traffic!client
  <2>4. \A t \in Turns : TurnStands(t)' /\ \A n \in Nodes : Carries(t, n) <=> Carries(t, n)'
    BY <2>1, <2>3, OthersStand
  <2>5. \A n \in Nodes : Pulses(n)' => Pulses(n)
    BY <2>1 DEF Pulses
  <2>6. turnChild' = "up" /\ ~Throws => PulsesAreCarried'
    BY <2>1, <2>4, <2>5 DEF TrafficInv, PulsesAreCarried
  <2>7. QED
    BY <2>1, <2>2, <2>4, <2>6 DEF TrafficInv
<1>4. QED
  BY <1>1, <1>2, <1>3, StopServingKeeps, DeathKeepsTraffic, ExitKeepsTraffic DEF Traffic!Next

(* What the invariant says.                                                 *)
LEMMA TrafficSays ==
  ASSUME TrafficInv
  PROVE  Traffic!TurnsAreTold
<1>1. TrafficTyped /\ \A t \in Turns : WalkStands(t) /\ RowsStand(t) /\ WordsStand(t)
  BY DEF TrafficInv, TurnStands
<1>2. Traffic!TrafficTypeOK
  BY <1>1 DEF TrafficTyped
<1>3. Traffic!FailuresLeaveARow
  BY <1>1 DEF Traffic!FailuresLeaveARow, RowsStand
<1>4. ~Throws => Traffic!NoRowStaysOpen
  BY <1>1 DEF Traffic!NoRowStaysOpen, RowsStand, WalkStands
<1>5. Unbound = {} => Traffic!CablesArePaintedOnce
  BY <1>1 DEF Traffic!CablesArePaintedOnce, WordsStand
<1>6. ASSUME ~Throws PROVE Traffic!LiveMeansInFlight
  <2>1. SUFFICES ASSUME turnChild = "up", NEW n \in Nodes, cables[n] = "live",
                        ~ \E m \in DOMAIN turnUp : turnUp[m].node = n /\ turnUp[m].word # "live"
                 PROVE  \E t \in Turns : Traffic!Opened(t, n) /\ stage[t] \in Traffic!Going /\ ~interrupted[t]
    BY DEF Traffic!LiveMeansInFlight
  <2>2. DOMAIN turnUp = 1..Len(turnUp)
    BY <1>1, TrafficFacts
  <2>3. Pulses(n)
    BY <2>1, <2>2 DEF Pulses
  <2>4. PICK t \in Turns : Carries(t, n)
    BY <1>6, <2>1, <2>3 DEF TrafficInv, PulsesAreCarried
  <2>5. turnAsked[t] # <<>> /\ Head(turnAsked[t]) = n
    BY <1>1, <2>4, AskedFacts DEF Carries
  <2>6. QED
    BY <2>4, <2>5 DEF Carries, Traffic!Opened
<1>7. QED
  BY <1>2, <1>3, <1>4, <1>5, <1>6 DEF Traffic!TurnsAreTold

(* Of any number of requests walking any children, however their clients leave *)
(* and however often the gateway stops and the child dies: every failed turn   *)
(* left one row to read and never one too many; and where no attempt throws, a *)
(* cable that reads live has a turn that carries it or a word on its way that  *)
(* ends it, and no row of a turn that is over reads in flight but one whose    *)
(* answer is still being let go. Where every account still stands in the       *)
(* registry, a turn nobody left paints each of its cables once                 *)
(* (gateway-proxy.ts:109-122, gateway-traffic-watch.ts:87-105).                *)
THEOREM TrafficIsTold ==
  ASSUME Traffic!TrafficAssumption
  PROVE  Traffic!Spec => []Traffic!TurnsAreTold
<1>1. Traffic!Init => TrafficInv
  BY TrafficInit
<1>2. TrafficInv /\ [Traffic!Next]_Traffic!vars => TrafficInv'
  BY TrafficNext
<1>3. TrafficInv => Traffic!TurnsAreTold
  BY TrafficSays
<1>4. QED
  BY <1>1, <1>2, <1>3, PTL DEF Traffic!Spec

=============================================================================
