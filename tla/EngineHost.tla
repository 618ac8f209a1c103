----------------------------- MODULE EngineHost -----------------------------
(***************************************************************************)
(* The main process' engine host and the engine child it directs:          *)
(* apps/desktop/src/main/engine-host/engine-host.ts, engine-host-restart.ts,*)
(* gateway-order.ts, directive-waiters.ts and engine-state-ledger.ts on one *)
(* side, packages/engine/src/engine-child.ts and engine-runtime.ts on the  *)
(* other.                                                                  *)
(*                                                                         *)
(* One gateway's acts take turns in the host, each crossing to the child as *)
(* one or two directives; the child works one gateway's directives off in  *)
(* order and reports on each.  A report may come after the host gave up on *)
(* it, and the child may die at any moment, taking its listeners, what it  *)
(* was told and what it had not yet said with it.                          *)
(***************************************************************************)
EXTENDS Naturals, Sequences

CONSTANTS
    Gateways,       \* the slugs the host was opened on
    Versions,       \* the snapshots of a gateway's document
    MaxAsks,        \* bound: acts asked of the host
    MaxGiveUps,     \* bound: directives no report answers in time
    MaxDeaths,      \* bound: deaths of the child
    MaxForgets,     \* bound: gateways forgotten as removed from storage
    PortsMayBeTaken \* whether a bind may be refused

ASSUME HostAssumption ==
    /\ Versions \subseteq Nat \ {0}
    /\ MaxAsks \in Nat
    /\ MaxGiveUps \in Nat
    /\ MaxDeaths \in Nat
    /\ MaxForgets \in Nat
    /\ PortsMayBeTaken \in BOOLEAN

VARIABLES
    (* the host *)
    states,         \* [gateway]: what every window reads
    asked,          \* [gateway]: the acts waiting their turn, the one under way first
    phase,          \* [gateway]: what the act under way waits for
    awaiting,       \* [gateway]: the directive a report is awaited for, or 0
    child,          \* the resident child: none yet, up, or dead before its exit was heard
    sent,           \* directives sent so far, each wearing its number
    (* the child *)
    lanes,          \* [gateway]: the directives it has still to answer
    serving,        \* [gateway]: the snapshot its listeners serve, or 0
    reports,        \* what it said and the host has not heard
    (* bounds and history *)
    asks,           \* acts asked so far
    giveUps,
    deaths,
    forgets,
    outcome,        \* [act]: how its promise settled
    last            \* [gateway]: the act that settled last

hostVars == <<states, asked, phase, awaiting, child, sent>>
childVars == <<lanes, serving, reports>>
boundVars == <<asks, giveUps, deaths, forgets, outcome, last>>
vars == <<hostVars, childVars, boundVars>>

States == {"absent", "stopped", "failed", "running"}
Acts == {"start", "stop", "restart"}
Phases == {"idle", "starting", "stopping", "restart-stopping", "restart-between", "restart-starting"}
Restarting == {"restart-stopping", "restart-between", "restart-starting"}
Outcomes == {"open", "answered", "refused"}

Act == [act : Acts, version : Versions, ask : 1..MaxAsks]
Directive == [id : Nat \ {0}, kind : {"start", "stop"}, version : Versions]
Report == [answers : Nat \ {0}, gateway : Gateways, state : States \ {"absent"}]
Settled == [act : Acts \cup {"none"}, version : Versions \cup {0}, outcome : Outcomes]
NeverAsked == [act |-> "none", version |-> 0, outcome |-> "answered"]

Current(g) == Head(asked[g])

-----------------------------------------------------------------------------
(* The host.                                                               *)

(* start, stop and restart queue the act behind its gateway's earlier ones. *)
Queue(g, act, version) ==
    /\ asks < MaxAsks
    /\ asks' = asks + 1
    /\ asked' = [asked EXCEPT ![g] =
                    Append(@, [act |-> act, version |-> version, ask |-> asks + 1])]

Ask(g, act, version) ==
    /\ Queue(g, act, version)
    /\ UNCHANGED <<states, phase, awaiting, child, sent, childVars, giveUps, deaths, forgets, outcome, last>>

(* runningChild and sendDirective: a child is spawned where none resides,  *)
(* and a directive posted to one that already died is lost.                *)
Send(g, kind, version) ==
    /\ sent' = sent + 1
    /\ awaiting' = [awaiting EXCEPT ![g] = sent + 1]
    /\ child' = IF child = "none" THEN "up" ELSE child
    /\ lanes' = IF child = "dead" THEN lanes
                ELSE [lanes EXCEPT ![g] =
                         Append(@, [id |-> sent + 1, kind |-> kind, version |-> version])]

FirstPhase(act) ==
    CASE act = "start" -> "starting" [] act = "stop" -> "stopping" [] OTHER -> "restart-stopping"

(* Mutant: a restart opens by starting again.                              *)
StartsAtOnce(act) == IF act = "stop" THEN "stop" ELSE "start"

FirstDirective(act) == IF act = "start" THEN "start" ELSE "stop"

(* createGatewayOrder: the next act begins once the one before it settled. *)
BeginAct(g) ==
    /\ phase[g] = "idle"
    /\ asked[g] # <<>>
    /\ phase' = [phase EXCEPT ![g] = FirstPhase(Current(g).act)]
    /\ Send(g, FirstDirective(Current(g).act), Current(g).version)
    /\ UNCHANGED <<states, asked, serving, reports, boundVars>>

(* restartGateway after its stop, heard or not.                            *)
StandBackUp(g) ==
    /\ phase[g] = "restart-between"
    /\ phase' = [phase EXCEPT ![g] = "restart-starting"]
    /\ Send(g, "start", Current(g).version)
    /\ UNCHANGED <<states, asked, serving, reports, boundVars>>

(* Mutants: every report of a restart reaches the windows, or none does.   *)
NeverMidRestart(report) == FALSE
AlwaysMidRestart(report) == phase[report.gateway] \in Restarting

MidRestart(report) == report.state # "running" /\ phase[report.gateway] \in Restarting

StillAwaited(report) == awaiting[report.gateway] = report.answers

SettlesAs(over, how) ==
    /\ asked' = [g \in Gateways |-> IF g \in over THEN Tail(asked[g]) ELSE asked[g]]
    /\ outcome' = [n \in 1..MaxAsks |->
                      IF \E g \in over : Current(g).ask = n THEN how ELSE outcome[n]]
    /\ last' = [g \in Gateways |->
                   IF g \in over
                   THEN [act |-> Current(g).act, version |-> Current(g).version, outcome |-> how]
                   ELSE last[g]]

(* answerState, for a report its directive still waits on.                 *)
HearAnswer ==
    /\ reports # <<>>
    /\ child # "none"
    /\ LET report == Head(reports)
           g == report.gateway
       IN  /\ StillAwaited(report)
           /\ awaiting' = [awaiting EXCEPT ![g] = 0]
           /\ states' = IF MidRestart(report) THEN states
                        ELSE [states EXCEPT ![g] = report.state]
           /\ IF phase[g] = "restart-stopping"
              THEN /\ phase' = [phase EXCEPT ![g] = "restart-between"]
                   /\ UNCHANGED <<asked, outcome, last>>
              ELSE /\ phase' = [phase EXCEPT ![g] = "idle"]
                   /\ SettlesAs({g}, "answered")
    /\ reports' = Tail(reports)
    /\ UNCHANGED <<child, sent, lanes, serving, asks, giveUps, deaths, forgets>>

(* A report on a directive given up on answers nobody.                     *)
DropReport ==
    /\ reports # <<>>
    /\ ~StillAwaited(Head(reports))
    /\ reports' = Tail(reports)
    /\ UNCHANGED <<hostVars, lanes, serving, boundVars>>

(* Mutant: a refused act keeps its turn in the gateway's order.            *)
AfterRefusalHeld(stood) == stood

AfterRefusal(stood) == IF stood = "restart-stopping" THEN "restart-between" ELSE "idle"

(* What a refusal does to the act waiting on it: a restart swallows the    *)
(* refusal of its stop, and any other act settles refused.                 *)
Refuse(waiting) ==
    /\ awaiting' = [g \in Gateways |-> IF g \in waiting THEN 0 ELSE awaiting[g]]
    /\ phase' = [g \in Gateways |->
                    IF g \in waiting THEN AfterRefusal(phase[g]) ELSE phase[g]]
    /\ SettlesAs({g \in waiting : phase[g] # "restart-stopping"}, "refused")

(* wentQuiet writes down as stopped a gateway whose restart was refused.   *)
WentQuiet(waiting) == {g \in waiting : phase[g] = "restart-starting"}

(* No report came within DIRECTIVE_TIMEOUT_MS.                             *)
GiveUp(g) ==
    /\ awaiting[g] # 0
    /\ giveUps < MaxGiveUps
    /\ giveUps' = giveUps + 1
    /\ Refuse({g})
    /\ states' = [h \in Gateways |-> IF h \in WentQuiet({g}) THEN "stopped" ELSE states[h]]
    /\ UNCHANGED <<child, sent, childVars, asks, deaths, forgets>>

(* forget: a gateway removed from storage leaves the windows' readings,    *)
(* whatever its lane is doing.                                             *)
Forget(g) ==
    /\ states[g] # "absent"
    /\ forgets < MaxForgets
    /\ forgets' = forgets + 1
    /\ states' = [states EXCEPT ![g] = "absent"]
    /\ UNCHANGED <<asked, phase, awaiting, child, sent, childVars, asks, giveUps, deaths, outcome, last>>

(* receiveExit: every gateway the windows know reads stopped, and whoever  *)
(* still waits is refused.                                                 *)
HearExit ==
    /\ child = "dead"
    /\ child' = "none"
    /\ LET waiting == {g \in Gateways : awaiting[g] # 0}
       IN  /\ Refuse(waiting)
           /\ states' = [g \in Gateways |->
                  IF states[g] = "absent" /\ g \notin WentQuiet(waiting) THEN "absent" ELSE "stopped"]
    /\ reports' = <<>>
    /\ UNCHANGED <<sent, lanes, serving, asks, giveUps, deaths, forgets>>

-----------------------------------------------------------------------------
(* The child.                                                              *)

(* haltFor and openFor, one turn per gateway: a gateway already serving    *)
(* answers a start without looking at its snapshot.  "failed" stands for   *)
(* stopped with the port a start could not bind.                           *)
ServedAfter(g, directive) ==
    CASE directive.kind = "stop" -> {<<"stopped", 0>>}
      [] directive.kind = "start" /\ serving[g] # 0 -> {<<"running", serving[g]>>}
      [] OTHER -> {<<"running", directive.version>>}
                  \cup IF PortsMayBeTaken THEN {<<"failed", 0>>} ELSE {}

ChildAnswers(g) ==
    /\ child = "up"
    /\ lanes[g] # <<>>
    /\ \E after \in ServedAfter(g, Head(lanes[g])) :
          /\ serving' = [serving EXCEPT ![g] = after[2]]
          /\ reports' = Append(reports, [answers |-> Head(lanes[g]).id, gateway |-> g,
                                         state |-> after[1]])
    /\ lanes' = [lanes EXCEPT ![g] = Tail(@)]
    /\ UNCHANGED <<hostVars, boundVars>>

(* A directive the child could not read, or a start whose opening threw,   *)
(* is answered by nothing.                                                 *)
ChildSaysNothing(g) ==
    /\ child = "up"
    /\ lanes[g] # <<>>
    /\ Head(lanes[g]).kind = "start"
    /\ lanes' = [lanes EXCEPT ![g] = Tail(@)]
    /\ UNCHANGED <<hostVars, serving, reports, boundVars>>

Die ==
    /\ child = "up"
    /\ deaths < MaxDeaths
    /\ deaths' = deaths + 1
    /\ child' = "dead"
    /\ lanes' = [g \in Gateways |-> <<>>]
    /\ serving' = [g \in Gateways |-> 0]
    /\ \E said \in 0..Len(reports) : reports' = SubSeq(reports, 1, said)
    /\ UNCHANGED <<states, asked, phase, awaiting, sent, asks, giveUps, forgets, outcome, last>>

-----------------------------------------------------------------------------
(* The host opens on the gateways stored by then, and on no others.        *)
Init ==
    /\ states \in [Gateways -> {"absent", "stopped"}]
    /\ asked = [g \in Gateways |-> <<>>]
    /\ phase = [g \in Gateways |-> "idle"]
    /\ awaiting = [g \in Gateways |-> 0]
    /\ child = "none"
    /\ sent = 0
    /\ lanes = [g \in Gateways |-> <<>>]
    /\ serving = [g \in Gateways |-> 0]
    /\ reports = <<>>
    /\ asks = 0
    /\ giveUps = 0
    /\ deaths = 0
    /\ forgets = 0
    /\ outcome = [n \in 1..MaxAsks |-> "open"]
    /\ last = [g \in Gateways |-> NeverAsked]

HostSteps ==
    \/ \E g \in Gateways : BeginAct(g) \/ StandBackUp(g) \/ GiveUp(g) \/ Forget(g)
    \/ HearAnswer \/ DropReport \/ HearExit

ChildSteps == Die \/ \E g \in Gateways : ChildAnswers(g) \/ ChildSaysNothing(g)

Next ==
    \/ \E g \in Gateways, act \in Acts, version \in Versions : Ask(g, act, version)
    \/ HostSteps
    \/ ChildSteps

(* The event loop of the main process runs on and its timers fire; nothing *)
(* is asked of the child.                                                  *)
Fairness ==
    \A g \in Gateways : WF_vars(BeginAct(g)) /\ WF_vars(StandBackUp(g)) /\ WF_vars(GiveUp(g))

Spec == Init /\ [][Next]_vars /\ Fairness

-----------------------------------------------------------------------------
(* Properties.                                                             *)

(* Every variable keeps its type.                                          *)
TypeOK ==
    /\ states \in [Gateways -> States]
    /\ asked \in [Gateways -> Seq(Act)]
    /\ phase \in [Gateways -> Phases]
    /\ awaiting \in [Gateways -> Nat]
    /\ child \in {"none", "up", "dead"}
    /\ sent \in Nat
    /\ lanes \in [Gateways -> Seq(Directive)]
    /\ serving \in [Gateways -> Versions \cup {0}]
    /\ reports \in Seq(Report)
    /\ asks \in 0..MaxAsks
    /\ giveUps \in 0..MaxGiveUps
    /\ deaths \in 0..MaxDeaths
    /\ forgets \in 0..MaxForgets
    /\ outcome \in [1..MaxAsks -> Outcomes]
    /\ last \in [Gateways -> Settled]

Resting(g) == phase[g] = "idle" /\ last[g].outcome = "answered"

(* No gateway serves behind a window that calls it down, once the last act *)
(* asked of it was answered, however many were given up before: the answer *)
(* to the last directive settles what the late ones left behind            *)
(* (engine-host.ts:70-92, engine-runtime.ts:18-46).                        *)
ServedIsShown ==
    \A g \in Gateways :
        Resting(g) /\ serving[g] # 0 => states[g] \in {"running", "absent"}

(* No window reads a gateway as serving while nothing listens, once the    *)
(* last act asked of it was answered and no exit waits to be heard.        *)
ShownIsServed ==
    \A g \in Gateways :
        Resting(g) /\ child # "dead" /\ states[g] = "running" => serving[g] # 0

(* What hides a gateway that is down is a restart whose port was taken:    *)
(* the refused bind is its answer, and the windows keep what they read     *)
(* before it.  Nothing else that is answered leaves a window behind        *)
(* (engine-host-restart.ts:16-47).                                         *)
OnlyRefusedRestartsHide ==
    \A g \in Gateways :
        Resting(g) /\ child # "dead" /\ states[g] = "running" /\ serving[g] = 0
            => PortsMayBeTaken /\ last[g].act = "restart"

(* What serves and what the windows read agree at rest but for that.       *)
WindowsShowWhatServes == ServedIsShown /\ OnlyRefusedRestartsHide

(* A restart that was answered left its own snapshot serving, even where   *)
(* its stop was never heard back.                                          *)
RestartsServeTheirSnapshot ==
    \A g \in Gateways :
        Resting(g) /\ last[g].act = "restart" /\ serving[g] # 0 => serving[g] = last[g].version

(* A save blinks nothing: while a restart stands over a serving gateway,   *)
(* only a refusal, the child's death or its removal tells the windows      *)
(* otherwise.                                                              *)
RestartsNeverBlink ==
    [][\A g \in Gateways :
          phase[g] \in Restarting /\ states[g] = "running" /\ states'[g] # "running"
              => giveUps' # giveUps \/ child' # child \/ forgets' # forgets]_vars

(* Whatever the child does, every act asked of the host settles.           *)
EveryActSettles ==
    \A n \in 1..MaxAsks : asks >= n ~> outcome[n] # "open"
=============================================================================
