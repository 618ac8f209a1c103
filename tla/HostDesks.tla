------------------------------ MODULE HostDesks ------------------------------
(***************************************************************************)
(* The desks of the main process that keep what the engine child says on    *)
(* its own (engine-host-desks.ts): the log desk (logs-ledger.ts), which     *)
(* keeps rows, tells the windows of them in runs and hands each settled one  *)
(* to the usage ledger, and a route-node desk (route-node-desk.ts), here    *)
(* the one that files cooled nodes.  Gateways are started, stopped and      *)
(* forgotten (engine-host.ts), the child dies, and a window reloads, while   *)
(* the turns of an earlier life of a gateway are still speaking.             *)
(***************************************************************************)
EXTENDS Naturals, Sequences, SequencesExt

CONSTANTS
    Gateways,
    Rows,           \* the attempts a turn may list
    Raised,         \* the rows the gateway itself writes, settled on arrival
    Owner(_),       \* the gateway a row is of
    Retained,       \* LOGS_RETAINED_MAX
    MaxStops,       \* bound: lives of the gateways that end
    MaxDeaths,      \* bound: deaths of the engine child
    MaxGiveUps,     \* bound: directives the host gives up waiting for
    MaxForgets,     \* bound: gateways removed
    MaxReloads,     \* bound: windows that reload
    MaxCooled       \* bound: nodes stood down

DesksAssumption ==
    /\ Raised \subseteq Rows
    /\ \A r \in Rows : Owner(r) \in Gateways
    /\ Retained \in Nat \ {0}
    /\ {MaxStops, MaxDeaths, MaxGiveUps, MaxForgets, MaxReloads, MaxCooled} \subseteq Nat

VARIABLES
    (* the engine child *)
    alive,
    life,        \* [gateway]: its lives so far, and whether the last one stands
    sent,        \* [row]: the life its turn was served in, 0 before
    spoken,      \* [row]: the last version the child told of it
    cooled,      \* the gateways whose standing life stands a node down
    up,          \* what was said and the host has not heard
    (* the host *)
    owed,        \* [gateway]: the directive sent and not run
    awaited,     \* the gateways whose directive the host waits on
    states,      \* the gateways the host keeps a state of
    retained,    \* the rows the log desk keeps, in the order they arrived
    version,     \* [row]: the latest version the log desk held
    waiting,     \* the rows that wait for the next run to the windows
    pending,     \* whether that run is scheduled
    inactive,    \* the gateways whose late reports are dropped
    settledIds,
    told,        \* [row]: how often the usage ledger was handed it
    filed,       \* the gateways a cooled node is filed under
    refiling,    \* whether the windows are owed that desk's snapshot
    (* a window *)
    shown,       \* [row]: the version it holds
    shownCooled,
    reloaded,    \* whether it has yet to be sent the history again
    counts

engine == <<alive, life, sent, spoken, cooled>>
logDesk == <<retained, version, waiting, pending, inactive, settledIds, told>>
coolDesk == <<filed, refiling>>
window == <<shown, shownCooled, reloaded>>
host == <<owed, awaited, states>>
vars == <<engine, up, host, logDesk, coolDesk, window, counts>>

None == "none"
Versions == {None, "open", "measured", "interrupted", "raised"}

RowSettled(v) == v \in {"measured", "interrupted", "raised"}

Standing(g) == life[g].stands
Current(r) == life[Owner(r)].number = sent[r] /\ Standing(Owner(r))

Spoken(r, v) == [kind |-> "row", row |-> r, version |-> v]
Cooled(g) == [kind |-> "cooled", gateway |-> g]
Reported(g, state) == [kind |-> state, gateway |-> g]

IsReportOf(word, g) == word.kind \in {"running", "stopped"} /\ word.gateway = g

(* The gateway order: a directive is sent once the one before was answered,  *)
(* or given up on; here, once the child reported it as well.                *)
Settled(g) == g \notin awaited /\ owed[g] = None /\ \A n \in DOMAIN up : ~IsReportOf(up[n], g)

Spend(what, bound) == counts[what] < bound /\ counts' = [counts EXCEPT ![what] = @ + 1]

-----------------------------------------------------------------------------
(* The engine child.                                                       *)

ServeTurn(r) ==
    /\ alive /\ Standing(Owner(r))
    /\ sent[r] = 0
    /\ sent' = [sent EXCEPT ![r] = life[Owner(r)].number]
    /\ UNCHANGED <<alive, life, spoken, cooled, up, host, logDesk, coolDesk, window, counts>>

(* A row opens once its status is known and is told again once its body     *)
(* was measured, or cut; a turn outlives the gateway that served it.         *)
Speak(r, v) ==
    /\ alive
    /\ sent[r] # 0
    /\ \/ v = "raised" /\ r \in Raised /\ spoken[r] = None
       \/ v = "open" /\ r \notin Raised /\ spoken[r] = None
       \/ v = "measured" /\ r \notin Raised /\ spoken[r] \in {None, "open"}
    /\ spoken' = [spoken EXCEPT ![r] = v]
    /\ up' = Append(up, Spoken(r, v))
    /\ UNCHANGED <<alive, life, sent, cooled, host, logDesk, coolDesk, window, counts>>

(* A refused call stands its node down in the memory of the life it was     *)
(* served in, and says so.                                                 *)
Cool(r) ==
    /\ alive
    /\ sent[r] # 0 /\ spoken[r] \in {None, "open"}
    /\ Spend("cooled", MaxCooled)
    /\ cooled' = IF Current(r) THEN cooled \cup {Owner(r)} ELSE cooled
    /\ up' = Append(up, Cooled(Owner(r)))
    /\ UNCHANGED <<alive, life, sent, spoken, host, logDesk, coolDesk, window>>

(* A start that is refused its port is reported as a stop.                  *)
RunStart(g) ==
    /\ alive
    /\ owed[g] = "start"
    /\ owed' = [owed EXCEPT ![g] = None]
    /\ \/ /\ life' = IF Standing(g) THEN life
                     ELSE [life EXCEPT ![g] = [number |-> @.number + 1, stands |-> TRUE]]
          /\ up' = Append(up, Reported(g, "running"))
       \/ /\ ~Standing(g)
          /\ up' = Append(up, Reported(g, "stopped"))
          /\ UNCHANGED life
    /\ UNCHANGED <<alive, sent, spoken, cooled, awaited, states, logDesk, coolDesk, window, counts>>

RunStop(g) ==
    /\ alive
    /\ owed[g] = "stop"
    /\ owed' = [owed EXCEPT ![g] = None]
    /\ life' = [life EXCEPT ![g].stands = FALSE]
    /\ cooled' = cooled \ {g}
    /\ up' = Append(up, Reported(g, "stopped"))
    /\ UNCHANGED <<alive, sent, spoken, awaited, states, logDesk, coolDesk, window, counts>>

Die ==
    /\ alive
    /\ Spend("deaths", MaxDeaths)
    /\ alive' = FALSE
    /\ life' = [g \in Gateways |-> [life[g] EXCEPT !.stands = FALSE]]
    /\ spoken' = [r \in Rows |-> IF sent[r] # 0 /\ ~RowSettled(spoken[r])
                                THEN "interrupted" ELSE spoken[r]]
    /\ cooled' = {}
    /\ UNCHANGED <<sent, up, host, logDesk, coolDesk, window>>

-----------------------------------------------------------------------------
(* The log desk.                                                           *)

Of(g) == {r \in Rows : Owner(r) = g}

Kept == ToSet(retained)

Unfinished(g) == {r \in Kept \cap Of(g) : version[r] = "open"}

TellTheWindowsSoon(rows) ==
    /\ waiting' = waiting \cup rows
    /\ pending' = (pending \/ waiting' # {})

(* tellSettled, over the ids an eviction left.                             *)
TellSettled(rows, ids) ==
    /\ settledIds' = ids \cup rows
    /\ told' = [r \in Rows |-> told[r] + IF r \in rows \ ids THEN 1 ELSE 0]

(* A row keeps the place its first report took.                             *)
Arrived(r) == IF r \in Kept THEN retained ELSE Append(retained, r)

(* Mutant: late reports of a stopped gateway are recorded.                  *)
NeverLate(r) == FALSE

Late(r) == Owner(r) \in inactive

HearRow(r, v) ==
    IF Late(r) THEN UNCHANGED logDesk
    ELSE LET kept == Arrived(r)
             full == Len(kept) > Retained
             evicted == IF full THEN {Head(kept)} ELSE {}
         IN  /\ retained' = IF full THEN Tail(kept) ELSE kept
             /\ version' = [version EXCEPT ![r] = v]
             /\ TellTheWindowsSoon({r})
             /\ TellSettled(IF RowSettled(v) THEN {r} ELSE {}, settledIds \ evicted)
             /\ UNCHANGED inactive

Interrupt(gone) ==
    LET open == UNION {Unfinished(g) : g \in gone}
    IN  /\ inactive' = inactive \cup gone
        /\ version' = [r \in Rows |-> IF r \in open THEN "interrupted" ELSE version[r]]
        /\ TellTheWindowsSoon(open)
        /\ TellSettled(open, settledIds)
        /\ UNCHANGED retained

(* stopWaiting, then every kept row in bounded runs.                        *)
Backfill ==
    /\ waiting' = {}
    /\ pending' = FALSE
    /\ shown' = [r \in Rows |-> IF r \in Kept THEN version[r] ELSE shown[r]]
    /\ UNCHANGED <<retained, version, settledIds, told>>

PushRows ==
    /\ pending
    /\ waiting' = {}
    /\ pending' = FALSE
    /\ shown' = [r \in Rows |-> IF r \in waiting THEN version[r] ELSE shown[r]]
    /\ UNCHANGED <<engine, up, host, retained, version, inactive, settledIds, told, coolDesk,
                   shownCooled, reloaded, counts>>

-----------------------------------------------------------------------------
(* The route-node desk.                                                    *)

File(g) == filed' = filed \cup {g} /\ refiling' = TRUE

Unfile(gone) ==
    /\ filed' = filed \ gone
    /\ refiling' = (refiling \/ filed' # filed)

PushFiled ==
    /\ refiling
    /\ refiling' = FALSE
    /\ shownCooled' = filed
    /\ UNCHANGED <<engine, up, host, logDesk, filed, shown, reloaded, counts>>

-----------------------------------------------------------------------------
(* The host.                                                               *)

(* sendDirective: the desks take a gateway as serving when its start is     *)
(* sent, not when it is reported.                                          *)
SendStart(g) ==
    /\ alive
    /\ Settled(g) /\ ~Standing(g)
    /\ owed' = [owed EXCEPT ![g] = "start"]
    /\ awaited' = awaited \cup {g}
    /\ inactive' = inactive \ {g}
    /\ Backfill
    /\ UNCHANGED <<engine, up, states, coolDesk, shownCooled, reloaded, counts>>

SendStop(g) ==
    /\ alive
    /\ Settled(g) /\ Standing(g)
    /\ Spend("stops", MaxStops)
    /\ owed' = [owed EXCEPT ![g] = "stop"]
    /\ awaited' = awaited \cup {g}
    /\ UNCHANGED <<engine, up, states, logDesk, coolDesk, window>>

(* The directive's time is up: nobody waits for its report any more.         *)
GiveUp(g) ==
    /\ g \in awaited
    /\ Spend("giveUps", MaxGiveUps)
    /\ awaited' = awaited \ {g}
    /\ UNCHANGED <<engine, up, owed, states, logDesk, coolDesk, window>>

DesksInterrupted(gone) == Interrupt(gone) /\ Unfile(gone)

(* answerState: a report nobody waits for any more is dropped.               *)
HearReport(report) ==
    LET g == report.gateway
    IN  /\ awaited' = awaited \ {g}
        /\ states' = IF g \in awaited THEN states \cup {g} ELSE states
        /\ UNCHANGED owed
        /\ IF report.kind = "stopped" /\ g \in awaited
           THEN DesksInterrupted({g})
           ELSE UNCHANGED <<logDesk, coolDesk>>

HearNext ==
    /\ up # <<>>
    /\ up' = Tail(up)
    /\ LET word == Head(up)
       IN  \/ /\ word.kind = "row"
              /\ HearRow(word.row, word.version)
              /\ UNCHANGED <<host, coolDesk>>
           \/ /\ word.kind = "cooled"
              /\ File(word.gateway)
              /\ UNCHANGED <<host, logDesk>>
           \/ /\ word.kind \in {"running", "stopped"}
              /\ HearReport(word)
    /\ UNCHANGED <<engine, window, counts>>

(* receiveExit: every gateway the host keeps a state of is interrupted, and  *)
(* the next start spawns another child.                                    *)
HearExit ==
    /\ ~alive
    /\ alive' = TRUE
    /\ up' = <<>>
    /\ owed' = [g \in Gateways |-> None]
    /\ awaited' = {}
    /\ DesksInterrupted(states)
    /\ UNCHANGED <<states, life, sent, spoken, cooled, window, counts>>

StillWaiting(g) == waiting \ Of(g)

(* What the desk keeps of the other gateways, in the order it had.          *)
StillKept(g) ==
    {left \in SeqOf(Kept \ Of(g), Len(retained)) :
        /\ ToSet(left) = Kept \ Of(g)
        /\ \A i, j \in DOMAIN left : i < j =>
              \E m, n \in DOMAIN retained :
                  m < n /\ retained[m] = left[i] /\ retained[n] = left[j]}

(* forgetGateway, once the gateway's stop was answered.                     *)
Forget(g) ==
    /\ Settled(g) /\ ~Standing(g) /\ g \in inactive
    /\ Spend("forgets", MaxForgets)
    /\ states' = states \ {g}
    /\ inactive' = inactive \ {g}
    /\ retained' \in StillKept(g)
    /\ waiting' = StillWaiting(g)
    /\ Unfile({g})
    /\ UNCHANGED <<engine, up, owed, awaited, version, pending, settledIds, told, window>>

-----------------------------------------------------------------------------
(* A window.                                                               *)

Reload ==
    /\ Spend("reloads", MaxReloads)
    /\ shown' = [r \in Rows |-> None]
    /\ shownCooled' = {}
    /\ reloaded' = TRUE
    /\ UNCHANGED <<engine, up, host, logDesk, coolDesk>>

(* bindEngineLogsToCache asks for the history again; nothing sends the      *)
(* route-node desks again.                                                  *)
ReplayLogs ==
    /\ reloaded
    /\ reloaded' = FALSE
    /\ Backfill
    /\ UNCHANGED <<engine, up, host, inactive, coolDesk, shownCooled, counts>>

-----------------------------------------------------------------------------
Init ==
    /\ alive = TRUE
    /\ life = [g \in Gateways |-> [number |-> 0, stands |-> FALSE]]
    /\ sent = [r \in Rows |-> 0]
    /\ spoken = [r \in Rows |-> None]
    /\ cooled = {}
    /\ up = <<>>
    /\ owed = [g \in Gateways |-> None]
    /\ awaited = {}
    /\ states \in SUBSET Gateways
    /\ retained = <<>>
    /\ version = [r \in Rows |-> None]
    /\ waiting = {}
    /\ pending = FALSE
    /\ inactive = {}
    /\ settledIds = {}
    /\ told = [r \in Rows |-> 0]
    /\ filed = {}
    /\ refiling = FALSE
    /\ shown = [r \in Rows |-> None]
    /\ shownCooled = {}
    /\ reloaded = FALSE
    /\ counts = [what \in {"stops", "deaths", "giveUps", "forgets", "reloads", "cooled"} |-> 0]

Next ==
    \/ \E r \in Rows : ServeTurn(r) \/ Cool(r) \/ \E v \in Versions : Speak(r, v)
    \/ \E g \in Gateways :
          RunStart(g) \/ RunStop(g) \/ SendStart(g) \/ SendStop(g) \/ GiveUp(g) \/ Forget(g)
    \/ Die \/ HearNext \/ HearExit
    \/ PushRows \/ PushFiled \/ Reload \/ ReplayLogs

-----------------------------------------------------------------------------
(* Fairness: timers fire, the channel and the exit are heard, the child runs *)
(* its directives, and a turn whose gateway stopped was cut, so its row is   *)
(* told.                                                                   *)
Cut(r) == ~Current(r) /\ Speak(r, "measured")

Fairness ==
    /\ WF_vars(HearNext) /\ WF_vars(HearExit)
    /\ WF_vars(PushRows) /\ WF_vars(PushFiled) /\ WF_vars(ReplayLogs)
    /\ \A g \in Gateways : WF_vars(RunStart(g)) /\ WF_vars(RunStop(g))
    /\ \A r \in Rows : WF_vars(Cut(r))

Spec == Init /\ [][Next]_vars /\ Fairness

-----------------------------------------------------------------------------
(* Every row is handed on at most once, every kept row that settled has      *)
(* been, and an open row of a gateway held as stopped is not kept.           *)
DesksTypeOK ==
    /\ retained \in Seq(Rows) /\ Len(retained) <= Retained
    /\ \A m, n \in DOMAIN retained : retained[m] = retained[n] => m = n
    /\ waiting \subseteq Rows /\ inactive \subseteq Gateways /\ filed \subseteq Gateways
    /\ pending \in BOOLEAN /\ refiling \in BOOLEAN
    /\ version \in [Rows -> Versions] /\ shown \in [Rows -> Versions]
    /\ \A r \in Kept : version[r] # None

(* tellSettled: "exactly once per row id", by the report *)
(* that measured it or by the interrupt that ended it.                       *)
SettledIsToldOnce ==
    \A r \in Rows : /\ told[r] <= 1
                    /\ (r \in Kept /\ RowSettled(version[r])) => told[r] = 1

(* A kept row the windows hold no latest version of is waiting in a run      *)
(* that is scheduled; only a window that has yet to ask again misses any.    *)
WindowsAreOwedWhatTheyMiss ==
    /\ waiting # {} => pending
    /\ reloaded \/ \A r \in Kept \ waiting : shown[r] = version[r]

(* desksInterrupted: a gateway the desks hold as stopped keeps no request    *)
(* reading in flight.                                                      *)
NoStoppedRowIsOpen == \A g \in inactive : Unfinished(g) = {}

(* forgetGateway: nothing of a removed gateway crosses to the windows in a   *)
(* later run.                                                              *)
NoRemovedRowCrosses == waiting \subseteq Kept

(* failTheUnfinishedRows: a kept request that reads in flight in a window,   *)
(* of a gateway whose life ended, does not read so for ever; where no        *)
(* gateway is removed and no report is given up on (README, Departures), for *)
(* the exit asks the gateways the host keeps a state of, and no others.      *)
NoDeadRequestPulsesForEver ==
    \A r \in Rows :
        (shown[r] = "open" /\ ~Current(r)) ~> (shown[r] # "open" \/ r \notin Kept)

(* openCooldownDesk: a node filed as standing down stands down in the        *)
(* memory of the gateway that serves, or a word about that is on its way     *)
(* (cooldowns-ledger.ts).                                             *)
(* The code departs from this (README, Departures).                   *)
FiledMeansStandingDown ==
    \A g \in filed : g \in cooled \/ ~alive \/ ~Settled(g)

(* The windows hold what the desk files, but for a snapshot they are owed.   *)
WindowsHoldTheSnapshot == refiling \/ shownCooled = filed

(* What the desks owe at once, and where: a row is told once where the desk  *)
(* never evicts or no gateway ends, a run holds only kept rows where it      *)
(* never evicts, and the snapshot is followed where no window reloads        *)
(* (README, Departures).                                                   *)
Roomy ==
    \A rows \in [1..Retained + 1 -> Rows] :
        \E m, n \in 1..Retained + 1 : m < n /\ rows[m] = rows[n]
Steady == MaxStops = 0 /\ MaxDeaths = 0

DesksAreTold ==
    /\ DesksTypeOK /\ WindowsAreOwedWhatTheyMiss /\ NoStoppedRowIsOpen
    /\ Roomy \/ Steady => SettledIsToldOnce
    /\ Roomy => NoRemovedRowCrosses
    /\ MaxReloads = 0 => WindowsHoldTheSnapshot

=============================================================================
