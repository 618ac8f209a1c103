----------------------------- MODULE MCServing -----------------------------
(* How a gateway serves. A stored gateway at three settings: every act let   *)
(* settle before the next, acts that overlap in every way, and jobs of the   *)
(* write lane over a child that answers late or never. A request walking two *)
(* judged routers chained, the answer of its attempt read under its bound,   *)
(* and a socket carried to xAI. `part` says which one a behaviour is of.     *)
EXTENDS GatewayServing, StreamCommit, XaiSocket, TLC

CONSTANTS entry, sorter, inner, a, b, c, d, judge, Memory, conversation,
    w, k1, k2

VARIABLES
    part,
    \* AttemptWalk
    ledger, cursors, pins, rotationPins, drain, pc, request, walkAt, path,
    turns, branch, offered, attempted, decided, spent, walkAsks, verdict,
    tries, judgeCalls, landed, spread, sawCooling, sawReady

Judged(children, branches, elseChild, rejudge) ==
    [kind |-> "router", standing |-> "bound", mode |-> "conditional", children |-> children,
     branches |-> branches, elseChild |-> elseChild, judge |-> judge, rejudge |-> rejudge]

Target == [Judged(<<>>, {}, None, FALSE) EXCEPT !.kind = "target", !.mode = "failover",
                                                !.judge = None]

(* A failover ladder over two judged routers chained, sharing a judge; the *)
(* inner one judges every request anew.                                    *)
NestedNodes == {entry, sorter, inner, a, b, c, d, judge}

NestedTable ==
    (entry :> [Target EXCEPT !.kind = "router", !.children = <<sorter, c>>]) @@
    (sorter :> Judged(<<inner, a>>, {inner}, a, FALSE)) @@
    (inner :> Judged(<<b, d>>, {b}, d, TRUE)) @@
    [n \in {a, b, c, d, judge} |-> Target]

Overlapping == INSTANCE GatewayServing WITH Versions <- {1}, MaxAsks <- 4,
    MaxReadings <- 2, MaxEdits <- 0, PortsMayBeTaken <- FALSE,
    OneActAtATime <- FALSE
WriteLane == INSTANCE GatewayServing WITH Versions <- {1}, MaxAsks <- 3,
    MaxGiveUps <- 6, MaxJobs <- 1, MaxReadings <- 1, MaxEdits <- 0,
    PortsMayBeTaken <- FALSE, OneActAtATime <- FALSE
Walk == INSTANCE AttemptWalk WITH at <- walkAt, asks <- walkAsks,
    Nodes <- NestedNodes, Entry <- entry, Table <- NestedTable, Walks <- {w},
    Conversations <- {conversation}, Apart <- {conversation}, AttemptLimit <- 8,
    Signals <- {"none"}, OneDrain <- TRUE

ASSUME SettingsAssumption ==
    /\ CommitAssumption
    /\ SocketAssumption

walkVars == <<ledger, cursors, pins, rotationPins, drain, pc, request, walkAt,
    path, turns, branch, offered, attempted, decided, spent, walkAsks,
    verdict, tries, judgeCalls, landed, spread, sawCooling, sawReady>>
allVars == <<part, servingVars, walkVars, answerVars, socketVars>>

(* The first turn names k1, as it makes no difference which.                 *)
KeysAreAlike == turnsAsked = 0 /\ queue' # <<>> => Head(queue').key = k1

PartsInit ==
    /\ part \in {"settled", "overlapping", "lane", "walk", "answer", "socket"}
    /\ CASE part = "overlapping" -> Overlapping!ServingInit
         [] part = "lane" -> WriteLane!ServingInit
         [] OTHER -> ServingInit
    /\ (part # "settled" /\ part # "overlapping" /\ part # "lane") => disk = 0
    /\ Walk!Init
    /\ AnswerInit
    /\ SocketInit
    /\ (part # "answer") => wants = "stream"

PartsNext ==
    \/ /\ part = "settled" /\ ServingNext
       /\ UNCHANGED <<part, walkVars, answerVars, socketVars>>
    \/ /\ part = "overlapping" /\ Overlapping!ServingNext
       /\ UNCHANGED <<part, walkVars, answerVars, socketVars>>
    \/ /\ part = "lane" /\ WriteLane!ServingNext
       /\ UNCHANGED <<part, walkVars, answerVars, socketVars>>
    \/ /\ part = "walk" /\ Walk!Next
       /\ UNCHANGED <<part, servingVars, answerVars, socketVars>>
    \/ /\ part = "answer" /\ AnswerNext
       /\ UNCHANGED <<part, servingVars, walkVars, socketVars>>
    \/ /\ part = "socket" /\ SocketNext /\ KeysAreAlike
       /\ UNCHANGED <<part, servingVars, walkVars, answerVars>>

PartsFairness ==
    /\ WriteLane!ServingFairness
    /\ WF_walkVars(part = "walk" /\ Walk!WalkSteps(w) /\ Walk!Observe)
    /\ WF_answerVars(part = "answer" /\ (Reads \/ AnswerSettles))
    /\ WF_answerVars(part = "answer" /\ SilenceAfter)
    /\ WF_answerVars(/\ part = "answer"
                     /\ CannotSend \/ \E carries \in {"events", "json"} : Answers(carries))
    /\ WF_socketVars(part = "socket" /\ Lane)
    /\ WF_socketVars(part = "socket" /\ \E n \in DOMAIN conns : Handshake(n))
    /\ WF_socketVars(part = "socket" /\ active # 0 /\ Owes(active) /\ Upstream(active))

PartsSpec == PartsInit /\ [][PartsNext]_allVars /\ PartsFairness

-----------------------------------------------------------------------------
(* gateway-storage-ipc.ts: a gateway serves the document that is stored once   *)
(* everything asked, written and edited has settled, no rewrite and no edit    *)
(* stands up one last asked to rest, and, however the acts overlap, nothing    *)
(* goes on serving once no document explains it. Where a removal waits for     *)
(* what came before it, the gateway is stopped before its document leaves.     *)
StoredMeansServed ==
    /\ [](part = "settled" => ServingTypeOK /\ ServesWhatIsStored /\ StopsAreKept)
    /\ [](part # "lane" => NothingServesUnstored)
    /\ [][part = "settled" => RemovalStopsIt]_allVars

(* A walk has not ended, an answer begun has not, or a socket's turn has not.  *)
TurnIsUnderWay ==
    pc[w] \notin {"idle", "done"} \/ EndIsOwed \/ Waiting

(* gateway-write-order.ts, gateway-answers.ts: a job of the lane that waits    *)
(* for the host ends with it, so the lane is never held for good; a walk over  *)
(* chained judges ends, no child holds it past the bound of the first event,   *)
(* an answer begun ends, and a turn of a socket is answered or ends it.        *)
EveryWaitEnds ==
    /\ part # "lane" \/ EveryJobEnds
    /\ TurnIsUnderWay ~> ~TurnIsUnderWay

=============================================================================
