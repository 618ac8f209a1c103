--------------------------- MODULE GatewayServing ---------------------------
(***************************************************************************)
(* A stored gateway document over the engine host that serves it.          *)
(*                                                                         *)
(* ipc/gateway-storage-ipc.ts and ipc/engine-ipc.ts write the document, one *)
(* job at a time in the lane of storage/gateway-write-order.ts;            *)
(* engine-host/gateway-lifecycle-requests.ts and stored-gateway-serving.ts *)
(* read it outside that lane and act on what they read;                    *)
(* storage/gateway-config-watcher.ts tells a foreign edit from the app's   *)
(* own writes.  All of them only ask the host of EngineHost, whose acts     *)
(* take their time.                                                        *)
(***************************************************************************)
EXTENDS EngineHost

CONSTANTS
    TheGateway,     \* the gateway followed; Gateways holds no other
    MaxJobs,        \* bound: jobs of the write lane
    MaxReadings,    \* bound: readings of the document, and stops, outside the lane
    MaxEdits,       \* bound: edits by another program
    OneActAtATime,  \* whether whoever asks or edits lets the last act settle
    StepsAreQuick   \* whether no edit and no debounce fits between a reading or
                    \* listing and its use, or between a write and its note

ASSUME ServingAssumption ==
    /\ Gateways = {TheGateway}
    /\ MaxJobs \in Nat /\ MaxReadings \in Nat /\ MaxEdits \in Nat
    /\ OneActAtATime \in BOOLEAN /\ StepsAreQuick \in BOOLEAN

VARIABLES
    disk,       \* the document stored, or 0
    job,        \* the write lane's job under way
    readings,   \* documents read outside the lane and not acted on yet
    known,      \* the watcher's hash of the document, or 0
    stirred,    \* whether the watcher has a change to look into
    listings,   \* what refreshes under way found on disk
    wish,       \* what a person last asked of the gateway
    jobs, reads, edits

docVars == <<disk, job, readings, known, stirred, listings, wish>>
countVars == <<jobs, reads, edits>>
servingVars == <<vars, docVars, countVars>>

Documents == Versions \cup {0}
Jobs == {"save", "update", "move", "remove"}
JobSteps == {"listing", "writing", "written", "restarting", "stopping", "deleting"}
Job == [job : Jobs, at : JobSteps, version : Versions, ask : 0..MaxAsks]
NoJob == [job |-> "none", at |-> "listing", version |-> 0, ask |-> 0]
Reading == [act : {"start", "restart", "reapply"}, version : Versions, read : 1..MaxReadings]

(* Mutant: a removal takes every gateway for one at rest.                  *)
NeverServing == FALSE

(* ctx.isServing: what the windows read, whatever is under way.            *)
IsServing == states[TheGateway] = "running"

HostAtRest == asked[TheGateway] = <<>> /\ phase[TheGateway] = "idle"

AllAtRest == HostAtRest /\ job = NoJob /\ readings = {} /\ ~stirred /\ listings = <<>>
MayAsk == OneActAtATime => AllAtRest
Unhurried == StepsAreQuick => readings = {} /\ listings = <<>> /\ job.at # "written"

allButQueue == <<states, phase, awaiting, child, sent, childVars,
                 giveUps, deaths, forgets, outcome, last>>
allButStates == <<asked, phase, awaiting, child, sent, childVars, boundVars>>

-----------------------------------------------------------------------------
(* The write lane: createGatewayStorageHandlers and movePort.              *)

BeginJob(kind, version) ==
    /\ job = NoJob
    /\ MayAsk
    /\ jobs < MaxJobs
    /\ jobs' = jobs + 1
    /\ job' = [job |-> kind, at |-> "listing", version |-> version, ask |-> 0]
    /\ wish' = CASE kind \in {"save", "move"} -> "serve"
                 [] kind = "remove" -> "rest"
                 [] OTHER -> wish
    /\ UNCHANGED <<vars, disk, readings, known, stirred, listings, reads, edits>>

(* A name already taken refuses a save, a name not stored every other job. *)
RefuseJob ==
    /\ job # NoJob
    /\ job.at = "listing"
    /\ (job.job = "save" <=> disk # 0)
    /\ job' = NoJob
    /\ UNCHANGED <<vars, disk, readings, known, stirred, listings, wish, countVars>>

Goes(step) == job' = [job EXCEPT !.at = step]

(* saveGateway and servedRewrite resolve the snapshot before they write.   *)
ResolveSnapshot ==
    /\ job.at = "listing"
    /\ job.job \in {"save", "update"} /\ (job.job = "save" <=> disk = 0)
    /\ Goes("writing")
    /\ UNCHANGED <<vars, disk, readings, known, stirred, listings, wish, countVars>>

(* movePort serves the moved document first, and writes it once that        *)
(* settled.                                                                *)
MoveRestarts ==
    /\ job.at = "listing"
    /\ job.job = "move"
    /\ disk # 0
    /\ Queue(TheGateway, "restart", job.version)
    /\ job' = [job EXCEPT !.at = "restarting", !.ask = asks + 1]
    /\ UNCHANGED <<allButQueue, disk, readings, known, stirred, listings, wish, countVars>>

MoveRestarted ==
    /\ job.at = "restarting"
    /\ outcome[job.ask] # "open"
    /\ IF outcome[job.ask] = "answered" THEN Goes("writing") ELSE job' = NoJob
    /\ UNCHANGED <<vars, disk, readings, known, stirred, listings, wish, countVars>>

(* saveGatewayConfig: the rename, which the watcher is told of.            *)
WriteDocument ==
    /\ job.at = "writing"
    /\ Unhurried
    /\ disk' = job.version
    /\ stirred' = TRUE
    /\ IF job.job = "move" THEN job' = NoJob ELSE Goes("written")
    /\ UNCHANGED <<vars, readings, known, listings, wish, countVars>>

(* A save starts what it stored; a rewrite restarts what the windows read  *)
(* as serving and leaves a stopped gateway stopped.                        *)
MustServe(kind) == kind = "save" \/ IsServing

(* noteGatewayWrite, then startGateway or restartIfServing.                *)
ServeWritten ==
    /\ job.at = "written"
    /\ known' = job.version
    /\ IF MustServe(job.job)
       THEN Queue(TheGateway, IF job.job = "save" THEN "start" ELSE "restart", job.version)
       ELSE UNCHANGED <<asks, asked>>
    /\ job' = NoJob
    /\ UNCHANGED <<allButQueue, disk, readings, stirred, listings, wish, countVars>>

Forgotten == states' = [states EXCEPT ![TheGateway] = "absent"]

(* removeGateway of a gateway the windows read as serving: it is stopped   *)
(* first, and forgotten however that ended.                                *)
RemoveStops ==
    /\ job.job = "remove"
    /\ job.at = "listing"
    /\ disk # 0
    /\ IsServing
    /\ Queue(TheGateway, "stop", job.version)
    /\ job' = [job EXCEPT !.at = "stopping", !.ask = asks + 1]
    /\ UNCHANGED <<allButQueue, disk, readings, known, stirred, listings, wish, countVars>>

RemoveStopped ==
    /\ job.at = "stopping"
    /\ outcome[job.ask] # "open"
    /\ Forgotten
    /\ IF outcome[job.ask] = "answered" THEN Goes("deleting") ELSE job' = NoJob
    /\ UNCHANGED <<allButStates, disk, readings, known, stirred, listings, wish, countVars>>

RemoveForgets ==
    /\ job.job = "remove"
    /\ job.at = "listing"
    /\ disk # 0
    /\ ~IsServing
    /\ Forgotten
    /\ Goes("deleting")
    /\ UNCHANGED <<allButStates, disk, readings, known, stirred, listings, wish, countVars>>

(* removeGatewayConfig, which throws where the file has left already.      *)
DeleteDocument ==
    /\ job.at = "deleting"
    /\ Unhurried
    /\ disk' = 0
    /\ stirred' = (stirred \/ disk # 0)
    /\ job' = NoJob
    /\ UNCHANGED <<vars, readings, known, listings, wish, countVars>>

-----------------------------------------------------------------------------
(* Readings outside the lane.                                              *)

Read(act) ==
    /\ disk # 0
    /\ reads < MaxReadings
    /\ reads' = reads + 1
    /\ readings' = readings \cup {[act |-> act, version |-> disk, read |-> reads + 1]}

(* engine:start, and start or restart picked from a menu: the stored        *)
(* document is read first.                                                 *)
AskToServe(act) ==
    /\ MayAsk
    /\ Read(act)
    /\ wish' = "serve"
    /\ UNCHANGED <<vars, disk, job, known, stirred, listings, jobs, edits>>

(* restartServingGateways: a new bind address restarts what the windows    *)
(* read as serving, from the document stored.                              *)
Rebind ==
    /\ MayAsk
    /\ IsServing
    /\ Read("restart")
    /\ UNCHANGED <<vars, disk, job, known, stirred, listings, wish, jobs, edits>>

AskToStop ==
    /\ MayAsk
    /\ states[TheGateway] # "absent"
    /\ reads < MaxReadings
    /\ reads' = reads + 1
    /\ Queue(TheGateway, "stop", CHOOSE version \in Versions : TRUE)
    /\ wish' = "rest"
    /\ UNCHANGED <<allButQueue, disk, job, readings, known, stirred, listings, jobs, edits>>

(* Mutant: a reapply serves whatever it read.                              *)
AlwaysServed(reading) == TRUE

(* A reapply reaches a gateway that serves by then.                        *)
StillWanted(reading) == reading.act = "reapply" => IsServing

ActOnReading ==
    \E reading \in readings :
        /\ readings' = readings \ {reading}
        /\ IF StillWanted(reading)
           THEN Queue(TheGateway, IF reading.act = "start" THEN "start" ELSE "restart",
                      reading.version)
           ELSE UNCHANGED <<asks, asked>>
        /\ UNCHANGED <<allButQueue, disk, job, known, stirred, listings, wish, countVars>>

-----------------------------------------------------------------------------
(* The watcher.                                                            *)

(* A person or another program edits the gateways directory.               *)
ForeignEdit(version) ==
    /\ edits < MaxEdits
    /\ MayAsk
    /\ Unhurried
    /\ version # disk
    /\ edits' = edits + 1
    /\ disk' = version
    /\ stirred' = TRUE
    /\ UNCHANGED <<vars, job, readings, known, listings, wish, jobs, reads>>

(* A debounce ends and refresh lists the directory.                        *)
RefreshReads ==
    /\ stirred
    /\ Unhurried
    /\ Len(listings) < 2
    /\ stirred' = FALSE
    /\ listings' = Append(listings, disk)
    /\ UNCHANGED <<vars, disk, job, readings, known, wish, countVars>>

PublishesRemoval(listed) == listed = 0 /\ known # 0
PublishesUpsert(listed) == listed # 0 /\ listed # known

(* publishUpserts and publishRemovals, then the hashes are replaced.  Two   *)
(* refreshes under way end in either order.                                *)
RefreshPublishes ==
    \E n \in 1..Len(listings) :
        LET listed == listings[n]
        IN  /\ listings' = [m \in 1..(Len(listings) - 1) |-> listings[IF m < n THEN m ELSE m + 1]]
            /\ known' = listed
            /\ IF PublishesUpsert(listed) /\ disk # 0 THEN Read("reapply")
               ELSE UNCHANGED <<reads, readings>>
            /\ IF PublishesRemoval(listed)
               THEN Queue(TheGateway, "stop", CHOOSE version \in Versions : TRUE)
               ELSE UNCHANGED <<asks, asked>>
            /\ UNCHANGED <<allButQueue, disk, job, stirred, wish, jobs, edits>>

-----------------------------------------------------------------------------
(* The app opens on a stored gateway at rest, or on none.                  *)
ServingInit ==
    /\ Init
    /\ disk \in {0, CHOOSE version \in Versions : TRUE}
    /\ (disk = 0 <=> states[TheGateway] = "absent")
    /\ job = NoJob
    /\ readings = {}
    /\ known = disk
    /\ stirred = FALSE
    /\ listings = <<>>
    /\ wish = "none"
    /\ jobs = 0
    /\ reads = 0
    /\ edits = 0

JobStepsOn ==
    \/ RefuseJob \/ ResolveSnapshot \/ MoveRestarts \/ MoveRestarted \/ WriteDocument
    \/ ServeWritten \/ RemoveStops \/ RemoveStopped \/ RemoveForgets \/ DeleteDocument

HostMoves ==
    /\ \/ BeginAct(TheGateway) \/ StandBackUp(TheGateway) \/ GiveUp(TheGateway)
       \/ HearAnswer \/ DropReport \/ HearExit \/ ChildSteps
    /\ UNCHANGED <<docVars, countVars>>

ServingNext ==
    \/ \E kind \in Jobs, version \in Versions : BeginJob(kind, version)
    \/ JobStepsOn
    \/ \E act \in {"start", "restart"} : AskToServe(act)
    \/ Rebind \/ AskToStop \/ ActOnReading
    \/ \E version \in Documents : ForeignEdit(version)
    \/ RefreshReads \/ RefreshPublishes
    \/ HostMoves

(* The main process runs its continuations and its timers fire.            *)
ServingFairness ==
    /\ WF_servingVars(JobStepsOn)
    /\ WF_servingVars(ActOnReading)
    /\ WF_servingVars(RefreshReads) /\ WF_servingVars(RefreshPublishes)
    /\ WF_servingVars(BeginAct(TheGateway) /\ UNCHANGED <<docVars, countVars>>)
    /\ WF_servingVars(StandBackUp(TheGateway) /\ UNCHANGED <<docVars, countVars>>)
    /\ WF_servingVars(GiveUp(TheGateway) /\ UNCHANGED <<docVars, countVars>>)

ServingSpec == ServingInit /\ [][ServingNext]_servingVars /\ ServingFairness

-----------------------------------------------------------------------------
(* Properties.                                                             *)

(* Every variable of the document side keeps its type.                     *)
ServingTypeOK ==
    /\ disk \in Documents
    /\ job \in Job \cup {NoJob}
    /\ readings \subseteq Reading
    /\ known \in Documents
    /\ stirred \in BOOLEAN
    /\ listings \in Seq(Documents)
    /\ wish \in {"none", "serve", "rest"}
    /\ jobs \in 0..MaxJobs /\ reads \in 0..MaxReadings /\ edits \in 0..MaxEdits

Quiet == AllAtRest /\ child # "dead"

(* A gateway serves the document that is stored, once everything asked,    *)
(* written and edited has settled ("Rewrites the document a stored gateway *)
(* already has, and serves what it now says", gateway-storage-ipc.ts).     *)
ServesWhatIsStored ==
    Quiet /\ serving[TheGateway] # 0 /\ disk # 0 => serving[TheGateway] = disk

(* A rewrite never contradicts an explicit stop, nor does an edit from     *)
(* outside: a gateway last asked to rest does not serve.                   *)
StopsAreKept ==
    Quiet /\ wish = "rest" => serving[TheGateway] = 0

(* Nothing serves a gateway no document explains, whoever took the         *)
(* document away.                                                          *)
NothingServesUnstored ==
    Quiet /\ disk = 0 => serving[TheGateway] = 0

(* A removal stops what the gateway serves before its document leaves the  *)
(* disk (gateway-storage-ipc.ts, removeGateway).                           *)
RemovalStopsIt == job.at = "deleting" /\ disk # 0 /\ job' = NoJob => serving[TheGateway] = 0

(* A removed gateway stays out of the windows' readings ("Stops and forgets *)
(* a removed gateway before the removal answer returns", storage-context.ts).*)
(* The code departs from this (README, Departures).                          *)
RemovedStaysForgotten ==
    Quiet /\ disk = 0 => states[TheGateway] = "absent"

(* The write lane is never held for good: a job that waits for the host    *)
(* ends with it.                                                           *)
EveryJobEnds == job # NoJob ~> job = NoJob
=============================================================================
