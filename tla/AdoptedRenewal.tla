---------------------------- MODULE AdoptedRenewal ----------------------------
(***************************************************************************)
(* A plan the person's own tool signed in to.  The app keeps no copy: each *)
(* turn reads the tool's store, and where what it reads nears its end asks *)
(* the tool to renew it, one run at a time in a lane of the provider.  The *)
(* person runs the same tool whenever they like.                           *)
(***************************************************************************)
EXTENDS Naturals, Sequences, FiniteSets

CONSTANTS
    Turns,
    NoTurn,
    MaxAges    \* bound: how often the credential nears its end

AdoptedAssumption == NoTurn \notin Turns /\ MaxAges \in Nat

VARIABLES
    store,     \* what the tool's store holds: "fresh", "ageing" or "gone"
    toolFile,  \* whether this machine carries the tool
    ages,
    lane,      \* the turns in the lane of renewals, the first one at work
    step,      \* where the first one is: "waits", "checked", "runs"
    turn,      \* where each turn is, what it read first, what it was served
    moved      \* whether the store moved since the lane last read it

vars == <<store, toolFile, ages, lane, step, turn, moved>>

Blobs == {"fresh", "ageing", "gone"}
Phases == {"idle", "reading", "queued", "rereading", "served", "failed"}
Away == [phase |-> "idle", read |-> "gone", got |-> "gone"]

Serve(t, blob) == [turn EXCEPT ![t].phase = "served", ![t].got = blob]

(* A turn that asks reads the store, and is served what does not age.      *)
Ask(t) ==
    /\ turn[t].phase = "idle"
    /\ turn' = [turn EXCEPT ![t].phase = "reading"]
    /\ UNCHANGED <<store, toolFile, ages, lane, step, moved>>

Read(t) ==
    /\ turn[t].phase = "reading"
    /\ IF store = "ageing"
       THEN /\ turn' = [turn EXCEPT ![t].phase = "queued", ![t].read = store]
            /\ lane' = Append(lane, t)
       ELSE turn' = Serve(t, store) /\ UNCHANGED lane
    /\ UNCHANGED <<store, toolFile, ages, step, moved>>

(* The renewal leaves the lane with a verdict, and the next one begins.    *)
Leave(renewed) ==
    /\ lane' = Tail(lane)
    /\ step' = "waits"
    /\ LET t == Head(lane) IN
       turn' = IF renewed THEN [turn EXCEPT ![t].phase = "rereading"]
                          ELSE Serve(t, turn[t].read)

(* In the lane the store is read again: the one before may have renewed it. *)
Stale ==
    /\ lane # <<>> /\ step = "waits"
    /\ moved' = FALSE
    /\ IF store = "ageing"
       THEN step' = "checked" /\ UNCHANGED <<lane, turn>>
       ELSE Leave(TRUE)
    /\ UNCHANGED <<store, toolFile, ages>>

(* A keychain that refuses the read throws in the turn, not in the lane.   *)
StaleFails ==
    /\ lane # <<>> /\ step = "waits"
    /\ lane' = Tail(lane)
    /\ turn' = [turn EXCEPT ![Head(lane)].phase = "failed"]
    /\ UNCHANGED <<store, toolFile, ages, step, moved>>

RunTool ==
    /\ step = "checked"
    /\ IF toolFile THEN step' = "runs" /\ UNCHANGED <<lane, turn>> ELSE Leave(FALSE)
    /\ UNCHANGED <<store, toolFile, ages, moved>>

(* The tool renews what it finds ageing, and may end having renewed        *)
(* nothing; a run that failed serves what was read before it.              *)
ToolEnds(ok) ==
    /\ step = "runs"
    /\ store' \in IF store = "ageing" THEN {"ageing", "fresh"} ELSE {store}
    /\ Leave(ok)
    /\ UNCHANGED <<toolFile, ages, moved>>

Reread(t) ==
    /\ turn[t].phase = "rereading"
    /\ turn' = Serve(t, store)
    /\ UNCHANGED <<store, toolFile, ages, lane, step, moved>>

(* Outside the app: the person's own use of the tool, and time.            *)
PersonRenews ==
    /\ store = "ageing"
    /\ store' = "fresh"
    /\ UNCHANGED <<toolFile, ages, lane, step, turn>>
    /\ moved' = TRUE

PersonSignsOut ==
    /\ store # "gone"
    /\ store' = "gone"
    /\ UNCHANGED <<toolFile, ages, lane, step, turn>>
    /\ moved' = TRUE

Ages ==
    /\ store = "fresh" /\ ages < MaxAges
    /\ store' = "ageing"
    /\ ages' = ages + 1
    /\ UNCHANGED <<toolFile, lane, step, turn>>
    /\ moved' = TRUE

Init ==
    /\ store \in Blobs /\ toolFile \in BOOLEAN
    /\ ages = 0 /\ lane = <<>> /\ step = "waits" /\ moved = FALSE
    /\ turn = [t \in Turns |-> Away]

LaneSteps == Stale \/ StaleFails \/ RunTool \/ \E ok \in BOOLEAN : ToolEnds(ok)

Next ==
    \/ \E t \in Turns : Ask(t) \/ Read(t) \/ Reread(t)
    \/ LaneSteps
    \/ PersonRenews \/ PersonSignsOut \/ Ages

(* Reads answer, and the tool's headless run ends.                         *)
Fairness ==
    /\ \A t \in Turns : WF_vars(Read(t) \/ Reread(t))
    /\ WF_vars(LaneSteps)

Spec == Init /\ [][Next]_vars /\ Fairness

-----------------------------------------------------------------------------
AdoptedTypeOK ==
    /\ store \in Blobs /\ toolFile \in BOOLEAN /\ ages \in 0..MaxAges
    /\ lane \in Seq(Turns) /\ step \in {"waits", "checked", "runs"}
    /\ turn \in [Turns -> [phase : Phases, read : Blobs, got : Blobs]]
    /\ moved \in BOOLEAN

(* A run of the tool begins only on a store that nears its end, unless the *)
(* store moved after the lane read it: of turns that arrive together, those *)
(* that waited behind a renewal start no run of their own.                 *)
EveryRunFindsItAgeing ==
    [][step # "runs" /\ step' = "runs" => store = "ageing" \/ moved]_vars

SomeoneWaits == \E t \in Turns : turn[t].phase \in {"reading", "queued", "rereading"}

(* Every turn that asked is served or fails, whatever became of the runs   *)
(* and the reads of the turns before it in the lane.                       *)
EveryAskIsServed == SomeoneWaits ~> ~SomeoneWaits

=============================================================================
