---------------------------- MODULE StoredProofs ----------------------------
(***************************************************************************)
(* Proofs about what the app writes down: the gateway documents, the memory *)
(* of which gateways serve, and the file conversations keep their children   *)
(* in, for any number of gateways, requests, launches, lives and deaths; and  *)
(* about the desks that keep what the engine child says of its turns.        *)
(***************************************************************************)
EXTENDS GatewayDocuments, ServingMemory, TLAPS

CONSTANTS
    \* KeptChildren
    Routers, Conversations, Children, Limit, IdleWindow, MaxNow, MaxLives,
    MaxDeaths, MaxRefusals, MaxKeeps,
    \* HostDesks
    Rows, Raised, Owner(_), Retained, MaxStops, MaxGiveUps, MaxForgets, MaxReloads, MaxCooled

VARIABLES
    \* KeptChildren
    alive, stands, store, lingering, late, opened, kept, pending, keptWrites,
    keptDisk, owed, now, counts,
    \* HostDesks
    deskAlive, life, deskSent, lastSpoken, cooled, deskUp, deskOwed, deskAwaited,
    deskStates, retained, heldVersion, heldBack, runPending, deskInactive, settledIds,
    timesTold, filed, refiling, shown, shownCooled, reloaded, deskCounts

Kept == INSTANCE KeptChildren WITH writes <- keptWrites, disk <- keptDisk
Desks == INSTANCE HostDesks WITH alive <- deskAlive, sent <- deskSent,
    spoken <- lastSpoken, up <- deskUp, owed <- deskOwed, awaited <- deskAwaited,
    states <- deskStates,
    version <- heldVersion, waiting <- heldBack, pending <- runPending,
    inactive <- deskInactive, told <- timesTold, counts <- deskCounts

-----------------------------------------------------------------------------
(* The documents, for every set of slugs, ports and definitions and any      *)
(* number of requests.                                                     *)

(* The lane keeps the listing under its head true to the disk; with that,    *)
(* what is decided from it is decided from the disk.                       *)
DocsInv == DocsTypeOK /\ ListingStands /\ NoPortIsHeldTwice /\ AnsweredIsStored

LEMMA NoDocumentIsNone == NoDocument \notin Document
  BY DocumentsAssumption DEF Document

(* What a job decides from a listing that refused nothing is a document, or  *)
(* none.                                                                   *)
LEMMA DecidedType ==
  ASSUME NEW ask \in Request, NEW listing \in Directory, ~IsRefused(ask, listing)
  PROVE  Decided(ask, listing) \in Document \cup {NoDocument}
<1>1. ask.kind \in Kinds /\ ask.slug \in Slugs /\ ask.arriving \in Document
  BY DEF Request
<1>2. ask.kind # "save" => listing[ask.slug] \in Document
  BY <1>1, NoDocumentIsNone DEF IsRefused, Stored, Directory
<1>3. CASE ask.kind = "update"
  BY <1>1, <1>2, <1>3 DEF Decided, Document
<1>4. CASE ask.kind \in {"set-port", "move-port"}
  BY <1>1, <1>2, <1>4 DEF Decided, Document
<1>5. CASE ask.kind = "remove"
  BY <1>5 DEF Decided
<1>6. CASE ask.kind = "save"
  BY <1>1, <1>6 DEF Decided
<1>7. QED
  BY <1>1, <1>3, <1>4, <1>5, <1>6 DEF Kinds

(* What a caller is told and what is decided agree, where the caller was told *)
(* the truth before.                                                       *)
LEMMA ToldIsDecided ==
  ASSUME NEW ask \in Request, NEW listing \in Directory, ~IsRefused(ask, listing)
  PROVE  ToldOf(ask, listing[ask.slug]) = Decided(ask, listing)
<1>1. ask.kind \in Kinds /\ ask.slug \in Slugs /\ ask.arriving \in Document
  BY DEF Request
<1>2. ask.kind # "save" => listing[ask.slug] \in Document /\ listing[ask.slug] # NoDocument
  BY <1>1, NoDocumentIsNone DEF IsRefused, Stored, Directory
<1>3. CASE ask.kind = "update"
  BY <1>1, <1>2, <1>3 DEF Decided, ToldOf, Document
<1>4. CASE ask.kind \in {"set-port", "move-port"}
  BY <1>1, <1>2, <1>4 DEF Decided, ToldOf, Document
<1>5. CASE ask.kind = "remove"
  BY <1>5 DEF Decided, ToldOf
<1>6. CASE ask.kind = "save"
  BY <1>1, <1>6 DEF Decided, ToldOf
<1>7. QED
  BY <1>1, <1>3, <1>4, <1>5, <1>6 DEF Kinds

(* A job that leaves the lane takes nothing of the others with it.         *)
LEMMA LeaveType ==
  ASSUME NEW n, lane \in Seq(Job), MyTurn(n), Leave(n)
  PROVE  /\ lane' \in Seq(Job)
         /\ \A m \in 1..Len(lane') : m + 1 \in 1..Len(lane) /\ lane'[m] = lane[m + 1]
<1>1. n = 1 /\ Len(lane) \in Nat /\ Len(lane) > 0
  BY DEF MyTurn
<1>2. lane' = [m \in 1..(Len(lane) - 1) |-> lane[m + 1]]
  BY <1>1 DEF Leave
<1>3. \A m \in 1..(Len(lane) - 1) : lane[m + 1] \in Job
  BY <1>1
<1>4. lane' \in Seq(Job) /\ Len(lane') = Len(lane) - 1
  BY <1>1, <1>2, <1>3
<1>5. QED
  BY <1>1, <1>2, <1>4

LEMMA InitIsGood == DocsInit => DocsInv
<1>1. SUFFICES ASSUME DocsInit PROVE DocsInv
  OBVIOUS
<1>2. DocsTypeOK
  BY <1>1, DocumentsAssumption DEF DocsInit, DocsTypeOK, Job
<1>3. ListingStands /\ NoPortIsHeldTwice /\ AnsweredIsStored
  BY <1>1 DEF DocsInit, ListingStands, NoPortIsHeldTwice, AnsweredIsStored
<1>4. QED
  BY <1>2, <1>3 DEF DocsInv

LEMMA ArriveKeeps ==
  ASSUME DocsInv, NEW ask \in Request, Arrive(ask)
  PROVE  DocsInv'
<1> USE DEF DocsInv
<1>1. DocsTypeOK'
  <2>1. Unlisted \in Directory
    BY DEF Unlisted, Directory
  <2>2. lane' \in Seq(Job)
    BY <2>1 DEF Arrive, DocsTypeOK, Job
  <2>3. requests' \in 0..MaxRequests
    BY DocumentsAssumption DEF Arrive, DocsTypeOK
  <2>4. QED
    BY <2>2, <2>3 DEF Arrive, DocsTypeOK
<1>2. ListingStands'
  <2>1. \A n \in 1..Len(lane') :
          (n \in 1..Len(lane) /\ lane'[n] = lane[n]) \/ ~lane'[n].listed
    BY DEF Arrive, DocsTypeOK
  <2>2. QED
    BY <2>1 DEF ListingStands, Arrive
<1>3. NoPortIsHeldTwice' /\ AnsweredIsStored'
  BY DEF Arrive, NoPortIsHeldTwice, Holders, Stored, AnsweredIsStored
<1>4. QED
  BY <1>1, <1>2, <1>3

LEMMA ListKeeps ==
  ASSUME DocsInv, NEW n \in 1..Len(lane), List(n)
  PROVE  DocsInv'
<1> USE DEF DocsInv
<1>1. n = 1 /\ lane[n] \in Job
  BY DEF List, MyTurn, DocsTypeOK
<1> DEFINE listed == [lane[n] EXCEPT !.listed = TRUE, !.listing = docs]
<1>2. listed \in Job /\ listed.listing = docs /\ lane' = [lane EXCEPT ![n] = listed]
  BY <1>1 DEF List, DocsTypeOK, Job
<1>3. DocsTypeOK'
  BY <1>2 DEF List, DocsTypeOK
<1>4. ListingStands'
  <2>1. Len(lane') = Len(lane)
    BY <1>2 DEF DocsTypeOK
  <2>2. \A m \in 1..Len(lane) : lane'[m] = IF m = n THEN listed ELSE lane[m]
    BY <1>2 DEF DocsTypeOK
  <2>3. QED
    BY <1>1, <1>2, <2>1, <2>2 DEF ListingStands, List
<1>5. NoPortIsHeldTwice' /\ AnsweredIsStored'
  BY DEF List, NoPortIsHeldTwice, Holders, Stored, AnsweredIsStored
<1>6. QED
  BY <1>3, <1>4, <1>5

(* Whoever leaves, nobody behind the head had listed yet.                  *)
LEMMA NobodyBehindListed ==
  ASSUME DocsInv, NEW n, MyTurn(n), Leave(n)
  PROVE  ListingStands'
<1>1. \A m \in 1..Len(lane') : m + 1 \in 1..Len(lane) /\ lane'[m] = lane[m + 1]
  BY LeaveType DEF DocsInv, DocsTypeOK
<1>2. Len(lane') \in Nat
  BY LeaveType DEF DocsInv, DocsTypeOK
<1>3. \A m \in 1..Len(lane') : ~lane'[m].listed
  BY <1>1, <1>2 DEF DocsInv, ListingStands
<1>4. QED
  BY <1>3 DEF ListingStands

LEMMA RefuseKeeps ==
  ASSUME DocsInv, NEW n \in 1..Len(lane), Refuse(n)
  PROVE  DocsInv'
<1>1. MyTurn(n) /\ Leave(n)
  BY DEF Refuse
<1>2. DocsTypeOK'
  BY <1>1, LeaveType DEF DocsInv, DocsTypeOK, Refuse
<1>3. ListingStands'
  BY <1>1, NobodyBehindListed
<1>4. NoPortIsHeldTwice' /\ AnsweredIsStored'
  BY DEF DocsInv, Refuse, NoPortIsHeldTwice, Holders, Stored, AnsweredIsStored
<1>5. QED
  BY <1>2, <1>3, <1>4 DEF DocsInv

LEMMA WriteKeeps ==
  ASSUME DocsInv, NEW n \in 1..Len(lane), Write(n)
  PROVE  DocsInv'
<1> DEFINE ask == lane[n].ask
           decided == Decided(ask, docs)
<1>1. /\ MyTurn(n) /\ Leave(n)
      /\ ask \in Request
      /\ lane[n].listing = docs
      /\ docs \in Directory
  <2>1. lane[n] \in Job /\ docs \in Directory
    BY DEF DocsInv, DocsTypeOK
  <2>2. MyTurn(n) /\ Leave(n) /\ lane[n].listed
    BY DEF Write
  <2>3. lane[n].listing = docs
    BY <2>2 DEF DocsInv, ListingStands
  <2>4. QED
    BY <2>1, <2>2, <2>3 DEF Job
<1>2. /\ ~IsRefused(ask, docs)
      /\ docs' = [docs EXCEPT ![ask.slug] = decided]
      /\ answered' = [answered EXCEPT ![ask.slug] = ToldOf(ask, @)]
  BY <1>1 DEF Write
<1>3. ask.slug \in Slugs /\ ask.arriving \in Document /\ ask.kind \in Kinds
  BY <1>1 DEF Request
<1>4. decided \in Document \cup {NoDocument}
  BY <1>1, <1>2, DecidedType
<1>5. AnsweredIsStored'
  <2>1. answered = docs
    BY DEF DocsInv, AnsweredIsStored
  <2>2. ToldOf(ask, docs[ask.slug]) = decided
    BY <1>1, <1>2, ToldIsDecided
  <2>3. answered' = [docs EXCEPT ![ask.slug] = ToldOf(ask, docs[ask.slug])]
    BY <1>2, <2>1
  <2>4. QED
    BY <1>2, <2>2, <2>3 DEF AnsweredIsStored
<1>6. docs' \in Directory
  BY <1>1, <1>2, <1>3, <1>4 DEF Directory
<1>7. DocsTypeOK'
  <2>1. answered' \in Directory
    BY <1>5, <1>6 DEF AnsweredIsStored
  <2>2. QED
    BY <1>1, <1>6, <2>1, LeaveType DEF DocsInv, DocsTypeOK, Write
<1>8. ListingStands'
  BY <1>1, NobodyBehindListed
<1>9. NoPortIsHeldTwice'
  <2>1. SUFFICES ASSUME NEW port \in Ports,
                        NEW a \in Holders(docs, port)', NEW b \in Holders(docs, port)'
                 PROVE  a = b
    BY DEF NoPortIsHeldTwice
  <2>2. /\ a \in Slugs /\ docs'[a] # NoDocument /\ docs'[a].port = port
        /\ b \in Slugs /\ docs'[b] # NoDocument /\ docs'[b].port = port
    BY DEF Holders, Stored
  <2>3. ASSUME NEW c \in Slugs, NEW d \in Slugs, c = ask.slug, d # ask.slug,
               docs'[c] # NoDocument, docs'[c].port = port,
               docs'[d] # NoDocument, docs'[d].port = port
        PROVE  FALSE
    <3>1. docs'[d] = docs[d] /\ docs'[c] = decided
      BY <1>1, <1>2, <1>3, <2>3 DEF Directory
    <3>2. d \in Holders(docs, port)
      BY <2>3, <3>1 DEF Holders, Stored
    <3>3. CASE ask.kind = "update"
      <4>1. docs[c] \in Document /\ docs[c] # NoDocument
        BY <1>1, <1>2, <2>3, <3>3, NoDocumentIsNone DEF IsRefused, Stored, Directory
      <4>2. decided.port = docs[c].port
        BY <1>3, <2>3, <3>3 DEF Decided, Document
      <4>3. c \in Holders(docs, port)
        BY <2>3, <3>1, <4>1, <4>2 DEF Holders, Stored
      <4>4. QED
        BY <2>3, <3>2, <4>3 DEF DocsInv, NoPortIsHeldTwice
    <3>4. CASE ask.kind = "remove"
      BY <2>3, <3>1, <3>4 DEF Decided
    <3>5. CASE ask.kind \in {"save", "set-port", "move-port"}
      <4>1. Holders(docs, ask.arriving.port) = {}
        BY <1>2, <3>5 DEF IsRefused, PortIsHeld
      <4>2. decided.port = ask.arriving.port
        <5>1. CASE ask.kind = "save"
          BY <5>1 DEF Decided
        <5>2. CASE ask.kind \in {"set-port", "move-port"}
          <6>1. docs[ask.slug] \in Document
            BY <1>1, <1>2, <1>3, <5>2 DEF IsRefused, Stored, Directory
          <6>2. QED
            BY <5>2, <6>1 DEF Decided, Document
        <5>3. QED
          BY <3>5, <5>1, <5>2
      <4>3. QED
        BY <2>3, <3>1, <3>2, <4>1, <4>2
    <3>6. QED
      BY <1>3, <3>3, <3>4, <3>5 DEF Kinds
  <2>4. CASE a # ask.slug /\ b # ask.slug
    <3>1. docs'[a] = docs[a] /\ docs'[b] = docs[b]
      BY <1>1, <1>2, <2>2, <2>4 DEF Directory
    <3>2. a \in Holders(docs, port) /\ b \in Holders(docs, port)
      BY <2>2, <3>1 DEF Holders, Stored
    <3>3. QED
      BY <3>2 DEF DocsInv, NoPortIsHeldTwice
  <2>5. QED
    BY <2>2, <2>3, <2>4
<1>10. QED
  BY <1>5, <1>7, <1>8, <1>9 DEF DocsInv

LEMMA StepIsGood == DocsInv /\ [DocsNext]_docsVars => DocsInv'
<1>1. SUFFICES ASSUME DocsInv, [DocsNext]_docsVars PROVE DocsInv'
  OBVIOUS
<1>2. CASE \E ask \in Request : Arrive(ask)
  BY <1>1, <1>2, ArriveKeeps
<1>3. ASSUME NEW n \in 1..Len(lane), List(n) \/ Refuse(n) \/ Write(n)
      PROVE  DocsInv'
  BY <1>1, <1>3, ListKeeps, RefuseKeeps, WriteKeeps
<1>4. CASE UNCHANGED docsVars
  BY <1>1, <1>4 DEF docsVars, DocsInv, DocsTypeOK, ListingStands, NoPortIsHeldTwice,
                   AnsweredIsStored, Holders, Stored
<1>5. QED
  BY <1>1, <1>2, <1>3, <1>4 DEF DocsNext, LaneMoves

LEMMA AlwaysGood == DocsSpec => []DocsInv
  BY InitIsGood, StepIsGood, PTL DEF DocsSpec

(* The lane never decides on a listing the disk has moved past.            *)
THEOREM ListingsStand == DocsSpec => [](DocsTypeOK /\ ListingStands)
<1>1. DocsInv => DocsTypeOK /\ ListingStands
  BY DEF DocsInv
<1>2. QED
  BY <1>1, AlwaysGood, PTL

(* No two stored gateways ever hold one port.                              *)
THEOREM PortsAreHeldOnce == DocsSpec => []NoPortIsHeldTwice
<1>1. DocsInv => NoPortIsHeldTwice
  BY DEF DocsInv
<1>2. QED
  BY <1>1, AlwaysGood, PTL

(* No write a caller was answered for is ever undone by another one.        *)
THEOREM AnswersAreKept == DocsSpec => []AnsweredIsStored
<1>1. DocsInv => AnsweredIsStored
  BY DEF DocsInv
<1>2. QED
  BY <1>1, AlwaysGood, PTL

-----------------------------------------------------------------------------
(* The memory of which gateways serve, for every set of gateways and any      *)
(* number of changes and launches, on a disk that takes the writes in any    *)
(* order, refuses them and is left with some of them unlanded.               *)

(* What the memory was told last is, while the app runs, what serves or will  *)
(* once it stands up; from the moment it is left on, what was left.          *)
FleetIsTold ==
    /\ app = "running" => /\ closed = FALSE
                          /\ running \subseteq lastTold
                          /\ lastTold \subseteq running \cup starting
    /\ app # "running" => /\ leftServing \subseteq lastTold
                          /\ lastTold \subseteq leftServing \cup leftStarting
    /\ app = "quitting" => closed = TRUE

(* Whatever the disk holds or may come to hold served at some instant.       *)
FleetsAreReal ==
    /\ disk \in fleets
    /\ \A n \in 1..Len(writes) : writes[n] \in fleets

FleetTyped ==
    /\ app \in {"running", "quitting", "ended"} /\ closed \in BOOLEAN
    /\ writes \in Seq(SUBSET Gateways)
    /\ running \subseteq Gateways /\ starting \subseteq Gateways /\ disk \subseteq Gateways

FleetInv == FleetTyped /\ FleetIsTold /\ FleetsAreReal

(* A memory that listens is told what serves; one that is closed writes       *)
(* nothing more.                                                           *)
LEMMA KeptIsTold ==
  ASSUME FleetTyped, FleetsAreReal, NEW serving \in SUBSET Gateways, Keep(serving),
         UNCHANGED disk, closed = FALSE => app = "running"
  PROVE  /\ writes' \in Seq(SUBSET Gateways)
         /\ FleetsAreReal'
         /\ closed = FALSE => lastTold' = serving
         /\ closed = TRUE => lastTold' = lastTold
<1>1. writes \in Seq(SUBSET Gateways) /\ Len(writes) \in Nat
  BY DEF FleetTyped
<1>2. fleets \subseteq fleets' /\ disk' \in fleets'
  BY DEF Keep, FleetsAreReal
<1>3. CASE closed = TRUE
  BY <1>1, <1>2, <1>3 DEF Keep, FleetsAreReal
<1>4. CASE closed = FALSE
  <2>1. writes' = Append(writes, serving) /\ lastTold' = serving
    BY <1>4 DEF Keep
  <2>2. serving \in fleets'
    BY <1>4 DEF Keep
  <2>3. /\ writes' \in Seq(SUBSET Gateways) /\ Len(writes') = Len(writes) + 1
        /\ writes'[Len(writes) + 1] = serving
        /\ \A n \in 1..Len(writes) : writes'[n] = writes[n]
    BY <1>1, <2>1
  <2>4. ASSUME NEW n \in 1..Len(writes')
        PROVE  writes'[n] \in fleets'
    <3>1. CASE n = Len(writes) + 1
      BY <2>2, <2>3, <3>1
    <3>2. CASE n # Len(writes) + 1
      <4>1. n \in 1..Len(writes)
        BY <1>1, <2>3, <2>4, <3>2
      <4>2. QED
        BY <1>2, <2>3, <4>1 DEF FleetsAreReal
    <3>3. QED
      BY <3>1, <3>2
  <2>5. QED
    BY <1>2, <1>4, <2>1, <2>3, <2>4 DEF FleetsAreReal
<1>5. QED
  BY <1>3, <1>4 DEF FleetTyped

(* A write that ends, whichever and however, leaves a fleet on the disk and   *)
(* the others on their way.                                                *)
LEMMA LandingKeepsFleets ==
  ASSUME FleetTyped, FleetsAreReal, Land
  PROVE  FleetTyped' /\ FleetsAreReal'
<1>1. PICK n \in 1..Len(writes) : /\ writes' = Left(n)
                                  /\ disk' \in {writes[n], disk}
                                  /\ UNCHANGED <<app, running, closed, starting, fleets>>
  BY DEF Land
<1>2. /\ writes \in Seq(SUBSET Gateways) /\ Len(writes) \in Nat /\ Len(writes) > 0
      /\ \A m \in 1..Len(writes) : writes[m] \in SUBSET Gateways
  BY <1>1 DEF FleetTyped
<1>3. \A m \in 1..(Len(writes) - 1) : (IF m < n THEN m ELSE m + 1) \in 1..Len(writes)
  BY <1>1, <1>2
<1>4. /\ writes' \in Seq(SUBSET Gateways) /\ Len(writes') = Len(writes) - 1
      /\ \A m \in 1..(Len(writes) - 1) : writes'[m] = writes[IF m < n THEN m ELSE m + 1]
  BY <1>1, <1>2, <1>3 DEF Left
<1>5. disk' \in fleets' /\ disk' \subseteq Gateways
  BY <1>1, <1>2 DEF FleetsAreReal, FleetTyped
<1>6. \A m \in 1..Len(writes') : writes'[m] \in fleets'
  BY <1>1, <1>3, <1>4 DEF FleetsAreReal
<1>7. QED
  BY <1>1, <1>4, <1>5, <1>6 DEF FleetTyped, FleetsAreReal

(* A launch reads the disk before the memory listens.                      *)
LEMMA LaunchKeepsFleets ==
  ASSUME FleetInv, NEW slugs \in SUBSET Gateways, disk \subseteq slugs, LaunchStarting(slugs)
  PROVE  FleetInv'
<1>1. FleetTyped'
  BY DEF FleetInv, FleetTyped, LaunchStarting
<1>2. FleetsAreReal'
  BY DEF FleetInv, FleetsAreReal, LaunchStarting
<1>3. FleetIsTold'
  BY DEF LaunchStarting, Remembered, FleetIsTold
<1>4. QED
  BY <1>1, <1>2, <1>3 DEF FleetInv

LEMMA FleetStepsKeep ==
  ASSUME FleetInv, [MemoryNext]_memoryVars
  PROVE  FleetInv'
<1> USE DEF FleetInv
<1>1. ASSUME NEW serving \in SUBSET Gateways, Change(serving)
      PROVE  FleetInv'
  <2>1. closed = FALSE /\ app = "running"
    BY <1>1 DEF Change, FleetIsTold
  <2>2. FleetTyped' /\ FleetsAreReal' /\ lastTold' = serving
    BY <1>1, <2>1, KeptIsTold DEF Change, FleetTyped
  <2>3. QED
    BY <1>1, <2>1, <2>2 DEF Change, FleetIsTold
<1>2. CASE Land
  <2>1. UNCHANGED <<app, running, closed, starting, lastTold, leftServing, leftStarting>>
    BY <1>2 DEF Land
  <2>2. QED
    BY <1>2, <2>1, LandingKeepsFleets DEF FleetIsTold
<1>3. CASE Quit \/ Crash
  <2>1. FleetTyped'
    <3>1. writes' \in Seq(SUBSET Gateways)
      <4>1. writes \in Seq(SUBSET Gateways) /\ <<>> \in Seq(SUBSET Gateways)
        BY DEF FleetTyped
      <4>2. writes' \in {writes, <<>>}
        BY <1>3 DEF Quit, Crash
      <4>3. QED
        BY <4>1, <4>2
    <3>2. QED
      BY <1>3, <3>1 DEF Quit, Crash, CloseTheMemory, FleetTyped
  <2>2. FleetsAreReal'
    BY <1>3 DEF Quit, Crash, FleetsAreReal
  <2>3. QED
    BY <1>3, <2>1, <2>2 DEF Quit, Crash, CloseTheMemory, RunIsLeft, FleetIsTold
<1>4. CASE HearExit
  <2>1. closed = FALSE => app = "running"
    BY <1>4 DEF HearExit, FleetIsTold, FleetTyped
  <2>2. FleetTyped' /\ FleetsAreReal'
    BY <1>4, <2>1, KeptIsTold DEF HearExit, FleetTyped
  <2>3. /\ closed = FALSE => lastTold' = {}
        /\ closed = TRUE => lastTold' = lastTold
    BY <1>4, <2>1, KeptIsTold DEF HearExit
  <2>4. QED
    BY <1>4, <2>1, <2>2, <2>3 DEF HearExit, FleetIsTold
<1>5. CASE End
  <2>1. writes' = <<>> /\ writes' \in Seq(SUBSET Gateways)
    BY <1>5 DEF End
  <2>2. FleetTyped' /\ FleetsAreReal'
    BY <1>5, <2>1 DEF End, FleetTyped, FleetsAreReal
  <2>3. QED
    BY <1>5, <2>2 DEF End, FleetIsTold
<1>6. CASE Launch
  BY <1>6, LaunchKeepsFleets DEF Launch, Remembered, FleetTyped
<1>7. CASE LaunchEveryGateway
  BY <1>7, LaunchKeepsFleets DEF LaunchEveryGateway, FleetTyped
<1>8. ASSUME NEW gateway \in Gateways, StandUp(gateway)
      PROVE  FleetInv'
  <2>1. running' \in SUBSET Gateways /\ closed = FALSE /\ app = "running"
    BY <1>8 DEF StandUp, FleetTyped, FleetIsTold
  <2>2. FleetTyped' /\ FleetsAreReal' /\ lastTold' = running'
    BY <1>8, <2>1, KeptIsTold DEF StandUp, Reported, FleetTyped
  <2>3. QED
    BY <1>8, <2>1, <2>2 DEF StandUp, FleetIsTold
<1>9. CASE UNCHANGED memoryVars
  BY <1>9 DEF memoryVars, FleetTyped, FleetIsTold, FleetsAreReal
<1>10. QED
  BY <1>1, <1>2, <1>3, <1>4, <1>5, <1>6, <1>7, <1>8, <1>9 DEF MemoryNext

(* AQuitKeepsTheFleet, for every set of gateways and any number of changes,    *)
(* launches and deaths, the writes ending in any order, refused or cut.     *)
THEOREM QuitsKeepTheFleet == MemorySpec => AQuitKeepsTheFleet
<1>1. MemoryInit => FleetInv
  <2> SUFFICES ASSUME MemoryInit PROVE FleetInv
    OBVIOUS
  <2>1. writes = <<>> /\ writes \in Seq(SUBSET Gateways)
    BY DEF MemoryInit
  <2>2. FleetTyped
    BY <2>1 DEF MemoryInit, Remembered, FleetTyped
  <2>3. Len(writes) = 0
    BY <2>1
  <2>4. FleetsAreReal
    BY <2>3 DEF MemoryInit, Remembered, FleetsAreReal
  <2>5. QED
    BY <2>2, <2>4 DEF MemoryInit, Remembered, FleetInv, FleetIsTold
<1>2. FleetInv /\ [MemoryNext]_memoryVars => FleetInv'
  BY FleetStepsKeep
<1>3. FleetInv /\ Launch => /\ starting' \in fleets
                            /\ disk = lastTold => /\ leftServing \subseteq starting'
                                                  /\ starting' \subseteq leftServing \cup leftStarting
  BY DEF FleetInv, FleetIsTold, FleetsAreReal, Launch, LaunchStarting, Remembered
<1>4. QED
  BY <1>1, <1>2, <1>3, PTL DEF MemorySpec, AQuitKeepsTheFleet

-----------------------------------------------------------------------------
(* The file of kept children, for any number of gateways, routers and         *)
(* conversations, lives, deaths, refused writes and sets handed over.        *)

(* One write is at work, the earliest.                                     *)
OneWriteAtWork ==
    /\ \E sent : keptWrites \in Seq(sent)
    /\ \A n \in 1..Len(keptWrites) :
          keptWrites[n].began \in BOOLEAN /\ (keptWrites[n].began => n = 1)

(* The last write sent carries what is held, or will: it reads that as it     *)
(* begins, and a set handed over since asks for another.                    *)
TheLastWriteTells ==
    opened /\ ~pending /\ Len(keptWrites) > 0 =>
        LET last == keptWrites[Len(keptWrites)] IN last.began => last.snapshot = kept

(* A process that handed nothing over holds nothing and owes what it opened   *)
(* on; one that did holds what is owed.                                     *)
HeldIsOwed ==
    /\ opened => kept = owed
    /\ ~opened => owed = keptDisk /\ ~pending /\ Len(keptWrites) = 0

(* With no write left the file holds it, unless the disk refused one.       *)
RestedIsWritten ==
    opened /\ ~pending /\ Len(keptWrites) = 0 /\ counts["refusals"] = 0 => keptDisk = kept

CountsTyped ==
    /\ counts \in [{"keeps", "lives", "deaths", "refusals"} -> Nat]
    /\ opened \in BOOLEAN /\ pending \in BOOLEAN

KeptInv ==
    OneWriteAtWork /\ TheLastWriteTells /\ HeldIsOwed /\ RestedIsWritten /\ CountsTyped

LEMMA SpendingCounts ==
  ASSUME CountsTyped, NEW what \in {"keeps", "lives", "deaths", "refusals"}, NEW bound,
         Kept!Spend(what, bound)
  PROVE  /\ counts' \in [{"keeps", "lives", "deaths", "refusals"} -> Nat]
         /\ counts'["refusals"] = 0 => counts["refusals"] = 0
         /\ what = "refusals" => counts'["refusals"] # 0
BY DEF CountsTyped, Kept!Spend

(* Handing a set over keeps the file on its way.                            *)
LEMMA HandingOverKeeps ==
  ASSUME KeptInv, NEW g, NEW records, Kept!Keep(g, records), UNCHANGED <<keptWrites, keptDisk>>
  PROVE  KeptInv'
<1>1. /\ kept' = [Kept!OpenOnce EXCEPT ![g] = records] /\ owed' = [owed EXCEPT ![g] = records]
      /\ opened' = TRUE /\ pending' = TRUE
  BY DEF Kept!Keep, Kept!Scheduled
<1>2. Kept!OpenOnce = owed
  BY DEF Kept!OpenOnce, KeptInv, HeldIsOwed
<1>3. CountsTyped'
  BY <1>1, SpendingCounts DEF KeptInv, CountsTyped, Kept!Keep
<1>4. HeldIsOwed' /\ TheLastWriteTells' /\ RestedIsWritten'
  BY <1>1, <1>2 DEF HeldIsOwed, TheLastWriteTells, RestedIsWritten
<1>5. OneWriteAtWork'
  BY DEF KeptInv, OneWriteAtWork
<1>6. QED
  BY <1>3, <1>4, <1>5 DEF KeptInv

(* A write sent joins the end, unbegun.                                    *)
LEMMA SendingKeeps ==
  ASSUME KeptInv, Kept!WriteSettles
  PROVE  KeptInv'
<1>1. PICK sent : keptWrites \in Seq(sent)
  BY DEF KeptInv, OneWriteAtWork
<1> DEFINE unread == Kept!Unread
<1>2. unread.began = FALSE
  BY DEF Kept!Unread
<1> HIDE DEF unread
<1>3. /\ keptWrites' = Append(keptWrites, unread) /\ pending = TRUE /\ pending' = FALSE
      /\ UNCHANGED <<opened, kept, keptDisk, owed, counts>>
  BY DEF Kept!WriteSettles, unread, KeptInv, CountsTyped
<1>4. /\ Len(keptWrites) \in Nat /\ Len(keptWrites') = Len(keptWrites) + 1
      /\ \A n \in 1..Len(keptWrites) : keptWrites'[n] = keptWrites[n]
      /\ keptWrites'[Len(keptWrites')] = unread
  BY <1>1, <1>3
<1>5. OneWriteAtWork'
  <2>1. keptWrites \in Seq(sent \cup {unread})
    BY <1>1
  <2>2. keptWrites' \in Seq(sent \cup {unread})
    BY <1>3, <2>1
  <2>3. \A n \in 1..Len(keptWrites') :
           keptWrites'[n].began \in BOOLEAN /\ (keptWrites'[n].began => n = 1)
    <3>1. SUFFICES ASSUME NEW n \in 1..Len(keptWrites')
                   PROVE  /\ keptWrites'[n].began \in BOOLEAN
                          /\ keptWrites'[n].began => n = 1
      OBVIOUS
    <3>2. CASE n \in 1..Len(keptWrites)
      <4>1. keptWrites'[n] = keptWrites[n]
        BY <1>4, <3>2
      <4>2. QED
        BY <3>2, <4>1 DEF KeptInv, OneWriteAtWork
    <3>3. CASE n = Len(keptWrites')
      BY <1>2, <1>4, <3>3
    <3>4. QED
      BY <1>4, <3>2, <3>3
  <2>4. QED
    BY <2>2, <2>3 DEF OneWriteAtWork
<1>6. TheLastWriteTells' /\ RestedIsWritten'
  BY <1>2, <1>4 DEF TheLastWriteTells, RestedIsWritten
<1>7. HeldIsOwed' /\ CountsTyped'
  BY <1>3 DEF KeptInv, HeldIsOwed, CountsTyped
<1>8. QED
  BY <1>5, <1>6, <1>7 DEF KeptInv

(* A write that begins reads what is held.                                 *)
LEMMA BeginningKeeps ==
  ASSUME KeptInv, NEW n \in DOMAIN keptWrites, Kept!BeginWrite(n)
  PROVE  KeptInv'
<1>1. PICK sent : keptWrites \in Seq(sent)
  BY DEF KeptInv, OneWriteAtWork
<1> DEFINE read == [began |-> TRUE, snapshot |-> kept]
<1>2. /\ n = 1 /\ keptWrites' = [keptWrites EXCEPT ![n] = read]
      /\ UNCHANGED <<opened, kept, pending, keptDisk, owed, counts>>
  BY DEF Kept!BeginWrite, Kept!InTurn
<1>3. read.began = TRUE /\ read.snapshot = kept
  OBVIOUS
<1> HIDE DEF read
<1>5. keptWrites \in Seq(sent \cup {read}) /\ Len(keptWrites) \in Nat
      /\ n \in 1..Len(keptWrites)
  BY <1>1
<1>6. /\ keptWrites' \in Seq(sent \cup {read})
      /\ Len(keptWrites') = Len(keptWrites)
      /\ \A m \in 1..Len(keptWrites) : keptWrites'[m] = IF m = n THEN read ELSE keptWrites[m]
  BY <1>2, <1>5
<1>7. OneWriteAtWork'
  <2>1. \A m \in 1..Len(keptWrites') :
           keptWrites'[m].began \in BOOLEAN /\ (keptWrites'[m].began => m = 1)
    <3>1. SUFFICES ASSUME NEW m \in 1..Len(keptWrites')
                   PROVE  /\ keptWrites'[m].began \in BOOLEAN
                          /\ keptWrites'[m].began => m = 1
      OBVIOUS
    <3>2. CASE m = n
      BY <1>2, <1>3, <1>6, <3>2
    <3>3. CASE m # n
      <4>1. m \in 1..Len(keptWrites) /\ keptWrites'[m] = keptWrites[m]
        BY <1>6, <3>3
      <4>2. QED
        BY <4>1 DEF KeptInv, OneWriteAtWork
    <3>4. QED
      BY <3>2, <3>3
  <2>2. QED
    BY <1>6, <2>1 DEF OneWriteAtWork
<1>8. TheLastWriteTells'
  <2>1. CASE Len(keptWrites) = n
    BY <1>2, <1>3, <1>5, <1>6, <2>1 DEF TheLastWriteTells
  <2>2. CASE Len(keptWrites) # n
    <3>1. keptWrites'[Len(keptWrites')] = keptWrites[Len(keptWrites)]
      BY <1>5, <1>6, <2>2
    <3>2. QED
      BY <1>2, <1>6, <3>1 DEF KeptInv, TheLastWriteTells
  <2>3. QED
    BY <2>1, <2>2
<1>9. HeldIsOwed' /\ RestedIsWritten' /\ CountsTyped'
  BY <1>2, <1>5, <1>6 DEF KeptInv, HeldIsOwed, RestedIsWritten, CountsTyped
<1>10. QED
  BY <1>7, <1>8, <1>9 DEF KeptInv

(* What leaves is the earliest, and those behind it have not begun.         *)
LEMMA EarliestLeaves ==
  ASSUME KeptInv, NEW n \in DOMAIN keptWrites, keptWrites[n].began, Kept!Over(n)
  PROVE  /\ n = 1 /\ OneWriteAtWork' /\ Len(keptWrites) \in Nat \ {0}
         /\ Len(keptWrites') = Len(keptWrites) - 1
         /\ \A m \in 1..Len(keptWrites') : keptWrites'[m].began = FALSE
<1>1. PICK sent : keptWrites \in Seq(sent)
  BY DEF KeptInv, OneWriteAtWork
<1>2. n = 1 /\ Len(keptWrites) \in Nat \ {0}
  BY <1>1 DEF KeptInv, OneWriteAtWork
<1>3. keptWrites' = [m \in 1..(Len(keptWrites) - 1) |-> keptWrites[m + 1]]
  BY <1>2 DEF Kept!Over
<1>4. \A m \in 1..(Len(keptWrites) - 1) :
         /\ keptWrites[m + 1] \in sent
         /\ keptWrites[m + 1].began = FALSE
  <2>1. SUFFICES ASSUME NEW m \in 1..(Len(keptWrites) - 1)
                 PROVE  /\ keptWrites[m + 1] \in sent
                        /\ keptWrites[m + 1].began = FALSE
    OBVIOUS
  <2>2. m + 1 \in 1..Len(keptWrites) /\ m + 1 # 1
    BY <1>2
  <2>3. QED
    BY <1>1, <2>2 DEF KeptInv, OneWriteAtWork
<1>5. /\ keptWrites' \in Seq(sent)
      /\ Len(keptWrites') = Len(keptWrites) - 1
  BY <1>2, <1>3, <1>4
<1>6. \A m \in 1..Len(keptWrites') : keptWrites'[m].began = FALSE
  BY <1>3, <1>4, <1>5
<1>7. OneWriteAtWork'
  BY <1>5, <1>6 DEF OneWriteAtWork
<1>8. QED
  BY <1>2, <1>5, <1>6, <1>7

LEMMA LastUnbegun ==
  ASSUME OneWriteAtWork', \A m \in 1..Len(keptWrites') : keptWrites'[m].began = FALSE
  PROVE  TheLastWriteTells'
<1>1. Len(keptWrites') \in Nat
  BY DEF OneWriteAtWork
<1>2. Len(keptWrites') > 0 => keptWrites'[Len(keptWrites')].began = FALSE
  BY <1>1
<1>3. QED
  BY <1>2 DEF TheLastWriteTells

(* A rename puts down what its write read.                                 *)
LEMMA RenamingKeeps ==
  ASSUME KeptInv, NEW n \in DOMAIN keptWrites, Kept!Rename(n)
  PROVE  KeptInv'
<1>1. /\ keptWrites[n].began /\ Kept!Over(n) /\ keptDisk' = keptWrites[n].snapshot
      /\ UNCHANGED <<opened, kept, pending, owed, counts>>
  BY DEF Kept!Rename
<1>2. /\ n = 1 /\ OneWriteAtWork' /\ Len(keptWrites) \in Nat \ {0}
      /\ Len(keptWrites') = Len(keptWrites) - 1
      /\ \A m \in 1..Len(keptWrites') : keptWrites'[m].began = FALSE
  BY <1>1, EarliestLeaves
<1>3. TheLastWriteTells'
  BY <1>2, LastUnbegun
<1>4. opened
  BY <1>2 DEF KeptInv, HeldIsOwed
<1>5. RestedIsWritten'
  <2>1. ASSUME ~pending, Len(keptWrites) = 1
        PROVE  keptDisk' = kept
    BY <1>1, <1>2, <1>4, <2>1 DEF KeptInv, TheLastWriteTells
  <2>2. QED
    BY <1>1, <1>2, <2>1 DEF RestedIsWritten
<1>6. HeldIsOwed' /\ CountsTyped'
  BY <1>1, <1>4 DEF KeptInv, HeldIsOwed, CountsTyped
<1>7. QED
  BY <1>2, <1>3, <1>5, <1>6 DEF KeptInv

LEMMA RefusingKeeps ==
  ASSUME KeptInv, NEW n \in DOMAIN keptWrites, Kept!WriteRefused(n)
  PROVE  KeptInv'
<1>1. /\ keptWrites[n].began /\ Kept!Over(n) /\ Kept!Spend("refusals", MaxRefusals)
      /\ UNCHANGED <<opened, kept, pending, keptDisk, owed>>
  BY DEF Kept!WriteRefused
<1>2. /\ n = 1 /\ OneWriteAtWork' /\ Len(keptWrites) \in Nat \ {0}
      /\ \A m \in 1..Len(keptWrites') : keptWrites'[m].began = FALSE
  BY <1>1, EarliestLeaves
<1>3. TheLastWriteTells'
  BY <1>2, LastUnbegun
<1>4. opened
  BY <1>2 DEF KeptInv, HeldIsOwed
<1>5. counts'["refusals"] # 0 /\ CountsTyped'
  BY <1>1, SpendingCounts DEF KeptInv, CountsTyped
<1>6. HeldIsOwed' /\ RestedIsWritten'
  BY <1>1, <1>4, <1>5 DEF KeptInv, HeldIsOwed, RestedIsWritten
<1>7. QED
  BY <1>2, <1>3, <1>5, <1>6 DEF KeptInv

(* Steps that leave the writer and the file alone.                          *)
LEMMA WriterLeftAlone ==
  ASSUME KeptInv, UNCHANGED <<opened, kept, pending, keptWrites, keptDisk, owed>>,
         \/ UNCHANGED counts
         \/ \E what \in {"lives", "deaths"} : \E bound : Kept!Spend(what, bound)
  PROVE  KeptInv'
<1>1. CountsTyped' /\ (counts'["refusals"] = 0 => counts["refusals"] = 0)
  BY SpendingCounts DEF KeptInv, CountsTyped
<1>2. QED
  BY <1>1 DEF KeptInv, OneWriteAtWork, TheLastWriteTells, HeldIsOwed, RestedIsWritten

LEMMA DyingKeeps ==
  ASSUME KeptInv, Kept!Die
  PROVE  KeptInv'
<1>1. /\ opened' = FALSE /\ pending' = FALSE /\ keptWrites' = <<>> /\ owed' = keptDisk
      /\ keptDisk' = keptDisk /\ Kept!Spend("deaths", MaxDeaths)
  BY DEF Kept!Die
<1>2. CountsTyped'
  BY <1>1, SpendingCounts DEF KeptInv, CountsTyped
<1>3. Len(keptWrites') = 0 /\ keptWrites' \in Seq({})
  BY <1>1
<1>4. OneWriteAtWork'
  BY <1>3 DEF OneWriteAtWork
<1>5. TheLastWriteTells' /\ HeldIsOwed' /\ RestedIsWritten'
  BY <1>1, <1>3 DEF TheLastWriteTells, HeldIsOwed, RestedIsWritten
<1>6. QED
  BY <1>2, <1>4, <1>5 DEF KeptInv

LEMMA KeptStepsKeep ==
  ASSUME KeptInv, [Kept!Next]_(Kept!vars)
  PROVE  KeptInv'
<1>1. ASSUME NEW g \in Gateways, Kept!Serve(g) \/ Kept!ServeLate(g)
      PROVE  KeptInv'
  <2>1. PICK records : Kept!Keep(g, records)
    BY <1>1 DEF Kept!Serve, Kept!ServeLate
  <2>2. UNCHANGED <<keptWrites, keptDisk>>
    BY <1>1 DEF Kept!Serve, Kept!ServeLate
  <2>3. QED
    BY <2>1, <2>2, HandingOverKeeps
<1>2. ASSUME NEW g \in Gateways, Kept!LateTurnsEnd(g) \/ Kept!Stop(g) \/ Kept!Start(g)
      PROVE  KeptInv'
  <2>1. CASE Kept!LateTurnsEnd(g) \/ Kept!Stop(g)
    BY <2>1, WriterLeftAlone DEF Kept!LateTurnsEnd, Kept!Stop, Kept!writer
  <2>2. CASE Kept!Start(g)
    BY <2>2, WriterLeftAlone DEF Kept!Start, Kept!writer
  <2>3. QED
    BY <1>2, <2>1, <2>2
<1>3. ASSUME NEW n \in DOMAIN keptWrites,
             Kept!BeginWrite(n) \/ Kept!Rename(n) \/ Kept!WriteRefused(n)
      PROVE  KeptInv'
  BY <1>3, BeginningKeeps, RenamingKeeps, RefusingKeeps
<1>4. CASE Kept!Spawn \/ Kept!Tick \/ UNCHANGED Kept!vars
  BY <1>4, WriterLeftAlone DEF Kept!Spawn, Kept!Tick, Kept!vars, Kept!writer
<1>5. QED
  BY <1>1, <1>2, <1>3, <1>4, SendingKeeps, DyingKeeps DEF Kept!Next

(* NobodyIsErased, for any number of gateways that share the file, over any   *)
(* stops, starts and deaths: once nothing is left to write, each one's lines  *)
(* are the set it handed over last, unless the disk refused a write.         *)
THEOREM NobodysLinesAreErased == Kept!Spec => []Kept!NobodyIsErased
<1>1. Kept!Init => KeptInv
  <2> SUFFICES ASSUME Kept!Init PROVE KeptInv
    OBVIOUS
  <2>1. /\ opened = FALSE /\ pending = FALSE /\ keptWrites = <<>> /\ owed = keptDisk
        /\ counts \in [{"keeps", "lives", "deaths", "refusals"} -> Nat]
    BY DEF Kept!Init
  <2>2. Len(keptWrites) = 0 /\ keptWrites \in Seq({})
    BY <2>1
  <2>3. OneWriteAtWork
    BY <2>2 DEF OneWriteAtWork
  <2>4. QED
    BY <2>1, <2>2, <2>3 DEF KeptInv, TheLastWriteTells, HeldIsOwed, RestedIsWritten, CountsTyped
<1>2. KeptInv /\ [Kept!Next]_(Kept!vars) => KeptInv'
  BY KeptStepsKeep
<1>3. KeptInv => Kept!NobodyIsErased
  <2> SUFFICES ASSUME KeptInv, ~pending, keptWrites = <<>>, counts["refusals"] = 0
               PROVE  keptDisk = owed
    BY DEF Kept!NobodyIsErased, Kept!Rested
  <2>1. Len(keptWrites) = 0
    OBVIOUS
  <2>2. QED
    BY <2>1 DEF KeptInv, HeldIsOwed, RestedIsWritten
<1>4. QED
  BY <1>1, <1>2, <1>3, PTL DEF Kept!Spec

-----------------------------------------------------------------------------
(* The desks of the host, for any rows, gateways and room.                   *)

(* The words of the channel, and the counts of the bounds.                  *)
Words ==
    [kind : {"row"}, row : Rows, version : Desks!Versions \ {Desks!None}]
        \cup [kind : {"cooled", "running", "stopped"}, gateway : Gateways]

Lives == [number : Nat, stands : BOOLEAN]

Counted == {"stops", "deaths", "giveUps", "forgets", "reloads", "cooled"}

(* What every part of the desks, the channel and the host may hold.        *)
DesksTyped ==
    /\ Desks!DesksTypeOK
    /\ deskAlive \in BOOLEAN /\ reloaded \in BOOLEAN
    /\ lastSpoken \in [Rows -> Desks!Versions]
    /\ deskUp \in Seq(Words)
    /\ deskOwed \in [Gateways -> {Desks!None, "start", "stop"}]
    /\ deskAwaited \subseteq Gateways /\ deskStates \subseteq Gateways
    /\ life \in [Gateways -> Lives]
    /\ deskSent \in [Rows -> Nat]
    /\ settledIds \subseteq Rows
    /\ timesTold \in [Rows -> Nat]
    /\ deskCounts \in [Counted -> Nat]

(* Where nothing is evicted: the ids the desk remembers are the rows it     *)
(* told, and every kept row that settled is among them.                    *)
ToldAsSettled ==
    \A r \in Rows : /\ timesTold[r] = IF r \in settledIds THEN 1 ELSE 0
                    /\ r \in Desks!Kept /\ Desks!RowSettled(heldVersion[r]) => r \in settledIds

Served(g) == life[g].number # 0
StopIsSaid(g) == \E n \in 1..Len(deskUp) : deskUp[n].kind = "stopped" /\ deskUp[n].gateway = g

(* Where no gateway ends: no stop is owed, the only stops said or heard are   *)
(* refused starts of gateways that never served, and those have no rows.     *)
NothingEnds ==
    /\ deskAlive
    /\ \A g \in Gateways :
          /\ deskOwed[g] # "stop"
          /\ Served(g) <=> life[g].stands
          /\ (Served(g) \/ deskOwed[g] = "start") => (g \notin deskInactive /\ ~StopIsSaid(g))
    /\ \A r \in Rows :
          /\ deskSent[r] # 0 => Served(Owner(r))
          /\ lastSpoken[r] # Desks!None => deskSent[r] # 0
          /\ r \in Desks!Kept => lastSpoken[r] # Desks!None
    /\ \A n \in 1..Len(deskUp) :
          deskUp[n].kind = "row" => lastSpoken[deskUp[n].row] # Desks!None

Settling(word, r) == word.kind = "row" /\ word.row = r /\ Desks!RowSettled(word.version)

(* Where no gateway ends, one report of a row settles it: while that word   *)
(* is on its way the row was not told, and once it was told none is.       *)
ToldByOneReport ==
    /\ \A r \in Rows : /\ timesTold[r] <= 1
                       /\ r \in settledIds => timesTold[r] = 1
                       /\ timesTold[r] = 1 => Desks!RowSettled(lastSpoken[r])
                       /\ r \in Desks!Kept /\ Desks!RowSettled(heldVersion[r]) => timesTold[r] = 1
    /\ \A r \in Rows, n \in 1..Len(deskUp) : Settling(deskUp[n], r) =>
          /\ timesTold[r] = 0 /\ Desks!RowSettled(lastSpoken[r])
          /\ \A m \in 1..Len(deskUp) : Settling(deskUp[m], r) => m = n

(* The inductive invariant.                                                *)
DesksInv ==
    /\ DesksTyped
    /\ Desks!WindowsAreOwedWhatTheyMiss
    /\ Desks!NoStoppedRowIsOpen
    /\ Desks!Roomy => ToldAsSettled /\ Desks!NoRemovedRowCrosses
    /\ Desks!Steady => NothingEnds /\ ToldByOneReport
    /\ MaxReloads = 0 => Desks!WindowsHoldTheSnapshot /\ deskCounts["reloads"] = 0

(* How the log desk and the window move, whoever moves them. *)
LogUnmoved == UNCHANGED <<Desks!logDesk, shown, reloaded>>
LogHears ==
    \E r \in Rows, v \in Desks!Versions \ {Desks!None} :
        Desks!HearRow(r, v) /\ UNCHANGED <<shown, reloaded>>
LogInterrupts ==
    \E gone \in SUBSET Gateways :
        Desks!Interrupt(gone) /\ UNCHANGED <<shown, reloaded>>
LogPushes ==
    /\ heldBack' = {} /\ runPending' = FALSE
    /\ shown' = [r \in Rows |-> IF r \in heldBack THEN heldVersion[r] ELSE shown[r]]
    /\ UNCHANGED <<retained, heldVersion, deskInactive, settledIds, timesTold, reloaded>>
LogFills == Desks!Backfill /\ deskInactive' \subseteq deskInactive
LogForgets(g) ==
    /\ deskInactive' \subseteq deskInactive
    /\ retained' \in Desks!StillKept(g)
    /\ heldBack' = heldBack \ Desks!Of(g)
    /\ UNCHANGED <<heldVersion, runPending, settledIds, timesTold, shown, reloaded>>
LogReloads ==
    /\ shown' = [r \in Rows |-> Desks!None] /\ reloaded' = TRUE
    /\ UNCHANGED Desks!logDesk

LogMoves ==
    \/ LogUnmoved \/ LogHears \/ LogInterrupts \/ LogPushes \/ LogFills \/ LogReloads
    \/ \E g \in Gateways : LogForgets(g)

LEMMA LogNext ==
  ASSUME DesksTyped, [Desks!Next]_Desks!vars
  PROVE  LogMoves
<1> USE DEF Desks!logDesk, Desks!window
<1>1. ASSUME NEW r \in Rows, Desks!ServeTurn(r) \/ Desks!Cool(r) \/
               \E v \in Desks!Versions : Desks!Speak(r, v)
      PROVE  LogUnmoved
  BY <1>1 DEF Desks!ServeTurn, Desks!Cool, Desks!Speak, LogUnmoved
<1>2. ASSUME NEW g \in Gateways, Desks!RunStart(g) \/ Desks!RunStop(g) \/ Desks!SendStop(g) \/
               Desks!GiveUp(g)
      PROVE  LogUnmoved
  BY <1>2 DEF Desks!RunStart, Desks!RunStop, Desks!SendStop, Desks!GiveUp, LogUnmoved
<1>3. ASSUME NEW g \in Gateways, Desks!SendStart(g)
      PROVE  LogFills
  BY <1>3 DEF Desks!SendStart, LogFills
<1>4. ASSUME NEW g \in Gateways, Desks!Forget(g)
      PROVE  LogForgets(g)
  BY <1>4 DEF Desks!Forget, LogForgets, Desks!StillWaiting
<1>5. CASE Desks!Die
  BY <1>5 DEF Desks!Die, LogUnmoved, LogMoves
<1>6. ASSUME Desks!HearNext
      PROVE  LogUnmoved \/ LogHears \/ LogInterrupts
  <2>1. Head(deskUp) \in Words
    BY <1>6 DEF Desks!HearNext, DesksTyped
  <2>2. CASE Head(deskUp).kind = "row" /\ Desks!HearRow(Head(deskUp).row, Head(deskUp).version)
    <3>1. Head(deskUp).row \in Rows /\ Head(deskUp).version \in Desks!Versions \ {Desks!None}
      BY <2>1, <2>2 DEF Words
    <3>2. UNCHANGED <<shown, reloaded>>
      BY <1>6 DEF Desks!HearNext
    <3>3. QED
      BY <2>2, <3>1, <3>2 DEF LogHears
  <2>3. CASE UNCHANGED Desks!logDesk
    BY <1>6, <2>3 DEF Desks!HearNext, LogUnmoved
  <2>4. CASE Desks!HearReport(Head(deskUp)) /\ Head(deskUp).kind # "row"
    <3>1. Head(deskUp).gateway \in Gateways
      BY <2>1, <2>4 DEF Words
    <3>2. UNCHANGED <<shown, reloaded>>
      BY <1>6 DEF Desks!HearNext
    <3>3. CASE Desks!Interrupt({Head(deskUp).gateway})
      BY <3>1, <3>2, <3>3 DEF LogInterrupts
    <3>4. QED
      BY <2>3, <2>4, <3>3 DEF Desks!HearReport, Desks!DesksInterrupted
  <2>5. QED
    BY <1>6, <2>2, <2>3, <2>4 DEF Desks!HearNext
<1>7. CASE Desks!HearExit
  BY <1>7 DEF Desks!HearExit, Desks!DesksInterrupted, LogInterrupts, LogMoves, DesksTyped
<1>8. CASE Desks!PushRows
  BY <1>8 DEF Desks!PushRows, LogPushes, LogMoves
<1>9. CASE Desks!PushFiled \/ UNCHANGED Desks!vars
  BY <1>9 DEF Desks!PushFiled, Desks!vars, LogUnmoved, LogMoves
<1>10. CASE Desks!Reload
  BY <1>10 DEF Desks!Reload, LogReloads, LogMoves
<1>11. CASE Desks!ReplayLogs
  BY <1>11 DEF Desks!ReplayLogs, LogFills, LogMoves
<1>12. QED
  BY <1>1, <1>2, <1>3, <1>4, <1>5, <1>6, <1>7, <1>8, <1>9, <1>10, <1>11 DEF Desks!Next, LogMoves

(* What moves a row among those the desk keeps. *)
LEMMA KeptAfterReport ==
  ASSUME Desks!DesksAssumption, DesksTyped,
         NEW r \in Rows, NEW v \in Desks!Versions \ {Desks!None}, ~Desks!Late(r), Desks!HearRow(r, v)
  PROVE  /\ retained' \in Seq(Rows) /\ Len(retained') <= Retained
         /\ \A m, n \in DOMAIN retained' : retained'[m] = retained'[n] => m = n
         /\ Desks!Kept' \subseteq Desks!Kept \cup {r}
         /\ Desks!Roomy => Desks!Kept' = Desks!Kept \cup {r} /\
              Desks!TellSettled(IF Desks!RowSettled(v) THEN {r} ELSE {}, settledIds)
<1> DEFINE arrived == Desks!Arrived(r)
<1> HIDE DEF arrived
<1>1. /\ retained \in Seq(Rows) /\ Len(retained) <= Retained
      /\ \A m, n \in 1..Len(retained) : retained[m] = retained[n] => m = n
  BY DEF DesksTyped, Desks!DesksTypeOK
<1>2. /\ arrived \in Seq(Rows) /\ arrived # <<>>
      /\ \A m, n \in 1..Len(arrived) : arrived[m] = arrived[n] => m = n
      /\ Desks!ToSet(arrived) = Desks!Kept \cup {r}
      /\ Len(arrived) <= Retained + 1
  <2>0. Desks!Kept = {retained[n] : n \in 1..Len(retained)} /\ Retained \in Nat
    BY <1>1 DEF Desks!Kept, Desks!ToSet, Desks!DesksAssumption
  <2>1. CASE r \in Desks!Kept
    <3>1. arrived = retained
      BY <2>1 DEF Desks!Arrived, arrived
    <3>2. Len(retained) \in Nat /\ Len(retained) # 0
      BY <2>0, <2>1, <1>1
    <3>3. QED
      BY <1>1, <2>0, <2>1, <3>1, <3>2 DEF Desks!Kept
  <2>2. CASE r \notin Desks!Kept
    <3>1. arrived = Append(retained, r)
      BY <2>2 DEF Desks!Arrived, arrived
    <3>2. /\ arrived \in Seq(Rows) /\ Len(arrived) = Len(retained) + 1
          /\ \A n \in 1..Len(retained) : arrived[n] = retained[n]
          /\ arrived[Len(retained) + 1] = r
          /\ Len(retained) \in Nat
      BY <1>1, <3>1
    <3>3. \A n \in 1..Len(arrived) : n = Len(retained) + 1 \/ n \in 1..Len(retained)
      BY <3>2
    <3>4. \A n \in 1..Len(retained) : n \in 1..Len(arrived)
      BY <3>2
    <3>5. Desks!ToSet(arrived) = {arrived[n] : n \in 1..Len(arrived)}
      BY <3>2 DEF Desks!ToSet
    <3>6. \A m, n \in 1..Len(arrived) : arrived[m] = arrived[n] => m = n
      BY <1>1, <2>0, <2>2, <3>2, <3>3
    <3>7. Len(retained) + 1 \in 1..Len(arrived)
      BY <3>2
    <3>8. Desks!ToSet(arrived) = Desks!Kept \cup {r}
      BY <2>0, <3>2, <3>3, <3>4, <3>5, <3>7
    <3>9. QED
      BY <1>1, <2>0, <3>2, <3>6, <3>8
  <2>3. QED
    BY <2>1, <2>2
<1>3. CASE Len(arrived) <= Retained
  <2>0. ~(Len(arrived) > Retained)
    BY <1>2, <1>3 DEF Desks!DesksAssumption
  <2>1. /\ retained' = arrived
        /\ Desks!TellSettled(IF Desks!RowSettled(v) THEN {r} ELSE {}, settledIds \ {})
    BY <2>0 DEF Desks!HearRow, arrived
  <2>2. Desks!Kept' = Desks!ToSet(arrived)
    BY <2>1 DEF Desks!Kept
  <2>3. QED
    BY <1>2, <1>3, <2>1, <2>2 DEF Desks!TellSettled
<1>4. CASE Len(arrived) > Retained
  <2>1. retained' = Tail(arrived)
    BY <1>2, <1>4 DEF Desks!HearRow, arrived
  <2>2. /\ retained' \in Seq(Rows) /\ Len(retained') = Len(arrived) - 1 /\ Len(arrived) \in Nat \ {0}
        /\ \A n \in 1..Len(retained') : retained'[n] = arrived[n + 1] /\ n + 1 \in 1..Len(arrived)
    BY <1>2, <2>1
  <2>3. Desks!Kept' = {retained'[n] : n \in 1..Len(retained')}
    BY <2>2 DEF Desks!Kept, Desks!ToSet
  <2>4. Desks!ToSet(arrived) = {arrived[n] : n \in 1..Len(arrived)}
    BY <1>2 DEF Desks!ToSet
  <2>5. Desks!Kept' \subseteq Desks!Kept \cup {r}
    <3>1. \A n \in 1..Len(retained') : retained'[n] \in Desks!ToSet(arrived)
      BY <2>2, <2>4
    <3>2. QED
      BY <1>2, <2>3, <3>1
  <2>6. \A m, n \in 1..Len(retained') : retained'[m] = retained'[n] => m = n
    BY <1>2, <2>2
  <2>7. ~Desks!Roomy
    <3>1. Len(arrived) = Retained + 1 /\ arrived \in [1..Retained + 1 -> Rows]
      BY <1>2, <1>4 DEF Desks!DesksAssumption
    <3>2. \A m, n \in 1..Retained + 1 : m < n => arrived[m] # arrived[n]
      BY <1>2, <3>1 DEF Desks!DesksAssumption
    <3>3. QED
      BY <3>1, <3>2 DEF Desks!Roomy
  <2>8. Len(retained') <= Retained
    BY <1>2, <2>2 DEF Desks!DesksAssumption
  <2>9. QED
    BY <2>2, <2>5, <2>6, <2>7, <2>8
<1>5. QED
  BY <1>2, <1>3, <1>4 DEF Desks!DesksAssumption

LEMMA KeptAfterForgetting ==
  ASSUME DesksTyped, NEW g \in Gateways, LogForgets(g)
  PROVE  /\ retained' \in Seq(Rows) /\ Len(retained') <= Len(retained)
         /\ \A m, n \in DOMAIN retained' : retained'[m] = retained'[n] => m = n
         /\ Desks!Kept' = Desks!Kept \ Desks!Of(g)
<1>1. PICK len \in 0..Len(retained) : retained' \in [1..len -> Desks!Kept \ Desks!Of(g)]
  BY DEF LogForgets, Desks!StillKept, Desks!SeqOf
<1>2. retained \in Seq(Rows)
  BY DEF DesksTyped, Desks!DesksTypeOK
<1>3. Desks!Kept \subseteq Rows
  BY <1>2 DEF Desks!Kept, Desks!ToSet
<1>4. retained' \in Seq(Rows) /\ Len(retained') = len /\ DOMAIN retained' = 1..len
  BY <1>1, <1>2, <1>3
<1>5. Desks!Kept' = Desks!Kept \ Desks!Of(g)
  BY DEF LogForgets, Desks!StillKept, Desks!Kept
<1>6. ASSUME NEW m \in 1..len, NEW n \in 1..len, retained'[m] = retained'[n], m < n
      PROVE  FALSE
  <2>1. PICK j \in DOMAIN retained, k \in DOMAIN retained :
           j < k /\ retained[j] = retained'[m] /\ retained[k] = retained'[n]
    BY <1>4, <1>6 DEF LogForgets, Desks!StillKept
  <2>2. j = k
    BY <1>6, <2>1 DEF DesksTyped, Desks!DesksTypeOK
  <2>3. QED
    BY <1>2, <2>1, <2>2
<1>7. \A m, n \in 1..len : retained'[m] = retained'[n] => m = n
  BY <1>6
<1>8. QED
  BY <1>1, <1>2, <1>4, <1>5, <1>7

(* What the desks hold keeps its type. *)
LEMMA LogTyped ==
  ASSUME Desks!DesksAssumption, DesksTyped, LogMoves
  PROVE  /\ retained' \in Seq(Rows) /\ Len(retained') <= Retained
         /\ \A m, n \in DOMAIN retained' : retained'[m] = retained'[n] => m = n
         /\ heldBack' \subseteq Rows /\ deskInactive' \subseteq Gateways /\ runPending' \in BOOLEAN
         /\ heldVersion' \in [Rows -> Desks!Versions] /\ shown' \in [Rows -> Desks!Versions]
         /\ \A r \in Desks!Kept' : heldVersion'[r] # Desks!None
         /\ settledIds' \subseteq Rows /\ timesTold' \in [Rows -> Nat]
<1> DEFINE Good ==
      /\ retained' \in Seq(Rows) /\ Len(retained') <= Retained
      /\ \A m, n \in DOMAIN retained' : retained'[m] = retained'[n] => m = n
      /\ heldBack' \subseteq Rows /\ deskInactive' \subseteq Gateways /\ runPending' \in BOOLEAN
      /\ heldVersion' \in [Rows -> Desks!Versions] /\ shown' \in [Rows -> Desks!Versions]
      /\ \A r \in Desks!Kept' : heldVersion'[r] # Desks!None
      /\ settledIds' \subseteq Rows /\ timesTold' \in [Rows -> Nat]
<1>0. /\ retained \in Seq(Rows) /\ Len(retained) <= Retained
      /\ \A m, n \in DOMAIN retained : retained[m] = retained[n] => m = n
      /\ heldBack \subseteq Rows /\ deskInactive \subseteq Gateways /\ runPending \in BOOLEAN
      /\ heldVersion \in [Rows -> Desks!Versions] /\ shown \in [Rows -> Desks!Versions]
      /\ \A r \in Desks!Kept : heldVersion[r] # Desks!None
      /\ settledIds \subseteq Rows /\ timesTold \in [Rows -> Nat]
      /\ Retained \in Nat /\ Desks!Kept \subseteq Rows
  BY DEF Desks!DesksAssumption, DesksTyped, Desks!DesksTypeOK, Desks!Kept, Desks!ToSet
<1>1. CASE LogUnmoved
  BY <1>0, <1>1 DEF LogUnmoved, Desks!logDesk, Desks!Kept
<1>2. CASE LogHears
  <2>1. PICK r \in Rows, v \in Desks!Versions \ {Desks!None} :
          Desks!HearRow(r, v) /\ UNCHANGED <<shown, reloaded>>
    BY <1>2 DEF LogHears
  <2>2. CASE Desks!Late(r)
    BY <1>0, <2>1, <2>2 DEF Desks!HearRow, Desks!logDesk, Desks!Kept
  <2>3. CASE ~Desks!Late(r)
    <3>1. /\ retained' \in Seq(Rows) /\ Len(retained') <= Retained
          /\ \A m, n \in DOMAIN retained' : retained'[m] = retained'[n] => m = n
          /\ Desks!Kept' \subseteq Desks!Kept \cup {r}
      BY <2>1, <2>3, KeptAfterReport
    <3>2. /\ heldVersion' = [heldVersion EXCEPT ![r] = v] /\ UNCHANGED <<deskInactive, shown>>
          /\ Desks!TellTheWindowsSoon({r})
      BY <2>1, <2>3 DEF Desks!HearRow
    <3>3. \E ids \in SUBSET settledIds :
            Desks!TellSettled(IF Desks!RowSettled(v) THEN {r} ELSE {}, ids)
      BY <2>1, <2>3 DEF Desks!HearRow
    <3>4. settledIds' \subseteq Rows /\ timesTold' \in [Rows -> Nat]
      BY <1>0, <3>3 DEF Desks!TellSettled
    <3>5. heldBack' \subseteq Rows /\ runPending' \in BOOLEAN
      BY <1>0, <3>2 DEF Desks!TellTheWindowsSoon
    <3>6. QED
      BY <1>0, <3>1, <3>2, <3>4, <3>5
  <2>4. QED
    BY <2>2, <2>3
<1>3. CASE LogInterrupts
  <2>1. PICK gone \in SUBSET Gateways : Desks!Interrupt(gone) /\ UNCHANGED <<shown, reloaded>>
    BY <1>3 DEF LogInterrupts
  <2> DEFINE open == UNION {Desks!Unfinished(g) : g \in gone}
  <2>2. open \subseteq Rows
    BY DEF Desks!Unfinished, Desks!Of
  <2> HIDE DEF open
  <2>3. /\ deskInactive' = deskInactive \cup gone /\ UNCHANGED <<retained, shown>>
        /\ heldVersion' = [r \in Rows |-> IF r \in open THEN "interrupted" ELSE heldVersion[r]]
        /\ Desks!TellTheWindowsSoon(open) /\ Desks!TellSettled(open, settledIds)
    BY <2>1 DEF Desks!Interrupt, open
  <2>4. settledIds' \subseteq Rows /\ timesTold' \in [Rows -> Nat]
    BY <1>0, <2>2, <2>3 DEF Desks!TellSettled
  <2>5. heldBack' \subseteq Rows /\ runPending' \in BOOLEAN
    BY <1>0, <2>2, <2>3 DEF Desks!TellTheWindowsSoon
  <2>6. heldVersion' \in [Rows -> Desks!Versions] /\
          \A r \in Rows : heldVersion[r] # Desks!None => heldVersion'[r] # Desks!None
    BY <1>0, <2>3 DEF Desks!Versions, Desks!None
  <2>7. Desks!Kept' = Desks!Kept
    BY <2>3 DEF Desks!Kept
  <2>8. QED
    BY <1>0, <2>3, <2>4, <2>5, <2>6, <2>7
<1>4. CASE LogPushes
  BY <1>0, <1>4 DEF LogPushes, Desks!Kept
<1>5. CASE LogFills
  BY <1>0, <1>5 DEF LogFills, Desks!Backfill, Desks!Kept
<1>6. CASE LogReloads
  BY <1>0, <1>6 DEF LogReloads, Desks!logDesk, Desks!Kept, Desks!Versions
<1>7. ASSUME NEW g \in Gateways, LogForgets(g)
      PROVE  Good
  <2>1. /\ retained' \in Seq(Rows) /\ Len(retained') <= Len(retained)
        /\ \A m, n \in DOMAIN retained' : retained'[m] = retained'[n] => m = n
        /\ Desks!Kept' = Desks!Kept \ Desks!Of(g)
    BY <1>7, KeptAfterForgetting
  <2>2. /\ deskInactive' \subseteq deskInactive /\ heldBack' \subseteq heldBack
        /\ UNCHANGED <<heldVersion, runPending, settledIds, timesTold, shown>>
    BY <1>7 DEF LogForgets
  <2>3. Len(retained') <= Retained
    BY <1>0, <2>1
  <2>4. QED
    BY <1>0, <2>1, <2>2, <2>3
<1>8. QED
  BY <1>1, <1>2, <1>3, <1>4, <1>5, <1>6, <1>7 DEF LogMoves

(* The windows are owed what they miss, and nothing open is kept of a gateway held as stopped. *)
LEMMA LogOwes ==
  ASSUME Desks!DesksAssumption, DesksTyped, Desks!WindowsAreOwedWhatTheyMiss,
         Desks!NoStoppedRowIsOpen, LogMoves
  PROVE  Desks!WindowsAreOwedWhatTheyMiss' /\ Desks!NoStoppedRowIsOpen'
<1>0. /\ heldVersion \in [Rows -> Desks!Versions] /\ shown \in [Rows -> Desks!Versions]
      /\ heldVersion' \in [Rows -> Desks!Versions]
      /\ Desks!Kept \subseteq Rows /\ runPending \in BOOLEAN /\ heldBack \subseteq Rows
      /\ reloaded \in BOOLEAN /\ deskInactive \subseteq Gateways
  BY LogTyped DEF DesksTyped, Desks!DesksTypeOK, Desks!Kept, Desks!ToSet
<1>a. /\ heldBack # {} => runPending
      /\ reloaded \/ \A r \in Desks!Kept \ heldBack : shown[r] = heldVersion[r]
      /\ \A g \in deskInactive, r \in Desks!Kept : Owner(r) = g => heldVersion[r] # "open"
  BY <1>0 DEF Desks!WindowsAreOwedWhatTheyMiss, Desks!NoStoppedRowIsOpen, Desks!Unfinished, Desks!Of
<1> DEFINE Good ==
      /\ heldBack' # {} => runPending'
      /\ reloaded' \/ \A r \in Desks!Kept' \ heldBack' : shown'[r] = heldVersion'[r]
      /\ \A g \in deskInactive', r \in Desks!Kept' : Owner(r) = g => heldVersion'[r] # "open"
<1> SUFFICES Good
  BY DEF Desks!WindowsAreOwedWhatTheyMiss, Desks!NoStoppedRowIsOpen, Desks!Unfinished, Desks!Of
<1>1. CASE LogUnmoved
  BY <1>a, <1>1 DEF LogUnmoved, Desks!logDesk, Desks!Kept
<1>2. CASE LogHears
  <2>1. PICK r \in Rows, v \in Desks!Versions \ {Desks!None} :
          Desks!HearRow(r, v) /\ UNCHANGED <<shown, reloaded>>
    BY <1>2 DEF LogHears
  <2>2. CASE Desks!Late(r)
    BY <1>a, <2>1, <2>2 DEF Desks!HearRow, Desks!logDesk, Desks!Kept
  <2>3. CASE ~Desks!Late(r)
    <3>1. Desks!Kept' \subseteq Desks!Kept \cup {r}
      BY <2>1, <2>3, KeptAfterReport
    <3>2. /\ heldVersion' = [heldVersion EXCEPT ![r] = v]
          /\ UNCHANGED <<deskInactive, shown, reloaded>>
          /\ heldBack' = heldBack \cup {r} /\ runPending'
      BY <2>1, <2>3 DEF Desks!HearRow, Desks!TellTheWindowsSoon
    <3>3. Owner(r) \notin deskInactive
      BY <2>3 DEF Desks!Late
    <3>4. \A k \in Desks!Kept' : k = r \/ (k \in Desks!Kept /\ heldVersion'[k] = heldVersion[k])
      BY <1>0, <3>1, <3>2
    <3>5. QED
      BY <1>a, <3>2, <3>3, <3>4
  <2>4. QED
    BY <2>2, <2>3
<1>3. CASE LogInterrupts
  <2>1. PICK gone \in SUBSET Gateways : Desks!Interrupt(gone) /\ UNCHANGED <<shown, reloaded>>
    BY <1>3 DEF LogInterrupts
  <2> DEFINE open == UNION {Desks!Unfinished(g) : g \in gone}
  <2>2. \A r \in Rows : r \in open <=> r \in Desks!Kept /\ Owner(r) \in gone /\
          heldVersion[r] = "open"
    BY DEF Desks!Unfinished, Desks!Of
  <2> HIDE DEF open
  <2>3. /\ deskInactive' = deskInactive \cup gone /\ UNCHANGED <<retained, shown, reloaded>>
        /\ heldVersion' = [r \in Rows |-> IF r \in open THEN "interrupted" ELSE heldVersion[r]]
        /\ heldBack' = heldBack \cup open /\ runPending' = (runPending \/ heldBack' # {})
    BY <2>1 DEF Desks!Interrupt, open, Desks!TellTheWindowsSoon
  <2>4. Desks!Kept' = Desks!Kept
    BY <2>3 DEF Desks!Kept
  <2>5. QED
    BY <1>0, <1>a, <2>2, <2>3, <2>4
<1>4. CASE LogPushes
  <2>1. Desks!Kept' = Desks!Kept
    BY <1>4 DEF LogPushes, Desks!Kept
  <2>2. QED
    BY <1>0, <1>a, <1>4, <2>1 DEF LogPushes
<1>5. CASE LogFills
  <2>1. Desks!Kept' = Desks!Kept
    BY <1>5 DEF LogFills, Desks!Backfill, Desks!Kept
  <2>2. QED
    BY <1>0, <1>a, <1>5, <2>1 DEF LogFills, Desks!Backfill
<1>6. CASE LogReloads
  BY <1>a, <1>6 DEF LogReloads, Desks!logDesk, Desks!Kept
<1>7. ASSUME NEW g \in Gateways, LogForgets(g)
      PROVE  Good
  <2>1. Desks!Kept' = Desks!Kept \ Desks!Of(g)
    BY <1>7, KeptAfterForgetting
  <2>2. QED
    BY <1>a, <1>7, <2>1 DEF LogForgets
<1>8. QED
  BY <1>1, <1>2, <1>3, <1>4, <1>5, <1>6, <1>7 DEF LogMoves

(* Where nothing is evicted, what was told is what settled. *)
LEMMA LogTellsOnce ==
  ASSUME Desks!DesksAssumption, DesksTyped, Desks!Roomy, ToldAsSettled, Desks!NoRemovedRowCrosses,
         LogMoves
  PROVE  ToldAsSettled' /\ Desks!NoRemovedRowCrosses'
<1>0. /\ heldVersion \in [Rows -> Desks!Versions] /\ timesTold \in [Rows -> Nat]
      /\ Desks!Kept \subseteq Rows /\ heldBack \subseteq Desks!Kept
      /\ \A r \in Rows : /\ timesTold[r] = IF r \in settledIds THEN 1 ELSE 0
                         /\ r \in Desks!Kept /\ Desks!RowSettled(heldVersion[r]) => r \in settledIds
  BY DEF DesksTyped, Desks!DesksTypeOK, Desks!Kept, Desks!ToSet, ToldAsSettled,
     Desks!NoRemovedRowCrosses
<1> DEFINE Good ==
      /\ \A r \in Rows : /\ timesTold'[r] = IF r \in settledIds' THEN 1 ELSE 0
                         /\ r \in Desks!Kept' /\ Desks!RowSettled(heldVersion'[r]) =>
                              r \in settledIds'
      /\ heldBack' \subseteq Desks!Kept'
<1> SUFFICES Good
  BY DEF ToldAsSettled, Desks!NoRemovedRowCrosses, Desks!RowSettled
<1>1. CASE LogUnmoved
  BY <1>0, <1>1 DEF LogUnmoved, Desks!logDesk, Desks!Kept
<1>2. CASE LogHears
  <2>1. PICK r \in Rows, v \in Desks!Versions \ {Desks!None} :
          Desks!HearRow(r, v) /\ UNCHANGED <<shown, reloaded>>
    BY <1>2 DEF LogHears
  <2>2. CASE Desks!Late(r)
    BY <1>0, <2>1, <2>2 DEF Desks!HearRow, Desks!logDesk, Desks!Kept
  <2>3. CASE ~Desks!Late(r)
    <3> DEFINE settling == IF Desks!RowSettled(v) THEN {r} ELSE {}
    <3>1. Desks!Kept' = Desks!Kept \cup {r} /\ Desks!TellSettled(settling, settledIds)
      BY <2>1, <2>3, KeptAfterReport
    <3>2. /\ heldVersion' = [heldVersion EXCEPT ![r] = v]
          /\ heldBack' = heldBack \cup {r}
      BY <2>1, <2>3 DEF Desks!HearRow, Desks!TellTheWindowsSoon
    <3>3. QED
      BY <1>0, <3>1, <3>2 DEF Desks!TellSettled
  <2>4. QED
    BY <2>2, <2>3
<1>3. CASE LogInterrupts
  <2>1. PICK gone \in SUBSET Gateways : Desks!Interrupt(gone) /\ UNCHANGED <<shown, reloaded>>
    BY <1>3 DEF LogInterrupts
  <2> DEFINE open == UNION {Desks!Unfinished(g) : g \in gone}
  <2>2. \A r \in open : r \in Desks!Kept /\ heldVersion[r] = "open"
    BY DEF Desks!Unfinished, Desks!Of
  <2> HIDE DEF open
  <2>3. /\ UNCHANGED retained
        /\ heldVersion' = [r \in Rows |-> IF r \in open THEN "interrupted" ELSE heldVersion[r]]
        /\ heldBack' = heldBack \cup open
        /\ Desks!TellSettled(open, settledIds)
    BY <2>1 DEF Desks!Interrupt, open, Desks!TellTheWindowsSoon
  <2>4. Desks!Kept' = Desks!Kept
    BY <2>3 DEF Desks!Kept
  <2>5. QED
    BY <1>0, <2>2, <2>3, <2>4 DEF Desks!TellSettled
<1>4. CASE LogPushes
  BY <1>0, <1>4 DEF LogPushes, Desks!Kept
<1>5. CASE LogFills
  BY <1>0, <1>5 DEF LogFills, Desks!Backfill, Desks!Kept
<1>6. CASE LogReloads
  BY <1>0, <1>6 DEF LogReloads, Desks!logDesk, Desks!Kept
<1>7. ASSUME NEW g \in Gateways, LogForgets(g)
      PROVE  Good
  <2>1. Desks!Kept' = Desks!Kept \ Desks!Of(g)
    BY <1>7, KeptAfterForgetting
  <2>2. QED
    BY <1>0, <1>7, <2>1 DEF LogForgets
<1>8. QED
  BY <1>1, <1>2, <1>3, <1>4, <1>5, <1>6, <1>7 DEF LogMoves

(* What the channel and the host hold keeps its type. *)
LEMMA HostTyped ==
  ASSUME Desks!DesksAssumption, DesksTyped, [Desks!Next]_Desks!vars
  PROVE  /\ deskAlive' \in BOOLEAN /\ reloaded' \in BOOLEAN
         /\ lastSpoken' \in [Rows -> Desks!Versions] /\ deskUp' \in Seq(Words)
         /\ deskOwed' \in [Gateways -> {Desks!None, "start", "stop"}]
         /\ deskAwaited' \subseteq Gateways /\ deskStates' \subseteq Gateways
         /\ life' \in [Gateways -> Lives]
         /\ deskSent' \in [Rows -> Nat]
         /\ deskCounts' \in [Counted -> Nat]
         /\ filed' \subseteq Gateways /\ refiling' \in BOOLEAN
<1> DEFINE Good ==
      /\ deskAlive' \in BOOLEAN /\ reloaded' \in BOOLEAN
      /\ lastSpoken' \in [Rows -> Desks!Versions] /\ deskUp' \in Seq(Words)
      /\ deskOwed' \in [Gateways -> {Desks!None, "start", "stop"}]
      /\ deskAwaited' \subseteq Gateways /\ deskStates' \subseteq Gateways
      /\ life' \in [Gateways -> Lives]
      /\ deskSent' \in [Rows -> Nat]
      /\ deskCounts' \in [Counted -> Nat]
      /\ filed' \subseteq Gateways /\ refiling' \in BOOLEAN
<1>0. /\ deskAlive \in BOOLEAN /\ reloaded \in BOOLEAN
      /\ lastSpoken \in [Rows -> Desks!Versions] /\ deskUp \in Seq(Words)
      /\ deskOwed \in [Gateways -> {Desks!None, "start", "stop"}] /\ deskAwaited \subseteq Gateways
      /\ deskStates \subseteq Gateways
      /\ life \in [Gateways -> Lives] /\ deskSent \in [Rows -> Nat]
      /\ deskCounts \in [Counted -> Nat]
      /\ filed \subseteq Gateways /\ refiling \in BOOLEAN
      /\ \A r \in Rows : Owner(r) \in Gateways
  BY DEF DesksTyped, Desks!DesksTypeOK, Desks!DesksAssumption
<1>1. ASSUME NEW what \in Counted, NEW bound, Desks!Spend(what, bound)
      PROVE  deskCounts' \in [Counted -> Nat]
  BY <1>0, <1>1 DEF Desks!Spend
<1>2. ASSUME NEW word \in Words, deskUp' = Append(deskUp, word)
      PROVE  deskUp' \in Seq(Words)
  BY <1>0, <1>2
<1> USE DEF Desks!engine, Desks!host, Desks!logDesk, Desks!coolDesk, Desks!window
<1>3. ASSUME NEW r \in Rows, Desks!ServeTurn(r)
      PROVE  Good
  <2>1. life[Owner(r)].number \in Nat
    BY <1>0 DEF Lives
  <2>2. QED
    BY <1>0, <1>3, <2>1 DEF Desks!ServeTurn
<1>4. ASSUME NEW r \in Rows, Desks!Cool(r)
      PROVE  Good
  <2>1. Desks!Cooled(Owner(r)) \in Words
    BY <1>0 DEF Desks!Cooled, Words
  <2>2. deskCounts' \in [Counted -> Nat] /\ deskUp' \in Seq(Words)
    BY <1>1, <1>2, <1>4, <2>1 DEF Desks!Cool, Counted
  <2>3. QED
    BY <1>0, <1>4, <2>2 DEF Desks!Cool
<1>5. ASSUME NEW r \in Rows, NEW v \in Desks!Versions, Desks!Speak(r, v)
      PROVE  Good
  <2>1. v # Desks!None
    BY <1>5 DEF Desks!Speak, Desks!None
  <2>2. Desks!Spoken(r, v) \in Words
    BY <2>1 DEF Desks!Spoken, Words
  <2>3. deskUp' \in Seq(Words)
    BY <1>2, <1>5, <2>2 DEF Desks!Speak
  <2>4. QED
    BY <1>0, <1>5, <2>3 DEF Desks!Speak
<1>6. ASSUME NEW g \in Gateways, Desks!RunStart(g) \/ Desks!RunStop(g)
      PROVE  Good
  <2>1. Desks!Reported(g, "running") \in Words /\ Desks!Reported(g, "stopped") \in Words
    BY DEF Desks!Reported, Words
  <2>2. deskUp' \in Seq(Words)
    BY <1>2, <1>6, <2>1 DEF Desks!RunStart, Desks!RunStop
  <2>3. life' \in [Gateways -> Lives]
    <3>1. life[g] \in Lives /\ life[g].number + 1 \in Nat
      BY <1>0 DEF Lives
    <3>2. /\ [number |-> life[g].number + 1, stands |-> TRUE] \in Lives
          /\ [life[g] EXCEPT !.stands = FALSE] \in Lives
      BY <3>1 DEF Lives
    <3>3. \/ life' = life
          \/ life' = [life EXCEPT ![g] = [number |-> life[g].number + 1, stands |-> TRUE]]
          \/ life' = [life EXCEPT ![g] = [life[g] EXCEPT !.stands = FALSE]]
      BY <1>0, <1>6 DEF Desks!RunStart, Desks!RunStop
    <3>4. ASSUME NEW one \in Lives, life' = [life EXCEPT ![g] = one]
          PROVE  life' \in [Gateways -> Lives]
      BY <1>0, <3>4
    <3>5. QED
      BY <1>0, <3>2, <3>3, <3>4
  <2>4. QED
    BY <1>0, <1>6, <2>2, <2>3 DEF Desks!RunStart, Desks!RunStop
<1>7. ASSUME NEW g \in Gateways, Desks!SendStart(g) \/ Desks!SendStop(g) \/ Desks!GiveUp(g)
      PROVE  Good
  <2>1. deskCounts' \in [Counted -> Nat]
    BY <1>0, <1>1, <1>7 DEF Desks!SendStart, Desks!SendStop, Desks!GiveUp, Counted
  <2>2. QED
    BY <1>0, <1>7, <2>1 DEF Desks!SendStart, Desks!SendStop, Desks!GiveUp, Desks!Backfill
<1>8. ASSUME NEW g \in Gateways, Desks!Forget(g)
      PROVE  Good
  <2>1. deskCounts' \in [Counted -> Nat]
    BY <1>1, <1>8 DEF Desks!Forget, Counted
  <2>2. QED
    BY <1>0, <1>8, <2>1 DEF Desks!Forget, Desks!Unfile
<1>9. CASE Desks!Die
  <2>1. deskCounts' \in [Counted -> Nat]
    BY <1>1, <1>9 DEF Desks!Die, Counted
  <2>2. lastSpoken' \in [Rows -> Desks!Versions]
    BY <1>0, <1>9 DEF Desks!Die, Desks!Versions
  <2>3. life' \in [Gateways -> Lives]
    <3>1. \A g \in Gateways : [life[g] EXCEPT !.stands = FALSE] \in Lives
      BY <1>0 DEF Lives
    <3>2. QED
      BY <1>9, <3>1 DEF Desks!Die
  <2>4. QED
    BY <1>0, <1>9, <2>1, <2>2, <2>3 DEF Desks!Die
<1>10. CASE Desks!HearNext
  <2>1. Head(deskUp) \in Words /\ deskUp' \in Seq(Words)
    BY <1>0, <1>10 DEF Desks!HearNext
  <2>2. Head(deskUp).kind # "row" => Head(deskUp).gateway \in Gateways
    BY <2>1 DEF Words
  <2>3. /\ deskOwed' = deskOwed /\ deskAwaited' \subseteq deskAwaited
        /\ deskStates' \subseteq Gateways
        /\ filed' \subseteq Gateways /\ refiling' \in BOOLEAN
    BY <1>0, <1>10, <2>2 DEF Desks!HearNext, Desks!HearReport, Desks!DesksInterrupted,
       Desks!Unfile, Desks!File
  <2>4. QED
    BY <1>0, <1>10, <2>1, <2>3 DEF Desks!HearNext
<1>11. CASE Desks!HearExit
  BY <1>0, <1>11 DEF Desks!HearExit, Desks!DesksInterrupted, Desks!Unfile
<1>12. CASE Desks!PushRows \/ Desks!PushFiled \/ Desks!ReplayLogs \/ UNCHANGED Desks!vars
  BY <1>0, <1>12 DEF Desks!PushRows, Desks!PushFiled, Desks!ReplayLogs, Desks!vars
<1>13. CASE Desks!Reload
  <2>1. deskCounts' \in [Counted -> Nat]
    BY <1>1, <1>13 DEF Desks!Reload, Counted
  <2>2. QED
    BY <1>0, <1>13, <2>1 DEF Desks!Reload
<1>14. QED
  BY <1>3, <1>4, <1>5, <1>6, <1>7, <1>8, <1>9, <1>10, <1>11, <1>12, <1>13 DEF Desks!Next

LEMMA TypedHolds ==
  ASSUME Desks!DesksAssumption, DesksTyped, [Desks!Next]_Desks!vars
  PROVE  DesksTyped'
<1>1. LogMoves
  BY LogNext
<1>2. QED
  BY <1>1, LogTyped, HostTyped DEF DesksTyped, Desks!DesksTypeOK

(* Where no window reloads, what they hold is what is filed. *)
LEMMA SnapshotFollowed ==
  ASSUME DesksTyped, MaxReloads = 0, deskCounts["reloads"] = 0, Desks!WindowsHoldTheSnapshot,
         [Desks!Next]_Desks!vars
  PROVE  deskCounts'["reloads"] = 0 /\ Desks!WindowsHoldTheSnapshot'
<1> USE DEF Desks!engine, Desks!host, Desks!logDesk, Desks!coolDesk, Desks!window
<1> DEFINE Good == deskCounts'["reloads"] = 0 /\ (refiling' \/ shownCooled' = filed')
<1>0. deskCounts \in [Counted -> Nat] /\ deskCounts["reloads"] = 0 /\
        (refiling \/ shownCooled = filed)
  BY DEF DesksTyped, Desks!WindowsHoldTheSnapshot
<1> SUFFICES Good
  BY DEF Desks!WindowsHoldTheSnapshot
<1>1. ASSUME NEW r \in Rows, Desks!ServeTurn(r) \/ Desks!Cool(r) \/
               \E v \in Desks!Versions : Desks!Speak(r, v)
      PROVE  Good
  BY <1>0, <1>1 DEF Desks!ServeTurn, Desks!Cool, Desks!Speak, Desks!Spend, Counted
<1>2. ASSUME NEW g \in Gateways, Desks!RunStart(g) \/ Desks!RunStop(g) \/ Desks!SendStart(g) \/
               Desks!SendStop(g) \/ Desks!GiveUp(g)
      PROVE  Good
  BY <1>0, <1>2 DEF Desks!RunStart, Desks!RunStop, Desks!SendStart, Desks!SendStop, Desks!GiveUp,
     Desks!Spend, Counted
<1>3. ASSUME NEW g \in Gateways, Desks!Forget(g)
      PROVE  Good
  BY <1>0, <1>3 DEF Desks!Forget, Desks!Unfile, Desks!Spend, Counted
<1>4. CASE Desks!Die
  BY <1>0, <1>4 DEF Desks!Die, Desks!Spend, Counted
<1>5. CASE Desks!HearNext
  BY <1>0, <1>5 DEF Desks!HearNext, Desks!HearReport, Desks!DesksInterrupted, Desks!Unfile,
     Desks!File
<1>6. CASE Desks!HearExit
  BY <1>0, <1>6 DEF Desks!HearExit, Desks!DesksInterrupted, Desks!Unfile
<1>7. CASE Desks!PushRows \/ Desks!PushFiled \/ Desks!ReplayLogs \/ UNCHANGED Desks!vars
  BY <1>0, <1>7 DEF Desks!PushRows, Desks!PushFiled, Desks!ReplayLogs, Desks!vars
<1>8. ~Desks!Reload
  BY <1>0 DEF Desks!Reload, Desks!Spend
<1>9. QED
  BY <1>1, <1>2, <1>3, <1>4, <1>5, <1>6, <1>7, <1>8 DEF Desks!Next

(* A word appended to the channel is the last one. *)
LEMMA Appended ==
  ASSUME deskUp \in Seq(Words), NEW word \in Words, deskUp' = Append(deskUp, word)
  PROVE  /\ Len(deskUp') = Len(deskUp) + 1 /\ Len(deskUp) \in Nat
         /\ deskUp'[Len(deskUp) + 1] = word
         /\ \A n \in 1..Len(deskUp) : deskUp'[n] = deskUp[n] /\ n \in 1..Len(deskUp')
         /\ \A n \in 1..Len(deskUp') : n \in 1..Len(deskUp) \/ n = Len(deskUp) + 1
  OBVIOUS

(* The first word heard, the others move up. *)
LEMMA MovedUp ==
  ASSUME deskUp \in Seq(Words), deskUp # <<>>, deskUp' = Tail(deskUp)
  PROVE  /\ Len(deskUp) \in Nat \ {0} /\ Len(deskUp') = Len(deskUp) - 1
         /\ Head(deskUp) = deskUp[1] /\ Head(deskUp) \in Words
         /\ \A n \in 1..Len(deskUp') : deskUp'[n] = deskUp[n + 1] /\ n + 1 \in 1..Len(deskUp)
         /\ 1 \in 1..Len(deskUp)
  OBVIOUS

(* Where no gateway ends, a gateway whose stop is heard has no row to interrupt or to forget, *)
(* and no row is late.                                                                      *)
LEMMA NothingIsCut ==
  ASSUME DesksTyped, NothingEnds
  PROVE  /\ \A g \in Gateways : StopIsSaid(g) \/ ~life[g].stands => ~Served(g)
         /\ \A g \in Gateways : ~Served(g) => Desks!Kept \cap Desks!Of(g) = {}
<1>1. \A r \in Desks!Kept : r \in Rows /\ Served(Owner(r))
  BY DEF DesksTyped, Desks!DesksTypeOK, Desks!Kept, Desks!ToSet, NothingEnds
<1>2. QED
  BY <1>1 DEF NothingEnds, Desks!Of

LEMMA InterruptsNobody ==
  ASSUME DesksTyped, NEW g \in Gateways, Desks!Kept \cap Desks!Of(g) = {}, Desks!Interrupt({g})
  PROVE  /\ deskInactive' = deskInactive \cup {g}
         /\ UNCHANGED <<retained, heldVersion, settledIds, timesTold>>
<1>1. Desks!Unfinished(g) = {} /\ UNION {Desks!Unfinished(h) : h \in {g}} = {}
  BY DEF Desks!Unfinished
<1>2. /\ deskInactive' = deskInactive \cup {g} /\ UNCHANGED retained
      /\ heldVersion' = [r \in Rows |-> IF r \in {} THEN "interrupted" ELSE heldVersion[r]]
      /\ Desks!TellSettled({}, settledIds)
  BY <1>1 DEF Desks!Interrupt
<1>3. timesTold' = [r \in Rows |-> timesTold[r]] /\ settledIds' = settledIds
  <2>1. \A r \in Rows : timesTold[r] \in Nat /\ r \notin {} \ settledIds
    BY DEF DesksTyped
  <2>2. QED
    BY <1>2, <2>1 DEF Desks!TellSettled
<1>4. QED
  BY <1>2, <1>3 DEF DesksTyped, Desks!DesksTypeOK

LEMMA NothingEndsStill ==
  ASSUME Desks!DesksAssumption, DesksTyped, Desks!Steady, NothingEnds, [Desks!Next]_Desks!vars
  PROVE  NothingEnds'
<1> USE DEF Desks!engine, Desks!host, Desks!logDesk, Desks!coolDesk, Desks!window
<1>0. /\ lastSpoken \in [Rows -> Desks!Versions]
      /\ deskUp \in Seq(Words) /\ deskOwed \in [Gateways -> {Desks!None, "start", "stop"}]
      /\ deskCounts \in [Counted -> Nat]
      /\ life \in [Gateways -> Lives] /\ deskSent \in [Rows -> Nat]
      /\ deskInactive \subseteq Gateways
      /\ \A r \in Rows : Owner(r) \in Gateways
      /\ Desks!Kept \subseteq Rows
  BY DEF DesksTyped, Desks!DesksTypeOK, Desks!DesksAssumption, Desks!Kept, Desks!ToSet
<1>a. ASSUME UNCHANGED <<deskAlive, life, deskSent, lastSpoken, deskUp>>,
             deskInactive' \subseteq deskInactive, Desks!Kept' \subseteq Desks!Kept,
             \A g \in Gateways : deskOwed'[g] = deskOwed[g]
      PROVE  NothingEnds'
  BY <1>a DEF NothingEnds, Served, StopIsSaid
<1>b. ASSUME NEW word \in Words, deskUp' = Append(deskUp, word), word.kind \notin {"row", "stopped"},
             UNCHANGED <<deskAlive, deskSent, lastSpoken, retained, deskInactive>>,
             \A g \in Gateways : deskOwed'[g] \in {deskOwed[g], Desks!None},
             \A g \in Gateways : /\ life'[g].number # 0 <=> life'[g].stands
                                 /\ Served(g) => life'[g].number # 0
                                 /\ life'[g].number # 0 => Served(g) \/ deskOwed[g] = "start"
      PROVE  NothingEnds'
  <2>1. \A n \in 1..Len(deskUp') : \/ n \in 1..Len(deskUp) /\ deskUp'[n] = deskUp[n]
                                   \/ deskUp'[n] = word
    BY <1>0, <1>b, Appended
  <2>2. \A g \in Gateways : StopIsSaid(g)' => StopIsSaid(g)
    BY <1>b, <2>1 DEF StopIsSaid
  <2>3. Desks!Kept' = Desks!Kept
    BY <1>b DEF Desks!Kept
  <2>4. \A g \in Gateways : deskOwed'[g] \in {deskOwed[g], Desks!None} /\ Desks!None # "stop" /\
          Desks!None # "start"
    BY <1>b DEF Desks!None
  <2>5. QED
    BY <1>0, <1>b, <2>1, <2>2, <2>3, <2>4 DEF NothingEnds, Served
<1>1. ASSUME NEW r \in Rows, Desks!ServeTurn(r)
      PROVE  NothingEnds'
  <2>1. Served(Owner(r)) /\ deskSent' = [deskSent EXCEPT ![r] = life[Owner(r)].number]
    <3>1. deskSent' = [deskSent EXCEPT ![r] = life[Owner(r)].number] /\ life[Owner(r)].stands
      BY <1>1 DEF Desks!ServeTurn, Desks!Standing
    <3>2. QED
      BY <1>0, <3>1 DEF NothingEnds
  <2>2. QED
    BY <1>0, <1>1, <2>1 DEF Desks!ServeTurn, NothingEnds, Served, StopIsSaid, Desks!Kept
<1>2. ASSUME NEW r \in Rows, Desks!Cool(r)
      PROVE  NothingEnds'
  <2>1. Desks!Cooled(Owner(r)) \in Words /\ Desks!Cooled(Owner(r)).kind = "cooled"
    BY <1>0 DEF Desks!Cooled, Words
  <2>2. QED
    BY <1>0, <1>2, <1>b, <2>1 DEF Desks!Cool, NothingEnds, Served
<1>3. ASSUME NEW r \in Rows, NEW v \in Desks!Versions, Desks!Speak(r, v)
      PROVE  NothingEnds'
  <2>1. /\ deskUp' = Append(deskUp, Desks!Spoken(r, v)) /\ deskSent[r] # 0
        /\ lastSpoken' = [lastSpoken EXCEPT ![r] = v] /\ v # Desks!None
        /\ UNCHANGED <<deskAlive, life, deskSent, Desks!host, Desks!logDesk>>
    BY <1>3 DEF Desks!Speak, Desks!None
  <2>2. Desks!Spoken(r, v) \in Words /\ Desks!Spoken(r, v).kind = "row" /\
           Desks!Spoken(r, v).row = r
    BY <2>1 DEF Desks!Spoken, Words
  <2>3. \A n \in 1..Len(deskUp') : \/ n \in 1..Len(deskUp) /\ deskUp'[n] = deskUp[n]
                                   \/ deskUp'[n] = Desks!Spoken(r, v)
    BY <1>0, <2>1, <2>2, Appended
  <2>4. \A g \in Gateways : StopIsSaid(g)' => StopIsSaid(g)
    BY <2>2, <2>3 DEF StopIsSaid
  <2>5. \A k \in Rows : /\ lastSpoken[k] # Desks!None => lastSpoken'[k] # Desks!None
                        /\ lastSpoken'[k] # Desks!None => deskSent[k] # 0
    BY <1>0, <2>1 DEF NothingEnds
  <2>6. \A n \in 1..Len(deskUp') :
          deskUp'[n].kind = "row" => lastSpoken'[deskUp'[n].row] # Desks!None
    <3>1. ASSUME NEW n \in 1..Len(deskUp), deskUp[n].kind = "row"
          PROVE  lastSpoken'[deskUp[n].row] # Desks!None
      <4>0. deskUp[n] \in Words
        BY <1>0
      <4>1. deskUp[n].row \in Rows
        BY <3>1, <4>0 DEF Words
      <4>2. QED
        BY <2>5, <3>1, <4>1 DEF NothingEnds
    <3>2. lastSpoken'[r] # Desks!None
      BY <1>0, <2>1
    <3>3. QED
      BY <2>2, <2>3, <3>1, <3>2
  <2>7. Desks!Kept' = Desks!Kept
    BY <2>1 DEF Desks!Kept
  <2>8. QED
    BY <1>0, <2>1, <2>4, <2>5, <2>6, <2>7 DEF NothingEnds, Served
<1>4. ASSUME NEW g \in Gateways, Desks!RunStart(g)
      PROVE  NothingEnds'
  <2>1. /\ deskOwed[g] = "start" /\ deskOwed' = [deskOwed EXCEPT ![g] = Desks!None]
        /\ UNCHANGED <<deskAlive, deskSent, lastSpoken, Desks!logDesk>>
    BY <1>4 DEF Desks!RunStart
  <2>2. \A h \in Gateways : deskOwed'[h] \in {deskOwed[h], Desks!None}
    BY <1>0, <2>1
  <2>3. CASE deskUp' = Append(deskUp, Desks!Reported(g, "running")) /\
              life' = IF life[g].stands THEN life
                      ELSE [life EXCEPT ![g] = [number |-> @.number + 1, stands |-> TRUE]]
    <3>1. Desks!Reported(g, "running") \in Words /\ Desks!Reported(g, "running").kind = "running"
      BY DEF Desks!Reported, Words
    <3>2. \A h \in Gateways : /\ life'[h].number # 0 <=> life'[h].stands
                              /\ Served(h) => life'[h].number # 0
                              /\ life'[h].number # 0 => Served(h) \/ deskOwed[h] = "start"
      <4>1. CASE life[g].stands
        BY <2>3, <4>1 DEF NothingEnds, Served
      <4>2. CASE ~life[g].stands
        <5>1. \A h \in Gateways : life'[h] = IF h = g THEN [number |-> life[g].number + 1, stands |-> TRUE]
                                             ELSE life[h]
          BY <1>0, <2>3, <4>2
        <5>2. life[g].number \in Nat
          BY <1>0 DEF Lives
        <5>3. QED
          BY <2>1, <5>1, <5>2 DEF NothingEnds, Served
      <4>3. QED
        BY <4>1, <4>2
    <3>3. QED
      BY <1>b, <2>1, <2>2, <2>3, <3>1, <3>2
  <2>4. CASE ~life[g].stands /\ life' = life /\ deskUp' = Append(deskUp, Desks!Reported(g, "stopped"))
    <3>1. /\ Desks!Reported(g, "stopped") \in Words
          /\ Desks!Reported(g, "stopped").kind = "stopped"
          /\ Desks!Reported(g, "stopped").gateway = g
      BY DEF Desks!Reported, Words
    <3>2. \A n \in 1..Len(deskUp') : \/ n \in 1..Len(deskUp) /\ deskUp'[n] = deskUp[n]
                                     \/ deskUp'[n] = Desks!Reported(g, "stopped")
      BY <1>0, <2>4, <3>1, Appended
    <3>3. \A h \in Gateways : StopIsSaid(h)' => StopIsSaid(h) \/ h = g
      BY <3>1, <3>2 DEF StopIsSaid
    <3>4. ~Served(g) /\ deskOwed'[g] = Desks!None /\ Desks!None \notin {"start", "stop"}
      BY <1>0, <2>1, <2>4 DEF NothingEnds, Desks!None
    <3>5. Desks!Kept' = Desks!Kept
      BY <2>1 DEF Desks!Kept
    <3>6. ASSUME NEW h \in Gateways
          PROVE  /\ deskOwed'[h] # "stop"
                 /\ Served(h)' <=> life'[h].stands
                 /\ (Served(h)' \/ deskOwed'[h] = "start") =>
                      (h \notin deskInactive' /\ ~StopIsSaid(h)')
      <4>1. Served(h)' <=> Served(h)
        BY <2>4 DEF Served
      <4>2. deskOwed'[h] \in {deskOwed[h], Desks!None} /\ deskInactive' = deskInactive
        BY <2>1, <2>2
      <4>3. (Served(h) \/ deskOwed'[h] = "start") =>
              (h # g /\ (Served(h) \/ deskOwed[h] = "start"))
        BY <3>4, <4>2
      <4>4. QED
        BY <2>4, <3>3, <3>4, <4>1, <4>2, <4>3 DEF NothingEnds
    <3>7. \A n \in 1..Len(deskUp') :
            deskUp'[n].kind = "row" => lastSpoken'[deskUp'[n].row] # Desks!None
      BY <2>1, <3>1, <3>2 DEF NothingEnds
    <3>8. QED
      BY <2>1, <2>4, <3>5, <3>6, <3>7 DEF NothingEnds, Served
  <2>5. QED
    BY <1>4, <2>3, <2>4 DEF Desks!RunStart, Desks!Standing
<1>5. ASSUME NEW g \in Gateways, Desks!RunStop(g) \/ Desks!SendStop(g)
      PROVE  FALSE
  <2>1. deskOwed[g] # "stop" /\ MaxStops = 0 /\ deskCounts["stops"] \in Nat
    BY <1>0 DEF NothingEnds, Desks!Steady, Counted
  <2>2. QED
    BY <1>5, <2>1 DEF Desks!RunStop, Desks!SendStop, Desks!Spend
<1>6. ASSUME NEW g \in Gateways, Desks!SendStart(g)
      PROVE  NothingEnds'
  <2>1. /\ deskOwed' = [deskOwed EXCEPT ![g] = "start"] /\ deskInactive' = deskInactive \ {g}
        /\ UNCHANGED <<deskAlive, life, deskSent, lastSpoken, deskUp, retained>>
    BY <1>6 DEF Desks!SendStart, Desks!Backfill
  <2>2. ~StopIsSaid(g)
    BY <1>6 DEF Desks!SendStart, Desks!Settled, Desks!IsReportOf, StopIsSaid
  <2>3. \A h \in Gateways : deskOwed'[h] = IF h = g THEN "start" ELSE deskOwed[h]
    BY <1>0, <2>1
  <2>4. QED
    BY <2>1, <2>2, <2>3 DEF NothingEnds, Served, StopIsSaid, Desks!Kept
<1>7. ASSUME NEW g \in Gateways, Desks!GiveUp(g)
      PROVE  NothingEnds'
  BY <1>7, <1>a DEF Desks!GiveUp, Desks!Kept
<1>8. ASSUME NEW g \in Gateways, Desks!Forget(g)
      PROVE  NothingEnds'
  <2>1. LogForgets(g)
    BY <1>8 DEF Desks!Forget, LogForgets, Desks!StillWaiting
  <2>2. Desks!Kept' = Desks!Kept \ Desks!Of(g)
    BY <2>1, KeptAfterForgetting
  <2>3. QED
    BY <1>8, <1>a, <2>2 DEF Desks!Forget
<1>9. ~Desks!Die /\ ~Desks!HearExit
  BY <1>0 DEF Desks!Die, Desks!HearExit, Desks!Spend, Desks!Steady, Counted, NothingEnds
<1>10. CASE Desks!HearNext
  <2>1. /\ deskUp # <<>> /\ deskUp' = Tail(deskUp)
        /\ UNCHANGED <<deskAlive, life, deskSent, lastSpoken, deskOwed>>
    BY <1>10 DEF Desks!HearNext, Desks!HearReport
  <2>2. /\ Head(deskUp) = deskUp[1] /\ Head(deskUp) \in Words /\ 1 \in 1..Len(deskUp)
        /\ \A n \in 1..Len(deskUp') : deskUp'[n] = deskUp[n + 1] /\ n + 1 \in 1..Len(deskUp)
    BY <1>0, <2>1, MovedUp
  <2>3. \A g \in Gateways : StopIsSaid(g)' => StopIsSaid(g)
    BY <2>2 DEF StopIsSaid
  <2>4. \A n \in 1..Len(deskUp') :
          deskUp'[n].kind = "row" => lastSpoken'[deskUp'[n].row] # Desks!None
    BY <2>1, <2>2 DEF NothingEnds
  <2>5. ASSUME \A r \in Desks!Kept' : r \in Rows => lastSpoken[r] # Desks!None,
               \A g \in Gateways : g \in deskInactive' =>
                 g \in deskInactive \/ (~Served(g) /\ deskOwed[g] # "start")
        PROVE  NothingEnds'
    BY <2>1, <2>3, <2>4, <2>5 DEF NothingEnds, Served
  <2>6. CASE UNCHANGED Desks!logDesk
    BY <2>5, <2>6 DEF NothingEnds, Desks!Kept
  <2>7. CASE Head(deskUp).kind = "row" /\ Desks!HearRow(Head(deskUp).row, Head(deskUp).version)
    <3>1. /\ Head(deskUp).row \in Rows /\ Head(deskUp).version \in Desks!Versions \ {Desks!None}
          /\ lastSpoken[Head(deskUp).row] # Desks!None
      BY <2>2, <2>7 DEF Words, NothingEnds
    <3>2. CASE Desks!Late(Head(deskUp).row)
      BY <2>6, <2>7, <3>2 DEF Desks!HearRow
    <3>3. CASE ~Desks!Late(Head(deskUp).row)
      <4>1. Desks!Kept' \subseteq Desks!Kept \cup {Head(deskUp).row}
        BY <2>7, <3>1, <3>3, KeptAfterReport
      <4>2. deskInactive' = deskInactive
        BY <2>7, <3>3 DEF Desks!HearRow
      <4>3. QED
        BY <2>5, <3>1, <4>1, <4>2 DEF NothingEnds
    <3>4. QED
      BY <3>2, <3>3
  <2>8. CASE Head(deskUp).kind = "stopped" /\ Desks!DesksInterrupted({Head(deskUp).gateway})
    <3>1. Head(deskUp).gateway \in Gateways /\ StopIsSaid(Head(deskUp).gateway)
      BY <2>2, <2>8 DEF Words, StopIsSaid
    <3>2. deskInactive' = deskInactive \cup {Head(deskUp).gateway} /\ retained' = retained
      BY <2>8 DEF Desks!DesksInterrupted, Desks!Interrupt
    <3>3. ~Served(Head(deskUp).gateway) /\ deskOwed[Head(deskUp).gateway] # "start"
      BY <3>1 DEF NothingEnds
    <3>4. QED
      BY <2>5, <3>2, <3>3 DEF NothingEnds, Desks!Kept
  <2>9. QED
    BY <1>10, <2>6, <2>7, <2>8 DEF Desks!HearNext, Desks!HearReport
<1>11. CASE Desks!PushRows \/ Desks!PushFiled \/ Desks!ReplayLogs \/ Desks!Reload \/
              UNCHANGED Desks!vars
  BY <1>11, <1>a DEF Desks!PushRows, Desks!PushFiled, Desks!ReplayLogs, Desks!Reload,
     Desks!Backfill, Desks!vars, Desks!Kept
<1>12. QED
  BY <1>1, <1>2, <1>3, <1>4, <1>5, <1>6, <1>7, <1>8, <1>9, <1>10, <1>11 DEF Desks!Next

(* Where no gateway ends, the one report that measured a row tells it. *)
LEMMA OneReportTells ==
  ASSUME Desks!DesksAssumption, DesksTyped, Desks!Steady, NothingEnds, ToldByOneReport,
         [Desks!Next]_Desks!vars
  PROVE  ToldByOneReport'
<1> USE DEF Desks!engine, Desks!host, Desks!logDesk, Desks!coolDesk, Desks!window
<1> DEFINE Rowwise ==
      \A r \in Rows : /\ timesTold'[r] <= 1
                      /\ r \in settledIds' => timesTold'[r] = 1
                      /\ timesTold'[r] = 1 => Desks!RowSettled(lastSpoken'[r])
                      /\ r \in Desks!Kept' /\ Desks!RowSettled(heldVersion'[r]) => timesTold'[r] = 1
    Wordwise ==
      \A r \in Rows, n \in 1..Len(deskUp') : Settling(deskUp'[n], r) =>
          /\ timesTold'[r] = 0 /\ Desks!RowSettled(lastSpoken'[r])
          /\ \A m \in 1..Len(deskUp') : Settling(deskUp'[m], r) => m = n
    Good == Rowwise /\ Wordwise
<1> SUFFICES Good
  BY DEF ToldByOneReport, Settling, Desks!RowSettled
<1>0. /\ timesTold \in [Rows -> Nat] /\ lastSpoken \in [Rows -> Desks!Versions] /\
           heldVersion \in [Rows -> Desks!Versions]
      /\ deskUp \in Seq(Words)
      /\ deskCounts \in [Counted -> Nat]
      /\ \A g \in Gateways : deskOwed[g] # "stop"
      /\ deskAlive
      /\ Desks!Kept \subseteq Rows
  BY DEF DesksTyped, Desks!DesksTypeOK, NothingEnds, Desks!Kept, Desks!ToSet
<1>a. \A r \in Rows : /\ timesTold[r] <= 1
                      /\ r \in settledIds => timesTold[r] = 1
                      /\ timesTold[r] = 1 => Desks!RowSettled(lastSpoken[r])
                      /\ r \in Desks!Kept /\ Desks!RowSettled(heldVersion[r]) => timesTold[r] = 1
  BY DEF ToldByOneReport
<1>b. \A r \in Rows, n \in 1..Len(deskUp) : Settling(deskUp[n], r) =>
          /\ timesTold[r] = 0 /\ Desks!RowSettled(lastSpoken[r])
          /\ \A m \in 1..Len(deskUp) : Settling(deskUp[m], r) => m = n
  BY DEF ToldByOneReport
<1> USE DEF Desks!Kept
<1>1. ASSUME NEW word \in Words, deskUp' = Append(deskUp, word), word.kind # "row",
             UNCHANGED <<lastSpoken, Desks!logDesk>>
      PROVE  Good
  <2>1. /\ Len(deskUp') = Len(deskUp) + 1 /\ Len(deskUp) \in Nat /\ deskUp'[Len(deskUp) + 1] = word
        /\ \A n \in 1..Len(deskUp) : deskUp'[n] = deskUp[n]
    BY <1>0, <1>1
  <2>2. \A n \in 1..Len(deskUp') : n \in 1..Len(deskUp) \/ deskUp'[n] = word
    BY <2>1
  <2>3. \A r : ~Settling(word, r)
    BY <1>1 DEF Settling
  <2>4. Wordwise
    BY <1>1, <1>b, <2>1, <2>2, <2>3
  <2>5. QED
    BY <1>1, <1>a, <2>4
<1>2. ASSUME deskUp' = deskUp, Desks!Kept' = Desks!Kept,
             UNCHANGED <<lastSpoken, heldVersion, settledIds, timesTold>>
      PROVE  Good
  BY <1>0, <1>2, <1>a, <1>b
<1>3. ASSUME NEW r \in Rows, Desks!ServeTurn(r)
      PROVE  Good
  BY <1>0, <1>2, <1>3 DEF Desks!ServeTurn
<1>4. ASSUME NEW r \in Rows, Desks!Cool(r)
      PROVE  Good
  <2>1. Desks!Cooled(Owner(r)) \in Words /\ Desks!Cooled(Owner(r)).kind = "cooled"
    BY DEF Desks!Cooled, Words, Desks!DesksAssumption
  <2>2. QED
    BY <1>0, <1>1, <1>4, <2>1 DEF Desks!Cool
<1>5. ASSUME NEW r \in Rows, NEW v \in Desks!Versions, Desks!Speak(r, v)
      PROVE  Good
  <2>1. /\ deskUp' = Append(deskUp, Desks!Spoken(r, v))
        /\ lastSpoken' = [lastSpoken EXCEPT ![r] = v]
        /\ UNCHANGED <<deskAlive, Desks!host, Desks!logDesk>>
        /\ v \in {"raised", "open", "measured"}
        /\ ~Desks!RowSettled(lastSpoken[r])
    BY <1>5 DEF Desks!Speak, Desks!RowSettled, Desks!None
  <2>2. Desks!Spoken(r, v) \in Words /\ Desks!Spoken(r, v).kind = "row" /\
           Desks!Spoken(r, v).row = r
    BY <2>1 DEF Desks!Spoken, Words, Desks!None
  <2>3. /\ Len(deskUp') = Len(deskUp) + 1 /\ Len(deskUp) \in Nat /\
             deskUp'[Len(deskUp) + 1] = Desks!Spoken(r, v)
        /\ \A n \in 1..Len(deskUp) : deskUp'[n] = deskUp[n]
    BY <1>0, <2>1, <2>2
  <2>4. \A n \in 1..Len(deskUp') : n \in 1..Len(deskUp) \/ n = Len(deskUp) + 1
    BY <2>3
  <2>6. timesTold[r] = 0 /\ \A n \in 1..Len(deskUp) : ~Settling(deskUp[n], r)
    <3>1. timesTold[r] \in Nat /\ timesTold[r] <= 1 /\ timesTold[r] # 1
      BY <1>0, <1>5, <1>a, <2>1
    <3>2. timesTold[r] = 0
      BY <3>1
    <3>3. QED
      BY <1>b, <2>1, <3>2
  <2>7. \A k \in Rows : k # r => lastSpoken'[k] = lastSpoken[k] /\ ~Settling(Desks!Spoken(r, v), k)
    BY <1>0, <2>1, <2>2 DEF Settling
  <2>8. Settling(Desks!Spoken(r, v), r) => Desks!RowSettled(lastSpoken'[r])
    BY <1>0, <2>1 DEF Settling, Desks!Spoken
  <2>9. Rowwise
    BY <1>0, <1>a, <2>1, <2>6, <2>7
  <2>10. ASSUME NEW k \in Rows, NEW n \in 1..Len(deskUp'), Settling(deskUp'[n], k)
         PROVE  /\ timesTold'[k] = 0 /\ Desks!RowSettled(lastSpoken'[k])
                /\ \A m \in 1..Len(deskUp') : Settling(deskUp'[m], k) => m = n
    <3>1. CASE k = r
      BY <2>1, <2>3, <2>4, <2>6, <2>8, <2>10, <3>1
    <3>2. CASE k # r
      BY <1>b, <2>1, <2>3, <2>4, <2>7, <2>10, <3>2
    <3>3. QED
      BY <3>1, <3>2
  <2>11. QED
    BY <2>9, <2>10
<1>6. ASSUME NEW g \in Gateways, Desks!RunStart(g)
      PROVE  Good
  <2>1. \A state \in {"running", "stopped"} :
           Desks!Reported(g, state) \in Words /\ Desks!Reported(g, state).kind = state
    BY DEF Desks!Reported, Words
  <2>2. QED
    BY <1>1, <1>6, <2>1 DEF Desks!RunStart
<1>7. ASSUME NEW g \in Gateways, Desks!RunStop(g) \/ Desks!Forget(g)
      PROVE  Good
  <2>1. Desks!Forget(g) /\ ~life[g].stands
    BY <1>0, <1>7 DEF Desks!RunStop, Desks!Forget, Desks!Standing
  <2>2. LogForgets(g)
    BY <2>1 DEF Desks!Forget, LogForgets, Desks!StillWaiting
  <2>3. Desks!Kept' = Desks!Kept \ Desks!Of(g) /\ Desks!Kept \cap Desks!Of(g) = {}
    BY <2>1, <2>2, KeptAfterForgetting, NothingIsCut
  <2>4. Desks!Kept' = Desks!Kept
    BY <2>3
  <2>5. QED
    BY <1>2, <2>1, <2>4 DEF Desks!Forget
<1>8. ASSUME NEW g \in Gateways, Desks!SendStop(g)
      PROVE  FALSE
  BY <1>0, <1>8 DEF Desks!SendStop, Desks!Spend, Desks!Steady, Counted
<1>9. ASSUME NEW g \in Gateways, Desks!SendStart(g) \/ Desks!GiveUp(g)
      PROVE  Good
  <2>1. deskUp' = deskUp /\ UNCHANGED <<lastSpoken, retained, heldVersion, settledIds, timesTold>>
    BY <1>0, <1>9 DEF Desks!SendStart, Desks!GiveUp, Desks!Backfill
  <2>2. QED
    BY <1>2, <2>1
<1>10. ~Desks!Die /\ ~Desks!HearExit
  BY <1>0 DEF Desks!Die, Desks!HearExit, Desks!Spend, Desks!Steady, Counted
<1>11. CASE Desks!HearNext
  <2> DEFINE word == Head(deskUp)
  <2>1. deskUp # <<>> /\ deskUp' = Tail(deskUp) /\ UNCHANGED lastSpoken
    BY <1>11 DEF Desks!HearNext
  <2>2. /\ Len(deskUp) \in Nat \ {0} /\ Len(deskUp') = Len(deskUp) - 1
        /\ word = deskUp[1] /\ word \in Words
        /\ \A n \in 1..Len(deskUp') : deskUp'[n] = deskUp[n + 1] /\ n + 1 \in 1..Len(deskUp)
        /\ 1 \in 1..Len(deskUp)
    BY <1>0, <2>1
  <2> HIDE DEF word
  <2>3. CASE word.kind = "stopped" /\ Desks!DesksInterrupted({word.gateway})
    <3>1. word.gateway \in Gateways /\ StopIsSaid(word.gateway)
      BY <2>2, <2>3 DEF Words, StopIsSaid
    <3>2. Desks!Kept \cap Desks!Of(word.gateway) = {} /\ Desks!Interrupt({word.gateway})
      BY <2>3, <3>1, NothingIsCut DEF Desks!DesksInterrupted
    <3>3. UNCHANGED <<retained, heldVersion, settledIds, timesTold>>
      BY <3>1, <3>2, InterruptsNobody
    <3>4. Rowwise
      BY <1>a, <2>1, <3>3
    <3>5. Wordwise
      BY <1>b, <2>1, <2>2, <3>3
    <3>6. QED
      BY <3>4, <3>5
  <2>4. CASE UNCHANGED Desks!logDesk
    <3>1. Rowwise
      BY <1>a, <2>1, <2>4
    <3>2. Wordwise
      BY <1>b, <2>1, <2>2, <2>4
    <3>3. QED
      BY <3>1, <3>2
  <2>5. CASE word.kind = "row" /\ Desks!HearRow(word.row, word.version)
    <3>1. PICK r \in Rows, v \in Desks!Versions \ {Desks!None} : r = word.row /\ v = word.version
      BY <2>2, <2>5 DEF Words
    <3> DEFINE settling == IF Desks!RowSettled(v) THEN {r} ELSE {}
    <3>2. ~Desks!Late(r) /\ Desks!HearRow(r, v)
      <4>1. lastSpoken[r] # Desks!None
        BY <2>2, <2>5, <3>1 DEF NothingEnds
      <4>2. Served(Owner(r)) /\ Owner(r) \in Gateways
        BY <4>1 DEF NothingEnds, Desks!DesksAssumption
      <4>3. QED
        BY <2>5, <3>1, <4>2 DEF NothingEnds, Desks!Late
    <3>3. Desks!Kept' \subseteq Desks!Kept \cup {r}
      BY <3>2, KeptAfterReport
    <3>4. /\ heldVersion' = [heldVersion EXCEPT ![r] = v]
          /\ \E ids \in SUBSET settledIds : Desks!TellSettled(settling, ids)
      BY <3>2 DEF Desks!HearRow
    <3>5. PICK ids \in SUBSET settledIds : Desks!TellSettled(settling, ids)
      BY <3>4
    <3>7. CASE Desks!RowSettled(v)
      <4>1. Settling(deskUp[1], r)
        BY <2>2, <2>5, <3>1, <3>7 DEF Settling
      <4>2. timesTold[r] = 0 /\ Desks!RowSettled(lastSpoken[r]) /\ r \notin settledIds
        <5>1. timesTold[r] = 0 /\ Desks!RowSettled(lastSpoken[r])
          BY <1>b, <2>2, <4>1
        <5>2. r \in settledIds => timesTold[r] = 1
          BY <1>a, <3>1
        <5>3. QED
          BY <5>1, <5>2
      <4>3. timesTold' = [k \in Rows |-> IF k = r THEN 1 ELSE timesTold[k]] /\
              settledIds' = ids \cup {r}
        BY <1>0, <3>5, <3>7, <4>2 DEF Desks!TellSettled
      <4>4. Rowwise
        BY <1>0, <1>a, <2>1, <3>3, <3>4, <4>2, <4>3
      <4>5. \A n \in 1..Len(deskUp') : ~Settling(deskUp'[n], r)
        BY <1>b, <2>2, <4>1
      <4>6. Wordwise
        BY <1>b, <2>1, <2>2, <4>3, <4>5
      <4>7. QED
        BY <4>4, <4>6
    <3>8. CASE ~Desks!RowSettled(v)
      <4>1. timesTold' = timesTold /\ settledIds' \subseteq settledIds
        BY <1>0, <3>5, <3>8 DEF Desks!TellSettled
      <4>2. Rowwise
        BY <1>0, <1>a, <2>1, <3>3, <3>4, <3>8, <4>1
      <4>3. Wordwise
        BY <1>b, <2>1, <2>2, <4>1
      <4>4. QED
        BY <4>2, <4>3
    <3>9. QED
      BY <3>7, <3>8
  <2>6. QED
    BY <1>11, <2>3, <2>4, <2>5 DEF Desks!HearNext, Desks!HearReport, word
<1>12. CASE Desks!PushRows \/ Desks!PushFiled \/ Desks!ReplayLogs \/ Desks!Reload \/
              UNCHANGED Desks!vars
  <2>1. deskUp' = deskUp /\ UNCHANGED <<lastSpoken, retained, heldVersion, settledIds, timesTold>>
    BY <1>12 DEF Desks!PushRows, Desks!PushFiled, Desks!ReplayLogs, Desks!Reload, Desks!Backfill,
       Desks!vars
  <2>2. QED
    BY <1>2, <2>1
<1>13. QED
  BY <1>3, <1>4, <1>5, <1>6, <1>7, <1>8, <1>9, <1>10, <1>11, <1>12 DEF Desks!Next

LEMMA DesksInit ==
  ASSUME Desks!DesksAssumption, Desks!Init
  PROVE  DesksInv
<1> USE DEF Desks!Init
<1>1. Desks!Kept = {}
  BY DEF Desks!Kept, Desks!ToSet
<1>2. DesksTyped
  <2>1. retained \in Seq(Rows) /\ Len(retained) = 0 /\ deskUp \in Seq(Words)
    OBVIOUS
  <2>2. Desks!DesksTypeOK
    <3>1. Retained \in Nat /\ \A m, n \in DOMAIN retained : FALSE
      BY DEF Desks!DesksAssumption
    <3>2. heldVersion \in [Rows -> Desks!Versions] /\ shown \in [Rows -> Desks!Versions]
      BY DEF Desks!Versions
    <3>3. Len(retained) <= Retained /\ \A m, n \in DOMAIN retained : retained[m] = retained[n] =>
            m = n
      BY <2>1, <3>1
    <3>4. \A r \in Desks!Kept : heldVersion[r] # Desks!None
      BY <1>1
    <3>5. heldBack \subseteq Rows /\ deskInactive \subseteq Gateways /\ filed \subseteq Gateways
      OBVIOUS
    <3>6. runPending \in BOOLEAN /\ refiling \in BOOLEAN
      OBVIOUS
    <3>7. QED
      BY <2>1, <3>2, <3>3, <3>4, <3>5, <3>6 DEF Desks!DesksTypeOK
  <2>3. deskCounts \in [Counted -> Nat]
    BY DEF Counted
  <2>4. QED
    BY <2>1, <2>2, <2>3 DEF DesksTyped, Desks!Versions, Lives
<1>3. Desks!WindowsAreOwedWhatTheyMiss /\ Desks!NoStoppedRowIsOpen
  BY <1>1 DEF Desks!WindowsAreOwedWhatTheyMiss, Desks!NoStoppedRowIsOpen
<1>4. ToldAsSettled /\ Desks!NoRemovedRowCrosses
  BY <1>1 DEF ToldAsSettled, Desks!NoRemovedRowCrosses
<1>5. NothingEnds /\ ToldByOneReport
  <2>1. Len(deskUp) = 0 /\ 1..Len(deskUp) = {}
    OBVIOUS
  <2>2. QED
    BY <1>1, <2>1 DEF NothingEnds, ToldByOneReport, Served, StopIsSaid, Desks!None
<1>6. Desks!WindowsHoldTheSnapshot /\ deskCounts["reloads"] = 0
  BY DEF Desks!WindowsHoldTheSnapshot
<1>7. QED
  BY <1>2, <1>3, <1>4, <1>5, <1>6 DEF DesksInv

LEMMA DesksNext ==
  ASSUME Desks!DesksAssumption, DesksInv, [Desks!Next]_Desks!vars
  PROVE  DesksInv'
<1>1. DesksTyped /\ LogMoves
  BY LogNext DEF DesksInv
<1>2. DesksTyped'
  BY <1>1, TypedHolds
<1>3. Desks!WindowsAreOwedWhatTheyMiss' /\ Desks!NoStoppedRowIsOpen'
  BY <1>1, LogOwes DEF DesksInv
<1>4. Desks!Roomy => ToldAsSettled' /\ Desks!NoRemovedRowCrosses'
  BY <1>1, LogTellsOnce DEF DesksInv
<1>5. Desks!Steady => NothingEnds' /\ ToldByOneReport'
  BY <1>1, NothingEndsStill, OneReportTells DEF DesksInv
<1>6. MaxReloads = 0 => Desks!WindowsHoldTheSnapshot' /\ deskCounts'["reloads"] = 0
  BY <1>1, SnapshotFollowed DEF DesksInv
<1>7. Desks!Roomy' <=> Desks!Roomy /\ (Desks!Steady' <=> Desks!Steady)
  BY DEF Desks!Roomy, Desks!Steady
<1>8. QED
  BY <1>2, <1>3, <1>4, <1>5, <1>6 DEF DesksInv, Desks!Roomy, Desks!Steady

LEMMA DesksSay ==
  ASSUME DesksInv
  PROVE  Desks!DesksAreTold
<1>1. Desks!Roomy => Desks!SettledIsToldOnce
  BY DEF DesksInv, ToldAsSettled, Desks!SettledIsToldOnce, DesksTyped
<1>2. Desks!Steady => Desks!SettledIsToldOnce
  BY DEF DesksInv, ToldByOneReport, Desks!SettledIsToldOnce
<1>3. QED
  BY <1>1, <1>2 DEF DesksInv, DesksTyped, Desks!DesksAreTold

(* Of any rows of any gateways, however often gateways are started, stopped,   *)
(* given up on and forgotten and the child dies: every kept row a window lacks *)
(* the latest version of is in a run that is scheduled, or the window has yet  *)
(* to ask again, and no gateway held as stopped keeps a row open. Where the    *)
(* desk has room for every row, or where no gateway ends, every kept row that  *)
(* settled was handed on just once; where it has room, no run holds a row it   *)
(* no longer keeps; where no window reloads, the snapshot is followed          *)
(* (logs-ledger.ts:51-290, route-node-desk.ts).                                *)
THEOREM DesksTell ==
  ASSUME Desks!DesksAssumption
  PROVE  Desks!Spec => []Desks!DesksAreTold
<1>1. Desks!Init => DesksInv
  BY DesksInit
<1>2. DesksInv /\ [Desks!Next]_Desks!vars => DesksInv'
  BY DesksNext
<1>3. DesksInv => Desks!DesksAreTold
  BY DesksSay
<1>4. QED
  BY <1>1, <1>2, <1>3, PTL DEF Desks!Spec

=============================================================================
