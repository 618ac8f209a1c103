-------------------------- MODULE GatewayDocuments --------------------------
(***************************************************************************)
(* The stored gateway documents and the one lane every write of them takes:*)
(* ipc/gateway-storage-ipc.ts (save, update, set-port, remove) and         *)
(* ipc/engine-ipc.ts (move-port) over storage/gateway-write-order.ts.      *)
(*                                                                         *)
(* Each job lists the directory, waits (for a snapshot to resolve, a free   *)
(* port to be probed, a restart to settle), and writes what it decided from *)
(* that listing.  A caller's own copy of a document may be as old as it     *)
(* likes, so a request carries any port and any definition.                *)
(***************************************************************************)
EXTENDS Naturals, Sequences, FiniteSets

CONSTANTS
    Slugs,          \* names a gateway may be stored under
    Ports,
    Definitions,    \* what a document says besides its port
    NoDocument,
    MaxRequests     \* bound: requests the callers make

ASSUME DocumentsAssumption ==
    /\ NoDocument \notin [port : Ports, says : Definitions]
    /\ MaxRequests \in Nat

VARIABLES
    docs,           \* [slug]: the document on disk
    lane,           \* jobs in the order they arrived
    answered,       \* [slug]: what callers were told is stored
    requests        \* requests made so far

docsVars == <<docs, lane, answered, requests>>

Document == [port : Ports, says : Definitions]
Directory == [Slugs -> Document \cup {NoDocument}]
Kinds == {"save", "update", "set-port", "move-port", "remove"}
Request == [kind : Kinds, slug : Slugs, arriving : Document]
Unlisted == [slug \in Slugs |-> NoDocument]
Job == [ask : Request, listed : BOOLEAN, listing : Directory]

Stored(directory) == {slug \in Slugs : directory[slug] # NoDocument}
Holders(directory, port) == {slug \in Stored(directory) : directory[slug].port = port}

(* Mutant: jobs are let in together.                                       *)
AnyTurn(n) == n \in 1..Len(lane)

(* oneAtATime: the earliest job alone runs.                                *)
MyTurn(n) == n = 1 /\ lane # <<>>

Arrive(ask) ==
    /\ requests < MaxRequests
    /\ requests' = requests + 1
    /\ lane' = Append(lane, [ask |-> ask, listed |-> FALSE, listing |-> Unlisted])
    /\ UNCHANGED <<docs, answered>>

List(n) ==
    /\ MyTurn(n)
    /\ ~lane[n].listed
    /\ lane' = [lane EXCEPT ![n] = [@ EXCEPT !.listed = TRUE, !.listing = docs]]
    /\ UNCHANGED <<docs, answered, requests>>

(* Mutant: only the slug is compared.                                      *)
NeverHeld(ask, listing) == FALSE

(* conflictWith, and the holder set-port looks for; a port set to what it    *)
(* is writes nothing either.                                               *)
PortIsHeld(ask, listing) ==
    /\ ask.kind \in {"save", "set-port", "move-port"}
    /\ Holders(listing, ask.arriving.port) # {}

IsRefused(ask, listing) ==
    \/ (ask.kind = "save" <=> ask.slug \in Stored(listing))
    \/ PortIsHeld(ask, listing)

DecidedByTheCaller(ask, listing) ==
    IF ask.kind = "remove" THEN NoDocument ELSE ask.arriving

(* updateGateway keeps the stored port, the two moves the stored definition; *)
(* move-port's port is one probed free of those listed.                     *)
Decided(ask, listing) ==
    CASE ask.kind = "update" -> [ask.arriving EXCEPT !.port = listing[ask.slug].port]
      [] ask.kind \in {"set-port", "move-port"} ->
             [listing[ask.slug] EXCEPT !.port = ask.arriving.port]
      [] ask.kind = "remove" -> NoDocument
      [] OTHER -> ask.arriving

Leave(n) == lane' = [m \in 1..(Len(lane) - 1) |-> lane[IF m < n THEN m ELSE m + 1]]

(* A refusal, a snapshot that did not resolve, a restart that failed, or a  *)
(* disk that refused: nothing was written and the next turn comes.          *)
Refuse(n) ==
    /\ MyTurn(n)
    /\ lane[n].listed
    /\ Leave(n)
    /\ UNCHANGED <<docs, answered, requests>>

(* A caller is told the port it set or moved to, the definition it stored, or *)
(* that the gateway has left.                                              *)
ToldOf(ask, told) ==
    CASE ask.kind = "update" ->
             IF told = NoDocument THEN NoDocument ELSE [told EXCEPT !.says = ask.arriving.says]
      [] ask.kind \in {"set-port", "move-port"} ->
             IF told = NoDocument THEN NoDocument ELSE [told EXCEPT !.port = ask.arriving.port]
      [] ask.kind = "remove" -> NoDocument
      [] OTHER -> ask.arriving

Write(n) ==
    /\ MyTurn(n)
    /\ lane[n].listed
    /\ LET ask == lane[n].ask
           listing == lane[n].listing
       IN  /\ ~IsRefused(ask, listing)
           /\ docs' = [docs EXCEPT ![ask.slug] = Decided(ask, listing)]
           /\ answered' = [answered EXCEPT ![ask.slug] = ToldOf(ask, @)]
    /\ Leave(n)
    /\ UNCHANGED requests

DocsInit ==
    /\ docs \in Directory
    /\ \A port \in Ports : \A a, b \in Holders(docs, port) : a = b
    /\ lane = <<>>
    /\ answered = docs
    /\ requests = 0

LaneMoves == \E n \in 1..Len(lane) : List(n) \/ Refuse(n) \/ Write(n)

DocsNext == LaneMoves \/ \E ask \in Request : Arrive(ask)

DocsSpec == DocsInit /\ [][DocsNext]_docsVars

-----------------------------------------------------------------------------
(* Properties.                                                             *)

(* Every variable keeps its type.                                          *)
DocsTypeOK ==
    /\ docs \in Directory
    /\ lane \in Seq(Job)
    /\ answered \in Directory
    /\ requests \in 0..MaxRequests

(* What lies under the head of the lane has not moved since it was listed.  *)
ListingStands ==
    \A n \in 1..Len(lane) : lane[n].listed => n = 1 /\ lane[n].listing = docs

(* Two gateways never hold one port, however their saves and moves arrive   *)
(* ("handing one port to two gateways", one-at-a-time.ts).                 *)
NoPortIsHeldTwice ==
    \A port \in Ports : \A a, b \in Holders(docs, port) : a = b

(* What a caller was told is stored is stored: no later write, decided on a  *)
(* copy or a listing older than it, takes a definition away or moves a port  *)
(* back.                                                                   *)
AnsweredIsStored == docs = answered

=============================================================================
