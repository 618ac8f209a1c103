------------------------------ MODULE XaiSocket ------------------------------
(***************************************************************************)
(* One caller's Responses socket, carried over sockets to xAI                *)
(* (packages/engine/src/provider/xai-websocket-proxy.ts and its              *)
(* xai-websocket-* parts): turns taken one at a time, one upstream           *)
(* connection per target, and the transcript a compaction is asked of.       *)
(*                                                                          *)
(* A turn is its number, its target and the way it goes on: a conversation   *)
(* is the sequence of what its turns said ("in") and were told ("out").      *)
(* Reasoning events, tool payloads, ids repeated by the provider and the     *)
(* words of an error are left out, and so are turns after the first the      *)
(* proxy refuses.                                                           *)
(***************************************************************************)
EXTENDS Naturals, Sequences, FiniteSets, TLAPS

CONSTANTS
    Keys,       \* connectionKey: an origin, a credential and a model
    None,
    MaxTurns,   \* bound: turns the caller asks
    MaxOut      \* bound: turns out at once

(* fresh: a request with no previous response. append: response.append.     *)
(* next: names the response last told. warmup: fresh, with generate false.  *)
(* empty: fresh, with no input. compact: carries a compaction_trigger.      *)
(* bad: a model the gateway does not serve or a grant that is not xAI's.    *)
TurnWays == {"fresh", "append", "next", "warmup", "empty", "compact", "bad"}
Turns == [n : 1..MaxTurns, key : Keys, way : TurnWays]
Items == [kind : {"in", "out", "compaction"}, of : 1..MaxTurns]

VARIABLES
    socketDown,  \* the caller's socket: ending once the proxy closed it
    terminal,
    queue,       \* this.turn: the turns that wait for the lane
    work,        \* the turn the lane is at, None between two
    stage,       \* where its await stands
    conns,       \* the connections, in the order they were made
    active,      \* this.active: 0 for none
    transcript,
    replay,      \* replayOnReset
    compacted,   \* compactResponseId is the response last told
    turnsAsked,  \* turns asked so far
    told,        \* the turns whose end the caller was told
    lost,        \* the turns whose own request threw
    inTurn,      \* no turn was asked while another was out
    lastNamed,   \* what the caller can name as its previous response
    talk         \* the conversation as the caller heard it

socketVars == <<socketDown, terminal, queue, work, stage, conns, active, transcript,
    replay, compacted, turnsAsked, told, lost, inTurn, lastNamed, talk>>

Requests == [n : 1..MaxTurns, way : TurnWays, said : Seq(Items), reset : BOOLEAN]
Conns == [key : Keys, up : {"connecting", "open", "refused", "closing", "closed"},
          pending : Requests \cup {None}, owes : Seq(Requests), late : BOOLEAN]

SocketAssumption ==
    MaxTurns \in Nat /\ MaxOut \in Nat /\ None \notin Turns /\ None \notin Requests

SocketTypeOK ==
    /\ socketDown \in {"open", "ending", "gone"}
    /\ queue \in Seq(Turns)
    /\ work \in Turns \cup {None}
    /\ stage \in {"idle", "granting", "compacting", "readying"}
    /\ conns \in Seq(Conns) /\ active \in 0..Len(conns)
    /\ transcript \in Seq(Items) /\ talk \in Seq(Items)
    /\ {terminal, replay, compacted, inTurn} \subseteq BOOLEAN
    /\ turnsAsked \in 0..MaxTurns
    /\ told \subseteq 1..turnsAsked /\ lost \subseteq 1..turnsAsked
    /\ lastNamed \in {"nothing", "response", "compaction"}

-----------------------------------------------------------------------------
Item(kind, n) == [kind |-> kind, of |-> n]
Says(turn) == IF turn.way = "empty" THEN <<>> ELSE <<Item("in", turn.n)>>
Answer(turn) == IF turn.way = "warmup" THEN <<>> ELSE <<Item("out", turn.n)>>

(* What a turn is to its caller, who knows of no transcript: it goes on     *)
(* where it says so, or where the conversation was just compacted.          *)
GoesOn(way) ==
    way \in {"append", "next"} \/ (lastNamed = "compaction" /\ way \in {"fresh", "warmup"})

Heard(turn) ==
    /\ told' = told \cup {turn.n}
    /\ lastNamed' = "response"
    /\ talk' = (IF GoesOn(turn.way) THEN talk ELSE <<>>) \o Says(turn) \o Answer(turn)

(* sendError and upstreamClose: the caller's socket is closed for good.      *)
EndsTheCaller ==
    /\ terminal' = TRUE
    /\ socketDown' = IF socketDown = "open" THEN "ending" ELSE socketDown

(* acceptsMessage                                                          *)
Accepts(c) == active = c /\ ~terminal

(* The connection c is closed, if it is one and is not closed already.      *)
LetGo(c) ==
    IF c = 0 \/ conns[c].up = "closed" THEN conns ELSE [conns EXCEPT ![c].up = "closing"]

(* requestContext: a turn that names a response xAI still holds replays      *)
(* nothing; one that names the compaction is as if it named nothing.         *)
Blocked(turn) == turn.way = "next" /\ ~(lastNamed = "compaction" /\ compacted)

(* XAIWebSocketTranscript.prepare                                          *)
StartsOver(turn) == ~Blocked(turn) /\ Says(turn) = <<>>
Replays(turn) == ~Blocked(turn) /\ ~StartsOver(turn) /\ replay /\ transcript # <<>>

(* Mutant: an appended turn keeps the transcript it was just sent with.     *)
ResetsUnlessAppended(turn) == ~Blocked(turn) /\ turn.way # "append"

(* resetTranscript                                                         *)
Resets(turn) == ~Blocked(turn) /\ (turn.way # "append" \/ Replays(turn))

Prepared(turn) ==
    [n |-> turn.n, way |-> turn.way, reset |-> Resets(turn),
     said |-> (IF Replays(turn) THEN transcript ELSE <<>>) \o Says(turn)]

(* record: what was said and answered follows what stood, or replaces it.    *)
Record(request, answer) ==
    /\ transcript' = (IF request.reset THEN <<>> ELSE transcript)
                     \o request.said \o answer
    /\ replay' = (replay /\ ~request.reset)
    /\ compacted' = (compacted /\ ~request.reset)

(* connectionFor: the connection that stands serves its own target only.     *)
Serves(c, key) == c # 0 /\ conns[c].key = key

-----------------------------------------------------------------------------
Out == (1..turnsAsked) \ (told \cup lost)

(* receive: turns wait in line for the lane.                               *)
AskTurn(key, way) ==
    /\ socketDown = "open"
    /\ turnsAsked < MaxTurns /\ Cardinality(Out) < MaxOut
    /\ way = "next" => lastNamed # "nothing"
    /\ LET turn == [n |-> turnsAsked + 1, key |-> key, way |-> way]
       IN  queue' = Append(queue, turn)
    /\ turnsAsked' = turnsAsked + 1
    /\ inTurn' = (inTurn /\ Out = {})
    /\ UNCHANGED <<socketDown, terminal, work, stage, conns, active, transcript, replay,
                   compacted, told, lost, lastNamed, talk>>

(* receiveTurn up to the grant it asks for.                                *)
Begin ==
    /\ work = None /\ queue # <<>>
    /\ work' = Head(queue) /\ queue' = Tail(queue)
    /\ stage' = "granting"
    /\ UNCHANGED <<socketDown, terminal, conns, active, transcript, replay, compacted,
                   turnsAsked, told, lost, inTurn, lastNamed, talk>>

Rests == work' = None /\ stage' = "idle"

(* prepare: a turn nothing serves closes the caller's socket, which is not   *)
(* yet the end of the proxy.                                                *)
RefuseTurn ==
    /\ stage = "granting" /\ work.way = "bad"
    /\ socketDown' = IF socketDown = "open" THEN "ending" ELSE socketDown
    /\ Rests
    /\ UNCHANGED <<terminal, queue, conns, active, transcript, replay, compacted,
                   turnsAsked, told, lost, inTurn, lastNamed, talk>>

(* compact: nothing to compact is answered at once.                        *)
RefuseToCompact ==
    /\ stage = "granting" /\ work.way = "compact"
    /\ transcript = <<>>
    /\ told' = told \cup {work.n}
    /\ Rests
    /\ UNCHANGED <<socketDown, terminal, queue, conns, active, transcript, replay,
                   compacted, turnsAsked, lost, inTurn, lastNamed, talk>>

Compact ==
    /\ stage = "granting" /\ work.way = "compact"
    /\ transcript # <<>>
    /\ stage' = "compacting"
    /\ UNCHANGED <<socketDown, terminal, queue, work, conns, active, transcript, replay,
                   compacted, turnsAsked, told, lost, inTurn, lastNamed, talk>>

(* The compaction comes back: valid, refused, or its request threw, which    *)
(* answers nobody.                                                          *)
Compacted ==
    /\ stage = "compacting"
    /\ \/ /\ transcript' = <<Item("compaction", work.n)>>
          /\ replay' = TRUE /\ compacted' = TRUE
          /\ told' = told \cup {work.n}
          /\ lastNamed' = "compaction"
          /\ talk' = <<Item("compaction", work.n)>>
          /\ UNCHANGED lost
       \/ /\ told' = told \cup {work.n}
          /\ UNCHANGED <<transcript, replay, compacted, lost, lastNamed, talk>>
       \/ /\ lost' = lost \cup {work.n}
          /\ UNCHANGED <<transcript, replay, compacted, told, lastNamed, talk>>
    /\ Rests
    /\ UNCHANGED <<socketDown, terminal, queue, conns, active, turnsAsked, inTurn>>

(* prepare and send: on the connection of the target, or on one made for it, *)
(* whose handshake the turn then waits for; the one it replaces is closed.   *)
(* An open connection is sent the turn at once, any other drops it.          *)
Given(conn, request) ==
    [conn EXCEPT !.pending = request,
                 !.owes = IF conn.up = "open" THEN Append(@, request) ELSE @]

Connect ==
    /\ stage = "granting" /\ work.way \notin {"bad", "compact"}
    /\ LET request == Prepared(work)
           over == StartsOver(work)
       IN  /\ transcript' = IF over THEN <<>> ELSE transcript
           /\ replay' = (replay /\ ~over /\ ~Replays(work))
           /\ compacted' = (compacted /\ ~over)
           /\ \/ /\ Serves(active, work.key)
                 /\ conns' = [conns EXCEPT ![active] = Given(@, request)]
                 /\ Rests
                 /\ UNCHANGED active
              \/ /\ ~Serves(active, work.key)
                 /\ conns' = Append(LetGo(active),
                        [key |-> work.key, up |-> "connecting", pending |-> request,
                         owes |-> <<>>, late |-> socketDown = "gone"])
                 /\ active' = Len(conns) + 1
                 /\ stage' = "readying"
                 /\ UNCHANGED work
    /\ UNCHANGED <<socketDown, terminal, queue, turnsAsked, told, lost, inTurn,
                   lastNamed, talk>>

(* xaiWebSocketReady: the handshake ends well, and the turn is sent if its    *)
(* connection still stands.                                                 *)
Open(c) ==
    /\ conns[c].up = "connecting"
    /\ conns' = [conns EXCEPT ![c].up = "open", ![c].owes = <<conns[c].pending>>]
    /\ Rests
    /\ UNCHANGED <<socketDown, terminal, queue, active, transcript, replay, compacted,
                   turnsAsked, told, lost, inTurn, lastNamed, talk>>

(* The handshake fails, or its connection was let go of before it ended: the *)
(* turn is dropped, and a failure nobody asked for is told.                 *)
Fail(c) ==
    /\ stage = "readying" /\ c = Len(conns)
    /\ conns[c].up \in {"connecting", "closing"}
    /\ conns' = [conns EXCEPT ![c].up = "closed"]
    /\ IF Accepts(c) THEN EndsTheCaller ELSE UNCHANGED <<socketDown, terminal>>
    /\ Rests
    /\ UNCHANGED <<queue, active, transcript, replay, compacted, turnsAsked, told, lost,
                   inTurn, lastNamed, talk>>

(* unexpected-response, whose words are read before they are told.           *)
Refused(c) ==
    /\ conns[c].up = "connecting"
    /\ conns' = [conns EXCEPT ![c].up = "refused"]
    /\ Rests
    /\ UNCHANGED <<socketDown, terminal, queue, active, transcript, replay, compacted,
                   turnsAsked, told, lost, inTurn, lastNamed, talk>>

HandshakeError(c) ==
    /\ conns[c].up = "refused"
    /\ Accepts(c)
    /\ EndsTheCaller
    /\ UNCHANGED <<queue, work, stage, conns, active, transcript, replay, compacted,
                   turnsAsked, told, lost, inTurn, lastNamed, talk>>

Warming(c) == conns[c].pending # None /\ conns[c].pending.way = "warmup"

(* observe, response.created: a turn that asked to generate nothing is over    *)
(* with it. The event is the first turn's that xAI still owes, and is taken   *)
(* for the one that is pending.                                            *)
WarmedUp(c) ==
    /\ conns[c].up = "open" /\ conns[c].owes # <<>>
    /\ Accepts(c)
    /\ Warming(c)
    /\ LET warmup == conns[c].pending
       IN  /\ conns' = [conns EXCEPT ![c].pending = None,
                            ![c].owes = IF Head(@).n = warmup.n THEN Tail(@) ELSE @]
           /\ Record(warmup, <<>>)
           /\ Heard(warmup)
    /\ UNCHANGED <<socketDown, terminal, queue, work, stage, active, turnsAsked, lost,
                   inTurn>>

(* upstreamMessage, response.completed: heard by the connection that stands   *)
(* only, and recorded against the turn it has pending. A warmup xAI is not    *)
(* heard about is never completed.                                         *)
Complete(c) ==
    /\ conns[c].up = "open" /\ conns[c].owes # <<>>
    /\ LET pending == conns[c].pending
           turn == Head(conns[c].owes)
           warm == turn.way = "warmup"
       IN  /\ ~(warm /\ Accepts(c) /\ Warming(c))
           /\ IF Accepts(c) /\ ~warm
              THEN /\ conns' = [conns EXCEPT ![c].owes = Tail(@), ![c].pending = None]
                   /\ IF pending = None THEN UNCHANGED <<transcript, replay, compacted>>
                                        ELSE Record(pending, Answer(turn))
                   /\ Heard(turn)
              ELSE /\ conns' = [conns EXCEPT ![c].owes = Tail(@)]
                   /\ UNCHANGED <<transcript, replay, compacted, told, lastNamed, talk>>
    /\ UNCHANGED <<socketDown, terminal, queue, work, stage, active, turnsAsked, lost,
                   inTurn>>

(* handleUpstreamError                                                     *)
UpstreamError(c) ==
    /\ conns[c].up = "open" /\ Accepts(c)
    /\ conns' = [conns EXCEPT ![c].up = "closing"]
    /\ EndsTheCaller
    /\ UNCHANGED <<queue, work, stage, active, transcript, replay, compacted, turnsAsked,
                   told, lost, inTurn, lastNamed, talk>>

(* upstreamClose                                                           *)
UpstreamClose(c) ==
    /\ conns[c].up \in {"open", "closing"} /\ ~(stage = "readying" /\ c = Len(conns))
    /\ conns' = [conns EXCEPT ![c].up = "closed"]
    /\ IF Accepts(c) THEN active' = 0 /\ EndsTheCaller
                     ELSE UNCHANGED <<active, socketDown, terminal>>
    /\ UNCHANGED <<queue, work, stage, transcript, replay, compacted, turnsAsked, told,
                   lost, inTurn, lastNamed, talk>>

(* onClose: close() lets go of the connection that stands; a turn the lane    *)
(* is at goes on.                                                          *)
CallerGone ==
    /\ socketDown # "gone"
    /\ socketDown' = "gone"
    /\ terminal' = TRUE
    /\ active' = 0
    /\ conns' = LetGo(active)
    /\ UNCHANGED <<queue, work, stage, transcript, replay, compacted, turnsAsked, told,
                   lost, inTurn, lastNamed, talk>>

SocketInit ==
    /\ socketDown = "open" /\ terminal = FALSE
    /\ queue = <<>> /\ work = None /\ stage = "idle"
    /\ conns = <<>> /\ active = 0
    /\ transcript = <<>> /\ replay = FALSE /\ compacted = FALSE
    /\ turnsAsked = 0 /\ told = {} /\ lost = {} /\ inTurn = TRUE
    /\ lastNamed = "nothing" /\ talk = <<>>

Lane == Begin \/ RefuseTurn \/ RefuseToCompact \/ Compact \/ Compacted \/ Connect
Handshake(c) == Open(c) \/ Fail(c) \/ Refused(c)
Upstream(c) ==
    HandshakeError(c) \/ WarmedUp(c) \/ Complete(c) \/ UpstreamError(c) \/ UpstreamClose(c)

(* xAI answers, refuses or hangs up on what it was sent, and a handshake it   *)
(* refused or a connection it closes is over in the end.                     *)
Owes(c) == conns[c].owes # <<>> \/ conns[c].up # "open"

SocketNext ==
    \/ \E key \in Keys, way \in TurnWays : AskTurn(key, way)
    \/ Lane
    \/ \E c \in DOMAIN conns : Handshake(c) \/ Upstream(c)
    \/ CallerGone

SocketFairness ==
    /\ WF_socketVars(Lane)
    /\ WF_socketVars(\E c \in DOMAIN conns : Handshake(c))
    /\ WF_socketVars(active # 0 /\ Owes(active) /\ Upstream(active))

SocketSpec == SocketInit /\ [][SocketNext]_socketVars /\ SocketFairness

-----------------------------------------------------------------------------
(* xai-websocket-transcript.ts: for a caller that waits for each answer, what *)
(* a compaction is asked of is the conversation as that caller heard it,      *)
(* whatever turns were compacted, warmed up, appended or sent elsewhere.      *)
AtRest == work = None /\ queue = <<>> /\ Out = {}

TheTranscriptIsTheTalk ==
    (inTurn /\ socketDown = "open" /\ (AtRest \/ stage = "compacting")) => transcript = talk

(* connectionFor, close: no connection is held beside the one that stands,    *)
(* and none a caller opened while it was there outlives it.                  *)
OneConnectionStands ==
    \A c \in DOMAIN conns :
        /\ c # active => conns[c].up \in {"closing", "closed"}
        /\ socketDown = "gone" => conns[c].up \in {"closing", "closed"} \/ conns[c].late

(* The two together: a talk is kept whole, and its connections are let go. *)
SocketsCarryOneTalk == SocketTypeOK /\ TheTranscriptIsTheTalk /\ OneConnectionStands

(* sendError, upstreamClose: a turn of a caller that waits is answered or its *)
(* socket ends, but for a compaction whose own request throws.              *)
Waiting == socketDown = "open" /\ inTurn /\ Out # {}
EveryTurnEnds == Waiting ~> ~Waiting

-----------------------------------------------------------------------------
(* Proofs, for every set of targets and any number of turns, asked one after  *)
(* the other or all at once.                                                *)

(* Whatever waits, is under way or is owed is a turn that was asked, and the   *)
(* lane stands somewhere exactly while it has a turn.                        *)
LaneHoldsTurns ==
    /\ \A i \in 1..Len(queue) : queue[i].n <= turnsAsked
    /\ work # None => work.n <= turnsAsked
    /\ work = None <=> stage = "idle"

WasAsked(conn, upTo) ==
    /\ conn.pending # None => conn.pending.n <= upTo
    /\ \A i \in 1..Len(conn.owes) : conn.owes[i].n <= upTo
    /\ conn.up = "connecting" => conn.pending # None

ConnectionsHoldTurns == \A c \in 1..Len(conns) : WasAsked(conns[c], turnsAsked)

(* Between two turns: the transcript is the talk, and is replayed next if it  *)
(* was compacted last.                                                      *)
Agree ==
    /\ transcript = talk
    /\ replay <=> lastNamed = "compaction"
    /\ compacted <=> lastNamed = "compaction"
    /\ lastNamed = "compaction" => transcript # <<>>

(* The connection that stands owes nothing.                                *)
Idle(conn) == conn.up = "open" /\ Len(conn.owes) = 0 /\ conn.pending = None
NothingIsOwed == active = 0 \/ Idle(conns[active])

(* What was sent, recorded, is what its caller will have heard.             *)
Carries(request) ==
    /\ request.n = turnsAsked
    /\ (IF request.reset THEN <<>> ELSE transcript) \o request.said
         = (IF GoesOn(request.way) THEN talk ELSE <<>>) \o Says(request)
    /\ replay \/ compacted => request.reset

(* A turn sent is the one pending, and is owed once its connection is open.  *)
OwesIt(conn) ==
    /\ conn.up \in {"connecting", "open", "refused"}
    /\ conn.up = "open" => Len(conn.owes) = 1 /\ conn.owes[1] = conn.pending
    /\ conn.pending # None

OneIsOut == turnsAsked > 0 /\ Out = {turnsAsked}
BetweenTurns == Agree /\ NothingIsOwed

NobodyAsks == Out = {} /\ Len(queue) = 0 /\ work = None /\ BetweenTurns
InLine == OneIsOut /\ Len(queue) = 1 /\ queue[1].n = turnsAsked /\ work = None /\ BetweenTurns
InHand ==
    /\ OneIsOut /\ Len(queue) = 0 /\ work # None /\ work.n = turnsAsked
    /\ stage \in {"granting", "compacting"} /\ BetweenTurns
IsSent ==
    /\ OneIsOut /\ Len(queue) = 0 /\ (work = None \/ stage = "readying")
    /\ active # 0
    /\ stage = "readying" => active = Len(conns) /\ conns[active].up = "connecting"
    /\ OwesIt(conns[active]) /\ Carries(conns[active].pending)

(* A caller that waits has one turn about at most: none, one in line, one in  *)
(* the lane's hands, or one that was sent.                                  *)
TalkIsInTurn ==
    inTurn /\ socketDown = "open" =>
        ~terminal /\ (NobodyAsks \/ InLine \/ InHand \/ IsSent)

SocketInv ==
    /\ SocketAssumption /\ SocketTypeOK /\ LaneHoldsTurns /\ ConnectionsHoldTurns
    /\ OneConnectionStands /\ TalkIsInTurn

LEMMA SocketStarts == SocketAssumption /\ SocketInit => SocketInv
<1> SUFFICES ASSUME SocketAssumption, SocketInit PROVE SocketInv
  OBVIOUS
<1>1. /\ queue \in Seq(Turns) /\ Len(queue) = 0 /\ conns \in Seq(Conns) /\ Len(conns) = 0
      /\ transcript \in Seq(Items) /\ talk \in Seq(Items) /\ DOMAIN conns = 1..0
  BY DEF SocketInit
<1>2. SocketTypeOK
  <2>1. /\ work \in Turns \cup {None} /\ 0 \in 0..MaxTurns
        /\ turnsAsked = 0 /\ told = {} /\ lost = {} /\ active = 0
    BY DEF SocketInit, SocketAssumption
  <2>2. {terminal, replay, compacted, inTurn} \subseteq BOOLEAN
    BY DEF SocketInit
  <2>3. QED
    BY <1>1, <2>1, <2>2 DEF SocketInit, SocketTypeOK
<1>3. LaneHoldsTurns /\ ConnectionsHoldTurns /\ OneConnectionStands
  BY <1>1 DEF SocketInit, LaneHoldsTurns, ConnectionsHoldTurns, OneConnectionStands
<1>4. Out = {}
  BY DEF SocketInit, Out
<1>5. TalkIsInTurn
  BY <1>1, <1>4 DEF SocketInit, TalkIsInTurn, NobodyAsks, BetweenTurns, Agree, NothingIsOwed
<1>6. QED
  BY <1>2, <1>3, <1>5 DEF SocketInv

-----------------------------------------------------------------------------
(* What the parts of the invariant say.                                    *)

LEMMA EmptyIsNothing ==
  ASSUME NEW S, NEW s \in Seq(S)
  PROVE  (s = <<>>) <=> (Len(s) = 0)
OBVIOUS

LEMMA SocketFacts ==
  ASSUME SocketInv
  PROVE  /\ MaxTurns \in Nat /\ None \notin Turns /\ None \notin Requests
         /\ queue \in Seq(Turns) /\ Len(queue) \in Nat
         /\ conns \in Seq(Conns) /\ Len(conns) \in Nat /\ DOMAIN conns = 1..Len(conns)
         /\ active \in 0..Len(conns) /\ turnsAsked \in 0..MaxTurns
         /\ transcript \in Seq(Items) /\ talk \in Seq(Items)
         /\ told \subseteq 1..turnsAsked /\ lost \subseteq 1..turnsAsked
         /\ work \in Turns \cup {None}
BY DEF SocketInv, SocketTypeOK, SocketAssumption

LEMMA ConnectionFacts ==
  ASSUME SocketInv, NEW c \in 1..Len(conns)
  PROVE  /\ conns[c] \in Conns /\ conns[c].key \in Keys /\ conns[c].late \in BOOLEAN
         /\ conns[c].up \in {"connecting", "open", "refused", "closing", "closed"}
         /\ conns[c].pending \in Requests \cup {None} /\ conns[c].owes \in Seq(Requests)
         /\ WasAsked(conns[c], turnsAsked)
<1>1. conns[c] \in Conns
  BY SocketFacts
<1>2. WasAsked(conns[c], turnsAsked)
  BY DEF SocketInv, ConnectionsHoldTurns
<1>3. QED
  BY <1>1, <1>2 DEF Conns

(* A turn that ends leaves nobody out.                                     *)
LEMMA OneEnds ==
  ASSUME SocketInv, OneIsOut, turnsAsked' = turnsAsked,
         \/ told' = told \cup {turnsAsked} /\ lost' = lost
         \/ lost' = lost \cup {turnsAsked} /\ told' = told
  PROVE  Out' = {}
BY SocketFacts DEF OneIsOut, Out

(* One connection moves, and the others stand.                             *)
LEMMA OneMoves ==
  ASSUME SocketInv, NEW c \in 1..Len(conns), NEW k \in Conns, conns' = [conns EXCEPT ![c] = k]
  PROVE  /\ conns' \in Seq(Conns) /\ Len(conns') = Len(conns) /\ DOMAIN conns' = 1..Len(conns)
         /\ conns'[c] = k /\ \A d \in 1..Len(conns) : d # c => conns'[d] = conns[d]
BY SocketFacts

(* What a connection that moves has to see to.                             *)
LEMMA OneMovesWell ==
  ASSUME SocketInv, NEW c \in 1..Len(conns), NEW k \in Conns, conns' = [conns EXCEPT ![c] = k],
         WasAsked(k, turnsAsked), turnsAsked' = turnsAsked,
         socketDown' = "gone" => socketDown = "gone",
         c # active' => k.up \in {"closing", "closed"},
         k.up \in {"closing", "closed"} \/ (k.up = conns[c].up /\ k.late = conns[c].late)
           \/ (conns[c].up = "connecting" /\ k.late = conns[c].late),
         active' = active \/ (active' = 0 /\ active = c)
  PROVE  ConnectionsHoldTurns' /\ OneConnectionStands'
<1>1. /\ Len(conns') = Len(conns) /\ conns'[c] = k
      /\ DOMAIN conns' = 1..Len(conns) /\ DOMAIN conns = 1..Len(conns)
      /\ \A d \in 1..Len(conns) : d # c => conns'[d] = conns[d]
  BY OneMoves, SocketFacts
<1>2. \A d \in 1..Len(conns) : WasAsked(conns'[d], turnsAsked)
  BY <1>1 DEF SocketInv, ConnectionsHoldTurns
<1>3. ConnectionsHoldTurns'
  BY <1>1, <1>2 DEF ConnectionsHoldTurns, WasAsked
<1>4. ASSUME NEW d \in 1..Len(conns)
      PROVE  /\ d # active' => conns'[d].up \in {"closing", "closed"}
             /\ socketDown' = "gone" => conns'[d].up \in {"closing", "closed"} \/ conns'[d].late
  BY <1>1 DEF SocketInv, OneConnectionStands
<1>5. QED
  BY <1>1, <1>3, <1>4 DEF OneConnectionStands

(* Connections that stay where they are.                                   *)
LEMMA ConnectionsStay ==
  ASSUME SocketInv, UNCHANGED <<conns, active>>, turnsAsked' \in Nat, turnsAsked <= turnsAsked',
         socketDown' = "gone" => socketDown = "gone"
  PROVE  /\ ConnectionsHoldTurns' /\ OneConnectionStands'
         /\ NothingIsOwed' <=> NothingIsOwed
<1>1. \A c \in 1..Len(conns) : WasAsked(conns[c], turnsAsked)
  BY DEF SocketInv, ConnectionsHoldTurns
<1>2. ASSUME NEW c \in 1..Len(conns) PROVE WasAsked(conns[c], turnsAsked')
  <2>1. /\ conns[c].pending \in Requests \cup {None} /\ conns[c].owes \in Seq(Requests)
        /\ turnsAsked \in Nat
    BY ConnectionFacts, SocketFacts
  <2>2. \A r \in Requests : r.n \in Nat /\ (r.n <= turnsAsked => r.n <= turnsAsked')
    BY <2>1 DEF Requests
  <2>3. \A i \in 1..Len(conns[c].owes) : conns[c].owes[i] \in Requests
    BY <2>1
  <2>4. QED
    BY <1>1, <2>1, <2>2, <2>3 DEF WasAsked
<1>3. QED
  BY <1>2 DEF SocketInv, ConnectionsHoldTurns, OneConnectionStands, NothingIsOwed

-----------------------------------------------------------------------------
(* The caller and the lane.                                                *)

LEMMA AskTurnKeeps ==
  ASSUME SocketInv, NEW key \in Keys, NEW way \in TurnWays, AskTurn(key, way)
  PROVE  SocketInv'
<1> DEFINE turn == [n |-> turnsAsked + 1, key |-> key, way |-> way]
<1>1. /\ socketDown = "open" /\ turnsAsked < MaxTurns
      /\ queue' = Append(queue, turn) /\ turnsAsked' = turnsAsked + 1
      /\ inTurn' = (inTurn /\ Out = {})
      /\ UNCHANGED <<socketDown, terminal, work, stage, conns, active, transcript, replay,
                     compacted, told, lost, lastNamed, talk>>
  BY DEF AskTurn
<1>2. /\ turnsAsked \in Nat /\ turnsAsked' \in 0..MaxTurns /\ turnsAsked' \in 1..MaxTurns
      /\ 1..turnsAsked \subseteq 1..turnsAsked'
  BY <1>1, SocketFacts
<1>3. turn \in Turns /\ turn.n = turnsAsked'
  BY <1>1, <1>2 DEF Turns
<1> HIDE DEF turn
<1>4. /\ queue' \in Seq(Turns) /\ Len(queue') = Len(queue) + 1 /\ queue'[Len(queue) + 1] = turn
      /\ \A i \in 1..Len(queue) : queue'[i] = queue[i]
  BY <1>1, <1>3, SocketFacts
<1>5. SocketTypeOK'
  <2>1. told \subseteq 1..turnsAsked' /\ lost \subseteq 1..turnsAsked'
    BY <1>2, SocketFacts
  <2>2. {terminal', replay', compacted', inTurn'} \subseteq BOOLEAN
    BY <1>1 DEF SocketInv, SocketTypeOK
  <2>3. QED
    BY <1>1, <1>2, <1>4, <2>1, <2>2 DEF SocketInv, SocketTypeOK
<1>6. LaneHoldsTurns'
  <2>1. \A t \in Turns : t.n \in Nat /\ (t.n <= turnsAsked => t.n <= turnsAsked')
    BY <1>1, <1>2 DEF Turns
  <2>2. ASSUME NEW i \in 1..Len(queue') PROVE queue'[i].n <= turnsAsked'
    <3>1. CASE i \in 1..Len(queue)
      <4>1. queue[i] \in Turns /\ queue[i].n <= turnsAsked /\ queue'[i] = queue[i]
        BY <1>4, <3>1, SocketFacts DEF SocketInv, LaneHoldsTurns
      <4>2. QED
        BY <2>1, <4>1
    <3>2. CASE i = Len(queue) + 1
      BY <1>2, <1>3, <1>4, <3>2
    <3>3. QED
      BY <1>4, <3>1, <3>2, SocketFacts
  <2>3. work # None => work.n <= turnsAsked'
    BY <2>1, SocketFacts DEF SocketInv, LaneHoldsTurns
  <2>4. QED
    BY <1>1, <2>2, <2>3 DEF SocketInv, LaneHoldsTurns
<1>7. ConnectionsHoldTurns' /\ OneConnectionStands' /\ (NothingIsOwed' <=> NothingIsOwed)
  BY <1>1, <1>2, ConnectionsStay
<1>8. TalkIsInTurn'
  <2> SUFFICES ASSUME inTurn', socketDown' = "open" PROVE ~terminal' /\ InLine'
    BY DEF TalkIsInTurn
  <2>1. Out = {} /\ ~terminal /\ (NobodyAsks \/ InLine \/ InHand \/ IsSent)
    BY <1>1 DEF SocketInv, TalkIsInTurn
  <2>2. NobodyAsks
    BY <2>1 DEF InLine, InHand, IsSent, OneIsOut
  <2>3. turnsAsked' > 0 /\ Out' = {turnsAsked'}
    BY <1>1, <1>2, <2>1, SocketFacts DEF Out
  <2>4. Len(queue') = 1 /\ queue'[1].n = turnsAsked'
    <3>1. Len(queue) = 0
      BY <2>2 DEF NobodyAsks
    <3>2. QED
      BY <1>3, <1>4, <3>1
  <2>5. BetweenTurns'
    BY <1>1, <1>7, <2>2 DEF NobodyAsks, BetweenTurns, Agree
  <2>6. QED
    BY <1>1, <2>1, <2>2, <2>3, <2>4, <2>5 DEF InLine, NobodyAsks, OneIsOut
<1>9. QED
  BY <1>5, <1>6, <1>7, <1>8 DEF SocketInv, SocketAssumption

LEMMA BeginKeeps ==
  ASSUME SocketInv, Begin
  PROVE  SocketInv'
<1>1. /\ work = None /\ queue # <<>> /\ work' = Head(queue) /\ queue' = Tail(queue)
      /\ stage' = "granting"
      /\ UNCHANGED <<socketDown, terminal, conns, active, transcript, replay, compacted,
                     turnsAsked, told, lost, inTurn, lastNamed, talk>>
  BY DEF Begin
<1>2. /\ Len(queue) # 0 /\ work' = queue[1] /\ work' \in Turns /\ queue' \in Seq(Turns)
      /\ Len(queue') = Len(queue) - 1 /\ Len(queue) \in Nat
      /\ \A i \in 1..Len(queue') : queue'[i] = queue[i + 1] /\ i + 1 \in 1..Len(queue)
  BY <1>1, SocketFacts
<1>3. work' # None
  BY <1>2, SocketFacts
<1>4. SocketTypeOK'
  BY <1>1, <1>2 DEF SocketInv, SocketTypeOK
<1>5. LaneHoldsTurns'
  <2>1. 1 \in 1..Len(queue)
    BY <1>2
  <2>2. QED
    BY <1>1, <1>2, <1>3, <2>1 DEF SocketInv, LaneHoldsTurns
<1>6. ConnectionsHoldTurns' /\ OneConnectionStands' /\ (NothingIsOwed' <=> NothingIsOwed)
  BY <1>1, SocketFacts, ConnectionsStay
<1>7. TalkIsInTurn'
  <2> SUFFICES ASSUME inTurn', socketDown' = "open" PROVE ~terminal' /\ InHand'
    BY DEF TalkIsInTurn
  <2>1. ~terminal /\ (NobodyAsks \/ InLine \/ InHand \/ IsSent)
    BY <1>1 DEF SocketInv, TalkIsInTurn
  <2>2. InLine
    BY <1>1, <1>2, <2>1 DEF NobodyAsks, InHand, IsSent
  <2>3. BetweenTurns' /\ OneIsOut'
    BY <1>1, <1>6, <2>2 DEF InLine, BetweenTurns, Agree, OneIsOut, Out
  <2>4. Len(queue') = 0 /\ work'.n = turnsAsked'
    BY <1>1, <1>2, <2>2 DEF InLine
  <2>5. QED
    BY <1>1, <1>3, <2>1, <2>3, <2>4 DEF InHand
<1>8. QED
  BY <1>4, <1>5, <1>6, <1>7 DEF SocketInv, SocketAssumption

(* A turn the lane answers, loses or closes the socket over.                *)
LEMMA TurnRests ==
  ASSUME SocketInv, Rests, UNCHANGED <<queue, turnsAsked>>
  PROVE  LaneHoldsTurns'
BY DEF SocketInv, LaneHoldsTurns, Rests

LEMMA RefuseTurnKeeps ==
  ASSUME SocketInv, RefuseTurn
  PROVE  SocketInv'
<1>1. /\ socketDown' = (IF socketDown = "open" THEN "ending" ELSE socketDown) /\ Rests
      /\ UNCHANGED <<terminal, queue, conns, active, transcript, replay, compacted,
                     turnsAsked, told, lost, inTurn, lastNamed, talk>>
  BY DEF RefuseTurn
<1>2. SocketTypeOK'
  BY <1>1 DEF SocketInv, SocketTypeOK, Rests
<1>3. LaneHoldsTurns'
  BY <1>1, TurnRests
<1>4. ConnectionsHoldTurns' /\ OneConnectionStands'
  BY <1>1, SocketFacts, ConnectionsStay
<1>5. TalkIsInTurn'
  BY <1>1 DEF TalkIsInTurn
<1>6. QED
  BY <1>2, <1>3, <1>4, <1>5 DEF SocketInv, SocketAssumption

LEMMA CompactKeeps ==
  ASSUME SocketInv, Compact
  PROVE  SocketInv'
<1>1. /\ stage = "granting" /\ stage' = "compacting"
      /\ UNCHANGED <<socketDown, terminal, queue, work, conns, active, transcript, replay,
                     compacted, turnsAsked, told, lost, inTurn, lastNamed, talk>>
  BY DEF Compact
<1>2. SocketTypeOK' /\ LaneHoldsTurns'
  BY <1>1 DEF SocketInv, SocketTypeOK, LaneHoldsTurns
<1>3. ConnectionsHoldTurns' /\ OneConnectionStands' /\ (NothingIsOwed' <=> NothingIsOwed)
  BY <1>1, SocketFacts, ConnectionsStay
<1>4. TalkIsInTurn'
  <2> SUFFICES ASSUME inTurn', socketDown' = "open" PROVE ~terminal' /\ InHand'
    BY DEF TalkIsInTurn
  <2>1. ~terminal /\ (NobodyAsks \/ InLine \/ InHand \/ IsSent) /\ work # None
    BY <1>1 DEF SocketInv, TalkIsInTurn, LaneHoldsTurns
  <2>2. InHand
    BY <1>1, <2>1 DEF NobodyAsks, InLine, IsSent
  <2>3. QED
    BY <1>1, <1>3, <2>1, <2>2 DEF InHand, BetweenTurns, Agree, OneIsOut, Out
<1>5. QED
  BY <1>2, <1>3, <1>4 DEF SocketInv, SocketAssumption

(* The turn the lane has in hand, and whose it is for a caller that waits.   *)
LEMMA WorkIsInHand ==
  ASSUME SocketInv, stage \in {"granting", "compacting"}
  PROVE  /\ work \in Turns /\ work # None /\ work.n \in 1..turnsAsked
         /\ inTurn /\ socketDown = "open" => ~terminal /\ InHand
<1>1. work # None /\ work.n <= turnsAsked
  BY DEF SocketInv, LaneHoldsTurns
<1>2. work \in Turns /\ turnsAsked \in Nat
  BY <1>1, SocketFacts
<1>3. work.n \in 1..turnsAsked
  BY <1>1, <1>2 DEF Turns
<1>4. ASSUME inTurn, socketDown = "open" PROVE ~terminal /\ InHand
  <2>1. ~terminal /\ (NobodyAsks \/ InLine \/ InHand \/ IsSent)
    BY <1>4 DEF SocketInv, TalkIsInTurn
  <2>2. QED
    BY <1>1, <2>1 DEF NobodyAsks, InLine, IsSent
<1>5. QED
  BY <1>1, <1>2, <1>3, <1>4

LEMMA RefuseToCompactKeeps ==
  ASSUME SocketInv, RefuseToCompact
  PROVE  SocketInv'
<1>1. /\ stage = "granting" /\ told' = told \cup {work.n} /\ Rests
      /\ UNCHANGED <<socketDown, terminal, queue, conns, active, transcript, replay,
                     compacted, turnsAsked, lost, inTurn, lastNamed, talk>>
  BY DEF RefuseToCompact
<1>2. work.n \in 1..turnsAsked /\ (inTurn /\ socketDown = "open" => ~terminal /\ InHand)
  BY <1>1, WorkIsInHand
<1>3. SocketTypeOK'
  BY <1>1, <1>2 DEF SocketInv, SocketTypeOK, Rests
<1>4. LaneHoldsTurns'
  BY <1>1, TurnRests
<1>5. ConnectionsHoldTurns' /\ OneConnectionStands' /\ (NothingIsOwed' <=> NothingIsOwed)
  BY <1>1, SocketFacts, ConnectionsStay
<1>6. TalkIsInTurn'
  <2> SUFFICES ASSUME inTurn', socketDown' = "open" PROVE ~terminal' /\ NobodyAsks'
    BY DEF TalkIsInTurn
  <2>1. ~terminal /\ InHand
    BY <1>1, <1>2
  <2>2. Out' = {}
    BY <1>1, <2>1, OneEnds DEF InHand
  <2>3. BetweenTurns'
    BY <1>1, <1>5, <2>1 DEF InHand, BetweenTurns, Agree
  <2>4. QED
    BY <1>1, <2>1, <2>2, <2>3 DEF InHand, NobodyAsks, Rests
<1>7. QED
  BY <1>3, <1>4, <1>5, <1>6 DEF SocketInv, SocketAssumption

LEMMA CompactedKeeps ==
  ASSUME SocketInv, Compacted
  PROVE  SocketInv'
<1>1. /\ stage = "compacting" /\ Rests
      /\ UNCHANGED <<socketDown, terminal, queue, conns, active, turnsAsked, inTurn>>
  BY DEF Compacted
<1>2. /\ work \in Turns /\ work.n \in 1..turnsAsked
      /\ inTurn /\ socketDown = "open" => ~terminal /\ InHand
  BY <1>1, WorkIsInHand
<1>3. LaneHoldsTurns'
  BY <1>1, TurnRests
<1>4. ConnectionsHoldTurns' /\ OneConnectionStands' /\ (NothingIsOwed' <=> NothingIsOwed)
  BY <1>1, SocketFacts, ConnectionsStay
<1>5. /\ work' = None /\ stage' = "idle" /\ told \subseteq 1..turnsAsked
      /\ lost \subseteq 1..turnsAsked /\ {terminal, replay, compacted, inTurn} \subseteq BOOLEAN
  BY <1>1 DEF Rests, SocketInv, SocketTypeOK
<1>6. ASSUME SocketTypeOK',
             inTurn /\ socketDown = "open" /\ InHand => Out' = {} /\ Agree'
      PROVE  SocketInv'
  <2>1. TalkIsInTurn'
    <3> SUFFICES ASSUME inTurn', socketDown' = "open" PROVE ~terminal' /\ NobodyAsks'
      BY DEF TalkIsInTurn
    <3>1. ~terminal /\ InHand
      BY <1>1, <1>2
    <3>2. QED
      BY <1>1, <1>4, <1>5, <1>6, <3>1 DEF InHand, NobodyAsks, BetweenTurns
  <2>2. QED
    BY <1>3, <1>4, <1>6, <2>1 DEF SocketInv, SocketAssumption
<1>7. CASE /\ transcript' = <<Item("compaction", work.n)>> /\ replay' = TRUE
           /\ compacted' = TRUE /\ told' = told \cup {work.n}
           /\ lastNamed' = "compaction" /\ talk' = <<Item("compaction", work.n)>>
           /\ UNCHANGED lost
  <2>1. Item("compaction", work.n) \in Items
    BY <1>2 DEF Item, Items, Turns
  <2> DEFINE one == Item("compaction", work.n)
  <2>2. <<one>> \in Seq(Items) /\ <<one>> # <<>>
    BY <2>1
  <2>3. SocketTypeOK'
    BY <1>1, <1>2, <1>5, <1>7, <2>2 DEF SocketInv, SocketTypeOK
  <2>4. Agree'
    BY <1>7, <2>2 DEF Agree
  <2>5. InHand => Out' = {}
    BY <1>1, <1>7, OneEnds DEF InHand
  <2>6. QED
    BY <1>6, <2>3, <2>4, <2>5
<1>8. CASE /\ told' = told \cup {work.n}
           /\ UNCHANGED <<transcript, replay, compacted, lost, lastNamed, talk>>
  <2>1. SocketTypeOK'
    BY <1>1, <1>2, <1>5, <1>8 DEF SocketInv, SocketTypeOK
  <2>2. InHand => Out' = {}
    BY <1>1, <1>8, OneEnds DEF InHand
  <2>3. InHand => Agree'
    BY <1>8 DEF InHand, BetweenTurns, Agree
  <2>4. QED
    BY <1>6, <2>1, <2>2, <2>3
<1>9. CASE /\ lost' = lost \cup {work.n}
           /\ UNCHANGED <<transcript, replay, compacted, told, lastNamed, talk>>
  <2>1. SocketTypeOK'
    BY <1>1, <1>2, <1>5, <1>9 DEF SocketInv, SocketTypeOK
  <2>2. InHand => Out' = {}
    BY <1>1, <1>9, OneEnds DEF InHand
  <2>3. InHand => Agree'
    BY <1>9 DEF InHand, BetweenTurns, Agree
  <2>4. QED
    BY <1>6, <2>1, <2>2, <2>3
<1>10. QED
  BY <1>7, <1>8, <1>9 DEF Compacted

-----------------------------------------------------------------------------
(* A turn that is sent.                                                    *)

LEMMA SaysIsSaid ==
  ASSUME NEW turn, turn.n \in 1..MaxTurns
  PROVE  Says(turn) \in Seq(Items) /\ Answer(turn) \in Seq(Items)
<1>1. Item("in", turn.n) \in Items /\ Item("out", turn.n) \in Items
  BY DEF Item, Items
<1> DEFINE said == Item("in", turn.n)
           answer == Item("out", turn.n)
<1>2. <<said>> \in Seq(Items) /\ <<answer>> \in Seq(Items) /\ <<>> \in Seq(Items)
  BY <1>1
<1>3. QED
  BY <1>2 DEF Says, Answer

LEMMA PreparedIsARequest ==
  ASSUME SocketInv, work \in Turns
  PROVE  /\ Prepared(work) \in Requests
         /\ Prepared(work).n = work.n /\ Prepared(work).way = work.way
<1>1. work.n \in 1..MaxTurns /\ work.way \in TurnWays
  BY DEF Turns
<1>2. Says(work) \in Seq(Items) /\ transcript \in Seq(Items) /\ <<>> \in Seq(Items)
  BY <1>1, SaysIsSaid, SocketFacts
<1>3. (IF Replays(work) THEN transcript ELSE <<>>) \o Says(work) \in Seq(Items)
  BY <1>2
<1>4. Resets(work) \in BOOLEAN
  BY DEF Resets
<1>5. QED
  BY <1>1, <1>3, <1>4 DEF Prepared, Requests

(* What is prepared, recorded, is what the caller will have heard: a turn     *)
(* that goes on is sent after what stands or carries it, any other replaces   *)
(* it.                                                                     *)
LEMMA PreparedCarries ==
  ASSUME SocketInv, Agree, work \in Turns, work.n = turnsAsked,
         work.way \notin {"bad", "compact"},
         transcript' = IF StartsOver(work) THEN <<>> ELSE transcript,
         replay' = (replay /\ ~StartsOver(work) /\ ~Replays(work)),
         compacted' = (compacted /\ ~StartsOver(work)),
         UNCHANGED <<turnsAsked, lastNamed, talk>>,
         NEW r, r = Prepared(work)
  PROVE  Carries(r)'
<1>1. /\ work.way \in {"fresh", "append", "next", "warmup", "empty"}
      /\ Item("in", work.n) \in Items /\ {replay, compacted} \subseteq BOOLEAN
  BY DEF Turns, TurnWays, Items, Item, SocketInv, SocketTypeOK
<1> DEFINE one == <<Item("in", work.n)>>
<1>2. one # <<>> /\ one \in Seq(Items) /\ <<>> \o one = one /\ <<>> \o <<>> = <<>>
      /\ \A s \in Seq(Items) : s \o <<>> = s
  BY <1>1
<1>3. /\ r.n = work.n /\ r.way = work.way /\ r.reset = Resets(work)
      /\ r.said = (IF Replays(work) THEN transcript ELSE <<>>) \o Says(work)
  BY DEF Prepared
<1>4. Says(work) = IF work.way = "empty" THEN <<>> ELSE one
  BY DEF Says
<1>5. Says(r)' = Says(work) /\ (GoesOn(r.way)' <=> GoesOn(work.way))
  BY <1>3 DEF Says, Item, GoesOn
<1> HIDE DEF one
<1>6. StartsOver(work) <=> work.way = "empty"
  BY <1>1, <1>2, <1>4 DEF StartsOver, Blocked
<1>7. Blocked(work) <=> work.way = "next" /\ lastNamed # "compaction"
  BY DEF Blocked, Agree
<1>8. Replays(work) <=> lastNamed = "compaction" /\ work.way # "empty"
  BY <1>6, <1>7 DEF Replays, Agree
<1>9. Resets(work) <=> lastNamed = "compaction" \/ work.way \notin {"append", "next"}
  BY <1>1, <1>7, <1>8 DEF Resets
<1>10. GoesOn(work.way) <=>
           work.way \in {"append", "next"} \/ (lastNamed = "compaction" /\ work.way # "empty")
  BY <1>1 DEF GoesOn
<1>11. r.n = turnsAsked' /\ (replay' \/ compacted' => r.reset)
  BY <1>3, <1>9 DEF Agree
<1>12. (IF r.reset THEN <<>> ELSE transcript') \o r.said
         = (IF GoesOn(work.way) THEN talk ELSE <<>>) \o Says(work)
  <2>1. transcript = talk /\ talk \in Seq(Items) /\ <<>> \in Seq(Items)
    BY SocketFacts DEF Agree
  <2>2. \A s \in Seq(Items) : <<>> \o (s \o one) = s \o one /\ <<>> \o (<<>> \o one) = <<>> \o one
    BY <1>2
  <2>3. CASE work.way = "empty"
    BY <1>2, <1>3, <1>4, <1>6, <1>8, <1>9, <1>10, <2>1, <2>3
  <2>4. CASE work.way # "empty" /\ lastNamed = "compaction"
    BY <1>3, <1>4, <1>8, <1>9, <1>10, <2>1, <2>2, <2>4
  <2>5. CASE lastNamed # "compaction" /\ work.way \in {"append", "next"}
    BY <1>2, <1>3, <1>4, <1>6, <1>8, <1>9, <1>10, <2>1, <2>5
  <2>6. CASE lastNamed # "compaction" /\ work.way \in {"fresh", "warmup"}
    BY <1>2, <1>3, <1>4, <1>8, <1>9, <1>10, <2>1, <2>2, <2>6
  <2>7. QED
    BY <1>1, <2>3, <2>4, <2>5, <2>6
<1>13. QED
  BY <1>5, <1>11, <1>12 DEF Carries

(* After a connection is let go of, none stands.                           *)
LEMMA NoneStands ==
  ASSUME SocketInv, NEW rest, rest = LetGo(active)
  PROVE  /\ rest \in Seq(Conns) /\ Len(rest) = Len(conns)
         /\ \A d \in 1..Len(conns) :
               WasAsked(rest[d], turnsAsked) /\ rest[d].up \in {"closing", "closed"}
<1>1. \A d \in 1..Len(conns) : d # active => conns[d].up \in {"closing", "closed"}
  BY SocketFacts DEF SocketInv, OneConnectionStands
<1>2. \A d \in 1..Len(conns) : WasAsked(conns[d], turnsAsked)
  BY ConnectionFacts
<1>3. CASE active = 0 \/ conns[active].up = "closed"
  <2>1. rest = conns
    BY <1>3 DEF LetGo
  <2>2. ASSUME NEW d \in 1..Len(conns) PROVE conns[d].up \in {"closing", "closed"}
    BY <1>1, <1>3, SocketFacts
  <2>3. QED
    BY <1>2, <2>1, <2>2, SocketFacts
<1>4. CASE active # 0 /\ conns[active].up # "closed"
  <2> DEFINE k == [conns[active] EXCEPT !.up = "closing"]
  <2>1. active \in 1..Len(conns)
    BY <1>4, SocketFacts
  <2>2. rest = [conns EXCEPT ![active] = k]
    BY <1>4 DEF LetGo
  <2>3. k \in Conns /\ k.up = "closing" /\ WasAsked(k, turnsAsked)
    <3>1. conns[active] \in Conns /\ WasAsked(conns[active], turnsAsked)
      BY <2>1, ConnectionFacts
    <3>2. /\ k \in Conns /\ k.up = "closing"
          /\ k.pending = conns[active].pending /\ k.owes = conns[active].owes
      BY <3>1 DEF Conns
    <3> HIDE DEF k
    <3>3. QED
      BY <3>1, <3>2 DEF WasAsked
  <2> HIDE DEF k
  <2>4. /\ rest \in Seq(Conns) /\ Len(rest) = Len(conns) /\ rest[active] = k
        /\ \A d \in 1..Len(conns) : d # active => rest[d] = conns[d]
    BY <2>1, <2>2, <2>3, SocketFacts
  <2>5. QED
    BY <1>1, <1>2, <2>3, <2>4
<1>5. QED
  BY <1>3, <1>4

(* The request a target's own connection is given.                         *)
LEMMA GivenIsWell ==
  ASSUME SocketInv, NEW r \in Requests, r.n <= turnsAsked, active # 0, NEW k,
         k = Given(conns[active], r)
  PROVE  /\ k \in Conns /\ k.up = conns[active].up /\ k.late = conns[active].late
         /\ k.pending = r /\ WasAsked(k, turnsAsked)
         /\ Idle(conns[active]) => OwesIt(k)
<1>1. active \in 1..Len(conns)
  BY SocketFacts
<1>2. /\ conns[active] \in Conns /\ conns[active].owes \in Seq(Requests)
      /\ WasAsked(conns[active], turnsAsked) /\ r # None
  BY <1>1, ConnectionFacts, SocketFacts
<1> DEFINE owes == IF conns[active].up = "open" THEN Append(conns[active].owes, r)
                                                ELSE conns[active].owes
<1>3. k = [conns[active] EXCEPT !.pending = r, !.owes = owes]
  BY DEF Given
<1>4. owes \in Seq(Requests) /\ \A i \in 1..Len(owes) : owes[i].n <= turnsAsked
  BY <1>2 DEF WasAsked
<1>5. Idle(conns[active]) => conns[active].up = "open" /\ Len(owes) = 1 /\ owes[1] = r
  BY <1>2 DEF Idle
<1> HIDE DEF owes
<1>6. /\ k \in Conns /\ k.up = conns[active].up /\ k.late = conns[active].late
      /\ k.pending = r /\ k.owes = owes
  BY <1>2, <1>3, <1>4 DEF Conns
<1>7. QED
  BY <1>2, <1>4, <1>5, <1>6 DEF WasAsked, OwesIt

LEMMA ConnectKeeps ==
  ASSUME SocketInv, Connect
  PROVE  SocketInv'
<1>1. /\ stage = "granting" /\ work.way \notin {"bad", "compact"}
      /\ transcript' = IF StartsOver(work) THEN <<>> ELSE transcript
      /\ replay' = (replay /\ ~StartsOver(work) /\ ~Replays(work))
      /\ compacted' = (compacted /\ ~StartsOver(work))
      /\ UNCHANGED <<socketDown, terminal, queue, turnsAsked, told, lost, inTurn,
                     lastNamed, talk>>
  BY DEF Connect
<1>2. /\ work \in Turns /\ work # None /\ work.n \in 1..turnsAsked
      /\ inTurn /\ socketDown = "open" => ~terminal /\ InHand
  BY <1>1, WorkIsInHand
<1>3. PICK r \in Requests : r = Prepared(work) /\ r.n = work.n
  BY <1>2, PreparedIsARequest
<1>4. /\ turnsAsked \in Nat /\ r.n <= turnsAsked /\ Len(conns) \in Nat
      /\ r # None /\ active \in 0..Len(conns) /\ DOMAIN conns = 1..Len(conns)
  BY <1>2, <1>3, SocketFacts
<1>5. /\ transcript' \in Seq(Items) /\ {terminal', replay', compacted', inTurn'} \subseteq BOOLEAN
      /\ work' = work => LaneHoldsTurns' \/ stage' # "readying"
  <2>1. transcript' \in Seq(Items)
    BY <1>1, SocketFacts
  <2>2. {terminal', replay', compacted', inTurn'} \subseteq BOOLEAN
    BY <1>1 DEF SocketInv, SocketTypeOK
  <2>3. work' = work => LaneHoldsTurns' \/ stage' # "readying"
    BY <1>1, <1>2 DEF SocketInv, LaneHoldsTurns
  <2>4. QED
    BY <2>1, <2>2, <2>3
<1>6. InHand => Carries(r)'
  BY <1>1, <1>2, <1>3, PreparedCarries DEF InHand, BetweenTurns
<1>7. CASE /\ Serves(active, work.key)
           /\ conns' = [conns EXCEPT ![active] = Given(@, Prepared(work))]
           /\ Rests /\ UNCHANGED active
  <2>1. active \in 1..Len(conns) /\ active # 0
    BY <1>4, <1>7 DEF Serves
  <2>2. PICK k : k = Given(conns[active], r)
    OBVIOUS
  <2>3. conns' = [conns EXCEPT ![active] = k]
    BY <1>3, <1>7, <2>2
  <2>4. /\ k \in Conns /\ k.up = conns[active].up /\ k.late = conns[active].late
        /\ k.pending = r /\ WasAsked(k, turnsAsked) /\ (Idle(conns[active]) => OwesIt(k))
    BY <1>4, <2>1, <2>2, GivenIsWell
  <2>5. /\ conns' \in Seq(Conns) /\ Len(conns') = Len(conns) /\ conns'[active] = k
    BY <2>1, <2>3, <2>4, OneMoves
  <2>6. SocketTypeOK'
    BY <1>1, <1>5, <1>7, <2>5 DEF SocketInv, SocketTypeOK, Rests
  <2>7. LaneHoldsTurns'
    BY <1>1, <1>7, TurnRests
  <2>8. ConnectionsHoldTurns' /\ OneConnectionStands'
    BY <1>1, <1>7, <2>1, <2>3, <2>4, OneMovesWell
  <2>9. TalkIsInTurn'
    <3> SUFFICES ASSUME inTurn', socketDown' = "open" PROVE ~terminal' /\ IsSent'
      BY DEF TalkIsInTurn
    <3>1. ~terminal /\ InHand /\ OneIsOut'
      BY <1>1, <1>2 DEF InHand, OneIsOut, Out
    <3>2. OwesIt(k) /\ Carries(r)'
      BY <1>6, <2>1, <2>4, <3>1 DEF InHand, BetweenTurns, NothingIsOwed
    <3>3. OwesIt(conns[active])' /\ Carries(conns[active].pending)'
      <4>1. conns'[active'] = k
        BY <1>7, <2>5
      <4>2. OwesIt(conns[active])'
        BY <3>2, <4>1 DEF OwesIt
      <4>3. Carries(conns[active].pending)'
        BY <2>4, <3>2, <4>1 DEF Carries, GoesOn, Says, Item
      <4>4. QED
        BY <4>2, <4>3
    <3>4. QED
      BY <1>1, <1>7, <2>1, <3>1, <3>3 DEF IsSent, InHand, Rests
  <2>10. QED
    BY <2>6, <2>7, <2>8, <2>9 DEF SocketInv, SocketAssumption
<1>8. CASE /\ ~Serves(active, work.key)
           /\ conns' = Append(LetGo(active),
                 [key |-> work.key, up |-> "connecting", pending |-> Prepared(work),
                  owes |-> <<>>, late |-> socketDown = "gone"])
           /\ active' = Len(conns) + 1 /\ stage' = "readying" /\ UNCHANGED work
  <2>1. PICK rest : rest = LetGo(active)
    OBVIOUS
  <2>2. /\ rest \in Seq(Conns) /\ Len(rest) = Len(conns)
        /\ \A d \in 1..Len(conns) :
              WasAsked(rest[d], turnsAsked) /\ rest[d].up \in {"closing", "closed"}
    BY <2>1, NoneStands
  <2> DEFINE k == [key |-> work.key, up |-> "connecting", pending |-> r,
                   owes |-> <<>>, late |-> socketDown = "gone"]
  <2>3. conns' = Append(rest, k)
    BY <1>3, <1>8, <2>1
  <2>4. /\ k \in Conns /\ k.up = "connecting" /\ k.pending = r
        /\ k.late = (socketDown = "gone")
    <3>1. work.key \in Keys /\ (socketDown = "gone") \in BOOLEAN /\ <<>> \in Seq(Requests)
      BY <1>2 DEF Turns
    <3>2. QED
      BY <3>1 DEF Conns
  <2>5. WasAsked(k, turnsAsked) /\ OwesIt(k)
    BY <1>4 DEF WasAsked, OwesIt
  <2> HIDE DEF k
  <2>6. /\ conns' \in Seq(Conns) /\ Len(conns') = Len(conns) + 1 /\ conns'[Len(conns) + 1] = k
        /\ DOMAIN conns' = 1..(Len(conns) + 1)
        /\ \A d \in 1..Len(conns) : conns'[d] = rest[d]
    BY <2>2, <2>3, <2>4, <1>4
  <2>7. SocketTypeOK'
    <3>1. active' \in 0..Len(conns') /\ work' \in Turns \cup {None}
      BY <1>2, <1>4, <1>8, <2>6
    <3>2. QED
      BY <1>1, <1>5, <1>8, <2>6, <3>1 DEF SocketInv, SocketTypeOK
  <2>8. \A d \in 1..(Len(conns) + 1) :
            d \in 1..Len(conns) \/ d = Len(conns) + 1
    BY <1>4
  <2>9. ConnectionsHoldTurns'
    <3>1. \A d \in 1..(Len(conns) + 1) : WasAsked(conns'[d], turnsAsked)
      BY <2>2, <2>5, <2>6, <2>8
    <3>2. QED
      BY <1>1, <2>6, <3>1 DEF ConnectionsHoldTurns, WasAsked
  <2>10. OneConnectionStands'
    <3>1. ASSUME NEW d \in 1..(Len(conns) + 1)
          PROVE  /\ d # active' => conns'[d].up \in {"closing", "closed"}
                 /\ socketDown' = "gone" => conns'[d].up \in {"closing", "closed"}
                                            \/ conns'[d].late
      BY <1>1, <1>8, <2>2, <2>4, <2>6, <2>8
    <3>2. QED
      BY <2>6, <3>1 DEF OneConnectionStands
  <2>11. TalkIsInTurn'
    <3> SUFFICES ASSUME inTurn', socketDown' = "open" PROVE ~terminal' /\ IsSent'
      BY DEF TalkIsInTurn
    <3>1. ~terminal /\ InHand /\ OneIsOut'
      BY <1>1, <1>2 DEF InHand, OneIsOut, Out
    <3>2. Carries(r)'
      BY <1>6, <3>1
    <3>3. OwesIt(conns[active])' /\ Carries(conns[active].pending)'
      <4>1. conns'[active'] = k
        BY <1>8, <2>6
      <4>2. OwesIt(conns[active])'
        BY <2>5, <4>1 DEF OwesIt
      <4>3. Carries(conns[active].pending)'
        BY <2>4, <3>2, <4>1 DEF Carries, GoesOn, Says, Item
      <4>4. QED
        BY <4>2, <4>3
    <3>4. active' # 0 /\ active' = Len(conns') /\ conns'[active'].up = "connecting"
      BY <1>4, <1>8, <2>4, <2>6
    <3>5. QED
      BY <1>1, <1>8, <3>1, <3>3, <3>4 DEF IsSent, InHand
  <2>12. QED
    BY <1>5, <1>8, <2>7, <2>9, <2>10, <2>11 DEF SocketInv, SocketAssumption
<1>9. QED
  BY <1>7, <1>8 DEF Connect

-----------------------------------------------------------------------------
(* What the connections tell.                                              *)

(* A connection that does not stand moves, and the talk goes on.            *)
LEMMA OthersSayNothing ==
  ASSUME SocketInv, NEW c \in 1..Len(conns), NEW k \in Conns, conns' = [conns EXCEPT ![c] = k],
         terminal \/ c # active,
         UNCHANGED <<socketDown, terminal, queue, work, stage, active, transcript, replay,
                     compacted, turnsAsked, told, lost, inTurn, lastNamed, talk>>
  PROVE  TalkIsInTurn'
<1> SUFFICES ASSUME inTurn', socketDown' = "open"
             PROVE  ~terminal' /\ (NobodyAsks' \/ InLine' \/ InHand' \/ IsSent')
  BY DEF TalkIsInTurn
<1>1. ~terminal /\ (NobodyAsks \/ InLine \/ InHand \/ IsSent) /\ c # active
  BY DEF SocketInv, TalkIsInTurn
<1>2. Len(conns') = Len(conns) /\ (active # 0 => conns'[active] = conns[active])
  BY <1>1, OneMoves, SocketFacts
<1>3. (OneIsOut' <=> OneIsOut) /\ (Out' = Out)
  BY DEF OneIsOut, Out
<1>4. BetweenTurns' <=> BetweenTurns
  BY <1>2 DEF BetweenTurns, Agree, NothingIsOwed, Idle
<1>5. IsSent => IsSent'
  <2> SUFFICES ASSUME IsSent PROVE IsSent'
    OBVIOUS
  <2>1. active # 0 /\ conns'[active] = conns[active]
    BY <1>2 DEF IsSent
  <2>2. OwesIt(conns[active])' /\ Carries(conns[active].pending)'
    <3>1. OwesIt(conns[active])'
      BY <2>1 DEF IsSent, OwesIt
    <3>2. Carries(conns[active].pending)'
      BY <2>1 DEF IsSent, Carries, GoesOn, Says, Item
    <3>3. QED
      BY <3>1, <3>2
  <2>3. QED
    BY <1>2, <1>3, <2>1, <2>2 DEF IsSent
<1>6. QED
  BY <1>1, <1>3, <1>4, <1>5 DEF NobodyAsks, InLine, InHand

LEMMA ItStands ==
  ASSUME SocketInv, NEW c \in 1..Len(conns), conns[c].up \notin {"closing", "closed"}
  PROVE  c = active
<1>1. c \in DOMAIN conns
  BY SocketFacts
<1>2. QED
  BY <1>1 DEF SocketInv, OneConnectionStands

(* The connection of a caller that waits which is not at rest has its turn.  *)
LEMMA ItWasSent ==
  ASSUME SocketInv, NEW c \in 1..Len(conns), inTurn, socketDown = "open",
         conns[c].up \in {"connecting", "open", "refused"}, ~Idle(conns[c])
  PROVE  ~terminal /\ c = active /\ IsSent
<1>1. c = active /\ active # 0
  <2>1. c = active
    BY ItStands
  <2>2. QED
    BY <2>1, SocketFacts
<1>2. ~terminal /\ (NobodyAsks \/ InLine \/ InHand \/ IsSent)
  BY DEF SocketInv, TalkIsInTurn
<1>3. ~NothingIsOwed
  BY <1>1 DEF NothingIsOwed
<1>4. QED
  BY <1>1, <1>2, <1>3 DEF NobodyAsks, InLine, InHand, BetweenTurns

LEMMA OpenKeeps ==
  ASSUME SocketInv, NEW c \in 1..Len(conns), Open(c)
  PROVE  SocketInv'
<1> DEFINE k == [conns[c] EXCEPT !.up = "open", !.owes = <<conns[c].pending>>]
<1>1. /\ conns[c].up = "connecting" /\ Rests
      /\ UNCHANGED <<socketDown, terminal, queue, active, transcript, replay, compacted,
                     turnsAsked, told, lost, inTurn, lastNamed, talk>>
  BY DEF Open
<1>2. conns' = [conns EXCEPT ![c] = k]
  BY DEF Open
<1>3. /\ conns[c] \in Conns /\ WasAsked(conns[c], turnsAsked)
      /\ conns[c].pending \in Requests /\ conns[c].pending # None
      /\ conns[c].pending.n <= turnsAsked
  BY <1>1, ConnectionFacts DEF WasAsked
<1> DEFINE owes == <<conns[c].pending>>
<1>4. owes \in Seq(Requests) /\ Len(owes) = 1 /\ owes[1] = conns[c].pending
  BY <1>3
<1> HIDE DEF owes
<1>5. /\ k \in Conns /\ k.up = "open" /\ k.late = conns[c].late
      /\ k.pending = conns[c].pending /\ k.owes = owes
  BY <1>3, <1>4 DEF Conns, owes
<1> HIDE DEF k
<1>6. WasAsked(k, turnsAsked) /\ OwesIt(k)
  <2>1. \A i \in 1..Len(owes) : owes[i].n <= turnsAsked
    BY <1>3, <1>4
  <2>2. WasAsked(k, turnsAsked)
    BY <1>3, <1>5, <2>1 DEF WasAsked
  <2>3. QED
    BY <1>3, <1>4, <1>5, <2>2 DEF OwesIt
<1>7. c = active
  BY <1>1, ItStands
<1>8. conns' \in Seq(Conns) /\ Len(conns') = Len(conns) /\ conns'[c] = k
  BY <1>2, <1>5, OneMoves
<1>9. SocketTypeOK' /\ LaneHoldsTurns'
  <2>1. SocketTypeOK'
    BY <1>1, <1>8 DEF SocketInv, SocketTypeOK, Rests
  <2>2. QED
    BY <1>1, <2>1, TurnRests
<1>10. ConnectionsHoldTurns' /\ OneConnectionStands'
  BY <1>1, <1>2, <1>5, <1>6, <1>7, OneMovesWell
<1>11. TalkIsInTurn'
  <2> SUFFICES ASSUME inTurn', socketDown' = "open" PROVE ~terminal' /\ IsSent'
    BY DEF TalkIsInTurn
  <2>1. ~terminal /\ IsSent
    BY <1>1, ItWasSent DEF Idle
  <2>2. OneIsOut'
    BY <1>1, <2>1 DEF IsSent, OneIsOut, Out
  <2>3. OwesIt(conns[active])' /\ Carries(conns[active].pending)'
    <3>1. conns'[active'] = k
      BY <1>1, <1>7, <1>8
    <3>2. OwesIt(conns[active])'
      BY <1>6, <3>1 DEF OwesIt
    <3>3. Carries(conns[active].pending)'
      BY <1>1, <1>5, <1>7, <2>1, <3>1 DEF IsSent, Carries, GoesOn, Says, Item
    <3>4. QED
      BY <3>2, <3>3
  <2>4. QED
    BY <1>1, <2>1, <2>2, <2>3 DEF IsSent, Rests
<1>12. QED
  BY <1>9, <1>10, <1>11 DEF SocketInv, SocketAssumption

(* A connection that changes its state only.                               *)
LEMMA ItsStateMoves ==
  ASSUME SocketInv, NEW c \in 1..Len(conns),
         NEW up \in {"open", "refused", "closing", "closed"},
         NEW k, k = [conns[c] EXCEPT !.up = up]
  PROVE  /\ k \in Conns /\ k.up = up /\ k.late = conns[c].late
         /\ k.pending = conns[c].pending /\ k.owes = conns[c].owes
         /\ WasAsked(k, turnsAsked)
<1>1. conns[c] \in Conns /\ WasAsked(conns[c], turnsAsked)
  BY ConnectionFacts
<1>2. /\ k \in Conns /\ k.up = up /\ k.late = conns[c].late
      /\ k.pending = conns[c].pending /\ k.owes = conns[c].owes
  BY <1>1 DEF Conns
<1>3. QED
  BY <1>1, <1>2 DEF WasAsked

LEMMA RefusedKeeps ==
  ASSUME SocketInv, NEW c \in 1..Len(conns), Refused(c)
  PROVE  SocketInv'
<1>1. /\ conns[c].up = "connecting" /\ Rests
      /\ UNCHANGED <<socketDown, terminal, queue, active, transcript, replay, compacted,
                     turnsAsked, told, lost, inTurn, lastNamed, talk>>
  BY DEF Refused
<1>2. PICK k : k = [conns[c] EXCEPT !.up = "refused"]
  OBVIOUS
<1>3. conns' = [conns EXCEPT ![c] = k]
  BY <1>2 DEF Refused
<1>4. /\ k \in Conns /\ k.up = "refused" /\ k.late = conns[c].late
      /\ k.pending = conns[c].pending /\ WasAsked(k, turnsAsked)
  BY <1>2, ItsStateMoves
<1>5. conns[c].pending # None
  BY <1>1, ConnectionFacts DEF WasAsked
<1>6. c = active
  BY <1>1, ItStands
<1>7. conns' \in Seq(Conns) /\ Len(conns') = Len(conns) /\ conns'[c] = k
  BY <1>3, <1>4, OneMoves
<1>8. SocketTypeOK' /\ LaneHoldsTurns'
  <2>1. SocketTypeOK'
    BY <1>1, <1>7 DEF SocketInv, SocketTypeOK, Rests
  <2>2. QED
    BY <1>1, <2>1, TurnRests
<1>9. ConnectionsHoldTurns' /\ OneConnectionStands'
  BY <1>1, <1>3, <1>4, <1>6, OneMovesWell
<1>10. TalkIsInTurn'
  <2> SUFFICES ASSUME inTurn', socketDown' = "open" PROVE ~terminal' /\ IsSent'
    BY DEF TalkIsInTurn
  <2>1. ~terminal /\ IsSent
    BY <1>1, ItWasSent DEF Idle
  <2>2. OneIsOut'
    BY <1>1, <2>1 DEF IsSent, OneIsOut, Out
  <2>3. OwesIt(conns[active])' /\ Carries(conns[active].pending)'
    <3>1. conns'[active'] = k
      BY <1>1, <1>6, <1>7
    <3>2. OwesIt(conns[active])'
      BY <1>4, <1>5, <3>1 DEF OwesIt
    <3>3. Carries(conns[active].pending)'
      BY <1>1, <1>4, <1>6, <2>1, <3>1 DEF IsSent, Carries, GoesOn, Says, Item
    <3>4. QED
      BY <3>2, <3>3
  <2>4. QED
    BY <1>1, <2>1, <2>2, <2>3 DEF IsSent, Rests
<1>11. QED
  BY <1>8, <1>9, <1>10 DEF SocketInv, SocketAssumption

LEMMA FailKeeps ==
  ASSUME SocketInv, NEW c \in 1..Len(conns), Fail(c)
  PROVE  SocketInv'
<1>1. /\ stage = "readying" /\ c = Len(conns) /\ Rests
      /\ IF Accepts(c) THEN EndsTheCaller ELSE UNCHANGED <<socketDown, terminal>>
      /\ UNCHANGED <<queue, active, transcript, replay, compacted, turnsAsked, told, lost,
                     inTurn, lastNamed, talk>>
  BY DEF Fail
<1>2. PICK k : k = [conns[c] EXCEPT !.up = "closed"]
  OBVIOUS
<1>3. conns' = [conns EXCEPT ![c] = k]
  BY <1>2 DEF Fail
<1>4. k \in Conns /\ k.up = "closed" /\ WasAsked(k, turnsAsked)
  BY <1>2, ItsStateMoves
<1>5. conns' \in Seq(Conns) /\ Len(conns') = Len(conns)
  BY <1>3, <1>4, OneMoves
<1>6. /\ socketDown' \in {"open", "ending", "gone"} /\ terminal' \in BOOLEAN
      /\ socketDown' = "gone" => socketDown = "gone"
  BY <1>1 DEF EndsTheCaller, SocketInv, SocketTypeOK
<1>7. SocketTypeOK'
  BY <1>1, <1>5, <1>6 DEF SocketInv, SocketTypeOK, Rests
<1>8. LaneHoldsTurns'
  BY <1>1, TurnRests
<1>9. ConnectionsHoldTurns' /\ OneConnectionStands'
  BY <1>1, <1>3, <1>4, <1>6, OneMovesWell
<1>10. TalkIsInTurn'
  <2> SUFFICES ASSUME inTurn', socketDown' = "open" PROVE FALSE
    BY DEF TalkIsInTurn
  <2>1. UNCHANGED <<socketDown, terminal>> /\ ~Accepts(c) /\ inTurn
    BY <1>1 DEF EndsTheCaller
  <2>2. ~terminal /\ (NobodyAsks \/ InLine \/ InHand \/ IsSent) /\ work # None
    BY <1>1, <2>1 DEF SocketInv, TalkIsInTurn, LaneHoldsTurns
  <2>3. IsSent /\ active = Len(conns)
    BY <1>1, <2>2 DEF NobodyAsks, InLine, InHand, IsSent
  <2>4. QED
    BY <1>1, <2>1, <2>2, <2>3 DEF Accepts
<1>11. QED
  BY <1>7, <1>8, <1>9, <1>10 DEF SocketInv, SocketAssumption

LEMMA HandshakeErrorKeeps ==
  ASSUME SocketInv, NEW c \in 1..Len(conns), HandshakeError(c)
  PROVE  SocketInv'
<1>1. /\ EndsTheCaller
      /\ UNCHANGED <<queue, work, stage, conns, active, transcript, replay, compacted,
                     turnsAsked, told, lost, inTurn, lastNamed, talk>>
  BY DEF HandshakeError
<1>2. /\ socketDown' \in {"ending", "gone"} /\ terminal' \in BOOLEAN
      /\ socketDown' = "gone" => socketDown = "gone"
  BY <1>1 DEF EndsTheCaller, SocketInv, SocketTypeOK
<1>3. SocketTypeOK' /\ LaneHoldsTurns'
  BY <1>1, <1>2 DEF SocketInv, SocketTypeOK, LaneHoldsTurns
<1>4. ConnectionsHoldTurns' /\ OneConnectionStands'
  BY <1>1, <1>2, SocketFacts, ConnectionsStay
<1>5. TalkIsInTurn'
  BY <1>2 DEF TalkIsInTurn
<1>6. QED
  BY <1>3, <1>4, <1>5 DEF SocketInv, SocketAssumption

LEMMA UpstreamErrorKeeps ==
  ASSUME SocketInv, NEW c \in 1..Len(conns), UpstreamError(c)
  PROVE  SocketInv'
<1>1. /\ EndsTheCaller
      /\ UNCHANGED <<queue, work, stage, active, transcript, replay, compacted, turnsAsked,
                     told, lost, inTurn, lastNamed, talk>>
  BY DEF UpstreamError
<1>2. PICK k : k = [conns[c] EXCEPT !.up = "closing"]
  OBVIOUS
<1>3. conns' = [conns EXCEPT ![c] = k]
  BY <1>2 DEF UpstreamError
<1>4. k \in Conns /\ k.up = "closing" /\ WasAsked(k, turnsAsked)
  BY <1>2, ItsStateMoves
<1>5. conns' \in Seq(Conns) /\ Len(conns') = Len(conns)
  BY <1>3, <1>4, OneMoves
<1>6. /\ socketDown' \in {"ending", "gone"} /\ terminal' \in BOOLEAN
      /\ socketDown' = "gone" => socketDown = "gone"
  BY <1>1 DEF EndsTheCaller, SocketInv, SocketTypeOK
<1>7. SocketTypeOK' /\ LaneHoldsTurns'
  BY <1>1, <1>5, <1>6 DEF SocketInv, SocketTypeOK, LaneHoldsTurns
<1>8. ConnectionsHoldTurns' /\ OneConnectionStands'
  BY <1>1, <1>3, <1>4, <1>6, OneMovesWell
<1>9. TalkIsInTurn'
  BY <1>6 DEF TalkIsInTurn
<1>10. QED
  BY <1>7, <1>8, <1>9 DEF SocketInv, SocketAssumption

LEMMA UpstreamCloseKeeps ==
  ASSUME SocketInv, NEW c \in 1..Len(conns), UpstreamClose(c)
  PROVE  SocketInv'
<1>1. /\ IF Accepts(c) THEN active' = 0 /\ EndsTheCaller
                       ELSE UNCHANGED <<active, socketDown, terminal>>
      /\ UNCHANGED <<queue, work, stage, transcript, replay, compacted, turnsAsked, told,
                     lost, inTurn, lastNamed, talk>>
  BY DEF UpstreamClose
<1>2. PICK k : k = [conns[c] EXCEPT !.up = "closed"]
  OBVIOUS
<1>3. conns' = [conns EXCEPT ![c] = k]
  BY <1>2 DEF UpstreamClose
<1>4. k \in Conns /\ k.up = "closed" /\ WasAsked(k, turnsAsked)
  BY <1>2, ItsStateMoves
<1>5. conns' \in Seq(Conns) /\ Len(conns') = Len(conns)
  BY <1>3, <1>4, OneMoves
<1>6. /\ socketDown' \in {"open", "ending", "gone"} /\ terminal' \in BOOLEAN
      /\ socketDown' = "gone" => socketDown = "gone"
      /\ active' = active \/ (active' = 0 /\ active = c)
  BY <1>1 DEF Accepts, EndsTheCaller, SocketInv, SocketTypeOK
<1>7. SocketTypeOK' /\ LaneHoldsTurns'
  <2>1. active' \in 0..Len(conns')
    BY <1>5, <1>6, SocketFacts
  <2>2. QED
    BY <1>1, <1>5, <1>6, <2>1 DEF SocketInv, SocketTypeOK, LaneHoldsTurns
<1>8. ConnectionsHoldTurns' /\ OneConnectionStands'
  BY <1>1, <1>3, <1>4, <1>6, OneMovesWell
<1>9. TalkIsInTurn'
  <2>1. CASE Accepts(c)
    BY <1>1, <2>1 DEF EndsTheCaller, TalkIsInTurn
  <2>2. CASE ~Accepts(c)
    BY <1>1, <1>3, <1>4, <2>2, OthersSayNothing DEF Accepts
  <2>3. QED
    BY <2>1, <2>2
<1>10. QED
  BY <1>7, <1>8, <1>9 DEF SocketInv, SocketAssumption

(* Its turn is told: what was recorded of it is what its caller heard.      *)
LEMMA TurnIsTold ==
  ASSUME SocketInv, active # 0, NEW r \in Requests, r = conns[active].pending,
         NEW answer \in Seq(Items), answer = Answer(r),
         conns[active].up = "open", ~Idle(conns[active]), ~terminal,
         /\ transcript' = (IF r.reset THEN <<>> ELSE transcript) \o r.said \o answer
         /\ replay' = (replay /\ ~r.reset) /\ compacted' = (compacted /\ ~r.reset),
         Heard(r), Len(conns') = Len(conns), NothingIsOwed',
         UNCHANGED <<socketDown, terminal, queue, work, stage, active, turnsAsked, lost, inTurn>>
  PROVE  TalkIsInTurn'
<1> SUFFICES ASSUME inTurn', socketDown' = "open" PROVE ~terminal' /\ NobodyAsks'
  BY DEF TalkIsInTurn
<1>1. active \in 1..Len(conns)
  <2>1. active \in 0..Len(conns) /\ Len(conns) \in Nat
    BY SocketFacts
  <2>2. QED
    BY <2>1
<1>2. IsSent /\ Carries(r) /\ stage # "readying" /\ work = None
  <2>1. IsSent
    BY <1>1, ItWasSent
  <2>2. QED
    BY <2>1 DEF IsSent
<1>3. told' = told \cup {turnsAsked} /\ lastNamed' = "response" /\ ~replay' /\ ~compacted'
  BY <1>2 DEF Heard, Carries
<1>4. transcript' = talk'
  BY <1>2 DEF Heard, Carries
<1>5. Agree'
  BY <1>3, <1>4, <1>2 DEF Agree
<1>6. Out' = {}
  BY <1>2, <1>3, OneEnds DEF IsSent
<1>7. QED
  BY <1>2, <1>5, <1>6 DEF IsSent, NobodyAsks, BetweenTurns

(* What a request and its answer are as items.                             *)
LEMMA RecordedIsWell ==
  ASSUME SocketInv, NEW r \in Requests, NEW t \in Requests, r.n <= turnsAsked, t.n <= turnsAsked
  PROVE  /\ (IF r.reset THEN <<>> ELSE transcript) \o r.said \o Answer(t) \in Seq(Items)
         /\ (IF r.reset THEN <<>> ELSE transcript) \o r.said \o <<>> \in Seq(Items)
         /\ (IF GoesOn(t.way) THEN talk ELSE <<>>) \o Says(t) \o Answer(t) \in Seq(Items)
         /\ told \cup {t.n} \subseteq 1..turnsAsked
         /\ (replay /\ ~r.reset) \in BOOLEAN /\ (compacted /\ ~r.reset) \in BOOLEAN
<1>1. /\ r.said \in Seq(Items) /\ t.n \in 1..MaxTurns /\ t.n \in 1..turnsAsked
  BY SocketFacts DEF Requests
<1>2. Says(t) \in Seq(Items) /\ Answer(t) \in Seq(Items)
  BY <1>1, SaysIsSaid
<1>3. /\ (IF r.reset THEN <<>> ELSE transcript) \in Seq(Items)
      /\ (IF GoesOn(t.way) THEN talk ELSE <<>>) \in Seq(Items) /\ <<>> \in Seq(Items)
  BY SocketFacts
<1>4. told \cup {t.n} \subseteq 1..turnsAsked
  BY <1>1, SocketFacts
<1> DEFINE stood == IF r.reset THEN <<>> ELSE transcript
           went == IF GoesOn(t.way) THEN talk ELSE <<>>
<1> HIDE DEF stood, went
<1>5. stood \in Seq(Items) /\ went \in Seq(Items)
  BY <1>3 DEF stood, went
<1>6. /\ stood \o r.said \o Answer(t) \in Seq(Items) /\ stood \o r.said \o <<>> \in Seq(Items)
      /\ went \o Says(t) \o Answer(t) \in Seq(Items)
  BY <1>1, <1>2, <1>3, <1>5
<1>7. QED
  BY <1>4, <1>6 DEF stood, went

(* A connection that is told of the turn it owes first.                    *)
LEMMA ItOwesLess ==
  ASSUME SocketInv, NEW c \in 1..Len(conns), conns[c].owes # <<>>,
         NEW pending \in {conns[c].pending, None},
         NEW owes \in {conns[c].owes, Tail(conns[c].owes)},
         conns[c].up # "connecting",
         NEW k, k = [conns[c] EXCEPT !.pending = pending, !.owes = owes]
  PROVE  /\ k \in Conns /\ k.up = conns[c].up /\ k.late = conns[c].late
         /\ k.pending = pending /\ k.owes = owes /\ WasAsked(k, turnsAsked)
         /\ Head(conns[c].owes) = conns[c].owes[1] /\ conns[c].owes[1] \in Requests
         /\ conns[c].owes[1].n <= turnsAsked /\ Len(conns[c].owes) > 0
<1>1. /\ conns[c] \in Conns /\ conns[c].owes \in Seq(Requests) /\ WasAsked(conns[c], turnsAsked)
      /\ conns[c].pending \in Requests \cup {None}
  BY ConnectionFacts
<1>2. /\ Len(conns[c].owes) > 0 /\ Head(conns[c].owes) = conns[c].owes[1]
      /\ conns[c].owes[1] \in Requests /\ 1 \in 1..Len(conns[c].owes)
  BY <1>1
<1>3. owes \in Seq(Requests) /\ \A i \in 1..Len(owes) : owes[i].n <= turnsAsked
  <2>1. CASE owes = conns[c].owes
    BY <1>1, <2>1 DEF WasAsked
  <2>2. CASE owes = Tail(conns[c].owes)
    <3>1. /\ owes \in Seq(Requests)
          /\ \A i \in 1..Len(owes) : owes[i] = conns[c].owes[i + 1] /\ i + 1 \in 1..Len(conns[c].owes)
      BY <1>1, <1>2, <2>2
    <3>2. QED
      BY <1>1, <3>1 DEF WasAsked
  <2>3. QED
    BY <2>1, <2>2
<1>4. /\ k \in Conns /\ k.up = conns[c].up /\ k.late = conns[c].late
      /\ k.pending = pending /\ k.owes = owes
  BY <1>1, <1>3 DEF Conns
<1>5. WasAsked(k, turnsAsked)
  BY <1>1, <1>3, <1>4 DEF WasAsked
<1>6. conns[c].owes[1].n <= turnsAsked
  BY <1>1, <1>2 DEF WasAsked
<1>7. QED
  BY <1>2, <1>4, <1>5, <1>6

LEMMA WarmedUpKeeps ==
  ASSUME SocketInv, NEW c \in 1..Len(conns), WarmedUp(c)
  PROVE  SocketInv'
<1>1. PICK r : r = conns[c].pending
  OBVIOUS
<1>2. PICK owes : owes = IF Head(conns[c].owes).n = r.n THEN Tail(conns[c].owes) ELSE conns[c].owes
  OBVIOUS
<1>3. PICK k : k = [conns[c] EXCEPT !.pending = None, !.owes = owes]
  OBVIOUS
<1>4. /\ conns[c].up = "open" /\ conns[c].owes # <<>> /\ c = active /\ ~terminal
      /\ r # None /\ r.way = "warmup" /\ Record(r, <<>>) /\ Heard(r)
      /\ UNCHANGED <<socketDown, terminal, queue, work, stage, active, turnsAsked, lost, inTurn>>
  BY <1>1 DEF WarmedUp, Accepts, Warming
<1>5. conns' = [conns EXCEPT ![c] = k]
  BY <1>1, <1>2, <1>3 DEF WarmedUp
<1>6. /\ k \in Conns /\ k.up = "open" /\ k.late = conns[c].late /\ k.pending = None
      /\ k.owes = owes /\ WasAsked(k, turnsAsked) /\ Len(conns[c].owes) > 0
  <2>1. /\ owes \in {conns[c].owes, Tail(conns[c].owes)} /\ None \in {conns[c].pending, None}
        /\ conns[c].up # "connecting"
    BY <1>2, <1>4
  <2>2. QED
    <3>1. conns[c].owes # <<>> /\ conns[c].up = "open"
      BY <1>4
    <3>2. QED
      BY <1>3, <2>1, <3>1, ItOwesLess
<1>7. r \in Requests /\ r.n <= turnsAsked
  BY <1>1, <1>4, ConnectionFacts DEF WasAsked
<1>8. conns' \in Seq(Conns) /\ Len(conns') = Len(conns) /\ conns'[c] = k
  BY <1>5, <1>6, OneMoves
<1>9. Answer(r) = <<>>
  BY <1>4 DEF Answer
<1>10. /\ transcript' = (IF r.reset THEN <<>> ELSE transcript) \o r.said \o <<>>
       /\ replay' = (replay /\ ~r.reset) /\ compacted' = (compacted /\ ~r.reset)
       /\ told' = told \cup {r.n} /\ lastNamed' = "response"
       /\ talk' = (IF GoesOn(r.way) THEN talk ELSE <<>>) \o Says(r) \o Answer(r)
  BY <1>4 DEF Record, Heard
<1>11. SocketTypeOK'
  <2>1. /\ transcript' \in Seq(Items) /\ talk' \in Seq(Items) /\ told' \subseteq 1..turnsAsked
        /\ replay' \in BOOLEAN /\ compacted' \in BOOLEAN
    BY <1>7, <1>10, RecordedIsWell
  <2>2. QED
    BY <1>4, <1>8, <1>10, <2>1 DEF SocketInv, SocketTypeOK
<1>12. LaneHoldsTurns'
  BY <1>4 DEF SocketInv, LaneHoldsTurns
<1>13. ConnectionsHoldTurns' /\ OneConnectionStands'
  BY <1>4, <1>5, <1>6, OneMovesWell
<1>14. TalkIsInTurn'
  <2> SUFFICES ASSUME inTurn, socketDown = "open" PROVE TalkIsInTurn'
    BY <1>4 DEF TalkIsInTurn
  <2>1. ~Idle(conns[c])
    BY <1>6 DEF Idle
  <2>2. OwesIt(conns[c])
    BY <1>4, <2>1, ItWasSent DEF IsSent
  <2>3. Len(conns[c].owes) = 1 /\ conns[c].owes[1] = r /\ conns[c].owes \in Seq(Requests)
    BY <1>1, <1>4, <2>2, ConnectionFacts DEF OwesIt
  <2>4. Len(owes) = 0
    BY <1>2, <2>3
  <2>5. NothingIsOwed'
    BY <1>4, <1>6, <1>8, <2>4 DEF NothingIsOwed, Idle
  <2>6. active # 0 /\ <<>> \in Seq(Items)
    BY <1>4, SocketFacts
  <2>7. QED
    BY <1>1, <1>4, <1>7, <1>8, <1>9, <1>10, <2>1, <2>5, <2>6, TurnIsTold
<1>15. QED
  BY <1>11, <1>12, <1>13, <1>14 DEF SocketInv, SocketAssumption

LEMMA CompleteKeeps ==
  ASSUME SocketInv, NEW c \in 1..Len(conns), Complete(c)
  PROVE  SocketInv'
<1>1. PICK pending, turn : pending = conns[c].pending /\ turn = Head(conns[c].owes)
  OBVIOUS
<1>2. /\ conns[c].up = "open" /\ conns[c].owes # <<>>
      /\ ~(turn.way = "warmup" /\ Accepts(c) /\ Warming(c))
      /\ UNCHANGED <<socketDown, terminal, queue, work, stage, active, turnsAsked, lost, inTurn>>
  BY <1>1 DEF Complete
<1>3. LaneHoldsTurns'
  BY <1>2 DEF SocketInv, LaneHoldsTurns
<1>4. /\ conns[c].owes \in Seq(Requests) /\ pending \in Requests \cup {None}
      /\ pending # None => pending.n <= turnsAsked
  BY <1>1, ConnectionFacts DEF WasAsked
<1> DEFINE fewer == Tail(conns[c].owes)
<1>5. c = active
  BY <1>2, ItStands
<1>6. /\ None \in {conns[c].pending, None} /\ conns[c].pending \in {conns[c].pending, None}
      /\ fewer \in {conns[c].owes, Tail(conns[c].owes)} /\ conns[c].up # "connecting"
  BY <1>2
<1>7. CASE Accepts(c) /\ turn.way # "warmup"
  <2>1. PICK k : k = [conns[c] EXCEPT !.pending = None, !.owes = fewer]
    OBVIOUS
  <2>2. conns' = [conns EXCEPT ![c] = k]
    <3>1. conns' = [conns EXCEPT ![c].owes = Tail(@), ![c].pending = None]
      BY <1>1, <1>7 DEF Complete
    <3>2. k = [conns[c] EXCEPT !.owes = Tail(@), !.pending = None]
      BY <2>1, ConnectionFacts DEF Conns
    <3>3. QED
      BY <3>1, <3>2, SocketFacts
  <2>3. /\ k \in Conns /\ k.up = "open" /\ k.late = conns[c].late /\ k.pending = None
        /\ k.owes = fewer /\ WasAsked(k, turnsAsked)
    BY <1>2, <1>6, <2>1, ItOwesLess
  <2>4. turn = conns[c].owes[1] /\ turn \in Requests /\ turn.n <= turnsAsked
    BY <1>1, <1>2, <1>6, <2>1, ItOwesLess
  <2>5. conns' \in Seq(Conns) /\ Len(conns') = Len(conns) /\ conns'[c] = k
    BY <2>2, <2>3, OneMoves
  <2>6. /\ IF pending = None THEN UNCHANGED <<transcript, replay, compacted>>
                             ELSE Record(pending, Answer(turn))
        /\ Heard(turn)
    BY <1>1, <1>7 DEF Complete
  <2>7. SocketTypeOK'
    <3>1. /\ talk' \in Seq(Items) /\ told' \subseteq 1..turnsAsked /\ lastNamed' = "response"
      BY <2>4, <2>6, RecordedIsWell DEF Heard
    <3>2. transcript' \in Seq(Items) /\ replay' \in BOOLEAN /\ compacted' \in BOOLEAN
      <4>1. CASE pending = None
        BY <2>6, <4>1, SocketFacts DEF SocketInv, SocketTypeOK
      <4>2. CASE pending # None
        BY <1>4, <2>4, <2>6, <4>2, RecordedIsWell DEF Record
      <4>3. QED
        BY <4>1, <4>2
    <3>3. QED
      BY <1>2, <2>5, <3>1, <3>2 DEF SocketInv, SocketTypeOK
  <2>8. ConnectionsHoldTurns' /\ OneConnectionStands'
    BY <1>5, <1>2, <2>2, <2>3, OneMovesWell
  <2>9. TalkIsInTurn'
    <3> SUFFICES ASSUME inTurn, socketDown = "open" PROVE TalkIsInTurn'
      BY <1>2 DEF TalkIsInTurn
    <3>1. Len(conns[c].owes) > 0
      BY <1>2, <1>4
    <3>2. ~Idle(conns[c])
      BY <3>1 DEF Idle
    <3>3. OwesIt(conns[c])
      BY <1>2, <3>2, ItWasSent DEF IsSent
    <3>4. Len(conns[c].owes) = 1 /\ turn = pending /\ pending # None
      BY <1>1, <1>2, <2>4, <3>3 DEF OwesIt
    <3>5. Len(fewer) = 0
      BY <1>4, <3>4
    <3>6. NothingIsOwed'
      BY <1>2, <1>7, <2>3, <2>5, <3>5 DEF NothingIsOwed, Idle, Accepts
    <3>7. PICK answer \in Seq(Items) : answer = Answer(turn)
      BY <2>4, SaysIsSaid DEF Requests
    <3>8. active # 0 /\ c = active /\ ~terminal
      BY <1>7, SocketFacts DEF Accepts
    <3>9. /\ transcript' = (IF turn.reset THEN <<>> ELSE transcript) \o turn.said \o answer
          /\ replay' = (replay /\ ~turn.reset) /\ compacted' = (compacted /\ ~turn.reset)
      BY <2>6, <3>4, <3>7 DEF Record
    <3>10. QED
      BY <1>1, <1>2, <2>4, <2>5, <2>6, <3>2, <3>4, <3>6, <3>7, <3>8, <3>9, TurnIsTold
  <2>10. QED
    BY <1>3, <2>7, <2>8, <2>9 DEF SocketInv, SocketAssumption
<1>8. CASE ~(Accepts(c) /\ turn.way # "warmup")
  <2>1. PICK k : k = [conns[c] EXCEPT !.pending = pending, !.owes = fewer]
    OBVIOUS
  <2>2. /\ conns' = [conns EXCEPT ![c].owes = Tail(@)]
        /\ UNCHANGED <<transcript, replay, compacted, told, lastNamed, talk>>
    BY <1>1, <1>8 DEF Complete
  <2>3. conns' = [conns EXCEPT ![c] = k]
    <3>1. k = [conns[c] EXCEPT !.owes = Tail(@)]
      BY <1>1, <2>1, ConnectionFacts DEF Conns
    <3>2. QED
      BY <2>2, <3>1, SocketFacts
  <2>4. /\ k \in Conns /\ k.up = "open" /\ k.late = conns[c].late
        /\ k.owes = fewer /\ WasAsked(k, turnsAsked)
    BY <1>1, <1>2, <1>6, <2>1, ItOwesLess
  <2>5. turn = conns[c].owes[1]
    BY <1>1, <1>2, <1>4
  <2>6. conns' \in Seq(Conns) /\ Len(conns') = Len(conns) /\ conns'[c] = k
    BY <2>3, <2>4, OneMoves
  <2>7. SocketTypeOK'
    BY <1>2, <2>2, <2>6 DEF SocketInv, SocketTypeOK
  <2>8. ConnectionsHoldTurns' /\ OneConnectionStands'
    BY <1>5, <1>2, <2>3, <2>4, OneMovesWell
  <2>9. TalkIsInTurn'
    <3> SUFFICES ASSUME inTurn, socketDown = "open" PROVE TalkIsInTurn'
      BY <1>2 DEF TalkIsInTurn
    <3>1. CASE terminal \/ c # active
      BY <1>2, <2>2, <2>3, <2>4, <3>1, OthersSayNothing
    <3>2. CASE ~terminal /\ c = active
      <4>1. Len(conns[c].owes) > 0
        BY <1>2, <1>4
      <4>2. ~Idle(conns[c])
        BY <4>1 DEF Idle
      <4>3. OwesIt(conns[c])
        BY <1>2, <4>2, ItWasSent DEF IsSent
      <4>4. QED
        BY <1>1, <1>2, <1>8, <2>5, <3>2, <4>3 DEF OwesIt, Accepts, Warming
    <3>3. QED
      BY <3>1, <3>2
  <2>10. QED
    BY <1>3, <2>7, <2>8, <2>9 DEF SocketInv, SocketAssumption
<1>9. QED
  BY <1>7, <1>8

LEMMA CallerGoneKeeps ==
  ASSUME SocketInv, CallerGone
  PROVE  SocketInv'
<1>1. PICK rest : rest = LetGo(active)
  OBVIOUS
<1>2. /\ socketDown' = "gone" /\ terminal' = TRUE /\ active' = 0 /\ conns' = rest
      /\ UNCHANGED <<queue, work, stage, transcript, replay, compacted, turnsAsked, told,
                     lost, inTurn, lastNamed, talk>>
  BY <1>1 DEF CallerGone
<1>3. /\ conns' \in Seq(Conns) /\ Len(conns') = Len(conns) /\ Len(conns) \in Nat
      /\ \A d \in 1..Len(conns) :
            WasAsked(rest[d], turnsAsked) /\ rest[d].up \in {"closing", "closed"}
  BY <1>1, <1>2, NoneStands, SocketFacts
<1>4. SocketTypeOK' /\ LaneHoldsTurns'
  BY <1>2, <1>3 DEF SocketInv, SocketTypeOK, LaneHoldsTurns
<1>5. ConnectionsHoldTurns'
  BY <1>2, <1>3 DEF ConnectionsHoldTurns, WasAsked
<1>6. OneConnectionStands'
  BY <1>2, <1>3 DEF OneConnectionStands
<1>7. TalkIsInTurn'
  BY <1>2 DEF TalkIsInTurn
<1>8. QED
  BY <1>4, <1>5, <1>6, <1>7 DEF SocketInv, SocketAssumption

LEMMA SocketStands == SocketInv /\ UNCHANGED socketVars => SocketInv'
<1> SUFFICES ASSUME SocketInv, UNCHANGED socketVars PROVE SocketInv'
  OBVIOUS
<1>1. UNCHANGED <<socketDown, terminal, queue, work, stage, conns, active, transcript,
                  replay, compacted, turnsAsked, told, lost, inTurn, lastNamed, talk>>
  BY DEF socketVars
<1>2. SocketTypeOK' /\ LaneHoldsTurns'
  BY <1>1 DEF SocketInv, SocketTypeOK, LaneHoldsTurns
<1>3. ConnectionsHoldTurns' /\ OneConnectionStands' /\ (NothingIsOwed' <=> NothingIsOwed)
  BY <1>1, SocketFacts, ConnectionsStay
<1>4. TalkIsInTurn'
  <2>1. (BetweenTurns' <=> BetweenTurns) /\ (OneIsOut' <=> OneIsOut) /\ Out' = Out
    BY <1>1, <1>3 DEF BetweenTurns, Agree, OneIsOut, Out
  <2>2. IsSent => IsSent'
    BY <1>1, <2>1 DEF IsSent, OwesIt, Carries, GoesOn, Says, Item
  <2>3. QED
    BY <1>1, <2>1, <2>2 DEF SocketInv, TalkIsInTurn, NobodyAsks, InLine, InHand
<1>5. QED
  BY <1>2, <1>3, <1>4 DEF SocketInv, SocketAssumption

-----------------------------------------------------------------------------
LEMMA SocketSteps == SocketInv /\ [SocketNext]_socketVars => SocketInv'
<1> SUFFICES ASSUME SocketInv, SocketNext \/ UNCHANGED socketVars PROVE SocketInv'
  OBVIOUS
<1>1. ASSUME NEW key \in Keys, NEW way \in TurnWays, AskTurn(key, way) PROVE SocketInv'
  BY <1>1, AskTurnKeeps
<1>2. CASE Lane
  BY <1>2, BeginKeeps, RefuseTurnKeeps, RefuseToCompactKeeps, CompactKeeps, CompactedKeeps,
     ConnectKeeps DEF Lane
<1>3. ASSUME NEW c \in DOMAIN conns, Handshake(c) \/ Upstream(c) PROVE SocketInv'
  <2>1. c \in 1..Len(conns)
    BY SocketFacts
  <2>2. CASE Handshake(c)
    BY <2>1, <2>2, OpenKeeps, FailKeeps, RefusedKeeps DEF Handshake
  <2>3. CASE Upstream(c)
    BY <2>1, <2>3, HandshakeErrorKeeps, WarmedUpKeeps, CompleteKeeps, UpstreamErrorKeeps,
       UpstreamCloseKeeps DEF Upstream
  <2>4. QED
    BY <1>3, <2>2, <2>3
<1>4. CASE CallerGone
  BY <1>4, CallerGoneKeeps
<1>5. CASE UNCHANGED socketVars
  BY <1>5, SocketStands
<1>6. QED
  BY <1>1, <1>2, <1>3, <1>4, <1>5 DEF SocketNext

(* A caller that waits has its transcript told, and what is asked to compact  *)
(* it finds the whole of it.                                               *)
LEMMA TalkIsTheTranscript == SocketInv => TheTranscriptIsTheTalk
<1> SUFFICES ASSUME SocketInv, inTurn, socketDown = "open", AtRest \/ stage = "compacting"
             PROVE  transcript = talk
  BY DEF TheTranscriptIsTheTalk
<1>1. NobodyAsks \/ InLine \/ InHand \/ IsSent
  BY DEF SocketInv, TalkIsInTurn
<1>2. NobodyAsks \/ InLine \/ InHand => transcript = talk
  BY DEF NobodyAsks, InLine, InHand, BetweenTurns, Agree
<1>3. IsSent => FALSE
  <2>1. IsSent => Out # {} /\ (work = None \/ stage = "readying")
    BY DEF IsSent, OneIsOut
  <2>2. stage = "compacting" => work # None
    BY DEF SocketInv, LaneHoldsTurns
  <2>3. QED
    BY <2>1, <2>2 DEF AtRest
<1>4. QED
  BY <1>1, <1>2, <1>3

(* However a caller's turns are taken, refused, warmed up, compacted, sent    *)
(* over one connection or another or dropped with one, a caller that waits    *)
(* for each answer is compacted from the conversation it heard, and one       *)
(* connection stands at most (xai-websocket-proxy.ts,                        *)
(* xai-websocket-transcript.ts).                                           *)
THEOREM TalksAreKeptWhole == SocketAssumption /\ SocketSpec => []SocketsCarryOneTalk
<1>1. SocketAssumption /\ SocketInit => SocketInv
  BY SocketStarts
<1>2. SocketInv /\ [SocketNext]_socketVars => SocketInv'
  BY SocketSteps
<1>3. SocketInv => SocketsCarryOneTalk
  BY TalkIsTheTranscript DEF SocketInv, SocketsCarryOneTalk
<1>4. QED
  BY <1>1, <1>2, <1>3, PTL DEF SocketSpec

=============================================================================
