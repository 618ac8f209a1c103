----------------------------- MODULE TurnTraffic ----------------------------
(***************************************************************************)
(* What serving one request leaves behind: the words that paint the cables *)
(* of the canvas (gateway-traffic-watch.ts) and the rows of the log        *)
(* (gateway-traffic.ts, provider/telemetry-feed.ts,                        *)
(* provider/provider-observability.ts), told by the walk that tries one    *)
(* child after another (gateway-proxy.ts) while its client may leave, and  *)
(* the desk of the main process that folds the words of every turn         *)
(* (traffic-ledger.ts) while its gateway stops, starts and dies.           *)
(***************************************************************************)
EXTENDS Naturals, Sequences, FiniteSets, SequencesExt

CONSTANTS
    Turns,       \* the requests served
    Nodes,       \* the children of the route table they walk
    Unbound,     \* the children whose account left the registry
    Subscribed,  \* the children that spend a plan rather than a key
    Throws,      \* whether an attempt may throw rather than read as an outcome
    MaxStops,    \* bound: times the gateway stops
    MaxDeaths    \* bound: deaths of the engine child

None == "none"

TrafficAssumption ==
    /\ None \notin Nodes
    /\ Unbound \subseteq Nodes
    /\ Subscribed \subseteq Nodes
    /\ Throws \in BOOLEAN
    /\ MaxStops \in Nat
    /\ MaxDeaths \in Nat

VARIABLES
    (* one serving turn, in the engine child *)
    stage,       \* [turn]: how far it is
    asked,       \* [turn]: the children a grant was asked for, in order
    tried,       \* [turn]: the child tried last
    notes,       \* [turn][child]: what the walk noted of it
    attempts,    \* [turn][child]: the attempt the log lists it as
    owedRows,    \* [turn]: the children the gateway itself wrote a row for
    raised,      \* [turn]: whether the gateway wrote a row for the whole turn
    given,       \* [turn]: the child whose answer the caller is handed, or none
    dropped,     \* [turn]: the children whose answer is being closed unread
    answer,      \* [turn]: whether the answer handed on serves or fails
    aborted,     \* [turn]: whether its client left
    interrupted, \* [turn]: whether the watch heard that
    words,       \* [turn][child]: how often its cable was settled
    (* the desk, and the lane to it *)
    serving,     \* whether the child's listeners are open
    up,          \* what the child said and the host has not heard
    cables,      \* [child]: the last word the desk holds
    inactive,    \* whether the desk holds the gateway as stopped
    child,       \* "up", or "dead" until its exit is heard
    stops,
    deaths

walk == <<stage, asked, tried, notes, given, dropped, answer>>
log == <<attempts, owedRows, raised>>
client == <<aborted, interrupted>>
desk == <<cables, inactive, child, stops, deaths>>
vars == <<walk, log, client, words, serving, up, desk>>

Stages == {"unsent", "choosing", "asking", "sending", "quoting", "handed", "over", "thrown"}
Going == {"choosing", "asking", "sending", "quoting", "handed"}
NoteKinds == {None, "refused", "unanswered"}
(* An attempt that opened tells nobody; one that was answered leaves a row *)
(* that reads in flight until its body was measured or its client left.    *)
Attempts == {None, "open", "in-flight", "measured", "cut"}
Words == {"live", "served", "failed"}

Word(t, n, word) == [turn |-> t, node |-> n, word |-> word]
Stopped == [turn |-> None, node |-> None, word |-> "stopped"]

-----------------------------------------------------------------------------
(* The watch of one turn.                                                  *)

Listed(attempt) == attempt \in {"in-flight", "measured", "cut"}

RowPublished(t) == \E n \in Nodes : Listed(attempts[t][n])

Settled(counts, t, nodes) ==
    [counts EXCEPT ![t] = [n \in Nodes |-> @[n] + IF n \in nodes THEN 1 ELSE 0]]

(* watchForDisconnect on a turn whose client already left says so at once. *)
FlowOpens(t, n) ==
    IF asked[t] # <<>> THEN UNCHANGED <<up, interrupted, words>>
    ELSE /\ up' = up \o IF aborted[t] THEN <<Word(t, n, "live"), Word(t, n, "failed")>>
                                       ELSE <<Word(t, n, "live")>>
         /\ interrupted' = [interrupted EXCEPT ![t] = aborted[t]]
         /\ words' = IF aborted[t] THEN Settled(words, t, {n}) ELSE words

(* abortServingTurn: every observer of the turn hears its client leave, the *)
(* watch through the first child it asked for and each attempt not         *)
(* measured yet.                                                           *)
Abort(t) ==
    /\ stage[t] \in Going
    /\ ~aborted[t]
    /\ aborted' = [aborted EXCEPT ![t] = TRUE]
    /\ attempts' = [attempts EXCEPT ![t] =
                       [n \in Nodes |-> IF @[n] \in {"open", "in-flight"} THEN "cut" ELSE @[n]]]
    /\ IF asked[t] = <<>> THEN UNCHANGED <<up, interrupted, words>>
       ELSE /\ up' = Append(up, Word(t, Head(asked[t]), "failed"))
            /\ interrupted' = [interrupted EXCEPT ![t] = TRUE]
            /\ words' = Settled(words, t, {Head(asked[t])})
    /\ UNCHANGED <<walk, owedRows, raised, serving, desk>>

-----------------------------------------------------------------------------
(* The walk.                                                               *)

Arrive(t) ==
    /\ stage[t] = "unsent"
    /\ serving
    /\ stage' = [stage EXCEPT ![t] = "choosing"]
    /\ UNCHANGED <<asked, tried, notes, given, dropped, answer, log, client, words, serving, up, desk>>

(* The answer the last refusal left, until a later try replaces it.        *)
Answerable(t) == {n \in Nodes : notes[t][n] = "refused"} \ dropped[t]

(* closeUnanswered: the answer this try replaces is read and let go.       *)
Noted(t, n, kind) ==
    /\ notes' = [notes EXCEPT ![t][n] = kind]
    /\ tried' = [tried EXCEPT ![t] = n]
    /\ dropped' = [dropped EXCEPT ![t] = @ \cup Answerable(t)]
    /\ stage' = [stage EXCEPT ![t] = "choosing"]

(* readingAtNode of a child the table stands unbound asks for no grant.    *)
TryUnbound(t, n) ==
    /\ stage[t] = "choosing"
    /\ n \in Unbound
    /\ notes[t][n] = None
    /\ Noted(t, n, "unanswered")
    /\ UNCHANGED <<asked, given, answer, log, client, words, serving, up, desk>>

(* watchedGrants: asking for a grant opens the flow of the turn's first    *)
(* child.                                                                  *)
AskGrant(t, n) ==
    /\ stage[t] = "choosing"
    /\ n \notin Unbound
    /\ notes[t][n] = None
    /\ stage' = [stage EXCEPT ![t] = "asking"]
    /\ asked' = [asked EXCEPT ![t] = Append(@, n)]
    /\ FlowOpens(t, n)
    /\ UNCHANGED <<tried, notes, given, dropped, answer, log, aborted, serving, desk>>

Spending(t) == Last(asked[t])

GrantMissing(t) ==
    /\ stage[t] = "asking"
    /\ Noted(t, Spending(t), "unanswered")
    /\ UNCHANGED <<asked, given, answer, log, client, words, serving, up, desk>>

(* attemptFor: an attempt opened for a client that already left is listed  *)
(* as cut at once.                                                         *)
GrantResolved(t) ==
    /\ stage[t] = "asking"
    /\ stage' = [stage EXCEPT ![t] = "sending"]
    /\ attempts' = [attempts EXCEPT ![t][Spending(t)] = IF aborted[t] THEN "cut" ELSE "open"]
    /\ UNCHANGED <<asked, tried, notes, given, dropped, answer, owedRows, raised, client, words,
                   serving, up, desk>>

(* AttemptInFlight.answered: a cut attempt stays as it was listed.         *)
Answers(t, n, listed) ==
    attempts' = [attempts EXCEPT ![t][n] = IF @ = "cut" THEN "cut" ELSE listed]

(* A send that threw: a plan's send settles its span, a key's leaves it.   *)
Unreached(t) ==
    /\ stage[t] = "sending"
    /\ Answers(t, Spending(t), IF Spending(t) \in Subscribed THEN "measured" ELSE "open")
    /\ Noted(t, Spending(t), "unanswered")
    /\ UNCHANGED <<asked, given, answer, owedRows, raised, client, words, serving, up, desk>>

(* upstreamAtTheCommitLatch: a body that died before a byte was owed.      *)
DiedBeforeCommit(t) ==
    /\ stage[t] = "sending"
    /\ Answers(t, Spending(t), "measured")
    /\ Noted(t, Spending(t), "unanswered")
    /\ UNCHANGED <<asked, given, answer, owedRows, raised, client, words, serving, up, desk>>

Refused(t) ==
    /\ stage[t] = "sending"
    /\ Answers(t, Spending(t), "in-flight")
    /\ Noted(t, Spending(t), "refused")
    /\ UNCHANGED <<asked, given, answer, owedRows, raised, client, words, serving, up, desk>>

(* An attempt the walk cannot read as an outcome ends the turn; its client *)
(* is answered by the server's own error.                                  *)
AttemptThrows(t) ==
    /\ Throws
    /\ stage[t] = "sending"
    /\ stage' = [stage EXCEPT ![t] = "thrown"]
    /\ \E listed \in {"open", "in-flight"} : Answers(t, Spending(t), listed)
    /\ UNCHANGED <<asked, tried, notes, given, dropped, answer, owedRows, raised, client, words,
                   serving, up, desk>>

(* notesOwedACable: every child the walk noted but the last it tried.      *)
OwedACable(t, last) == {n \in Nodes : notes[t][n] # None /\ n # last}

(* watchedAttempts names the note's place by the last grant, so a turn that *)
(* asked for none paints nothing.                                          *)
PaintedByTheWalk(t, owed) == IF asked[t] = <<>> THEN {} ELSE owed

(* A set of children, one after the other in any order.                    *)
OneByOne(nodes) ==
    UNION {{line \in [1..k -> nodes] : nodes = {line[m] : m \in 1..k}} : k \in 0..Cardinality(nodes)}

DroppedFor(t, from) == Answerable(t) \ {from}

(* walkedAnswer, once the walk settled: the cables and the rows of the     *)
(* children it left behind, and the child whose answer the caller is given. *)
WalkSettles(t, last, from, outcome) ==
    LET owed == OwedACable(t, last)
    IN  /\ \E painted \in OneByOne(PaintedByTheWalk(t, owed)) :
             up' = up \o [m \in DOMAIN painted |-> Word(t, painted[m], "failed")]
        /\ words' = Settled(words, t, PaintedByTheWalk(t, owed))
        /\ owedRows' = [owedRows EXCEPT ![t] = {n \in owed : notes[t][n] = "unanswered"}]
        /\ tried' = [tried EXCEPT ![t] = last]
        /\ given' = [given EXCEPT ![t] = from]
        /\ dropped' = [dropped EXCEPT ![t] = @ \cup DroppedFor(t, from)]
        /\ answer' = [answer EXCEPT ![t] = outcome]
        /\ stage' = [stage EXCEPT ![t] = "quoting"]

(* The answer of a child stands, be it served or a refusal no sibling cures. *)
AnswerStands(t, outcome) ==
    /\ stage[t] = "sending"
    /\ Answers(t, Spending(t), "in-flight")
    /\ WalkSettles(t, Spending(t), Spending(t), outcome)
    /\ UNCHANGED <<asked, notes, raised, client, serving, desk>>

(* exhaustedAnswer: a ladder is refused in the gateway's own words, and a  *)
(* lone target in its provider's.                                          *)
NobodyServes(t) ==
    /\ stage[t] = "choosing"
    /\ LET lone == Cardinality(Nodes) = 1 /\ tried[t] \in Answerable(t)
       IN  WalkSettles(t, tried[t], IF lone THEN tried[t] ELSE None, "failed")
    /\ UNCHANGED <<asked, notes, attempts, raised, client, serving, desk>>

(* readWhyItFailed: a dropped answer is read as far as its row needs.      *)
DroppedIsRead(t, n) ==
    /\ n \in dropped[t]
    /\ attempts[t][n] = "in-flight"
    /\ attempts' = [attempts EXCEPT ![t][n] = "measured"]
    /\ UNCHANGED <<walk, owedRows, raised, client, words, serving, up, desk>>

-----------------------------------------------------------------------------
(* The end of a turn.                                                      *)

(* outcomeOf reads the quote of a failed answer before it is handed on.    *)
QuoteRead(t) ==
    /\ stage[t] = "quoting"
    /\ stage' = [stage EXCEPT ![t] = "handed"]
    /\ UNCHANGED <<asked, tried, notes, given, dropped, answer, log, client, words, serving, up, desk>>

(* noteRaisedFailure: where no attempt was listed for a turn that failed.  *)
RaisesItsFailure(t) == answer[t] = "failed" /\ ~RowPublished(t)

(* The child the answer is attributed to: the last a grant was asked for.  *)
Carried(t) == {n \in Nodes : asked[t] # <<>> /\ n = Last(asked[t])}

(* settleTheTurn, when the body ended, broke or was cancelled.             *)
BodyEnds(t) ==
    /\ stage[t] = "handed"
    /\ stage' = [stage EXCEPT ![t] = "over"]
    /\ attempts' = [attempts EXCEPT ![t] =
                       [n \in Nodes |-> IF n = given[t] /\ @[n] = "in-flight" THEN "measured" ELSE @[n]]]
    /\ IF interrupted[t] THEN UNCHANGED <<raised, words, up>>
       ELSE /\ raised' = [raised EXCEPT ![t] = RaisesItsFailure(t)]
            /\ words' = Settled(words, t, Carried(t))
            /\ up' = IF asked[t] = <<>> THEN up ELSE Append(up, Word(t, Last(asked[t]), answer[t]))
    /\ UNCHANGED <<asked, tried, notes, given, dropped, answer, owedRows, client, serving, desk>>

-----------------------------------------------------------------------------
(* The desk.                                                               *)

(* openTrafficDesk.hears: no word of a stopped gateway is recorded.        *)
HearWord ==
    /\ up # <<>>
    /\ child = "up"
    /\ Head(up) # Stopped
    /\ cables' = IF inactive THEN cables
                 ELSE [cables EXCEPT ![Head(up).node] = Head(up).word]
    /\ up' = Tail(up)
    /\ UNCHANGED <<walk, log, client, words, serving, inactive, child, stops, deaths>>

(* Mutant: a gateway that stopped keeps what its cables said. *)
KeepsLive == cables

(* withLiveOutcomesFailed.                                                 *)
LiveFailed == [n \in Nodes |-> IF cables[n] = "live" THEN "failed" ELSE cables[n]]

Interrupt ==
    /\ cables' = LiveFailed
    /\ inactive' = TRUE

(* haltFor: the listeners close, and their connections with them; the turns *)
(* they carried run on until they find out.                                *)
StopServing ==
    /\ serving
    /\ child = "up"
    /\ stops < MaxStops
    /\ stops' = stops + 1
    /\ serving' = FALSE
    /\ up' = Append(up, Stopped)
    /\ UNCHANGED <<walk, log, client, words, cables, inactive, child, deaths>>

(* answerState: a stop heard in time interrupts the desk, and one its      *)
(* directive gave up on interrupts nothing.                                *)
HearStopped ==
    /\ up # <<>>
    /\ child = "up"
    /\ Head(up) = Stopped
    /\ up' = Tail(up)
    /\ Interrupt \/ UNCHANGED <<cables, inactive>>
    /\ UNCHANGED <<walk, log, client, words, serving, child, stops, deaths>>

(* desksServing as the host sends a start: late words count again.         *)
StartServing ==
    /\ ~serving
    /\ child = "up"
    /\ Stopped \notin {up[m] : m \in DOMAIN up}
    /\ serving' = TRUE
    /\ inactive' = FALSE
    /\ UNCHANGED <<walk, log, client, words, up, cables, child, stops, deaths>>

(* The child dies with its turns; what it said last may still be heard.    *)
Die ==
    /\ child = "up"
    /\ deaths < MaxDeaths
    /\ deaths' = deaths + 1
    /\ child' = "dead"
    /\ serving' = FALSE
    /\ stage' = [t \in Turns |-> IF stage[t] = "unsent" THEN "unsent" ELSE "over"]
    /\ up' = <<>>
    /\ \E heard \in 0..Len(up) :
          cables' = IF inactive THEN cables
                    ELSE [n \in Nodes |->
                             LET last == {m \in 1..heard : /\ up[m].node = n
                                                           /\ \A k \in m+1..heard : up[k].node # n}
                             IN  IF last = {} THEN cables[n] ELSE up[CHOOSE m \in last : TRUE].word]
    /\ UNCHANGED <<asked, tried, notes, given, dropped, answer, log, client, words, inactive, stops>>

(* receiveExit: every desk is interrupted, and the next start spawns.      *)
HearExit ==
    /\ child = "dead"
    /\ child' = "up"
    /\ Interrupt
    /\ UNCHANGED <<walk, log, client, words, serving, up, stops, deaths>>

-----------------------------------------------------------------------------
Init ==
    /\ stage = [t \in Turns |-> "unsent"]
    /\ asked = [t \in Turns |-> <<>>]
    /\ tried = [t \in Turns |-> None]
    /\ notes = [t \in Turns |-> [n \in Nodes |-> None]]
    /\ attempts = [t \in Turns |-> [n \in Nodes |-> None]]
    /\ owedRows = [t \in Turns |-> {}]
    /\ raised = [t \in Turns |-> FALSE]
    /\ given = [t \in Turns |-> None]
    /\ dropped = [t \in Turns |-> {}]
    /\ answer = [t \in Turns |-> None]
    /\ aborted = [t \in Turns |-> FALSE]
    /\ interrupted = [t \in Turns |-> FALSE]
    /\ words = [t \in Turns |-> [n \in Nodes |-> 0]]
    /\ serving = TRUE
    /\ up = <<>>
    /\ cables = [n \in Nodes |-> None]
    /\ inactive = FALSE
    /\ child = "up"
    /\ stops = 0
    /\ deaths = 0

TurnSteps(t) ==
    \/ Arrive(t) \/ Abort(t)
    \/ \E n \in Nodes : TryUnbound(t, n) \/ AskGrant(t, n) \/ DroppedIsRead(t, n)
    \/ GrantMissing(t) \/ GrantResolved(t)
    \/ Unreached(t) \/ DiedBeforeCommit(t) \/ Refused(t) \/ AttemptThrows(t)
    \/ \E outcome \in {"served", "failed"} : AnswerStands(t, outcome)
    \/ NobodyServes(t) \/ QuoteRead(t) \/ BodyEnds(t)

DeskSteps == HearWord \/ HearStopped \/ StartServing

Next ==
    \/ child = "up" /\ \E t \in Turns : TurnSteps(t)
    \/ DeskSteps \/ StopServing \/ Die \/ HearExit

Spec == Init /\ [][Next]_vars

-----------------------------------------------------------------------------
(* Properties.                                                             *)

(* Every variable keeps its type.                                          *)
TrafficTypeOK ==
    /\ stage \in [Turns -> Stages]
    /\ asked \in [Turns -> Seq(Nodes)]
    /\ tried \in [Turns -> Nodes \cup {None}]
    /\ notes \in [Turns -> [Nodes -> NoteKinds]]
    /\ attempts \in [Turns -> [Nodes -> Attempts]]
    /\ owedRows \in [Turns -> SUBSET Nodes]
    /\ raised \in [Turns -> BOOLEAN]
    /\ given \in [Turns -> Nodes \cup {None}]
    /\ dropped \in [Turns -> SUBSET Nodes]
    /\ answer \in [Turns -> {None, "served", "failed"}]
    /\ aborted \in [Turns -> BOOLEAN]
    /\ interrupted \in [Turns -> BOOLEAN]
    /\ words \in [Turns -> [Nodes -> Nat]]
    /\ serving \in BOOLEAN
    /\ up \in Seq([turn : Turns \cup {None}, node : Nodes \cup {None}, word : Words \cup {"stopped"}])
    /\ cables \in [Nodes -> Words \cup {None}]
    /\ inactive \in BOOLEAN
    /\ child \in {"up", "dead"}
    /\ stops \in 0..MaxStops
    /\ deaths \in 0..MaxDeaths

Opened(t, n) == asked[t] # <<>> /\ Head(asked[t]) = n

(* No cable pulses for a request nobody carries any more: where the desk   *)
(* reads live, a turn that opened its flow there is still going, or the    *)
(* word that settles it is on its way, whatever stopped or died between    *)
(* (gateway-traffic-watch.ts:87-105, traffic-ledger.ts:127-147).           *)
LiveMeansInFlight ==
    child = "up" =>
        \A n \in Nodes : cables[n] = "live" =>
            \/ \E t \in Turns : Opened(t, n) /\ stage[t] \in Going /\ ~interrupted[t]
            \/ \E m \in DOMAIN up : up[m].node = n /\ up[m].word # "live"

(* No row reads in flight forever: once a turn is over and the answers it  *)
(* dropped were read, each of its rows was measured or cut                 *)
(* (gateway-proxy.ts:178-190, provider-observability.ts:116-124).          *)
NoRowStaysOpen ==
    child = "up" /\ deaths = 0 =>
        \A t \in Turns : stage[t] \in {"over", "thrown"} =>
            \A n \in Nodes : attempts[t][n] = "in-flight" => n \in dropped[t]

(* A turn nobody left paints each of its cables once: the child that       *)
(* carried the answer and the children it left behind never overlap        *)
(* (gateway-proxy.ts:109-122).                                             *)
CablesArePaintedOnce ==
    \A t \in Turns : ~aborted[t] => \A n \in Nodes : words[t][n] <= 1

(* A turn that failed leaves a person at least one row to read, and never  *)
(* one of its own beside the row of a child that was reached.              *)
FailuresLeaveARow ==
    \A t \in Turns :
        /\ stage[t] = "over" /\ answer[t] = "failed" /\ ~interrupted[t] /\ deaths = 0
               => raised[t] \/ RowPublished(t)
        /\ ~(raised[t] /\ RowPublished(t))

(* What a turn leaves behind adds up: a failed turn left a row; where no    *)
(* attempt throws, what reads live or in flight is; and where every account *)
(* stands in the registry, a cable is painted once. Without either the code *)
(* departs from it (README, Departures).                                   *)
TurnsAreTold ==
    /\ TrafficTypeOK /\ FailuresLeaveARow
    /\ ~Throws => LiveMeansInFlight /\ NoRowStaysOpen
    /\ Unbound = {} => CablesArePaintedOnce

(* The errors a footer counts and a cable that reads red never disagree:   *)
(* a child painted red at the end of its turn stands in the log, by its own *)
(* row or by the turn's (gateway-traffic.ts:275-282).                      *)
(* The code departs from this (README, Departures).                        *)
RedCablesHaveRows ==
    \A t \in Turns :
        stage[t] = "over" /\ answer[t] = "failed" /\ ~aborted[t] /\ deaths = 0 =>
            \A n \in Carried(t) : Listed(attempts[t][n]) \/ n \in owedRows[t] \/ raised[t]

(* A child nothing answered for reached no provider at all, so the row the *)
(* gateway raises for it is the only one its try is counted by             *)
(* (gateway-walk-notes.ts:139-148).                                        *)
(* The code departs from this (README, Departures).                        *)
TriesAreCountedOnce ==
    \A t \in Turns : ~aborted[t] => \A n \in owedRows[t] : ~Listed(attempts[t][n])
=============================================================================
