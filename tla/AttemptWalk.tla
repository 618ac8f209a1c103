---------------------------- MODULE AttemptWalk ----------------------------
(***************************************************************************)
(* The walks that concurrent requests take across one route table, over    *)
(* the memory they share: packages/engine/src/routing/attempt-walk.ts,     *)
(* walk-descent.ts, judge-decision.ts, outcome-classification.ts,          *)
(* cooldown-ledger.ts and rotation-cursors.ts, with the two pin stores of  *)
(* gateway-routing-memory.ts.                                              *)
(*                                                                         *)
(* A walk is a chain of promise continuations.  An action is the code      *)
(* between two awaits.  The awaits of a judge and of an attempt wait on    *)
(* the network; every other one only yields to the microtask queue.  With  *)
(* OneDrain the queue holds one walk's continuations at a time, so a walk  *)
(* runs from one network wait to the next; without it any two walks        *)
(* interleave at every await.                                              *)
(***************************************************************************)
EXTENDS RouteTable

CONSTANTS
    Walks,          \* the requests; each walks once
    Conversations,  \* the marks they are recognized by
    Apart,          \* the marks that tell one conversation from the next
    Memory,         \* the ledger the gateway keeps
    AttemptLimit,   \* ATTEMPT_LIMIT
    Signals,        \* the cooling signals a provider's refusal carries
    OneDrain        \* whether a microtask drain carries one walk only

(* A Retry-After promises, a rate limit reset only times, and the instant  *)
(* either names may have passed already.                                   *)
CoolingSignals == {"none", "promise", "promise-past", "reset", "reset-past"}

ASSUME WalkAssumption ==
    /\ Memory \notin Walks
    /\ None \notin Walks
    /\ AttemptLimit \in Nat \ {0}
    /\ Signals \subseteq CoolingSignals
    /\ OneDrain \in BOOLEAN
    /\ Apart \subseteq Conversations

VARIABLES
    (* the gateway's RoutingMemory, shared by every walk *)
    ledger,         \* [ledger][node]: "ready", or standing down on a guess or on a promise
    cursors,        \* [router]: the turn handed on last
    pins,           \* [conversation][router]: the branch a judge named
    rotationPins,   \* [conversation][router]: the child a spread conversation keeps
    drain,          \* the walk whose continuations the event loop is draining
    (* one walk's Walking and Descending *)
    pc,             \* where the walk stands
    request,        \* what the request brought: its conversation and its seal
    at,             \* the route node the descent stands at
    path,           \* the nodes this descent passed
    turns,          \* the turns this descent took
    branch,         \* the choice the conditional router at `at' follows
    offered,        \* the child the router at `at' offered
    attempted,      \* walking.attempted: how each node's failed attempt noted its retry
    decided,        \* walking.judging.decided
    spent,          \* walking.spent
    asks,           \* which ask of the judge is out, 1 or 2
    verdict,        \* what the walk came to
    (* history, read by the properties only *)
    tries,          \* the children the walk attempted, in order
    judgeCalls,     \* [walk][router]: judge calls made
    landed,         \* the turns whose descent carried the request to a child
    spread,         \* [conversation][router]: children handed to unsealed turns
    sawCooling,     \* nodes that stood cooling at some instant of the walk
    sawReady        \* routers whose judge stood ready at some instant of the walk

memoryVars == <<ledger, cursors, pins, rotationPins>>
descentVars == <<at, path, turns, branch, offered>>
learnedVars == <<attempted, decided, spent, asks>>
historyVars == <<tries, judgeCalls, landed, spread, sawCooling, sawReady>>
vars == <<memoryVars, drain, pc, request, descentVars, learnedVars, verdict, historyVars>>

Standings == {"ready", "guess", "promise"}
Notes == {"untried", "promised", "unpromised"}
Undecided == [decided |-> None, elseChild |-> None, judged |-> FALSE]
Choices == [decided : Nodes \cup {None}, elseChild : Nodes \cup {None}, judged : BOOLEAN]
Requests == [conversation : Conversations, resumes : BOOLEAN]
NoRequest == [conversation |-> None, resumes |-> FALSE]
Outcomes == {"none", "answered", "empty-router", "chained-turn", "unjudged", "exhausted", "threw"}
Verdicts == [outcome : Outcomes, routeNode : Nodes \cup {None}, wait : BOOLEAN]
Points == {"idle", "loop", "descend", "judging", "called", "pick", "offered", "unjudged",
           "attempting", "done"}
Draining == {"loop", "descend", "pick", "offered", "unjudged"}
Ledgers == Walks \cup {Memory}

-----------------------------------------------------------------------------
(* Readings of the state.                                                  *)

(* ledgerTheTableUses: a table with no sibling to steer to forgets its     *)
(* cooling with the request.                                               *)
LedgerOf(w) == IF HoldsASibling THEN Memory ELSE w

Cooling(l, n) == ledger[l][n] # "ready"

(* Mutant: the walk trusts the ledger alone.                               *)
CanAttemptWheneverReady(w, n) == ~Cooling(LedgerOf(w), n)

CanAttempt(w, n) == attempted[w][n] = "untried" /\ ~Cooling(LedgerOf(w), n)

SubtreeCanServe(w, n) == \E t \in TargetsPast(n, path[w] \cup spent[w]) : CanAttempt(w, t)

Serving(w) == {c \in ChildrenOf(at[w]) : SubtreeCanServe(w, c)}

(* Mutant: only the entry is asked whether it spreads.                     *)
WouldRotateAtTheEntry(w) ==
    request[w].resumes /\ Mode(at[w]) = "round-robin" /\ at[w] = Entry

WouldRotate(w) == request[w].resumes /\ Mode(at[w]) = "round-robin"

(* NO_CHILD_KEPT stands in for a conversation nothing tells apart.         *)
PinnedChildAt(w, r) ==
    IF request[w].conversation \in Apart
    THEN rotationPins[request[w].conversation][r]
    ELSE None

AttemptedSize(w) == Cardinality({n \in Nodes : attempted[w][n] # "untried"})

(* Mutant: the shared ledger speaks for a child this walk tried itself.    *)
PromisesRetryByTheLedger(w, n) == ledger[LedgerOf(w)][n] = "promise"

(* retryTimeEveryTriedChildPromised over the notes: a child's own failed   *)
(* attempt speaks before the ledger does.                                  *)
PromisesRetry(w, n) ==
    IF attempted[w][n] = "untried"
    THEN ledger[LedgerOf(w)][n] = "promise"
    ELSE attempted[w][n] = "promised"

TriedOrCooling(w) == {n \in Targets : attempted[w][n] # "untried" \/ Cooling(LedgerOf(w), n)}

RetryTimeEveryTriedChildPromised(w) ==
    TriedOrCooling(w) # {} /\ \A n \in TriedOrCooling(w) : PromisesRetry(w, n)

MayRun(w) == OneDrain => drain \in {None, w}

-----------------------------------------------------------------------------
(* The shapes the actions share.                                           *)

Goto(w, p) ==
    /\ pc' = [pc EXCEPT ![w] = p]
    /\ drain' = IF OneDrain /\ p \in Draining THEN w ELSE None

(* A descent begins at the entry having passed nothing and taken nothing.  *)
FreshDescent(w) ==
    /\ at' = [at EXCEPT ![w] = None]
    /\ path' = [path EXCEPT ![w] = {}]
    /\ turns' = [turns EXCEPT ![w] = {}]
    /\ branch' = [branch EXCEPT ![w] = Undecided]
    /\ offered' = [offered EXCEPT ![w] = None]

Settles(w, outcome, node, wait) ==
    /\ Goto(w, "done")
    /\ verdict' = [verdict EXCEPT ![w] = [outcome |-> outcome, routeNode |-> node, wait |-> wait]]

(* verdictWhenNoChildServed *)
SettlesWithNoChild(w) ==
    IF Targets = {}
    THEN Settles(w, "empty-router", None, FALSE)
    ELSE Settles(w, "exhausted", None, RetryTimeEveryTriedChildPromised(w))

(* Mutant: a turn is given back whoever moved the rotation since.          *)
CursorsSteppedBack(w) ==
    cursors' = [r \in Nodes |->
        IF \E t \in turns[w] : t.router = r THEN cursors[r] - 1 ELSE cursors[r]]

(* handBack: a turn comes back only while its router still stands where    *)
(* this descent left it.  advanceTo moved the cursor to was + 1.           *)
CursorsHandedBack(w) ==
    cursors' = [r \in Nodes |->
        IF \E t \in turns[w] : t.router = r /\ cursors[r] = t.was + 1
        THEN cursors[r] - 1
        ELSE cursors[r]]

(* Mutant: a descent that ends keeps its turns.                            *)
TurnsKept(w) == UNCHANGED <<cursors, turns>>

TurnsHandedBack(w) ==
    /\ CursorsHandedBack(w)
    /\ turns' = [turns EXCEPT ![w] = {}]

DescendsTo(w, child) ==
    /\ at' = [at EXCEPT ![w] = child]
    /\ path' = [path EXCEPT ![w] = @ \cup {child}]

-----------------------------------------------------------------------------
(* A request reaches walkAttempts.                                         *)
Arrive(w) ==
    /\ pc[w] = "idle"
    /\ MayRun(w)
    /\ \E brought \in Requests : request' = [request EXCEPT ![w] = brought]
    /\ Goto(w, "loop")
    /\ UNCHANGED <<memoryVars, descentVars, learnedVars, verdict, tries, judgeCalls, landed, spread>>

(* The head of the loop in verdictTheWalkSettles.                          *)
BeginDescent(w) ==
    /\ pc[w] = "loop"
    /\ MayRun(w)
    /\ AttemptedSize(w) < AttemptLimit
    /\ at' = [at EXCEPT ![w] = Entry]
    /\ path' = [path EXCEPT ![w] = {Entry}]
    /\ Goto(w, "descend")
    /\ UNCHANGED <<memoryVars, request, turns, branch, offered, learnedVars, verdict,
                   tries, judgeCalls, landed, spread>>

ReachTheLimit(w) ==
    /\ pc[w] = "loop"
    /\ MayRun(w)
    /\ AttemptedSize(w) >= AttemptLimit
    /\ SettlesWithNoChild(w)
    /\ UNCHANGED <<memoryVars, request, descentVars, learnedVars,
                   tries, judgeCalls, landed, spread>>

(* stepAtTarget, where the child can still be attempted: the attempt goes  *)
(* out and the turns the descent took are spent on it.                     *)
StepAtTarget(w) ==
    /\ pc[w] = "descend"
    /\ MayRun(w)
    /\ IsTarget(at[w])
    /\ CanAttempt(w, at[w])
    /\ Goto(w, "attempting")
    /\ tries' = [tries EXCEPT ![w] = Append(@, at[w])]
    /\ landed' = landed \cup
          {[walk |-> w, try |-> Len(tries[w]) + 1, router |-> t.router, was |-> t.was] : t \in turns[w]}
    /\ turns' = [turns EXCEPT ![w] = {}]
    /\ UNCHANGED <<memoryVars, request, at, path, branch, offered, learnedVars, verdict,
                   judgeCalls, spread>>

(* stepAtTarget, where the child stood down since the router offered it:   *)
(* the descent ends nowhere and hands no turn back.                        *)
NowhereAtTarget(w) ==
    /\ pc[w] = "descend"
    /\ MayRun(w)
    /\ IsTarget(at[w])
    /\ ~CanAttempt(w, at[w])
    /\ SettlesWithNoChild(w)
    /\ UNCHANGED <<memoryVars, request, descentVars, learnedVars,
                   tries, judgeCalls, landed, spread>>

(* childTheRotationKeeps: a sealed turn follows the child its conversation *)
(* took at this router.                                                    *)
FollowKeptChild(w) ==
    /\ pc[w] = "descend"
    /\ MayRun(w)
    /\ ~IsTarget(at[w])
    /\ WouldRotate(w)
    /\ LET kept == PinnedChildAt(w, at[w])
       IN  /\ kept # None
           /\ SubtreeCanServe(w, kept)
           /\ DescendsTo(w, kept)
    /\ Goto(w, "descend")
    /\ UNCHANGED <<memoryVars, request, turns, branch, offered, learnedVars, verdict,
                   tries, judgeCalls, landed, spread>>

(* No kept child can serve: the walk refuses at the router rather than     *)
(* reach for a sibling.                                                    *)
RefuseChainedTurn(w) ==
    /\ pc[w] = "descend"
    /\ MayRun(w)
    /\ ~IsTarget(at[w])
    /\ WouldRotate(w)
    /\ LET kept == PinnedChildAt(w, at[w])
       IN  kept # None => ~SubtreeCanServe(w, kept)
    /\ Settles(w, "chained-turn", at[w], FALSE)
    /\ UNCHANGED <<memoryVars, request, descentVars, learnedVars,
                   tries, judgeCalls, landed, spread>>

-----------------------------------------------------------------------------
(* branchTheWalkFollows, up to its first await.                            *)

AtAskableRouter(w) ==
    /\ pc[w] = "descend"
    /\ MayRun(w)
    /\ ~IsTarget(at[w])
    /\ ~WouldRotate(w)

(* Mutant: no walk remembers what it decided.                              *)
UndeterminedAnew(w, r) == Mode(r) = "conditional" /\ Table[r].branches # {}

(* Where a judgment is needed: a conditional router with branches that     *)
(* this walk has not decided yet.                                          *)
Undetermined(w, r) ==
    Mode(r) = "conditional" /\ Table[r].branches # {} /\ decided[w][r] = Undecided

SettledBranch(w, r) ==
    IF Mode(r) = "conditional" /\ Table[r].branches = {}
    THEN [decided |-> Table[r].elseChild, elseChild |-> Table[r].elseChild, judged |-> TRUE]
    ELSE decided[w][r]

AskRouter(w) ==
    /\ AtAskableRouter(w)
    /\ ~Undetermined(w, at[w])
    /\ branch' = [branch EXCEPT ![w] = SettledBranch(w, at[w])]
    /\ Goto(w, "pick")
    /\ UNCHANGED <<memoryVars, request, at, path, turns, offered, learnedVars, verdict,
                   tries, judgeCalls, landed, spread>>

MustDecide(w) == AtAskableRouter(w) /\ Undetermined(w, at[w])

PinnedBranch(w) == IF Table[at[w]].rejudge THEN None ELSE pins[request[w].conversation][at[w]]

(* Mutant: the judge's cooling is read off the walk's own ledger.          *)
JudgeStandsCoolingHere(w) == Cooling(LedgerOf(w), Table[at[w]].judge)

JudgeStandsCooling(w) == Cooling(Memory, Table[at[w]].judge)

UnplacedSealedTurn(w) == request[w].resumes /\ ~Table[at[w]].rejudge

(* Mutant: the else child absorbs a judge in trouble.                      *)
DecidesRegardless(w, child, judged) ==
    LET choice == [decided |-> child, elseChild |-> Table[at[w]].elseChild, judged |-> judged]
    IN  /\ decided' = [decided EXCEPT ![w][at[w]] = choice]
        /\ branch' = [branch EXCEPT ![w] = choice]
        /\ Goto(w, "pick")

Decides(w, child, judged) ==
    LET choice == [decided |-> child, elseChild |-> Table[at[w]].elseChild, judged |-> judged]
    IN  /\ decided' = [decided EXCEPT ![w][at[w]] = choice]
        /\ branch' = [branch EXCEPT ![w] = choice]
        /\ Goto(w, IF judged THEN "pick" ELSE "unjudged")

(* The branch the conversation earned on an earlier turn.                  *)
FollowPinnedBranch(w) ==
    /\ MustDecide(w)
    /\ PinnedBranch(w) # None
    /\ Decides(w, PinnedBranch(w), TRUE)
    /\ UNCHANGED <<memoryVars, request, at, path, turns, offered, attempted, spent, asks, verdict,
                   tries, judgeCalls, landed, spread>>

(* childNoPinNames, the two troubles that spend no judge call.             *)
DeclineToAsk(w) ==
    /\ MustDecide(w)
    /\ PinnedBranch(w) = None
    /\ UnplacedSealedTurn(w) \/ JudgeStandsCooling(w)
    /\ Decides(w, Table[at[w]].elseChild, FALSE)
    /\ UNCHANGED <<memoryVars, request, at, path, turns, offered, attempted, spent, asks, verdict,
                   tries, judgeCalls, landed, spread>>

(* The question is put, and waits for the judge's seat and its grant: the  *)
(* stand-down was read before that wait and is not read again after it.    *)
AskJudge(w) ==
    /\ MustDecide(w)
    /\ PinnedBranch(w) = None
    /\ ~UnplacedSealedTurn(w)
    /\ ~JudgeStandsCooling(w)
    /\ Goto(w, "judging")
    /\ asks' = [asks EXCEPT ![w] = 1]
    /\ UNCHANGED <<memoryVars, request, descentVars, attempted, decided, spent, verdict,
                   tries, judgeCalls, landed, spread>>

Seated(r) == CouldServe(Table[r].judge)

(* The grant came back: the call goes out, whatever others learned of the  *)
(* judge meanwhile.                                                        *)
CallJudge(w) ==
    /\ pc[w] = "judging"
    /\ MayRun(w)
    /\ Seated(at[w])
    /\ Goto(w, "called")
    /\ judgeCalls' = [judgeCalls EXCEPT ![w][at[w]] = @ + 1]
    /\ UNCHANGED <<memoryVars, request, descentVars, learnedVars, verdict, tries, landed, spread>>

(* What a judge can be heard to say.  `names' is the child its label names *)
(* and `cools' how a refusal leaves the judge standing: a reset already    *)
(* past leaves it ready, and so does a seat the table never filled, since  *)
(* no call is made for one.                                                *)
JudgeReadings(r) ==
    IF ~Seated(r)
    THEN {[heard |-> "unseated", names |-> None, cools |-> "ready"]}
    ELSE [heard : {"label"}, names : Table[r].branches, cools : {"ready"}]
         \cup [heard : {"declined", "unworn", "timeout"}, names : {None}, cools : {"ready"}]
         \cup [heard : {"refusal"}, names : {None}, cools : Standings]

(* refusalTheJudgeEarns stands the judge down in the gateway's own ledger. *)
JudgeCooled(r, reading) ==
    ledger' = IF reading.heard = "refusal"
              THEN [ledger EXCEPT ![Memory][Table[r].judge] = reading.cools]
              ELSE ledger

PinnedTo(w, child) == pins' = [pins EXCEPT ![request[w].conversation][at[w]] = child]

(* The awaited answer of childTheJudgeAnswers and childASecondAskEarns:    *)
(* only an answer no branch wears earns the second ask, and only a label   *)
(* earns the conversation a pin.  A second ask waits for its own grant; a  *)
(* seat the table never filled is heard without a call.                    *)
JudgeAnswers(w) ==
    /\ \/ pc[w] = "called"
       \/ pc[w] = "judging" /\ ~Seated(at[w])
    /\ MayRun(w)
    /\ \E reading \in JudgeReadings(at[w]) :
          /\ JudgeCooled(at[w], reading)
          /\ \/ /\ reading.heard = "label"
                /\ Decides(w, reading.names, TRUE)
                /\ PinnedTo(w, reading.names)
                /\ UNCHANGED asks
             \/ /\ \/ reading.heard = "declined"
                   \/ reading.heard = "unworn" /\ asks[w] = 2
                /\ Decides(w, Table[at[w]].elseChild, TRUE)
                /\ UNCHANGED <<pins, asks>>
             \/ /\ reading.heard = "unworn" /\ asks[w] = 1
                /\ asks' = [asks EXCEPT ![w] = 2]
                /\ Goto(w, "judging")
                /\ UNCHANGED <<pins, decided, branch>>
             \/ /\ reading.heard \in {"refusal", "timeout", "unseated"}
                /\ Decides(w, Table[at[w]].elseChild, FALSE)
                /\ UNCHANGED <<pins, asks>>
    /\ UNCHANGED <<cursors, rotationPins, request, at, path, turns, offered, attempted, spent,
                   verdict, tries, judgeCalls, landed, spread>>

(* A router no judgment reached hands its turns back and ends the walk.    *)
RefuseUnjudged(w) ==
    /\ pc[w] = "unjudged"
    /\ MayRun(w)
    /\ TurnsHandedBack(w)
    /\ Settles(w, "unjudged", at[w], FALSE)
    /\ UNCHANGED <<ledger, pins, rotationPins, request, at, path, branch, offered, learnedVars,
                   tries, judgeCalls, landed, spread>>

-----------------------------------------------------------------------------
(* childTheRouterOffers and what askedOfTheRouter makes of it.             *)

Offers(w, c) ==
    CASE Mode(at[w]) = "failover" ->
             NextFailoverChild(Table[at[w]].children, Serving(w), c)
      [] Mode(at[w]) = "round-robin" ->
             NextRoundRobinChild(Table[at[w]].children, Serving(w), cursors[at[w]], c)
      [] OTHER -> NextConditionalChild(branch[w], Serving(w), c)

(* The turn is taken at the pick.                                          *)
OfferChild(w) ==
    /\ pc[w] = "pick"
    /\ MayRun(w)
    /\ \E c \in Serving(w) :
          /\ Offers(w, c)
          /\ offered' = [offered EXCEPT ![w] = c]
    /\ IF Mode(at[w]) = "round-robin"
       THEN /\ cursors' = [cursors EXCEPT ![at[w]] = @ + 1]
            /\ turns' = [turns EXCEPT ![w] = @ \cup {[router |-> at[w], was |-> cursors[at[w]]]}]
       ELSE UNCHANGED <<cursors, turns>>
    /\ Goto(w, "offered")
    /\ UNCHANGED <<ledger, pins, rotationPins, request, at, path, branch, learnedVars, verdict,
                   tries, judgeCalls, landed, spread>>

(* A round with nobody to offer leaves the cursor where it was.            *)
OfferNothing(w) ==
    /\ pc[w] = "pick"
    /\ MayRun(w)
    /\ \A c \in Serving(w) : ~Offers(w, c)
    /\ offered' = [offered EXCEPT ![w] = None]
    /\ Goto(w, "offered")
    /\ UNCHANGED <<memoryVars, request, at, path, turns, branch, learnedVars, verdict,
                   tries, judgeCalls, landed, spread>>

(* The spread child is written down against the conversation only after    *)
(* the pick was awaited.                                                   *)
DescendToOffered(w) ==
    /\ pc[w] = "offered"
    /\ MayRun(w)
    /\ offered[w] # None
    /\ IF Mode(at[w]) = "round-robin" /\ request[w].conversation \in Apart
       THEN /\ rotationPins' =
                  [rotationPins EXCEPT ![request[w].conversation][at[w]] = offered[w]]
            /\ spread' = [spread EXCEPT ![request[w].conversation][at[w]] = @ \cup {offered[w]}]
       ELSE UNCHANGED <<rotationPins, spread>>
    /\ DescendsTo(w, offered[w])
    /\ branch' = [branch EXCEPT ![w] = Undecided]
    /\ offered' = [offered EXCEPT ![w] = None]
    /\ Goto(w, "descend")
    /\ UNCHANGED <<ledger, cursors, pins, request, turns, learnedVars, verdict,
                   tries, judgeCalls, landed>>

(* Mutants: nobody earns one, or a router earns one each time.             *)
EarnsNoDescent(w) == FALSE
EarnsADescentEachTime(w) == Mode(at[w]) = "conditional"

EarnsAnotherDescent(w) == Mode(at[w]) = "conditional" /\ at[w] \notin spent[w]

SpentPast(w) == spent[w] \cup {at[w]}

(* stepPastARouterOfferingNothing: only a conditional router, and only     *)
(* once, sends the walk back to the entry.                                 *)
DescendAgain(w) ==
    /\ pc[w] = "offered"
    /\ MayRun(w)
    /\ offered[w] = None
    /\ EarnsAnotherDescent(w)
    /\ CursorsHandedBack(w)
    /\ spent' = [spent EXCEPT ![w] = SpentPast(w)]
    /\ FreshDescent(w)
    /\ Goto(w, "loop")
    /\ UNCHANGED <<ledger, pins, rotationPins, request, attempted, decided, asks, verdict,
                   tries, judgeCalls, landed, spread>>

NowherePastTheRouter(w) ==
    /\ pc[w] = "offered"
    /\ MayRun(w)
    /\ offered[w] = None
    /\ ~EarnsAnotherDescent(w)
    /\ TurnsHandedBack(w)
    /\ SettlesWithNoChild(w)
    /\ UNCHANGED <<ledger, pins, rotationPins, request, at, path, branch, offered, learnedVars,
                   tries, judgeCalls, landed, spread>>

-----------------------------------------------------------------------------
(* outcome-classification.ts: the verdict one attempt reading earns.       *)

Unanswered == {"transport-failure", "grant-missing-credential", "grant-missing-target"}

AttemptReadings(n) ==
    IF ~CouldServe(n)
    THEN {[kind |-> "grant-missing-target", retryable |-> TRUE, cooling |-> "none"]}
    ELSE [kind : Unanswered, retryable : {TRUE}, cooling : {"none"}]
         \cup [kind : {"refused", "stream-error-before-commit"}, retryable : BOOLEAN, cooling : Signals]
         \cup [kind : {"served"}, retryable : {FALSE}, cooling : {"none"}]

MovesOn(reading) == reading.kind \in Unanswered \/ reading.retryable

StandsDown(reading) ==
    CASE reading.cooling \in {"none", "reset"} -> "guess"
      [] reading.cooling = "promise" -> "promise"
      [] OTHER -> "ready"

(* Mutant: the note carries the standing the ledger takes.                 *)
NoteOfTheStanding(reading) == StandsDown(reading)

NoteOf(reading) ==
    IF reading.cooling \in {"promise", "promise-past"} THEN "promised" ELSE "unpromised"

(* verdictOneChildSettled, once the attempt answers: the caller's answer,  *)
(* or a child cooled and noted, and the walk goes round.                   *)
AttemptAnswers(w) ==
    /\ pc[w] = "attempting"
    /\ MayRun(w)
    /\ \E reading \in AttemptReadings(at[w]) :
          ~MovesOn(reading)
    /\ Settles(w, "answered", at[w], FALSE)
    /\ UNCHANGED <<memoryVars, request, descentVars, learnedVars,
                   tries, judgeCalls, landed, spread>>

MoveOn(w) ==
    /\ pc[w] = "attempting"
    /\ MayRun(w)
    /\ \E reading \in AttemptReadings(at[w]) :
          /\ MovesOn(reading)
          /\ ledger' = [ledger EXCEPT ![LedgerOf(w)][at[w]] = StandsDown(reading)]
          /\ attempted' = [attempted EXCEPT ![w][at[w]] = NoteOf(reading)]
    /\ FreshDescent(w)
    /\ Goto(w, "loop")
    /\ UNCHANGED <<cursors, pins, rotationPins, request, decided, spent, asks, verdict,
                   tries, judgeCalls, landed, spread>>

(* An attempt that throws rejects the walk: nothing cools and no account   *)
(* is given.                                                               *)
AttemptThrows(w) ==
    /\ pc[w] = "attempting"
    /\ MayRun(w)
    /\ Settles(w, "threw", at[w], FALSE)
    /\ UNCHANGED <<memoryVars, request, descentVars, learnedVars,
                   tries, judgeCalls, landed, spread>>

-----------------------------------------------------------------------------
(* What passes on its own: a stand-down runs out, and a pin store forgets  *)
(* a conversation that went quiet or overflowed.                           *)

CoolingEnds(l, n) ==
    /\ Cooling(l, n)
    /\ ledger' = [ledger EXCEPT ![l][n] = "ready"]
    /\ UNCHANGED <<cursors, pins, rotationPins, drain, pc, request, descentVars, learnedVars,
                   verdict, tries, judgeCalls, landed, spread>>

PinForgotten(c, r) ==
    /\ pins[c][r] # None
    /\ pins' = [pins EXCEPT ![c][r] = None]
    /\ UNCHANGED <<ledger, cursors, rotationPins, drain, pc, request, descentVars, learnedVars,
                   verdict, tries, judgeCalls, landed, spread>>

RotationPinForgotten(c, r) ==
    /\ rotationPins[c][r] # None
    /\ rotationPins' = [rotationPins EXCEPT ![c][r] = None]
    /\ UNCHANGED <<ledger, cursors, pins, drain, pc, request, descentVars, learnedVars,
                   verdict, tries, judgeCalls, landed, spread>>

-----------------------------------------------------------------------------
(* The kept children are restored from disk, so a walk may find some.      *)
Restorable ==
    {kept \in Apart \X Nodes \X Nodes :
        /\ kept[2] \in Routers
        /\ Mode(kept[2]) = "round-robin"
        /\ kept[3] \in ChildrenOf(kept[2])}

RestoredPins(restored) ==
    [c \in Conversations |-> [r \in Nodes |->
        IF \E k \in Nodes : <<c, r, k>> \in restored
        THEN CHOOSE k \in Nodes : <<c, r, k>> \in restored
        ELSE None]]

Init ==
    /\ ledger = [l \in Ledgers |-> [n \in Nodes |-> "ready"]]
    /\ cursors = [r \in Nodes |-> 0]
    /\ pins = [c \in Conversations |-> [r \in Nodes |-> None]]
    /\ \E restored \in SUBSET Restorable : rotationPins = RestoredPins(restored)
    /\ drain = None
    /\ pc = [w \in Walks |-> "idle"]
    /\ request = [w \in Walks |-> NoRequest]
    /\ at = [w \in Walks |-> None]
    /\ path = [w \in Walks |-> {}]
    /\ turns = [w \in Walks |-> {}]
    /\ branch = [w \in Walks |-> Undecided]
    /\ offered = [w \in Walks |-> None]
    /\ attempted = [w \in Walks |-> [n \in Nodes |-> "untried"]]
    /\ decided = [w \in Walks |-> [n \in Nodes |-> Undecided]]
    /\ spent = [w \in Walks |-> {}]
    /\ asks = [w \in Walks |-> 0]
    /\ verdict = [w \in Walks |-> [outcome |-> "none", routeNode |-> None, wait |-> FALSE]]
    /\ tries = [w \in Walks |-> <<>>]
    /\ judgeCalls = [w \in Walks |-> [n \in Nodes |-> 0]]
    /\ landed = {}
    /\ spread = [c \in Conversations |-> [r \in Nodes |-> {rotationPins[c][r]} \ {None}]]
    /\ sawCooling = [w \in Walks |-> {}]
    /\ sawReady = [w \in Walks |-> {}]

WalkSteps(w) ==
    \/ BeginDescent(w) \/ ReachTheLimit(w)
    \/ StepAtTarget(w) \/ NowhereAtTarget(w)
    \/ FollowKeptChild(w) \/ RefuseChainedTurn(w)
    \/ AskRouter(w) \/ FollowPinnedBranch(w) \/ DeclineToAsk(w) \/ AskJudge(w)
    \/ CallJudge(w) \/ JudgeAnswers(w) \/ RefuseUnjudged(w)
    \/ OfferChild(w) \/ OfferNothing(w)
    \/ DescendToOffered(w) \/ DescendAgain(w) \/ NowherePastTheRouter(w)
    \/ AttemptAnswers(w) \/ MoveOn(w) \/ AttemptThrows(w)

MemoryPasses ==
    \/ \E l \in Ledgers, n \in Nodes : CoolingEnds(l, n)
    \/ \E c \in Conversations, r \in Nodes : PinForgotten(c, r) \/ RotationPinForgotten(c, r)

(* History: what a walk under way could have seen standing down, and which *)
(* routers' judges it could have seen ready.                               *)
Observe ==
    /\ sawCooling' = [w \in Walks |->
          IF pc'[w] \in {"idle", "done"}
          THEN sawCooling[w]
          ELSE sawCooling[w] \cup {n \in Nodes : ledger'[LedgerOf(w)][n] # "ready"}]
    /\ sawReady' = [w \in Walks |->
          IF pc'[w] \in {"idle", "done"}
          THEN sawReady[w]
          ELSE sawReady[w] \cup {r \in Nodes : Table[r].judge # None /\
                                     ledger'[Memory][Table[r].judge] = "ready"}]

Next ==
    /\ \/ \E w \in Walks : Arrive(w) \/ WalkSteps(w)
       \/ MemoryPasses
    /\ Observe

(* The event loop runs every continuation that is ready, and every judge   *)
(* and provider call comes back: a judge inside its budget, a provider     *)
(* with an answer or a dead connection.                                    *)
Fairness == \A w \in Walks : WF_vars(WalkSteps(w) /\ Observe)

Spec == Init /\ [][Next]_vars /\ Fairness

-----------------------------------------------------------------------------
(* Properties.                                                             *)

Turn == [router : Nodes, was : Nat]

MemoryTypeOK ==
    /\ ledger \in [Ledgers -> [Nodes -> Standings]]
    /\ cursors \in [Nodes -> Nat]
    /\ pins \in [Conversations -> [Nodes -> Nodes \cup {None}]]
    /\ rotationPins \in [Conversations -> [Nodes -> Nodes \cup {None}]]

ControlTypeOK ==
    /\ drain \in Walks \cup {None}
    /\ pc \in [Walks -> Points]
    /\ request \in [Walks -> Requests \cup {NoRequest}]
    /\ verdict \in [Walks -> Verdicts]

DescentTypeOK ==
    /\ at \in [Walks -> Nodes \cup {None}]
    /\ path \in [Walks -> SUBSET Nodes]
    /\ turns \in [Walks -> SUBSET Turn]
    /\ branch \in [Walks -> Choices]
    /\ offered \in [Walks -> Nodes \cup {None}]

LearnedTypeOK ==
    /\ attempted \in [Walks -> [Nodes -> Notes]]
    /\ decided \in [Walks -> [Nodes -> Choices]]
    /\ spent \in [Walks -> SUBSET Nodes]
    /\ asks \in [Walks -> 0..2]

HistoryTypeOK ==
    /\ tries \in [Walks -> Seq(Nodes)]
    /\ judgeCalls \in [Walks -> [Nodes -> Nat]]
    /\ landed \subseteq [walk : Walks, try : Nat, router : Nodes, was : Nat]
    /\ spread \in [Conversations -> [Nodes -> SUBSET Nodes]]
    /\ sawCooling \in [Walks -> SUBSET Nodes]
    /\ sawReady \in [Walks -> SUBSET Nodes]

(* Every variable keeps its type.                                          *)
TypeOK == MemoryTypeOK /\ ControlTypeOK /\ DescentTypeOK /\ LearnedTypeOK /\ HistoryTypeOK

(* A child attempted once is never attempted again by the same walk, even  *)
(* after its stand-down ran out (attempt-walk.ts:237-245).                 *)
NoChildIsTriedTwice ==
    \A w \in Walks : \A i, j \in DOMAIN tries[w] : tries[w][i] = tries[w][j] => i = j

(* Two requests never ride the same turn of a rotation: not two descents   *)
(* under way, not a descent and an attempt that already went out, even     *)
(* where descents hand turns back out of order (walk-descent.ts:196-203).  *)
NoTurnIsTakenTwice ==
    /\ \A v, w \in Walks : \A s \in turns[v], t \in turns[w] :
          s.router = t.router /\ s.was = t.was => v = w
    /\ \A x, y \in landed : x.router = y.router /\ x.was = y.was => x = y
    /\ \A w \in Walks : \A t \in turns[w], x \in landed :
          t.router = x.router => t.was # x.was

(* A turn no child carried is given back before the walk moves on: a walk  *)
(* that is over or starting over holds none.                               *)
DeadDescentsHoldNoTurn ==
    \A w \in Walks : pc[w] \in {"idle", "loop", "done"} => turns[w] = {}

(* A turn resuming state one account holds only ever passes a spreading    *)
(* router toward a child that router once handed the same conversation.    *)
SealedTurnsNeverSpread ==
    \A w \in Walks :
        pc[w] = "attempting" /\ request[w].resumes =>
            \A r \in path[w] \cap Routers :
                Mode(r) = "round-robin" =>
                    ChildrenOf(r) \cap path[w] \subseteq spread[request[w].conversation][r]

(* One request costs a router two judge calls at most, however often the   *)
(* walk comes back to it (judge-decision.ts:197-206, 238-244).             *)
JudgedAtMostTwice == \A w \in Walks : \A r \in Nodes : judgeCalls[w][r] <= 2

(* A request some router reached no judgment on is never given to a child  *)
(* afterwards: the walk ends there, refused.                               *)
UnjudgedIsNeverServed ==
    \A w \in Walks :
        (\E r \in Nodes : decided[w][r] # Undecided /\ ~decided[w][r].judged) =>
            \/ pc[w] = "unjudged"
            \/ pc[w] = "done" /\ verdict[w].outcome = "unjudged"

(* The targets the walk's own decisions left in reach: no ancestor stands  *)
(* off the branch its router's decision named.                             *)
OffBranch(w) ==
    UNION {ChildrenOf(r) \ IF Table[r].branches = {} THEN {Table[r].elseChild}
                           ELSE {decided[w][r].decided, decided[w][r].elseChild} :
           r \in {r \in Routers : Mode(r) = "conditional" /\ ~Undetermined(w, r)}}

InReach(w) == TargetsPast(Entry, OffBranch(w))

(* A table is reported exhausted only once every child its decisions left  *)
(* in reach was tried or stood cooling at some instant of the walk: no     *)
(* healthy sibling stands beside the report (walk-descent.ts:173-181).     *)
ExhaustedMeansNobodyWasLeft ==
    \A w \in Walks :
        verdict[w].outcome = "exhausted" /\ AttemptedSize(w) < AttemptLimit =>
            \A t \in InReach(w) : attempted[w][t] # "untried" \/ t \in sawCooling[w]

(* A caller is told to wait only where every child it was tried on made a  *)
(* promise on that very try, whatever other requests learned of the child  *)
(* since (walk-notes.ts:44-52).                                            *)
AWaitIsPromisedByEveryTry ==
    \A w \in Walks :
        verdict[w].wait =>
            \A i \in DOMAIN tries[w] : attempted[w][tries[w][i]] = "promised"

(* A judge that stood down stands down for every later request as well, on *)
(* any table: it is called for a request only where it stood ready at some *)
(* instant of it.  A request under way may still call a judge another one  *)
(* cooled since: its stand-down is read once, before the wait for the      *)
(* judge's grant (judge-decision.ts:231, gateway-judging.ts:67-80).        *)
StandDownsAreHeeded ==
    \A w \in Walks : \A r \in Nodes : judgeCalls[w][r] > 0 => r \in sawReady[w]

(* Every request that reached the walk is answered, refused or thrown out. *)
EveryWalkEnds == \A w \in Walks : pc[w] = "loop" ~> pc[w] = "done"
=============================================================================
