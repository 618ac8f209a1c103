-------------------------- MODULE CredentialRenewal --------------------------
(***************************************************************************)
(* One plan recompose signed in to itself, spent by several turns at once. *)
(* Main keeps its credential and reads it for every turn that asks; the    *)
(* engine child renews it at the provider, hands the renewed one to main   *)
(* and waits until it is stored, then sends.  Claude turns also stamp an   *)
(* account and a device into it, and hand that over too.                   *)
(*                                                                         *)
(* A credential is the number of rotations it has seen: the provider takes *)
(* only the newest refresh token and gives the next one for it.            *)
(***************************************************************************)
EXTENDS Naturals, Sequences, FiniteSets

CONSTANTS
    Turns,     \* the turns that may ask
    NoTurn,
    Claude,    \* whether the plan is Claude's: it stamps, and it says 429
    MaxGen,    \* bound: rotations the provider grants
    Loses,     \* whether an answer of the provider may be lost on the way
    Refuses    \* whether the disk may refuse a write

RenewalAssumption ==
    /\ NoTurn \notin Turns
    /\ MaxGen \in Nat \ {0}
    /\ Claude \in BOOLEAN /\ Loses \in BOOLEAN /\ Refuses \in BOOLEAN

VARIABLES
    stored,    \* the credential main keeps
    written,   \* every rotation main has ever kept
    head,      \* the rotation whose refresh token the provider takes
    rotated,   \* the tokens being renewed that the provider already rotated
    aged,      \* the rotations whose access token nears its end
    blocked,   \* the tokens whose renewal was answered 429 a moment ago
    flight,    \* the renewals under way: for each token, who waits for it
    standing,  \* the last identity being stamped: for which token, by whom
    updates,   \* the credentials handed to main and not stored yet
    turn

vars == <<stored, written, head, rotated, aged, blocked, flight, standing, updates, turn>>
Gen == 1..MaxGen
Phases == {"idle", "asked", "granted", "renewing", "storing", "ready", "profiling",
           "stamping", "waiting", "clear", "sent", "done", "failed"}
Ended == {"done", "failed"}

Blob == [gen : Gen, stamped : BOOLEAN]
Away == [phase |-> "idle", gen |-> 1, stamped |-> FALSE, again |-> FALSE,
         by |-> NoTurn, minted |-> "no"]
NoStanding == [gen |-> 0, by |-> NoTurn]

InPhase(p) == {t \in Turns : turn[t].phase = p}
MoveTo(t, p) == turn' = [turn EXCEPT ![t].phase = p]

-----------------------------------------------------------------------------
(* A turn asks main, and main reads what it keeps at that moment.          *)

Ask(t) ==
    /\ turn[t].phase = "idle"
    /\ MoveTo(t, "asked")
    /\ UNCHANGED <<stored, written, head, rotated, aged, blocked, flight, standing, updates>>

Resolve(t) ==
    /\ turn[t].phase = "asked"
    /\ turn' = [turn EXCEPT ![t].phase = "granted", ![t].gen = stored.gen,
                            ![t].stamped = stored.stamped]
    /\ UNCHANGED <<stored, written, head, rotated, aged, blocked, flight, standing, updates>>

-----------------------------------------------------------------------------
(* Renewing: the turns that hold one token share one request.              *)

Renew(t, again) ==
    IF Claude /\ turn[t].gen \in blocked
    THEN /\ MoveTo(t, "failed")
         /\ UNCHANGED flight
    ELSE /\ turn' = [turn EXCEPT ![t].phase = "renewing", ![t].again = again]
         /\ flight' = [flight EXCEPT ![turn[t].gen] = Append(@, t)]

Ready(t) ==
    /\ turn[t].phase = "granted"
    /\ IF turn[t].gen \in aged THEN Renew(t, FALSE)
       ELSE MoveTo(t, "ready") /\ UNCHANGED flight
    /\ UNCHANGED <<stored, written, head, rotated, aged, blocked, standing, updates>>

(* The provider rotates the newest token it gave, and no other.            *)
Rotate(g) ==
    /\ flight[g] # <<>> /\ g = head /\ head < MaxGen
    /\ head' = head + 1
    /\ rotated' = rotated \union {g}
    /\ UNCHANGED <<stored, written, aged, blocked, flight, standing, updates, turn>>

(* The request that answers clears the lane of its token; every turn that  *)
(* waited hands main its own copy of the credential, renewed.              *)
Landed(g) ==
    /\ flight' = [flight EXCEPT ![g] = <<>>]
    /\ rotated' = rotated \ {g}

HandOver(g) == [i \in DOMAIN flight[g] |->
    [turn |-> flight[g][i], gen |-> g + 1, stamped |-> turn[flight[g][i]].stamped]]

(* Mutant: a turn goes on without waiting to hear that main stored it *)
SentAtOnce(g) ==
    /\ g \in rotated
    /\ Landed(g)
    /\ blocked' = blocked \ {g}
    /\ updates' = updates \o HandOver(g)
    /\ turn' = [t \in Turns |-> IF turn[t].phase = "renewing" /\ turn[t].gen = g
                                THEN [turn[t] EXCEPT !.phase = "clear", !.gen = g + 1]
                                ELSE turn[t]]
    /\ UNCHANGED <<stored, written, head, aged, standing>>

Renewed(g) ==
    /\ g \in rotated
    /\ Landed(g)
    /\ blocked' = blocked \ {g}
    /\ updates' = updates \o HandOver(g)
    /\ turn' = [t \in Turns |-> IF turn[t].phase = "renewing" /\ turn[t].gen = g
                                THEN [turn[t] EXCEPT !.phase = "storing", !.gen = g + 1]
                                ELSE turn[t]]
    /\ UNCHANGED <<stored, written, head, aged, standing>>

(* A refusal, a deadline or an answer nobody can read throws in every turn *)
(* that waited.  Claude's 429 is remembered against the token.             *)
RenewalFails(g) ==
    /\ flight[g] # <<>>
    /\ g \in rotated => Loses
    /\ Landed(g)
    /\ \/ blocked' = blocked
       \/ Claude /\ g \notin rotated /\ blocked' = blocked \union {g}
    /\ turn' = [t \in Turns |-> IF turn[t].phase = "renewing" /\ turn[t].gen = g
                                THEN [turn[t] EXCEPT !.phase = "failed"] ELSE turn[t]]
    /\ UNCHANGED <<stored, written, head, aged, standing, updates>>

-----------------------------------------------------------------------------
(* Main stores what it is handed, in the order it is handed over, and says *)
(* how that went.                                                          *)

Stores(ok) ==
    /\ updates # <<>>
    /\ LET u == Head(updates) IN
       /\ updates' = Tail(updates)
       /\ IF ok
          THEN /\ stored' = [gen |-> u.gen, stamped |-> u.stamped]
               /\ written' = written \union {u.gen}
               /\ UNCHANGED standing
               /\ turn' = [turn EXCEPT ![u.turn] =
                      IF turn[u.turn].phase = "stamping"
                      THEN [@ EXCEPT !.phase = "clear", !.stamped = TRUE, !.minted = "yes"]
                      ELSE [@ EXCEPT !.phase = IF turn[u.turn].again THEN "clear" ELSE "ready"]]
          ELSE /\ UNCHANGED <<stored, written>>
               /\ standing' = IF turn[u.turn].phase = "stamping" /\ standing.gen = u.gen
                              THEN NoStanding ELSE standing
               /\ turn' = [turn EXCEPT ![u.turn].phase = "failed"]
    /\ UNCHANGED <<head, rotated, aged, blocked, flight>>

Stored == Stores(TRUE)
StoreFails == Refuses /\ Stores(FALSE)

-----------------------------------------------------------------------------
(* A Claude credential that names no account and device has them stamped:  *)
(* the turns that hold one access token share the stamping.                *)

Identify(t) ==
    /\ turn[t].phase = "ready"
    /\ IF ~Claude \/ turn[t].stamped
       THEN MoveTo(t, "clear") /\ UNCHANGED standing
       ELSE IF standing.gen = turn[t].gen
       THEN /\ turn' = [turn EXCEPT ![t].phase = "waiting", ![t].by = standing.by]
            /\ UNCHANGED standing
       ELSE /\ MoveTo(t, "profiling")
            /\ standing' = [gen |-> turn[t].gen, by |-> t]
    /\ UNCHANGED <<stored, written, head, rotated, aged, blocked, flight, updates>>

Profiled(t) ==
    /\ turn[t].phase = "profiling"
    /\ MoveTo(t, "stamping")
    /\ updates' = Append(updates, [turn |-> t, gen |-> turn[t].gen, stamped |-> TRUE])
    /\ UNCHANGED <<stored, written, head, rotated, aged, blocked, flight, standing>>

ProfileFails(t) ==
    /\ turn[t].phase = "profiling"
    /\ Loses
    /\ MoveTo(t, "failed")
    /\ standing' = IF standing.gen = turn[t].gen THEN NoStanding ELSE standing
    /\ UNCHANGED <<stored, written, head, rotated, aged, blocked, flight, updates>>

Share(t) ==
    /\ turn[t].phase = "waiting"
    /\ \/ /\ turn[turn[t].by].minted = "yes"
          /\ turn' = [turn EXCEPT ![t].phase = "clear", ![t].stamped = TRUE]
       \/ /\ turn[turn[t].by].minted = "no" /\ turn[turn[t].by].phase = "failed"
          /\ MoveTo(t, "failed")
    /\ UNCHANGED <<stored, written, head, rotated, aged, blocked, flight, standing, updates>>

-----------------------------------------------------------------------------
(* The turn is sent.  One answered 401 is renewed and sent once more.      *)

Send(t) ==
    /\ turn[t].phase = "clear"
    /\ MoveTo(t, "sent")
    /\ UNCHANGED <<stored, written, head, rotated, aged, blocked, flight, standing, updates>>

Answered(t) ==
    /\ turn[t].phase = "sent"
    /\ MoveTo(t, "done")
    /\ UNCHANGED <<stored, written, head, rotated, aged, blocked, flight, standing, updates>>

Unauthorized(t) ==
    /\ turn[t].phase = "sent" /\ ~turn[t].again
    /\ Renew(t, TRUE)
    /\ UNCHANGED <<stored, written, head, rotated, aged, blocked, standing, updates>>

(* Time: an access token nears its end, and a 429 is over.                 *)
Ages(g) ==
    /\ g \notin aged /\ g < MaxGen
    /\ aged' = aged \union {g}
    /\ UNCHANGED <<stored, written, head, rotated, blocked, flight, standing, updates, turn>>

WaitOver(g) ==
    /\ g \in blocked
    /\ blocked' = blocked \ {g}
    /\ UNCHANGED <<stored, written, head, rotated, aged, flight, standing, updates, turn>>

-----------------------------------------------------------------------------
Init ==
    /\ stored = [gen |-> 1, stamped |-> FALSE] /\ written = {1}
    /\ head = 1 /\ rotated = {} /\ aged = {} /\ blocked = {}
    /\ flight = [g \in Gen |-> <<>>]
    /\ standing = NoStanding
    /\ updates = <<>>
    /\ turn = [t \in Turns |-> Away]

TurnSteps(t) ==
    \/ Resolve(t) \/ Ready(t) \/ Identify(t) \/ Profiled(t) \/ Share(t)
    \/ Send(t) \/ Answered(t)

Answers(g) == Renewed(g) \/ RenewalFails(g)

Next ==
    \/ \E t \in Turns : Ask(t) \/ TurnSteps(t) \/ ProfileFails(t) \/ Unauthorized(t)
    \/ \E g \in Gen : Rotate(g) \/ Answers(g) \/ Ages(g) \/ WaitOver(g)
    \/ Stored \/ StoreFails

(* Main takes its messages, a request ends by its deadline, and a turn     *)
(* that can go on does.                                                    *)
Fairness ==
    /\ \A t \in Turns : WF_vars(TurnSteps(t))
    /\ \A g \in Gen : WF_vars(Answers(g))
    /\ WF_vars(Stored \/ StoreFails)

Spec == Init /\ [][Next]_vars /\ Fairness

-----------------------------------------------------------------------------
RenewalTypeOK ==
    /\ stored \in Blob /\ written \subseteq Gen /\ head \in Gen
    /\ rotated \subseteq Gen /\ aged \subseteq Gen /\ blocked \subseteq Gen
    /\ flight \in [Gen -> Seq(Turns)]
    /\ standing \in [gen : 0..MaxGen, by : Turns \union {NoTurn}]
    /\ updates \in Seq([turn : Turns, gen : Gen, stamped : BOOLEAN])
    /\ turn \in [Turns -> [phase : Phases, gen : Gen, stamped : BOOLEAN, again : BOOLEAN,
                           by : Turns \union {NoTurn}, minted : {"no", "yes"}]]

(* A renewed credential is spent only once main has kept it: a turn that   *)
(* is out at the provider carries a rotation the disk has held.            *)
DurableBeforeSpent ==
    \A t \in InPhase("sent") : turn[t].gen \in written

(* While no answer is lost and the disk takes every write, the token the   *)
(* provider takes next is kept, on its way to be kept, or in the answer    *)
(* that is about to come: the plan never has to be signed in to again.     *)
TheChainIsKept ==
    ~Loses /\ ~Refuses =>
        \/ head = stored.gen
        \/ \E i \in DOMAIN updates : updates[i].gen = head
        \/ head - 1 \in rotated

(* A renewed credential is spent only once main has kept it, and the token *)
(* the provider takes next of a plan that stamps nothing is never lost, in *)
(* whatever order turns ask, renew and are refused.                        *)
RenewalsAreKept == RenewalTypeOK /\ DurableBeforeSpent /\ (~Claude => TheChainIsKept)

SomeoneWaits == \E t \in Turns : turn[t].phase \notin Ended \union {"idle"}

(* Every turn that asked is answered, or fails.                            *)
EveryTurnEnds == SomeoneWaits ~> ~SomeoneWaits

(* What main keeps only ever moves forward along the chain of rotations,   *)
(* but for a stamp, which Claude's turns hand over with what they hold.    *)
(* The code departs from this with a stamp (README, Departures).           *)
StoreMovesOn ==
    \/ stored'.gen >= stored.gen
    \/ Claude /\ turn[Head(updates).turn].phase = "stamping"

(* A token the provider has rotated is not presented to it again.          *)
(* The code departs from this (README, Departures).                        *)
NoSpentTokenIsPresented ==
    \A g \in Gen : flight[g] # <<>> /\ g \notin rotated => g = head

=============================================================================
