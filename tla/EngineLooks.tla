----------------------------- MODULE EngineLooks -----------------------------
(***************************************************************************)
(* The looks the host takes through the engine child: a key checked, a      *)
(* runtime probed, models listed, an account named.  Each is one directive   *)
(* under an id of its own, one answer against it, and a fold that says        *)
(* nothing was learned when silence, death or no child at all stands in       *)
(* place of the answer.                                                     *)
(***************************************************************************)
EXTENDS Naturals, FiniteSets

CONSTANTS
    Looks,         \* the looks taken
    MaxChildren,   \* bound: children spawned
    MaxUnspawned   \* bound: times the system refuses to spawn one

LooksAssumption == MaxChildren \in Nat /\ MaxUnspawned \in Nat

VARIABLES
    child,     \* the resident child, 0 for none
    alive,     \* whether it lives: its exit is heard later
    spawned, unspawned,
    desk,      \* the looks waited on
    timers,    \* the looks whose bound is running
    askedOf,   \* look |-> the child it was put to, 0 for none
    working,   \* the looks the living child is at
    said,      \* the looks answered by a child and not yet heard
    answer     \* look |-> how it was answered

vars == <<child, alive, spawned, unspawned, desk, timers, askedOf, working, said, answer>>

-----------------------------------------------------------------------------

(* A look with no child to put it to folds at once.                        *)
CannotSpawn(l) ==
    /\ answer[l] = "unasked" /\ child = 0 /\ unspawned < MaxUnspawned
    /\ unspawned' = unspawned + 1
    /\ answer' = [answer EXCEPT ![l] = "folded"]
    /\ UNCHANGED <<child, alive, spawned, desk, timers, askedOf, working, said>>

(* Otherwise it stands on its desk, and its bound starts with it.          *)
WaitsOnTheChild(l, engine) ==
    /\ desk' = desk \union {l}
    /\ timers' = timers \union {l}
    /\ askedOf' = [askedOf EXCEPT ![l] = engine]
    /\ answer' = [answer EXCEPT ![l] = "waiting"]
    /\ UNCHANGED <<unspawned, said>>

Spawns(l) ==
    /\ answer[l] = "unasked" /\ child = 0 /\ spawned < MaxChildren
    /\ spawned' = spawned + 1 /\ child' = spawned + 1 /\ alive' = TRUE
    /\ working' = {l}
    /\ WaitsOnTheChild(l, spawned + 1)

(* A child that died before its exit was heard is asked all the same.      *)
Asks(l) ==
    /\ answer[l] = "unasked" /\ child # 0
    /\ working' = IF alive THEN working \union {l} ELSE working
    /\ WaitsOnTheChild(l, child)
    /\ UNCHANGED <<child, alive, spawned>>

-----------------------------------------------------------------------------
(* The child.                                                              *)

Says(l) ==
    /\ alive /\ l \in working
    /\ working' = working \ {l}
    /\ said' = said \union {l}
    /\ UNCHANGED <<child, alive, spawned, unspawned, desk, timers, askedOf, answer>>

(* A look the child could not answer is written down there and goes unsaid. *)
SaysNothing(l) ==
    /\ alive /\ l \in working
    /\ working' = working \ {l}
    /\ UNCHANGED <<child, alive, spawned, unspawned, desk, timers, askedOf, said, answer>>

Dies ==
    /\ alive
    /\ alive' = FALSE /\ working' = {}
    /\ UNCHANGED <<child, spawned, unspawned, desk, timers, askedOf, said, answer>>

-----------------------------------------------------------------------------
(* The host hears.                                                         *)

(* An answer nobody waits for any more is dropped.                         *)
AnswerWaiting(l) ==
    /\ l \in said
    /\ said' = said \ {l}
    /\ IF l \in desk
         THEN /\ desk' = desk \ {l} /\ timers' = timers \ {l}
              /\ answer' = [answer EXCEPT ![l] = "given"]
         ELSE UNCHANGED <<desk, timers, answer>>
    /\ UNCHANGED <<child, alive, spawned, unspawned, askedOf, working>>

GivesUp(l) ==
    /\ l \in timers
    /\ timers' = timers \ {l} /\ desk' = desk \ {l}
    /\ answer' = [answer EXCEPT ![l] = "folded"]
    /\ UNCHANGED <<child, alive, spawned, unspawned, askedOf, working, said>>

(* The exit folds every look out, and what was still on its way is lost.   *)
HearsExit ==
    /\ child # 0 /\ ~alive
    /\ child' = 0
    /\ said' = {}
    /\ desk' = {} /\ timers' = timers \ desk
    /\ answer' = [l \in Looks |-> IF l \in desk THEN "folded" ELSE answer[l]]
    /\ UNCHANGED <<alive, spawned, unspawned, askedOf, working>>

-----------------------------------------------------------------------------

Init ==
    /\ child = 0 /\ alive = FALSE /\ spawned = 0 /\ unspawned = 0
    /\ desk = {} /\ timers = {} /\ working = {} /\ said = {}
    /\ askedOf = [l \in Looks |-> 0]
    /\ answer = [l \in Looks |-> "unasked"]

Next ==
    \/ \E l \in Looks :
         CannotSpawn(l) \/ Spawns(l) \/ Asks(l) \/ Says(l) \/ SaysNothing(l)
           \/ AnswerWaiting(l) \/ GivesUp(l)
    \/ Dies \/ HearsExit

(* Bounds run out and exits are heard; the child owes nothing.             *)
Fairness == WF_vars(HearsExit) /\ \A l \in Looks : WF_vars(GivesUp(l))

Spec == Init /\ [][Next]_vars /\ Fairness

-----------------------------------------------------------------------------

(* Every look stands where the code can hold it, once.                     *)
LooksTypeOK ==
    /\ child \in 0..spawned /\ spawned \in 0..MaxChildren /\ alive \in BOOLEAN
    /\ alive => child = spawned
    /\ answer \in [Looks -> {"unasked", "waiting", "given", "folded"}]
    /\ askedOf \in [Looks -> 0..MaxChildren]
    /\ said \subseteq Looks /\ working \subseteq Looks

(* The desk, the bounds and the callers agree: nobody who was answered is   *)
(* still waited for, and nobody waits without a bound.                     *)
DesksHoldWhoWaits ==
    /\ desk = {l \in Looks : answer[l] = "waiting"}
    /\ timers = desk

(* A look waits only on the child the host still holds: an exit leaves      *)
(* nobody waiting on a process that is gone.                               *)
NobodyWaitsOnTheGone == \A l \in desk : askedOf[l] = child

(* A caller is answered once: what comes late changes nothing.             *)
AnswersStand ==
    [][\A l \in Looks : answer[l] \in {"given", "folded"} => answer'[l] = answer[l]]_vars

(* Every look is answered, whatever becomes of the child.                  *)
EveryLookIsAnswered == \A l \in Looks : answer[l] = "waiting" ~> answer[l] \in {"given", "folded"}

=============================================================================
