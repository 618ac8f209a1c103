---------------------------- MODULE DeviceSignIn ----------------------------
(***************************************************************************)
(* Signing in by a code typed at the vendor.  Asking for a code and waiting *)
(* for it to be entered are two calls of the screen: asks run as they       *)
(* arrive, waits queue in the one lane the writers of accounts share, and   *)
(* the handle that ties them stands in a map with one place per plan.       *)
(***************************************************************************)
EXTENDS Naturals, Sequences

CONSTANTS
    Plans,    \* plans signed into this way
    MaxAsks,  \* bound: codes asked for
    MaxWaits  \* bound: waits the person starts

DeviceAssumption == MaxAsks \in Nat /\ MaxWaits \in Nat

VARIABLES
    pending, \* plan |-> the ask whose handle is held, 0 for none
    asks,    \* the codes asked for, in order
    screen,  \* plan |-> the newest ask of its step, 0 for none
    waits,   \* the waits started, in order: the lane
    answers  \* how each wait ended

vars == <<pending, asks, screen, waits, answers>>

Asked == 1..Len(asks)
Handles == 0..MaxAsks
Waiting == {"queued", "top", "asking", "asleep", "done"}
Answers == {"open", "signedIn", "noneWaiting", "denied", "expired"}

-----------------------------------------------------------------------------
(* The screen and the vendor.                                              *)

AskForADeviceCode(p) ==
    /\ Len(asks) < MaxAsks
    /\ asks' = Append(asks, [plan |-> p, at |-> "asking", open |-> TRUE])
    /\ screen' = [screen EXCEPT ![p] = Len(asks) + 1]
    /\ UNCHANGED <<pending, waits, answers>>

(* A code came back: its handle takes the plan's place in the map.         *)
Shown(n) ==
    /\ asks[n].at = "asking"
    /\ asks' = [asks EXCEPT ![n].at = "shown"]
    /\ pending' = [pending EXCEPT ![asks[n].plan] = n]
    /\ UNCHANGED <<screen, waits, answers>>

(* No code came back: the plan's place is emptied, whoever held it.        *)
NotShown(n) ==
    /\ asks[n].at = "asking"
    /\ asks' = [asks EXCEPT ![n].at = "refused"]
    /\ pending' = [pending EXCEPT ![asks[n].plan] = 0]
    /\ UNCHANGED <<screen, waits, answers>>

(* What the person does with a code at the vendor, while it is good.       *)
Decides(n, how) ==
    /\ asks[n].at = "shown" /\ asks[n].open
    /\ asks' = [asks EXCEPT ![n].at = how]
    /\ UNCHANGED <<pending, screen, waits, answers>>

AtHead(w) == \A v \in 1..(w - 1) : waits[v].at = "done"

(* The window of a code ends, by the clock of both sides; a wait whose turn *)
(* it is has started before any time passes.                               *)
WindowEnds(n) ==
    /\ \A w \in 1..Len(waits) : waits[w].at = "queued" => ~AtHead(w)
    /\ asks[n].at \notin {"asking", "refused"} /\ asks[n].open
    /\ asks' = [asks EXCEPT ![n].open = FALSE]
    /\ UNCHANGED <<pending, screen, waits, answers>>

(* "I entered the code", pressed under the code the step shows.            *)
Press(p) ==
    /\ Len(waits) < MaxWaits
    /\ screen[p] # 0 /\ asks[screen[p]].at \notin {"asking", "refused"}
    /\ waits' = Append(waits, [plan |-> p, at |-> "queued", code |-> 0,
                              good |-> IF pending[p] # 0 /\ asks[pending[p]].open
                                         THEN pending[p] ELSE 0])
    /\ answers' = Append(answers, "open")
    /\ UNCHANGED <<pending, asks, screen>>

-----------------------------------------------------------------------------
(* One wait, at the head of the lane.                                      *)

Settle(w, how) ==
    /\ waits' = [waits EXCEPT ![w].at = "done"]
    /\ answers' = [answers EXCEPT ![w] = how]
    /\ UNCHANGED <<asks, screen>>

(* Mutant: the handle is dropped only when somebody signed in.             *)
DropsOnSuccess(w, how) ==
    pending' = IF how = "signedIn" THEN [pending EXCEPT ![waits[w].plan] = 0] ELSE pending

(* The handle goes however the wait ended, whichever handle stands there.  *)
Dropped(w, how) == pending' = [pending EXCEPT ![waits[w].plan] = 0]

Starts(w) ==
    LET started == pending[waits[w].plan]
    IN  /\ waits[w].at = "queued" /\ AtHead(w)
        /\ IF started = 0
             THEN Settle(w, "noneWaiting") /\ UNCHANGED pending
             ELSE /\ waits' = [waits EXCEPT ![w].at = "top", ![w].code = started]
                  /\ UNCHANGED <<pending, asks, screen, answers>>

(* The loop: a code that outlived its window is asked for no more.         *)
LoopTop(w) ==
    /\ waits[w].at = "top"
    /\ IF asks[waits[w].code].open
         THEN /\ waits' = [waits EXCEPT ![w].at = "asking"]
              /\ UNCHANGED <<pending, asks, screen, answers>>
         ELSE Settle(w, "expired") /\ Dropped(w, "expired")

(* What the vendor says of a code when asked.                              *)
Said(n) ==
    CASE asks[n].at = "entered" -> "signedIn"
      [] asks[n].at = "denied" -> "denied"
      [] asks[n].at = "spent" -> "denied"
      [] asks[n].at = "shown" /\ ~asks[n].open -> "expired"
      [] OTHER -> "pending"

(* A terminal answer ends the wait; a token is issued for a code once.     *)
Terminal(w) ==
    LET n == waits[w].code
    IN  /\ waits[w].at = "asking" /\ Said(n) # "pending"
        /\ Dropped(w, Said(n))
        /\ waits' = [waits EXCEPT ![w].at = "done"]
        /\ answers' = [answers EXCEPT ![w] = Said(n)]
        /\ asks' = IF Said(n) = "signedIn" THEN [asks EXCEPT ![n].at = "spent"] ELSE asks
        /\ UNCHANGED screen

(* Pending, asked to slow down, or no answer anybody could read.           *)
StillWaiting(w) ==
    /\ waits[w].at = "asking"
    /\ waits' = [waits EXCEPT ![w].at = "asleep"]
    /\ UNCHANGED <<pending, asks, screen, answers>>

Wakes(w) ==
    /\ waits[w].at = "asleep"
    /\ waits' = [waits EXCEPT ![w].at = "top"]
    /\ UNCHANGED <<pending, asks, screen, answers>>

-----------------------------------------------------------------------------

Init ==
    /\ pending = [p \in Plans |-> 0]
    /\ asks = <<>>
    /\ screen = [p \in Plans |-> 0]
    /\ waits = <<>>
    /\ answers = <<>>

Waits(w) == Starts(w) \/ LoopTop(w) \/ Terminal(w) \/ StillWaiting(w) \/ Wakes(w)

Next ==
    \/ \E p \in Plans : AskForADeviceCode(p) \/ Press(p)
    \/ \E n \in Asked :
         Shown(n) \/ NotShown(n) \/ Decides(n, "entered") \/ Decides(n, "denied") \/ WindowEnds(n)
    \/ \E w \in 1..Len(waits) : Waits(w)

(* Time passes, and a wait is run on: nothing else is promised.            *)
Fairness ==
    /\ \A n \in 1..MaxAsks : WF_vars(n \in Asked /\ WindowEnds(n))
    /\ \A w \in 1..MaxWaits : WF_vars(w \in 1..Len(waits) /\ Waits(w))

Spec == Init /\ [][Next]_vars /\ Fairness

-----------------------------------------------------------------------------

(* Every handle, ask and wait is one the code can hold.                    *)
DeviceTypeOK ==
    /\ pending \in [Plans -> Handles]
    /\ screen \in [Plans -> Handles]
    /\ \A n \in Asked : asks[n] \in
         [plan : Plans, open : BOOLEAN,
          at : {"asking", "refused", "shown", "entered", "denied", "spent"}]
    /\ \A w \in 1..Len(waits) :
         waits[w] \in [plan : Plans, at : Waiting, code : Handles, good : Handles]
    /\ answers \in Seq(Answers) /\ Len(answers) = Len(waits)
    /\ \A p \in Plans : pending[p] # 0 => asks[pending[p]].plan = p

(* A code whose wait ended, whichever way, is never waited on again: the   *)
(* handle of a used or an abandoned code does not outlive its wait.        *)
ACodeEndsOneWait ==
    \A v, w \in 1..Len(waits) :
        v # w /\ waits[v].code # 0 => waits[v].code # waits[w].code

SomeoneWaits == \E w \in 1..Len(waits) : waits[w].at # "done"

(* Every wait ends, those queued behind a person who walked away included. *)
EveryWaitEnds == SomeoneWaits ~> ~SomeoneWaits

(* A code asked for anew settles nothing of the code before it: a person   *)
(* is never signed in by a code their step no longer shows.                *)
(* The code departs from this (README, Departures).                        *)
AReplacedCodeSettlesNothing ==
    [][\A w \in 1..Len(waits) :
         answers'[w] = "signedIn" /\ answers[w] = "open" =>
             waits[w].code = screen[waits[w].plan]]_vars

(* Two codes of two plans settle in either order: a wait started while its *)
(* code was good, whose code was entered, is not begun with the code gone. *)
(* The code departs from this (README, Departures).                        *)
EitherMaySettleFirst ==
    [][\A w \in 1..Len(waits) :
         /\ waits[w].at = "queued" /\ waits'[w].at = "top"
         /\ waits'[w].code = waits[w].good /\ asks[waits'[w].code].at = "entered"
         => asks[waits'[w].code].open]_vars

=============================================================================
