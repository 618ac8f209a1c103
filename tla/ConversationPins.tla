--------------------------- MODULE ConversationPins ---------------------------
(***************************************************************************)
(* One store of the branches conversations earned                           *)
(* (createConversationPins in gateway-routing-memory.ts) and what it tells   *)
(* the canvas of each router (gateway-branch-pins-watch.ts), on a clock.     *)
(***************************************************************************)
EXTENDS PinStore

CONSTANT MaxNow  \* bound: the clock

ClockAssumption == MaxNow \in Nat

VARIABLES
    held,  \* the pins, the one touched longest ago first
    told,  \* [router]: the tally last told
    now

vars == <<held, told, now>>

NoTally == [child \in Children |-> 0]

(* tellWhatTheyHold: every router a write moved.                            *)
Tell(routers, dropped) ==
    told' = [router \in Routers |->
                IF router \in routers \cup dropped THEN TallyAt(held', router) ELSE told[router]]

Touch(router, conversation, child) == Touched(held, router, conversation, child, now)

(* A conversation earns a branch.                                          *)
Pin(router, conversation, child) ==
    LET moved == Touch(router, conversation, child)
    IN  /\ held' = WithinTheBound(moved)
        /\ Tell({router}, Forgotten(moved))
        /\ UNCHANGED now

(* pinnedAt of a conversation that keeps talking touches its pin.           *)
Resume(router, conversation) ==
    /\ Holds(held, router, conversation)
    /\ ~Idle(PinAt(held, router, conversation), now)
    /\ held' = Touch(router, conversation, PinAt(held, router, conversation).child)
    /\ UNCHANGED <<told, now>>

(* pinnedAt of one that went quiet forgets it.                              *)
ForgetQuiet(router, conversation) ==
    /\ Holds(held, router, conversation)
    /\ Idle(PinAt(held, router, conversation), now)
    /\ held' = Without(held, router, conversation)
    /\ Tell({router}, {})
    /\ UNCHANGED now

Tick ==
    /\ now < MaxNow
    /\ now' = now + 1
    /\ UNCHANGED <<held, told>>

Init ==
    /\ held = <<>>
    /\ told = [router \in Routers |-> NoTally]
    /\ now = 0

Next ==
    \/ \E router \in Routers, conversation \in Conversations :
          \/ \E child \in Children : Pin(router, conversation, child)
          \/ Resume(router, conversation)
          \/ ForgetQuiet(router, conversation)
    \/ Tick

Spec == Init /\ [][Next]_vars

-----------------------------------------------------------------------------
(* The store is bounded, and holds one pin of a conversation at a router.    *)
PinsTypeOK ==
    /\ held \in Seq(Pins) /\ Len(held) <= Limit
    /\ \A n, m \in DOMAIN held :
          (held[n].router = held[m].router /\ held[n].conversation = held[m].conversation) => n = m

(* tellWhatTheyHold: what a router last said is what it holds, though one    *)
(* write can move two routers at once.                                     *)
ToldIsHeld == \A router \in Routers : told[router] = TallyAt(held, router)

(* forgetPastTheBound: a full store forgets whichever conversation spoke     *)
(* longest ago.                                                            *)
TheLongestQuietGoesFirst ==
    [][\A n \in DOMAIN held :
          ( /\ ~Idle(held[n], now)
            /\ ~Holds(held', held[n].router, held[n].conversation) )
          => \A m \in DOMAIN held' : held[n].touched <= held'[m].touched]_vars

=============================================================================
