------------------------------- MODULE PinStore -------------------------------
(***************************************************************************)
(* What a store of conversation pins does to what it holds                  *)
(* (gateway-routing-memory.ts): the pins stand in the order they were last   *)
(* touched, which is the order the bound forgets them in.                   *)
(***************************************************************************)
EXTENDS Naturals, Sequences, FiniteSets, TLC

CONSTANTS
    Routers, Conversations, Children,
    Limit,      \* PINNED_CONVERSATION_LIMIT
    IdleWindow  \* PIN_IDLE_MS

PinAssumption == Limit \in Nat \ {0} /\ IdleWindow \in Nat

Pins == [router : Routers, conversation : Conversations, child : Children, touched : Nat]

Holds(held, router, conversation) ==
    \E n \in DOMAIN held : held[n].router = router /\ held[n].conversation = conversation

PinAt(held, router, conversation) ==
    held[CHOOSE n \in DOMAIN held :
            held[n].router = router /\ held[n].conversation = conversation]

Without(held, router, conversation) ==
    SelectSeq(held, LAMBDA pin : ~(pin.router = router /\ pin.conversation = conversation))

Idle(pin, now) == now - pin.touched > IdleWindow

(* A pin is taken out before it is set again, so it stands last.            *)
Touched(held, router, conversation, child, now) ==
    Append(Without(held, router, conversation),
           [router |-> router, conversation |-> conversation, child |-> child, touched |-> now])

(* forgetPastTheBound                                                      *)
Excess(held) == IF Len(held) > Limit THEN Len(held) - Limit ELSE 0
WithinTheBound(held) == SubSeq(held, Excess(held) + 1, Len(held))
Forgotten(held) == {held[n].router : n \in 1..Excess(held)}

TallyAt(held, router) ==
    [child \in Children |->
        Cardinality({n \in DOMAIN held : held[n].router = router /\ held[n].child = child})]

(* keptChildrenWorthOpeningOn                                              *)
WorthOpeningOn(records, now) ==
    WithinTheBound(SortSeq(SelectSeq(records, LAMBDA pin : ~Idle(pin, now)),
                           LAMBDA one, other : one.touched < other.touched))

=============================================================================
