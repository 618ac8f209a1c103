---------------------------- MODULE RouteTable ----------------------------
(***************************************************************************)
(* The route table a virtual model serves through, and the pure readings   *)
(* the walk makes of it: packages/engine/src/routing/route-table.ts and    *)
(* policies.ts.  A table is a tree of routers over targets; the judge of a *)
(* conditional router is a target that stands beside the tree and is no    *)
(* router's child.  Names, provider models and display names are left out. *)
(***************************************************************************)
EXTENDS Naturals, FiniteSets, Sequences

CONSTANTS
    Nodes,      \* the route node ids of the table, judges included
    None,       \* no route node
    Entry,      \* routing.entry
    Table       \* routing.nodes

Modes == {"failover", "round-robin", "conditional"}

(* EngineRouteNode.  A target's router fields are inert and a router's     *)
(* standing is; `branches' are the children some label names, since the    *)
(* words themselves tell nothing apart here.                               *)
RouteNode ==
    [kind      : {"target", "router"},
     standing  : {"bound", "removed"},
     mode      : Modes,
     children  : Seq(Nodes),
     branches  : SUBSET Nodes,
     elseChild : Nodes \cup {None},
     judge     : Nodes \cup {None},
     rejudge   : BOOLEAN]

IsTarget(n) == Table[n].kind = "target"

Mode(n) == Table[n].mode

ChildrenOf(n) ==
    IF IsTarget(n) THEN {} ELSE {Table[n].children[i] : i \in DOMAIN Table[n].children}

Routers == {n \in Nodes : ~IsTarget(n)}

(* The nodes each node's subtree holds, itself among them: under a router  *)
(* the children of the routers there, which are the least set that holds   *)
(* it and every router that a router of the set holds.                     *)
Closed(set) == \A n \in set : ChildrenOf(n) \cap Routers \subseteq set

RoutersBelow(start) ==
    LET closed == {set \in SUBSET Routers : start \in set /\ Closed(set)}
    IN  {r \in Routers : \A set \in closed : r \in set}

Below ==
    [start \in Nodes |->
        IF IsTarget(start)
        THEN {start}
        ELSE {start} \cup UNION {ChildrenOf(r) : r \in RoutersBelow(start)}]

(* What gateway-routing.ts refuses to store a table without: children and  *)
(* the children a policy names resolve, no node has two parents and the    *)
(* entry none, a judge is a target no router holds, and whatever is no     *)
(* judge is reached from the entry.                                        *)
Servable ==
    /\ None \notin Nodes
    /\ IsFiniteSet(Nodes)
    /\ Entry \in Nodes
    /\ Table \in [Nodes -> RouteNode]
    /\ \A n \in Routers :
          /\ n \in Below[Entry]
          /\ Entry \notin ChildrenOf(n)
          /\ \A m \in Routers : ChildrenOf(m) \cap ChildrenOf(n) # {} => m = n
          /\ Mode(n) = "conditional" =>
                /\ Table[n].branches \subseteq ChildrenOf(n)
                /\ Table[n].elseChild \in ChildrenOf(n)
                /\ Table[n].judge \in Nodes
                /\ IsTarget(Table[n].judge)
                /\ \A r \in Routers : Table[n].judge \notin ChildrenOf(r)

ASSUME TableIsServable == Servable

(* The targets a descent from start reaches entering none of `passed'.     *)
TargetsPast(start, passed) ==
    {t \in Below[start] : IsTarget(t)} \ UNION {Below[n] : n \in Below[start] \cap passed}

Targets == {t \in Below[Entry] : IsTarget(t)}

CouldServe(n) == IsTarget(n) /\ Table[n].standing = "bound"

(* tableHoldsASiblingToSteerTo: more than one child could serve.           *)
HoldsASibling == Cardinality({t \in Targets : CouldServe(t)}) > 1

-----------------------------------------------------------------------------
(* The picks.  `can' is the set of children that can serve.                *)

NextFailoverChild(children, can, c) ==
    \E i \in DOMAIN children :
        /\ children[i] = c
        /\ c \in can
        /\ \A j \in DOMAIN children : children[j] \in can => i <= j

(* The eligible child whose rank is the turn, counted round.               *)
NextRoundRobinChild(children, can, cursor, c) ==
    LET eligible == {i \in DOMAIN children : children[i] \in can}
    IN  \E i \in eligible :
            /\ children[i] = c
            /\ Cardinality({j \in eligible : j < i}) = cursor % Cardinality(eligible)

(* The decided branch while it can serve, then the else child.             *)
NextConditionalChild(branch, can, c) ==
    /\ c \in can
    /\ \/ c = branch.decided
       \/ c = branch.elseChild /\ branch.decided \notin can
=============================================================================
