--------------------------- MODULE MCAttemptWalk ---------------------------
(* The walk over one small route table, each walk like every other.        *)
EXTENDS AttemptWalk, TLC

CONSTANTS entry, ladder, sorter, a, b, c, judge

Target == [kind |-> "target", standing |-> "bound", mode |-> "failover", children |-> <<>>,
           branches |-> {}, elseChild |-> None, judge |-> None, rejudge |-> FALSE]

RemovedTarget == [Target EXCEPT !.standing = "removed"]

Router(mode, children) == [Target EXCEPT !.kind = "router", !.mode = mode, !.children = children]

Conditional(children, branches, elseChild, rejudge) ==
    [Router("conditional", children) EXCEPT !.branches = branches, !.elseChild = elseChild,
                                            !.judge = judge, !.rejudge = rejudge]

(* A failover ladder over a rotation and a spare target.                   *)
LadderNodes == {entry, ladder, a, b, c}

LadderTable ==
    (entry :> Router("failover", <<ladder, c>>)) @@
    (ladder :> Router("round-robin", <<a, b>>)) @@
    [n \in {a, b, c} |-> Target]

(* A rotation over a judged router and a spare target.                     *)
SorterNodes == {entry, sorter, a, b, c, judge}

SorterTable ==
    (entry :> Router("round-robin", <<sorter, c>>)) @@
    (sorter :> Conditional(<<a, b>>, {a}, b, FALSE)) @@
    [n \in {a, b, c, judge} |-> Target]

(* One child left to serve: the other branch lost its account.             *)
LoneNodes == {entry, a, b, judge}

LoneTable ==
    (entry :> Conditional(<<a, b>>, {a}, b, FALSE)) @@
    (b :> RemovedTarget) @@
    [n \in {a, judge} |-> Target]

WalkSymmetry == Permutations(Walks)

=============================================================================
