------------------------- MODULE AttemptWalkProofs -------------------------
(***************************************************************************)
(* What holds of the attempt walk for every table, every number of         *)
(* requests and every bound on their attempts: first what one request is    *)
(* held to, then where a descent can take a walk, and what is left when it *)
(* takes it nowhere.                                                       *)
(***************************************************************************)
EXTENDS AttemptWalk, StreamCommit, TLAPS, WellFoundedInduction, FiniteSetTheorems

AtNode == {"descend", "judging", "called", "pick", "offered", "unjudged", "attempting"}
AtRouter == {"judging", "called", "pick", "offered", "unjudged"}

(* A walk past its arrival carries a request, and one inside a descent     *)
(* stands at a node of the table.                                          *)
Placed ==
    \A w \in Walks :
        /\ pc[w] # "idle" => request[w] \in Requests
        /\ pc[w] \in AtNode => at[w] \in Nodes
        /\ pc[w] \in AtRouter => ~IsTarget(at[w])

TypeInv == TypeOK /\ Placed

-----------------------------------------------------------------------------
(* What the table's shape gives.                                           *)

LEMMA TableFields ==
    ASSUME NEW n \in Nodes
    PROVE  /\ Table[n].children \in Seq(Nodes)
           /\ Table[n].branches \subseteq Nodes
           /\ Table[n].elseChild \in Nodes \cup {None}
           /\ Table[n].judge \in Nodes \cup {None}
BY TableIsServable DEF Servable, RouteNode

LEMMA ChildrenAreNodes ==
    ASSUME NEW n \in Nodes
    PROVE  ChildrenOf(n) \subseteq Nodes
BY TableFields DEF ChildrenOf

LEMMA ServingAreNodes ==
    ASSUME NEW w \in Walks, at[w] \in Nodes
    PROVE  Serving(w) \subseteq Nodes
BY ChildrenAreNodes DEF Serving

-----------------------------------------------------------------------------
(* What the shared shapes keep.                                            *)

LEMMA GotoType ==
    ASSUME NEW w \in Walks, NEW p \in Points, ControlTypeOK, Goto(w, p)
    PROVE  /\ drain' \in Walks \cup {None}
           /\ pc' \in [Walks -> Points]
           /\ pc'[w] = p
           /\ \A v \in Walks : v # w => pc'[v] = pc[v]
BY DEF Goto, ControlTypeOK

LEMMA SettlesType ==
    ASSUME NEW w \in Walks, NEW outcome \in Outcomes, NEW node \in Nodes \cup {None},
           NEW wait \in BOOLEAN, ControlTypeOK, Settles(w, outcome, node, wait), UNCHANGED request
    PROVE  /\ ControlTypeOK'
           /\ pc'[w] = "done"
           /\ \A v \in Walks : v # w => pc'[v] = pc[v]
<1>1. "done" \in Points
  BY DEF Points
<1>2. Goto(w, "done")
  BY DEF Settles
<1>3. /\ drain' \in Walks \cup {None}
      /\ pc' \in [Walks -> Points]
      /\ pc'[w] = "done"
      /\ \A v \in Walks : v # w => pc'[v] = pc[v]
  BY <1>1, <1>2, GotoType
<1>4. verdict' \in [Walks -> Verdicts]
  BY DEF Settles, ControlTypeOK, Verdicts
<1> QED
  BY <1>3, <1>4 DEF ControlTypeOK

LEMMA SettlesWithNoChildType ==
    ASSUME NEW w \in Walks, ControlTypeOK, SettlesWithNoChild(w), UNCHANGED request
    PROVE  /\ ControlTypeOK'
           /\ pc'[w] = "done"
           /\ \A v \in Walks : v # w => pc'[v] = pc[v]
<1>1. {"empty-router", "exhausted"} \subseteq Outcomes
  BY DEF Outcomes
<1>2. RetryTimeEveryTriedChildPromised(w) \in BOOLEAN
  BY DEF RetryTimeEveryTriedChildPromised
<1>3. CASE Targets = {}
  <2>1. Settles(w, "empty-router", None, FALSE)
    BY <1>3 DEF SettlesWithNoChild
  <2> QED
    BY <1>1, <2>1, SettlesType
<1>4. CASE Targets # {}
  <2>1. Settles(w, "exhausted", None, RetryTimeEveryTriedChildPromised(w))
    BY <1>4 DEF SettlesWithNoChild
  <2> QED
    BY <1>1, <1>2, <2>1, SettlesType
<1> QED
  BY <1>3, <1>4

(* Only the walk that steps has to be looked at anew.                      *)
LEMMA PlacedByOneWalk ==
    ASSUME Placed, NEW w \in Walks,
           \A v \in Walks : v # w => /\ pc'[v] = pc[v]
                                    /\ request'[v] = request[v]
                                    /\ at'[v] = at[v],
           pc'[w] # "idle" => request'[w] \in Requests,
           pc'[w] \in AtNode => at'[w] \in Nodes,
           pc'[w] \in AtRouter => ~IsTarget(at'[w])
    PROVE  Placed'
<1> SUFFICES ASSUME NEW v \in Walks
             PROVE  /\ pc'[v] # "idle" => request'[v] \in Requests
                    /\ pc'[v] \in AtNode => at'[v] \in Nodes
                    /\ pc'[v] \in AtRouter => ~IsTarget(at'[v])
  BY DEF Placed
<1>1. CASE v = w
  BY <1>1
<1>2. CASE v # w
  BY <1>2 DEF Placed
<1> QED
  BY <1>1, <1>2

(* A walk that ends leaves everything but its own standing and verdict as  *)
(* it found them.                                                          *)
LEMMA EndingKeepsType ==
    ASSUME TypeInv, NEW w \in Walks,
           \/ ReachTheLimit(w) \/ NowhereAtTarget(w) \/ RefuseChainedTurn(w)
           \/ AttemptAnswers(w) \/ AttemptThrows(w),
           Observe
    PROVE  TypeInv'
<1>1. /\ ControlTypeOK'
      /\ pc'[w] = "done"
      /\ \A v \in Walks : v # w => pc'[v] = pc[v]
      /\ pc[w] # "idle"
      /\ UNCHANGED <<memoryVars, request, descentVars, learnedVars, tries, judgeCalls, landed, spread>>
  <2>1. CASE ReachTheLimit(w) \/ NowhereAtTarget(w)
    BY <2>1, SettlesWithNoChildType DEF TypeInv, TypeOK, ReachTheLimit, NowhereAtTarget
  <2>2. CASE RefuseChainedTurn(w) \/ AttemptAnswers(w) \/ AttemptThrows(w)
    <3>1. at[w] \in Nodes \cup {None}
      BY DEF TypeInv, TypeOK, DescentTypeOK
    <3>2. PICK outcome \in Outcomes : Settles(w, outcome, at[w], FALSE)
      BY <2>2 DEF RefuseChainedTurn, AttemptAnswers, AttemptThrows, Outcomes
    <3>3. /\ pc[w] # "idle"
          /\ UNCHANGED <<memoryVars, request, descentVars, learnedVars,
                         tries, judgeCalls, landed, spread>>
      BY <2>2 DEF RefuseChainedTurn, AttemptAnswers, AttemptThrows
    <3> QED
      BY <3>1, <3>2, <3>3, SettlesType DEF TypeInv, TypeOK
  <2> QED
    BY <2>1, <2>2
<1>2. MemoryTypeOK' /\ DescentTypeOK' /\ LearnedTypeOK'
  BY <1>1 DEF TypeInv, TypeOK, MemoryTypeOK, DescentTypeOK, LearnedTypeOK,
              memoryVars, descentVars, learnedVars
<1>3. HistoryTypeOK'
  BY <1>1 DEF TypeInv, TypeOK, HistoryTypeOK, Observe
<1>4. Placed'
  BY <1>1, PlacedByOneWalk DEF TypeInv, Placed, descentVars, AtNode, AtRouter
<1> QED
  BY <1>1, <1>2, <1>3, <1>4 DEF TypeInv, TypeOK

LEMMA GoesOnType ==
    ASSUME ControlTypeOK, NEW w \in Walks, NEW p \in Points, Goto(w, p),
           UNCHANGED verdict, request' \in [Walks -> Requests \cup {NoRequest}]
    PROVE  /\ ControlTypeOK'
           /\ pc'[w] = p
           /\ \A v \in Walks : v # w => pc'[v] = pc[v]
BY GotoType DEF ControlTypeOK

LEMMA ArriveKeepsType ==
    ASSUME TypeInv, NEW w \in Walks, Arrive(w), Observe
    PROVE  TypeInv'
<1> USE DEF TypeInv, TypeOK
<1>1. "loop" \in Points
  BY DEF Points
<1>2. /\ request' \in [Walks -> Requests \cup {NoRequest}]
      /\ request'[w] \in Requests
      /\ \A v \in Walks : v # w => request'[v] = request[v]
  BY DEF Arrive, ControlTypeOK
<1>3. /\ ControlTypeOK'
      /\ pc'[w] = "loop"
      /\ \A v \in Walks : v # w => pc'[v] = pc[v]
  BY <1>1, <1>2, GoesOnType DEF Arrive
<1>4. MemoryTypeOK' /\ DescentTypeOK' /\ LearnedTypeOK'
  BY DEF Arrive, MemoryTypeOK, DescentTypeOK, LearnedTypeOK, memoryVars, descentVars, learnedVars
<1>5. HistoryTypeOK'
  BY DEF Arrive, HistoryTypeOK, Observe
<1>6. Placed'
  BY <1>2, <1>3, PlacedByOneWalk DEF Arrive, descentVars, AtNode, AtRouter
<1> QED
  BY <1>3, <1>4, <1>5, <1>6

LEMMA BeginDescentKeepsType ==
    ASSUME TypeInv, NEW w \in Walks, BeginDescent(w), Observe
    PROVE  TypeInv'
<1> USE DEF TypeInv, TypeOK
<1>1. "descend" \in Points
  BY DEF Points
<1>2. Entry \in Nodes
  BY TableIsServable DEF Servable
<1>3. /\ ControlTypeOK'
      /\ pc'[w] = "descend"
      /\ \A v \in Walks : v # w => pc'[v] = pc[v]
  BY <1>1, GoesOnType DEF BeginDescent, ControlTypeOK
<1>4. DescentTypeOK'
  BY <1>2 DEF BeginDescent, DescentTypeOK
<1>5. MemoryTypeOK' /\ LearnedTypeOK'
  BY DEF BeginDescent, MemoryTypeOK, LearnedTypeOK, memoryVars, learnedVars
<1>6. HistoryTypeOK'
  BY DEF BeginDescent, HistoryTypeOK, Observe
<1>7. at'[w] = Entry /\ \A v \in Walks : v # w => at'[v] = at[v]
  BY DEF BeginDescent, DescentTypeOK
<1>8. Placed'
  BY <1>2, <1>3, <1>7, PlacedByOneWalk DEF BeginDescent, Placed, AtRouter
<1> QED
  BY <1>3, <1>4, <1>5, <1>6, <1>8

LEMMA StepAtTargetKeepsType ==
    ASSUME TypeInv, NEW w \in Walks, StepAtTarget(w), Observe
    PROVE  TypeInv'
<1> USE DEF TypeInv, TypeOK
<1>1. "attempting" \in Points
  BY DEF Points
<1>2. at[w] \in Nodes
  BY DEF StepAtTarget, Placed, AtNode
<1>3. /\ ControlTypeOK'
      /\ pc'[w] = "attempting"
      /\ \A v \in Walks : v # w => pc'[v] = pc[v]
  BY <1>1, GoesOnType DEF StepAtTarget, ControlTypeOK
<1>4. MemoryTypeOK' /\ LearnedTypeOK'
  BY DEF StepAtTarget, MemoryTypeOK, LearnedTypeOK, memoryVars, learnedVars
<1>5. DescentTypeOK'
  BY DEF StepAtTarget, DescentTypeOK
<1>6. HistoryTypeOK'
  <2>1. tries' \in [Walks -> Seq(Nodes)]
    BY <1>2 DEF StepAtTarget, HistoryTypeOK
  <2>2. landed' \subseteq [walk : Walks, try : Nat, router : Nodes, was : Nat]
    <3>1. \A t \in turns[w] : t.router \in Nodes /\ t.was \in Nat
      BY DEF DescentTypeOK, Turn
    <3>2. Len(tries[w]) + 1 \in Nat
      BY DEF HistoryTypeOK
    <3> QED
      BY <3>1, <3>2 DEF StepAtTarget, HistoryTypeOK
  <2> QED
    BY <2>1, <2>2 DEF StepAtTarget, HistoryTypeOK, Observe
<1>7. Placed'
  BY <1>2, <1>3, PlacedByOneWalk DEF StepAtTarget, Placed, AtRouter
<1> QED
  BY <1>3, <1>4, <1>5, <1>6, <1>7

LEMMA FollowKeptChildKeepsType ==
    ASSUME TypeInv, NEW w \in Walks, FollowKeptChild(w), Observe
    PROVE  TypeInv'
<1> USE DEF TypeInv, TypeOK
<1>1. "descend" \in Points
  BY DEF Points
<1>2. at[w] \in Nodes
  BY DEF FollowKeptChild, Placed, AtNode
<1> DEFINE kept == PinnedChildAt(w, at[w])
<1>3. kept \in Nodes
  <2>1. kept # None
    BY DEF FollowKeptChild
  <2>2. Apart \subseteq Conversations
    BY WalkAssumption
  <2> QED
    BY <1>2, <2>1, <2>2 DEF PinnedChildAt, MemoryTypeOK
<1>4. /\ ControlTypeOK'
      /\ pc'[w] = "descend"
      /\ \A v \in Walks : v # w => pc'[v] = pc[v]
  BY <1>1, GoesOnType DEF FollowKeptChild, ControlTypeOK
<1>5. MemoryTypeOK' /\ LearnedTypeOK'
  BY DEF FollowKeptChild, MemoryTypeOK, LearnedTypeOK, memoryVars, learnedVars
<1>6. DescendsTo(w, kept)
  BY DEF FollowKeptChild
<1>7. DescentTypeOK'
  BY <1>3, <1>6 DEF DescendsTo, FollowKeptChild, DescentTypeOK
<1>8. HistoryTypeOK'
  BY DEF FollowKeptChild, HistoryTypeOK, Observe
<1>9. Placed'
  <2>1. at'[w] = kept /\ \A v \in Walks : v # w => at'[v] = at[v]
    BY <1>6 DEF DescendsTo, DescentTypeOK
  <2> QED
    BY <1>3, <1>4, <2>1, PlacedByOneWalk DEF FollowKeptChild, Placed, AtRouter
<1> QED
  BY <1>4, <1>5, <1>7, <1>8, <1>9

(* What each walk has decided stays typed, whoever decides.                *)
LEMMA DecidesType ==
    ASSUME TypeInv, NEW w \in Walks, at[w] \in Nodes, NEW child \in Nodes \cup {None},
           NEW judged \in BOOLEAN, Decides(w, child, judged), UNCHANGED <<request, verdict>>
    PROVE  /\ ControlTypeOK'
           /\ pc'[w] \in {"pick", "unjudged"}
           /\ \A v \in Walks : v # w => pc'[v] = pc[v]
           /\ decided' \in [Walks -> [Nodes -> Choices]]
           /\ branch' \in [Walks -> Choices]
<1> USE DEF TypeInv, TypeOK
<1> DEFINE next == IF judged THEN "pick" ELSE "unjudged"
           choice == [decided |-> child, elseChild |-> Table[at[w]].elseChild, judged |-> judged]
<1>1. next \in Points /\ next \in {"pick", "unjudged"}
  BY DEF Points
<1>2. Goto(w, next)
  BY DEF Decides
<1>3. choice \in Choices
  BY TableFields DEF Choices
<1>4. /\ decided' = [decided EXCEPT ![w][at[w]] = choice]
      /\ branch' = [branch EXCEPT ![w] = choice]
  BY DEF Decides
<1> HIDE DEF next, choice
<1>5. /\ ControlTypeOK'
      /\ pc'[w] = next
      /\ \A v \in Walks : v # w => pc'[v] = pc[v]
  BY <1>1, <1>2, GoesOnType DEF ControlTypeOK
<1>6. decided' \in [Walks -> [Nodes -> Choices]] /\ branch' \in [Walks -> Choices]
  BY <1>3, <1>4 DEF DescentTypeOK, LearnedTypeOK
<1> QED
  BY <1>1, <1>5, <1>6

LEMMA AskableRouterPlaced ==
    ASSUME TypeInv, NEW w \in Walks, AtAskableRouter(w)
    PROVE  /\ at[w] \in Nodes
           /\ ~IsTarget(at[w])
           /\ request[w] \in Requests
           /\ pc[w] = "descend"
BY DEF AtAskableRouter, TypeInv, Placed, AtNode

LEMMA AskRouterKeepsType ==
    ASSUME TypeInv, NEW w \in Walks, AskRouter(w), Observe
    PROVE  TypeInv'
<1> USE DEF TypeInv, TypeOK
<1>1. "pick" \in Points
  BY DEF Points
<1>2. at[w] \in Nodes /\ ~IsTarget(at[w]) /\ request[w] \in Requests
  BY AskableRouterPlaced DEF AskRouter
<1>3. /\ ControlTypeOK'
      /\ pc'[w] = "pick"
      /\ \A v \in Walks : v # w => pc'[v] = pc[v]
  BY <1>1, GoesOnType DEF AskRouter, ControlTypeOK
<1>4. SettledBranch(w, at[w]) \in Choices
  BY <1>2, TableFields DEF SettledBranch, Choices, LearnedTypeOK
<1>5. DescentTypeOK'
  BY <1>4 DEF AskRouter, DescentTypeOK
<1>6. MemoryTypeOK' /\ LearnedTypeOK'
  BY DEF AskRouter, MemoryTypeOK, LearnedTypeOK, memoryVars, learnedVars
<1>7. HistoryTypeOK'
  BY DEF AskRouter, HistoryTypeOK, Observe
<1>8. Placed'
  BY <1>2, <1>3, PlacedByOneWalk DEF AskRouter
<1> QED
  BY <1>3, <1>5, <1>6, <1>7, <1>8

(* The two ways a branch is settled without asking the judge.              *)
LEMMA DecidingUnaskedKeepsType ==
    ASSUME TypeInv, NEW w \in Walks, FollowPinnedBranch(w) \/ DeclineToAsk(w), Observe
    PROVE  TypeInv'
<1> USE DEF TypeInv, TypeOK
<1>1. at[w] \in Nodes /\ ~IsTarget(at[w]) /\ request[w] \in Requests
  BY AskableRouterPlaced DEF FollowPinnedBranch, DeclineToAsk, MustDecide
<1>2. UNCHANGED <<memoryVars, request, at, path, turns, offered, attempted, spent, asks, verdict,
                  tries, judgeCalls, landed, spread>>
  BY DEF FollowPinnedBranch, DeclineToAsk
<1>3. /\ ControlTypeOK'
      /\ pc'[w] \in {"pick", "unjudged"}
      /\ \A v \in Walks : v # w => pc'[v] = pc[v]
      /\ decided' \in [Walks -> [Nodes -> Choices]]
      /\ branch' \in [Walks -> Choices]
  <2>1. CASE FollowPinnedBranch(w)
    <3>1. PinnedBranch(w) \in Nodes \cup {None}
      BY <1>1 DEF PinnedBranch, MemoryTypeOK, Requests
    <3>2. Decides(w, PinnedBranch(w), TRUE)
      BY <2>1 DEF FollowPinnedBranch
    <3> QED
      BY <1>1, <1>2, <3>1, <3>2, DecidesType
  <2>2. CASE DeclineToAsk(w)
    <3>1. Table[at[w]].elseChild \in Nodes \cup {None}
      BY <1>1, TableFields
    <3>2. Decides(w, Table[at[w]].elseChild, FALSE)
      BY <2>2 DEF DeclineToAsk
    <3> QED
      BY <1>1, <1>2, <3>1, <3>2, DecidesType
  <2> QED
    BY <2>1, <2>2
<1>4. MemoryTypeOK'
  BY <1>2 DEF MemoryTypeOK, memoryVars
<1>5. DescentTypeOK' /\ LearnedTypeOK'
  BY <1>2, <1>3 DEF DescentTypeOK, LearnedTypeOK
<1>6. HistoryTypeOK'
  BY <1>2 DEF HistoryTypeOK, Observe
<1>7. Placed'
  BY <1>1, <1>2, <1>3, PlacedByOneWalk
<1> QED
  BY <1>3, <1>4, <1>5, <1>6, <1>7

LEMMA AskJudgeKeepsType ==
    ASSUME TypeInv, NEW w \in Walks, AskJudge(w), Observe
    PROVE  TypeInv'
<1> USE DEF TypeInv, TypeOK
<1>1. "judging" \in Points
  BY DEF Points
<1>2. at[w] \in Nodes /\ ~IsTarget(at[w]) /\ request[w] \in Requests
  BY AskableRouterPlaced DEF AskJudge, MustDecide
<1>3. /\ ControlTypeOK'
      /\ pc'[w] = "judging"
      /\ \A v \in Walks : v # w => pc'[v] = pc[v]
  BY <1>1, GoesOnType DEF AskJudge, ControlTypeOK
<1>4. MemoryTypeOK' /\ DescentTypeOK'
  BY DEF AskJudge, MemoryTypeOK, DescentTypeOK, memoryVars, descentVars
<1>5. LearnedTypeOK'
  BY DEF AskJudge, LearnedTypeOK
<1>6. HistoryTypeOK'
  BY DEF AskJudge, HistoryTypeOK, Observe
<1>7. Placed'
  BY <1>2, <1>3, PlacedByOneWalk DEF AskJudge, descentVars
<1> QED
  BY <1>3, <1>4, <1>5, <1>6, <1>7

LEMMA CallJudgeKeepsType ==
    ASSUME TypeInv, NEW w \in Walks, CallJudge(w), Observe
    PROVE  TypeInv'
<1> USE DEF TypeInv, TypeOK
<1>1. "called" \in Points
  BY DEF Points
<1>2. at[w] \in Nodes /\ ~IsTarget(at[w]) /\ request[w] \in Requests
  BY DEF CallJudge, Placed, AtNode, AtRouter
<1>3. /\ ControlTypeOK'
      /\ pc'[w] = "called"
      /\ \A v \in Walks : v # w => pc'[v] = pc[v]
  BY <1>1, GoesOnType DEF CallJudge, ControlTypeOK
<1>4. MemoryTypeOK' /\ DescentTypeOK' /\ LearnedTypeOK'
  BY DEF CallJudge, MemoryTypeOK, DescentTypeOK, LearnedTypeOK, memoryVars, descentVars, learnedVars
<1>5. HistoryTypeOK'
  <2>1. judgeCalls' \in [Walks -> [Nodes -> Nat]]
    BY <1>2 DEF CallJudge, HistoryTypeOK
  <2> QED
    BY <2>1 DEF CallJudge, HistoryTypeOK, Observe
<1>6. Placed'
  BY <1>2, <1>3, PlacedByOneWalk DEF CallJudge, descentVars
<1> QED
  BY <1>3, <1>4, <1>5, <1>6

LEMMA JudgeReadingsType ==
    ASSUME NEW r \in Nodes, NEW reading \in JudgeReadings(r)
    PROVE  /\ reading.heard \in {"unseated", "label", "declined", "unworn", "timeout", "refusal"}
           /\ reading.heard = "label" => reading.names \in Nodes
           /\ reading.cools \in Standings
BY TableFields DEF JudgeReadings, Standings

LEMMA JudgeAnswersKeepsType ==
    ASSUME TypeInv, NEW w \in Walks, JudgeAnswers(w), Observe
    PROVE  TypeInv'
<1> USE DEF TypeInv, TypeOK
<1>1. at[w] \in Nodes /\ ~IsTarget(at[w]) /\ request[w] \in Requests
  BY DEF JudgeAnswers, Placed, AtNode, AtRouter
<1>2. UNCHANGED <<cursors, rotationPins, request, at, path, turns, offered, attempted, spent,
                  verdict, tries, judgeCalls, landed, spread>>
  BY DEF JudgeAnswers
<1>3. PICK reading \in JudgeReadings(at[w]) :
          /\ JudgeCooled(at[w], reading)
          /\ \/ /\ reading.heard = "label"
                /\ Decides(w, reading.names, TRUE)
                /\ PinnedTo(w, reading.names)
                /\ UNCHANGED asks
             \/ /\ \/ reading.heard = "declined"
                   \/ reading.heard = "unworn" /\ asks[w] = 2
                /\ Decides(w, Table[at[w]].elseChild, TRUE)
                /\ UNCHANGED <<pins, asks>>
             \/ /\ reading.heard = "unworn" /\ asks[w] = 1
                /\ asks' = [asks EXCEPT ![w] = 2]
                /\ Goto(w, "judging")
                /\ UNCHANGED <<pins, decided, branch>>
             \/ /\ reading.heard \in {"refusal", "timeout", "unseated"}
                /\ Decides(w, Table[at[w]].elseChild, FALSE)
                /\ UNCHANGED <<pins, asks>>
  BY DEF JudgeAnswers
<1>4. /\ reading.heard = "label" => reading.names \in Nodes
      /\ reading.cools \in Standings
      /\ Table[at[w]].elseChild \in Nodes \cup {None}
  BY <1>1, JudgeReadingsType, TableFields
<1>5. ledger' \in [Ledgers -> [Nodes -> Standings]]
  BY <1>3, <1>4 DEF JudgeCooled, MemoryTypeOK
<1>6. /\ ControlTypeOK'
      /\ pc'[w] \in {"pick", "unjudged", "judging"}
      /\ \A v \in Walks : v # w => pc'[v] = pc[v]
      /\ decided' \in [Walks -> [Nodes -> Choices]]
      /\ branch' \in [Walks -> Choices]
  <2>1. CASE \E child \in Nodes \cup {None}, judged \in BOOLEAN : Decides(w, child, judged)
    BY <1>1, <1>2, <2>1, DecidesType
  <2>2. CASE Goto(w, "judging") /\ UNCHANGED <<pins, decided, branch>>
    <3>1. "judging" \in Points
      BY DEF Points
    <3> QED
      BY <1>2, <2>2, <3>1, GoesOnType DEF ControlTypeOK, DescentTypeOK, LearnedTypeOK
  <2> QED
    BY <1>3, <1>4, <2>1, <2>2
<1>7. pins' \in [Conversations -> [Nodes -> Nodes \cup {None}]]
  <2>1. \/ pins' = pins
        \/ PinnedTo(w, reading.names) /\ reading.names \in Nodes
    BY <1>3, <1>4
  <2>2. pins \in [Conversations -> [Nodes -> Nodes \cup {None}]]
    BY DEF MemoryTypeOK
  <2>3. ASSUME NEW c, NEW r, NEW child \in Nodes, pins' = [pins EXCEPT ![c][r] = child]
        PROVE  pins' \in [Conversations -> [Nodes -> Nodes \cup {None}]]
    BY ONLY <2>2, <2>3
  <2> QED
    BY ONLY <2>1, <2>2, <2>3 DEF PinnedTo
<1>8. asks' \in [Walks -> 0..2]
  <2>1. asks' = asks \/ asks' = [asks EXCEPT ![w] = 2]
    BY <1>3
  <2> QED
    BY <2>1 DEF LearnedTypeOK
<1>10. MemoryTypeOK' /\ DescentTypeOK' /\ LearnedTypeOK'
  BY <1>2, <1>5, <1>6, <1>7, <1>8 DEF MemoryTypeOK, DescentTypeOK, LearnedTypeOK
<1>11. HistoryTypeOK'
  BY <1>2 DEF HistoryTypeOK, Observe
<1>12. Placed'
  BY <1>1, <1>2, <1>6, PlacedByOneWalk
<1> QED
  BY <1>6, <1>10, <1>11, <1>12

LEMMA CursorsHandedBackType ==
    ASSUME TypeInv, NEW w \in Walks, CursorsHandedBack(w)
    PROVE  cursors' \in [Nodes -> Nat]
<1>1. \A t \in turns[w] : t.was \in Nat
  BY DEF TypeInv, TypeOK, DescentTypeOK, Turn
<1>2. ASSUME NEW r \in Nodes, \E t \in turns[w] : t.router = r /\ cursors[r] = t.was + 1
      PROVE  cursors[r] - 1 \in Nat
  BY <1>1, <1>2
<1>3. \A r \in Nodes : cursors[r] \in Nat
  BY DEF TypeInv, TypeOK, MemoryTypeOK
<1> QED
  BY <1>2, <1>3 DEF CursorsHandedBack

LEMMA RefuseUnjudgedKeepsType ==
    ASSUME TypeInv, NEW w \in Walks, RefuseUnjudged(w), Observe
    PROVE  TypeInv'
<1> USE DEF TypeInv, TypeOK
<1>1. at[w] \in Nodes /\ "unjudged" \in Outcomes
  BY DEF RefuseUnjudged, Placed, AtNode, Outcomes
<1>2. /\ ControlTypeOK'
      /\ pc'[w] = "done"
      /\ \A v \in Walks : v # w => pc'[v] = pc[v]
  BY <1>1, SettlesType DEF RefuseUnjudged
<1>3. cursors' \in [Nodes -> Nat]
  BY CursorsHandedBackType DEF RefuseUnjudged, TurnsHandedBack
<1>4. MemoryTypeOK' /\ DescentTypeOK' /\ LearnedTypeOK'
  BY <1>3 DEF RefuseUnjudged, TurnsHandedBack, MemoryTypeOK, DescentTypeOK, LearnedTypeOK, learnedVars
<1>5. HistoryTypeOK'
  BY DEF RefuseUnjudged, HistoryTypeOK, Observe
<1>6. Placed'
  BY <1>2, PlacedByOneWalk DEF RefuseUnjudged, Placed, AtNode, AtRouter
<1> QED
  BY <1>2, <1>4, <1>5, <1>6

LEMMA OfferChildKeepsType ==
    ASSUME TypeInv, NEW w \in Walks, OfferChild(w), Observe
    PROVE  TypeInv'
<1> USE DEF TypeInv, TypeOK
<1>1. "offered" \in Points
  BY DEF Points
<1>2. at[w] \in Nodes /\ ~IsTarget(at[w]) /\ request[w] \in Requests
  BY DEF OfferChild, Placed, AtNode, AtRouter
<1>3. /\ ControlTypeOK'
      /\ pc'[w] = "offered"
      /\ \A v \in Walks : v # w => pc'[v] = pc[v]
  BY <1>1, GoesOnType DEF OfferChild, ControlTypeOK
<1>4. cursors' \in [Nodes -> Nat]
  BY <1>2 DEF OfferChild, MemoryTypeOK
<1>5. MemoryTypeOK' /\ LearnedTypeOK'
  BY <1>4 DEF OfferChild, MemoryTypeOK, LearnedTypeOK, learnedVars
<1>6. DescentTypeOK'
  <2>1. turns' \in [Walks -> SUBSET Turn]
    <3>1. [router |-> at[w], was |-> cursors[at[w]]] \in Turn
      BY <1>2 DEF MemoryTypeOK, Turn
    <3> QED
      BY <3>1 DEF OfferChild, DescentTypeOK
  <2>2. offered' \in [Walks -> Nodes \cup {None}]
    BY <1>2, ServingAreNodes DEF OfferChild, DescentTypeOK
  <2> QED
    BY <2>1, <2>2 DEF OfferChild, DescentTypeOK
<1>7. HistoryTypeOK'
  BY DEF OfferChild, HistoryTypeOK, Observe
<1>8. Placed'
  BY <1>2, <1>3, PlacedByOneWalk DEF OfferChild
<1> QED
  BY <1>3, <1>5, <1>6, <1>7, <1>8

LEMMA OfferNothingKeepsType ==
    ASSUME TypeInv, NEW w \in Walks, OfferNothing(w), Observe
    PROVE  TypeInv'
<1> USE DEF TypeInv, TypeOK
<1>1. "offered" \in Points
  BY DEF Points
<1>2. at[w] \in Nodes /\ ~IsTarget(at[w]) /\ request[w] \in Requests
  BY DEF OfferNothing, Placed, AtNode, AtRouter
<1>3. /\ ControlTypeOK'
      /\ pc'[w] = "offered"
      /\ \A v \in Walks : v # w => pc'[v] = pc[v]
  BY <1>1, GoesOnType DEF OfferNothing, ControlTypeOK
<1>4. MemoryTypeOK' /\ DescentTypeOK' /\ LearnedTypeOK'
  BY DEF OfferNothing, MemoryTypeOK, DescentTypeOK, LearnedTypeOK, memoryVars, learnedVars
<1>5. HistoryTypeOK'
  BY DEF OfferNothing, HistoryTypeOK, Observe
<1>6. Placed'
  BY <1>2, <1>3, PlacedByOneWalk DEF OfferNothing
<1> QED
  BY <1>3, <1>4, <1>5, <1>6

LEMMA EntryReplacedType ==
    ASSUME NEW D, NEW R, NEW S, NEW f \in [D -> [R -> S]], NEW d, NEW r, NEW e \in S
    PROVE  [f EXCEPT ![d][r] = e] \in [D -> [R -> S]]
OBVIOUS

LEMMA DescendToOfferedKeepsType ==
    ASSUME TypeInv, NEW w \in Walks, DescendToOffered(w), Observe
    PROVE  TypeInv'
<1> USE DEF TypeInv, TypeOK
<1>1. "descend" \in Points /\ Undecided \in Choices
  BY DEF Points, Undecided, Choices
<1>2. at[w] \in Nodes /\ offered[w] \in Nodes /\ request[w] \in Requests
  BY DEF DescendToOffered, Placed, AtNode, DescentTypeOK
<1>3. /\ ControlTypeOK'
      /\ pc'[w] = "descend"
      /\ \A v \in Walks : v # w => pc'[v] = pc[v]
  BY <1>1, GoesOnType DEF DescendToOffered, ControlTypeOK
<1>4. rotationPins' \in [Conversations -> [Nodes -> Nodes \cup {None}]]
  <2>1. \/ rotationPins' = rotationPins
        \/ rotationPins' = [rotationPins EXCEPT ![request[w].conversation][at[w]] = offered[w]]
    BY DEF DescendToOffered
  <2>2. offered[w] \in Nodes \cup {None}
    BY <1>2
  <2>3. rotationPins \in [Conversations -> [Nodes -> Nodes \cup {None}]]
    BY DEF MemoryTypeOK
  <2>4. [rotationPins EXCEPT ![request[w].conversation][at[w]] = offered[w]]
            \in [Conversations -> [Nodes -> Nodes \cup {None}]]
    BY <2>2, <2>3, EntryReplacedType
  <2> QED
    BY <2>1, <2>3, <2>4
<1>5. spread' \in [Conversations -> [Nodes -> SUBSET Nodes]]
  <2>1. \/ spread' = spread
        \/ spread' = [spread EXCEPT ![request[w].conversation][at[w]] = @ \cup {offered[w]}]
    BY DEF DescendToOffered
  <2>2. CASE spread' = spread
    BY <2>2 DEF HistoryTypeOK
  <2>3. CASE spread' = [spread EXCEPT ![request[w].conversation][at[w]] = @ \cup {offered[w]}]
    <3>1. request[w].conversation \in Conversations
      BY <1>2 DEF Requests
    <3>2. spread[request[w].conversation][at[w]] \cup {offered[w]} \in SUBSET Nodes
      BY <1>2, <3>1 DEF HistoryTypeOK
    <3> QED
      BY <2>3, <3>2, EntryReplacedType DEF HistoryTypeOK
  <2> QED
    BY <2>1, <2>2, <2>3
<1>6. MemoryTypeOK' /\ LearnedTypeOK'
  BY <1>4 DEF DescendToOffered, MemoryTypeOK, LearnedTypeOK, learnedVars
<1>7. DescentTypeOK'
  BY <1>1, <1>2 DEF DescendToOffered, DescendsTo, DescentTypeOK
<1>8. HistoryTypeOK'
  BY <1>5 DEF DescendToOffered, HistoryTypeOK, Observe
<1>9. Placed'
  <2>1. at'[w] = offered[w] /\ \A v \in Walks : v # w => at'[v] = at[v]
    BY DEF DescendToOffered, DescendsTo, DescentTypeOK
  <2> QED
    BY <1>2, <1>3, <2>1, PlacedByOneWalk DEF DescendToOffered, AtRouter
<1> QED
  BY <1>3, <1>6, <1>7, <1>8, <1>9

(* A descent that starts over stands nowhere.                              *)
LEMMA FreshDescentType ==
    ASSUME DescentTypeOK, NEW w \in Walks, FreshDescent(w)
    PROVE  /\ DescentTypeOK'
           /\ turns' = [turns EXCEPT ![w] = {}]
           /\ \A v \in Walks : v # w => at'[v] = at[v]
BY DEF FreshDescent, DescentTypeOK, Undecided, Choices

LEMMA DescendAgainKeepsType ==
    ASSUME TypeInv, NEW w \in Walks, DescendAgain(w), Observe
    PROVE  TypeInv'
<1> USE DEF TypeInv, TypeOK
<1>1. "loop" \in Points
  BY DEF Points
<1>2. at[w] \in Nodes /\ request[w] \in Requests
  BY DEF DescendAgain, Placed, AtNode
<1>3. /\ ControlTypeOK'
      /\ pc'[w] = "loop"
      /\ \A v \in Walks : v # w => pc'[v] = pc[v]
  BY <1>1, GoesOnType DEF DescendAgain, ControlTypeOK
<1>4. cursors' \in [Nodes -> Nat]
  BY CursorsHandedBackType DEF DescendAgain
<1>5. MemoryTypeOK' /\ LearnedTypeOK'
  BY <1>2, <1>4 DEF DescendAgain, SpentPast, MemoryTypeOK, LearnedTypeOK
<1>6. DescentTypeOK' /\ \A v \in Walks : v # w => at'[v] = at[v]
  BY FreshDescentType DEF DescendAgain
<1>7. HistoryTypeOK'
  BY DEF DescendAgain, HistoryTypeOK, Observe
<1>8. Placed'
  BY <1>2, <1>3, <1>6, PlacedByOneWalk DEF DescendAgain, AtNode, AtRouter
<1> QED
  BY <1>3, <1>5, <1>6, <1>7, <1>8

LEMMA NowherePastTheRouterKeepsType ==
    ASSUME TypeInv, NEW w \in Walks, NowherePastTheRouter(w), Observe
    PROVE  TypeInv'
<1> USE DEF TypeInv, TypeOK
<1>1. /\ ControlTypeOK'
      /\ pc'[w] = "done"
      /\ \A v \in Walks : v # w => pc'[v] = pc[v]
  BY SettlesWithNoChildType DEF NowherePastTheRouter
<1>2. cursors' \in [Nodes -> Nat]
  BY CursorsHandedBackType DEF NowherePastTheRouter, TurnsHandedBack
<1>3. MemoryTypeOK' /\ DescentTypeOK' /\ LearnedTypeOK'
  BY <1>2 DEF NowherePastTheRouter, TurnsHandedBack, MemoryTypeOK, DescentTypeOK, LearnedTypeOK,
              learnedVars
<1>4. HistoryTypeOK'
  BY DEF NowherePastTheRouter, HistoryTypeOK, Observe
<1>5. Placed'
  BY <1>1, PlacedByOneWalk DEF NowherePastTheRouter, Placed, AtNode, AtRouter
<1> QED
  BY <1>1, <1>3, <1>4, <1>5

LEMMA ReadingsType ==
    ASSUME NEW n, NEW reading \in AttemptReadings(n)
    PROVE  StandsDown(reading) \in Standings /\ NoteOf(reading) \in Notes
BY DEF StandsDown, NoteOf, Standings, Notes

LEMMA MoveOnKeepsType ==
    ASSUME TypeInv, NEW w \in Walks, MoveOn(w), Observe
    PROVE  TypeInv'
<1> USE DEF TypeInv, TypeOK
<1>1. "loop" \in Points
  BY DEF Points
<1>2. request[w] \in Requests
  BY DEF MoveOn, Placed
<1>3. /\ ControlTypeOK'
      /\ pc'[w] = "loop"
      /\ \A v \in Walks : v # w => pc'[v] = pc[v]
  BY <1>1, GoesOnType DEF MoveOn, ControlTypeOK
<1>4. PICK reading \in AttemptReadings(at[w]) :
          /\ ledger' = [ledger EXCEPT ![LedgerOf(w)][at[w]] = StandsDown(reading)]
          /\ attempted' = [attempted EXCEPT ![w][at[w]] = NoteOf(reading)]
  BY DEF MoveOn
<1>5. StandsDown(reading) \in Standings /\ NoteOf(reading) \in Notes
  BY ReadingsType
<1>6. MemoryTypeOK' /\ LearnedTypeOK'
  BY <1>4, <1>5 DEF MoveOn, MemoryTypeOK, LearnedTypeOK
<1>7. DescentTypeOK' /\ \A v \in Walks : v # w => at'[v] = at[v]
  BY FreshDescentType DEF MoveOn
<1>8. HistoryTypeOK'
  BY DEF MoveOn, HistoryTypeOK, Observe
<1>9. Placed'
  BY <1>2, <1>3, <1>7, PlacedByOneWalk DEF MoveOn, AtNode, AtRouter
<1> QED
  BY <1>3, <1>6, <1>7, <1>8, <1>9

(* What passes on its own touches the shared memory only.                  *)
LEMMA PassingKeepsType ==
    ASSUME TypeInv, MemoryPasses, Observe
    PROVE  TypeInv'
<1> USE DEF TypeInv, TypeOK
<1>1. UNCHANGED <<drain, pc, request, descentVars, learnedVars, verdict,
                  tries, judgeCalls, landed, spread>>
  BY DEF MemoryPasses, CoolingEnds, PinForgotten, RotationPinForgotten
<1>2. MemoryTypeOK'
  <2>1. CASE \E l \in Ledgers, n \in Nodes : CoolingEnds(l, n)
    BY <2>1 DEF CoolingEnds, MemoryTypeOK, Standings
  <2>2. CASE \E c \in Conversations, r \in Nodes : PinForgotten(c, r) \/ RotationPinForgotten(c, r)
    <3>1. PICK c \in Conversations, r \in Nodes : PinForgotten(c, r) \/ RotationPinForgotten(c, r)
      BY <2>2
    <3>2. CASE PinForgotten(c, r)
      BY <3>2 DEF PinForgotten, MemoryTypeOK
    <3>3. CASE RotationPinForgotten(c, r)
      BY <3>3 DEF RotationPinForgotten, MemoryTypeOK
    <3> QED
      BY <3>1, <3>2, <3>3
  <2> QED
    BY <2>1, <2>2 DEF MemoryPasses
<1>3. ControlTypeOK' /\ DescentTypeOK' /\ LearnedTypeOK'
  BY <1>1 DEF ControlTypeOK, DescentTypeOK, LearnedTypeOK, descentVars, learnedVars
<1>4. HistoryTypeOK'
  BY <1>1 DEF HistoryTypeOK, Observe
<1>5. Placed'
  BY <1>1 DEF Placed, descentVars, IsTarget
<1> QED
  BY <1>2, <1>3, <1>4, <1>5

LEMMA InitTyped == Init => TypeInv
<1> SUFFICES ASSUME Init
             PROVE  TypeInv
  OBVIOUS
<1>1. \A n \in Nodes : n # None
  BY TableIsServable DEF Servable
<1>2. rotationPins \in [Conversations -> [Nodes -> Nodes \cup {None}]]
  <2>1. PICK restored \in SUBSET Restorable : rotationPins = RestoredPins(restored)
    BY DEF Init
  <2> QED
    BY <2>1 DEF RestoredPins
<1>3. MemoryTypeOK
  BY <1>2 DEF Init, MemoryTypeOK, Standings
<1>4. ControlTypeOK
  BY DEF Init, ControlTypeOK, Points, Verdicts, Outcomes
<1>5. DescentTypeOK
  BY DEF Init, DescentTypeOK, Undecided, Choices
<1>6. LearnedTypeOK
  BY DEF Init, LearnedTypeOK, Undecided, Choices, Notes
<1>7. HistoryTypeOK
  BY <1>2 DEF Init, HistoryTypeOK
<1>8. Placed
  BY DEF Init, Placed, AtNode, AtRouter
<1> QED
  BY <1>3, <1>4, <1>5, <1>6, <1>7, <1>8 DEF TypeInv, TypeOK

LEMMA StepTyped == TypeInv /\ [Next]_vars => TypeInv'
<1> SUFFICES ASSUME TypeInv, [Next]_vars
             PROVE  TypeInv'
  OBVIOUS
<1>1. ASSUME NEW w \in Walks, Arrive(w) \/ WalkSteps(w), Observe
      PROVE  TypeInv'
  <2>1. CASE Arrive(w) \/ BeginDescent(w) \/ StepAtTarget(w) \/ FollowKeptChild(w)
    BY <1>1, <2>1, ArriveKeepsType, BeginDescentKeepsType, StepAtTargetKeepsType,
       FollowKeptChildKeepsType
  <2>2. CASE \/ ReachTheLimit(w) \/ NowhereAtTarget(w) \/ RefuseChainedTurn(w)
             \/ AttemptAnswers(w) \/ AttemptThrows(w)
    BY <1>1, <2>2, EndingKeepsType
  <2>3. CASE AskRouter(w) \/ FollowPinnedBranch(w) \/ DeclineToAsk(w)
    BY <1>1, <2>3, AskRouterKeepsType, DecidingUnaskedKeepsType
  <2>4. CASE AskJudge(w) \/ CallJudge(w) \/ JudgeAnswers(w) \/ RefuseUnjudged(w)
    BY <1>1, <2>4, AskJudgeKeepsType, CallJudgeKeepsType, JudgeAnswersKeepsType,
       RefuseUnjudgedKeepsType
  <2>5. CASE OfferChild(w) \/ OfferNothing(w) \/ DescendToOffered(w)
    BY <1>1, <2>5, OfferChildKeepsType, OfferNothingKeepsType, DescendToOfferedKeepsType
  <2>6. CASE DescendAgain(w) \/ NowherePastTheRouter(w) \/ MoveOn(w)
    BY <1>1, <2>6, DescendAgainKeepsType, NowherePastTheRouterKeepsType, MoveOnKeepsType
  <2> QED
    BY <1>1, <2>1, <2>2, <2>3, <2>4, <2>5, <2>6 DEF WalkSteps
<1>2. CASE MemoryPasses /\ Observe
  BY <1>2, PassingKeepsType
<1>3. CASE UNCHANGED vars
  BY <1>3 DEF vars, memoryVars, descentVars, learnedVars, historyVars, TypeInv, TypeOK, MemoryTypeOK,
              ControlTypeOK, DescentTypeOK, LearnedTypeOK, HistoryTypeOK, Placed, IsTarget
<1> QED
  BY <1>1, <1>2, <1>3 DEF Next

(* Whatever the table and however many requests walk it, every variable    *)
(* keeps its type.                                                         *)
THEOREM TypeCorrect == Spec => []TypeOK
<1>1. TypeInv => TypeOK
  BY DEF TypeInv
<1> QED
  BY <1>1, InitTyped, StepTyped, PTL DEF Spec

-----------------------------------------------------------------------------
(* Turns of a rotation.                                                    *)

(* Every turn held or spent lies behind the cursor of its rotation.  Alone *)
(* NoTurnIsTakenTwice would not survive the next pick.                     *)
TurnsBehind ==
    /\ \A w \in Walks : \A t \in turns[w] : t.was < cursors[t.router]
    /\ \A x \in landed : x.was < cursors[x.router]

TurnInv == TurnsBehind /\ NoTurnIsTakenTwice

LEMMA TurnTyped ==
    ASSUME TypeInv
    PROVE  /\ cursors \in [Nodes -> Nat]
           /\ \A w \in Walks : \A t \in turns[w] :
                 /\ t.router \in Nodes
                 /\ t.was \in Nat
                 /\ t = [router |-> t.router, was |-> t.was]
           /\ \A x \in landed : x.router \in Nodes /\ x.was \in Nat
BY DEF TypeInv, TypeOK, MemoryTypeOK, DescentTypeOK, HistoryTypeOK, Turn

(* A step that takes no turn and moves no cursor.                          *)
LEMMA TurnsLeftAlone ==
    ASSUME TurnInv, UNCHANGED <<cursors, landed>>, \A w \in Walks : turns'[w] \subseteq turns[w]
    PROVE  TurnInv'
<1>1. TurnsBehind'
  BY DEF TurnInv, TurnsBehind
<1>2. NoTurnIsTakenTwice'
  BY DEF TurnInv, NoTurnIsTakenTwice
<1> QED
  BY <1>1, <1>2 DEF TurnInv

(* A turn that comes back was the last of its rotation, so every other one *)
(* lies behind where the cursor goes back to.                              *)
LEMMA TurnsComingBack ==
    ASSUME TypeInv, TurnInv, NEW w \in Walks, CursorsHandedBack(w), UNCHANGED landed,
           turns' = [turns EXCEPT ![w] = {}]
    PROVE  TurnInv'
<1>1. /\ turns'[w] = {}
      /\ \A v \in Walks : v # w => turns'[v] = turns[v]
  BY DEF TypeInv, TypeOK, DescentTypeOK
<1>2. NoTurnIsTakenTwice'
  BY <1>1 DEF TurnInv, NoTurnIsTakenTwice
<1>3. ASSUME NEW r \in Nodes, NEW n \in Nat, n < cursors[r],
             \A t \in turns[w] : t.router = r => t.was # n
      PROVE  n < cursors'[r]
  <2>1. CASE \E t \in turns[w] : t.router = r /\ cursors[r] = t.was + 1
    <3>1. PICK t \in turns[w] : t.router = r /\ cursors[r] = t.was + 1
      BY <2>1
    <3>2. t.was \in Nat /\ n # t.was
      BY <1>3, <3>1, TurnTyped
    <3>3. cursors'[r] = cursors[r] - 1
      BY <2>1 DEF CursorsHandedBack
    <3> QED
      BY <1>3, <3>1, <3>2, <3>3
  <2>2. CASE ~ \E t \in turns[w] : t.router = r /\ cursors[r] = t.was + 1
    BY <1>3, <2>2 DEF CursorsHandedBack
  <2> QED
    BY <2>1, <2>2
<1>4. TurnsBehind'
  <2>1. ASSUME NEW v \in Walks, NEW s \in turns'[v]
        PROVE  s.was < cursors'[s.router]
    <3>1. v # w /\ s \in turns[v]
      BY <1>1, <2>1
    <3>2. s.router \in Nodes /\ s.was \in Nat /\ s.was < cursors[s.router]
      BY <3>1, TurnTyped DEF TurnInv, TurnsBehind
    <3>3. \A t \in turns[w] : t.router = s.router => t.was # s.was
      BY <3>1 DEF TurnInv, NoTurnIsTakenTwice
    <3> QED
      BY <1>3, <3>2, <3>3
  <2>2. ASSUME NEW x \in landed
        PROVE  x.was < cursors'[x.router]
    <3>1. x.router \in Nodes /\ x.was \in Nat /\ x.was < cursors[x.router]
      BY TurnTyped DEF TurnInv, TurnsBehind
    <3>2. \A t \in turns[w] : t.router = x.router => t.was # x.was
      BY DEF TurnInv, NoTurnIsTakenTwice
    <3> QED
      BY <1>3, <3>1, <3>2
  <2> QED
    BY <2>1, <2>2 DEF TurnsBehind
<1> QED
  BY <1>2, <1>4 DEF TurnInv

(* The turns a descent took land with the attempt it reached.              *)
LEMMA StepAtTargetKeepsTurns ==
    ASSUME TypeInv, TurnInv, NEW w \in Walks, StepAtTarget(w)
    PROVE  TurnInv'
<1> DEFINE Landing(t) ==
        [walk |-> w, try |-> Len(tries[w]) + 1, router |-> t.router, was |-> t.was]
<1>1. /\ cursors' = cursors
      /\ turns'[w] = {}
      /\ \A v \in Walks : v # w => turns'[v] = turns[v]
      /\ landed' = landed \cup {Landing(t) : t \in turns[w]}
  BY DEF StepAtTarget, memoryVars, TypeInv, TypeOK, DescentTypeOK
<1>2. TurnsBehind'
  BY <1>1 DEF TurnInv, TurnsBehind
<1>3. ASSUME NEW v \in Walks, NEW u \in Walks, NEW s \in turns'[v], NEW t \in turns'[u],
             s.router = t.router, s.was = t.was
      PROVE  v = u
  BY <1>1, <1>3 DEF TurnInv, NoTurnIsTakenTwice
<1>4. ASSUME NEW x \in landed', NEW y \in landed', x.router = y.router, x.was = y.was
      PROVE  x = y
  <2>1. CASE x \in landed /\ y \in landed
    BY <1>4, <2>1 DEF TurnInv, NoTurnIsTakenTwice
  <2>2. CASE x \in landed /\ y \notin landed
    BY <1>1, <1>4, <2>2 DEF TurnInv, NoTurnIsTakenTwice
  <2>3. CASE x \notin landed /\ y \in landed
    BY <1>1, <1>4, <2>3 DEF TurnInv, NoTurnIsTakenTwice
  <2>4. CASE x \notin landed /\ y \notin landed
    BY <1>1, <1>4, <2>4
  <2> QED
    BY <2>1, <2>2, <2>3, <2>4
<1>5. ASSUME NEW v \in Walks, NEW s \in turns'[v], NEW x \in landed', s.router = x.router
      PROVE  s.was # x.was
  <2>1. v # w /\ s \in turns[v]
    BY <1>1, <1>5
  <2>2. CASE x \in landed
    BY <1>5, <2>1, <2>2 DEF TurnInv, NoTurnIsTakenTwice
  <2>3. CASE x \notin landed
    BY <1>1, <1>5, <2>1, <2>3 DEF TurnInv, NoTurnIsTakenTwice
  <2> QED
    BY <2>2, <2>3
<1>6. NoTurnIsTakenTwice'
  BY <1>3, <1>4, <1>5 DEF NoTurnIsTakenTwice
<1> QED
  BY <1>2, <1>6 DEF TurnInv

(* The turn a pick takes is the one its cursor stood at.                   *)
LEMMA OfferChildKeepsTurns ==
    ASSUME TypeInv, TurnInv, NEW w \in Walks, OfferChild(w)
    PROVE  TurnInv'
<1> DEFINE r == at[w]
           taken == [router |-> r, was |-> cursors[r]]
<1>1. landed' = landed
  BY DEF OfferChild
<1>2. CASE Mode(r) # "round-robin"
  BY <1>1, <1>2, TurnsLeftAlone DEF OfferChild
<1>3. CASE Mode(r) = "round-robin"
  <2>1. r \in Nodes
    BY DEF OfferChild, TypeInv, Placed, AtNode
  <2>2. /\ cursors' = [cursors EXCEPT ![r] = @ + 1]
        /\ turns' = [turns EXCEPT ![w] = @ \cup {taken}]
    BY <1>3 DEF OfferChild
  <2>3. /\ cursors[r] \in Nat
        /\ cursors'[r] = cursors[r] + 1
        /\ \A n \in Nodes : n # r => cursors'[n] = cursors[n]
        /\ turns'[w] = turns[w] \cup {taken}
        /\ \A v \in Walks : v # w => turns'[v] = turns[v]
    BY <2>1, <2>2 DEF TypeInv, TypeOK, MemoryTypeOK, DescentTypeOK
  <2>4. taken.router = r /\ taken.was = cursors[r]
    OBVIOUS
  <2> HIDE DEF taken, r
  <2>5. ASSUME NEW v \in Walks, NEW t \in turns[v], t.router = r
        PROVE  t.was # taken.was
    BY <2>3, <2>4, <2>5, TurnTyped DEF TurnInv, TurnsBehind
  <2>6. ASSUME NEW x \in landed, x.router = r
        PROVE  x.was # taken.was
    BY <2>3, <2>4, <2>6, TurnTyped DEF TurnInv, TurnsBehind
  <2>7. TurnsBehind'
    <3>1. ASSUME NEW v \in Walks, NEW t \in turns'[v]
          PROVE  t.was < cursors'[t.router]
      <4>1. CASE t \in turns[v]
        BY <2>3, <4>1, TurnTyped DEF TurnInv, TurnsBehind
      <4>2. CASE t \notin turns[v]
        BY <2>3, <2>4, <3>1, <4>2
      <4> QED
        BY <4>1, <4>2
    <3>2. ASSUME NEW x \in landed
          PROVE  x.was < cursors'[x.router]
      BY <2>3, TurnTyped DEF TurnInv, TurnsBehind
    <3> QED
      BY <1>1, <3>1, <3>2 DEF TurnsBehind
  <2>8. ASSUME NEW v \in Walks, NEW u \in Walks, NEW s \in turns'[v], NEW t \in turns'[u],
               s.router = t.router, s.was = t.was
        PROVE  v = u
    <3>1. CASE s \in turns[v] /\ t \in turns[u]
      BY <2>8, <3>1 DEF TurnInv, NoTurnIsTakenTwice
    <3>2. CASE s \notin turns[v]
      BY <2>3, <2>4, <2>5, <2>8, <3>2
    <3>3. CASE t \notin turns[u]
      BY <2>3, <2>4, <2>5, <2>8, <3>3
    <3> QED
      BY <3>1, <3>2, <3>3
  <2>9. ASSUME NEW v \in Walks, NEW s \in turns'[v], NEW x \in landed, s.router = x.router
        PROVE  s.was # x.was
    <3>1. CASE s \in turns[v]
      BY <2>9, <3>1 DEF TurnInv, NoTurnIsTakenTwice
    <3>2. CASE s \notin turns[v]
      BY <2>3, <2>4, <2>6, <2>9, <3>2
    <3> QED
      BY <3>1, <3>2
  <2>10. NoTurnIsTakenTwice'
    BY <1>1, <2>8, <2>9 DEF TurnInv, NoTurnIsTakenTwice
  <2> QED
    BY <2>7, <2>10 DEF TurnInv
<1> QED
  BY <1>2, <1>3

LEMMA InitTurns == Init => TurnInv
BY DEF Init, TurnInv, TurnsBehind, NoTurnIsTakenTwice

LEMMA StepTurns == TypeInv /\ TurnInv /\ [Next]_vars => TurnInv'
<1> SUFFICES ASSUME TypeInv, TurnInv, [Next]_vars
             PROVE  TurnInv'
  OBVIOUS
<1>1. ASSUME NEW w \in Walks, Arrive(w) \/ WalkSteps(w)
      PROVE  TurnInv'
  <2>1. CASE StepAtTarget(w)
    BY <2>1, StepAtTargetKeepsTurns
  <2>2. CASE OfferChild(w)
    BY <2>2, OfferChildKeepsTurns
  <2>3. CASE RefuseUnjudged(w) \/ NowherePastTheRouter(w)
    BY <2>3, TurnsComingBack DEF RefuseUnjudged, NowherePastTheRouter, TurnsHandedBack
  <2>4. CASE DescendAgain(w)
    BY <2>4, TurnsComingBack DEF DescendAgain, FreshDescent
  <2>5. CASE MoveOn(w)
    <3>1. turns' = [turns EXCEPT ![w] = {}] /\ UNCHANGED <<cursors, landed>>
      BY <2>5 DEF MoveOn, FreshDescent
    <3>2. \A v \in Walks : turns'[v] \subseteq turns[v]
      BY <3>1 DEF TypeInv, TypeOK, DescentTypeOK
    <3> QED
      BY <3>1, <3>2, TurnsLeftAlone
  <2>6. CASE \/ Arrive(w) \/ BeginDescent(w) \/ ReachTheLimit(w) \/ NowhereAtTarget(w)
             \/ FollowKeptChild(w) \/ RefuseChainedTurn(w)
             \/ AskRouter(w) \/ FollowPinnedBranch(w) \/ DeclineToAsk(w) \/ AskJudge(w)
             \/ CallJudge(w) \/ JudgeAnswers(w) \/ OfferNothing(w) \/ DescendToOffered(w)
             \/ AttemptAnswers(w) \/ AttemptThrows(w)
    <3>1. UNCHANGED <<cursors, turns, landed>>
      BY <2>6 DEF Arrive, BeginDescent, ReachTheLimit, NowhereAtTarget, FollowKeptChild,
                  RefuseChainedTurn, AskRouter, FollowPinnedBranch, DeclineToAsk, AskJudge,
                  CallJudge, JudgeAnswers, OfferNothing, DescendToOffered, AttemptAnswers, AttemptThrows,
                  memoryVars, descentVars
    <3> QED
      BY <3>1, TurnsLeftAlone
  <2> QED
    BY <1>1, <2>1, <2>2, <2>3, <2>4, <2>5, <2>6 DEF WalkSteps
<1>2. CASE MemoryPasses
  <2>1. UNCHANGED <<cursors, turns, landed>>
    BY <1>2 DEF MemoryPasses, CoolingEnds, PinForgotten, RotationPinForgotten, descentVars
  <2> QED
    BY <2>1, TurnsLeftAlone
<1>3. CASE UNCHANGED vars
  BY <1>3, TurnsLeftAlone DEF vars, memoryVars, descentVars, historyVars
<1> QED
  BY <1>1, <1>2, <1>3 DEF Next

(* However many requests share a gateway's memory, and in whatever order   *)
(* their descents end, no turn of a rotation carries two of them.          *)
THEOREM TurnsAreTakenOnce == Spec => []NoTurnIsTakenTwice
<1>1. TurnInv => NoTurnIsTakenTwice
  BY DEF TurnInv
<1> QED
  BY <1>1, InitTyped, StepTyped, InitTurns, StepTurns, PTL DEF Spec

-----------------------------------------------------------------------------
(* Tries.                                                                  *)

(* Every child tried was noted, except the last while its attempt is out   *)
(* or the walk ended on it.                                                *)
TriesNoted ==
    \A w \in Walks :
        /\ \A i \in DOMAIN tries[w] :
              \/ attempted[w][tries[w][i]] # "untried"
              \/ i = Len(tries[w]) /\ pc[w] \in {"attempting", "done"}
        /\ pc[w] = "attempting" =>
              /\ tries[w] # <<>>
              /\ tries[w][Len(tries[w])] = at[w]

TryInv == TriesNoted /\ NoChildIsTriedTwice

(* A step that tries nobody, notes nobody and puts no attempt out.         *)
LEMMA TriesLeftAlone ==
    ASSUME TryInv, UNCHANGED <<tries, attempted>>,
           \A w \in Walks : \/ pc'[w] = pc[w] /\ at'[w] = at[w]
                            \/ pc[w] \notin {"attempting", "done"} /\ pc'[w] # "attempting"
                            \/ pc[w] = "attempting" /\ pc'[w] = "done"
    PROVE  TryInv'
BY DEF TryInv, TriesNoted, NoChildIsTriedTwice

LEMMA StepAtTargetKeepsTries ==
    ASSUME TypeInv, TryInv, NEW w \in Walks, StepAtTarget(w)
    PROVE  TryInv'
<1>1. /\ pc[w] = "descend"
      /\ at[w] \in Nodes
      /\ attempted[w][at[w]] = "untried"
  BY DEF StepAtTarget, CanAttempt, TypeInv, Placed, AtNode
<1>2. /\ tries[w] \in Seq(Nodes)
      /\ tries'[w] = Append(tries[w], at[w])
      /\ \A v \in Walks : v # w => tries'[v] = tries[v]
  BY DEF StepAtTarget, TypeInv, TypeOK, HistoryTypeOK
<1>3. /\ attempted' = attempted /\ at' = at
      /\ pc'[w] = "attempting"
      /\ \A v \in Walks : v # w => pc'[v] = pc[v]
  BY DEF StepAtTarget, learnedVars, Goto, TypeInv, TypeOK, ControlTypeOK
<1>4. \A i \in DOMAIN tries[w] : attempted[w][tries[w][i]] # "untried"
  BY <1>1 DEF TryInv, TriesNoted
<1>5. /\ Len(tries'[w]) = Len(tries[w]) + 1
      /\ tries'[w][Len(tries[w]) + 1] = at[w]
      /\ \A i \in DOMAIN tries'[w] :
            \/ i = Len(tries[w]) + 1
            \/ i \in DOMAIN tries[w] /\ tries'[w][i] = tries[w][i]
      /\ tries'[w] # <<>>
  BY <1>1, <1>2
<1>6. TriesNoted'
  <2> SUFFICES ASSUME NEW v \in Walks
               PROVE  /\ \A i \in DOMAIN tries'[v] :
                            \/ attempted'[v][tries'[v][i]] # "untried"
                            \/ i = Len(tries'[v]) /\ pc'[v] \in {"attempting", "done"}
                      /\ pc'[v] = "attempting" =>
                            /\ tries'[v] # <<>>
                            /\ tries'[v][Len(tries'[v])] = at'[v]
    BY DEF TriesNoted
  <2>1. CASE v # w
    <3>1. /\ tries'[v] = tries[v] /\ pc'[v] = pc[v]
          /\ attempted' = attempted /\ at' = at
      BY <1>2, <1>3, <2>1
    <3> QED
      BY <3>1 DEF TryInv, TriesNoted
  <2>2. CASE v = w
    BY ONLY <1>3, <1>4, <1>5, <2>2
  <2> QED
    BY <2>1, <2>2
<1>7. NoChildIsTriedTwice'
  <2> SUFFICES ASSUME NEW v \in Walks, NEW i \in DOMAIN tries'[v], NEW j \in DOMAIN tries'[v],
                      tries'[v][i] = tries'[v][j]
               PROVE  i = j
    BY DEF NoChildIsTriedTwice
  <2>1. CASE v # w
    <3>1. tries'[v] = tries[v]
      BY <1>2, <2>1
    <3> QED
      BY <3>1 DEF TryInv, NoChildIsTriedTwice
  <2>2. CASE v = w /\ i \in DOMAIN tries[w] /\ j \in DOMAIN tries[w]
    <3>1. tries'[w][i] = tries[w][i] /\ tries'[w][j] = tries[w][j]
      BY <1>2, <2>2
    <3> QED
      BY <2>2, <3>1 DEF TryInv, NoChildIsTriedTwice
  <2>3. CASE v = w /\ i = Len(tries[w]) + 1
    BY <1>1, <1>4, <1>5, <2>3
  <2>4. CASE v = w /\ j = Len(tries[w]) + 1
    BY <1>1, <1>4, <1>5, <2>4
  <2> QED
    BY <1>5, <2>1, <2>2, <2>3, <2>4
<1> QED
  BY <1>6, <1>7 DEF TryInv

LEMMA MoveOnKeepsTries ==
    ASSUME TypeInv, TryInv, NEW w \in Walks, MoveOn(w)
    PROVE  TryInv'
<1>1. pc[w] = "attempting" /\ at[w] \in Nodes /\ tries' = tries
  BY DEF MoveOn, TypeInv, Placed, AtNode
<1>2. PICK note \in {"promised", "unpromised"} : attempted' = [attempted EXCEPT ![w][at[w]] = note]
  BY DEF MoveOn, NoteOf
<1>3. /\ attempted'[w][at[w]] # "untried"
      /\ \A n \in Nodes : n # at[w] => attempted'[w][n] = attempted[w][n]
      /\ \A v \in Walks : v # w => attempted'[v] = attempted[v]
  BY <1>1, <1>2 DEF TypeInv, TypeOK, LearnedTypeOK
<1>4. /\ pc'[w] = "loop"
      /\ \A v \in Walks : v # w => pc'[v] = pc[v] /\ at'[v] = at[v]
  BY DEF MoveOn, Goto, FreshDescent, TypeInv, TypeOK, ControlTypeOK, DescentTypeOK
<1>5. \A i \in DOMAIN tries[w] : tries[w][i] \in Nodes
  BY DEF TypeInv, TypeOK, HistoryTypeOK
<1>6. \A i \in DOMAIN tries[w] : attempted'[w][tries[w][i]] # "untried"
  BY <1>1, <1>3, <1>5 DEF TryInv, TriesNoted
<1>7. TriesNoted'
  BY <1>1, <1>3, <1>4, <1>6 DEF TryInv, TriesNoted
<1> QED
  BY <1>1, <1>7 DEF TryInv, NoChildIsTriedTwice

LEMMA InitTries == Init => TryInv
BY DEF Init, TryInv, TriesNoted, NoChildIsTriedTwice

(* Where a step of the other actions leaves the walk.                      *)
LEMMA OtherStepsTryNobody ==
    ASSUME TypeInv, NEW w \in Walks,
           Arrive(w) \/ WalkSteps(w), ~StepAtTarget(w), ~MoveOn(w)
    PROVE  /\ UNCHANGED <<tries, attempted>>
           /\ \A v \in Walks : v # w => pc'[v] = pc[v] /\ at'[v] = at[v]
           /\ \/ pc[w] \notin {"attempting", "done"} /\ pc'[w] # "attempting"
              \/ pc[w] = "attempting" /\ pc'[w] = "done"
<1> USE DEF TypeInv, TypeOK, ControlTypeOK, DescentTypeOK
<1>1. CASE Arrive(w) \/ BeginDescent(w) \/ AskRouter(w) \/ OfferChild(w) \/ OfferNothing(w)
  BY <1>1 DEF Arrive, BeginDescent, AskRouter, AtAskableRouter, OfferChild, OfferNothing, Goto,
              learnedVars, descentVars
<1>2. CASE ReachTheLimit(w) \/ NowhereAtTarget(w) \/ NowherePastTheRouter(w)
  BY <1>2 DEF ReachTheLimit, NowhereAtTarget, NowherePastTheRouter, SettlesWithNoChild, Settles, Goto,
              learnedVars, descentVars
<1>3. CASE RefuseChainedTurn(w) \/ RefuseUnjudged(w) \/ AttemptAnswers(w) \/ AttemptThrows(w)
  BY <1>3 DEF RefuseChainedTurn, RefuseUnjudged, AttemptAnswers, AttemptThrows, Settles, Goto,
              learnedVars, descentVars
<1>4. CASE FollowKeptChild(w) \/ DescendToOffered(w) \/ DescendAgain(w)
  BY <1>4 DEF FollowKeptChild, DescendToOffered, DescendAgain, DescendsTo, FreshDescent, Goto,
              learnedVars
<1>5. CASE FollowPinnedBranch(w) \/ DeclineToAsk(w) \/ AskJudge(w) \/ CallJudge(w)
  BY <1>5 DEF FollowPinnedBranch, DeclineToAsk, AskJudge, CallJudge, MustDecide, AtAskableRouter,
              Decides, Goto, descentVars, learnedVars
<1>6. CASE JudgeAnswers(w)
  <2>1. \/ Goto(w, "judging")
        \/ \E child, judged : Decides(w, child, judged)
    BY <1>6 DEF JudgeAnswers
  <2>2. pc'[w] # "attempting" /\ \A v \in Walks : v # w => pc'[v] = pc[v]
    BY <2>1 DEF Decides, Goto
  <2> QED
    BY <1>6, <2>2 DEF JudgeAnswers
<1> QED
  BY <1>1, <1>2, <1>3, <1>4, <1>5, <1>6 DEF WalkSteps

LEMMA StepTries == TypeInv /\ TryInv /\ [Next]_vars => TryInv'
<1> SUFFICES ASSUME TypeInv, TryInv, [Next]_vars
             PROVE  TryInv'
  OBVIOUS
<1>1. ASSUME NEW w \in Walks, Arrive(w) \/ WalkSteps(w)
      PROVE  TryInv'
  <2>1. CASE StepAtTarget(w)
    BY <2>1, StepAtTargetKeepsTries
  <2>2. CASE MoveOn(w)
    BY <2>2, MoveOnKeepsTries
  <2>3. CASE ~StepAtTarget(w) /\ ~MoveOn(w)
    <3>1. /\ UNCHANGED <<tries, attempted>>
          /\ \A v \in Walks : v # w => pc'[v] = pc[v] /\ at'[v] = at[v]
          /\ \/ pc[w] \notin {"attempting", "done"} /\ pc'[w] # "attempting"
             \/ pc[w] = "attempting" /\ pc'[w] = "done"
      BY <1>1, <2>3, OtherStepsTryNobody
    <3> QED
      BY <3>1, TriesLeftAlone
  <2> QED
    BY <2>1, <2>2, <2>3
<1>2. CASE MemoryPasses
  <2>1. UNCHANGED <<tries, attempted, pc, at>>
    BY <1>2 DEF MemoryPasses, CoolingEnds, PinForgotten, RotationPinForgotten, descentVars, learnedVars
  <2> QED
    BY <2>1, TriesLeftAlone
<1>3. CASE UNCHANGED vars
  BY <1>3, TriesLeftAlone DEF vars, descentVars, learnedVars, historyVars
<1> QED
  BY <1>1, <1>2, <1>3 DEF Next

(* No walk attempts a child twice, whatever the ledger forgets meanwhile.  *)
THEOREM ChildrenAreTriedOnce == Spec => []NoChildIsTriedTwice
<1>1. TryInv => NoChildIsTriedTwice
  BY DEF TryInv
<1> QED
  BY <1>1, InitTyped, StepTyped, InitTries, StepTries, PTL DEF Spec

-----------------------------------------------------------------------------
(* Judgments.                                                              *)

(* Only deciding changes what a walk decided, and it decides what it had   *)
(* not decided yet.                                                        *)
LEMMA StepDecides ==
    ASSUME TypeInv, NEW w \in Walks, Arrive(w) \/ WalkSteps(w)
    PROVE  \/ UNCHANGED decided
           \/ /\ pc[w] \in {"descend", "judging", "called"}
              /\ at[w] \in Nodes
              /\ \E child \in Nodes \cup {None}, judged \in BOOLEAN : Decides(w, child, judged)
<1>1. CASE Arrive(w) \/ BeginDescent(w) \/ AskRouter(w) \/ OfferChild(w) \/ OfferNothing(w)
  BY <1>1 DEF Arrive, BeginDescent, AskRouter, OfferChild, OfferNothing, learnedVars
<1>2. CASE ReachTheLimit(w) \/ NowhereAtTarget(w) \/ NowherePastTheRouter(w)
  BY <1>2 DEF ReachTheLimit, NowhereAtTarget, NowherePastTheRouter, learnedVars
<1>3. CASE RefuseChainedTurn(w) \/ RefuseUnjudged(w) \/ AttemptAnswers(w) \/ AttemptThrows(w)
  BY <1>3 DEF RefuseChainedTurn, RefuseUnjudged, AttemptAnswers, AttemptThrows, learnedVars
<1>4. CASE FollowKeptChild(w) \/ DescendToOffered(w) \/ DescendAgain(w)
  BY <1>4 DEF FollowKeptChild, DescendToOffered, DescendAgain, learnedVars
<1>5. CASE StepAtTarget(w) \/ MoveOn(w) \/ AskJudge(w) \/ CallJudge(w)
  BY <1>5 DEF StepAtTarget, MoveOn, AskJudge, CallJudge, learnedVars
<1>6. CASE FollowPinnedBranch(w) \/ DeclineToAsk(w)
  <2>1. at[w] \in Nodes /\ request[w] \in Requests /\ pc[w] = "descend"
    BY <1>6, AskableRouterPlaced DEF FollowPinnedBranch, DeclineToAsk, MustDecide
  <2>2. /\ PinnedBranch(w) \in Nodes \cup {None}
        /\ Table[at[w]].elseChild \in Nodes \cup {None}
    BY <2>1, TableFields DEF PinnedBranch, Requests, TypeInv, TypeOK, MemoryTypeOK
  <2> QED
    BY <1>6, <2>1, <2>2 DEF FollowPinnedBranch, DeclineToAsk
<1>7. CASE JudgeAnswers(w)
  <2>1. at[w] \in Nodes /\ pc[w] \in {"judging", "called"}
    BY <1>7 DEF JudgeAnswers, TypeInv, Placed, AtNode
  <2>2. PICK reading \in JudgeReadings(at[w]) :
            \/ reading.heard = "label" /\ Decides(w, reading.names, TRUE)
            \/ Decides(w, Table[at[w]].elseChild, TRUE)
            \/ UNCHANGED decided
            \/ Decides(w, Table[at[w]].elseChild, FALSE)
    BY <1>7 DEF JudgeAnswers
  <2>3. /\ reading.heard = "label" => reading.names \in Nodes
        /\ Table[at[w]].elseChild \in Nodes \cup {None}
    BY <2>1, JudgeReadingsType, TableFields
  <2> QED
    BY <2>1, <2>2, <2>3
<1> QED
  BY <1>1, <1>2, <1>3, <1>4, <1>5, <1>6, <1>7 DEF WalkSteps

LEMMA DecidesWhat ==
    ASSUME TypeInv, NEW w \in Walks, at[w] \in Nodes, NEW child, NEW judged \in BOOLEAN,
           Decides(w, child, judged)
    PROVE  /\ decided'[w][at[w]] =
                  [decided |-> child, elseChild |-> Table[at[w]].elseChild, judged |-> judged]
           /\ \A r \in Nodes : r # at[w] => decided'[w][r] = decided[w][r]
           /\ \A v \in Walks : v # w => decided'[v] = decided[v]
           /\ pc'[w] = IF judged THEN "pick" ELSE "unjudged"
           /\ \A v \in Walks : v # w => pc'[v] = pc[v]
<1> USE DEF TypeInv, TypeOK
<1> DEFINE choice == [decided |-> child, elseChild |-> Table[at[w]].elseChild, judged |-> judged]
<1>1. /\ decided' = [decided EXCEPT ![w][at[w]] = choice]
      /\ Goto(w, IF judged THEN "pick" ELSE "unjudged")
  BY DEF Decides
<1> HIDE DEF choice
<1>2. /\ decided'[w][at[w]] = choice
      /\ \A r \in Nodes : r # at[w] => decided'[w][r] = decided[w][r]
      /\ \A v \in Walks : v # w => decided'[v] = decided[v]
  BY <1>1 DEF LearnedTypeOK
<1>3. /\ pc'[w] = IF judged THEN "pick" ELSE "unjudged"
      /\ \A v \in Walks : v # w => pc'[v] = pc[v]
  BY <1>1 DEF Goto, ControlTypeOK
<1> QED
  BY <1>2, <1>3 DEF choice

Unjudged(w) == \E r \in Nodes : decided[w][r] # Undecided /\ ~decided[w][r].judged

EndsUnjudged(w) ==
    \/ pc[w] = "unjudged"
    \/ pc[w] = "done" /\ verdict[w].outcome = "unjudged"

(* A walk some router reached no judgment for goes nowhere but to its end. *)
LEMMA EndingUnjudgedStands ==
    ASSUME TypeInv, NEW w \in Walks, EndsUnjudged(w), Arrive(w) \/ WalkSteps(w)
    PROVE  EndsUnjudged(w)'
<1>1. pc[w] \in {"unjudged", "done"}
  BY DEF EndsUnjudged
<1>2. RefuseUnjudged(w)
  BY <1>1 DEF WalkSteps, Arrive, BeginDescent, ReachTheLimit, StepAtTarget, NowhereAtTarget,
              FollowKeptChild, RefuseChainedTurn, AskRouter, FollowPinnedBranch, DeclineToAsk, AskJudge,
              CallJudge, MustDecide, AtAskableRouter, JudgeAnswers, OfferChild, OfferNothing, DescendToOffered,
              DescendAgain, NowherePastTheRouter, AttemptAnswers, MoveOn, AttemptThrows
<1>3. pc'[w] = "done" /\ verdict'[w].outcome = "unjudged"
  BY <1>2 DEF RefuseUnjudged, Settles, Goto, TypeInv, TypeOK, ControlTypeOK
<1> QED
  BY <1>3 DEF EndsUnjudged

(* All that is one walk's own.                                             *)
Own(w) ==
    <<pc[w], request[w], at[w], path[w], turns[w], branch[w], offered[w], attempted[w], decided[w],
      spent[w], asks[w], verdict[w], tries[w], judgeCalls[w]>>

(* What one walk does is nothing to what is another's.                     *)
LEMMA OthersStand ==
    ASSUME TypeInv, NEW w \in Walks, Arrive(w) \/ WalkSteps(w), NEW v \in Walks, v # w
    PROVE  UNCHANGED Own(v)
<1> USE DEF TypeInv, TypeOK, ControlTypeOK, DescentTypeOK, LearnedTypeOK, HistoryTypeOK, Own,
            descentVars, learnedVars
<1>1. CASE Arrive(w) \/ BeginDescent(w) \/ AskRouter(w)
  BY <1>1 DEF Arrive, BeginDescent, AskRouter, Goto
<1>2. CASE OfferChild(w) \/ OfferNothing(w)
  BY <1>2 DEF OfferChild, OfferNothing, Goto
<1>3. CASE ReachTheLimit(w) \/ NowhereAtTarget(w) \/ NowherePastTheRouter(w)
  BY <1>3 DEF ReachTheLimit, NowhereAtTarget, NowherePastTheRouter, SettlesWithNoChild, Settles, Goto,
              TurnsHandedBack
<1>4. CASE RefuseChainedTurn(w) \/ RefuseUnjudged(w) \/ AttemptAnswers(w) \/ AttemptThrows(w)
  BY <1>4 DEF RefuseChainedTurn, RefuseUnjudged, AttemptAnswers, AttemptThrows, Settles, Goto,
              TurnsHandedBack
<1>5. CASE FollowKeptChild(w) \/ DescendToOffered(w)
  BY <1>5 DEF FollowKeptChild, DescendToOffered, DescendsTo, Goto
<1>6. CASE DescendAgain(w) \/ MoveOn(w)
  BY <1>6 DEF DescendAgain, MoveOn, FreshDescent, Goto
<1>7. CASE StepAtTarget(w) \/ AskJudge(w) \/ CallJudge(w)
  BY <1>7 DEF StepAtTarget, AskJudge, CallJudge, Goto
<1>8. CASE FollowPinnedBranch(w) \/ DeclineToAsk(w)
  BY <1>8 DEF FollowPinnedBranch, DeclineToAsk, Decides, Goto
<1>9. CASE JudgeAnswers(w)
  <2>1. \/ /\ Goto(w, "judging")
           /\ asks' = [asks EXCEPT ![w] = 2]
           /\ UNCHANGED <<decided, branch>>
        \/ /\ \E child, judged : Decides(w, child, judged)
           /\ UNCHANGED asks
    BY <1>9 DEF JudgeAnswers
  <2>2. /\ pc'[v] = pc[v]
        /\ decided'[v] = decided[v]
        /\ branch'[v] = branch[v]
        /\ asks'[v] = asks[v]
    BY <2>1 DEF Decides, Goto
  <2> QED
    BY <1>9, <2>2 DEF JudgeAnswers
<1> QED
  BY <1>1, <1>2, <1>3, <1>4, <1>5, <1>6, <1>7, <1>8, <1>9 DEF WalkSteps

LEMMA StepUnjudged == TypeInv /\ UnjudgedIsNeverServed /\ [Next]_vars => UnjudgedIsNeverServed'
<1> SUFFICES ASSUME TypeInv, UnjudgedIsNeverServed, [Next]_vars
             PROVE  UnjudgedIsNeverServed'
  OBVIOUS
<1>1. \A v \in Walks : Unjudged(v) => EndsUnjudged(v)
  BY DEF UnjudgedIsNeverServed, Unjudged, EndsUnjudged
<1>2. ASSUME NEW w \in Walks, Arrive(w) \/ WalkSteps(w)
      PROVE  \A v \in Walks : Unjudged(v)' => EndsUnjudged(v)'
  <2>1. CASE UNCHANGED decided
    <3> TAKE v \in Walks
    <3>1. Unjudged(v)' <=> Unjudged(v)
      BY <2>1 DEF Unjudged
    <3>2. CASE v = w
      BY <1>1, <1>2, <3>1, <3>2, EndingUnjudgedStands
    <3>3. CASE v # w
      <4>1. pc'[v] = pc[v] /\ verdict'[v] = verdict[v]
        BY <1>2, <3>3, OthersStand DEF Own
      <4>2. EndsUnjudged(v)' <=> EndsUnjudged(v)
        BY <4>1 DEF EndsUnjudged
      <4> QED
        BY <1>1, <3>1, <4>2
    <3> QED
      BY <3>2, <3>3
  <2>2. CASE /\ pc[w] \in {"descend", "judging", "called"}
             /\ at[w] \in Nodes
             /\ \E child \in Nodes \cup {None}, judged \in BOOLEAN : Decides(w, child, judged)
    <3>1. PICK child \in Nodes \cup {None}, judged \in BOOLEAN : Decides(w, child, judged)
      BY <2>2
    <3> DEFINE choice ==
            [decided |-> child, elseChild |-> Table[at[w]].elseChild, judged |-> judged]
    <3>2. /\ decided'[w][at[w]] = choice
          /\ \A r \in Nodes : r # at[w] => decided'[w][r] = decided[w][r]
          /\ \A v \in Walks : v # w => decided'[v] = decided[v]
          /\ pc'[w] = IF judged THEN "pick" ELSE "unjudged"
          /\ \A v \in Walks : v # w => pc'[v] = pc[v]
      BY <2>2, <3>1, DecidesWhat
    <3>3. choice.judged = judged
      OBVIOUS
    <3> HIDE DEF choice
    <3>4. ~Unjudged(w)
      BY <1>1, <2>2 DEF EndsUnjudged
    <3>5. Unjudged(w)' => EndsUnjudged(w)'
      BY <3>2, <3>3, <3>4 DEF Unjudged, EndsUnjudged
    <3>6. ASSUME NEW v \in Walks, v # w
          PROVE  Unjudged(v)' => EndsUnjudged(v)'
      <4>1. verdict'[v] = verdict[v] /\ pc'[v] = pc[v] /\ decided'[v] = decided[v]
        BY <1>2, <3>2, <3>6, OthersStand DEF Own
      <4> QED
        BY <1>1, <4>1 DEF Unjudged, EndsUnjudged
    <3> QED
      BY <3>5, <3>6
  <2> QED
    BY <1>2, <2>1, <2>2, StepDecides
<1>3. CASE MemoryPasses
  <2>1. UNCHANGED <<decided, pc, verdict>>
    BY <1>3 DEF MemoryPasses, CoolingEnds, PinForgotten, RotationPinForgotten, learnedVars
  <2> QED
    BY <1>1, <2>1 DEF UnjudgedIsNeverServed, Unjudged, EndsUnjudged
<1>4. CASE UNCHANGED vars
  BY <1>4 DEF vars, learnedVars, UnjudgedIsNeverServed
<1> QED
  BY <1>2, <1>3, <1>4 DEF Next, UnjudgedIsNeverServed, Unjudged, EndsUnjudged

(* No request is given to a child after a router of its walk reached no    *)
(* judgment on it.                                                         *)
THEOREM UnjudgedStaysUnserved == Spec => []UnjudgedIsNeverServed
<1>1. Init => UnjudgedIsNeverServed
  BY DEF Init, UnjudgedIsNeverServed
<1> QED
  BY <1>1, InitTyped, StepTyped, StepUnjudged, PTL DEF Spec

-----------------------------------------------------------------------------
(* Judge calls.                                                            *)

(* A router nothing was decided at was charged no judge call but the ones  *)
(* that are out.                                                           *)
Charged(w) ==
    /\ \A r \in Nodes :
          /\ judgeCalls[w][r] <= 2
          /\ decided[w][r] = Undecided /\ ~(pc[w] \in {"judging", "called"} /\ at[w] = r) =>
                judgeCalls[w][r] = 0
    /\ pc[w] \in {"judging", "called"} =>
          /\ Undetermined(w, at[w])
          /\ asks[w] \in {1, 2}
          /\ judgeCalls[w][at[w]] = IF pc[w] = "called" THEN asks[w] ELSE asks[w] - 1

AskInv == \A w \in Walks : Charged(w)

(* What passes on its own is nothing to any walk.                          *)
LEMMA WalksStand ==
    ASSUME MemoryPasses \/ UNCHANGED vars, NEW v \in Walks
    PROVE  UNCHANGED Own(v)
BY DEF MemoryPasses, CoolingEnds, PinForgotten, RotationPinForgotten, Own, descentVars, learnedVars,
       vars, memoryVars, historyVars

LEMMA ChargesStand ==
    ASSUME NEW v \in Walks, Charged(v), UNCHANGED Own(v)
    PROVE  Charged(v)'
BY DEF Own, Charged, Undetermined

(* Most steps ask no judge and decide nothing.                             *)
LEMMA OtherStepsAskNobody ==
    ASSUME TypeInv, NEW w \in Walks, Arrive(w) \/ WalkSteps(w)
    PROVE  \/ FollowPinnedBranch(w) \/ DeclineToAsk(w)
           \/ AskJudge(w) \/ CallJudge(w) \/ JudgeAnswers(w)
           \/ /\ UNCHANGED <<decided, judgeCalls>>
              /\ pc[w] \notin {"judging", "called"}
              /\ pc'[w] \notin {"judging", "called"}
<1> USE DEF TypeInv, TypeOK, ControlTypeOK, Goto
<1>1. CASE Arrive(w) \/ BeginDescent(w) \/ AskRouter(w) \/ OfferChild(w) \/ OfferNothing(w)
  BY <1>1 DEF Arrive, BeginDescent, AskRouter, AtAskableRouter, OfferChild, OfferNothing, learnedVars
<1>2. CASE ReachTheLimit(w) \/ NowhereAtTarget(w) \/ NowherePastTheRouter(w)
  BY <1>2 DEF ReachTheLimit, NowhereAtTarget, NowherePastTheRouter, SettlesWithNoChild, Settles,
              learnedVars
<1>3. CASE RefuseChainedTurn(w) \/ RefuseUnjudged(w) \/ AttemptAnswers(w) \/ AttemptThrows(w)
  BY <1>3 DEF RefuseChainedTurn, RefuseUnjudged, AttemptAnswers, AttemptThrows, Settles, learnedVars
<1>4. CASE FollowKeptChild(w) \/ DescendToOffered(w) \/ DescendAgain(w)
  BY <1>4 DEF FollowKeptChild, DescendToOffered, DescendAgain, learnedVars
<1>5. CASE StepAtTarget(w) \/ MoveOn(w)
  BY <1>5 DEF StepAtTarget, MoveOn, learnedVars
<1> QED
  BY <1>1, <1>2, <1>3, <1>4, <1>5 DEF WalkSteps

(* A choice at a conditional router is none at all nowhere.                *)
LEMMA DecidedIsNotUndecided ==
    ASSUME TypeInv, NEW w \in Walks, at[w] \in Nodes, Undetermined(w, at[w]), ~IsTarget(at[w]),
           NEW child, NEW judged \in BOOLEAN, Decides(w, child, judged)
    PROVE  decided'[w][at[w]] # Undecided
<1>1. Table[at[w]].elseChild \in Nodes
  <2>1. at[w] \in Routers /\ Mode(at[w]) = "conditional"
    BY DEF Routers, Undetermined
  <2>2. Table[at[w]].elseChild \in ChildrenOf(at[w])
    BY <2>1, TableIsServable DEF Servable
  <2> QED
    BY <2>2, ChildrenAreNodes
<1>2. None \notin Nodes
  BY TableIsServable DEF Servable
<1>3. decided'[w][at[w]].elseChild = Table[at[w]].elseChild
  <2>1. decided'[w][at[w]] =
            [decided |-> child, elseChild |-> Table[at[w]].elseChild, judged |-> judged]
    BY DecidesWhat
  <2> QED
    BY <2>1
<1>4. Undecided.elseChild = None
  BY DEF Undecided
<1> QED
  BY <1>1, <1>2, <1>3, <1>4

LEMMA DecidingKeepsCharges ==
    ASSUME TypeInv, NEW w \in Walks, Charged(w), at[w] \in Nodes, Undetermined(w, at[w]),
           ~IsTarget(at[w]), NEW child, NEW judged \in BOOLEAN, Decides(w, child, judged),
           pc[w] \in {"judging", "called"} \/ judgeCalls[w][at[w]] = 0, UNCHANGED <<judgeCalls, at>>
    PROVE  Charged(w)'
<1>1. /\ \A r \in Nodes : r # at[w] => decided'[w][r] = decided[w][r]
      /\ pc'[w] \notin {"judging", "called"}
  BY DecidesWhat
<1>2. decided'[w][at[w]] # Undecided
  BY DecidedIsNotUndecided
<1> QED
  BY <1>1, <1>2 DEF Charged

LEMMA AskJudgeKeepsCharges ==
    ASSUME TypeInv, NEW w \in Walks, Charged(w), AskJudge(w)
    PROVE  Charged(w)'
<1>1. /\ at[w] \in Nodes
      /\ pc[w] = "descend"
      /\ Undetermined(w, at[w])
  BY AskableRouterPlaced DEF AskJudge, MustDecide
<1>2. judgeCalls[w][at[w]] = 0
  BY <1>1 DEF Charged, Undetermined
<1>3. /\ pc'[w] = "judging"
      /\ asks'[w] = 1
      /\ UNCHANGED judgeCalls
  BY <1>1, <1>2 DEF AskJudge, Goto, TypeInv, TypeOK, ControlTypeOK, LearnedTypeOK
<1>4. UNCHANGED <<at, decided>>
  BY DEF AskJudge, descentVars
<1> QED
  BY <1>1, <1>2, <1>3, <1>4 DEF Charged, Undetermined

LEMMA CallJudgeKeepsCharges ==
    ASSUME TypeInv, NEW w \in Walks, Charged(w), CallJudge(w)
    PROVE  Charged(w)'
<1>1. /\ at[w] \in Nodes
      /\ Undetermined(w, at[w])
      /\ asks[w] \in {1, 2}
      /\ judgeCalls[w][at[w]] = asks[w] - 1
  BY DEF CallJudge, Charged, TypeInv, Placed, AtNode
<1>2. /\ pc'[w] = "called"
      /\ judgeCalls'[w][at[w]] = asks[w]
      /\ \A r \in Nodes : r # at[w] => judgeCalls'[w][r] = judgeCalls[w][r]
  BY <1>1 DEF CallJudge, Goto, TypeInv, TypeOK, ControlTypeOK, HistoryTypeOK
<1>3. UNCHANGED <<at, decided, asks>>
  BY DEF CallJudge, descentVars, learnedVars
<1> QED
  BY <1>1, <1>2, <1>3 DEF Charged, Undetermined

LEMMA JudgeAsksAgainOrDecides ==
    ASSUME NEW w \in Walks, JudgeAnswers(w)
    PROVE  /\ UNCHANGED judgeCalls
           /\ pc[w] \in {"judging", "called"}
           /\ \/ \E child : \E judged \in BOOLEAN : Decides(w, child, judged)
              \/ /\ asks[w] = 1
                 /\ asks' = [asks EXCEPT ![w] = 2]
                 /\ pc[w] = "called"
                 /\ Goto(w, "judging")
                 /\ UNCHANGED decided
<1>1. PICK reading \in JudgeReadings(at[w]) :
          \/ Decides(w, reading.names, TRUE)
          \/ Decides(w, Table[at[w]].elseChild, TRUE)
          \/ /\ asks[w] = 1
             /\ asks' = [asks EXCEPT ![w] = 2]
             /\ reading.heard = "unworn"
             /\ Goto(w, "judging")
             /\ UNCHANGED decided
          \/ Decides(w, Table[at[w]].elseChild, FALSE)
  BY DEF JudgeAnswers
<1>2. ASSUME NEW child, NEW judged \in BOOLEAN, Decides(w, child, judged)
      PROVE  \E c : \E j \in BOOLEAN : Decides(w, c, j)
  BY <1>2
<1>3. reading.heard = "unworn" => pc[w] = "called"
  BY DEF JudgeAnswers, JudgeReadings
<1>4. UNCHANGED judgeCalls /\ pc[w] \in {"judging", "called"}
  BY DEF JudgeAnswers
<1> QED
  BY <1>1, <1>2, <1>3, <1>4

LEMMA JudgeAnswersKeepsCharges ==
    ASSUME TypeInv, NEW w \in Walks, Charged(w), JudgeAnswers(w)
    PROVE  Charged(w)'
<1>1. /\ at[w] \in Nodes
      /\ ~IsTarget(at[w])
      /\ pc[w] \in {"judging", "called"}
      /\ Undetermined(w, at[w])
      /\ UNCHANGED <<at, judgeCalls>>
  BY DEF JudgeAnswers, TypeInv, Placed, AtNode, AtRouter, Charged
<1>2. CASE \E child : \E judged \in BOOLEAN : Decides(w, child, judged)
  BY <1>1, <1>2, DecidingKeepsCharges
<1>3. CASE /\ asks[w] = 1
           /\ asks' = [asks EXCEPT ![w] = 2]
           /\ pc[w] = "called"
           /\ Goto(w, "judging")
           /\ UNCHANGED decided
  <2>1. /\ pc'[w] = "judging"
        /\ asks'[w] = 2
        /\ judgeCalls[w][at[w]] = 1
    BY <1>1, <1>3 DEF Charged, Goto, TypeInv, TypeOK, ControlTypeOK, LearnedTypeOK
  <2> QED
    BY <1>1, <1>3, <2>1 DEF Charged, Undetermined
<1> QED
  BY <1>2, <1>3, JudgeAsksAgainOrDecides

LEMMA StepCharged ==
    ASSUME TypeInv, NEW w \in Walks, Charged(w), Arrive(w) \/ WalkSteps(w)
    PROVE  Charged(w)'
<1>1. CASE FollowPinnedBranch(w) \/ DeclineToAsk(w)
  <2>1. /\ at[w] \in Nodes
        /\ ~IsTarget(at[w])
        /\ pc[w] = "descend"
        /\ Undetermined(w, at[w])
    BY <1>1, AskableRouterPlaced DEF FollowPinnedBranch, DeclineToAsk, MustDecide
  <2>2. judgeCalls[w][at[w]] = 0
    BY <2>1 DEF Charged, Undetermined
  <2>3. /\ \/ Decides(w, PinnedBranch(w), TRUE)
           \/ Decides(w, Table[at[w]].elseChild, FALSE)
        /\ UNCHANGED <<judgeCalls, at>>
    BY <1>1 DEF FollowPinnedBranch, DeclineToAsk
  <2> QED
    BY <2>1, <2>2, <2>3, DecidingKeepsCharges
<1>2. CASE AskJudge(w) \/ CallJudge(w) \/ JudgeAnswers(w)
  BY <1>2, AskJudgeKeepsCharges, CallJudgeKeepsCharges, JudgeAnswersKeepsCharges
<1>3. CASE /\ UNCHANGED <<decided, judgeCalls>>
           /\ pc[w] \notin {"judging", "called"}
           /\ pc'[w] \notin {"judging", "called"}
  BY <1>3 DEF Charged
<1> QED
  BY <1>1, <1>2, <1>3, OtherStepsAskNobody

LEMMA InitAsks == Init => AskInv
BY DEF Init, AskInv, Charged

LEMMA StepAsks == TypeInv /\ AskInv /\ [Next]_vars => AskInv'
<1> SUFFICES ASSUME TypeInv, AskInv, [Next]_vars, NEW v \in Walks
             PROVE  Charged(v)'
  BY DEF AskInv
<1>1. Charged(v)
  BY DEF AskInv
<1>2. CASE MemoryPasses \/ UNCHANGED vars
  BY <1>1, <1>2, WalksStand, ChargesStand
<1>3. ASSUME NEW w \in Walks, Arrive(w) \/ WalkSteps(w)
      PROVE  Charged(v)'
  <2>1. CASE v = w
    BY <1>1, <1>3, <2>1, StepCharged
  <2>2. CASE v # w
    BY <1>1, <1>3, <2>2, OthersStand, ChargesStand
  <2> QED
    BY <2>1, <2>2
<1> QED
  BY <1>2, <1>3 DEF Next

(* However often a walk comes back to a router, the router costs it two    *)
(* judge calls at most.                                                    *)
THEOREM RoutersAreJudgedTwiceAtMost == Spec => []JudgedAtMostTwice
<1>1. AskInv => JudgedAtMostTwice
  BY DEF AskInv, Charged, JudgedAtMostTwice
<1> QED
  BY <1>1, InitTyped, StepTyped, InitAsks, StepAsks, PTL DEF Spec

(* A walk under way has seen every judge that stands ready, and the judge  *)
(* it asks stood ready when it read its standing.                          *)
Heeded(w) ==
    /\ pc[w] \notin {"idle", "done"} =>
          \A r \in Nodes :
              Table[r].judge # None /\ ~Cooling(Memory, Table[r].judge) => r \in sawReady[w]
    /\ pc[w] \in {"judging", "called"} => at[w] \in sawReady[w]
    /\ \A r \in Nodes : judgeCalls[w][r] > 0 => r \in sawReady[w]

HeedInv == \A w \in Walks : Heeded(w)

(* Calls a step makes are of a judge the walk is asking.                   *)
LEMMA CallsAreOfTheAsked ==
    ASSUME TypeInv, NEW w \in Walks, Heeded(w), Arrive(w) \/ WalkSteps(w),
           sawReady[w] \subseteq sawReady'[w]
    PROVE  /\ pc'[w] \in {"judging", "called"} => at'[w] \in sawReady'[w]
           /\ \A r \in Nodes : judgeCalls'[w][r] > 0 => r \in sawReady'[w]
<1>1. CASE FollowPinnedBranch(w) \/ DeclineToAsk(w)
  <2>1. UNCHANGED judgeCalls
    BY <1>1 DEF FollowPinnedBranch, DeclineToAsk
  <2>2. pc'[w] \notin {"judging", "called"}
    BY <1>1 DEF FollowPinnedBranch, DeclineToAsk, Decides, Goto, TypeInv, TypeOK, ControlTypeOK
  <2> QED
    BY <2>1, <2>2 DEF Heeded
<1>2. CASE AskJudge(w)
  <2>1. /\ at[w] \in Nodes
        /\ pc[w] = "descend"
        /\ Undetermined(w, at[w])
        /\ ~Cooling(Memory, Table[at[w]].judge)
    BY <1>2, AskableRouterPlaced DEF AskJudge, MustDecide, JudgeStandsCooling
  <2>2. Table[at[w]].judge # None
    <3>1. at[w] \in Routers /\ Mode(at[w]) = "conditional"
      BY <1>2, <2>1, AskableRouterPlaced DEF AskJudge, MustDecide, Routers, Undetermined
    <3> QED
      BY <3>1, TableIsServable DEF Servable
  <2>3. UNCHANGED <<judgeCalls, at>>
    BY <1>2 DEF AskJudge, descentVars
  <2> QED
    BY <2>1, <2>2, <2>3 DEF Heeded
<1>3. CASE CallJudge(w)
  <2>1. /\ pc[w] = "judging"
        /\ judgeCalls' = [judgeCalls EXCEPT ![w][at[w]] = @ + 1]
        /\ UNCHANGED at
        /\ at[w] \in Nodes
    BY <1>3 DEF CallJudge, descentVars, TypeInv, Placed, AtNode
  <2>2. \A r \in Nodes : r # at[w] => judgeCalls'[w][r] = judgeCalls[w][r]
    BY <2>1 DEF TypeInv, TypeOK, HistoryTypeOK
  <2> QED
    BY <2>1, <2>2 DEF Heeded
<1>4. CASE JudgeAnswers(w)
  <2>1. UNCHANGED <<judgeCalls, at>> /\ pc[w] \in {"judging", "called"}
    BY <1>4 DEF JudgeAnswers
  <2> QED
    BY <2>1 DEF Heeded
<1>5. CASE UNCHANGED judgeCalls /\ pc'[w] \notin {"judging", "called"}
  BY <1>5 DEF Heeded
<1> QED
  BY <1>1, <1>2, <1>3, <1>4, <1>5, OtherStepsAskNobody

LEMMA InitHeeds == Init => HeedInv
BY DEF Init, HeedInv, Heeded

LEMMA StepHeeds == TypeInv /\ HeedInv /\ [Next]_vars => HeedInv'
<1> SUFFICES ASSUME TypeInv, HeedInv, [Next]_vars, NEW v \in Walks
             PROVE  Heeded(v)'
  BY DEF HeedInv
<1>1. Heeded(v)
  BY DEF HeedInv
<1>2. CASE Next
  <2>1. sawReady[v] \subseteq sawReady'[v]
    BY <1>2 DEF Next, Observe
  <2>2. pc'[v] \notin {"idle", "done"} =>
            \A r \in Nodes :
                Table[r].judge # None /\ ~Cooling(Memory, Table[r].judge)' => r \in sawReady'[v]
    BY <1>2 DEF Next, Observe, Cooling
  <2>3. /\ pc'[v] \in {"judging", "called"} => at'[v] \in sawReady'[v]
        /\ \A r \in Nodes : judgeCalls'[v][r] > 0 => r \in sawReady'[v]
    <3>1. CASE UNCHANGED Own(v)
      BY <1>1, <2>1, <3>1 DEF Own, Heeded
    <3>2. CASE Arrive(v) \/ WalkSteps(v)
      BY <1>1, <2>1, <3>2, CallsAreOfTheAsked
    <3> QED
      BY <1>2, <3>1, <3>2, WalksStand, OthersStand DEF Next
  <2> QED
    BY <2>2, <2>3 DEF Heeded
<1>3. CASE UNCHANGED vars
  BY <1>1, <1>3 DEF Heeded, Cooling, vars, memoryVars, descentVars, historyVars
<1> QED
  BY <1>2, <1>3

(* A judge that stood down before a request came, and has since, is called *)
(* for none of that request's routers.                                     *)
THEOREM StandDownsOutlastRequests == Spec => []StandDownsAreHeeded
<1>1. HeedInv => StandDownsAreHeeded
  BY DEF HeedInv, Heeded, StandDownsAreHeeded
<1> QED
  BY <1>1, InitTyped, StepTyped, InitHeeds, StepHeeds, PTL DEF Spec

-----------------------------------------------------------------------------
(***************************************************************************)
(* The reach of a walk: the table is a tree, so the nodes a descent passed *)
(* are the ancestors of the node it stands at.                             *)
(***************************************************************************)

(* A descent stands below every node it passed, a router is asked for no   *)
(* child of a rotation a sealed turn keeps to, and offers its own.         *)
Descended(w) ==
    /\ pc[w] \in AtNode =>
          /\ at[w] \in path[w]
          /\ \A n \in path[w] : n \in Below[Entry] /\ at[w] \in Below[n]
    /\ pc[w] \in AtRouter => ~WouldRotate(w)
    /\ pc[w] = "offered" /\ offered[w] # None => offered[w] \in ChildrenOf(at[w])

(* A kept child is the router's own and was handed to the conversation.    *)
PinsInv ==
    \A c \in Conversations, r \in Nodes :
        rotationPins[c][r] # None =>
            rotationPins[c][r] \in ChildrenOf(r) \cap spread[c][r]

PathInv == PinsInv /\ \A w \in Walks : Descended(w)

-----------------------------------------------------------------------------
(* The table is a tree.                                                    *)

(* What one node's subtree holds is the least set with the node that holds *)
(* the children of whatever it holds.                                      *)
LEMMA BelowHolds ==
    ASSUME NEW start \in Nodes
    PROVE  /\ start \in Below[start]
           /\ Below[start] \subseteq Nodes
           /\ \A n \in Below[start] : ChildrenOf(n) \subseteq Below[start]
<1>1. CASE IsTarget(start)
  BY <1>1 DEF Below, ChildrenOf
<1>2. CASE ~IsTarget(start)
  <2> DEFINE routers == RoutersBelow(start)
  <2>1. Below[start] = {start} \cup UNION {ChildrenOf(r) : r \in routers}
    BY <1>2 DEF Below
  <2>2. routers \subseteq Routers
    BY DEF RoutersBelow
  <2>3. Below[start] \subseteq Nodes
    BY <2>1, <2>2, ChildrenAreNodes DEF Routers
  <2>4. ASSUME NEW n \in Below[start], NEW c \in ChildrenOf(n)
        PROVE  c \in Below[start]
    <3>1. n \in Routers
      BY <2>3, <2>4 DEF Routers, ChildrenOf
    <3>2. ASSUME NEW set \in SUBSET Routers, start \in set, Closed(set)
          PROVE  n \in set
      <4>1. CASE n # start
        <5>1. PICK r \in routers : n \in ChildrenOf(r)
          BY <2>1, <4>1
        <5>2. r \in set
          BY <3>2, <5>1 DEF RoutersBelow
        <5> QED
          BY <3>1, <3>2, <5>1, <5>2 DEF Closed
      <4> QED
        BY <3>2, <4>1
    <3>3. n \in routers
      BY <3>1, <3>2 DEF RoutersBelow
    <3> QED
      BY <2>1, <2>4, <3>3
  <2> QED
    BY <2>1, <2>3, <2>4
<1> QED
  BY <1>1, <1>2

LEMMA BelowIsLeast ==
    ASSUME NEW start \in Nodes, NEW set \in SUBSET Nodes, start \in set,
           \A n \in set : ChildrenOf(n) \subseteq set
    PROVE  Below[start] \subseteq set
<1>1. CASE IsTarget(start)
  BY <1>1 DEF Below
<1>2. CASE ~IsTarget(start)
  <2> DEFINE routers == set \cap Routers
  <2>1. routers \in SUBSET Routers /\ start \in routers /\ Closed(routers)
    BY <1>2 DEF Closed, Routers
  <2>2. RoutersBelow(start) \subseteq routers
    BY <2>1 DEF RoutersBelow
  <2> QED
    BY <1>2, <2>2 DEF Below
<1> QED
  BY <1>1, <1>2

LEMMA BelowIsTransitive ==
    ASSUME NEW start \in Nodes, NEW n \in Below[start]
    PROVE  Below[n] \subseteq Below[start]
<1>1. n \in Nodes /\ Below[start] \in SUBSET Nodes
  BY BelowHolds
<1> QED
  BY <1>1, BelowHolds, BelowIsLeast

LEMMA BelowATarget ==
    ASSUME NEW t \in Nodes, IsTarget(t)
    PROVE  Below[t] = {t}
BY DEF Below

(* A node of a subtree is its root or stands below one of the root's       *)
(* children.                                                               *)
LEMMA BelowAChild ==
    ASSUME NEW start \in Nodes, NEW x \in Below[start], x # start
    PROVE  \E c \in ChildrenOf(start) : x \in Below[c]
<1> DEFINE set == {start} \cup UNION {Below[c] : c \in ChildrenOf(start)}
<1>1. ChildrenOf(start) \subseteq Nodes
  BY ChildrenAreNodes
<1>2. set \in SUBSET Nodes
  BY <1>1, BelowHolds
<1>3. ASSUME NEW n \in set
      PROVE  ChildrenOf(n) \subseteq set
  <2>1. CASE n = start
    BY <1>1, <2>1, BelowHolds
  <2>2. CASE \E c \in ChildrenOf(start) : n \in Below[c]
    BY <1>1, <2>2, BelowHolds
  <2> QED
    BY <2>1, <2>2
<1>4. Below[start] \subseteq set
  BY <1>2, <1>3, BelowIsLeast
<1> QED
  BY <1>4

(* ... and but for the root it is the child of a node of the subtree.      *)
LEMMA BelowHasParents ==
    ASSUME NEW start \in Nodes, NEW x \in Below[start], x # start
    PROVE  \E p \in Below[start] : x \in ChildrenOf(p)
<1> DEFINE set == {start} \cup UNION {ChildrenOf(p) : p \in Below[start]}
<1>1. set \subseteq Below[start]
  BY BelowHolds
<1>2. set \in SUBSET Nodes
  BY <1>1, BelowHolds
<1>3. ASSUME NEW n \in set
      PROVE  ChildrenOf(n) \subseteq set
  BY <1>1
<1>4. Below[start] \subseteq set
  BY <1>2, <1>3, BelowIsLeast
<1> QED
  BY <1>4

(* gateway-routing.ts lets no node answer to two parents.                  *)
LEMMA ParentsAreUnique ==
    ASSUME NEW p \in Nodes, NEW q \in Nodes, NEW x \in ChildrenOf(p), x \in ChildrenOf(q)
    PROVE  p = q
<1>1. p \in Routers /\ q \in Routers
  BY DEF Routers, ChildrenOf
<1> QED
  BY <1>1, TableIsServable DEF Servable

LEMMA EntryStandsOnTop ==
    /\ Entry \in Nodes
    /\ \A n \in Nodes : Entry \notin ChildrenOf(n)
<1>1. \A n \in Nodes : n \in Routers \/ ChildrenOf(n) = {}
  BY DEF Routers, ChildrenOf
<1> QED
  BY <1>1, TableIsServable DEF Servable

(* A subtree that holds a child and is not rooted there holds its parent.  *)
LEMMA ParentsStandBelow ==
    ASSUME NEW start \in Nodes, NEW p \in Nodes, NEW x \in ChildrenOf(p),
           x \in Below[start], x # start
    PROVE  p \in Below[start]
<1>1. PICK q \in Below[start] : x \in ChildrenOf(q)
  BY BelowHasParents
<1>2. q \in Nodes
  BY BelowHolds
<1> QED
  BY <1>1, <1>2, ParentsAreUnique

(* No router stands below its own child.                                   *)
LEMMA NothingHoldsItsParent ==
    ASSUME NEW n \in Nodes, NEW c \in ChildrenOf(n)
    PROVE  n \notin Below[c]
<1>1. c \in Nodes
  BY ChildrenAreNodes
<1>2. n \in Below[Entry]
  BY TableIsServable DEF Servable, Routers, ChildrenOf
<1> DEFINE set == {x \in Below[Entry] : x \notin Below[c]}
<1>3. set \in SUBSET Nodes
  BY EntryStandsOnTop, BelowHolds
<1> SUFFICES ASSUME n \in Below[c]
             PROVE  FALSE
  OBVIOUS
<1>4. Entry \in set
  <2>1. c # Entry
    BY EntryStandsOnTop
  <2>2. Entry \in Below[c] => \E p \in Below[c] : Entry \in ChildrenOf(p)
    BY <1>1, <2>1, BelowHasParents
  <2> QED
    BY <1>1, <2>2, EntryStandsOnTop, BelowHolds
<1>5. ASSUME NEW x \in set, NEW y \in ChildrenOf(x)
      PROVE  y \in set
  <2>1. x \in Nodes /\ y \in Below[Entry]
    BY <1>3, <1>5, EntryStandsOnTop, BelowHolds
  <2>2. CASE y = c
    <3>1. x = n
      BY <2>1, <2>2, ParentsAreUnique
    <3> QED
      BY <3>1
  <2>3. CASE y # c
    BY <1>1, <2>1, <2>3, ParentsStandBelow
  <2> QED
    BY <2>2, <2>3
<1>6. Below[Entry] \subseteq set
  BY <1>3, <1>4, <1>5, EntryStandsOnTop, BelowIsLeast
<1> QED
  BY <1>2, <1>6

-----------------------------------------------------------------------------
(* How a walk moves.                                                       *)

EndsTheDescent(w) == pc'[w] \in {"loop", "done"}

Enters(w) ==
    /\ pc[w] = "loop"
    /\ pc'[w] = "descend"
    /\ at'[w] = Entry
    /\ path'[w] = {Entry}

Stays(w) ==
    /\ pc[w] \in AtNode
    /\ pc'[w] \in AtNode
    /\ at'[w] = at[w]
    /\ path'[w] = path[w]

(* A sealed turn goes from a rotation only to a child it had handed out.   *)
GoesTo(w, child) ==
    /\ pc[w] \in AtNode
    /\ pc'[w] = "descend"
    /\ child \in ChildrenOf(at[w])
    /\ at'[w] = child
    /\ path'[w] = path[w] \cup {child}
    /\ Mode(at[w]) = "round-robin" /\ request[w].resumes =>
          child \in spread[request[w].conversation][at[w]]

Moves(w) ==
    \/ EndsTheDescent(w) \/ Enters(w) \/ Stays(w)
    \/ \E child \in Nodes : GoesTo(w, child)

LEMMA FollowKeptChildGoes ==
    ASSUME TypeInv, PinsInv, NEW w \in Walks, FollowKeptChild(w)
    PROVE  \E child \in Nodes : GoesTo(w, child)
<1>1. at[w] \in Nodes /\ request[w] \in Requests /\ pc[w] = "descend"
  BY DEF FollowKeptChild, TypeInv, Placed, AtNode
<1> DEFINE child == PinnedChildAt(w, at[w])
<1>2. child # None /\ DescendsTo(w, child) /\ Goto(w, "descend")
  BY DEF FollowKeptChild
<1>3. child = rotationPins[request[w].conversation][at[w]]
  BY <1>2 DEF PinnedChildAt
<1>4. child \in ChildrenOf(at[w]) \cap spread[request[w].conversation][at[w]]
  BY <1>1, <1>2, <1>3 DEF PinsInv, Requests
<1>5. child \in Nodes
  BY <1>1, <1>4, ChildrenAreNodes
<1>6. /\ pc'[w] = "descend"
      /\ at'[w] = child
      /\ path'[w] = path[w] \cup {child}
  BY <1>2 DEF DescendsTo, Goto, TypeInv, TypeOK, ControlTypeOK, DescentTypeOK
<1> QED
  BY <1>1, <1>4, <1>5, <1>6 DEF GoesTo, AtNode

LEMMA DescendToOfferedGoes ==
    ASSUME TypeInv, NEW w \in Walks, Descended(w), DescendToOffered(w)
    PROVE  GoesTo(w, offered[w]) /\ offered[w] \in Nodes
<1>1. at[w] \in Nodes /\ pc[w] = "offered" /\ offered[w] # None
  BY DEF DescendToOffered, TypeInv, Placed, AtNode
<1>2. offered[w] \in ChildrenOf(at[w]) /\ ~WouldRotate(w)
  BY <1>1 DEF Descended, AtRouter
<1>3. DescendsTo(w, offered[w]) /\ Goto(w, "descend")
  BY DEF DescendToOffered
<1>4. /\ pc'[w] = "descend"
      /\ at'[w] = offered[w]
      /\ path'[w] = path[w] \cup {offered[w]}
  BY <1>3 DEF DescendsTo, Goto, TypeInv, TypeOK, ControlTypeOK, DescentTypeOK
<1> QED
  BY <1>1, <1>2, <1>4, ChildrenAreNodes DEF GoesTo, WouldRotate, AtNode

LEMMA WalksMove ==
    ASSUME TypeInv, PinsInv, NEW w \in Walks, Descended(w), Arrive(w) \/ WalkSteps(w)
    PROVE  Moves(w)
<1> USE DEF TypeInv, TypeOK, ControlTypeOK, DescentTypeOK, Goto
<1>1. CASE ReachTheLimit(w) \/ NowhereAtTarget(w) \/ NowherePastTheRouter(w)
  BY <1>1 DEF ReachTheLimit, NowhereAtTarget, NowherePastTheRouter, SettlesWithNoChild, Settles,
              Moves, EndsTheDescent
<1>2. CASE RefuseChainedTurn(w) \/ RefuseUnjudged(w) \/ AttemptAnswers(w) \/ AttemptThrows(w)
  BY <1>2 DEF RefuseChainedTurn, RefuseUnjudged, AttemptAnswers, AttemptThrows, Settles, Moves, EndsTheDescent
<1>3. CASE Arrive(w) \/ DescendAgain(w) \/ MoveOn(w)
  BY <1>3 DEF Arrive, DescendAgain, MoveOn, Moves, EndsTheDescent
<1>4. CASE BeginDescent(w)
  BY <1>4 DEF BeginDescent, Moves, Enters
<1>5. CASE FollowKeptChild(w)
  BY <1>5, FollowKeptChildGoes DEF Moves
<1>6. CASE DescendToOffered(w)
  BY <1>6, DescendToOfferedGoes DEF Moves
<1>7. CASE StepAtTarget(w) \/ AskRouter(w) \/ OfferChild(w) \/ OfferNothing(w)
  BY <1>7 DEF StepAtTarget, AskRouter, AtAskableRouter, OfferChild, OfferNothing, Moves, Stays, AtNode
<1>8. CASE FollowPinnedBranch(w) \/ DeclineToAsk(w)
  BY <1>8 DEF FollowPinnedBranch, DeclineToAsk, MustDecide, AtAskableRouter, Decides, Moves, Stays, AtNode
<1>9. CASE AskJudge(w) \/ CallJudge(w)
  BY <1>9 DEF AskJudge, CallJudge, MustDecide, AtAskableRouter, descentVars, Moves, Stays, AtNode
<1>10. CASE JudgeAnswers(w)
  <2>1. /\ pc[w] \in {"judging", "called"}
        /\ UNCHANGED <<at, path>>
    BY <1>10 DEF JudgeAnswers
  <2>2. \E p \in {"pick", "unjudged", "judging"} : Goto(w, p)
    BY <1>10, JudgeAsksAgainOrDecides DEF Decides
  <2> QED
    BY <2>1, <2>2 DEF Moves, Stays, AtNode
<1> QED
  BY <1>1, <1>2, <1>3, <1>4, <1>5, <1>6, <1>7, <1>8, <1>9, <1>10 DEF WalkSteps

(* Only an arrival brings a request.                                       *)
LEMMA RequestsStand ==
    ASSUME TypeInv, NEW w \in Walks, Arrive(w) \/ WalkSteps(w), pc[w] # "idle"
    PROVE  UNCHANGED request
<1>1. CASE BeginDescent(w) \/ AskRouter(w) \/ OfferChild(w) \/ OfferNothing(w)
  BY <1>1 DEF BeginDescent, AskRouter, OfferChild, OfferNothing
<1>2. CASE ReachTheLimit(w) \/ NowhereAtTarget(w) \/ NowherePastTheRouter(w)
  BY <1>2 DEF ReachTheLimit, NowhereAtTarget, NowherePastTheRouter
<1>3. CASE RefuseChainedTurn(w) \/ RefuseUnjudged(w) \/ AttemptAnswers(w) \/ AttemptThrows(w)
  BY <1>3 DEF RefuseChainedTurn, RefuseUnjudged, AttemptAnswers, AttemptThrows
<1>4. CASE FollowKeptChild(w) \/ DescendToOffered(w) \/ DescendAgain(w)
  BY <1>4 DEF FollowKeptChild, DescendToOffered, DescendAgain
<1>5. CASE StepAtTarget(w) \/ MoveOn(w) \/ AskJudge(w) \/ CallJudge(w)
  BY <1>5 DEF StepAtTarget, MoveOn, AskJudge, CallJudge
<1>6. CASE FollowPinnedBranch(w) \/ DeclineToAsk(w) \/ JudgeAnswers(w)
  BY <1>6 DEF FollowPinnedBranch, DeclineToAsk, JudgeAnswers
<1> QED
  BY <1>1, <1>2, <1>3, <1>4, <1>5, <1>6 DEF WalkSteps, Arrive

(* A walk asks a router it may ask, and goes on asking it.                 *)
LEMMA RoutersAreAskable ==
    ASSUME TypeInv, NEW w \in Walks, Arrive(w) \/ WalkSteps(w), pc'[w] \in AtRouter
    PROVE  /\ pc[w] \in AtRouter \/ (pc[w] = "descend" /\ ~WouldRotate(w))
           /\ UNCHANGED <<at, path, request, spent>>
<1> USE DEF TypeInv, TypeOK, ControlTypeOK, Goto, AtRouter
<1>1. CASE ReachTheLimit(w) \/ NowhereAtTarget(w) \/ NowherePastTheRouter(w)
  BY <1>1 DEF ReachTheLimit, NowhereAtTarget, NowherePastTheRouter, SettlesWithNoChild, Settles
<1>2. CASE RefuseChainedTurn(w) \/ RefuseUnjudged(w) \/ AttemptAnswers(w) \/ AttemptThrows(w)
  BY <1>2 DEF RefuseChainedTurn, RefuseUnjudged, AttemptAnswers, AttemptThrows, Settles
<1>3. CASE Arrive(w) \/ BeginDescent(w) \/ DescendAgain(w) \/ MoveOn(w)
  BY <1>3 DEF Arrive, BeginDescent, DescendAgain, MoveOn
<1>4. CASE FollowKeptChild(w) \/ DescendToOffered(w) \/ StepAtTarget(w)
  BY <1>4 DEF FollowKeptChild, DescendToOffered, StepAtTarget
<1>5. CASE AskRouter(w)
  BY <1>5 DEF AskRouter, AtAskableRouter, learnedVars
<1>8. CASE OfferChild(w) \/ OfferNothing(w)
  <2>1. pc[w] = "pick" /\ UNCHANGED <<at, path, request, spent>>
    BY <1>8 DEF OfferChild, OfferNothing, learnedVars
  <2> QED
    BY <2>1
<1>6. CASE FollowPinnedBranch(w) \/ DeclineToAsk(w) \/ AskJudge(w) \/ CallJudge(w)
  BY <1>6 DEF FollowPinnedBranch, DeclineToAsk, AskJudge, CallJudge, MustDecide, AtAskableRouter,
              descentVars, learnedVars
<1>7. CASE JudgeAnswers(w)
  <2>1. pc[w] \in {"judging", "called"} /\ UNCHANGED <<at, path, request, spent>>
    BY <1>7 DEF JudgeAnswers
  <2> QED
    BY <2>1
<1> QED
  BY <1>1, <1>2, <1>3, <1>4, <1>5, <1>6, <1>7, <1>8 DEF WalkSteps

(* Which step brings a walk where.                                         *)
LEMMA Landings ==
    ASSUME TypeInv, NEW w \in Walks, Arrive(w) \/ WalkSteps(w)
    PROVE  \/ pc'[w] = "loop" /\ (Arrive(w) \/ DescendAgain(w) \/ MoveOn(w))
           \/ pc'[w] = "descend" /\ (BeginDescent(w) \/ FollowKeptChild(w) \/ DescendToOffered(w))
           \/ pc'[w] = "judging" /\ (AskJudge(w) \/ JudgeAnswers(w))
           \/ pc'[w] = "called" /\ CallJudge(w)
           \/ /\ pc'[w] \in {"pick", "unjudged"}
              /\ AskRouter(w) \/ FollowPinnedBranch(w) \/ DeclineToAsk(w) \/ JudgeAnswers(w)
           \/ pc'[w] = "offered" /\ (OfferChild(w) \/ OfferNothing(w))
           \/ pc'[w] = "attempting" /\ StepAtTarget(w)
           \/ /\ pc'[w] = "done"
              /\ \/ ReachTheLimit(w) \/ NowhereAtTarget(w) \/ NowherePastTheRouter(w)
                 \/ RefuseChainedTurn(w) \/ RefuseUnjudged(w) \/ AttemptAnswers(w) \/ AttemptThrows(w)
<1> USE DEF TypeInv, TypeOK, ControlTypeOK, Goto
<1>1. CASE ReachTheLimit(w) \/ NowhereAtTarget(w) \/ NowherePastTheRouter(w)
  BY <1>1 DEF ReachTheLimit, NowhereAtTarget, NowherePastTheRouter, SettlesWithNoChild, Settles
<1>2. CASE RefuseChainedTurn(w) \/ RefuseUnjudged(w) \/ AttemptAnswers(w) \/ AttemptThrows(w)
  BY <1>2 DEF RefuseChainedTurn, RefuseUnjudged, AttemptAnswers, AttemptThrows, Settles
<1>3. CASE Arrive(w) \/ DescendAgain(w) \/ MoveOn(w)
  BY <1>3 DEF Arrive, DescendAgain, MoveOn
<1>4. CASE BeginDescent(w) \/ FollowKeptChild(w) \/ DescendToOffered(w) \/ StepAtTarget(w)
  BY <1>4 DEF BeginDescent, FollowKeptChild, DescendToOffered, StepAtTarget
<1>5. CASE AskRouter(w) \/ AskJudge(w) \/ CallJudge(w) \/ OfferChild(w) \/ OfferNothing(w)
  BY <1>5 DEF AskRouter, AskJudge, CallJudge, OfferChild, OfferNothing
<1>6. CASE FollowPinnedBranch(w) \/ DeclineToAsk(w)
  BY <1>6 DEF FollowPinnedBranch, DeclineToAsk, Decides
<1>7. CASE JudgeAnswers(w)
  <2>1. pc'[w] \in {"judging", "pick", "unjudged"}
    BY <1>7, JudgeAsksAgainOrDecides DEF Decides
  <2> QED
    BY <1>7, <2>1
<1> QED
  BY <1>1, <1>2, <1>3, <1>4, <1>5, <1>6, <1>7 DEF WalkSteps

LEMMA StepDescended ==
    ASSUME TypeInv, PinsInv, NEW w \in Walks, Descended(w), Arrive(w) \/ WalkSteps(w)
    PROVE  Descended(w)'
<1>1. ASSUME pc'[w] \in AtNode
      PROVE  /\ at'[w] \in path'[w]
             /\ \A n \in path'[w] : n \in Below[Entry] /\ at'[w] \in Below[n]
  <2>1. CASE Enters(w)
    BY <2>1, EntryStandsOnTop, BelowHolds DEF Enters
  <2>2. CASE Stays(w)
    BY <2>2 DEF Stays, Descended
  <2>3. ASSUME NEW child \in Nodes, GoesTo(w, child)
        PROVE  /\ at'[w] \in path'[w]
               /\ \A n \in path'[w] : n \in Below[Entry] /\ at'[w] \in Below[n]
    <3>1. /\ at'[w] = child
          /\ path'[w] = path[w] \cup {child}
          /\ child \in ChildrenOf(at[w])
          /\ at[w] \in path[w]
          /\ \A n \in path[w] : n \in Below[Entry] /\ at[w] \in Below[n]
      BY <2>3 DEF GoesTo, Descended
    <3>2. child \in Below[Entry] /\ child \in Below[child]
      BY <3>1, EntryStandsOnTop, BelowHolds
    <3>3. \A n \in path[w] : n \in Nodes /\ child \in Below[n]
      BY <3>1, EntryStandsOnTop, BelowHolds
    <3> QED
      BY <3>1, <3>2, <3>3
  <2> QED
    BY <1>1, <2>1, <2>2, <2>3, WalksMove DEF Moves, EndsTheDescent, AtNode
<1>2. ASSUME pc'[w] \in AtRouter
      PROVE  ~WouldRotate(w)'
  BY <1>2, RoutersAreAskable DEF Descended, WouldRotate, Mode
<1>3. ASSUME pc'[w] = "offered", offered'[w] # None
      PROVE  offered'[w] \in ChildrenOf(at'[w])
  <2>1. OfferChild(w)
    BY <1>3, Landings DEF OfferNothing, TypeInv, TypeOK, DescentTypeOK
  <2>2. offered'[w] \in Serving(w) /\ UNCHANGED at
    BY <2>1 DEF OfferChild, TypeInv, TypeOK, DescentTypeOK
  <2> QED
    BY <2>2 DEF Serving
<1> QED
  BY <1>1, <1>2, <1>3 DEF Descended

-----------------------------------------------------------------------------
(* Kept children.                                                          *)

LEMMA RotationsStand ==
    ASSUME NEW w \in Walks, Arrive(w) \/ WalkSteps(w), ~DescendToOffered(w)
    PROVE  UNCHANGED <<rotationPins, spread>>
<1> USE DEF memoryVars
<1>1. CASE Arrive(w) \/ BeginDescent(w) \/ AskRouter(w) \/ OfferChild(w) \/ OfferNothing(w)
  BY <1>1 DEF Arrive, BeginDescent, AskRouter, OfferChild, OfferNothing
<1>2. CASE ReachTheLimit(w) \/ NowhereAtTarget(w) \/ NowherePastTheRouter(w)
  BY <1>2 DEF ReachTheLimit, NowhereAtTarget, NowherePastTheRouter
<1>3. CASE RefuseChainedTurn(w) \/ RefuseUnjudged(w) \/ AttemptAnswers(w) \/ AttemptThrows(w)
  BY <1>3 DEF RefuseChainedTurn, RefuseUnjudged, AttemptAnswers, AttemptThrows
<1>4. CASE FollowKeptChild(w) \/ DescendAgain(w) \/ StepAtTarget(w) \/ MoveOn(w)
  BY <1>4 DEF FollowKeptChild, DescendAgain, StepAtTarget, MoveOn
<1>5. CASE FollowPinnedBranch(w) \/ DeclineToAsk(w) \/ AskJudge(w) \/ CallJudge(w) \/ JudgeAnswers(w)
  BY <1>5 DEF FollowPinnedBranch, DeclineToAsk, AskJudge, CallJudge, JudgeAnswers
<1> QED
  BY <1>1, <1>2, <1>3, <1>4, <1>5 DEF WalkSteps

(* What a rotation handed out stays handed out, and what it keeps it       *)
(* handed out.                                                             *)
LEMMA DescendToOfferedKeepsPins ==
    ASSUME TypeInv, PinsInv, NEW w \in Walks, Descended(w), DescendToOffered(w)
    PROVE  /\ PinsInv'
           /\ \A c \in Conversations, r \in Nodes : spread[c][r] \subseteq spread'[c][r]
<1> DEFINE c == request[w].conversation
           r == at[w]
           child == offered[w]
<1>1. /\ c \in Conversations
      /\ r \in Nodes
      /\ child \in Nodes \cap ChildrenOf(r)
  BY DescendToOfferedGoes DEF DescendToOffered, TypeInv, Placed, AtNode, Requests, GoesTo
<1>2. \/ UNCHANGED <<rotationPins, spread>>
      \/ /\ rotationPins' = [rotationPins EXCEPT ![c][r] = child]
         /\ spread' = [spread EXCEPT ![c][r] = @ \cup {child}]
  BY DEF DescendToOffered
<1>3. /\ rotationPins \in [Conversations -> [Nodes -> Nodes \cup {None}]]
      /\ spread \in [Conversations -> [Nodes -> SUBSET Nodes]]
  BY DEF TypeInv, TypeOK, MemoryTypeOK, HistoryTypeOK
<1> HIDE DEF c, r, child
<1>4. ASSUME NEW d \in Conversations, NEW q \in Nodes
      PROVE  /\ spread[d][q] \subseteq spread'[d][q]
             /\ rotationPins'[d][q] # None =>
                   rotationPins'[d][q] \in ChildrenOf(q) \cap spread'[d][q]
  <2>1. CASE UNCHANGED <<rotationPins, spread>>
    BY <2>1 DEF PinsInv
  <2>2. CASE /\ rotationPins' = [rotationPins EXCEPT ![c][r] = child]
             /\ spread' = [spread EXCEPT ![c][r] = @ \cup {child}]
    <3>1. CASE d = c /\ q = r
      <4>1. rotationPins'[d][q] = child /\ spread'[d][q] = spread[d][q] \cup {child}
        BY ONLY <1>1, <1>3, <2>2, <3>1
      <4> QED
        BY <1>1, <3>1, <4>1
    <3>2. CASE ~(d = c /\ q = r)
      <4>1. rotationPins'[d][q] = rotationPins[d][q] /\ spread'[d][q] = spread[d][q]
        BY ONLY <1>3, <1>4, <2>2, <3>2
      <4> QED
        BY <4>1 DEF PinsInv
    <3> QED
      BY <3>1, <3>2
  <2> QED
    BY <1>2, <2>1, <2>2
<1> QED
  BY <1>4 DEF PinsInv

LEMMA StepPins ==
    ASSUME TypeInv, PathInv, [Next]_vars
    PROVE  /\ PinsInv'
           /\ \A c \in Conversations, r \in Nodes : spread[c][r] \subseteq spread'[c][r]
<1>1. ASSUME NEW w \in Walks, Arrive(w) \/ WalkSteps(w)
      PROVE  /\ PinsInv'
             /\ \A c \in Conversations, r \in Nodes : spread[c][r] \subseteq spread'[c][r]
  <2>1. CASE DescendToOffered(w)
    BY <2>1, DescendToOfferedKeepsPins DEF PathInv
  <2>2. CASE ~DescendToOffered(w)
    BY <1>1, <2>2, RotationsStand DEF PathInv, PinsInv
  <2> QED
    BY <2>1, <2>2
<1>2. CASE MemoryPasses
  <2>1. /\ UNCHANGED spread
        /\ \A c \in Conversations, r \in Nodes : rotationPins'[c][r] \in {rotationPins[c][r], None}
    BY <1>2 DEF MemoryPasses, CoolingEnds, PinForgotten, RotationPinForgotten,
                TypeInv, TypeOK, MemoryTypeOK
  <2> QED
    BY <2>1 DEF PathInv, PinsInv
<1>3. CASE UNCHANGED vars
  BY <1>3 DEF vars, memoryVars, historyVars, PathInv, PinsInv
<1> QED
  BY <1>1, <1>2, <1>3 DEF Next

LEMMA StepPaths == TypeInv /\ PathInv /\ [Next]_vars => PathInv'
<1> SUFFICES ASSUME TypeInv, PathInv, [Next]_vars, NEW v \in Walks
             PROVE  Descended(v)'
  BY StepPins DEF PathInv
<1>1. PinsInv /\ Descended(v)
  BY DEF PathInv
<1>2. ASSUME UNCHANGED Own(v)
      PROVE  Descended(v)'
  BY <1>1, <1>2 DEF Own, Descended, WouldRotate
<1>3. ASSUME NEW w \in Walks, Arrive(w) \/ WalkSteps(w)
      PROVE  Descended(v)'
  <2>1. CASE v = w
    BY <1>1, <1>3, <2>1, StepDescended
  <2>2. CASE v # w
    BY <1>2, <1>3, <2>2, OthersStand
  <2> QED
    BY <2>1, <2>2
<1> QED
  BY <1>2, <1>3, WalksStand DEF Next

LEMMA InitPaths == Init => PathInv
<1> SUFFICES ASSUME Init
             PROVE  PathInv
  OBVIOUS
<1>1. \A w \in Walks : Descended(w)
  BY DEF Init, Descended, AtNode, AtRouter
<1>2. ASSUME NEW c \in Conversations, NEW r \in Nodes, rotationPins[c][r] # None
      PROVE  rotationPins[c][r] \in ChildrenOf(r) \cap spread[c][r]
  <2>1. PICK restored \in SUBSET Restorable : rotationPins = RestoredPins(restored)
    BY DEF Init
  <2>2. rotationPins[c][r] = IF \E k \in Nodes : <<c, r, k>> \in restored
                             THEN CHOOSE k \in Nodes : <<c, r, k>> \in restored
                             ELSE None
    BY <2>1 DEF RestoredPins
  <2>3. <<c, r, rotationPins[c][r]>> \in Restorable
    BY <1>2, <2>1, <2>2
  <2>4. rotationPins[c][r] \in ChildrenOf(r)
    BY <2>3 DEF Restorable
  <2> QED
    BY <1>2, <2>4 DEF Init
<1> QED
  BY <1>1, <1>2 DEF PathInv, PinsInv

-----------------------------------------------------------------------------
(* Sealed turns.                                                           *)

(* What a sealed turn passes below a rotation the rotation had handed out, *)
(* wherever in its descent the turn stands.                                *)
Sealed(w) ==
    pc[w] \in AtNode /\ request[w].resumes =>
        \A r \in path[w] \cap Routers :
            Mode(r) = "round-robin" =>
                ChildrenOf(r) \cap path[w] \subseteq spread[request[w].conversation][r]

SealedInv == \A w \in Walks : Sealed(w)

(* The child a descent goes to is a child of nobody else, and a router the *)
(* descent passes has none of its own children behind it.                  *)
LEMMA GoingStaysSealed ==
    ASSUME TypeInv, NEW w \in Walks, Descended(w), Sealed(w), NEW child \in Nodes, GoesTo(w, child),
           UNCHANGED request,
           \A c \in Conversations, r \in Nodes : spread[c][r] \subseteq spread'[c][r]
    PROVE  Sealed(w)'
<1> SUFFICES ASSUME request[w].resumes, NEW r \in path'[w] \cap Routers, Mode(r) = "round-robin",
                    NEW c \in ChildrenOf(r) \cap path'[w]
             PROVE  c \in spread'[request[w].conversation][r]
  BY DEF Sealed
<1>1. /\ pc[w] \in AtNode
      /\ at[w] \in Nodes
      /\ request[w].conversation \in Conversations
      /\ at[w] \in path[w]
      /\ \A n \in path[w] : n \in Nodes /\ at[w] \in Below[n]
      /\ path'[w] = path[w] \cup {child}
      /\ child \in ChildrenOf(at[w])
  BY EntryStandsOnTop, BelowHolds
     DEF GoesTo, Descended, TypeInv, Placed, Requests, AtNode, TypeOK, DescentTypeOK
<1>2. r \in Nodes
  BY DEF Routers
<1>3. CASE c = child
  <2>1. r = at[w]
    BY <1>1, <1>2, <1>3, ParentsAreUnique
  <2>2. c \in spread[request[w].conversation][r]
    BY <1>3, <2>1 DEF GoesTo
  <2> QED
    BY <1>1, <1>2, <2>2
<1>4. CASE c # child /\ r = child
  <2>1. c \in path[w] /\ c \in Nodes
    BY <1>1, <1>4
  <2>2. child \in Below[c]
    BY <1>1, <2>1, BelowHolds
  <2> QED
    BY <1>4, <2>2, NothingHoldsItsParent
<1>5. CASE c # child /\ r # child
  <2>1. c \in spread[request[w].conversation][r]
    BY <1>1, <1>5 DEF Sealed
  <2> QED
    BY <1>1, <1>2, <2>1
<1> QED
  BY <1>3, <1>4, <1>5

LEMMA StepSealed ==
    ASSUME TypeInv, PathInv, NEW w \in Walks, Sealed(w), Arrive(w) \/ WalkSteps(w), [Next]_vars
    PROVE  Sealed(w)'
<1>1. PinsInv /\ Descended(w)
  BY DEF PathInv
<1>2. \A c \in Conversations, r \in Nodes : spread[c][r] \subseteq spread'[c][r]
  BY StepPins
<1>3. CASE EndsTheDescent(w)
  BY <1>3 DEF EndsTheDescent, Sealed, AtNode
<1>4. CASE Enters(w)
  <2>1. \A r \in path'[w] \cap Routers : ChildrenOf(r) \cap path'[w] = {}
    BY <1>4, EntryStandsOnTop DEF Enters
  <2> QED
    BY <2>1 DEF Sealed
<1>5. CASE Stays(w)
  <2>1. pc[w] # "idle" /\ request[w] \in Requests
    BY <1>5 DEF Stays, AtNode, TypeInv, Placed
  <2>2. UNCHANGED request
    BY <2>1, RequestsStand
  <2> QED
    BY <1>2, <1>5, <2>1, <2>2 DEF Stays, Sealed, Requests, Routers
<1>6. ASSUME NEW child \in Nodes, GoesTo(w, child)
      PROVE  Sealed(w)'
  <2>1. UNCHANGED request
    BY <1>6, RequestsStand DEF GoesTo, AtNode
  <2> QED
    BY <1>1, <1>2, <1>6, <2>1, GoingStaysSealed
<1> QED
  BY <1>1, <1>3, <1>4, <1>5, <1>6, WalksMove DEF Moves

LEMMA StepsSealed == TypeInv /\ PathInv /\ SealedInv /\ [Next]_vars => SealedInv'
<1> SUFFICES ASSUME TypeInv, PathInv, SealedInv, [Next]_vars, NEW v \in Walks
             PROVE  Sealed(v)'
  BY DEF SealedInv
<1>1. Sealed(v)
  BY DEF SealedInv
<1>2. ASSUME UNCHANGED Own(v)
      PROVE  Sealed(v)'
  <2>1. pc[v] \in AtNode => request[v].conversation \in Conversations
    BY DEF AtNode, TypeInv, Placed, Requests
  <2> QED
    BY <1>1, <1>2, <2>1, StepPins DEF Own, Sealed, Routers
<1>3. ASSUME NEW w \in Walks, Arrive(w) \/ WalkSteps(w)
      PROVE  Sealed(v)'
  <2>1. CASE v = w
    BY <1>1, <1>3, <2>1, StepSealed
  <2>2. CASE v # w
    BY <1>2, <1>3, <2>2, OthersStand
  <2> QED
    BY <2>1, <2>2
<1> QED
  BY <1>2, <1>3, WalksStand DEF Next

(* A turn that resumes state one account holds reaches a child of a        *)
(* rotation only where the rotation had handed it to the conversation.     *)
THEOREM SealedTurnsKeepTheirChildren == Spec => []SealedTurnsNeverSpread
<1>1. Init => SealedInv
  BY DEF Init, SealedInv, Sealed, AtNode
<1>2. SealedInv => SealedTurnsNeverSpread
  BY DEF SealedInv, Sealed, SealedTurnsNeverSpread, AtNode
<1> QED
  BY <1>1, <1>2, InitTyped, StepTyped, InitPaths, StepPaths, StepsSealed, PTL DEF Spec

-----------------------------------------------------------------------------
(* Waits.                                                                  *)

(* A walk tries only children the table holds.                             *)
TargetsTried == \A w \in Walks : \A i \in DOMAIN tries[w] : tries[w][i] \in Targets

LEMMA StepTargets == TypeInv /\ PathInv /\ TargetsTried /\ [Next]_vars => TargetsTried'
<1> SUFFICES ASSUME TypeInv, PathInv, TargetsTried, [Next]_vars
             PROVE  TargetsTried'
  OBVIOUS
<1>1. ASSUME NEW w \in Walks, StepAtTarget(w)
      PROVE  TargetsTried'
  <2>1. at[w] \in Targets
    BY <1>1 DEF StepAtTarget, PathInv, Descended, AtNode, Targets
  <2>2. /\ tries[w] \in Seq(Nodes)
        /\ tries'[w] = Append(tries[w], at[w])
        /\ \A v \in Walks : v # w => tries'[v] = tries[v]
    BY <1>1 DEF StepAtTarget, TypeInv, TypeOK, HistoryTypeOK
  <2>3. \A i \in DOMAIN tries'[w] :
            \/ tries'[w][i] = at[w]
            \/ i \in DOMAIN tries[w] /\ tries'[w][i] = tries[w][i]
    BY <2>2
  <2> QED
    BY <2>1, <2>2, <2>3 DEF TargetsTried
<1>2. CASE UNCHANGED tries
  BY <1>2 DEF TargetsTried
<1>3. ASSUME NEW w \in Walks, Arrive(w) \/ WalkSteps(w), ~StepAtTarget(w)
      PROVE  UNCHANGED tries
  BY <1>3, OtherStepsTryNobody DEF MoveOn
<1>4. CASE MemoryPasses \/ UNCHANGED vars
  BY <1>2, <1>4 DEF MemoryPasses, CoolingEnds, PinForgotten, RotationPinForgotten, vars, historyVars
<1> QED
  BY <1>1, <1>2, <1>3, <1>4 DEF Next

(* How a walk comes to its verdict.                                        *)
LEMMA WalksSettle ==
    ASSUME TypeInv, NEW w \in Walks, Arrive(w) \/ WalkSteps(w)
    PROVE  /\ pc[w] # "done"
           /\ \/ pc'[w] # "done" /\ UNCHANGED verdict
              \/ /\ ReachTheLimit(w) \/ NowhereAtTarget(w) \/ NowherePastTheRouter(w)
                 /\ UNCHANGED <<ledger, learnedVars, tries>>
              \/ /\ \E outcome \in Outcomes \ {"none", "exhausted"} :
                       Settles(w, outcome, at[w], FALSE)
                 /\ UNCHANGED <<learnedVars, tries>>
<1> USE DEF TypeInv, TypeOK, ControlTypeOK, Goto
<1>1. CASE ReachTheLimit(w) \/ NowhereAtTarget(w) \/ NowherePastTheRouter(w)
  BY <1>1 DEF ReachTheLimit, NowhereAtTarget, NowherePastTheRouter, memoryVars
<1>2. CASE RefuseChainedTurn(w) \/ RefuseUnjudged(w) \/ AttemptAnswers(w) \/ AttemptThrows(w)
  <2>1. PICK outcome \in {"chained-turn", "unjudged", "answered", "threw"} :
            Settles(w, outcome, at[w], FALSE)
    BY <1>2 DEF RefuseChainedTurn, RefuseUnjudged, AttemptAnswers, AttemptThrows
  <2>2. pc[w] # "done" /\ UNCHANGED <<learnedVars, tries>>
    BY <1>2 DEF RefuseChainedTurn, RefuseUnjudged, AttemptAnswers, AttemptThrows
  <2>3. outcome \in Outcomes \ {"none", "exhausted"}
    BY DEF Outcomes
  <2> QED
    BY <2>1, <2>2, <2>3
<1>3. CASE Arrive(w) \/ BeginDescent(w) \/ DescendAgain(w) \/ MoveOn(w)
  BY <1>3 DEF Arrive, BeginDescent, DescendAgain, MoveOn
<1>4. CASE FollowKeptChild(w) \/ DescendToOffered(w) \/ StepAtTarget(w)
  BY <1>4 DEF FollowKeptChild, DescendToOffered, StepAtTarget
<1>5. CASE AskRouter(w) \/ OfferChild(w) \/ OfferNothing(w)
  BY <1>5 DEF AskRouter, AtAskableRouter, OfferChild, OfferNothing
<1>6. CASE FollowPinnedBranch(w) \/ DeclineToAsk(w) \/ AskJudge(w) \/ CallJudge(w)
  BY <1>6 DEF FollowPinnedBranch, DeclineToAsk, AskJudge, CallJudge, MustDecide, AtAskableRouter, Decides
<1>7. CASE JudgeAnswers(w)
  <2>1. pc[w] \in {"judging", "called"} /\ UNCHANGED verdict
    BY <1>7 DEF JudgeAnswers
  <2>2. pc'[w] # "done"
    BY <1>7, JudgeAsksAgainOrDecides DEF Decides
  <2> QED
    BY <2>1, <2>2
<1> QED
  BY <1>1, <1>2, <1>3, <1>4, <1>5, <1>6, <1>7 DEF WalkSteps

(* A wait is told at the end of a walk and keeps to what the walk noted.   *)
Waits(w) ==
    verdict[w].wait =>
        /\ pc[w] = "done"
        /\ \A i \in DOMAIN tries[w] : attempted[w][tries[w][i]] = "promised"

WaitInv == \A w \in Walks : Waits(w)

LEMMA StepWaits ==
    ASSUME TypeInv, TryInv, TargetsTried, NEW w \in Walks, Waits(w), Arrive(w) \/ WalkSteps(w)
    PROVE  Waits(w)'
<1>1. pc[w] # "done"
  BY WalksSettle
<1>2. CASE UNCHANGED verdict
  BY <1>1, <1>2 DEF Waits
<1>3. CASE \E outcome \in Outcomes \ {"none", "exhausted"} : Settles(w, outcome, at[w], FALSE)
  <2>1. verdict'[w].wait = FALSE
    BY <1>3 DEF Settles, TypeInv, TypeOK, ControlTypeOK
  <2> QED
    BY <2>1 DEF Waits
<1>4. CASE /\ ReachTheLimit(w) \/ NowhereAtTarget(w) \/ NowherePastTheRouter(w)
           /\ UNCHANGED <<ledger, learnedVars, tries>>
  <2>1. SettlesWithNoChild(w) /\ pc[w] # "attempting"
    BY <1>4 DEF ReachTheLimit, NowhereAtTarget, NowherePastTheRouter
  <2>2. pc'[w] = "done"
    BY <2>1 DEF SettlesWithNoChild, Settles, Goto, TypeInv, TypeOK, ControlTypeOK
  <2>3. verdict'[w].wait => RetryTimeEveryTriedChildPromised(w)
    BY <2>1 DEF SettlesWithNoChild, Settles, TypeInv, TypeOK, ControlTypeOK
  <2>4. ASSUME RetryTimeEveryTriedChildPromised(w), NEW i \in DOMAIN tries[w]
        PROVE  attempted[w][tries[w][i]] = "promised"
    <3>1. attempted[w][tries[w][i]] # "untried"
      BY <1>1, <2>1, <2>4 DEF TryInv, TriesNoted
    <3>2. tries[w][i] \in TriedOrCooling(w)
      BY <2>4, <3>1 DEF TriedOrCooling, TargetsTried
    <3> QED
      BY <2>4, <3>1, <3>2 DEF RetryTimeEveryTriedChildPromised, PromisesRetry
  <2>5. UNCHANGED <<attempted, tries>>
    BY <1>4 DEF learnedVars
  <2> QED
    BY <2>2, <2>3, <2>4, <2>5 DEF Waits
<1> QED
  BY <1>2, <1>3, <1>4, WalksSettle

LEMMA StepsWait == TypeInv /\ TryInv /\ TargetsTried /\ WaitInv /\ [Next]_vars => WaitInv'
<1> SUFFICES ASSUME TypeInv, TryInv, TargetsTried, WaitInv, [Next]_vars, NEW v \in Walks
             PROVE  Waits(v)'
  BY DEF WaitInv
<1>1. Waits(v)
  BY DEF WaitInv
<1>2. ASSUME UNCHANGED Own(v)
      PROVE  Waits(v)'
  BY <1>1, <1>2 DEF Own, Waits
<1>3. ASSUME NEW w \in Walks, Arrive(w) \/ WalkSteps(w)
      PROVE  Waits(v)'
  <2>1. CASE v = w
    BY <1>1, <1>3, <2>1, StepWaits
  <2>2. CASE v # w
    BY <1>2, <1>3, <2>2, OthersStand
  <2> QED
    BY <2>1, <2>2
<1> QED
  BY <1>2, <1>3, WalksStand DEF Next

(* A caller is told to wait only where every child it was tried on         *)
(* promised a retry on that very try.                                      *)
THEOREM WaitsWerePromised == Spec => []AWaitIsPromisedByEveryTry
<1>1. Init => TargetsTried /\ WaitInv
  BY DEF Init, TargetsTried, WaitInv, Waits
<1>2. WaitInv => AWaitIsPromisedByEveryTry
  BY DEF WaitInv, Waits, AWaitIsPromisedByEveryTry
<1> QED
  BY <1>1, <1>2, InitTyped, StepTyped, InitPaths, StepPaths, InitTries, StepTries, StepTargets,
     StepsWait, PTL DEF Spec

-----------------------------------------------------------------------------
(* The picks offer somebody where somebody can serve.                      *)

LEMMA FirstOf ==
    ASSUME NEW I \in SUBSET Nat, I # {}
    PROVE  \E i \in I : \A j \in I : i <= j
<1>1. PICK i \in I : \A j \in I : ~(<<j, i>> \in OpToRel(<, Nat))
  BY NatLessThanWellFounded, WFMin
<1>2. ASSUME NEW j \in I
      PROVE  i <= j
  <2>1. ~(<<j, i>> \in OpToRel(<, Nat))
    BY <1>1
  <2>2. i \in Nat /\ j \in Nat
    OBVIOUS
  <2>3. ~(j < i)
    BY <2>1, <2>2 DEF OpToRel
  <2> QED
    BY <2>2, <2>3
<1> QED
  BY <1>2

LEMMA LastOf ==
    ASSUME NEW I \in SUBSET Nat, I # {}, NEW bound \in Nat, \A i \in I : i <= bound
    PROVE  \E i \in I : \A j \in I : j <= i
<1> DEFINE over == {k \in Nat : \A i \in I : i <= k}
<1>1. PICK k \in over : \A m \in over : k <= m
  <2>1. over \in SUBSET Nat /\ over # {}
    OBVIOUS
  <2> QED
    BY <2>1, FirstOf
<1>2. k \in I
  <2> SUFFICES ASSUME k \notin I
               PROVE  FALSE
    OBVIOUS
  <2>1. k \in Nat /\ \A i \in I : i \in Nat /\ i < k
    BY <1>1
  <2>2. PICK i \in I : TRUE
    OBVIOUS
  <2>3. k - 1 \in Nat
    BY <2>1, <2>2
  <2>4. \A j \in I : j <= k - 1
    BY <2>1
  <2>5. k - 1 \in over
    BY <2>3, <2>4
  <2>6. k <= k - 1
    BY <1>1, <2>5
  <2> QED
    BY <2>1, <2>6
<1> QED
  BY <1>1, <1>2

(* Counted round, every turn falls to one of the ranks.                    *)
LEMMA EveryRankIsHeld ==
    ASSUME NEW I \in SUBSET Nat, IsFiniteSet(I), NEW bound \in Nat, \A i \in I : i <= bound,
           NEW k \in Nat, k < Cardinality(I)
    PROVE  \E i \in I : Cardinality({j \in I : j < i}) = k
<1> DEFINE before(i) == {j \in I : j < i}
           late == {i \in I : Cardinality(before(i)) >= k}
<1>1. \A i \in I : IsFiniteSet(before(i)) /\ Cardinality(before(i)) \in Nat
  BY FS_Subset, FS_CardinalityType
<1>2. Cardinality(I) \in Nat /\ I # {}
  BY FS_CardinalityType, FS_EmptySet
<1>3. late # {}
  <2>1. PICK last \in I : \A j \in I : j <= last
    BY <1>2, LastOf
  <2>2. before(last) = I \ {last}
    <3>1. \A j \in I : j < last <=> j # last
      BY <2>1
    <3> QED
      BY <3>1
  <2>3. Cardinality(before(last)) = Cardinality(I) - 1
    BY <2>2, FS_RemoveElement
  <2> QED
    BY <1>2, <2>3
<1>4. PICK i \in late : \A j \in late : i <= j
  BY <1>3, FirstOf
<1>5. Cardinality(before(i)) = k
  <2> SUFFICES ASSUME Cardinality(before(i)) > k
               PROVE  FALSE
    BY <1>1, <1>4
  <2>1. before(i) # {}
    <3>1. IsFiniteSet(before(i)) /\ Cardinality(before(i)) # 0
      BY <1>1, <1>4
    <3> QED
      BY <3>1, FS_EmptySet
  <2>2. PICK j \in before(i) : \A m \in before(i) : m <= j
    <3>1. before(i) \in SUBSET Nat /\ \A m \in before(i) : m <= bound
      OBVIOUS
    <3> QED
      BY <2>1, <3>1, LastOf
  <2>3. before(j) = before(i) \ {j}
    <3>1. i \in Nat /\ j \in I /\ j < i
      BY <1>4, <2>2
    <3>2. \A m \in I : m < j <=> (m < i /\ m # j)
      <4> TAKE m \in I
      <4>1. m < i => m <= j
        BY <2>2
      <4> QED
        BY <3>1, <4>1
    <3> QED
      BY <3>2
  <2>4. Cardinality(before(j)) = Cardinality(before(i)) - 1
    BY <1>1, <2>2, <2>3, FS_RemoveElement
  <2>5. j \in late
    BY <1>1, <1>4, <2>2, <2>4
  <2> QED
    BY <1>4, <2>2, <2>5
<1> QED
  BY <1>4, <1>5

LEMMA FailoverOffers ==
    ASSUME NEW n \in Nodes, ~IsTarget(n), NEW can, can \cap ChildrenOf(n) # {}
    PROVE  \E c \in can : NextFailoverChild(Table[n].children, can, c)
<1> DEFINE children == Table[n].children
           I == {i \in DOMAIN children : children[i] \in can}
<1>1. children \in Seq(Nodes)
  BY TableFields
<1>2. I \in SUBSET Nat /\ I # {}
  BY <1>1 DEF ChildrenOf
<1>3. PICK i \in I : \A j \in I : i <= j
  BY <1>2, FirstOf
<1> QED
  BY <1>3 DEF NextFailoverChild

LEMMA RoundRobinOffers ==
    ASSUME NEW n \in Nodes, ~IsTarget(n), NEW can, can \cap ChildrenOf(n) # {}, NEW cursor \in Nat
    PROVE  \E c \in can : NextRoundRobinChild(Table[n].children, can, cursor, c)
<1> DEFINE children == Table[n].children
           I == {i \in DOMAIN children : children[i] \in can}
<1>1. children \in Seq(Nodes)
  BY TableFields
<1>2. I \in SUBSET Nat /\ I # {}
  BY <1>1 DEF ChildrenOf
<1>3. Len(children) \in Nat /\ \A i \in I : i <= Len(children)
  BY <1>1
<1>4. IsFiniteSet(I)
  BY <1>2, <1>3, FS_BoundedSetOfNaturals
<1>5. Cardinality(I) \in Nat \ {0}
  BY <1>2, <1>4, FS_CardinalityType, FS_EmptySet
<1> DEFINE k == cursor % Cardinality(I)
<1>6. k \in Nat /\ k < Cardinality(I)
  BY <1>5
<1> HIDE DEF k
<1>7. PICK i \in I : Cardinality({j \in I : j < i}) = k
  BY <1>2, <1>3, <1>4, <1>6, EveryRankIsHeld
<1>8. children[i] \in can
  OBVIOUS
<1> QED
  BY <1>7, <1>8 DEF NextRoundRobinChild, k

LEMMA PicksOffer ==
    ASSUME TypeInv, NEW w \in Walks, pc[w] = "pick", Mode(at[w]) # "conditional", Serving(w) # {}
    PROVE  \E c \in Serving(w) : Offers(w, c)
<1>1. at[w] \in Nodes /\ ~IsTarget(at[w])
  BY DEF TypeInv, Placed, AtNode, AtRouter
<1>2. Mode(at[w]) \in {"failover", "round-robin"}
  BY <1>1, TableIsServable DEF Servable, RouteNode, Modes, Mode
<1>3. Serving(w) \cap ChildrenOf(at[w]) # {}
  BY DEF Serving
<1>4. CASE Mode(at[w]) = "failover"
  BY <1>1, <1>3, <1>4, FailoverOffers DEF Offers
<1>5. CASE Mode(at[w]) = "round-robin"
  <2>1. cursors[at[w]] \in Nat
    BY <1>1 DEF TypeInv, TypeOK, MemoryTypeOK
  <2> QED
    BY <1>1, <1>3, <1>5, <2>1, RoundRobinOffers DEF Offers
<1> QED
  BY <1>2, <1>4, <1>5

-----------------------------------------------------------------------------
(* One drain at a time.                                                    *)

(* Only the walk being drained stands between two of its network waits.    *)
DrainInv == \A w \in Walks : pc[w] \in Draining <=> drain = w

LEMMA StepsGo ==
    ASSUME NEW w \in Walks, Arrive(w) \/ WalkSteps(w)
    PROVE  MayRun(w) /\ \E p \in Points : Goto(w, p)
<1> USE DEF Points
<1>1. CASE Arrive(w) \/ BeginDescent(w) \/ AskRouter(w) \/ OfferChild(w) \/ OfferNothing(w)
  BY <1>1 DEF Arrive, BeginDescent, AskRouter, AtAskableRouter, OfferChild, OfferNothing
<1>2. CASE ReachTheLimit(w) \/ NowhereAtTarget(w) \/ NowherePastTheRouter(w)
  BY <1>2 DEF ReachTheLimit, NowhereAtTarget, NowherePastTheRouter, SettlesWithNoChild, Settles
<1>3. CASE RefuseChainedTurn(w) \/ RefuseUnjudged(w) \/ AttemptAnswers(w) \/ AttemptThrows(w)
  BY <1>3 DEF RefuseChainedTurn, RefuseUnjudged, AttemptAnswers, AttemptThrows, Settles
<1>4. CASE FollowKeptChild(w) \/ DescendToOffered(w) \/ DescendAgain(w)
  BY <1>4 DEF FollowKeptChild, DescendToOffered, DescendAgain
<1>5. CASE StepAtTarget(w) \/ MoveOn(w)
  BY <1>5 DEF StepAtTarget, MoveOn
<1>6. CASE FollowPinnedBranch(w) \/ DeclineToAsk(w) \/ AskJudge(w) \/ CallJudge(w)
  BY <1>6 DEF FollowPinnedBranch, DeclineToAsk, AskJudge, CallJudge, MustDecide, AtAskableRouter, Decides
<1>7. CASE JudgeAnswers(w)
  <2>1. MayRun(w)
    BY <1>7 DEF JudgeAnswers
  <2>2. \E p \in Points : Goto(w, p)
    BY <1>7, JudgeAsksAgainOrDecides DEF Decides
  <2> QED
    BY <2>1, <2>2
<1> QED
  BY <1>1, <1>2, <1>3, <1>4, <1>5, <1>6, <1>7 DEF WalkSteps

LEMMA StepDrains == TypeInv /\ OneDrain /\ DrainInv /\ [Next]_vars => DrainInv'
<1> SUFFICES ASSUME TypeInv, OneDrain, DrainInv, [Next]_vars
             PROVE  DrainInv'
  OBVIOUS
<1>1. ASSUME NEW w \in Walks, Arrive(w) \/ WalkSteps(w)
      PROVE  DrainInv'
  <2>1. drain \in {None, w}
    BY <1>1, StepsGo DEF MayRun
  <2>2. PICK p \in Points : Goto(w, p)
    BY <1>1, StepsGo
  <2>3. /\ pc'[w] = p
        /\ \A v \in Walks : v # w => pc'[v] = pc[v]
        /\ drain' = IF p \in Draining THEN w ELSE None
    BY <2>2 DEF Goto, TypeInv, TypeOK, ControlTypeOK
  <2>4. None \notin Walks
    BY WalkAssumption
  <2>5. \A v \in Walks : v # w => pc[v] \notin Draining
    BY <2>1, <2>4 DEF DrainInv
  <2> QED
    BY <2>3, <2>4, <2>5 DEF DrainInv
<1>2. CASE MemoryPasses \/ UNCHANGED vars
  <2>1. UNCHANGED <<pc, drain>>
    BY <1>2 DEF MemoryPasses, CoolingEnds, PinForgotten, RotationPinForgotten, vars
  <2> QED
    BY <2>1 DEF DrainInv
<1> QED
  BY <1>1, <1>2 DEF Next

LEMMA InitDrains == Init => DrainInv
BY WalkAssumption DEF Init, DrainInv, Draining

(* No other walk steps while one is being drained.                         *)
LEMMA DrainedAlone ==
    ASSUME OneDrain, DrainInv, NEW v \in Walks, pc[v] \in Draining,
           NEW w \in Walks, Arrive(w) \/ WalkSteps(w)
    PROVE  w = v
BY StepsGo, WalkAssumption DEF DrainInv, MayRun

(* What stands ready stays ready while no walk steps.                      *)
LEMMA ReadyStays ==
    ASSUME TypeInv, MemoryPasses \/ UNCHANGED vars, NEW w \in Walks, NEW t, CanAttempt(w, t)
    PROVE  CanAttempt(w, t)'
<1>1. CASE UNCHANGED <<ledger, attempted>>
  BY <1>1 DEF CanAttempt, Cooling, LedgerOf
<1>2. ASSUME NEW l \in Ledgers, NEW n \in Nodes, CoolingEnds(l, n)
      PROVE  CanAttempt(w, t)'
  <2>1. /\ UNCHANGED attempted
        /\ ledger' = [ledger EXCEPT ![l][n] = "ready"]
        /\ ledger \in [Ledgers -> [Nodes -> Standings]]
    BY <1>2 DEF CoolingEnds, learnedVars, TypeInv, TypeOK, MemoryTypeOK
  <2>2. LedgerOf(w) \in Ledgers
    BY DEF LedgerOf, Ledgers
  <2>3. ledger[LedgerOf(w)][t] = "ready" => ledger'[LedgerOf(w)][t] = "ready"
    BY <2>1, <2>2
  <2> QED
    BY <2>1, <2>3 DEF CanAttempt, Cooling, LedgerOf
<1> QED
  BY <1>1, <1>2 DEF MemoryPasses, PinForgotten, RotationPinForgotten, learnedVars, vars, memoryVars

-----------------------------------------------------------------------------
(* Where a descent leads, one drain at a time.                             *)

(* Somebody below the node can be attempted, the walk's spent routers and  *)
(* the nodes it passed left aside.                                         *)
SomebodyIsLeft(w) ==
    \E t \in TargetsPast(at[w], (path[w] \ {at[w]}) \cup spent[w]) : CanAttempt(w, t)

LeadsOn(w) ==
    /\ at[w] # Entry
    /\ \/ pc[w] = "descend"
       \/ pc[w] = "pick" /\ Mode(at[w]) # "conditional"

(* A descent that left the entry leads to somebody until the walk waits on *)
(* a judge, so that only the entry and a conditional router entered for    *)
(* the first time can come to offer nobody.                                *)
Leads(w) ==
    /\ LeadsOn(w) => SomebodyIsLeft(w)
    /\ pc[w] = "offered" /\ offered[w] # None => SubtreeCanServe(w, offered[w])
    /\ pc[w] = "offered" /\ at[w] # Entry /\ Mode(at[w]) # "conditional" => offered[w] # None
    /\ pc[w] \in AtRouter /\ at[w] # Entry => at[w] \notin spent[w]

LeadInv == \A w \in Walks : Leads(w)

LEMMA PassingLess ==
    ASSUME NEW start, NEW passed, NEW more, passed \subseteq more
    PROVE  TargetsPast(start, more) \subseteq TargetsPast(start, passed)
BY DEF TargetsPast

(* The router a descent stands at stands below none of its children, so    *)
(* that whoever is left below it is left below one of them.                *)
LEMMA SomebodyServes ==
    ASSUME TypeInv, NEW w \in Walks, pc[w] \in AtRouter, SomebodyIsLeft(w)
    PROVE  Serving(w) # {}
<1>1. at[w] \in Nodes /\ ~IsTarget(at[w])
  BY DEF TypeInv, Placed, AtNode, AtRouter
<1>2. PICK t \in TargetsPast(at[w], (path[w] \ {at[w]}) \cup spent[w]) : CanAttempt(w, t)
  BY DEF SomebodyIsLeft
<1>3. /\ t \in Below[at[w]]
      /\ IsTarget(t)
      /\ \A n \in Below[at[w]] \cap ((path[w] \ {at[w]}) \cup spent[w]) : t \notin Below[n]
  BY <1>2 DEF TargetsPast
<1>4. PICK c \in ChildrenOf(at[w]) : t \in Below[c]
  BY <1>1, <1>3, BelowAChild
<1>5. at[w] \notin Below[c] /\ Below[c] \subseteq Below[at[w]]
  BY <1>1, <1>4, NothingHoldsItsParent, BelowHolds, BelowIsTransitive
<1>6. \A n \in Below[c] \cap (path[w] \cup spent[w]) : t \notin Below[n]
  BY <1>3, <1>5
<1>7. t \in TargetsPast(c, path[w] \cup spent[w])
  BY <1>3, <1>4, <1>6 DEF TargetsPast
<1> QED
  BY <1>2, <1>4, <1>7 DEF Serving, SubtreeCanServe

LEMMA SomebodyLeftIsUnspent ==
    ASSUME NEW w \in Walks, at[w] \in Nodes, SomebodyIsLeft(w)
    PROVE  at[w] \notin spent[w]
BY BelowHolds DEF SomebodyIsLeft, TargetsPast

(* A descent that goes on leads on.                                        *)
LEMMA GoingLeadsOn ==
    ASSUME NEW w \in Walks, NEW child, SubtreeCanServe(w, child), at'[w] = child,
           path'[w] \subseteq path[w] \cup {child}, UNCHANGED <<spent, attempted, ledger>>
    PROVE  SomebodyIsLeft(w)'
<1>1. PICK t \in TargetsPast(child, path[w] \cup spent[w]) : CanAttempt(w, t)
  BY DEF SubtreeCanServe
<1>2. t \in TargetsPast(child, (path'[w] \ {child}) \cup spent'[w])
  BY <1>1, PassingLess
<1>3. CanAttempt(w, t)'
  BY <1>1 DEF CanAttempt, Cooling, LedgerOf
<1>4. TargetsPast(at'[w], (path'[w] \ {at'[w]}) \cup spent'[w]) =
          TargetsPast(child, (path'[w] \ {child}) \cup spent'[w])
  OBVIOUS
<1> QED
  BY <1>2, <1>3, <1>4 DEF SomebodyIsLeft, TargetsPast, IsTarget

(* The steps a descent takes into a node, and into a pick without a        *)
(* judgment.                                                               *)
LEMMA HowDescentsGoOn ==
    ASSUME TypeInv, AskInv, NEW w \in Walks, Arrive(w) \/ WalkSteps(w),
           \/ pc'[w] = "descend"
           \/ pc'[w] = "pick" /\ Mode(at'[w]) # "conditional"
    PROVE  BeginDescent(w) \/ FollowKeptChild(w) \/ DescendToOffered(w) \/ AskRouter(w)
<1>1. CASE FollowPinnedBranch(w) \/ DeclineToAsk(w)
  <2>1. Undetermined(w, at[w]) /\ UNCHANGED at
    BY <1>1 DEF FollowPinnedBranch, DeclineToAsk, MustDecide
  <2> QED
    BY <1>1, <2>1, Landings DEF Undetermined, Mode, FollowPinnedBranch, DeclineToAsk, Decides, Goto,
       TypeInv, TypeOK, ControlTypeOK
<1>2. CASE JudgeAnswers(w)
  <2>1. Undetermined(w, at[w]) /\ UNCHANGED at
    BY <1>2 DEF JudgeAnswers, AskInv, Charged
  <2>2. pc'[w] # "descend"
    BY <1>2, JudgeAsksAgainOrDecides DEF Decides, Goto, TypeInv, TypeOK, ControlTypeOK
  <2> QED
    BY <2>1, <2>2 DEF Undetermined, Mode
<1> QED
  BY <1>1, <1>2, Landings

LEMMA StepLeadsOn ==
    ASSUME TypeInv, AskInv, NEW w \in Walks, Leads(w), Arrive(w) \/ WalkSteps(w), LeadsOn(w)'
    PROVE  SomebodyIsLeft(w)'
<1>1. CASE FollowKeptChild(w)
  <2> DEFINE child == PinnedChildAt(w, at[w])
  <2>1. SubtreeCanServe(w, child) /\ DescendsTo(w, child) /\ UNCHANGED <<spent, attempted, ledger>>
    BY <1>1 DEF FollowKeptChild, memoryVars, learnedVars
  <2>2. at'[w] = child /\ path'[w] = path[w] \cup {child}
    BY <2>1 DEF DescendsTo, TypeInv, TypeOK, DescentTypeOK
  <2> QED
    BY <2>1, <2>2, GoingLeadsOn
<1>2. CASE DescendToOffered(w)
  <2>1. /\ pc[w] = "offered"
        /\ offered[w] # None
        /\ DescendsTo(w, offered[w])
        /\ UNCHANGED <<spent, attempted, ledger>>
    BY <1>2 DEF DescendToOffered, learnedVars
  <2>2. SubtreeCanServe(w, offered[w])
    BY <2>1 DEF Leads
  <2>3. at'[w] = offered[w] /\ path'[w] = path[w] \cup {offered[w]}
    BY <2>1 DEF DescendsTo, TypeInv, TypeOK, DescentTypeOK
  <2> QED
    BY <2>1, <2>2, <2>3, GoingLeadsOn
<1>3. CASE AskRouter(w)
  <2>1. pc[w] = "descend" /\ UNCHANGED <<at, path, spent, attempted, ledger>>
    BY <1>3 DEF AskRouter, AtAskableRouter, memoryVars, learnedVars
  <2>2. SomebodyIsLeft(w)
    BY <2>1 DEF Leads, LeadsOn
  <2> QED
    BY <2>1, <2>2 DEF SomebodyIsLeft, CanAttempt, Cooling, LedgerOf
<1> QED
  BY <1>1, <1>2, <1>3, HowDescentsGoOn DEF LeadsOn, BeginDescent, TypeInv, TypeOK, DescentTypeOK

LEMMA StepLeads ==
    ASSUME TypeInv, AskInv, NEW w \in Walks, Leads(w), Arrive(w) \/ WalkSteps(w)
    PROVE  Leads(w)'
<1>1. LeadsOn(w)' => SomebodyIsLeft(w)'
  BY StepLeadsOn
<1>2. ASSUME pc'[w] = "offered", offered'[w] # None
      PROVE  SubtreeCanServe(w, offered[w])'
  <2>1. OfferChild(w)
    BY <1>2, Landings DEF OfferNothing, TypeInv, TypeOK, DescentTypeOK
  <2>2. SubtreeCanServe(w, offered'[w]) /\ UNCHANGED <<path, spent, attempted, ledger>>
    BY <2>1 DEF OfferChild, Serving, TypeInv, TypeOK, DescentTypeOK, learnedVars
  <2> QED
    BY <2>2 DEF SubtreeCanServe, CanAttempt, Cooling, LedgerOf
<1>3. ASSUME pc'[w] = "offered", at'[w] # Entry, Mode(at'[w]) # "conditional"
      PROVE  offered'[w] # None
  <2>1. /\ pc[w] = "pick"
        /\ UNCHANGED at
        /\ OfferChild(w) \/ OfferNothing(w)
    BY <1>3, Landings DEF OfferChild, OfferNothing
  <2>2. SomebodyIsLeft(w)
    BY <1>3, <2>1 DEF Leads, LeadsOn
  <2>3. \E c \in Serving(w) : Offers(w, c)
    BY <1>3, <2>1, <2>2, SomebodyServes, PicksOffer DEF AtRouter
  <2>4. OfferChild(w)
    BY <2>1, <2>3 DEF OfferNothing
  <2>5. offered'[w] \in Nodes
    BY <2>1, <2>4, ServingAreNodes DEF OfferChild, TypeInv, TypeOK, DescentTypeOK, Placed, AtNode
  <2> QED
    BY <2>5, TableIsServable DEF Servable
<1>4. ASSUME pc'[w] \in AtRouter, at'[w] # Entry
      PROVE  at'[w] \notin spent'[w]
  <2>1. /\ pc[w] \in AtRouter \/ pc[w] = "descend"
        /\ UNCHANGED <<at, spent>>
    BY <1>4, RoutersAreAskable
  <2>2. CASE pc[w] \in AtRouter
    BY <1>4, <2>1, <2>2 DEF Leads
  <2>3. CASE pc[w] = "descend"
    <3>1. at[w] \in Nodes /\ SomebodyIsLeft(w)
      BY <1>4, <2>1, <2>3 DEF Leads, LeadsOn, TypeInv, Placed, AtNode
    <3> QED
      BY <2>1, <3>1, SomebodyLeftIsUnspent
  <2> QED
    BY <2>1, <2>2, <2>3
<1> QED
  BY <1>1, <1>2, <1>3, <1>4 DEF Leads, Mode

LEMMA StepsLead ==
    ASSUME OneDrain, TypeInv, AskInv, DrainInv, LeadInv, [Next]_vars
    PROVE  LeadInv'
<1> SUFFICES ASSUME NEW v \in Walks
             PROVE  Leads(v)'
  BY DEF LeadInv
<1>1. Leads(v)
  BY DEF LeadInv
<1>2. CASE MemoryPasses \/ UNCHANGED vars
  <2>1. UNCHANGED Own(v)
    BY <1>2, WalksStand
  <2>2. \A t : CanAttempt(v, t) => CanAttempt(v, t)'
    BY <1>2, ReadyStays
  <2>3. SomebodyIsLeft(v) => SomebodyIsLeft(v)'
    BY <2>1, <2>2 DEF Own, SomebodyIsLeft
  <2>4. SubtreeCanServe(v, offered[v]) => SubtreeCanServe(v, offered[v])'
    BY <2>1, <2>2 DEF Own, SubtreeCanServe
  <2> QED
    BY <1>1, <2>1, <2>3, <2>4 DEF Own, Leads, LeadsOn
<1>3. ASSUME NEW w \in Walks, Arrive(w) \/ WalkSteps(w)
      PROVE  Leads(v)'
  <2>1. CASE v = w
    BY <1>1, <1>3, <2>1, StepLeads
  <2>2. CASE v # w
    <3>1. UNCHANGED Own(v)
      BY <1>3, <2>2, OthersStand
    <3>2. pc[v] \notin Draining
      BY <1>3, <2>2, DrainedAlone
    <3> QED
      BY <1>1, <3>1, <3>2 DEF Own, Leads, LeadsOn, Draining
  <2> QED
    BY <2>1, <2>2
<1> QED
  BY <1>2, <1>3 DEF Next

-----------------------------------------------------------------------------
(* Turns of a descent that leads nowhere, one drain at a time.             *)

(* Turns are held inside a descent only, past its entry, and never by a    *)
(* sealed turn.                                                            *)
HoldsTurns(w) ==
    /\ pc[w] \in AtNode \ {"attempting"}
    /\ ~(pc[w] = "descend" /\ at[w] = Entry)
    /\ ~request[w].resumes

TurnsHeld(w) == turns[w] # {} => HoldsTurns(w)

HeldInv == \A w \in Walks : TurnsHeld(w)

(* A descent that left the entry stands at a target only while the target  *)
(* can be attempted.                                                       *)
LEMMA OnlyTheEntryIsNowhere ==
    ASSUME TypeInv, NEW w \in Walks, Leads(w), NowhereAtTarget(w)
    PROVE  at[w] = Entry
<1> SUFFICES ASSUME at[w] # Entry
             PROVE  FALSE
  OBVIOUS
<1>1. /\ at[w] \in Nodes
      /\ IsTarget(at[w])
      /\ ~CanAttempt(w, at[w])
      /\ SomebodyIsLeft(w)
  BY DEF NowhereAtTarget, TypeInv, Placed, AtNode, Leads, LeadsOn
<1>2. Below[at[w]] = {at[w]}
  BY <1>1, BelowATarget
<1> QED
  BY <1>1, <1>2 DEF SomebodyIsLeft, TargetsPast

(* Only the pick of a rotation takes a turn.                               *)
LEMMA OnlyRotationsGiveTurns ==
    ASSUME TypeInv, NEW w \in Walks, Arrive(w) \/ WalkSteps(w)
    PROVE  \/ turns'[w] = turns[w]
           \/ turns'[w] = {}
           \/ OfferChild(w) /\ Mode(at[w]) = "round-robin"
<1> USE DEF TypeInv, TypeOK, DescentTypeOK
<1>1. CASE Arrive(w) \/ BeginDescent(w) \/ AskRouter(w) \/ OfferChild(w) \/ OfferNothing(w)
  BY <1>1 DEF Arrive, BeginDescent, AskRouter, OfferChild, OfferNothing, descentVars
<1>2. CASE ReachTheLimit(w) \/ NowhereAtTarget(w) \/ NowherePastTheRouter(w)
  BY <1>2 DEF ReachTheLimit, NowhereAtTarget, NowherePastTheRouter, TurnsHandedBack, descentVars
<1>3. CASE RefuseChainedTurn(w) \/ RefuseUnjudged(w) \/ AttemptAnswers(w) \/ AttemptThrows(w)
  BY <1>3 DEF RefuseChainedTurn, RefuseUnjudged, AttemptAnswers, AttemptThrows, TurnsHandedBack,
              descentVars
<1>4. CASE FollowKeptChild(w) \/ DescendToOffered(w) \/ DescendAgain(w)
  BY <1>4 DEF FollowKeptChild, DescendToOffered, DescendAgain, FreshDescent
<1>5. CASE StepAtTarget(w) \/ MoveOn(w) \/ AskJudge(w) \/ CallJudge(w)
  BY <1>5 DEF StepAtTarget, MoveOn, AskJudge, CallJudge, FreshDescent, descentVars
<1>6. CASE FollowPinnedBranch(w) \/ DeclineToAsk(w) \/ JudgeAnswers(w)
  BY <1>6 DEF FollowPinnedBranch, DeclineToAsk, JudgeAnswers
<1> QED
  BY <1>1, <1>2, <1>3, <1>4, <1>5, <1>6 DEF WalkSteps

(* The steps that leave a descent, and what they leave it with.            *)
LEMMA EndingHoldsNone ==
    ASSUME TypeInv, NEW w \in Walks, Leads(w), TurnsHeld(w), Arrive(w) \/ WalkSteps(w),
           pc'[w] \in {"loop", "attempting", "done"}
    PROVE  turns'[w] = {}
<1> USE DEF TypeInv, TypeOK, ControlTypeOK, DescentTypeOK
<1>1. CASE Arrive(w) \/ ReachTheLimit(w) \/ AttemptAnswers(w) \/ AttemptThrows(w)
  BY <1>1 DEF Arrive, ReachTheLimit, AttemptAnswers, AttemptThrows, TurnsHeld, HoldsTurns, AtNode,
              descentVars
<1>2. CASE NowhereAtTarget(w)
  BY <1>2, OnlyTheEntryIsNowhere DEF NowhereAtTarget, TurnsHeld, HoldsTurns, descentVars
<1>3. CASE RefuseChainedTurn(w)
  BY <1>3 DEF RefuseChainedTurn, WouldRotate, TurnsHeld, HoldsTurns, descentVars
<1>4. CASE NowherePastTheRouter(w) \/ RefuseUnjudged(w)
  BY <1>4 DEF NowherePastTheRouter, RefuseUnjudged, TurnsHandedBack
<1>5. CASE DescendAgain(w) \/ MoveOn(w) \/ StepAtTarget(w)
  BY <1>5 DEF DescendAgain, MoveOn, StepAtTarget, FreshDescent
<1> QED
  BY <1>1, <1>2, <1>3, <1>4, <1>5, Landings

LEMMA EnteringHoldsNone ==
    ASSUME TypeInv, PinsInv, NEW w \in Walks, Descended(w), TurnsHeld(w),
           Arrive(w) \/ WalkSteps(w), pc'[w] = "descend", at'[w] = Entry
    PROVE  turns'[w] = {}
<1>1. CASE FollowKeptChild(w) \/ DescendToOffered(w)
  <2>1. \E child \in Nodes : GoesTo(w, child)
    BY <1>1, FollowKeptChildGoes, DescendToOfferedGoes
  <2>2. at[w] \in Nodes /\ Entry \in ChildrenOf(at[w])
    BY <2>1 DEF GoesTo, TypeInv, Placed
  <2> QED
    BY <2>2, EntryStandsOnTop
<1>2. CASE BeginDescent(w)
  BY <1>2 DEF BeginDescent, TurnsHeld, HoldsTurns, AtNode
<1> QED
  BY <1>1, <1>2, Landings

LEMMA StepHoldsTurns ==
    ASSUME TypeInv, PathInv, NEW w \in Walks, Leads(w), TurnsHeld(w),
           Arrive(w) \/ WalkSteps(w)
    PROVE  TurnsHeld(w)'
<1> SUFFICES ASSUME turns'[w] # {}
             PROVE  HoldsTurns(w)'
  BY DEF TurnsHeld
<1>1. PinsInv /\ Descended(w)
  BY DEF PathInv
<1>2. pc'[w] \in AtNode \ {"attempting"}
  <2>1. pc'[w] \in Points
    BY StepsGo DEF Goto, TypeInv, TypeOK, ControlTypeOK
  <2>2. pc'[w] # "idle"
    BY Landings
  <2>3. pc'[w] \notin {"loop", "attempting", "done"}
    BY EndingHoldsNone
  <2> QED
    BY <2>1, <2>2, <2>3 DEF Points, AtNode
<1>3. ~(pc'[w] = "descend" /\ at'[w] = Entry)
  BY <1>1, EnteringHoldsNone
<1>4. ~request'[w].resumes
  <2>1. CASE turns'[w] = turns[w]
    <3>1. pc[w] # "idle" /\ ~request[w].resumes
      BY <2>1 DEF TurnsHeld, HoldsTurns, AtNode
    <3> QED
      BY <3>1, RequestsStand
  <2>2. CASE OfferChild(w) /\ Mode(at[w]) = "round-robin"
    <3>1. ~WouldRotate(w) /\ UNCHANGED request
      BY <1>1, <2>2 DEF OfferChild, Descended, AtRouter
    <3> QED
      BY <2>2, <3>1 DEF WouldRotate
  <2> QED
    BY <2>1, <2>2, OnlyRotationsGiveTurns
<1> QED
  BY <1>2, <1>3, <1>4 DEF HoldsTurns

LEMMA StepsHoldTurns ==
    ASSUME TypeInv, PathInv, LeadInv, HeldInv, [Next]_vars
    PROVE  HeldInv'
<1> SUFFICES ASSUME NEW v \in Walks
             PROVE  TurnsHeld(v)'
  BY DEF HeldInv
<1>1. TurnsHeld(v) /\ Leads(v)
  BY DEF HeldInv, LeadInv
<1>2. ASSUME UNCHANGED Own(v)
      PROVE  TurnsHeld(v)'
  BY <1>1, <1>2 DEF Own, TurnsHeld, HoldsTurns
<1>3. ASSUME NEW w \in Walks, Arrive(w) \/ WalkSteps(w)
      PROVE  TurnsHeld(v)'
  <2>1. CASE v = w
    BY <1>1, <1>3, <2>1, StepHoldsTurns
  <2>2. CASE v # w
    BY <1>2, <1>3, <2>2, OthersStand
  <2> QED
    BY <2>1, <2>2
<1> QED
  BY <1>2, <1>3, WalksStand DEF Next

LEMMA InitLeads == Init => LeadInv /\ HeldInv
BY DEF Init, LeadInv, Leads, LeadsOn, HeldInv, TurnsHeld, AtRouter

(* Where a drain carries one walk at a time, no walk that is over or       *)
(* starting over holds a turn of a rotation.                               *)
THEOREM TurnsAreHandedBack ==
    ASSUME OneDrain
    PROVE  Spec => []DeadDescentsHoldNoTurn
<1>1. HeldInv => DeadDescentsHoldNoTurn
  BY DEF HeldInv, TurnsHeld, HoldsTurns, AtNode, DeadDescentsHoldNoTurn
<1>2. /\ TypeInv /\ DrainInv /\ [Next]_vars => DrainInv'
      /\ TypeInv /\ AskInv /\ DrainInv /\ LeadInv /\ [Next]_vars => LeadInv'
      /\ TypeInv /\ PathInv /\ LeadInv /\ HeldInv /\ [Next]_vars => HeldInv'
  BY StepDrains, StepsLead, StepsHoldTurns
<1> QED
  BY <1>1, <1>2, InitTyped, StepTyped, InitAsks, StepAsks, InitPaths, StepPaths, InitDrains,
     InitLeads, PTL DEF Spec

-----------------------------------------------------------------------------
(* Who is left where a table is reported exhausted.                        *)

(* Nobody in reach below the node is left that the walk neither tried nor  *)
(* saw standing down.                                                      *)
NobodyLeftBelow(w, n) ==
    \A t \in InReach(w) \cap Below[n] : attempted[w][t] # "untried" \/ t \in sawCooling[w]

(* A walk under way saw whatever stands down now.                          *)
SawInv ==
    \A w \in Walks : pc[w] \notin {"idle", "done"} =>
        \A n \in Nodes : Cooling(LedgerOf(w), n) => n \in sawCooling[w]

(* The pick follows what was decided at the router, and where a router     *)
(* offered nothing nobody was left, then and ever after.                   *)
Leaves(w) ==
    /\ pc[w] \in {"pick", "offered"} =>
          /\ ~Undetermined(w, at[w])
          /\ branch[w] = SettledBranch(w, at[w])
    /\ \A n \in spent[w] : NobodyLeftBelow(w, n)
    /\ pc[w] = "offered" /\ offered[w] = None => NobodyLeftBelow(w, at[w])
    /\ verdict[w].outcome # "none" => pc[w] = "done"
    /\ verdict[w].outcome = "exhausted" /\ AttemptedSize(w) < AttemptLimit =>
          NobodyLeftBelow(w, Entry)

LeftInv == \A w \in Walks : Leaves(w)

LEMMA StepSaw == SawInv /\ [Next]_vars => SawInv'
BY DEF SawInv, Next, Observe, Cooling, LedgerOf, vars, memoryVars, historyVars

LEMMA SawMore ==
    ASSUME TypeInv, [Next]_vars, NEW w \in Walks
    PROVE  sawCooling[w] \subseteq sawCooling'[w]
BY DEF Next, Observe, vars, historyVars

(* What a walk learned it goes on knowing.                                 *)
LEMMA LearningStands ==
    ASSUME TypeInv, AskInv, NEW w \in Walks, Arrive(w) \/ WalkSteps(w)
    PROVE  /\ \A r \in Nodes : decided[w][r] # Undecided => decided'[w][r] = decided[w][r]
           /\ \A n \in Nodes : attempted[w][n] # "untried" => attempted'[w][n] # "untried"
<1>1. \A r \in Nodes : decided[w][r] # Undecided => decided'[w][r] = decided[w][r]
  <2>1. CASE FollowPinnedBranch(w) \/ DeclineToAsk(w)
    <3>1. /\ at[w] \in Nodes
          /\ decided[w][at[w]] = Undecided
          /\ Decides(w, PinnedBranch(w), TRUE) \/ Decides(w, Table[at[w]].elseChild, FALSE)
      BY <2>1, AskableRouterPlaced DEF FollowPinnedBranch, DeclineToAsk, MustDecide, Undetermined
    <3> QED
      BY <3>1, DecidesWhat
  <2>2. CASE JudgeAnswers(w)
    <3>1. at[w] \in Nodes /\ decided[w][at[w]] = Undecided
      BY <2>2 DEF JudgeAnswers, TypeInv, Placed, AtNode, AskInv, Charged, Undetermined
    <3> QED
      <4>1. CASE \E child : \E judged \in BOOLEAN : Decides(w, child, judged)
        BY <3>1, <4>1, DecidesWhat
      <4>2. CASE UNCHANGED decided
        BY <4>2
      <4> QED
        BY <2>2, <4>1, <4>2, JudgeAsksAgainOrDecides
  <2>3. CASE UNCHANGED decided
    BY <2>3
  <2> QED
    BY <2>1, <2>2, <2>3, OtherStepsAskNobody DEF AskJudge, CallJudge, learnedVars
<1>2. \A n \in Nodes : attempted[w][n] # "untried" => attempted'[w][n] # "untried"
  <2>1. CASE MoveOn(w)
    <3>1. PICK note \in {"promised", "unpromised"} : attempted' = [attempted EXCEPT ![w][at[w]] = note]
      BY <2>1 DEF MoveOn, NoteOf
    <3> QED
      BY <3>1 DEF TypeInv, TypeOK, LearnedTypeOK
  <2>2. CASE UNCHANGED attempted
    BY <2>2
  <2> QED
    BY <2>1, <2>2, OtherStepsTryNobody DEF StepAtTarget, learnedVars
<1> QED
  BY <1>1, <1>2

(* Whoever was not left is not left later.                                 *)
LEMMA NobodyComesBack ==
    ASSUME TypeInv, NEW w \in Walks, NEW n \in Nodes, NobodyLeftBelow(w, n),
           \A r \in Nodes : decided[w][r] # Undecided => decided'[w][r] = decided[w][r],
           \A t \in Nodes : attempted[w][t] # "untried" => attempted'[w][t] # "untried",
           sawCooling[w] \subseteq sawCooling'[w]
    PROVE  NobodyLeftBelow(w, n)'
<1> DEFINE off(r) == ChildrenOf(r) \ IF Table[r].branches = {} THEN {Table[r].elseChild}
                                     ELSE {decided[w][r].decided, decided[w][r].elseChild}
           offNext(r) == ChildrenOf(r) \ IF Table[r].branches = {} THEN {Table[r].elseChild}
                                         ELSE {decided'[w][r].decided, decided'[w][r].elseChild}
           settled == {r \in Routers : Mode(r) = "conditional" /\ ~Undetermined(w, r)}
           settledNext == {r \in Routers : Mode(r) = "conditional" /\ ~Undetermined(w, r)'}
<1>1. OffBranch(w) = UNION {off(r) : r \in settled}
  BY DEF OffBranch
<1>2. OffBranch(w)' = UNION {offNext(r) : r \in settledNext}
  BY DEF OffBranch, Mode, Routers, IsTarget, ChildrenOf
<1>3. \A r \in settled : r \in settledNext /\ offNext(r) = off(r)
  BY DEF Routers, Undetermined
<1>4. OffBranch(w) \subseteq OffBranch(w)'
  BY <1>1, <1>2, <1>3
<1>5. InReach(w)' \subseteq InReach(w)
  <2>1. InReach(w)' = TargetsPast(Entry, OffBranch(w)')
    BY DEF InReach, TargetsPast, IsTarget
  <2> QED
    BY <1>4, <2>1, PassingLess DEF InReach
<1>6. InReach(w) \subseteq Nodes
  BY EntryStandsOnTop, BelowHolds DEF InReach, TargetsPast
<1> QED
  BY <1>5, <1>6 DEF NobodyLeftBelow

(* A decided conditional router offers a child it was decided for, as long *)
(* as one of them can serve.                                               *)
LEMMA DecidedOffers ==
    ASSUME TypeInv, NEW w \in Walks, pc[w] = "pick", Leaves(w), Mode(at[w]) = "conditional",
           NEW c \in Serving(w), c \notin OffBranch(w)
    PROVE  \E offer \in Serving(w) : Offers(w, offer)
<1> DEFINE r == at[w]
<1>1. r \in Nodes /\ ~IsTarget(r)
  BY DEF TypeInv, Placed, AtNode, AtRouter
<1>2. ~Undetermined(w, r) /\ branch[w] = SettledBranch(w, r)
  BY DEF Leaves
<1>3. c \in ChildrenOf(r)
  BY DEF Serving
<1>4. c \in IF Table[r].branches = {} THEN {Table[r].elseChild}
            ELSE {decided[w][r].decided, decided[w][r].elseChild}
  BY <1>1, <1>2, <1>3 DEF OffBranch, Routers
<1>5. c = branch[w].decided \/ c = branch[w].elseChild
  BY <1>2, <1>4 DEF SettledBranch
<1>6. CASE c = branch[w].decided \/ branch[w].decided \notin Serving(w)
  <2>1. NextConditionalChild(branch[w], Serving(w), c)
    BY <1>5, <1>6 DEF NextConditionalChild
  <2> QED
    BY <2>1 DEF Offers
<1>7. CASE branch[w].decided \in Serving(w)
  <2>1. NextConditionalChild(branch[w], Serving(w), branch[w].decided)
    BY <1>7 DEF NextConditionalChild
  <2> QED
    BY <1>7, <2>1 DEF Offers
<1> QED
  BY <1>6, <1>7

(* Where a router offers nothing nobody in reach is left below it: whoever *)
(* was left would be left below one of its children, and that child could  *)
(* serve.                                                                  *)
LEMMA NothingOffered ==
    ASSUME TypeInv, SawInv, NEW w \in Walks, Descended(w), Leaves(w), OfferNothing(w)
    PROVE  NobodyLeftBelow(w, at[w])
<1> SUFFICES ASSUME NEW t \in InReach(w) \cap Below[at[w]],
                    attempted[w][t] = "untried", t \notin sawCooling[w]
             PROVE  FALSE
  BY DEF NobodyLeftBelow
<1>1. pc[w] = "pick" /\ \A c \in Serving(w) : ~Offers(w, c)
  BY DEF OfferNothing
<1>2. at[w] \in Nodes /\ ~IsTarget(at[w]) /\ at[w] \in Below[Entry]
  BY <1>1 DEF TypeInv, Placed, AtNode, AtRouter, Descended
<1>3. /\ IsTarget(t)
      /\ t \in Below[Entry]
      /\ \A n \in Below[Entry] \cap OffBranch(w) : t \notin Below[n]
  BY DEF InReach, TargetsPast
<1>4. t \in Nodes
  BY <1>3, EntryStandsOnTop, BelowHolds
<1>5. CanAttempt(w, t)
  BY <1>1, <1>4 DEF CanAttempt, SawInv
<1>6. PICK c \in ChildrenOf(at[w]) : t \in Below[c]
  BY <1>2, <1>3, BelowAChild
<1>7. /\ c \in Nodes
      /\ at[w] \notin Below[c]
      /\ c \in Below[Entry]
  BY <1>2, <1>6, ChildrenAreNodes, NothingHoldsItsParent, EntryStandsOnTop, BelowHolds
<1>8. ASSUME NEW n \in Below[c] \cap (path[w] \cup spent[w])
      PROVE  t \notin Below[n]
  <2>1. CASE n \in spent[w]
    BY <2>1 DEF Leaves, NobodyLeftBelow
  <2>2. CASE n \in path[w]
    <3>1. at[w] \in Below[n]
      BY <1>1, <2>2 DEF Descended, AtNode
    <3> QED
      BY <1>7, <3>1, BelowIsTransitive
  <2> QED
    BY <2>1, <2>2
<1>9. t \in TargetsPast(c, path[w] \cup spent[w])
  BY <1>3, <1>6, <1>8 DEF TargetsPast
<1>10. c \in Serving(w)
  BY <1>5, <1>6, <1>9 DEF Serving, SubtreeCanServe
<1>11. c \notin OffBranch(w)
  BY <1>3, <1>6, <1>7
<1>12. CASE Mode(at[w]) = "conditional"
  BY <1>1, <1>10, <1>11, <1>12, DecidedOffers
<1>13. CASE Mode(at[w]) # "conditional"
  BY <1>1, <1>10, <1>13, PicksOffer
<1> QED
  BY <1>12, <1>13

LEMMA BranchesAreSettled ==
    ASSUME TypeInv, AskInv, NEW w \in Walks, Leaves(w), Arrive(w) \/ WalkSteps(w),
           pc'[w] \in {"pick", "offered"}
    PROVE  /\ ~Undetermined(w, at[w])'
           /\ branch'[w] = SettledBranch(w, at[w])'
<1> USE DEF TypeInv, TypeOK, DescentTypeOK
<1>1. CASE AskRouter(w)
  <2>1. /\ ~Undetermined(w, at[w])
        /\ UNCHANGED <<at, decided>>
        /\ branch'[w] = SettledBranch(w, at[w])
    BY <1>1 DEF AskRouter, learnedVars
  <2> QED
    BY <2>1 DEF Undetermined, SettledBranch, Mode
<1>2. ASSUME NEW child, NEW judged \in BOOLEAN, Decides(w, child, judged),
             at[w] \in Nodes, ~IsTarget(at[w]), Undetermined(w, at[w]), UNCHANGED at
      PROVE  /\ ~Undetermined(w, at[w])'
             /\ branch'[w] = SettledBranch(w, at[w])'
  <2>1. decided'[w][at[w]] # Undecided
    BY <1>2, DecidedIsNotUndecided
  <2>2. branch'[w] = decided'[w][at[w]]
    <3> DEFINE choice == [decided |-> child, elseChild |-> Table[at[w]].elseChild,
                          judged |-> judged]
    <3>1. decided' = [decided EXCEPT ![w][at[w]] = choice] /\ branch' = [branch EXCEPT ![w] = choice]
      BY <1>2 DEF Decides
    <3>2. branch \in [Walks -> Choices] /\ decided \in [Walks -> [Nodes -> Choices]]
      BY DEF LearnedTypeOK
    <3> HIDE DEF choice
    <3> QED
      BY <1>2, <3>1, <3>2
  <2>3. Table[at[w]].branches # {}
    BY <1>2 DEF Undetermined
  <2> QED
    BY <1>2, <2>1, <2>2, <2>3 DEF Undetermined, SettledBranch
<1>3. CASE FollowPinnedBranch(w) \/ DeclineToAsk(w)
  <2>1. /\ Decides(w, PinnedBranch(w), TRUE) \/ Decides(w, Table[at[w]].elseChild, FALSE)
        /\ at[w] \in Nodes
        /\ ~IsTarget(at[w])
        /\ Undetermined(w, at[w])
        /\ UNCHANGED at
    BY <1>3, AskableRouterPlaced DEF FollowPinnedBranch, DeclineToAsk, MustDecide
  <2> QED
    BY <1>2, <2>1
<1>4. CASE JudgeAnswers(w)
  <2>1. /\ at[w] \in Nodes
        /\ ~IsTarget(at[w])
        /\ Undetermined(w, at[w])
        /\ UNCHANGED at
    BY <1>4 DEF JudgeAnswers, Placed, AtNode, AtRouter, AskInv, Charged
  <2>2. \E child : \E judged \in BOOLEAN : Decides(w, child, judged)
    BY <1>4, JudgeAsksAgainOrDecides DEF Goto, ControlTypeOK
  <2> QED
    BY <1>2, <2>1, <2>2
<1>5. CASE OfferChild(w) \/ OfferNothing(w)
  <2>1. pc[w] = "pick" /\ UNCHANGED <<at, decided, branch>>
    BY <1>5 DEF OfferChild, OfferNothing, learnedVars
  <2> QED
    BY <2>1 DEF Leaves, Undetermined, SettledBranch, Mode
<1> QED
  BY <1>1, <1>3, <1>4, <1>5, Landings

LEMMA OnlyDescendAgainSpends ==
    ASSUME TypeInv, NEW w \in Walks, Arrive(w) \/ WalkSteps(w), ~DescendAgain(w)
    PROVE  UNCHANGED spent
<1>1. CASE Arrive(w) \/ BeginDescent(w) \/ AskRouter(w) \/ OfferChild(w) \/ OfferNothing(w)
  BY <1>1 DEF Arrive, BeginDescent, AskRouter, OfferChild, OfferNothing, learnedVars
<1>2. CASE ReachTheLimit(w) \/ NowhereAtTarget(w) \/ NowherePastTheRouter(w)
  BY <1>2 DEF ReachTheLimit, NowhereAtTarget, NowherePastTheRouter, learnedVars
<1>3. CASE RefuseChainedTurn(w) \/ RefuseUnjudged(w) \/ AttemptAnswers(w) \/ AttemptThrows(w)
  BY <1>3 DEF RefuseChainedTurn, RefuseUnjudged, AttemptAnswers, AttemptThrows, learnedVars
<1>4. CASE FollowKeptChild(w) \/ DescendToOffered(w)
  BY <1>4 DEF FollowKeptChild, DescendToOffered, learnedVars
<1>5. CASE StepAtTarget(w) \/ MoveOn(w) \/ AskJudge(w) \/ CallJudge(w)
  BY <1>5 DEF StepAtTarget, MoveOn, AskJudge, CallJudge, learnedVars
<1>6. CASE FollowPinnedBranch(w) \/ DeclineToAsk(w) \/ JudgeAnswers(w)
  BY <1>6 DEF FollowPinnedBranch, DeclineToAsk, JudgeAnswers
<1> QED
  BY <1>1, <1>2, <1>3, <1>4, <1>5, <1>6 DEF WalkSteps

LEMMA AttemptsAreCounted ==
    ASSUME NEW w \in Walks
    PROVE  AttemptedSize(w) \in Nat
<1>1. IsFiniteSet(Nodes)
  BY TableIsServable DEF Servable
<1>2. IsFiniteSet({n \in Nodes : attempted[w][n] # "untried"})
  BY <1>1, FS_Subset
<1> QED
  BY <1>2, FS_CardinalityType DEF AttemptedSize

(* Where a walk settles with no child.                                     *)
LEMMA NobodyIsLeftWhereAWalkGivesUp ==
    ASSUME TypeInv, SawInv, NEW w \in Walks, Leads(w), Leaves(w), AttemptedSize(w) < AttemptLimit,
           ReachTheLimit(w) \/ NowhereAtTarget(w) \/ NowherePastTheRouter(w)
    PROVE  NobodyLeftBelow(w, Entry)
<1>1. CASE ReachTheLimit(w)
  <2>1. AttemptedSize(w) >= AttemptLimit
    BY <1>1 DEF ReachTheLimit
  <2> QED
    BY <2>1, AttemptsAreCounted, WalkAssumption
<1>2. CASE NowhereAtTarget(w)
  <2>1. at[w] = Entry
    BY <1>2, OnlyTheEntryIsNowhere
  <2>2. pc[w] = "descend" /\ IsTarget(Entry) /\ ~CanAttempt(w, Entry)
    BY <1>2, <2>1 DEF NowhereAtTarget
  <2>3. Below[Entry] = {Entry}
    BY <2>2, EntryStandsOnTop, BelowATarget
  <2>4. attempted[w][Entry] # "untried" \/ Entry \in sawCooling[w]
    BY <2>2, EntryStandsOnTop DEF CanAttempt, SawInv
  <2> QED
    BY <2>3, <2>4 DEF NobodyLeftBelow
<1>3. CASE NowherePastTheRouter(w)
  <2>1. pc[w] = "offered" /\ offered[w] = None /\ ~EarnsAnotherDescent(w)
    BY <1>3 DEF NowherePastTheRouter
  <2>2. at[w] = Entry
    BY <2>1 DEF Leads, AtRouter, EarnsAnotherDescent
  <2> QED
    BY <2>1, <2>2 DEF Leaves
<1> QED
  BY <1>1, <1>2, <1>3

LEMMA StepLeaves ==
    ASSUME TypeInv, AskInv, SawInv, [Next]_vars, NEW w \in Walks, Descended(w), Leads(w), Leaves(w),
           Arrive(w) \/ WalkSteps(w)
    PROVE  Leaves(w)'
<1>1. ASSUME NEW n \in Nodes, NobodyLeftBelow(w, n)
      PROVE  NobodyLeftBelow(w, n)'
  BY <1>1, LearningStands, SawMore, NobodyComesBack
<1>2. /\ pc'[w] \in {"pick", "offered"} =>
             /\ ~Undetermined(w, at[w])'
             /\ branch'[w] = SettledBranch(w, at[w])'
  BY BranchesAreSettled
<1>3. ASSUME NEW n \in spent'[w]
      PROVE  NobodyLeftBelow(w, n)'
  <2>1. CASE n \in spent[w]
    <3>1. n \in Nodes
      BY <2>1 DEF TypeInv, TypeOK, LearnedTypeOK
    <3> QED
      BY <1>1, <2>1, <3>1 DEF Leaves
  <2>2. CASE n \notin spent[w]
    <3>1. DescendAgain(w)
      BY <1>3, <2>2, OnlyDescendAgainSpends
    <3>2. /\ pc[w] = "offered"
          /\ offered[w] = None
          /\ spent'[w] = spent[w] \cup {at[w]}
          /\ at[w] \in Nodes
      BY <3>1 DEF DescendAgain, SpentPast, TypeInv, TypeOK, LearnedTypeOK, Placed, AtNode
    <3>3. n = at[w] /\ NobodyLeftBelow(w, at[w])
      BY <1>3, <2>2, <3>2 DEF Leaves
    <3> QED
      BY <1>1, <3>2, <3>3
  <2> QED
    BY <2>1, <2>2
<1>4. ASSUME pc'[w] = "offered", offered'[w] = None
      PROVE  NobodyLeftBelow(w, at[w])'
  <2>1. OfferNothing(w)
    <3>1. CASE OfferChild(w)
      <4>1. at[w] \in Nodes /\ offered'[w] \in Serving(w)
        BY <3>1 DEF OfferChild, TypeInv, TypeOK, DescentTypeOK, Placed, AtNode
      <4> QED
        BY <1>4, <4>1, ServingAreNodes, TableIsServable DEF Servable
    <3> QED
      BY <1>4, <3>1, Landings
  <2>2. at[w] \in Nodes /\ UNCHANGED at
    BY <2>1 DEF OfferNothing, TypeInv, Placed, AtNode
  <2>3. NobodyLeftBelow(w, at[w])
    BY <2>1, NothingOffered
  <2> DEFINE n == at[w]
  <2>4. n \in Nodes /\ NobodyLeftBelow(w, n)
    BY <2>2, <2>3
  <2>5. at'[w] = at[w]
    BY <2>2
  <2> QED
    BY <1>1, <2>2, <2>3 DEF NobodyLeftBelow, InReach, TargetsPast, IsTarget
<1>5. verdict'[w].outcome # "none" => pc'[w] = "done"
  <2>1. pc[w] # "done" /\ verdict[w].outcome = "none"
    BY WalksSettle DEF Leaves
  <2>2. CASE UNCHANGED verdict
    BY <2>1, <2>2
  <2>3. CASE pc'[w] = "done"
    BY <2>3
  <2> QED
    BY <2>2, <2>3, WalksSettle DEF ReachTheLimit, NowhereAtTarget, NowherePastTheRouter,
       SettlesWithNoChild, Settles, Goto, TypeInv, TypeOK, ControlTypeOK
<1>6. ASSUME verdict'[w].outcome = "exhausted", AttemptedSize(w)' < AttemptLimit
      PROVE  NobodyLeftBelow(w, Entry)'
  <2>1. pc[w] # "done" /\ verdict[w].outcome = "none"
    BY WalksSettle DEF Leaves
  <2>2. ~UNCHANGED verdict
    BY <1>6, <2>1
  <2>3. ASSUME NEW outcome \in Outcomes \ {"none", "exhausted"}, Settles(w, outcome, at[w], FALSE)
        PROVE  FALSE
    BY <1>6, <2>3 DEF Settles, TypeInv, TypeOK, ControlTypeOK
  <2>4. /\ ReachTheLimit(w) \/ NowhereAtTarget(w) \/ NowherePastTheRouter(w)
        /\ UNCHANGED learnedVars
    BY <2>2, <2>3, WalksSettle
  <2>5. AttemptedSize(w) < AttemptLimit
    BY <1>6, <2>4 DEF AttemptedSize, learnedVars
  <2> QED
    BY <1>1, <2>4, <2>5, EntryStandsOnTop, NobodyIsLeftWhereAWalkGivesUp
<1> QED
  BY <1>2, <1>3, <1>4, <1>5, <1>6 DEF Leaves

LEMMA StepsLeave ==
    ASSUME TypeInv, AskInv, SawInv, PathInv, LeadInv, LeftInv, [Next]_vars
    PROVE  LeftInv'
<1> SUFFICES ASSUME NEW v \in Walks
             PROVE  Leaves(v)'
  BY DEF LeftInv
<1>1. Leaves(v) /\ Leads(v) /\ Descended(v)
  BY DEF LeftInv, LeadInv, PathInv
<1>2. ASSUME UNCHANGED Own(v)
      PROVE  Leaves(v)'
  <2>1. /\ pc'[v] = pc[v]
        /\ at'[v] = at[v]
        /\ branch'[v] = branch[v]
        /\ offered'[v] = offered[v]
        /\ attempted'[v] = attempted[v]
        /\ decided'[v] = decided[v]
        /\ spent'[v] = spent[v]
        /\ verdict'[v] = verdict[v]
    BY <1>2 DEF Own
  <2>2. ASSUME NEW n \in Nodes, NobodyLeftBelow(v, n)
        PROVE  NobodyLeftBelow(v, n)'
    BY <2>1, <2>2, SawMore, NobodyComesBack
  <2>3. pc'[v] \in {"pick", "offered"} =>
            /\ ~Undetermined(v, at[v])'
            /\ branch'[v] = SettledBranch(v, at[v])'
    BY <1>1, <2>1 DEF Leaves, Undetermined, SettledBranch, Mode
  <2>4. \A n \in spent'[v] : NobodyLeftBelow(v, n)'
    BY <1>1, <2>1, <2>2 DEF Leaves, TypeInv, TypeOK, LearnedTypeOK
  <2>5. pc'[v] = "offered" /\ offered'[v] = None => NobodyLeftBelow(v, at[v])'
    BY <1>1, <2>1, <2>2 DEF Leaves, TypeInv, Placed, AtNode, NobodyLeftBelow, InReach, TargetsPast, IsTarget
  <2>6. AttemptedSize(v)' = AttemptedSize(v)
    BY <2>1 DEF AttemptedSize
  <2> QED
    BY <1>1, <2>1, <2>2, <2>3, <2>4, <2>5, <2>6, EntryStandsOnTop DEF Leaves
<1>3. ASSUME NEW w \in Walks, Arrive(w) \/ WalkSteps(w)
      PROVE  Leaves(v)'
  <2>1. CASE v = w
    BY <1>1, <1>3, <2>1, StepLeaves
  <2>2. CASE v # w
    BY <1>2, <1>3, <2>2, OthersStand
  <2> QED
    BY <2>1, <2>2
<1> QED
  BY <1>2, <1>3, WalksStand DEF Next

LEMMA InitLeaves == Init => SawInv /\ LeftInv
BY DEF Init, SawInv, LeftInv, Leaves

(* Where a drain carries one walk at a time, a table is reported exhausted *)
(* only once every child the walk's decisions left in reach was tried or   *)
(* stood down at some instant of the walk.                                 *)
THEOREM ExhaustionLeavesNobody ==
    ASSUME OneDrain
    PROVE  Spec => []ExhaustedMeansNobodyWasLeft
<1>1. LeftInv => ExhaustedMeansNobodyWasLeft
  BY DEF LeftInv, Leaves, NobodyLeftBelow, InReach, TargetsPast, ExhaustedMeansNobodyWasLeft
<1>2. /\ TypeInv /\ DrainInv /\ [Next]_vars => DrainInv'
      /\ TypeInv /\ AskInv /\ DrainInv /\ LeadInv /\ [Next]_vars => LeadInv'
      /\ TypeInv /\ AskInv /\ SawInv /\ PathInv /\ LeadInv /\ LeftInv /\ [Next]_vars => LeftInv'
  BY StepDrains, StepsLead, StepsLeave
<1> QED
  BY <1>1, <1>2, InitTyped, StepTyped, InitAsks, StepAsks, InitPaths, StepPaths, InitDrains,
     InitLeads, InitLeaves, StepSaw, PTL DEF Spec

-----------------------------------------------------------------------------
(* The answer of an attempt, for any number of children and of chunks.       *)

(* A child being sent to has written and owes nothing; the body held is the   *)
(* child's the walk is at, and is bounded until its first event.             *)
Stands ==
    /\ answerPhase \in {"sending", "latched", "carried"} => answerAt \in 1..Children
    /\ answerPhase = "sending" => Len(answerSent) = 0 /\ bodies = {} /\ answerBound = FALSE
    /\ answerPhase = "latched" => bodies = {answerAt} /\ answerBound = TRUE /\ shape = "events"
    /\ answerPhase = "carried" => bodies = {answerAt} /\ answerBound = FALSE
    /\ answerPhase = "over" => bodies = {} /\ answerBound = FALSE

(* A caller reads what a relay read; whoever is gathered for, or not yet      *)
(* committed to, has told it nothing.                                       *)
Heard ==
    /\ down \in Seq(Nat \X Chunks)
    /\ \/ Len(down) = 0
       \/ /\ Len(down) = read
          /\ \A i \in 1..read : down[i] = <<answerAt, answerSent[i]>>
    /\ answerPhase \in {"sending", "latched"} => Len(down) = 0 /\ caller = "waiting"
    /\ answerPhase = "carried" /\ way \in {"relayed", "cut"} =>
          Len(down) = read /\ caller = "reading"
    /\ answerPhase = "carried" /\ way \notin {"relayed", "cut"} =>
          Len(down) = 0 /\ caller = "waiting"

(* What was read of an event stream up to its first event. A stream that was  *)
(* committed to either began with no error, or was over before it began.     *)
NothingBegun(upTo) == \A i \in 1..upTo : answerSent[i] = "part"

Began ==
    \E i \in 1..read : answerSent[i] \notin {"part", "rate"} /\ NothingBegun(i - 1)

Openings ==
    /\ answerPhase = "latched" => NothingBegun(read - 1)
    /\ answerPhase = "carried" /\ shape = "events" =>
          Began \/ (NothingBegun(read) /\ up # "open" /\ read = Len(answerSent))
    /\ answerPhase = "over" => NoStreamOpensWithARateLimit

AnswerInv == CommitAssumption /\ CommitTypeOK /\ Stands /\ Heard /\ Openings

LEMMA AnswerStarts == CommitAssumption /\ AnswerInit => AnswerInv
<1> SUFFICES ASSUME CommitAssumption, AnswerInit PROVE AnswerInv
  OBVIOUS
<1>1. answerSent \in Seq(Chunks) /\ Len(answerSent) = 0
  BY DEF AnswerInit
<1>2. down \in Seq(Nat \X Chunks) /\ Len(down) = 0
  BY DEF AnswerInit
<1>3. CommitTypeOK
  BY <1>1 DEF AnswerInit, CommitTypeOK, CommitAssumption
<1>4. Stands
  <2>1. /\ Children \in Nat \ {0} /\ answerAt = 1 /\ answerPhase = "sending"
        /\ bodies = {} /\ answerBound = FALSE
    BY DEF AnswerInit, CommitAssumption
  <2>2. QED
    BY <1>1, <2>1 DEF Stands
<1>5. Heard /\ Openings
  BY <1>2 DEF AnswerInit, Heard, Openings
<1>6. QED
  BY <1>3, <1>4, <1>5 DEF AnswerInv

(* The next child is sent to with nothing of the one before it held.        *)
LEMMA MovingOn ==
  ASSUME AnswerInv, answerPhase \in {"sending", "latched"}, MovesToTheNextChild,
         bodies' = {}, answerBound' = FALSE, UNCHANGED <<shape, way, down>>
  PROVE  AnswerInv'
<1>1. /\ Children \in Nat /\ answerAt \in 1..Children /\ Len(down) = 0 /\ caller = "waiting"
      /\ answerSent \in Seq(Chunks) /\ read \in 0..Len(answerSent)
      /\ up \in {"unsent", "open", "ended", "died"}
      /\ (up = "unsent" => answerSent = <<>>) /\ Len(answerSent) \in Nat
  BY DEF AnswerInv, Stands, Heard, CommitTypeOK, CommitAssumption
<1>2. down' \in Seq(Nat \X Chunks) /\ Len(down') = 0
  BY <1>1 DEF AnswerInv, Heard
<1>3. CASE answerAt < Children
  <2>1. /\ answerAt' = answerAt + 1 /\ answerPhase' = "sending" /\ caller' = caller
        /\ answerSent' = <<>> /\ read' = 0 /\ up' = "unsent"
    BY <1>3 DEF MovesToTheNextChild
  <2>2. answerSent' \in Seq(Chunks) /\ Len(answerSent') = 0
    BY <2>1
  <2>3. CommitTypeOK'
    BY <1>1, <1>3, <2>1, <2>2 DEF CommitTypeOK
  <2>4. Stands'
    <3>1. answerPhase' = "sending" /\ Len(answerSent') = 0 /\ answerAt' \in 1..Children
      BY <1>1, <1>3, <2>1, <2>2
    <3>2. QED
      BY <3>1 DEF Stands
  <2>5. Heard' /\ Openings'
    BY <1>1, <1>2, <2>1 DEF Heard, Openings
  <2>6. QED
    BY <2>3, <2>4, <2>5 DEF AnswerInv, CommitAssumption
<1>4. CASE ~(answerAt < Children)
  <2>1. /\ answerAt' = Children + 1 /\ answerPhase' = "over" /\ caller' = "refused"
        /\ UNCHANGED <<answerSent, read, up>>
    BY <1>4 DEF MovesToTheNextChild
  <2>2. CommitTypeOK'
    BY <1>1, <2>1 DEF CommitTypeOK
  <2>3. Stands'
    BY <2>1 DEF Stands
  <2>4. Heard'
    BY <1>2, <2>1 DEF Heard
  <2>5. Openings'
    BY <1>2, <2>1 DEF Openings, NoStreamOpensWithARateLimit
  <2>6. QED
    BY <2>2, <2>3, <2>4, <2>5 DEF AnswerInv, CommitAssumption
<1>5. QED
  BY <1>3, <1>4

LEMMA AnswerFacts ==
  ASSUME AnswerInv
  PROVE  /\ answerSent \in Seq(Chunks) /\ Len(answerSent) \in Nat
         /\ read \in 0..Len(answerSent) /\ read \in Nat
         /\ answerAt \in Nat /\ answerAt \in 1..Children + 1
         /\ answerPhase \in {"sending", "latched", "carried", "over"}
         /\ up \in {"unsent", "open", "ended", "died"}
         /\ (caller \notin {"waiting", "reading"} <=> answerPhase = "over")
         /\ Children \in Nat /\ CommitAssumption
BY DEF AnswerInv, CommitTypeOK, CommitAssumption

LEMMA ReadBounds ==
  AnswerInv => read \in Nat /\ Len(answerSent) \in Nat /\ read <= Len(answerSent)
BY AnswerFacts

(* What is handed on is what was read, named for its child.                 *)
LEMMA HandedOn ==
  ASSUME AnswerInv, Len(down) = 0, down' = down \o Named(Taken)
  PROVE  /\ down' \in Seq(Nat \X Chunks) /\ Len(down') = read
         /\ \A i \in 1..read : down'[i] = <<answerAt, answerSent[i]>>
<1> DEFINE taken == Taken
           told == Named(taken)
<1>1. /\ taken \in Seq(Chunks) /\ Len(taken) = read
      /\ \A i \in 1..read : taken[i] = answerSent[i] /\ taken[i] \in Chunks
  BY AnswerFacts DEF Taken
<1>2. told = [i \in 1..read |-> <<answerAt, taken[i]>>]
  BY <1>1 DEF Named
<1> HIDE DEF taken, told
<1>3. \A i \in 1..read : <<answerAt, taken[i]>> \in Nat \X Chunks
  BY <1>1, AnswerFacts
<1>4. told \in Seq(Nat \X Chunks) /\ Len(told) = read
  BY <1>2, <1>3, AnswerFacts
<1>5. down' = told
  <2>1. down \in Seq(Nat \X Chunks)
    BY DEF AnswerInv, Heard
  <2>2. QED
    BY <1>4, <2>1 DEF told, taken
<1>6. QED
  BY <1>1, <1>2, <1>4, <1>5

(* What was told of a stream that began well, or of none, opens well.       *)
LEMMA ToldOpensWell ==
  ASSUME AnswerInv, shape = "events" => Began \/ NothingBegun(read),
         NEW told, Len(told) = read, DOMAIN told = 1..read,
         \A i \in 1..read : told[i] = <<answerAt, answerSent[i]>>,
         NEW i \in DOMAIN told, told[i][2] = "rate", shape = "events"
  PROVE  \E j \in 1..i - 1 : told[j][2] # "part"
<1>1. read \in Nat /\ i \in 1..read /\ \A j \in 1..read : told[j][2] = answerSent[j]
  BY AnswerFacts
<1>2. Began
  BY <1>1 DEF NothingBegun
<1>3. PICK j \in 1..read : answerSent[j] \notin {"part", "rate"} /\ NothingBegun(j - 1)
  BY <1>2 DEF Began
<1>4. j < i
  BY <1>1, <1>3 DEF NothingBegun
<1>5. QED
  BY <1>1, <1>3, <1>4

-----------------------------------------------------------------------------
(* The upstream writes, ends or breaks under a child that is read.          *)

LEMMA UpstreamKeeps ==
  ASSUME AnswerInv,
         \/ \E chunk \in Chunks : Writes(chunk)
         \/ Ends \/ Breaks
  PROVE  AnswerInv'
<1>1. /\ up = "open" /\ up' \in {"open", "ended", "died"}
      /\ UNCHANGED <<answerAt, answerPhase, shape, way, read, bodies, answerBound, down, caller>>
      /\ answerPhase \in {"latched", "carried"}
  BY AnswerFacts DEF AnswerInv, Stands, Writes, Ends, Breaks
<1>2. /\ answerSent' \in Seq(Chunks) /\ Len(answerSent') \in Nat
      /\ Len(answerSent) <= Len(answerSent')
      /\ \A i \in 1..Len(answerSent) : answerSent'[i] = answerSent[i]
  <2>1. CASE UNCHANGED answerSent
    BY <2>1, AnswerFacts
  <2>2. CASE \E chunk \in Chunks : answerSent' = Append(answerSent, chunk)
    BY <2>2, AnswerFacts
  <2>3. QED
    BY <2>1, <2>2 DEF Writes, Ends, Breaks
<1>3. CommitTypeOK'
  <2>1. read' \in 0..Len(answerSent')
    BY <1>1, <1>2, AnswerFacts
  <2>2. QED
    BY <1>1, <1>2, <2>1 DEF AnswerInv, CommitTypeOK
<1>4. Stands'
  BY <1>1 DEF AnswerInv, Stands
<1>5. \A i \in 1..read : answerSent'[i] = answerSent[i]
  BY <1>2, ReadBounds
<1>6. Heard'
  BY <1>1, <1>5 DEF AnswerInv, Heard
<1>7. Openings'
  <2>1. CASE answerPhase = "latched"
    <3>1. NothingBegun(read - 1)
      BY <2>1 DEF AnswerInv, Openings
    <3>2. NothingBegun(read - 1)'
      BY <3>1, <1>1, <1>5, AnswerFacts DEF NothingBegun
    <3>3. QED
      BY <1>1, <2>1, <3>2 DEF Openings
  <2>2. CASE answerPhase = "carried" /\ shape = "events"
    <3>1. Began
      BY <1>1, <2>2 DEF AnswerInv, Openings
    <3>2. Began'
      BY <3>1, <1>1, <1>5, AnswerFacts DEF Began, NothingBegun
    <3>3. QED
      BY <1>1, <2>2, <3>2 DEF Openings
  <2>3. QED
    BY <1>1, <2>1, <2>2 DEF Openings
<1>8. QED
  BY <1>3, <1>4, <1>6, <1>7, AnswerFacts DEF AnswerInv, CommitAssumption

-----------------------------------------------------------------------------
(* One attempt, to the latch.                                              *)

LEMMA SendingOutKeeps ==
  ASSUME AnswerInv, \/ CannotSend
                    \/ \E carries \in {"events", "json"} : Answers(carries)
  PROVE  AnswerInv'
<1>1. CASE CannotSend
  BY <1>1, MovingOn DEF CannotSend, AnswerInv, Stands
<1>2. ASSUME NEW carries \in {"events", "json"}, Answers(carries)
      PROVE  AnswerInv'
  <2>1. /\ answerPhase = "sending" /\ shape' = carries /\ up' = "open"
        /\ bodies' = bodies \cup {answerAt}
        /\ UNCHANGED <<answerAt, answerSent, read, down, caller>>
        /\ \/ answerPhase' = "latched" /\ answerBound' = TRUE /\ carries = "events"
           \/ /\ answerPhase' = "carried" /\ answerBound' = answerBound
              /\ way' = "text" /\ carries = "json"
    BY <1>2 DEF Answers
  <2>2. bodies' = {answerAt} /\ answerAt \in 1..Children /\ answerBound = FALSE
        /\ Len(answerSent) = 0 /\ read = 0 /\ Len(down) = 0 /\ caller = "waiting"
    <3>1. answerAt \in 1..Children /\ Len(answerSent) = 0 /\ bodies = {} /\ answerBound = FALSE
      BY <2>1 DEF AnswerInv, Stands
    <3>2. Len(down) = 0 /\ caller = "waiting"
      BY <2>1 DEF AnswerInv, Heard
    <3>3. read = 0
      BY <3>1, AnswerFacts
    <3>4. bodies' = {answerAt}
      BY <2>1, <3>1
    <3>5. QED
      BY <3>1, <3>2, <3>3, <3>4
  <2>3. CommitTypeOK'
    BY <2>1, <2>2, AnswerFacts DEF AnswerInv, CommitTypeOK
  <2>4. Stands'
    BY <2>1, <2>2 DEF Stands
  <2>5. Heard'
    BY <2>1, <2>2 DEF AnswerInv, Heard
  <2>6. Openings'
    BY <2>1, <2>2 DEF Openings, NothingBegun
  <2>7. QED
    BY <2>3, <2>4, <2>5, <2>6, AnswerFacts DEF AnswerInv, CommitAssumption
<1>3. QED
  BY <1>1, <1>2

LEMMA HoldingKeeps ==
  ASSUME AnswerInv, HoldsAChunk
  PROVE  AnswerInv'
<1>1. /\ answerPhase = "latched" /\ read < Len(answerSent) /\ read' = read + 1
      /\ NothingBegun(read) /\ Len(down) = 0
      /\ UNCHANGED <<answerAt, answerPhase, shape, way, answerSent, up, bodies, answerBound, down, caller>>
  BY DEF HoldsAChunk, Opened, NothingBegun, AnswerInv, Heard
<1>2. CommitTypeOK'
  BY <1>1, AnswerFacts DEF AnswerInv, CommitTypeOK
<1>3. Stands' /\ Heard'
  BY <1>1 DEF AnswerInv, Stands, Heard
<1>4. Openings'
  <2>1. NothingBegun(read - 1)'
    BY <1>1, AnswerFacts DEF NothingBegun
  <2>2. QED
    BY <1>1, <2>1 DEF Openings
<1>5. QED
  BY <1>2, <1>3, <1>4, AnswerFacts DEF AnswerInv, CommitAssumption

LEMMA GivingUpKeeps ==
  ASSUME AnswerInv, DiesUnopened \/ SilenceAfter
  PROVE  AnswerInv'
<1>1. /\ answerPhase = "latched" /\ LetGoOf /\ MovesToTheNextChild
      /\ UNCHANGED <<shape, way, down>>
  BY DEF DiesUnopened, SilenceAfter
<1>2. bodies' = {} /\ answerBound' = FALSE
  BY <1>1 DEF LetGoOf, AnswerInv, Stands
<1>3. QED
  BY <1>1, <1>2, MovingOn

LEMMA ErringKeeps ==
  ASSUME AnswerInv, ErrorBeforeCommit
  PROVE  AnswerInv'
<1>1. /\ answerPhase = "latched" /\ LetGoOf /\ UNCHANGED <<shape, way>>
      /\ FirstEventErrs /\ Len(down) = 0
  BY DEF ErrorBeforeCommit, AnswerInv, Heard
<1>2. bodies' = {} /\ answerBound' = FALSE
  BY <1>1 DEF LetGoOf, AnswerInv, Stands
<1>3. CASE answerSent[read] = "rate"
  BY <1>1, <1>2, <1>3, MovingOn DEF ErrorBeforeCommit
<1>4. CASE answerSent[read] # "rate"
  <2>1. /\ down' = down \o Named(Taken) /\ answerPhase' = "over"
        /\ caller' = "closed" /\ UNCHANGED <<answerAt, answerSent, up, read>>
    BY <1>4 DEF ErrorBeforeCommit
  <2>2. /\ down' \in Seq(Nat \X Chunks) /\ Len(down') = read
        /\ \A i \in 1..read : down'[i] = <<answerAt, answerSent[i]>>
    BY <1>1, <2>1, HandedOn
  <2>3. read \in 1..read /\ answerSent[read] \notin {"part", "rate"}
    BY <1>1, <1>4, AnswerFacts DEF FirstEventErrs, Opened, ErrorEvents
  <2>4. Began
    BY <1>1, <2>3 DEF Began, AnswerInv, Openings
  <2>5. NoStreamOpensWithARateLimit'
    <3>1. DOMAIN down' = 1..read
      BY <2>2
    <3>2. QED
      BY <1>1, <2>2, <2>4, <3>1, ToldOpensWell DEF NoStreamOpensWithARateLimit
  <2>6. CommitTypeOK'
    BY <2>1, AnswerFacts DEF AnswerInv, CommitTypeOK
  <2>7. Stands' /\ Heard' /\ Openings'
    BY <1>2, <2>1, <2>2, <2>5 DEF Stands, Heard, Openings
  <2>8. QED
    BY <2>6, <2>7, AnswerFacts DEF AnswerInv, CommitAssumption
<1>5. QED
  BY <1>3, <1>4

-----------------------------------------------------------------------------
(* The committed answer.                                                   *)

(* A stream is committed to at its first event, or at its end.              *)
LEMMA CommittingKeeps ==
  ASSUME AnswerInv, Commits
  PROVE  AnswerInv'
<1>1. /\ answerPhase = "latched" /\ answerPhase' = "carried" /\ answerBound' = FALSE
      /\ Opened \/ (up = "ended" /\ read = Len(answerSent))
      /\ ~FirstEventErrs
      /\ way' \in {"gathered", "relayed", "cut"}
      /\ UNCHANGED <<answerAt, shape, answerSent, up, read, bodies>>
  BY DEF Commits, Ways
<1>2. /\ shape = "events" /\ bodies = {answerAt} /\ answerAt \in 1..Children
      /\ Len(down) = 0 /\ caller = "waiting" /\ NothingBegun(read - 1)
  BY <1>1 DEF AnswerInv, Stands, Heard, Openings
<1>3. Heard' /\ CommitTypeOK'
  <2>1. CASE way' = "gathered"
    <3>1. UNCHANGED <<down, caller>>
      BY <2>1 DEF Commits
    <3>2. QED
      BY <1>1, <1>2, <2>1, <3>1, AnswerFacts DEF AnswerInv, Heard, CommitTypeOK
  <2>2. CASE way' # "gathered"
    <3>1. down' = down \o Named(Taken) /\ caller' = "reading"
      BY <2>2 DEF Commits, EnqueueHeld
    <3>2. /\ down' \in Seq(Nat \X Chunks) /\ Len(down') = read
          /\ \A i \in 1..read : down'[i] = <<answerAt, answerSent[i]>>
      BY <1>2, <3>1, HandedOn
    <3>3. QED
      BY <1>1, <2>2, <3>1, <3>2, AnswerFacts DEF AnswerInv, Heard, CommitTypeOK
  <2>3. QED
    BY <2>1, <2>2
<1>5. Stands'
  BY <1>1, <1>2 DEF Stands
<1>6. Began \/ (NothingBegun(read) /\ up # "open" /\ read = Len(answerSent))
  <2>1. CASE Opened
    <3>1. read \in 1..read /\ answerSent[read] # "part"
      BY <1>2, <2>1, AnswerFacts DEF Opened, NothingBegun
    <3>2. answerSent[read] # "rate"
      BY <1>1, <2>1 DEF FirstEventErrs, ErrorEvents
    <3>3. QED
      BY <1>2, <3>1, <3>2 DEF Began
  <2>2. CASE ~Opened
    BY <1>1, <2>2 DEF Opened, NothingBegun
  <2>3. QED
    BY <2>1, <2>2
<1>7. Openings'
  <2>1. NothingBegun(read)' <=> NothingBegun(read)
    BY <1>1 DEF NothingBegun
  <2>2. Began' <=> Began
    BY <1>1 DEF Began, NothingBegun
  <2>3. QED
    BY <1>1, <1>6, <2>1, <2>2 DEF Openings
<1>8. QED
  BY <1>3, <1>5, <1>7, AnswerFacts DEF AnswerInv, CommitAssumption

(* One more chunk is read of a stream that is carried.                      *)
LEMMA ReadingOnKeeps ==
  ASSUME AnswerInv, RelaysAChunk \/ GathersAChunk
  PROVE  AnswerInv'
<1>1. /\ answerPhase = "carried" /\ read < Len(answerSent) /\ read' = read + 1
      /\ UNCHANGED <<answerAt, answerPhase, shape, way, answerSent, up, bodies, answerBound, caller>>
      /\ \/ way \in {"relayed", "cut"} /\ down' = Append(down, <<answerAt, answerSent[read + 1]>>)
         \/ way \notin {"relayed", "cut"} /\ down' = down
  BY DEF RelaysAChunk, GathersAChunk, Relaying, Gathering, HasMore
<1>2. CommitTypeOK'
  BY <1>1, AnswerFacts DEF AnswerInv, CommitTypeOK
<1>3. Stands'
  BY <1>1 DEF AnswerInv, Stands
<1>4. Heard'
  <2>1. CASE way \in {"relayed", "cut"}
    <3>1. /\ down \in Seq(Nat \X Chunks) /\ Len(down) = read /\ caller = "reading"
          /\ \A i \in 1..read : down[i] = <<answerAt, answerSent[i]>>
      BY <1>1, <2>1, AnswerFacts DEF AnswerInv, Heard
    <3>2. <<answerAt, answerSent[read + 1]>> \in Nat \X Chunks
      BY <1>1, AnswerFacts
    <3>3. down' = Append(down, <<answerAt, answerSent[read + 1]>>)
      BY <1>1, <2>1
    <3>4. /\ down' \in Seq(Nat \X Chunks) /\ Len(down') = read + 1
          /\ \A i \in 1..read : down'[i] = down[i]
          /\ down'[read + 1] = <<answerAt, answerSent[read + 1]>>
      BY <3>1, <3>2, <3>3
    <3>5. \A i \in 1..read + 1 : down'[i] = <<answerAt, answerSent[i]>>
      <4>1. \A i \in 1..read + 1 : i \in 1..read \/ i = read + 1
        BY AnswerFacts
      <4>2. QED
        BY <3>1, <3>4, <4>1
    <3>6. QED
      BY <1>1, <2>1, <3>1, <3>4, <3>5 DEF Heard
  <2>2. CASE way \notin {"relayed", "cut"}
    BY <1>1, <2>2 DEF AnswerInv, Heard
  <2>3. QED
    BY <2>1, <2>2
<1>5. Openings'
  <2>1. shape = "events" => Began
    BY <1>1, AnswerFacts DEF AnswerInv, Openings
  <2>2. Began => Began'
    <3>1. SUFFICES ASSUME NEW i \in 1..read, answerSent[i] \notin {"part", "rate"}, NothingBegun(i - 1)
                   PROVE  Began'
      BY DEF Began
    <3>2. i \in 1..read' /\ answerSent'[i] \notin {"part", "rate"} /\ answerSent' = answerSent
      <4>1. read \in Nat
        BY AnswerFacts
      <4>2. read' = read + 1 /\ answerSent' = answerSent
        BY <1>1
      <4>3. QED
        BY <3>1, <4>1, <4>2
    <3>3. NothingBegun(i - 1)'
      BY <3>1, <3>2 DEF NothingBegun
    <3>4. QED
      BY <3>2, <3>3 DEF Began
  <2>3. QED
    BY <1>1, <2>1, <2>2 DEF Openings
<1>6. QED
  BY <1>2, <1>3, <1>4, <1>5, AnswerFacts DEF AnswerInv, CommitAssumption

(* What a caller was told opens well, as it stands.                         *)
LEMMA OpensWell == AnswerInv => NoStreamOpensWithARateLimit
<1> SUFFICES ASSUME AnswerInv, shape = "events",
                    NEW i \in DOMAIN down, down[i][2] = "rate"
             PROVE  \E j \in 1..i - 1 : down[j][2] # "part"
  BY DEF NoStreamOpensWithARateLimit
<1>1. CASE answerPhase = "over"
  BY <1>1 DEF AnswerInv, Openings, NoStreamOpensWithARateLimit
<1>2. CASE answerPhase # "over"
  <2>1. down \in Seq(Nat \X Chunks) /\ Len(down) # 0
    BY DEF AnswerInv, Heard
  <2>2. answerPhase = "carried" /\ Len(down) = read
        /\ \A j \in 1..read : down[j] = <<answerAt, answerSent[j]>>
    BY <1>2, <2>1, AnswerFacts DEF AnswerInv, Heard
  <2>3. Began \/ NothingBegun(read)
    BY <2>2 DEF AnswerInv, Openings
  <2>4. DOMAIN down = 1..read
    BY <2>1, <2>2
  <2>5. QED
    BY <2>2, <2>3, <2>4, ToldOpensWell
<1>3. QED
  BY <1>1, <1>2

(* An answer ends with what the caller was told of it, its body let go.     *)
LEMMA EndingKeeps ==
  ASSUME AnswerInv, answerPhase = "carried", LetGoOf, answerPhase' = "over",
         caller' \notin {"waiting", "reading"},
         UNCHANGED <<answerAt, shape, way, answerSent, up, read, down>>
  PROVE  AnswerInv'
<1>1. bodies' = {} /\ answerBound' = FALSE
  BY DEF LetGoOf, AnswerInv, Stands
<1>2. CommitTypeOK'
  BY AnswerFacts DEF AnswerInv, CommitTypeOK
<1>3. Stands' /\ Heard'
  BY <1>1 DEF AnswerInv, Stands, Heard
<1>4. Openings'
  BY OpensWell DEF Openings, NoStreamOpensWithARateLimit
<1>5. QED
  BY <1>2, <1>3, <1>4, AnswerFacts DEF AnswerInv, CommitAssumption

(* A whole answer is told at once.                                         *)
LEMMA TellingWholeKeeps ==
  ASSUME AnswerInv, AnswersWhole
  PROVE  AnswerInv'
<1>1. /\ answerPhase = "carried" /\ way \notin {"relayed", "cut"} /\ LetGoOf
      /\ answerPhase' = "over" /\ caller' = "whole"
      /\ down' = down \o Named(Taken)
      /\ UNCHANGED <<answerAt, shape, way, answerSent, up, read>>
  BY DEF AnswersWhole, Gathering
<1>2. bodies' = {} /\ answerBound' = FALSE
  BY <1>1 DEF LetGoOf, AnswerInv, Stands
<1>3. Len(down) = 0 /\ (shape = "events" => Began \/ NothingBegun(read))
  BY <1>1 DEF AnswerInv, Heard, Openings
<1>4. /\ down' \in Seq(Nat \X Chunks) /\ Len(down') = read
      /\ \A i \in 1..read : down'[i] = <<answerAt, answerSent[i]>>
  BY <1>1, <1>3, HandedOn
<1>5. CommitTypeOK'
  BY <1>1, AnswerFacts DEF AnswerInv, CommitTypeOK
<1>6. NoStreamOpensWithARateLimit'
  <2>1. DOMAIN down' = 1..read
    BY <1>4
  <2>2. SUFFICES ASSUME NEW i \in DOMAIN down', down'[i][2] = "rate", shape = "events"
                 PROVE  \E j \in 1..i - 1 : down'[j][2] # "part"
    BY <1>1 DEF NoStreamOpensWithARateLimit
  <2>3. Began \/ NothingBegun(read)
    BY <1>3, <2>2
  <2>4. QED
    BY <1>4, <2>1, <2>2, <2>3, ToldOpensWell
<1>7. Stands' /\ Heard' /\ Openings'
  BY <1>1, <1>2, <1>4, <1>6 DEF Stands, Heard, Openings
<1>8. QED
  BY <1>5, <1>7, AnswerFacts DEF AnswerInv, CommitAssumption

LEMMA AnswerStepsKeep ==
  ASSUME AnswerInv, [AnswerNext]_answerVars
  PROVE  AnswerInv'
<1>1. CASE \/ (\E chunk \in Chunks : Writes(chunk)) \/ Ends \/ Breaks
  BY <1>1, UpstreamKeeps
<1>2. CASE CannotSend \/ \E carries \in {"events", "json"} : Answers(carries)
  BY <1>2, SendingOutKeeps
<1>3. CASE Reads
  BY <1>3, HoldingKeeps, ReadingOnKeeps DEF Reads
<1>4. CASE SilenceAfter \/ DiesUnopened
  BY <1>4, GivingUpKeeps
<1>5. CASE \/ Closes \/ ReadingOnFails \/ Cancel
           \/ CodexTerminalError \/ Throws
  BY <1>5, EndingKeeps DEF Closes, ReadingOnFails, Cancel,
     CodexTerminalError, Throws, Relaying, Gathering
<1>6. CASE ErrorBeforeCommit \/ Commits \/ AnswersWhole
  BY <1>6, ErringKeeps, CommittingKeeps, TellingWholeKeeps
<1>7. CASE UNCHANGED answerVars
  <2>1. /\ CommitTypeOK' /\ Stands'
    BY <1>7 DEF answerVars, AnswerInv, CommitTypeOK, Stands
  <2>2. Heard' /\ Openings'
    BY <1>7 DEF answerVars, AnswerInv, Heard, Openings, Began, NothingBegun,
       NoStreamOpensWithARateLimit
  <2>3. QED
    BY <2>1, <2>2, AnswerFacts DEF AnswerInv, CommitAssumption
<1>8. QED
  BY <1>1, <1>2, <1>3, <1>4, <1>5, <1>6, <1>7 DEF AnswerNext, AnswerSettles

(* What the caller hears is a prefix of what its child sent, all it read.    *)
LEMMA OneIsHeard == AnswerInv => OneChildSpeaks
<1> SUFFICES ASSUME AnswerInv PROVE OneChildSpeaks
  OBVIOUS
<1>1. down \in Seq(Nat \X Chunks)
  BY DEF AnswerInv, Heard
<1>2. \/ Len(down) = 0
      \/ Len(down) = read /\ \A i \in 1..read : down[i] = <<answerAt, answerSent[i]>>
  BY DEF AnswerInv, Heard
<1>3. DOMAIN down = 1..Len(down) /\ Len(down) \in Nat
  BY <1>1
<1>4. Len(down) <= Len(answerSent)
  BY <1>2, ReadBounds
<1>5. \A i \in DOMAIN down : down[i] = <<answerAt, answerSent[i]>>
  <2>1. CASE Len(down) = 0
    BY <1>3, <2>1
  <2>2. CASE Len(down) # 0
    BY <1>2, <1>3, <2>2
  <2>3. QED
    BY <2>1, <2>2
<1>6. answerPhase = "carried" /\ caller = "reading" => Len(down) = read
  BY DEF AnswerInv, Heard
<1>7. QED
  BY <1>4, <1>5, <1>6 DEF OneChildSpeaks

(* AnswersComeFromOneChild, for any number of children and of chunks and      *)
(* however they are silent, die, err or are left: the caller hears one child, *)
(* from its first chunk on, no error a sibling could have cured opens what it *)
(* hears, and no child given up on is held or bounded.                       *)
THEOREM OneChildIsHeard ==
  CommitAssumption /\ AnswerSpec => []AnswersComeFromOneChild
<1>1. AnswerInv /\ [AnswerNext]_answerVars => AnswerInv'
  BY AnswerStepsKeep
<1>2. AnswerInv => AnswersComeFromOneChild
  <2> SUFFICES ASSUME AnswerInv PROVE AnswersComeFromOneChild
    OBVIOUS
  <2>1. AbandonedIsLetGo
    BY AnswerFacts DEF AnswerInv, Stands, AbandonedIsLetGo
  <2>2. TheBoundEndsAtTheFirstEvent
    BY AnswerFacts DEF AnswerInv, Stands, TheBoundEndsAtTheFirstEvent
  <2>3. QED
    BY <2>1, <2>2, OneIsHeard, OpensWell DEF AnswerInv, AnswersComeFromOneChild
<1>3. QED
  BY AnswerStarts, <1>1, <1>2, PTL DEF AnswerSpec

=============================================================================
