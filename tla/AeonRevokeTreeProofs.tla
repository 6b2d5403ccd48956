------------------------ MODULE AeonRevokeTreeProofs ------------------------
(***************************************************************************)
(* Proofs about AeonRevokeTree: its steps are steps of the core, what a    *)
(* call knows of the tree stays true while the agent works on, and each    *)
(* transaction leaves nothing Active below the authority it revokes.       *)
(***************************************************************************)
EXTENDS AeonRevokeTree, AeonAuthorityInvProofs

\* What the call has read of an authority and may rely on later: its place
\* in the tree, and that it is retired when it was.
NodesMatch ==
    \A i \in DOMAIN nodes :
        /\ i \in AuthorityIds
        /\ nodes[i].parent_id = authority[i].parent_id
        /\ nodes[i].depth = authority[i].depth
        /\ nodes[i].status # "Active" => authority[i].status # "Active"

\* What is left of a plan: of what it began with, the rest is retired.
PlanMatch ==
    plan # {} =>
        /\ RootId \in DOMAIN nodes
        /\ plan \subseteq Subtree(RootId)
        /\ \A i \in ActiveOf(Subtree(RootId)) \ plan : authority[i].status # "Active"

TreeInv == TreeTypeOK /\ AuthorityInv /\ NodesMatch /\ PlanMatch

-----------------------------------------------------------------------------
(* The steps of a call                                                     *)

LEMMA TreeNextIsNext ==
    ASSUME TreeTypeOK, NodesMatch, [TreeNext]_treeVars
    PROVE  [Next]_vars
<1>1. CASE SendBatch
  <2>1. PICK id \in plan :
            \/ RevokeAuthority(Caller, id, BatchChildren(id))
            \/ UNCHANGED vars
    BY <1>1 DEF SendBatch
  <2>2. id \in AuthorityIds /\ BatchChildren(id) \in SUBSET AuthorityIds
    BY DEF TreeTypeOK, NodesMatch, BatchChildren, ActiveOf, ChildrenOf
  <2>3. Caller \in Agents
    BY CallerAssumption
  <2> QED
    BY <2>1, <2>2, <2>3 DEF Next, Lifecycle
<1>2. CASE UNCHANGED treeVars
  BY <1>2 DEF treeVars
<1> QED
  BY <1>1, <1>2 DEF TreeNext, Call, ScanNext, MakePlan

\* An authority never moves in the tree and, once retired, stays so.
LEMMA StepKeepsPlace ==
    ASSUME TypeOK, AuthorityInv, AuthorityStep, NEW i \in AuthorityIds
    PROVE  /\ i \in AuthorityIds'
           /\ authority'[i].parent_id = authority[i].parent_id
           /\ authority'[i].depth = authority[i].depth
           /\ authority[i].status # "Active" => authority'[i].status # "Active"
<1>1. ASSUME NEW a \in Agents, NEW p \in AuthorityIds \cup {0},
             NEW req \in IssueRequest, GrantStep(a, p, req)
      PROVE  i \in AuthorityIds' /\ authority'[i] = authority[i]
  BY <1>1, GrantEffect
<1>2. ASSUME NEW j \in AuthorityIds, NEW amount \in U64, SpendStep(j, amount)
      PROVE  /\ i \in AuthorityIds'
             /\ authority'[i].parent_id = authority[i].parent_id
             /\ authority'[i].depth = authority[i].depth
  <2>1. AuthorityIds' = AuthorityIds /\ authority[j] \in Authority
    BY <1>2 DEF SpendStep, AuthorityIds, TypeOK
  <2> QED
    BY <1>2, <2>1 DEF SpendStep, AfterSpend, AuthorityIds, Authority
<1>3. ASSUME NEW S \in SUBSET AuthorityIds, NEW st \in {"Revoked", "Expired"},
             CloseStep(S, st)
      PROVE  /\ i \in AuthorityIds'
             /\ authority'[i].parent_id = authority[i].parent_id
             /\ authority'[i].depth = authority[i].depth
  <2>1. AuthorityIds' = AuthorityIds
    BY <1>3 DEF CloseStep, AuthorityIds
  <2> QED
    BY <1>3, <2>1 DEF CloseStep, TypeOK, AuthorityIds, Authority
<1>4. CASE authority' = authority
  BY <1>4 DEF AuthorityIds
<1>5. authority[i].status # "Active" => authority'[i] = authority[i]
  BY StepLeavesRetired
<1>6. /\ i \in AuthorityIds'
      /\ authority'[i].parent_id = authority[i].parent_id
      /\ authority'[i].depth = authority[i].depth
  BY <1>1, <1>2, <1>3, <1>4 DEF AuthorityStep
<1> QED
  BY <1>5, <1>6

-----------------------------------------------------------------------------
(* The tree as the call saw it                                             *)

LEMMA SubtreeIsClosed ==
    ASSUME NEW id \in DOMAIN nodes, NEW i \in Subtree(id)
    PROVE  Subtree(i) \subseteq Subtree(id)
BY DEF Subtree

\* All that the search finds below an authority is deeper than it.
LEMMA SubtreeIsDeeper ==
    ASSUME TreeTypeOK, Attenuated, NodesMatch, NEW id \in DOMAIN nodes,
           NEW i \in Subtree(id), i # id
    PROVE  nodes[i].depth > nodes[id].depth
<1> DEFINE Below == {id} \cup {j \in DOMAIN nodes : nodes[j].depth > nodes[id].depth}
<1>1. \A j \in DOMAIN nodes : nodes[j].depth \in Nat
  BY LimitsAssumption DEF TreeTypeOK, Node
<1>2. ASSUME NEW j \in Below, NEW k \in ChildrenOf(j)
      PROVE  k \in Below
  <2>1. k \in DOMAIN nodes /\ j \in DOMAIN nodes /\ nodes[k].parent_id = j
    BY DEF ChildrenOf
  <2>2. k \in AuthorityIds /\ j \in AuthorityIds /\ authority[k].parent_id = j
    BY <2>1 DEF NodesMatch
  <2>3. j # 0
    BY <2>1, CallerAssumption DEF TreeTypeOK
  <2>4. nodes[k].depth = nodes[j].depth + 1
    BY <2>1, <2>2, <2>3 DEF Attenuated, NodesMatch
  <2>5. nodes[j].depth >= nodes[id].depth
    BY <1>1
  <2> QED
    BY <1>1, <2>1, <2>4, <2>5
<1>3. Closed(Below)
  BY <1>2 DEF Closed
<1>4. Below \in SUBSET DOMAIN nodes /\ id \in Below
  OBVIOUS
<1>5. i \in Below
  <2> HIDE DEF Below
  <2> QED
    BY <1>3, <1>4 DEF Subtree
<1> QED
  BY <1>5

\* A transaction that goes through leaves nothing Active of what the call
\* saw at and below the authority it revokes.
LEMMA BatchRetiresSubtree ==
    ASSUME TreeInv, NEW id \in plan, \A j \in plan \ {id} : Deeper(id, j),
           RevokeAuthority(Caller, id, BatchChildren(id)), AuthorityStep,
           NEW i \in Subtree(id)
    PROVE  authority'[i].status # "Active"
<1>1. /\ TypeOK /\ id \in DOMAIN nodes /\ i \in DOMAIN nodes
      /\ id \in AuthorityIds /\ i \in AuthorityIds
  BY DEF TreeInv, TreeTypeOK, NodesMatch, Subtree
<1>2. CASE i = id
  <2>1. authority[id] \in Authority
    BY <1>1 DEF TypeOK, AuthorityIds
  <2> QED
    BY <1>1, <1>2, <2>1 DEF RevokeAuthority, Authority
<1>3. CASE i # id
  <2>1. nodes[i].depth > nodes[id].depth
    BY <1>1, <1>3, SubtreeIsDeeper DEF TreeInv, AuthorityInv
  <2>2. nodes[i].depth \in Nat /\ nodes[id].depth \in Nat
    BY <1>1, LimitsAssumption DEF TreeInv, TreeTypeOK, Node
  <2>3. ~Deeper(id, i)
    BY <2>1, <2>2 DEF Deeper
  <2>4. i \notin plan
    BY <1>3, <2>3
  <2>5. i \in Subtree(RootId)
    <3>1. RootId \in DOMAIN nodes /\ id \in Subtree(RootId)
      BY DEF TreeInv, PlanMatch
    <3> QED
      BY <3>1, SubtreeIsClosed
  <2>6. authority[i].status # "Active"
    BY <1>1, <2>4, <2>5 DEF TreeInv, NodesMatch, PlanMatch, ActiveOf
  <2> QED
    BY <1>1, <2>6, StepKeepsPlace DEF TreeInv
<1> QED
  BY <1>2, <1>3

-----------------------------------------------------------------------------
(* The invariant                                                           *)

LEMMA CoreKeepsTree ==
    ASSUME TreeInv, AuthorityStep, UNCHANGED call
    PROVE  NodesMatch' /\ PlanMatch'
<1>1. nodes' = nodes /\ plan' = plan
  BY DEF call
<1>2. ASSUME NEW i \in DOMAIN nodes
      PROVE  /\ i \in AuthorityIds'
             /\ nodes[i].parent_id = authority'[i].parent_id
             /\ nodes[i].depth = authority'[i].depth
             /\ authority[i].status # "Active" => authority'[i].status # "Active"
  <2>1. i \in AuthorityIds
    BY DEF TreeInv, NodesMatch
  <2> QED
    BY <2>1, StepKeepsPlace DEF TreeInv, TreeTypeOK, NodesMatch
<1>3. NodesMatch'
  BY <1>1, <1>2 DEF TreeInv, NodesMatch
<1>4. PlanMatch'
  <2>1. Subtree(RootId)' = Subtree(RootId)
    BY <1>1 DEF Subtree, Closed, ChildrenOf
  <2>2. ActiveOf(Subtree(RootId))' = ActiveOf(Subtree(RootId))
    BY <1>1, <2>1 DEF ActiveOf
  <2>3. ActiveOf(Subtree(RootId)) \subseteq DOMAIN nodes
    BY DEF ActiveOf, Subtree
  <2> QED
    BY <1>1, <1>2, <2>1, <2>2, <2>3 DEF TreeInv, PlanMatch
<1> QED
  BY <1>3, <1>4

LEMMA ScanKeepsTree ==
    ASSUME TreeInv, ScanNext
    PROVE  TreeInv'
<1> DEFINE id == scanned + 1
           seen == [parent_id |-> authority[id].parent_id,
                    depth |-> authority[id].depth,
                    status |-> authority[id].status]
<1>1. /\ plan = {} /\ plan' = {} /\ id \in 1 .. ScanMaxId /\ scanned' = id
      /\ TypeOK' /\ AuthorityInv'
      /\ authority' = authority
  <2>1. plan = {} /\ plan' = plan /\ id \in 1 .. ScanMaxId /\ scanned' = id
    BY CallerAssumption DEF TreeInv, TreeTypeOK, ScanNext
  <2>2. UNCHANGED vars
    BY DEF ScanNext
  <2>3. TypeOK'
    BY <2>2 DEF TreeInv, TreeTypeOK, TypeOK, vars, config, Registered
  <2>4. AuthorityInv'
    BY <2>2 DEF TreeInv, AuthorityInv, SpendWithinLimits, ExhaustedIffUsedUp,
                Attenuated, AuthorityIds, vars, config
  <2> QED
    BY <2>1, <2>2, <2>3, <2>4 DEF vars
<1>2. \/ nodes' = nodes /\ misses' \in 0 .. MaxMisses
      \/ /\ nodes' = Added(nodes, id, seen) /\ misses' = misses
         /\ id \in AuthorityIds
  BY CallerAssumption DEF ScanNext, TreeInv, TreeTypeOK
<1>3. CASE nodes' = nodes /\ misses' \in 0 .. MaxMisses
  BY <1>1, <1>3, CallerAssumption
     DEF TreeInv, TreeTypeOK, NodesMatch, PlanMatch, AuthorityIds
<1>4. CASE nodes' = Added(nodes, id, seen) /\ misses' = misses /\ id \in AuthorityIds
  <2>1. authority[id] \in Authority
    BY <1>4 DEF TreeInv, TreeTypeOK, TypeOK, AuthorityIds
  <2>2. seen \in Node
    BY <2>1 DEF Node, Authority
  <2>3. /\ DOMAIN nodes' = DOMAIN nodes \cup {id}
        /\ nodes' \in [DOMAIN nodes' -> Node]
    BY <1>4, <2>2 DEF Added, TreeInv, TreeTypeOK
  <2>4. TreeTypeOK'
    BY <1>1, <1>4, <2>3, CallerAssumption DEF TreeInv, TreeTypeOK
  <2>5. NodesMatch'
    BY <1>1, <1>4, <2>3 DEF Added, TreeInv, NodesMatch, AuthorityIds
  <2> QED
    BY <1>1, <2>4, <2>5 DEF TreeInv, PlanMatch
<1> QED
  BY <1>2, <1>3, <1>4

LEMMA PlanKeepsTree ==
    ASSUME TreeInv, MakePlan
    PROVE  TreeInv'
<1>1. /\ UNCHANGED vars /\ misses' = misses /\ scanned' = 0
      /\ plan' = IF RootId \in DOMAIN nodes THEN planRevokeTree(RootId) ELSE {}
      /\ nodes' = IF plan' = {} THEN NoNodes ELSE nodes
  BY DEF MakePlan
<1>2. TypeOK' /\ AuthorityInv' /\ authority' = authority
  <2>1. TypeOK'
    BY <1>1 DEF TreeInv, TreeTypeOK, TypeOK, vars, config, Registered
  <2>2. AuthorityInv'
    BY <1>1 DEF TreeInv, AuthorityInv, SpendWithinLimits, ExhaustedIffUsedUp,
                Attenuated, AuthorityIds, vars, config
  <2> QED
    BY <1>1, <2>1, <2>2 DEF vars
<1>3. CASE plan' = {}
  <2>1. nodes' = NoNodes /\ DOMAIN nodes' = {}
    BY <1>1, <1>3 DEF NoNodes
  <2>2. nodes' \in [DOMAIN nodes' -> Node]
    BY <2>1 DEF NoNodes
  <2>3. TreeTypeOK'
    BY <1>1, <1>2, <1>3, <2>1, <2>2, CallerAssumption DEF TreeInv, TreeTypeOK
  <2> QED
    BY <1>2, <1>3, <2>1, <2>3 DEF TreeInv, NodesMatch, PlanMatch
<1>4. CASE plan' # {}
  <2>1. /\ nodes' = nodes /\ RootId \in DOMAIN nodes
        /\ plan' = ActiveOf(Subtree(RootId))
    BY <1>1, <1>4 DEF planRevokeTree
  <2>2. ActiveOf(Subtree(RootId)) \subseteq Subtree(RootId)
    BY DEF ActiveOf
  <2>3. plan' \subseteq DOMAIN nodes
    BY <2>1 DEF ActiveOf, Subtree
  <2>4. TreeTypeOK'
    BY <1>1, <1>2, <2>1, <2>3, CallerAssumption DEF TreeInv, TreeTypeOK
  <2>5. Subtree(RootId)' = Subtree(RootId)
    BY <2>1 DEF Subtree, Closed, ChildrenOf
  <2>6. ActiveOf(Subtree(RootId))' = ActiveOf(Subtree(RootId))
    BY <2>1, <2>5 DEF ActiveOf
  <2>7. PlanMatch'
    BY <2>1, <2>2, <2>5, <2>6 DEF PlanMatch
  <2>8. NodesMatch'
    BY <1>2, <2>1 DEF TreeInv, NodesMatch, AuthorityIds
  <2> QED
    BY <1>2, <2>4, <2>7, <2>8 DEF TreeInv
<1> QED
  BY <1>3, <1>4

LEMMA SendKeepsTree ==
    ASSUME TreeInv, SendBatch, TypeOK', AuthorityInv', AuthorityStep
    PROVE  TreeInv'
<1>1. /\ scanned' = scanned /\ misses' = misses
      /\ nodes' = IF plan' = {} THEN NoNodes ELSE nodes
  BY DEF SendBatch
<1>2. CASE plan' = {}
  <2>1. nodes' = NoNodes /\ DOMAIN nodes' = {}
    BY <1>1, <1>2 DEF NoNodes
  <2>2. nodes' \in [DOMAIN nodes' -> Node]
    BY <2>1 DEF NoNodes
  <2>3. TreeTypeOK'
    BY <1>1, <1>2, <2>1, <2>2 DEF TreeInv, TreeTypeOK
  <2> QED
    BY <1>2, <2>1, <2>3 DEF TreeInv, NodesMatch, PlanMatch
<1>3. CASE plan' # {}
  <2>1. nodes' = nodes
    BY <1>1, <1>3
  <2>2. PICK id \in plan : /\ \A j \in plan \ {id} : Deeper(id, j)
                          /\ RevokeAuthority(Caller, id, BatchChildren(id))
                          /\ plan' = plan \ {id}
    BY <1>3 DEF SendBatch
  <2>3. TreeTypeOK'
    BY <1>1, <2>1, <2>2 DEF TreeInv, TreeTypeOK
  <2>4. ASSUME NEW i \in DOMAIN nodes
        PROVE  /\ i \in AuthorityIds'
               /\ nodes[i].parent_id = authority'[i].parent_id
               /\ nodes[i].depth = authority'[i].depth
               /\ authority[i].status # "Active" => authority'[i].status # "Active"
    <3>1. i \in AuthorityIds
      BY DEF TreeInv, NodesMatch
    <3> QED
      BY <3>1, StepKeepsPlace DEF TreeInv, TreeTypeOK, NodesMatch
  <2>5. NodesMatch'
    BY <2>1, <2>4 DEF TreeInv, NodesMatch
  <2>6. /\ Subtree(RootId)' = Subtree(RootId)
        /\ ActiveOf(Subtree(RootId))' = ActiveOf(Subtree(RootId))
    <3>1. Subtree(RootId)' = Subtree(RootId)
      BY <2>1 DEF Subtree, Closed, ChildrenOf
    <3> QED
      BY <2>1, <3>1 DEF ActiveOf
  <2>7. ASSUME NEW i \in ActiveOf(Subtree(RootId)) \ plan'
        PROVE  authority'[i].status # "Active"
    <3>1. CASE i = id
      <4>1. id \in DOMAIN nodes
        BY DEF TreeInv, TreeTypeOK
      <4>2. id \in Subtree(id)
        BY <4>1 DEF Subtree
      <4> QED
        BY <2>2, <3>1, <4>2, BatchRetiresSubtree
    <3>2. CASE i # id
      <4>1. i \in DOMAIN nodes
        BY DEF ActiveOf, Subtree
      <4> QED
        BY <2>2, <2>4, <3>2, <4>1 DEF TreeInv, PlanMatch
    <3> QED
      BY <3>1, <3>2
  <2>8. PlanMatch'
    BY <2>1, <2>2, <2>6, <2>7 DEF TreeInv, PlanMatch
  <2> QED
    BY <2>3, <2>5, <2>8 DEF TreeInv
<1> QED
  BY <1>2, <1>3

LEMMA TreeStepFacts ==
    ASSUME TreeInv, [TreeNext]_treeVars
    PROVE  [Next]_vars /\ AuthorityStep /\ TypeOK' /\ AuthorityInv'
<1>1. [Next]_vars
  BY TreeNextIsNext DEF TreeInv
<1> QED
  BY <1>1, NextIsStep, NextTypeOK, StepKeepsInv DEF TreeInv, TreeTypeOK

LEMMA TreeNextKeepsInv ==
    ASSUME TreeInv, [TreeNext]_treeVars
    PROVE  TreeInv'
<1>1. AuthorityStep /\ TypeOK' /\ AuthorityInv'
  BY TreeStepFacts
<1>2. CASE UNCHANGED call
  <2>1. NodesMatch' /\ PlanMatch'
    BY <1>1, <1>2, CoreKeepsTree
  <2>2. TreeTypeOK'
    BY <1>1, <1>2 DEF call, TreeInv, TreeTypeOK
  <2> QED
    BY <1>1, <2>1, <2>2 DEF TreeInv
<1>3. CASE ScanNext
  BY <1>3, ScanKeepsTree
<1>4. CASE MakePlan
  BY <1>4, PlanKeepsTree
<1>5. CASE SendBatch
  BY <1>1, <1>5, SendKeepsTree
<1> QED
  BY <1>2, <1>3, <1>4, <1>5 DEF TreeNext, Call, treeVars

LEMMA TreeInitInv == TreeInit => TreeInv
<1> SUFFICES ASSUME TreeInit PROVE TreeInv
  OBVIOUS
<1>1. TypeOK
  BY InitTypeOK DEF TreeInit
<1>2. AuthorityInv
  BY DEF TreeInit, Init, AuthorityInv, SpendWithinLimits, ExhaustedIffUsedUp,
         Attenuated, AuthorityIds
<1>3. DOMAIN nodes = {} /\ nodes \in [{} -> Node]
  BY DEF TreeInit, NoNodes
<1>4. 0 \in 0 .. ScanMaxId /\ 0 \in 0 .. MaxMisses
  BY CallerAssumption, LimitsAssumption
<1>5. TreeTypeOK
  BY <1>1, <1>3, <1>4 DEF TreeTypeOK, TreeInit
<1>6. NodesMatch /\ PlanMatch
  BY <1>3 DEF NodesMatch, PlanMatch, TreeInit
<1> QED
  BY <1>2, <1>5, <1>6 DEF TreeInv

\* What a call has read and what is left of its plan agree with the accounts
\* at every moment of the call.
THEOREM TreeInvariant == TreeSpec => []TreeInv
<1>1. TreeInv /\ [TreeNext]_treeVars => TreeInv'
  BY TreeNextKeepsInv
<1> QED
  BY <1>1, TreeInitInv, PTL DEF TreeSpec

\* A call never plans for an authority it has not fetched, and what it keeps
\* of a fetch is a node.
THEOREM TreeTypeCorrect == TreeSpec => []TreeTypeOK
<1>1. TreeInv => TreeTypeOK
  BY DEF TreeInv
<1> QED
  BY <1>1, TreeInvariant, PTL

\* The SDK does nothing the program does not let any agent do: every theorem
\* about the core holds while trees are revoked.
THEOREM TreeStepsAreCoreSteps == TreeSpec => Spec
<1>1. TreeInit => Init
  BY DEF TreeInit
<1>2. TreeInv /\ [TreeNext]_treeVars => [Next]_vars
  BY TreeStepFacts
<1> QED
  BY <1>1, <1>2, TreeInvariant, PTL DEF TreeSpec, Spec

\* Whatever the agent does while the call runs, and whichever fetches it
\* missed: a transaction leaves nothing Active that the call saw below the
\* authority it revokes.
THEOREM DescendantsGoFirst == TreeSpec => DescendantsFirst
<1>1. TreeInv /\ [TreeNext]_treeVars =>
        [plan # {} /\ authority' # authority =>
            \A id \in plan \ plan' :
                \A i \in Subtree(id) : authority'[i].status # "Active"]_treeVars
  <2> SUFFICES ASSUME TreeInv, [TreeNext]_treeVars, plan # {}, authority' # authority,
                      NEW id \in plan \ plan', NEW i \in Subtree(id)
               PROVE  authority'[i].status # "Active"
    OBVIOUS
  <2>1. SendBatch
    BY DEF TreeNext, Call, ScanNext, MakePlan, treeVars, vars, call
  <2>2. /\ \A j \in plan \ {id} : Deeper(id, j)
        /\ RevokeAuthority(Caller, id, BatchChildren(id))
    BY <2>1 DEF SendBatch, vars
  <2> QED
    BY <2>2, TreeStepFacts, BatchRetiresSubtree
<1> QED
  BY <1>1, TreeInvariant, PTL DEF TreeSpec, DescendantsFirst

\* A call that gets as far as its last transaction leaves nothing Active of
\* the whole tree it saw.
CompleteCallRetiresTree ==
    [][plan # {} /\ plan' = {} /\ authority' # authority =>
        \A i \in Subtree(RootId) : authority'[i].status # "Active"]_treeVars

\* The last transaction is the last for the whole tree, not for what is
\* below the authority it revokes only, although a transaction retires
\* children that have transactions of their own still to come.
THEOREM CompleteCalls == TreeSpec => CompleteCallRetiresTree
<1>1. TreeInv /\ [TreeNext]_treeVars =>
        [plan # {} /\ plan' = {} /\ authority' # authority =>
            \A i \in Subtree(RootId) : authority'[i].status # "Active"]_treeVars
  <2> SUFFICES ASSUME TreeInv, [TreeNext]_treeVars, plan # {}, plan' = {},
                      authority' # authority, NEW i \in Subtree(RootId)
               PROVE  authority'[i].status # "Active"
    OBVIOUS
  <2>1. SendBatch
    BY DEF TreeNext, Call, ScanNext, MakePlan, treeVars, vars, call
  <2>2. PICK id \in plan : /\ RevokeAuthority(Caller, id, BatchChildren(id))
                          /\ \A j \in plan \ {id} : Deeper(id, j)
                          /\ plan' = plan \ {id}
    BY <2>1 DEF SendBatch, vars
  <2>3. CASE i = id
    <3>1. id \in Subtree(id)
      BY DEF TreeInv, TreeTypeOK, Subtree
    <3> QED
      BY <2>2, <2>3, <3>1, TreeStepFacts, BatchRetiresSubtree
  <2>4. CASE i # id
    <3>1. i \in AuthorityIds /\ i \in DOMAIN nodes /\ i \notin plan
      BY <2>2, <2>4 DEF TreeInv, NodesMatch, Subtree
    <3>2. authority[i].status # "Active"
      BY <3>1 DEF TreeInv, NodesMatch, PlanMatch, ActiveOf
    <3> QED
      BY <3>1, <3>2, TreeStepFacts, StepKeepsPlace DEF TreeInv, TreeTypeOK
  <2> QED
    BY <2>3, <2>4
<1> QED
  BY <1>1, TreeInvariant, PTL DEF TreeSpec, CompleteCallRetiresTree
=============================================================================
