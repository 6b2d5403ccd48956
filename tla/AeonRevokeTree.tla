--------------------------- MODULE AeonRevokeTree ---------------------------
(***************************************************************************)
(* The SDK's revocation of a whole delegation tree: scanAuthorities reads  *)
(* the authorities one after the other, planRevokeTree orders those it saw *)
(* deepest first, and revokeTree sends one revoke_authority for each that  *)
(* was Active, until one fails.  All the while the agent issues, spends    *)
(* and revokes elsewhere.  A caller whose tree is not down calls again.    *)
(***************************************************************************)
EXTENDS AeonAuthority

CONSTANTS
    Caller,    \* the agent that revokes
    RootId,    \* the authority at the root of its tree
    ScanMaxId, \* the last id scanned, chosen by the caller (an example: RootId + 16)
    MaxMisses  \* bound of the fetches that fail though the account exists

ASSUME CallerAssumption ==
    /\ Caller \in Agents
    /\ ScanMaxId \in 1 .. MaxAuthorities /\ RootId \in 1 .. ScanMaxId
    /\ MaxMisses \in Nat

VARIABLES
    scanned,   \* the last id fetched, while the call scans
    nodes,     \* the AuthorityNode of each id fetched
    plan,      \* the ids of the RevokeBatches still to send, while it revokes
    misses

call == <<scanned, nodes, plan, misses>>
treeVars == <<vars, call>>

Node == [parent_id : 0 .. MaxAuthorities, depth : 0 .. MAX_AUTHORITY_DEPTH,
         status : AuthorityStatus]

TreeTypeOK ==
    /\ TypeOK
    /\ scanned \in 0 .. ScanMaxId
    /\ DOMAIN nodes \subseteq 1 .. ScanMaxId /\ nodes \in [DOMAIN nodes -> Node]
    /\ plan \subseteq DOMAIN nodes
    /\ misses \in 0 .. MaxMisses

NoNodes == [i \in {} |-> 0]

TreeInit == Init /\ scanned = 0 /\ nodes = NoNodes /\ plan = {} /\ misses = 0

(***************************************************************************)
(* planRevokeTree                                                          *)
(***************************************************************************)
ChildrenOf(id) == {i \in DOMAIN nodes : nodes[i].parent_id = id}

Closed(ids) == \A i \in ids : ChildrenOf(i) \subseteq ids

\* What the search from id along childrenOf gets to see.
Subtree(id) ==
    {i \in DOMAIN nodes :
        \A seen \in SUBSET DOMAIN nodes : id \in seen /\ Closed(seen) => i \in seen}

ActiveOf(ids) == {i \in ids : nodes[i].status = "Active"}

planRevokeTree_ParentMutant(root) == {nodes[i].parent_id : i \in ActiveOf(Subtree(root))}
planRevokeTree_Mutant(root) ==
    IF nodes[root].status = "Active" THEN ActiveOf(Subtree(root)) ELSE {}

\* A batch is known by its id: its children follow from the nodes.
planRevokeTree(root) == ActiveOf(Subtree(root))

BatchChildren(id) == ActiveOf(ChildrenOf(id))

Deeper_Mutant(i, j) == nodes[i].depth < nodes[j].depth

\* The order of the batches.
Deeper(i, j) ==
    \/ nodes[i].depth > nodes[j].depth
    \/ nodes[i].depth = nodes[j].depth /\ i > j

(***************************************************************************)
(* A call                                                                  *)
(***************************************************************************)
\* One fetch of scanAuthorities, which skips the accounts it cannot read and
\* those of other agents.
ScanNext ==
    LET id == scanned + 1
    IN  /\ plan = {}
        /\ scanned < ScanMaxId
        /\ scanned' = id
        /\ IF id \in AuthorityIds /\ authority[id].agent = Caller
           THEN \/ /\ nodes' = Added(nodes, id,
                        [parent_id |-> authority[id].parent_id,
                         depth |-> authority[id].depth,
                         status |-> authority[id].status])
                   /\ misses' = misses
                \/ misses < MaxMisses /\ misses' = misses + 1 /\ nodes' = nodes
           ELSE UNCHANGED <<nodes, misses>>
        /\ UNCHANGED <<vars, plan>>

\* The scan is complete.  A plan for a root that was not read throws.
MakePlan ==
    /\ scanned = ScanMaxId
    /\ scanned' = 0
    /\ plan' = IF RootId \in DOMAIN nodes THEN planRevokeTree(RootId) ELSE {}
    /\ nodes' = IF plan' = {} THEN NoNodes ELSE nodes
    /\ UNCHANGED <<vars, misses>>

\* The first transaction that fails ends the call.
SendBatch ==
    /\ \E id \in plan :
        /\ \A j \in plan \ {id} : Deeper(id, j)
        /\ \/ /\ RevokeAuthority(Caller, id, BatchChildren(id))
              /\ plan' = plan \ {id}
           \/ /\ ~MayRevoke(Caller, id, BatchChildren(id))
              /\ plan' = {}
              /\ UNCHANGED vars
    /\ nodes' = IF plan' = {} THEN NoNodes ELSE nodes
    /\ UNCHANGED <<scanned, misses>>

Call == ScanNext \/ MakePlan \/ SendBatch

TreeNext == (Next /\ UNCHANGED call) \/ Call

\* The caller calls again as soon as a call has ended.
TreeSpec == TreeInit /\ [][TreeNext]_treeVars /\ WF_treeVars(Call)
-----------------------------------------------------------------------------
Descendants(id) == {i \in AuthorityIds : id \in Ancestors(i)}

\* A transaction of the call that revokes an authority leaves nothing Active
\* that the call saw below it, although a transaction in between failed, an
\* authority was retired by somebody else or was skipped as retired already.
DescendantsFirst ==
    [][plan # {} /\ authority' # authority =>
        \A id \in plan \ plan' :
            \A i \in Subtree(id) : authority'[i].status # "Active"]_treeVars

\* The part of the root's tree that a scan gets to: ids that the other agents
\* and the caller took first may push a descendant past ScanMaxId.
TreeWithinScan == {i \in {RootId} \cup Descendants(RootId) : i <= ScanMaxId}

\* Calling again is enough for the ids up to ScanMaxId: whatever was issued
\* there under the root after it was scanned, was missed by a fetch, or was
\* left when a call failed half way, is retired for good in the end,
\* descendants past the scan notwithstanding, which no call ever sees.
TreeComesDown ==
    <>[](RootId \in AuthorityIds /\ authority[RootId].agent = Caller =>
            \A i \in TreeWithinScan : authority[i].status # "Active")
=============================================================================
