--------------------------- MODULE RevisionGraph ----------------------------
(***************************************************************************)
(* AlembicDiscoveryService: the revision files of a snapshot are read one  *)
(* by one into nodes and complaints, and a graph is built from them.  Only *)
(* a supported graph, one linear chain of revisions, is executed later.    *)
(*                                                                         *)
(* A file is what _parse_revision gets from its syntax tree.  Revision ids *)
(* are numbers in the order of their first appearance.                     *)
(***************************************************************************)
EXTENDS DepthFirst, SequencesExt

CONSTANT MaxFiles  \* bound of the model: nodes and complaints together

ASSUME FilesAssumption == MaxFiles \in Nat

VARIABLES
  nodes,    \* the revisions read so far, in the order of their paths
  reasons,  \* codes of the unsupported reasons so far
  graph     \* the RevisionGraphV1, once it is built

graphVars == <<nodes, reasons, graph>>

-----------------------------------------------------------------------------

(* The last number is the id of no file.                                   *)
Id == 1 .. MaxFiles + 1
NoId == 0

(* down_revision as a tuple; the order of a merge's parents is immaterial. *)
Parents == {p \in UNION {[1 .. n -> Id] : n \in 0 .. 2} :
              Len(p) = 2 => p[1] <= p[2]}

Node == [revision : 1 .. MaxFiles, parents : Parents, changed : BOOLEAN]

NoGraph == [status |-> "discovering", heads |-> {}, chain |-> <<>>,
            changed |-> {}, baseline |-> NoId, supported |-> FALSE,
            reasons |-> {}]

(* alembic.ini may name no usable script location; there are no files then. *)
GraphInit ==
  /\ nodes = <<>>
  /\ reasons \in {{}, {"UNSUPPORTED_SCRIPT_LOCATION"}}
  /\ graph = NoGraph

Discovering == graph.status = "discovering"

RoomFor(n) == Len(nodes) + Cardinality(reasons) + n <= MaxFiles

Located == "UNSUPPORTED_SCRIPT_LOCATION" \notin reasons

(* Ids appear in order.                                                    *)
Named(node) == \A m \in 1 .. node.revision - 1 :
                 \E i \in DOMAIN nodes : nodes[i].revision = m

(* A file with literal metadata is a node.  An id that is empty, or a      *)
(* label or dependency, is a complaint about it beside that.               *)
ParseRevision(node, complaints) ==
  /\ Discovering /\ Located
  /\ Named(node)
  /\ nodes' = Append(nodes, node)
  /\ reasons' = reasons \union complaints
  /\ UNCHANGED graph

Labels == {"BRANCH_LABELS_UNSUPPORTED", "REVISION_DEPENDENCY_UNSUPPORTED"}

NodeComplaints == {labels \union invalid : labels \in SUBSET Labels,
                     invalid \in {{}, {"INVALID_REVISION_METADATA"}}}

(* A file that is no Python or computes its metadata, and a changed file   *)
(* that is absent, are complaints only.  A file whose revision is a        *)
(* literal null or sequence is left out as well, and nothing says so but   *)
(* what its labels and dependencies give.                                  *)
SkipRevision(complaints) ==
  /\ Discovering /\ Located
  /\ RoomFor(Cardinality(complaints))
  /\ reasons' = reasons \union complaints
  /\ UNCHANGED <<nodes, graph>>

FileComplaints ==
  {{"INVALID_REVISION_SOURCE"}, {"CHANGED_REVISION_SOURCE_MISSING"}}
  \union {labels \union dynamic : labels \in SUBSET Labels,
            dynamic \in {{}, {"DYNAMIC_REVISION_METADATA"}}}

(* A file that is not UTF-8 ends the discovery: UnicodeDecodeError is a    *)
(* ValueError, and that is SNAPSHOT_INTEGRITY_FAILED.                      *)
RefuseFile ==
  /\ Discovering /\ Located
  /\ graph' = [NoGraph EXCEPT !.status = "failed"]
  /\ UNCHANGED <<nodes, reasons>>

-----------------------------------------------------------------------------
(* _build_graph                                                            *)

Revisions == {nodes[i].revision : i \in DOMAIN nodes}

Holding(r) == {i \in DOMAIN nodes : nodes[i].revision = r}

(* The keys of by_id, and its values.                                      *)
Unique == {r \in Revisions : \A i, j \in Holding(r) : i = j}
NodeOf(r) == nodes[CHOOSE i \in Holding(r) : TRUE]

AllParents == UNION {ToSet(nodes[i].parents) : i \in DOMAIN nodes}

(* The heads, by their places among the nodes.                             *)
Heads == {i \in DOMAIN nodes : nodes[i].revision \notin AllParents}

HasRevisionCycle ==
  HasCycle([r \in Id |-> IF r \in Unique THEN NodeOf(r).parents ELSE <<>>],
           [i \in DOMAIN nodes |-> nodes[i].revision])

OnlyParent(r) == IF Len(NodeOf(r).parents) = 1 THEN NodeOf(r).parents[1] ELSE NoId

(* The loop that follows the parents from a head on, after n rounds.  The  *)
(* last round finds no revision, or one that the chain has.                *)
Walk(head) ==
  LET walked[n \in 0 .. Len(nodes) + 1] ==
        IF n = 0 THEN [current |-> head, chain |-> <<>>, cyclic |-> FALSE]
        ELSE LET w == walked[n - 1] IN
             IF w.current \notin Unique THEN w
             ELSE IF w.current \in ToSet(w.chain) THEN [w EXCEPT !.cyclic = TRUE]
             ELSE [w EXCEPT !.current = OnlyParent(w.current),
                            !.chain = <<w.current>> \o @]
  IN walked[Len(nodes) + 1]

Target == IF \E i \in DOMAIN nodes : Heads = {i}
          THEN Walk(nodes[CHOOSE i \in DOMAIN nodes : Heads = {i}].revision)
          ELSE [current |-> NoId, chain |-> <<>>, cyclic |-> FALSE]

Changed == {nodes[i].revision : i \in {j \in DOMAIN nodes : nodes[j].changed}}

(* The places of the changed revisions in the chain.                       *)
Positions == {i \in DOMAIN Target.chain : Target.chain[i] \in Changed}

OrderedChanged == {Target.chain[i] : i \in Positions}

ChangedAreLinear ==
  /\ OrderedChanged = Changed
  /\ \A i, j \in Positions : i .. j \subseteq Positions

(* Fault: the parent of the last changed revision.                         *)
ParentOfLast ==
  IF Positions = {} THEN NoId
  ELSE OnlyParent(Target.chain[CHOOSE i \in Positions : \A j \in Positions : i >= j])

Baseline ==
  IF Positions = {} THEN NoId
  ELSE OnlyParent(Target.chain[CHOOSE i \in Positions : \A j \in Positions : i <= j])

Reason(condition, code) == IF condition THEN {code} ELSE {}

Structure ==
  Reason(Unique # Revisions, "DUPLICATE_REVISION_ID")
  \union Reason(\E i \in DOMAIN nodes : Len(nodes[i].parents) > 1,
            "MERGE_REVISION_UNSUPPORTED")
  \union Reason(~ (AllParents \subseteq Unique), "MISSING_REVISION_PARENT")
  \union Reason(HasRevisionCycle \/ Target.cyclic, "REVISION_CYCLE")
  \union Reason(\E i, j \in Heads : i # j, "MULTIPLE_REVISION_HEADS")
  \union Reason((\E i \in Heads : Heads = {i}) /\ ToSet(Target.chain) # Unique,
            "DISCONNECTED_REVISION_GRAPH")
  \union Reason(Changed # {} /\ ~ ChangedAreLinear, "CHANGED_REVISIONS_NOT_LINEAR")

AllReasons ==
  LET found == reasons \union Structure IN
  found \union Reason(nodes = <<>> /\ found = {}, "NO_REVISIONS_FOUND")

BuildGraph ==
  /\ Discovering
  /\ graph' = [status |-> "built", heads |-> Heads, chain |-> Target.chain,
               changed |-> OrderedChanged, baseline |-> Baseline,
               supported |-> AllReasons = {} /\ nodes # <<>>,
               reasons |-> AllReasons]
  /\ UNCHANGED <<nodes, reasons>>

Discover ==
  \/ \E complaints \in NodeComplaints :
       /\ RoomFor(1 + Cardinality(complaints))
       /\ \E node \in Node : ParseRevision(node, complaints)
  \/ \E complaints \in FileComplaints : SkipRevision(complaints)
  \/ RefuseFile
  \/ BuildGraph

GraphSpec == GraphInit /\ [][Discover]_graphVars

-----------------------------------------------------------------------------

Built == graph.status = "built"

(* The orders of the nodes in which each follows its only parent, and the  *)
(* changed ones follow each other.                                         *)
LinearOrders ==
  {p \in [DOMAIN nodes -> DOMAIN nodes] :
     /\ \A i, j \in DOMAIN nodes : i # j => p[i] # p[j]
     /\ \A i, j \in DOMAIN nodes :
          i # j => nodes[p[i]].revision # nodes[p[j]].revision
     /\ \A i \in DOMAIN nodes :
          nodes[p[i]].parents =
            IF i = 1 THEN <<>> ELSE <<nodes[p[i - 1]].revision>>
     /\ \A i, j, k \in DOMAIN nodes :
          i < j /\ j < k /\ nodes[p[i]].changed /\ nodes[p[k]].changed
            => nodes[p[j]].changed}

(* A graph is supported exactly if its revisions are one linear history in *)
(* which the changes are contiguous, and nothing was complained about;     *)
(* target_chain is that history and its end the only head.                 *)
SupportedIsLinear ==
  Built =>
    /\ graph.supported <=> nodes # <<>> /\ reasons = {} /\ LinearOrders # {}
    /\ graph.supported =>
         \E p \in LinearOrders :
           /\ graph.heads = {p[Len(nodes)]}
           /\ graph.chain = [i \in DOMAIN nodes |-> nodes[p[i]].revision]

(* What is executed from the baseline up to the target includes every      *)
(* changed revision, and the database at the baseline has none of them.    *)
ChangesAboveBaseline ==
  Built /\ graph.supported =>
    LET start == {i \in DOMAIN graph.chain : graph.chain[i] = graph.baseline} IN
    /\ start = {} => graph.baseline = NoId
    /\ \A i \in DOMAIN graph.chain :
         graph.chain[i] \in Changed => \A s \in start : s < i
    /\ Changed # {} /\ start = {} => graph.chain[1] \in Changed
    /\ \A s \in start : graph.chain[s + 1] \in Changed
=============================================================================
