---------------------------- MODULE StaticRules ----------------------------
(***************************************************************************)
(* StaticAuditService.analyze and StaticRuleEngine: what the report of a   *)
(* run says of the migrations its snapshot changes, from their syntax      *)
(* trees alone.                                                            *)
(*                                                                         *)
(* A revision is what the rules tell apart: the calls on "op" in upgrade(),*)
(* in the order of the file, and what downgrade() is.  An upgrade() that   *)
(* is not there has no calls.  A computed argument is one that is no       *)
(* literal.  Sources that do not parse are no nodes of the graph.          *)
(***************************************************************************)
EXTENDS Naturals, Sequences, FiniteSets

CONSTANTS
  MaxOperations,  \* bound of the model: calls in all revisions
  MaxReasons      \* bound of the model: unsupported reasons of a graph

VARIABLES
  nodes,      \* the revisions of the graph, ordered by path
  structure,  \* its unsupported reasons: the node each names, 0 for none
  report      \* the static report, or NoReport

ruleVars == <<nodes, structure, report>>

-----------------------------------------------------------------------------

Operation ==
  [call : {"drop", "other"}] \union
  [call : {"execute"}, sql : {"drop", "literal", "computed"}] \union
  [call : {"add_column"},
   column : {"computed", "nullable", "required", "required_with_default"}] \union
  [call : {"create_index"}, concurrently : {"absent", "true", "false", "computed"}]

Downgrades == {"absent", "pass", "raises", "other"}

Calls(n) == UNION {[1 .. m -> Operation] : m \in 0 .. n}

RevisionNode(n) ==
  [changed : BOOLEAN, upgrade : Calls(n), downgrade : Downgrades]

Severities == <<"INFO", "LOW", "MEDIUM", "HIGH">>
Rank(severity) == CHOOSE i \in 1 .. 4 : Severities[i] = severity

NoReport == [findings |-> <<>>, risk |-> "none"]

ASSUME RulesAssumption == MaxOperations \in Nat /\ MaxReasons \in Nat

NodesInit ==
  /\ \E m \in 0 .. MaxOperations :
       nodes \in RevisionNode(m) \X RevisionNode(MaxOperations - m)
  /\ \E m \in 0 .. MaxReasons : structure \in [1 .. m -> 0 .. 2]

RulesInit == NodesInit /\ report = NoReport

-----------------------------------------------------------------------------

(* The entry is the place of a reason among the reasons, 0 for the rules.  *)
Finding(rule, severity, path, line, entry) ==
  [rule |-> rule, severity |-> severity, path |-> path, line |-> line, entry |-> entry]

(* A call is on the line after the one before it; line 1 is the def.       *)
DestructiveDdl(path, calls) ==
  {Finding("SOPS001", "HIGH", path, i + 1, 0) : i \in {j \in DOMAIN calls :
     \/ calls[j].call = "drop"
     \/ calls[j].call = "execute" /\ calls[j].sql = "drop"}}

DirectNotNull(path, calls) ==
  {Finding("SOPS002",
           IF calls[i].column = "required" THEN "HIGH" ELSE "MEDIUM", path, i + 1, 0) :
     i \in {j \in DOMAIN calls :
       /\ calls[j].call = "add_column"
       /\ calls[j].column \in {"required", "required_with_default"}}}

NonConcurrentIndex(path, calls) ==
  {Finding("SOPS003", "MEDIUM", path, i + 1, 0) : i \in {j \in DOMAIN calls :
     /\ calls[j].call = "create_index"
     /\ calls[j].concurrently \in {"absent", "false"}}}

(* A downgrade() that is not there is reported at the top of the file.     *)
IrreversibleDowngrade(path, node) ==
  IF node.downgrade = "other" THEN {}
  ELSE {Finding("SOPS004", "HIGH", path,
                IF node.downgrade = "absent" THEN 1 ELSE Len(node.upgrade) + 2, 0)}

Evaluate(path, node) ==
  DestructiveDdl(path, node.upgrade) \union DirectNotNull(path, node.upgrade)
    \union NonConcurrentIndex(path, node.upgrade)
    \union IrreversibleDowngrade(path, node)

(* Each reason is one finding, on the first line of the node it names.     *)
StructuralFindings ==
  {Finding("STRUCTURE", "HIGH", structure[i], 1, i) : i \in DOMAIN structure}

ContentFindings ==
  UNION {Evaluate(i, nodes[i]) : i \in {j \in DOMAIN nodes : nodes[j].changed}}

(* The place of a finding.  In one place "STRUCTURE" is after the rules,   *)
(* and reasons keep their order, because the sort is stable.               *)
Above(f, g) ==
  \/ f.path < g.path
  \/ f.path = g.path /\ f.line < g.line
  \/ f.path = g.path /\ f.line = g.line /\ f.entry < g.entry

(* Fault: the most severe findings come last.                              *)
BeforeAscending(f, g) ==
  \/ Rank(f.severity) < Rank(g.severity)
  \/ Rank(f.severity) = Rank(g.severity) /\ Above(f, g)

(* The order of the sort.                                                  *)
Before(f, g) ==
  \/ Rank(f.severity) > Rank(g.severity)
  \/ Rank(f.severity) = Rank(g.severity) /\ Above(f, g)

(* The i-th finding is the one that comes after i - 1 others.              *)
Sorted(found) ==
  [i \in 1 .. Cardinality(found) |->
     CHOOSE f \in found : Cardinality({g \in found : Before(g, f)}) = i - 1]

Risk(found) ==
  IF found = {} THEN "INFO"
  ELSE (CHOOSE f \in found :
          \A g \in found : Rank(f.severity) >= Rank(g.severity)).severity

Analyze ==
  LET found == ContentFindings \union StructuralFindings IN
  /\ report = NoReport
  /\ report' = [findings |-> Sorted(found), risk |-> Risk(found)]
  /\ UNCHANGED <<nodes, structure>>

RulesSpec == RulesInit /\ [][Analyze]_ruleVars

-----------------------------------------------------------------------------

(* Section 11 of the design of M2: what makes a changed revision HIGH.     *)
Dangerous(node) ==
  \/ node.downgrade \in {"absent", "pass", "raises"}
  \/ \E i \in DOMAIN node.upgrade :
       \/ node.upgrade[i] \in [call : {"drop"}]
       \/ node.upgrade[i] \in [call : {"execute"}, sql : {"drop"}]
       \/ node.upgrade[i] \in [call : {"add_column"}, column : {"required"}]

(* The risk of a report is the severity of its first finding, no later one *)
(* is more severe, and it is HIGH exactly if a changed revision destroys,  *)
(* cannot be undone or adds a required column, or the graph is ambiguous:  *)
(* an unchanged revision and a computed argument never raise it.           *)
RiskIsJustified ==
  report # NoReport =>
    /\ report.risk = IF report.findings = <<>> THEN "INFO"
                     ELSE report.findings[1].severity
    /\ \A i \in DOMAIN report.findings :
         Rank(report.findings[i].severity) <= Rank(report.risk)
    /\ report.risk = "HIGH" <=>
         \/ structure # <<>>
         \/ \E i \in DOMAIN nodes : nodes[i].changed /\ Dangerous(nodes[i])
=============================================================================
