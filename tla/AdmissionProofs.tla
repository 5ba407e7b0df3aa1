-------------------------- MODULE AdmissionProofs ---------------------------
(***************************************************************************)
(* What a run begins with: RunService.create makes one run per key and     *)
(* answers consistently, for any number of clients, keys, requests and     *)
(* tries; of any revision files, exactly those of one linear history are a *)
(* supported graph, whose baseline lies below every change; and of any     *)
(* steps, exactly those are an accepted plan that can be executed in the   *)
(* catalog's order and in no other.                                        *)
(***************************************************************************)
EXTENDS RunCreation, RevisionGraph, PlanValidator, SequenceTheorems,
        FiniteSetTheorems, Intervals, TLAPS

-----------------------------------------------------------------------------
(* The request (RunCreation).                                              *)

(* A transaction holds a row exactly between its insert and its end, and   *)
(* the row that made an insert give way is committed.                      *)
TransactionInv ==
  \A c \in Client :
    /\ written[c] = IF stage[c] = "commit" THEN {NewRow(c)} ELSE {}
    /\ stage[c] = "reread" => Under(asked[c].key) # {}

CreationInv == CreationTypeOK /\ TransactionInv /\ OneRunPerKey /\ AnswersAgree

LEMMA InitCreationInv == CreationInit => CreationInv
  BY TriesAssumption
  DEF CreationInit, CreationInv, CreationTypeOK, TransactionInv, OneRunPerKey,
      AnswersAgree, Stages

(* The row of a request is a row.                                          *)
LEMMA NewRowType ==
  ASSUME CreationTypeOK, NEW c \in Client
  PROVE  NewRow(c) \in Row /\ NewRow(c).key = asked[c].key
                           /\ NewRow(c).body = asked[c].body
  BY DEF CreationTypeOK, NewRow, Row, RunId, Request

(* An answer stays right while runs are only added.                        *)
LEMMA AnswersKept ==
  ASSUME AnswersAgree, runs \subseteq runs',
         NEW more, answers' = answers \union more,
         \A a \in more :
           \E r \in runs' : /\ r.key = a.to.key
                           /\ a.row = IF r.body = a.to.body THEN {r} ELSE {},
         \A c \in Client : stage'[c] # "broken"
  PROVE  AnswersAgree'
<1>1. ASSUME NEW a \in answers'
      PROVE  \E r \in runs' : /\ r.key = a.to.key
                             /\ a.row = IF r.body = a.to.body THEN {r} ELSE {}
  <2>1. CASE a \in answers
    <3>1. PICK r \in runs : /\ r.key = a.to.key
                           /\ a.row = IF r.body = a.to.body THEN {r} ELSE {}
      BY <2>1 DEF AnswersAgree
    <3> QED
      BY <3>1
  <2>2. CASE a \in more
    BY <2>2
  <2> QED
    BY <2>1, <2>2
<1> QED
  BY <1>1 DEF AnswersAgree

(* A step that answers nothing and does not break off.                     *)
LEMMA NothingAnswered ==
  ASSUME CreationInv, NEW c \in Client, NEW next \in Stages \ {"broken"},
         stage' = [stage EXCEPT ![c] = next], UNCHANGED <<runs, answers>>
  PROVE  AnswersAgree'
<1>1. \A d \in Client : stage'[d] # "broken"
  BY DEF CreationInv, CreationTypeOK, AnswersAgree
<1> QED
  BY <1>1, AnswersKept DEF CreationInv

(* What a transaction answers with a committed row keeps the invariant.    *)
LEMMA ReplayStep ==
  ASSUME CreationInv, NEW c \in Client, NEW row \in Under(asked[c].key),
         stage[c] \in {"lookup", "reread"},
         Replay(c, row), UNCHANGED <<runs, written>>
  PROVE  CreationInv'
<1>1. row \in runs /\ row \in Row /\ row.key = asked[c].key
  BY DEF CreationInv, CreationTypeOK, Under
<1>2. asked[c] \in Request
  BY DEF CreationInv, CreationTypeOK
<1> DEFINE made == IF row.body = asked[c].body THEN {row} ELSE {}
<1>3. answers' = answers \union {[to |-> asked[c], row |-> made]}
  BY DEF Replay, Reply
<1>4. [to |-> asked[c], row |-> made] \in Answer
  BY <1>1, <1>2 DEF Answer
<1>5. CreationTypeOK'
  BY <1>3, <1>4 DEF CreationInv, CreationTypeOK, Replay, Reply, Stages
<1>6. TransactionInv'
  BY DEF CreationInv, CreationTypeOK, TransactionInv, Replay, Reply, Under,
         NewRow
<1>7. OneRunPerKey'
  BY DEF CreationInv, OneRunPerKey
<1>8. \A d \in Client : stage'[d] # "broken"
  BY DEF CreationInv, CreationTypeOK, AnswersAgree, Replay, Reply
<1> DEFINE more == {[to |-> asked[c], row |-> made]}
<1>9. \A a \in more :
        \E r \in runs' : /\ r.key = a.to.key
                        /\ a.row = IF r.body = a.to.body THEN {r} ELSE {}
  BY <1>1
<1>10. answers' = answers \union more /\ runs \subseteq runs' /\ AnswersAgree
  BY <1>3 DEF CreationInv
<1> HIDE DEF more
<1>11. AnswersAgree'
  BY <1>8, <1>9, <1>10, AnswersKept
<1> QED
  BY <1>5, <1>6, <1>7, <1>11 DEF CreationInv

LEMMA AskStep ==
  ASSUME CreationInv, NEW c \in Client, NEW request \in Request,
         Ask(c, request)
  PROVE  CreationInv'
<1>1. CreationTypeOK'
  BY TriesAssumption DEF CreationInv, CreationTypeOK, Ask, Stages
<1>2. TransactionInv'
  BY DEF CreationInv, CreationTypeOK, TransactionInv, Ask, Under, NewRow
<1>3. OneRunPerKey'
  BY DEF CreationInv, OneRunPerKey, Ask
<1>4. AnswersAgree'
  BY NothingAnswered DEF Ask, Stages
<1> QED
  BY <1>1, <1>2, <1>3, <1>4 DEF CreationInv

LEMMA LookupStep ==
  ASSUME CreationInv, NEW c \in Client, Lookup(c)
  PROVE  CreationInv'
<1>1. CASE Under(asked[c].key) = {}
  <2>1. Advance(c, "insert") /\ UNCHANGED <<runs, written>>
    BY <1>1 DEF Lookup
  <2>2. CreationTypeOK'
    BY <2>1 DEF CreationInv, CreationTypeOK, Advance, Stages
  <2>3. TransactionInv'
    BY <2>1 DEF CreationInv, CreationTypeOK, TransactionInv, Advance, Lookup,
                Under, NewRow
  <2>4. OneRunPerKey'
    BY <2>1 DEF CreationInv, OneRunPerKey
  <2>5. AnswersAgree'
    BY <2>1, NothingAnswered DEF Advance, Stages
  <2> QED
    BY <2>2, <2>3, <2>4, <2>5 DEF CreationInv
<1>2. CASE Under(asked[c].key) # {}
  BY <1>2, ReplayStep DEF Lookup
<1> QED
  BY <1>1, <1>2

(* An insert that gives way met a committed row; one that does not is the  *)
(* only row of its key, because it waited for the uncommitted ones.        *)
LEMMA InsertStep ==
  ASSUME CreationInv, NEW c \in Client, Insert(c)
  PROVE  CreationInv'
<1>1. CASE Under(asked[c].key) = {}
  <2>1. /\ written' = [written EXCEPT ![c] = {NewRow(c)}]
        /\ Advance(c, "commit") /\ UNCHANGED runs
    BY <1>1 DEF Insert
  <2>2. CreationTypeOK'
    BY <2>1, NewRowType DEF CreationInv, CreationTypeOK, Advance, Stages
  <2>3. TransactionInv'
    BY <2>1 DEF CreationInv, CreationTypeOK, TransactionInv, Advance, Under,
                NewRow
  <2>4. \A r \in runs \union UNION {written[d] : d \in Client \ {c}} :
          r.key # NewRow(c).key
    BY <1>1, NewRowType DEF CreationInv, Insert, Under
  <2>5. (runs \union UNION {written[d] : d \in Client})'
          \subseteq (runs \union UNION {written[d] : d \in Client \ {c}})
                      \union {NewRow(c)}
    BY <2>1 DEF CreationInv, CreationTypeOK
  <2>6. OneRunPerKey'
    BY <2>4, <2>5 DEF CreationInv, OneRunPerKey
  <2>7. AnswersAgree'
    BY <2>1, NothingAnswered DEF Advance, Stages
  <2> QED
    BY <2>2, <2>3, <2>6, <2>7 DEF CreationInv
<1>2. CASE Under(asked[c].key) # {}
  <2>1. UNCHANGED <<runs, written>> /\ Advance(c, "reread")
    BY <1>2 DEF Insert
  <2>2. CreationTypeOK'
    BY <2>1 DEF CreationInv, CreationTypeOK, Advance, Stages
  <2>3. TransactionInv'
    BY <1>2, <2>1 DEF CreationInv, CreationTypeOK, TransactionInv, Advance,
                      Insert, Under, NewRow
  <2>4. OneRunPerKey'
    BY <2>1 DEF CreationInv, OneRunPerKey
  <2>5. AnswersAgree'
    BY <2>1, NothingAnswered DEF Advance, Stages
  <2> QED
    BY <2>2, <2>3, <2>4, <2>5 DEF CreationInv
<1> QED
  BY <1>1, <1>2

(* The row that was in the way is still there: create never breaks off.    *)
LEMMA RereadStep ==
  ASSUME CreationInv, NEW c \in Client, Reread(c)
  PROVE  CreationInv'
<1>1. Under(asked[c].key) # {}
  BY DEF CreationInv, TransactionInv, Reread
<1> QED
  BY <1>1, ReplayStep DEF Reread

LEMMA CommitStep ==
  ASSUME CreationInv, NEW c \in Client, Commit(c)
  PROVE  CreationInv'
<1>1. written[c] = {NewRow(c)} /\ NewRow(c) \in Row
  BY NewRowType DEF CreationInv, TransactionInv, Commit
<1>2. /\ runs' = runs \union {NewRow(c)}
      /\ written' = [written EXCEPT ![c] = {}]
      /\ answers' = answers \union {[to |-> asked[c], row |-> {NewRow(c)}]}
      /\ stage' = [stage EXCEPT ![c] = "idle"]
      /\ UNCHANGED <<asked, tries>>
  BY <1>1 DEF Commit, Reply
<1>3. [to |-> asked[c], row |-> {NewRow(c)}] \in Answer
  BY <1>1 DEF Answer, CreationInv, CreationTypeOK
<1>4. CreationTypeOK'
  BY <1>1, <1>2, <1>3 DEF CreationInv, CreationTypeOK, Stages
<1>5. TransactionInv'
  BY <1>2 DEF CreationInv, CreationTypeOK, TransactionInv, Under, NewRow
<1>6. (runs \union UNION {written[d] : d \in Client})'
        \subseteq runs \union UNION {written[d] : d \in Client}
  BY <1>1, <1>2 DEF CreationInv, CreationTypeOK
<1>7. OneRunPerKey'
  BY <1>6 DEF CreationInv, OneRunPerKey
<1>8. \A d \in Client : stage'[d] # "broken"
  BY <1>2 DEF CreationInv, CreationTypeOK, AnswersAgree
<1> DEFINE more == {[to |-> asked[c], row |-> {NewRow(c)}]}
<1>9. \A a \in more :
        \E r \in runs' : /\ r.key = a.to.key
                        /\ a.row = IF r.body = a.to.body THEN {r} ELSE {}
  BY <1>2, NewRowType DEF CreationInv
<1>10. answers' = answers \union more /\ runs \subseteq runs' /\ AnswersAgree
  BY <1>2 DEF CreationInv
<1> HIDE DEF more
<1>11. AnswersAgree'
  BY <1>8, <1>9, <1>10, AnswersKept
<1> QED
  BY <1>4, <1>5, <1>7, <1>11 DEF CreationInv

LEMMA RollbackStep ==
  ASSUME CreationInv, NEW c \in Client, Rollback(c)
  PROVE  CreationInv'
<1>1. CreationTypeOK'
  BY DEF CreationInv, CreationTypeOK, Rollback, Advance, Stages
<1>2. TransactionInv'
  BY DEF CreationInv, CreationTypeOK, TransactionInv, Rollback, Advance, Under,
         NewRow
<1>3. (runs \union UNION {written[d] : d \in Client})'
        \subseteq runs \union UNION {written[d] : d \in Client}
  BY DEF CreationInv, CreationTypeOK, Rollback
<1>4. OneRunPerKey'
  BY <1>3 DEF CreationInv, OneRunPerKey
<1>5. AnswersAgree'
  BY NothingAnswered DEF Rollback, Advance, Stages
<1> QED
  BY <1>1, <1>2, <1>4, <1>5 DEF CreationInv

(* Every step of create keeps the invariant.                               *)
LEMMA CreationStep == CreationInv /\ [Create]_creationVars => CreationInv'
<1> SUFFICES ASSUME CreationInv, [Create]_creationVars PROVE CreationInv'
  OBVIOUS
<1>1. ASSUME NEW c \in Client, Serve(c) PROVE CreationInv'
  BY <1>1, AskStep, LookupStep, InsertStep, RereadStep, CommitStep, RollbackStep
  DEF Serve
<1>2. CASE UNCHANGED creationVars
  <2>1. CreationTypeOK' /\ TransactionInv'
    BY <1>2 DEF creationVars, CreationInv, CreationTypeOK, TransactionInv,
                Under, NewRow
  <2>2. OneRunPerKey'
    BY <1>2 DEF creationVars, CreationInv, OneRunPerKey
  <2>3. AnswersAgree'
    BY <1>2, AnswersKept DEF creationVars, CreationInv, AnswersAgree
  <2> QED
    BY <2>1, <2>2, <2>3 DEF CreationInv
<1> QED
  BY <1>1, <1>2 DEF Create

(* RunService.create: transactions, rows and answers stay consistent.      *)
THEOREM CreationInvariance == CreationSpec => []CreationInv
<1> QED
  BY InitCreationInv, CreationStep, PTL DEF CreationSpec

(* Duplicate and concurrent requests never make a second run for a key.    *)
THEOREM OneRun == CreationSpec => []OneRunPerKey
<1>1. CreationInv => OneRunPerKey
  BY DEF CreationInv
<1> QED
  BY <1>1, CreationInvariance, PTL

(* Every replay is answered with the run of its key, or with a conflict if *)
(* another request made it, and the RuntimeError of create never happens.  *)
THEOREM ReplaysAgree == CreationSpec => []AnswersAgree
<1>1. CreationInv => AnswersAgree
  BY DEF CreationInv
<1> QED
  BY <1>1, CreationInvariance, PTL

-----------------------------------------------------------------------------
(* The depth-first search (DepthFirst).                                    *)

Outcome(V) == [cyclic : BOOLEAN, done : SUBSET V]

LEMMA CallType ==
  ASSUME NEW V, NEW v \in V, NEW a \in SUBSET V, NEW d \in SUBSET V
  PROVE  [node |-> v, active |-> a, done |-> d] \in Call(V)
BY DEF Call

(* What VisitEach has found after each node, and in the end.               *)
Finds(found, visit, vs, active, done) ==
  /\ found[0] = [cyclic |-> FALSE, done |-> done]
  /\ \A n \in 1 .. Len(vs) :
       found[n] = IF found[n - 1].cyclic THEN found[n - 1]
                  ELSE visit[[node |-> vs[n], active |-> active,
                              done |-> found[n - 1].done]]
  /\ VisitEach(visit, vs, active, done) = found[Len(vs)]

LEMMA VisitEachIs ==
  ASSUME NEW V, NEW visit \in [Call(V) -> Outcome(V)], NEW vs \in Seq(V),
         NEW active \in SUBSET V, NEW done \in SUBSET V
  PROVE  /\ VisitEach(visit, vs, active, done) \in Outcome(V)
         /\ \E found \in [0 .. Len(vs) -> Outcome(V)] :
              Finds(found, visit, vs, active, done)
<1> DEFINE m == Len(vs)
           start == [cyclic |-> FALSE, done |-> done]
           Goes(n, o) == IF o.cyclic THEN o
                         ELSE visit[[node |-> vs[n], active |-> active, done |-> o.done]]
           step == [n \in 1 .. m |-> [o \in Outcome(V) |-> Goes(n, o)]]
           body(f) == [n \in 0 .. m |-> IF n = 0 THEN start ELSE Goes(n, f[n - 1])]
           found == CHOOSE f : f = body(f)
<1>1. m \in Nat /\ start \in Outcome(V)
  BY DEF Outcome
<1>2. ASSUME NEW n \in 1 .. m, NEW o \in Outcome(V) PROVE Goes(n, o) \in Outcome(V)
  <2>1. vs[n] \in V /\ o.done \in SUBSET V
    BY DEF Outcome
  <2>2. [node |-> vs[n], active |-> active, done |-> o.done] \in Call(V)
    BY <2>1, CallType
  <2> QED
    BY <2>2
<1>3. step \in [1 .. m -> [Outcome(V) -> Outcome(V)]]
  BY <1>2
<1>4. PICK f \in [0 .. m -> Outcome(V)] : Recursive(f, m, start, step)
  <2> HIDE DEF step, start, m
  <2> QED
    BY <1>1, <1>3, RecursionExists
<1>5. f = body(f)
  <2>1. ASSUME NEW n \in 0 .. m, n # 0 PROVE step[n][f[n - 1]] = Goes(n, f[n - 1])
    <3>1. n \in 1 .. m /\ n - 1 \in 0 .. m
      BY <1>1, <2>1
    <3>2. f[n - 1] \in Outcome(V)
      BY <3>1
    <3> HIDE DEF Goes
    <3> QED
      BY <3>1, <3>2
  <2> HIDE DEF Goes, step
  <2> QED
    BY <1>4, <2>1 DEF Recursive
<1>6. found = body(found)
  <2> HIDE DEF body
  <2> QED
    BY <1>5
<1>7. VisitEach(visit, vs, active, done) = found[m]
  BY DEF VisitEach
<1> HIDE DEF found
<1>8. found[0] = start /\ \A n \in 1 .. m : found[n] = Goes(n, found[n - 1])
  <2> HIDE DEF Goes, start
  <2> QED
    BY <1>1, <1>6
<1>9. \A n \in 0 .. m : found[n] \in Outcome(V)
  <2> DEFINE T == {n \in 0 .. m : found[n] \in Outcome(V)}
  <2>1. 0 \in T
    BY <1>1, <1>8
  <2>2. \A n \in 1 .. m : n - 1 \in T => n \in T
    <3> HIDE DEF Goes
    <3> QED
      BY <1>1, <1>2, <1>8
  <2> HIDE DEF T
  <2>3. \A n \in 0 .. m : n \in T
    BY <1>1, <2>1, <2>2, InductionUpto
  <2> QED
    BY <2>3 DEF T
<1>10. found \in [0 .. m -> Outcome(V)]
  <2> HIDE DEF Goes
  <2> QED
    BY <1>6, <1>9
<1>11. found[m] \in Outcome(V)
  BY <1>1, <1>9
<1> QED
  BY <1>7, <1>8, <1>10, <1>11 DEF Finds

LEMMA VisitingType ==
  ASSUME NEW V, NEW below \in [V -> Seq(V)], NEW visit \in [Call(V) -> Outcome(V)]
  PROVE  Visiting(below, visit) \in [Call(V) -> Outcome(V)]
<1> DEFINE In(call) == VisitEach(visit, below[call.node],
                                 call.active \union {call.node}, call.done)
<1>1. ASSUME NEW call \in Call(V)
      PROVE  /\ call.node \in V /\ call.active \in SUBSET V /\ call.done \in SUBSET V
             /\ In(call) \in Outcome(V)
  <2>1. call.node \in V /\ call.active \in SUBSET V /\ call.done \in SUBSET V
    BY DEF Call
  <2>2. below[call.node] \in Seq(V) /\ call.active \union {call.node} \in SUBSET V
    BY <2>1
  <2> QED
    BY <2>1, <2>2, VisitEachIs
<1> HIDE DEF In
<1>2. Visiting(below, visit) = [call \in Call(V) |->
        IF call.node \in call.active THEN [cyclic |-> TRUE, done |-> call.done]
        ELSE IF call.node \in call.done THEN [cyclic |-> FALSE, done |-> call.done]
        ELSE [cyclic |-> In(call).cyclic, done |-> In(call).done \union {call.node}]]
  BY DEF Visiting, In
<1> QED
  BY <1>1, <1>2 DEF Outcome

(* What Visit computes, depth by depth.                                    *)
LEMMA VisitIs ==
  ASSUME NEW V, IsFiniteSet(V), NEW below \in [V -> Seq(V)]
  PROVE  \E visit \in [0 .. Cardinality(V) -> [Call(V) -> Outcome(V)]] :
           /\ visit[0] = [call \in Call(V) |-> [cyclic |-> TRUE, done |-> call.done]]
           /\ \A d \in 1 .. Cardinality(V) : visit[d] = Visiting(below, visit[d - 1])
           /\ Visit(below) = visit[Cardinality(V)]
<1> DEFINE m == Cardinality(V)
           S == [Call(V) -> Outcome(V)]
           start == [call \in Call(V) |-> [cyclic |-> TRUE, done |-> call.done]]
           step == [d \in 1 .. m |-> [v \in S |-> Visiting(below, v)]]
           body(f) == [d \in 0 .. m |-> IF d = 0 THEN start ELSE Visiting(below, f[d - 1])]
           visit == CHOOSE f : f = body(f)
<1>1. m \in Nat
  BY FS_CardinalityType
<1>2. start \in S
  BY DEF Call, Outcome
<1>3. \A v \in S : Visiting(below, v) \in S
  BY VisitingType
<1>4. Visit(below) = visit[m]
  BY DEF Visit
<1> HIDE DEF S, start, m
<1>5. step \in [1 .. m -> [S -> S]]
  BY <1>3
<1>6. PICK f \in [0 .. m -> S] : Recursive(f, m, start, step)
  <2> HIDE DEF step
  <2> QED
    BY <1>1, <1>2, <1>5, RecursionExists
<1>7. f = body(f)
  <2>1. ASSUME NEW d \in 0 .. m, d # 0 PROVE step[d][f[d - 1]] = Visiting(below, f[d - 1])
    <3>1. d \in 1 .. m /\ d - 1 \in 0 .. m
      BY <1>1, <2>1
    <3>2. f[d - 1] \in S
      BY <3>1
    <3> QED
      BY <3>1, <3>2
  <2> HIDE DEF step
  <2> QED
    BY <1>6, <2>1 DEF Recursive
<1>8. visit = body(visit)
  <2> HIDE DEF body
  <2> QED
    BY <1>7
<1> HIDE DEF visit
<1>9. visit[0] = start /\ \A d \in 1 .. m : visit[d] = Visiting(below, visit[d - 1])
  BY <1>1, <1>8
<1>10. \A d \in 0 .. m : visit[d] \in S
  <2> DEFINE T == {d \in 0 .. m : visit[d] \in S}
  <2>1. 0 \in T
    BY <1>1, <1>2, <1>9
  <2>2. \A d \in 1 .. m : d - 1 \in T => d \in T
    BY <1>1, <1>3, <1>9
  <2> HIDE DEF T
  <2>3. \A d \in 0 .. m : d \in T
    BY <1>1, <2>1, <2>2, InductionUpto
  <2> QED
    BY <2>3 DEF T
<1>11. visit \in [0 .. m -> S]
  BY <1>8, <1>10
<1> QED
  BY <1>4, <1>9, <1>11 DEF m, S, start

-----------------------------------------------------------------------------

(* Each node of D leads only to nodes of D of a lower rank.                *)
Falls(below, D, rank) ==
  \A v \in D : \A i \in DOMAIN below[v] :
    below[v][i] \in D /\ rank[below[v][i]] < rank[v]

Ranked(below, D) == \E k \in Nat : \E rank \in [D -> 1 .. k] : Falls(below, D, rank)

(* What a visit that finds no cycle has done is ranked, if what was done   *)
(* before it was.                                                          *)
Sound(below, visit) ==
  \A call \in Call(DOMAIN below) :
    Ranked(below, call.done) /\ ~ visit[call].cyclic =>
      /\ Ranked(below, visit[call].done)
      /\ call.done \subseteq visit[call].done
      /\ call.node \in visit[call].done

LEMMA EachIsRanked ==
  ASSUME NEW V, NEW below \in [V -> Seq(V)], NEW visit \in [Call(V) -> Outcome(V)],
         Sound(below, visit), NEW vs \in Seq(V), NEW active \in SUBSET V,
         NEW done \in SUBSET V, Ranked(below, done),
         ~ VisitEach(visit, vs, active, done).cyclic
  PROVE  /\ Ranked(below, VisitEach(visit, vs, active, done).done)
         /\ done \subseteq VisitEach(visit, vs, active, done).done
         /\ \A n \in 1 .. Len(vs) : vs[n] \in VisitEach(visit, vs, active, done).done
<1>1. PICK found \in [0 .. Len(vs) -> Outcome(V)] :
        Finds(found, visit, vs, active, done)
  BY VisitEachIs
<1>0. Len(vs) \in Nat /\ Len(vs) \in 0 .. Len(vs) /\ DOMAIN vs = 1 .. Len(vs)
  OBVIOUS
<1> DEFINE Good(n) == ~ found[n].cyclic =>
             /\ Ranked(below, found[n].done)
             /\ done \subseteq found[n].done
             /\ \A i \in 1 .. n : vs[i] \in found[n].done
           T == {n \in 0 .. Len(vs) : Good(n)}
<1>2. 0 \in T
  BY <1>0, <1>1 DEF Finds
<1>3. ASSUME NEW n \in 1 .. Len(vs), n - 1 \in T PROVE n \in T
  <2> SUFFICES ASSUME ~ found[n].cyclic PROVE Good(n)
    OBVIOUS
  <2> DEFINE call == [node |-> vs[n], active |-> active, done |-> found[n - 1].done]
  <2>0. n - 1 \in 0 .. Len(vs) /\ vs[n] \in V
    BY <1>0
  <2>1. n - 1 \in 0 .. Len(vs) /\ found[n - 1] \in Outcome(V) /\ vs[n] \in V
    BY <2>0
  <2>2. ~ found[n - 1].cyclic /\ found[n] = visit[call]
    BY <1>1 DEF Finds
  <2>3. /\ Ranked(below, found[n - 1].done) /\ done \subseteq found[n - 1].done
        /\ \A i \in 1 .. n - 1 : vs[i] \in found[n - 1].done
    BY <1>3, <2>2
  <2>4. call \in Call(DOMAIN below)
    BY <2>1, CallType DEF Outcome
  <2>5. call.done = found[n - 1].done /\ call.node = vs[n]
    OBVIOUS
  <2> HIDE DEF call
  <2>6. /\ Ranked(below, visit[call].done)
        /\ call.done \subseteq visit[call].done
        /\ call.node \in visit[call].done
    BY <2>2, <2>3, <2>4, <2>5 DEF Sound
  <2>7. ASSUME NEW i \in 1 .. n PROVE vs[i] \in found[n].done
    <3>1. CASE i = n
      BY <3>1, <2>2, <2>5, <2>6
    <3>2. CASE i # n
      <4>1. i \in 1 .. n - 1
        BY <3>2
      <4> QED
        BY <4>1, <2>2, <2>3, <2>5, <2>6
    <3> QED
      BY <3>1, <3>2
  <2> QED
    BY <2>2, <2>3, <2>5, <2>6, <2>7
<1> HIDE DEF T
<1>4. \A n \in 0 .. Len(vs) : n \in T
  BY <1>0, <1>2, <1>3, InductionUpto
<1>5. Good(Len(vs))
  BY <1>0, <1>4 DEF T
<1>6. VisitEach(visit, vs, active, done) = found[Len(vs)]
  BY <1>1 DEF Finds
<1> QED
  BY <1>5, <1>6

LEMMA OneMoreRanked ==
  ASSUME NEW V, NEW below \in [V -> Seq(V)], NEW D \in SUBSET V, Ranked(below, D),
         NEW v \in V, \A i \in 1 .. Len(below[v]) : below[v][i] \in D
  PROVE  Ranked(below, D \union {v})
<1>1. CASE v \in D
  <2>1. D \union {v} = D
    BY <1>1
  <2> QED
    BY <2>1
<1>2. CASE v \notin D
  <2>0. PICK k \in Nat : \E rank \in [D -> 1 .. k] : Falls(below, D, rank)
    BY DEF Ranked
  <2>1. PICK rank \in [D -> 1 .. k] : Falls(below, D, rank)
    BY <2>0
  <2> DEFINE more == [u \in D \union {v} |-> IF u = v THEN k + 1 ELSE rank[u]]
  <2>2. more \in [D \union {v} -> 1 .. k + 1]
    OBVIOUS
  <2>3. Falls(below, D \union {v}, more)
    <3>1. ASSUME NEW u \in D \union {v}, NEW i \in DOMAIN below[u]
          PROVE  below[u][i] \in D \union {v} /\ more[below[u][i]] < more[u]
      <4>1. below[u] \in Seq(V) /\ DOMAIN below[u] = 1 .. Len(below[u])
        OBVIOUS
      <4>2. below[u][i] \in D
        BY <4>1, <3>1, <2>1 DEF Falls
      <4>3. CASE u = v
        BY <4>2, <4>3, <1>2
      <4>4. CASE u # v
        BY <4>2, <4>4, <1>2, <2>1, <3>1 DEF Falls
      <4> QED
        BY <4>3, <4>4
    <3> QED
      BY <3>1 DEF Falls
  <2>4. k + 1 \in Nat
    OBVIOUS
  <2> HIDE DEF more
  <2> QED
    BY <2>2, <2>3, <2>4 DEF Ranked
<1> QED
  BY <1>1, <1>2

LEMMA VisitingIsSound ==
  ASSUME NEW V, NEW below \in [V -> Seq(V)], NEW visit \in [Call(V) -> Outcome(V)],
         Sound(below, visit)
  PROVE  Sound(below, Visiting(below, visit))
<1> SUFFICES ASSUME NEW call \in Call(V), Ranked(below, call.done),
                    ~ Visiting(below, visit)[call].cyclic
             PROVE  /\ Ranked(below, Visiting(below, visit)[call].done)
                    /\ call.done \subseteq Visiting(below, visit)[call].done
                    /\ call.node \in Visiting(below, visit)[call].done
  BY DEF Sound
<1> DEFINE found == VisitEach(visit, below[call.node], call.active \union {call.node},
                              call.done)
           all == Visiting(below, visit)[call]
<1>1. call.node \in V /\ call.active \in SUBSET V /\ call.done \in SUBSET V
  BY DEF Call
<1>2. all = IF call.node \in call.active THEN [cyclic |-> TRUE, done |-> call.done]
            ELSE IF call.node \in call.done THEN [cyclic |-> FALSE, done |-> call.done]
            ELSE [cyclic |-> found.cyclic, done |-> found.done \union {call.node}]
  BY DEF Visiting
<1>3. call.node \notin call.active
  BY <1>2
<1>4. CASE call.node \in call.done
  BY <1>2, <1>3, <1>4
<1>5. CASE call.node \notin call.done
  <2>1. ~ found.cyclic /\ all.done = found.done \union {call.node}
    BY <1>2, <1>3, <1>5
  <2>2. below[call.node] \in Seq(V) /\ call.active \union {call.node} \in SUBSET V
    BY <1>1
  <2>3. found \in Outcome(V)
    BY <1>1, <2>2, VisitEachIs
  <2>4. /\ Ranked(below, found.done) /\ call.done \subseteq found.done
        /\ \A n \in 1 .. Len(below[call.node]) : below[call.node][n] \in found.done
    BY <1>1, <2>1, <2>2, EachIsRanked
  <2> HIDE DEF found
  <2>5. found.done \in SUBSET V
    BY <2>3 DEF Outcome
  <2>6. Ranked(below, found.done \union {call.node})
    BY <1>1, <2>4, <2>5, OneMoreRanked
  <2> QED
    BY <2>1, <2>4, <2>6
<1> QED
  BY <1>4, <1>5

(* If the search finds no cycle, what it has visited is ranked.            *)
LEMMA NoCycleIsRanked ==
  ASSUME NEW V, IsFiniteSet(V), NEW below \in [V -> Seq(V)], NEW vs \in Seq(V),
         ~ HasCycle(below, vs)
  PROVE  \E D \in SUBSET V :
           Ranked(below, D) /\ \A n \in 1 .. Len(vs) : vs[n] \in D
<1>1. PICK visit \in [0 .. Cardinality(V) -> [Call(V) -> Outcome(V)]] :
        /\ visit[0] = [call \in Call(V) |-> [cyclic |-> TRUE, done |-> call.done]]
        /\ \A d \in 1 .. Cardinality(V) : visit[d] = Visiting(below, visit[d - 1])
        /\ Visit(below) = visit[Cardinality(V)]
  BY VisitIs
<1>2. Cardinality(V) \in Nat
  BY FS_CardinalityType
<1> DEFINE T == {d \in 0 .. Cardinality(V) : Sound(below, visit[d])}
<1>3. 0 \in T
  BY <1>1, <1>2 DEF Sound
<1>4. ASSUME NEW d \in 1 .. Cardinality(V), d - 1 \in T PROVE d \in T
  <2>1. visit[d - 1] \in [Call(V) -> Outcome(V)] /\ Sound(below, visit[d - 1])
    BY <1>2, <1>4
  <2>2. Sound(below, Visiting(below, visit[d - 1]))
    BY <2>1, VisitingIsSound
  <2> QED
    BY <1>1, <1>2, <2>2
<1> HIDE DEF T
<1>5. \A d \in 0 .. Cardinality(V) : d \in T
  BY <1>2, <1>3, <1>4, InductionUpto
<1>6. Sound(below, Visit(below)) /\ Visit(below) \in [Call(V) -> Outcome(V)]
  BY <1>1, <1>2, <1>5 DEF T
<1>7. Ranked(below, {})
  <2> DEFINE none == [v \in {} |-> 1]
  <2>1. none \in [{} -> 1 .. 0] /\ Falls(below, {}, none)
    BY DEF Falls
  <2>2. 0 \in Nat
    OBVIOUS
  <2> HIDE DEF none
  <2> QED
    BY <2>1, <2>2 DEF Ranked
<1>8. VisitEach(Visit(below), vs, {}, {}) \in Outcome(V)
  BY <1>6, VisitEachIs
<1>9. /\ Ranked(below, VisitEach(Visit(below), vs, {}, {}).done)
      /\ \A n \in 1 .. Len(vs) : vs[n] \in VisitEach(Visit(below), vs, {}, {}).done
  BY <1>6, <1>7, EachIsRanked DEF HasCycle
<1> QED
  BY <1>8, <1>9 DEF Outcome

-----------------------------------------------------------------------------

(* With ranks that fall, a visit finds no cycle, if it may nest as deep as *)
(* the rank of its node and what is active is above.                       *)
Quiet(rank, d, visit) ==
  \A call \in Call(DOMAIN rank) :
    (\A a \in call.active : rank[call.node] < rank[a]) /\ rank[call.node] <= d
      => ~ visit[call].cyclic

LEMMA EachIsQuiet ==
  ASSUME NEW V, NEW visit \in [Call(V) -> Outcome(V)], NEW rank \in [V -> Nat],
         NEW d \in Nat, Quiet(rank, d, visit), NEW vs \in Seq(V),
         NEW active \in SUBSET V, NEW done \in SUBSET V,
         \A n \in 1 .. Len(vs) :
           rank[vs[n]] <= d /\ \A a \in active : rank[vs[n]] < rank[a]
  PROVE  ~ VisitEach(visit, vs, active, done).cyclic
<1>1. PICK found \in [0 .. Len(vs) -> Outcome(V)] :
        Finds(found, visit, vs, active, done)
  BY VisitEachIs
<1>0. Len(vs) \in Nat /\ Len(vs) \in 0 .. Len(vs) /\ DOMAIN vs = 1 .. Len(vs)
  OBVIOUS
<1> DEFINE T == {n \in 0 .. Len(vs) : ~ found[n].cyclic}
<1>2. 0 \in T
  BY <1>0, <1>1 DEF Finds
<1>3. ASSUME NEW n \in 1 .. Len(vs), n - 1 \in T PROVE n \in T
  <2> DEFINE call == [node |-> vs[n], active |-> active, done |-> found[n - 1].done]
  <2>0. n - 1 \in 0 .. Len(vs) /\ vs[n] \in V
    BY <1>0
  <2>1. found[n - 1] \in Outcome(V)
    BY <2>0
  <2>2. found[n] = visit[call]
    BY <1>1, <1>3 DEF Finds
  <2>3. call \in Call(DOMAIN rank) /\ call.node = vs[n] /\ call.active = active
    BY <2>0, <2>1, CallType DEF Outcome
  <2> HIDE DEF call
  <2>4. ~ visit[call].cyclic
    BY <2>3 DEF Quiet
  <2> QED
    BY <1>0, <2>2, <2>4
<1> HIDE DEF T
<1>4. \A n \in 0 .. Len(vs) : n \in T
  BY <1>0, <1>2, <1>3, InductionUpto
<1>5. ~ found[Len(vs)].cyclic
  BY <1>0, <1>4 DEF T
<1> QED
  BY <1>1, <1>5 DEF Finds

LEMMA LessIsTransitive == \A x, y, z \in Nat : x < y /\ y < z => x < z
OBVIOUS

LEMMA VisitingIsQuiet ==
  ASSUME NEW V, NEW below \in [V -> Seq(V)], NEW visit \in [Call(V) -> Outcome(V)],
         NEW rank \in [V -> Nat], Falls(below, V, rank), NEW d \in Nat,
         Quiet(rank, d, visit)
  PROVE  Quiet(rank, d + 1, Visiting(below, visit))
<1> SUFFICES ASSUME NEW call \in Call(V), rank[call.node] <= d + 1,
                    \A a \in call.active : rank[call.node] < rank[a]
             PROVE  ~ Visiting(below, visit)[call].cyclic
  BY DEF Quiet
<1> DEFINE found == VisitEach(visit, below[call.node], call.active \union {call.node},
                              call.done)
<1>1. call.node \in V /\ call.active \in SUBSET V /\ call.done \in SUBSET V
  BY DEF Call
<1>2. call.node \notin call.active
  BY <1>1
<1>3. below[call.node] \in Seq(V) /\ call.active \union {call.node} \in SUBSET V
  BY <1>1
<1>4. ASSUME NEW n \in 1 .. Len(below[call.node])
      PROVE  /\ rank[below[call.node][n]] <= d
             /\ \A a \in call.active \union {call.node} : rank[below[call.node][n]] < rank[a]
  <2> DEFINE low == rank[below[call.node][n]]
             here == rank[call.node]
  <2>1. n \in DOMAIN below[call.node] /\ below[call.node][n] \in V
    BY <1>3
  <2>2. low < here /\ low \in Nat /\ here \in Nat /\ here <= d + 1
    BY <1>1, <2>1 DEF Falls
  <2>3. \A a \in call.active : here < rank[a] /\ rank[a] \in Nat
    BY <1>1
  <2> HIDE DEF low, here
  <2>4. low <= d
    BY <2>2
  <2>5. \A a \in call.active : low < rank[a]
    BY <2>2, <2>3, LessIsTransitive, Zenon
  <2> QED
    BY <2>2, <2>4, <2>5 DEF low, here
<1>5. ~ found.cyclic
  BY <1>1, <1>3, <1>4, EachIsQuiet
<1> HIDE DEF found
<1>6. Visiting(below, visit)[call] =
        IF call.node \in call.active THEN [cyclic |-> TRUE, done |-> call.done]
        ELSE IF call.node \in call.done THEN [cyclic |-> FALSE, done |-> call.done]
        ELSE [cyclic |-> found.cyclic, done |-> found.done \union {call.node}]
  BY DEF Visiting, found
<1> QED
  BY <1>2, <1>5, <1>6

(* Where each node leads only to nodes of a lower rank, no cycle is found. *)
LEMMA RankedHasNoCycle ==
  ASSUME NEW V, IsFiniteSet(V), NEW below \in [V -> Seq(V)],
         NEW rank \in [V -> 1 .. Cardinality(V)], Falls(below, V, rank),
         NEW vs \in Seq(V)
  PROVE  ~ HasCycle(below, vs)
<1>1. PICK visit \in [0 .. Cardinality(V) -> [Call(V) -> Outcome(V)]] :
        /\ visit[0] = [call \in Call(V) |-> [cyclic |-> TRUE, done |-> call.done]]
        /\ \A d \in 1 .. Cardinality(V) : visit[d] = Visiting(below, visit[d - 1])
        /\ Visit(below) = visit[Cardinality(V)]
  BY VisitIs
<1>2. Cardinality(V) \in Nat
  BY FS_CardinalityType
<1>3. rank \in [V -> Nat] /\ \A v \in V : 1 <= rank[v] /\ rank[v] <= Cardinality(V)
  BY <1>2
<1> DEFINE T == {d \in 0 .. Cardinality(V) : Quiet(rank, d, visit[d])}
<1>4. 0 \in T
  <2>1. \A call \in Call(V) : call.node \in V
    BY DEF Call
  <2> QED
    BY <1>2, <1>3, <2>1 DEF Quiet
<1>5. ASSUME NEW d \in 1 .. Cardinality(V), d - 1 \in T PROVE d \in T
  <2>1. /\ d - 1 \in Nat /\ (d - 1) + 1 = d
        /\ visit[d - 1] \in [Call(V) -> Outcome(V)] /\ Quiet(rank, d - 1, visit[d - 1])
    BY <1>2, <1>5
  <2>2. Quiet(rank, (d - 1) + 1, Visiting(below, visit[d - 1]))
    BY <1>3, <2>1, VisitingIsQuiet
  <2> QED
    BY <1>1, <1>2, <2>1, <2>2
<1> HIDE DEF T
<1>6. \A d \in 0 .. Cardinality(V) : d \in T
  BY <1>2, <1>4, <1>5, InductionUpto
<1>7. /\ Quiet(rank, Cardinality(V), Visit(below))
      /\ Visit(below) \in [Call(V) -> Outcome(V)]
  BY <1>1, <1>2, <1>6 DEF T
<1>8. \A n \in 1 .. Len(vs) : vs[n] \in V /\ rank[vs[n]] <= Cardinality(V)
  BY <1>3
<1>9. ~ VisitEach(Visit(below), vs, {}, {}).cyclic
  BY <1>2, <1>3, <1>7, <1>8, EachIsQuiet
<1> QED
  BY <1>9 DEF HasCycle

-----------------------------------------------------------------------------
(* The revisions (RevisionGraph).                                          *)

NodesType == nodes \in Seq(Node)

LEMMA NodeFacts ==
  ASSUME NodesType
  PROVE  /\ Len(nodes) \in Nat /\ DOMAIN nodes = 1 .. Len(nodes)
         /\ \A i \in DOMAIN nodes :
              /\ nodes[i].revision \in 1 .. MaxFiles /\ nodes[i].revision \in Id
              /\ nodes[i].parents \in Seq(Id) /\ nodes[i].changed \in BOOLEAN
              /\ DOMAIN nodes[i].parents = 1 .. Len(nodes[i].parents)
<1>1. Len(nodes) \in Nat /\ DOMAIN nodes = 1 .. Len(nodes)
  BY DEF NodesType
<1>2. ASSUME NEW i \in DOMAIN nodes
      PROVE  /\ nodes[i].revision \in 1 .. MaxFiles
             /\ nodes[i].parents \in Parents /\ nodes[i].changed \in BOOLEAN
  <2>1. nodes[i] \in Node
    BY DEF NodesType
  <2> QED
    BY <2>1 DEF Node
<1>3. 1 .. MaxFiles \subseteq Id
  BY FilesAssumption DEF Id
<1>4. Parents \subseteq Seq(Id)
  <2>1. \A n \in 0 .. 2 : [1 .. n -> Id] \subseteq Seq(Id)
    OBVIOUS
  <2> QED
    BY <2>1 DEF Parents
<1> QED
  BY <1>1, <1>2, <1>3, <1>4

LEMMA UniqueFacts ==
  ASSUME NodesType, NEW r \in Unique
  PROVE  /\ r \in Id /\ r # NoId
         /\ \E i \in DOMAIN nodes : nodes[i].revision = r
         /\ \A i \in DOMAIN nodes : nodes[i].revision = r => NodeOf(r) = nodes[i]
<1>1. PICK k \in DOMAIN nodes : nodes[k].revision = r
  BY DEF Unique, Revisions
<1>2. r \in Id /\ r # NoId
  BY <1>1, NodeFacts, FilesAssumption DEF NoId
<1>3. ASSUME NEW i \in DOMAIN nodes, nodes[i].revision = r PROVE NodeOf(r) = nodes[i]
  <2>1. i \in Holding(r) /\ \A j \in Holding(r) : j = i
    BY <1>3 DEF Holding, Unique
  <2>2. (CHOOSE j \in Holding(r) : TRUE) = i
    BY <2>1
  <2> QED
    BY <2>2 DEF NodeOf
<1> QED
  BY <1>1, <1>2, <1>3

LEMMA OnlyParentType ==
  ASSUME NodesType, NEW r \in Unique
  PROVE  /\ OnlyParent(r) \in Id \union {NoId}
         /\ Len(NodeOf(r).parents) = 1 => OnlyParent(r) = NodeOf(r).parents[1]
         /\ Len(NodeOf(r).parents) # 1 => OnlyParent(r) = NoId
<1>1. PICK i \in DOMAIN nodes : nodes[i].revision = r /\ NodeOf(r) = nodes[i]
  BY UniqueFacts
<1>2. NodeOf(r).parents \in Seq(Id)
  BY <1>1, NodeFacts
<1> QED
  BY <1>2 DEF OnlyParent

-----------------------------------------------------------------------------

WalkState == [current : Id \union {NoId}, chain : Seq(Id), cyclic : BOOLEAN]

Round(w) ==
  IF w.current \notin Unique THEN w
  ELSE IF w.current \in ToSet(w.chain) THEN [w EXCEPT !.cyclic = TRUE]
  ELSE [w EXCEPT !.current = OnlyParent(w.current), !.chain = <<w.current>> \o @]

(* What has been walked: each revision is the only parent of the next.     *)
Linked(head, w) ==
  /\ \A i \in 1 .. Len(w.chain) : w.chain[i] \in Unique
  /\ \A i, j \in 1 .. Len(w.chain) : w.chain[i] = w.chain[j] => i = j
  /\ \A i \in 1 .. Len(w.chain) : i > 1 => OnlyParent(w.chain[i]) = w.chain[i - 1]
  /\ Len(w.chain) = 0 => w.current = head
  /\ Len(w.chain) > 0 => /\ w.chain[Len(w.chain)] = head
                         /\ w.current = OnlyParent(w.chain[1])
  /\ w.cyclic => w.current \in ToSet(w.chain)

LEMMA RoundStep ==
  ASSUME NodesType, NEW head, NEW w \in WalkState, Linked(head, w)
  PROVE  /\ Round(w) \in WalkState /\ Linked(head, Round(w))
         /\ Round(w).current \in Unique /\ ~ Round(w).cyclic =>
              /\ w.current \in Unique /\ ~ w.cyclic
              /\ Len(Round(w).chain) = Len(w.chain) + 1
<1>1. /\ w.current \in Id \union {NoId} /\ w.chain \in Seq(Id) /\ w.cyclic \in BOOLEAN
      /\ Len(w.chain) \in Nat /\ ToSet(w.chain) = {w.chain[i] : i \in 1 .. Len(w.chain)}
  BY DEF WalkState, ToSet
<1>2. CASE w.current \notin Unique
  BY <1>2 DEF Round
<1>3. CASE w.current \in Unique /\ w.current \in ToSet(w.chain)
  <2>1. /\ Round(w).current = w.current /\ Round(w).chain = w.chain /\ Round(w).cyclic = TRUE
        /\ Round(w) \in WalkState
    BY <1>3 DEF Round, WalkState
  <2> QED
    BY <1>3, <2>1 DEF Linked
<1>4. CASE w.current \in Unique /\ w.current \notin ToSet(w.chain)
  <2> DEFINE v == Round(w)
             m == Len(w.chain)
  <2>1. /\ v.current = OnlyParent(w.current) /\ v.chain = <<w.current>> \o w.chain
        /\ v.cyclic = w.cyclic /\ v \in WalkState
    <3>1. OnlyParent(w.current) \in Id \union {NoId} /\ w.current \in Id
      BY <1>4, OnlyParentType, UniqueFacts
    <3>2. <<w.current>> \o w.chain \in Seq(Id)
      BY <1>1, <3>1
    <3> QED
      BY <1>4, <3>1, <3>2 DEF Round, WalkState
  <2> HIDE DEF v
  <2>2. /\ Len(v.chain) = m + 1 /\ v.chain[1] = w.current
        /\ \A i \in 2 .. m + 1 : v.chain[i] = w.chain[i - 1]
    BY <1>1, <2>1
  <2>3. ~ w.cyclic
    BY <1>4 DEF Linked
  <2>4. \A i \in 1 .. Len(v.chain) : v.chain[i] \in Unique
    <3>1. ASSUME NEW i \in 2 .. m + 1 PROVE v.chain[i] \in Unique
      <4>1. i - 1 \in 1 .. m
        BY <1>1
      <4> QED
        BY <2>2, <4>1 DEF Linked
    <3> QED
      BY <1>1, <1>4, <2>2, <3>1
  <2>5. \A i, j \in 1 .. Len(v.chain) : v.chain[i] = v.chain[j] => i = j
    <3>1. ASSUME NEW i \in 2 .. m + 1
          PROVE  v.chain[i] \in ToSet(w.chain) /\ i - 1 \in 1 .. m /\ v.chain[i] = w.chain[i - 1]
      <4>1. i - 1 \in 1 .. m
        BY <1>1
      <4> QED
        BY <1>1, <2>2, <4>1
    <3>2. ASSUME NEW i \in 1 .. m + 1, NEW j \in 1 .. m + 1, v.chain[i] = v.chain[j]
          PROVE  i = j
      <4>1. ASSUME NEW l \in 2 .. m + 1 PROVE v.chain[l] # v.chain[1]
        BY <1>4, <2>2, <3>1, <4>1
      <4>2. (i = 1 \/ i \in 2 .. m + 1) /\ (j = 1 \/ j \in 2 .. m + 1)
        BY <1>1
      <4>3. CASE i \in 2 .. m + 1 /\ j \in 2 .. m + 1
        <5>1. /\ i - 1 \in 1 .. m /\ j - 1 \in 1 .. m
              /\ w.chain[i - 1] = w.chain[j - 1]
          BY <3>1, <3>2, <4>3
        <5>2. i - 1 = j - 1
          BY <5>1 DEF Linked
        <5>3. i \in Int /\ j \in Int
          BY <1>1
        <5> QED
          BY <5>2, <5>3
      <4> QED
        BY <3>2, <4>1, <4>2, <4>3
    <3> QED
      BY <2>2, <3>2
  <2>6. \A i \in 1 .. Len(v.chain) : i > 1 => OnlyParent(v.chain[i]) = v.chain[i - 1]
    <3>1. ASSUME NEW i \in 2 .. m + 1 PROVE OnlyParent(v.chain[i]) = v.chain[i - 1]
      <4>1. CASE i = 2
        BY <1>1, <2>2, <4>1 DEF Linked
      <4>2. CASE i # 2
        <5>1. i - 1 \in 2 .. m + 1 /\ i - 1 \in 1 .. m /\ i - 1 > 1
          BY <1>1, <4>2
        <5>2. OnlyParent(w.chain[i - 1]) = w.chain[(i - 1) - 1]
          BY <5>1 DEF Linked
        <5> QED
          BY <2>2, <5>1, <5>2
      <4> QED
        BY <4>1, <4>2
    <3>2. ASSUME NEW i \in 1 .. m + 1, i > 1 PROVE i \in 2 .. m + 1
      BY <1>1, <3>2
    <3> QED
      BY <2>2, <3>1, <3>2
  <2>7. v.chain[Len(v.chain)] = head
    <3>1. CASE m = 0
      BY <2>2, <3>1 DEF Linked
    <3>2. CASE m > 0
      <4>1. m + 1 \in 2 .. m + 1
        BY <1>1, <3>2
      <4> QED
        BY <1>1, <2>2, <3>2, <4>1 DEF Linked
    <3> QED
      BY <1>1, <3>1, <3>2
  <2>8. Linked(head, v)
    BY <1>1, <2>1, <2>2, <2>3, <2>4, <2>5, <2>6, <2>7 DEF Linked
  <2> QED
    BY <1>4, <2>1, <2>2, <2>3, <2>8 DEF v
<1> QED
  BY <1>2, <1>3, <1>4

(* A chain of distinct unique revisions is no longer than the nodes are.   *)
LEMMA ChainIsShort ==
  ASSUME NodesType, NEW c \in Seq(Id), \A i \in 1 .. Len(c) : c[i] \in Unique,
         \A i, j \in 1 .. Len(c) : c[i] = c[j] => i = j
  PROVE  Len(c) <= Len(nodes)
<1> DEFINE place == [i \in 1 .. Len(c) |-> CHOOSE k \in 1 .. Len(nodes) : nodes[k].revision = c[i]]
<1>1. ASSUME NEW i \in 1 .. Len(c)
      PROVE  place[i] \in 1 .. Len(nodes) /\ nodes[place[i]].revision = c[i]
  <2>1. \E k \in 1 .. Len(nodes) : nodes[k].revision = c[i]
    BY UniqueFacts, NodeFacts
  <2> QED
    BY <2>1
<1> HIDE DEF place
<1>2. place \in Injection(1 .. Len(c), 1 .. Len(nodes))
  <2>1. place \in [1 .. Len(c) -> 1 .. Len(nodes)]
    <3>1. place = [i \in 1 .. Len(c) |-> place[i]]
      BY DEF place
    <3> QED
      BY <1>1, <3>1
  <2>2. \A i, j \in 1 .. Len(c) : place[i] = place[j] => i = j
    BY <1>1
  <2> QED
    BY <2>1, <2>2 DEF Injection, IsInjective
<1>3. IsFiniteSet(1 .. Len(nodes)) /\ Cardinality(1 .. Len(nodes)) = Len(nodes)
      /\ Cardinality(1 .. Len(c)) = Len(c)
  <2>1. Len(nodes) \in Nat /\ Len(c) \in Nat
    BY NodeFacts
  <2> QED
    BY <2>1, IntervalSize
<1> QED
  BY <1>2, <1>3, FS_Injection

(* The loop ends: without a cycle, at an id that no revision has.          *)
LEMMA WalkFacts ==
  ASSUME NodesType, NEW head \in Id
  PROVE  /\ Walk(head) \in WalkState /\ Linked(head, Walk(head))
         /\ ~ Walk(head).cyclic => Walk(head).current \notin Unique
<1> DEFINE m == Len(nodes) + 1
           start == [current |-> head, chain |-> <<>>, cyclic |-> FALSE]
           S == {w \in WalkState : Linked(head, w)}
           step == [n \in 1 .. m |-> [w \in S |-> Round(w)]]
           body(f) == [n \in 0 .. m |-> IF n = 0 THEN start ELSE Round(f[n - 1])]
           walked == CHOOSE f : f = body(f)
<1>1. m \in Nat
  BY NodeFacts
<1>2. start \in S
  BY DEF WalkState, Linked
<1>3. \A w \in S : Round(w) \in S
  BY RoundStep
<1>4. Walk(head) = walked[m]
  BY DEF Walk, Round
<1>start. start.chain = <<>> /\ Len(start.chain) = 0
  OBVIOUS
<1> HIDE DEF S, start, m
<1>5. step \in [1 .. m -> [S -> S]]
  BY <1>3
<1>6. PICK f \in [0 .. m -> S] : Recursive(f, m, start, step)
  <2> HIDE DEF step
  <2> QED
    BY <1>1, <1>2, <1>5, RecursionExists
<1>7. f = body(f)
  <2>1. ASSUME NEW n \in 0 .. m, n # 0 PROVE step[n][f[n - 1]] = Round(f[n - 1])
    <3>1. n \in 1 .. m /\ n - 1 \in 0 .. m
      BY <1>1, <2>1
    <3>2. f[n - 1] \in S
      BY <3>1
    <3> QED
      BY <3>1, <3>2
  <2> HIDE DEF step
  <2> QED
    BY <1>6, <2>1 DEF Recursive
<1>8. walked = body(walked)
  <2> HIDE DEF body
  <2> QED
    BY <1>7
<1> HIDE DEF walked
<1>9. walked[0] = start /\ \A n \in 1 .. m : walked[n] = Round(walked[n - 1])
  BY <1>1, <1>8
<1> DEFINE Long(w, n) == w.current \in Unique /\ ~ w.cyclic => Len(w.chain) = n
           T == {n \in 0 .. m : walked[n] \in S /\ Long(walked[n], n)}
<1>10. 0 \in T
  BY <1>1, <1>2, <1>9, <1>start
<1>11. ASSUME NEW n \in 1 .. m, n - 1 \in T PROVE n \in T
  <2> DEFINE w == walked[n - 1]
  <2>1. w \in S /\ Long(w, n - 1) /\ walked[n] = Round(w)
    BY <1>9, <1>11
  <2> HIDE DEF w
  <2>2. w \in WalkState /\ Linked(head, w)
    BY <2>1 DEF S
  <2>3. Round(w).current \in Unique /\ ~ Round(w).cyclic =>
          /\ w.current \in Unique /\ ~ w.cyclic
          /\ Len(Round(w).chain) = Len(w.chain) + 1
    BY <2>2, RoundStep
  <2>4. Long(walked[n], n)
    BY <1>1, <2>1, <2>3
  <2> QED
    BY <1>3, <2>1, <2>4
<1> HIDE DEF T
<1>12. m \in T
  BY <1>1, <1>10, <1>11, InductionUpto
<1>13. walked[m] \in WalkState /\ Linked(head, walked[m]) /\ Long(walked[m], m)
  BY <1>12 DEF T, S
<1>14. Len(walked[m].chain) <= Len(nodes)
  <2>1. walked[m].chain \in Seq(Id)
    BY <1>13 DEF WalkState
  <2> QED
    BY <1>13, <2>1, ChainIsShort DEF Linked
<1>15. Len(nodes) \in Nat /\ m = Len(nodes) + 1
  BY NodeFacts DEF m
<1> QED
  BY <1>4, <1>13, <1>14, <1>15

-----------------------------------------------------------------------------

BelowOf == [r \in Id |-> IF r \in Unique THEN NodeOf(r).parents ELSE <<>>]
IdsOf == [i \in DOMAIN nodes |-> nodes[i].revision]

LEMMA SearchType ==
  ASSUME NodesType
  PROVE  /\ BelowOf \in [Id -> Seq(Id)] /\ IdsOf \in Seq(Id)
         /\ Len(IdsOf) = Len(nodes) /\ IsFiniteSet(Id) /\ Cardinality(Id) = MaxFiles + 1
         /\ HasRevisionCycle = HasCycle(BelowOf, IdsOf)
<1>1. ASSUME NEW r \in Unique PROVE NodeOf(r).parents \in Seq(Id)
  <2>1. PICK i \in DOMAIN nodes : nodes[i].revision = r /\ NodeOf(r) = nodes[i]
    BY UniqueFacts
  <2> QED
    BY <2>1, NodeFacts
<1>2. BelowOf \in [Id -> Seq(Id)]
  BY <1>1 DEF BelowOf
<1>3. IdsOf \in [1 .. Len(nodes) -> Id] /\ Len(nodes) \in Nat
  BY NodeFacts DEF IdsOf
<1>4. IdsOf \in Seq(Id) /\ Len(IdsOf) = Len(nodes)
  BY <1>3
<1>5. IsFiniteSet(Id) /\ Cardinality(Id) = MaxFiles + 1
  <2>1. MaxFiles + 1 \in Nat
    BY FilesAssumption
  <2> QED
    BY <2>1, IntervalSize DEF Id
<1> QED
  BY <1>2, <1>4, <1>5 DEF HasRevisionCycle, BelowOf, IdsOf

(* Without a cycle, some revision is nobody's parent.                      *)
LEMMA SomeHead ==
  ASSUME NodesType, nodes # <<>>, ~ HasRevisionCycle, Unique = Revisions
  PROVE  Heads # {}
<1>1. PICK D \in SUBSET Id :
        Ranked(BelowOf, D) /\ \A n \in 1 .. Len(IdsOf) : IdsOf[n] \in D
  BY SearchType, NoCycleIsRanked
<1>2. PICK k \in Nat : \E rank \in [D -> 1 .. k] : Falls(BelowOf, D, rank)
  BY <1>1 DEF Ranked
<1>3. PICK rank \in [D -> 1 .. k] : Falls(BelowOf, D, rank)
  BY <1>2
<1>4. Len(nodes) \in Nat /\ DOMAIN nodes = 1 .. Len(nodes) /\ 1 \in DOMAIN nodes
  BY NodeFacts DEF NodesType
<1>5. ASSUME NEW i \in DOMAIN nodes PROVE nodes[i].revision \in D
  BY <1>1, <1>4, SearchType DEF IdsOf
<1> DEFINE lack == {k - rank[nodes[i].revision] : i \in DOMAIN nodes}
<1>6. lack \subseteq Nat /\ lack # {}
  BY <1>4, <1>5
<1>7. PICK x \in lack : \A y \in lack : x <= y
  BY <1>6, LeastNumber
<1>8. PICK h \in DOMAIN nodes : x = k - rank[nodes[h].revision]
  BY <1>7
<1>9. ASSUME NEW i \in DOMAIN nodes
      PROVE  rank[nodes[i].revision] <= rank[nodes[h].revision]
  <2>1. k - rank[nodes[h].revision] <= k - rank[nodes[i].revision]
    BY <1>7, <1>8
  <2>2. rank[nodes[h].revision] \in 1 .. k /\ rank[nodes[i].revision] \in 1 .. k
    BY <1>5
  <2> QED
    BY <2>1, <2>2
<1>10. nodes[h].revision \notin AllParents
  <2> SUFFICES ASSUME nodes[h].revision \in AllParents PROVE FALSE
    OBVIOUS
  <2>0. PICK i \in DOMAIN nodes : nodes[h].revision \in ToSet(nodes[i].parents)
    BY DEF AllParents
  <2>1. PICK j \in DOMAIN nodes[i].parents : nodes[i].parents[j] = nodes[h].revision
    BY <2>0 DEF ToSet
  <2>2. nodes[i].revision \in Unique /\ nodes[i].revision \in Id
    BY NodeFacts DEF Revisions
  <2>3. BelowOf[nodes[i].revision] = nodes[i].parents
    BY <2>2, UniqueFacts DEF BelowOf
  <2>4. rank[nodes[h].revision] < rank[nodes[i].revision]
    BY <1>3, <1>5, <2>1, <2>3 DEF Falls
  <2>5. rank[nodes[h].revision] \in 1 .. k /\ rank[nodes[i].revision] \in 1 .. k
    BY <1>5
  <2> QED
    BY <1>9, <2>4, <2>5
<1> QED
  BY <1>10 DEF Heads

-----------------------------------------------------------------------------

LEMMA NoReasons ==
  ASSUME AllReasons = {}
  PROVE  /\ reasons = {} /\ Unique = Revisions
         /\ \A i \in DOMAIN nodes : ~ (Len(nodes[i].parents) > 1)
         /\ AllParents \subseteq Unique /\ ~ HasRevisionCycle /\ ~ Target.cyclic
         /\ \A i, j \in Heads : i = j
         /\ (\E i \in Heads : Heads = {i}) => ToSet(Target.chain) = Unique
         /\ Changed = {} \/ ChangedAreLinear
<1>1. reasons = {} /\ Structure = {}
  BY DEF AllReasons
<1>2. /\ Reason(Unique # Revisions, "DUPLICATE_REVISION_ID") = {}
      /\ Reason(\E i \in DOMAIN nodes : Len(nodes[i].parents) > 1,
                "MERGE_REVISION_UNSUPPORTED") = {}
      /\ Reason(~ (AllParents \subseteq Unique), "MISSING_REVISION_PARENT") = {}
      /\ Reason(HasRevisionCycle \/ Target.cyclic, "REVISION_CYCLE") = {}
      /\ Reason(\E i, j \in Heads : i # j, "MULTIPLE_REVISION_HEADS") = {}
      /\ Reason(/\ \E i \in Heads : Heads = {i}
                /\ ToSet(Target.chain) # Unique,
                "DISCONNECTED_REVISION_GRAPH") = {}
      /\ Reason(Changed # {} /\ ~ ChangedAreLinear,
                "CHANGED_REVISIONS_NOT_LINEAR") = {}
  BY <1>1, Zenon DEF Structure
<1>3. Unique = Revisions
  BY <1>2, Zenon DEF Reason
<1>4. \A i \in DOMAIN nodes : ~ (Len(nodes[i].parents) > 1)
  BY <1>2, Zenon DEF Reason
<1>5. AllParents \subseteq Unique
  BY <1>2, Zenon DEF Reason
<1>6. ~ HasRevisionCycle /\ ~ Target.cyclic
  BY <1>2, Zenon DEF Reason
<1>7. \A i, j \in Heads : i = j
  BY <1>2, Zenon DEF Reason
<1>8. (\E i \in Heads : Heads = {i}) => ToSet(Target.chain) = Unique
  BY <1>2, Zenon DEF Reason
<1>9. Changed = {} \/ ChangedAreLinear
  BY <1>2, Zenon DEF Reason
<1> QED
  BY <1>1, <1>3, <1>4, <1>5, <1>6, <1>7, <1>8, <1>9

LEMMA NoReason ==
  ASSUME reasons = {}, nodes # <<>>, Unique = Revisions,
         \A i \in DOMAIN nodes : ~ (Len(nodes[i].parents) > 1),
         AllParents \subseteq Unique, ~ HasRevisionCycle, ~ Target.cyclic,
         \A i, j \in Heads : i = j,
         (\E i \in Heads : Heads = {i}) => ToSet(Target.chain) = Unique,
         Changed = {} \/ ChangedAreLinear
  PROVE  AllReasons = {}
<1>2. Structure = {}
  <2>1. Reason(Unique # Revisions, "DUPLICATE_REVISION_ID") = {}
    BY DEF Reason
  <2>2. Reason(\E i \in DOMAIN nodes : Len(nodes[i].parents) > 1,
               "MERGE_REVISION_UNSUPPORTED") = {}
    BY DEF Reason
  <2>3. Reason(~ (AllParents \subseteq Unique), "MISSING_REVISION_PARENT") = {}
    BY DEF Reason
  <2>4. Reason(HasRevisionCycle \/ Target.cyclic, "REVISION_CYCLE") = {}
    BY DEF Reason
  <2>5. Reason(\E i, j \in Heads : i # j, "MULTIPLE_REVISION_HEADS") = {}
    BY DEF Reason
  <2>6. Reason((\E i \in Heads : Heads = {i}) /\ ToSet(Target.chain) # Unique,
               "DISCONNECTED_REVISION_GRAPH") = {}
    BY DEF Reason
  <2>7. Reason(Changed # {} /\ ~ ChangedAreLinear, "CHANGED_REVISIONS_NOT_LINEAR") = {}
    BY DEF Reason
  <2> QED
    BY <2>1, <2>2, <2>3, <2>4, <2>5, <2>6, <2>7 DEF Structure
<1> QED
  BY <1>2 DEF AllReasons, Reason

ChainOf(p) == [i \in DOMAIN nodes |-> nodes[p[i]].revision]

(* Without a reason, the chain is a linear order of all nodes.             *)
LEMMA NoReasonIsLinear ==
  ASSUME NodesType, AllReasons = {}, nodes # <<>>
  PROVE  \E p \in LinearOrders : Heads = {p[Len(nodes)]} /\ Target.chain = ChainOf(p)
<1>1. PICK h \in DOMAIN nodes : Heads = {h}
  <2>1. Heads # {} /\ \A i, j \in Heads : i = j
    BY NoReasons, SomeHead
  <2> QED
    BY <2>1 DEF Heads
<1> DEFINE head == nodes[h].revision
           w == Walk(head)
           c == w.chain
           n == Len(nodes)
<1>2. Target = w
  <2>1. (CHOOSE i \in DOMAIN nodes : Heads = {i}) = h
    BY <1>1
  <2> QED
    BY <1>1, <2>1 DEF Target
<1>3. head \in Id /\ n \in Nat /\ DOMAIN nodes = 1 .. n /\ n > 0
  BY NodeFacts DEF NodesType
<1> HIDE DEF w, n, head
<1>4. w \in WalkState /\ Linked(head, w) /\ ~ w.cyclic /\ w.current \notin Unique
  BY <1>2, <1>3, WalkFacts, NoReasons DEF w
<1>5. c \in Seq(Id) /\ Len(c) \in Nat /\ DOMAIN c = 1 .. Len(c)
  BY <1>4 DEF WalkState
<1>6. ToSet(c) = Unique
  BY <1>1, <1>2, NoReasons
<1>7. /\ \A i \in 1 .. Len(c) : c[i] \in Unique
      /\ \A i, j \in 1 .. Len(c) : c[i] = c[j] => i = j
      /\ \A i \in 1 .. Len(c) : i > 1 => OnlyParent(c[i]) = c[i - 1]
      /\ Len(c) > 0 => c[Len(c)] = head /\ w.current = OnlyParent(c[1])
  BY <1>4 DEF Linked
<1> HIDE DEF c
<1>8. /\ \A i, j \in 1 .. n : nodes[i].revision = nodes[j].revision => i = j
      /\ \A i \in 1 .. n : nodes[i].revision \in Unique
  <2>1. \A i \in 1 .. n : nodes[i].revision \in Unique
    BY <1>3, NoReasons DEF Revisions
  <2> QED
    BY <1>3, <2>1 DEF Unique, Holding
<1> DEFINE p == [i \in 1 .. Len(c) |-> CHOOSE k \in 1 .. n : nodes[k].revision = c[i]]
<1>9. ASSUME NEW i \in 1 .. Len(c) PROVE p[i] \in 1 .. n /\ nodes[p[i]].revision = c[i]
  <2>1. \E k \in 1 .. n : nodes[k].revision = c[i]
    BY <1>3, <1>7, UniqueFacts
  <2> QED
    BY <2>1
<1>10. p \in [1 .. Len(c) -> 1 .. n]
  <2> DEFINE place(i) == CHOOSE k \in 1 .. n : nodes[k].revision = c[i]
  <2>1. \A i \in 1 .. Len(c) : place(i) \in 1 .. n
    BY <1>9
  <2> HIDE DEF place
  <2>2. p = [i \in 1 .. Len(c) |-> place(i)]
    BY DEF place
  <2> QED
    BY <2>1, <2>2
<1> HIDE DEF p
<1>11. \A i, j \in 1 .. Len(c) : p[i] = p[j] => i = j
  BY <1>7, <1>9
<1>12. \A k \in 1 .. n : \E i \in 1 .. Len(c) : p[i] = k
  <2> TAKE k \in 1 .. n
  <2>1. PICK i \in 1 .. Len(c) : c[i] = nodes[k].revision
    BY <1>5, <1>6, <1>8 DEF ToSet
  <2>2. p[i] = k
    BY <1>8, <1>9, <2>1
  <2> QED
    BY <2>2
<1>13. Len(c) = n
  <2>1. p \in Injection(1 .. Len(c), 1 .. n) /\ p \in Surjection(1 .. Len(c), 1 .. n)
    BY <1>10, <1>11, <1>12 DEF Injection, IsInjective, Surjection
  <2>2. IsFiniteSet(1 .. n) /\ Cardinality(1 .. n) = n /\ Cardinality(1 .. Len(c)) = Len(c)
    BY <1>3, <1>5, IntervalSize
  <2> QED
    BY <2>1, <2>2, FS_Injection
<1>14. ASSUME NEW i \in 1 .. n
       PROVE  /\ NodeOf(c[i]) = nodes[p[i]] /\ nodes[p[i]].parents \in Seq(Id)
              /\ Len(nodes[p[i]].parents) \in {0, 1}
  <2>1. p[i] \in DOMAIN nodes /\ nodes[p[i]].revision = c[i] /\ c[i] \in Unique
    BY <1>3, <1>7, <1>9, <1>13
  <2>2. nodes[p[i]].parents \in Seq(Id) /\ ~ (Len(nodes[p[i]].parents) > 1)
    BY <2>1, NodeFacts, NoReasons
  <2>3. Len(nodes[p[i]].parents) \in {0, 1}
    <3> DEFINE q == nodes[p[i]].parents
    <3>1. q \in Seq(Id) /\ ~ (Len(q) > 1)
      BY <2>2
    <3> HIDE DEF q
    <3>2. Len(q) \in Nat
      BY <3>1
    <3> DEFINE size == Len(q)
    <3>3. size \in Nat /\ ~ (size > 1)
      BY <3>1, <3>2
    <3> HIDE DEF size
    <3>4. size \in {0, 1}
      BY <3>3
    <3> QED
      BY <3>4 DEF q, size
  <2> QED
    BY <2>1, <2>2, <2>3, UniqueFacts
<1>15. nodes[p[1]].parents = <<>>
  <2> SUFFICES ASSUME nodes[p[1]].parents # <<>> PROVE FALSE
    OBVIOUS
  <2> DEFINE q == nodes[p[1]].parents
  <2>1. 1 \in 1 .. n /\ p[1] \in DOMAIN nodes
    BY <1>3, <1>9, <1>13
  <2>2. q \in Seq(Id) /\ Len(q) = 1
    BY <1>14, <2>1
  <2>3. OnlyParent(c[1]) = q[1]
    BY <1>14, <2>1, <2>2 DEF OnlyParent
  <2>4. q[1] \in AllParents
    BY <2>1, <2>2 DEF AllParents, ToSet
  <2> QED
    BY <1>3, <1>4, <1>7, <1>13, <2>3, <2>4, NoReasons
<1>16. ASSUME NEW i \in 1 .. n, i # 1
       PROVE  nodes[p[i]].parents = <<nodes[p[i - 1]].revision>>
  <2> DEFINE q == nodes[p[i]].parents
  <2>1. i > 1 /\ i - 1 \in 1 .. n
    BY <1>3, <1>16
  <2>2. OnlyParent(c[i]) = c[i - 1] /\ c[i - 1] = nodes[p[i - 1]].revision
    BY <1>7, <1>9, <1>13, <2>1
  <2>3. c[i - 1] # NoId
    BY <1>7, <1>13, <2>1, UniqueFacts
  <2>4. NodeOf(c[i]) = nodes[p[i]] /\ q \in Seq(Id) /\ Len(q) \in {0, 1}
    BY <1>14
  <2>5. Len(q) = 1 /\ q[1] = c[i - 1]
    BY <2>2, <2>3, <2>4 DEF OnlyParent
  <2>6. q = <<q[1]>>
    BY <2>4, <2>5
  <2> QED
    BY <2>2, <2>5, <2>6
<1>17. c = ChainOf(p)
  BY <1>3, <1>5, <1>9, <1>13 DEF ChainOf
<1>18. ASSUME NEW i \in 1 .. n PROVE c[i] \in Changed <=> nodes[p[i]].changed
  <2>1. p[i] \in 1 .. n /\ nodes[p[i]].revision = c[i]
    BY <1>9, <1>13
  <2>2. ASSUME c[i] \in Changed PROVE nodes[p[i]].changed
    <3>1. PICK k \in 1 .. n : nodes[k].changed /\ nodes[k].revision = c[i]
      BY <1>3, <2>2 DEF Changed
    <3>2. k = p[i]
      BY <1>8, <2>1, <3>1
    <3> QED
      BY <3>1, <3>2
  <2>3. ASSUME nodes[p[i]].changed PROVE c[i] \in Changed
    BY <1>3, <2>1, <2>3 DEF Changed
  <2> QED
    BY <2>2, <2>3
<1>19. ASSUME NEW i \in 1 .. n, NEW j \in 1 .. n, NEW k \in 1 .. n, i < j, j < k,
              nodes[p[i]].changed, nodes[p[k]].changed
       PROVE  nodes[p[j]].changed
  <2>1. c = Target.chain
    BY <1>2 DEF c
  <2>2. i \in Positions /\ k \in Positions
    BY <1>5, <1>13, <1>18, <1>19, <2>1 DEF Positions
  <2>3. ChangedAreLinear
    BY <1>18, <1>19, NoReasons
  <2>4. j \in i .. k
    BY <1>19
  <2>5. j \in Positions
    BY <2>2, <2>3, <2>4 DEF ChangedAreLinear
  <2> QED
    BY <1>18, <2>1, <2>5 DEF Positions
<1>20. p \in LinearOrders
  <2>1. p \in [DOMAIN nodes -> DOMAIN nodes]
    BY <1>3, <1>10, <1>13
  <2>2. \A i, j \in DOMAIN nodes : i # j => p[i] # p[j]
    BY <1>3, <1>11, <1>13
  <2>3. \A i, j \in DOMAIN nodes : i # j => nodes[p[i]].revision # nodes[p[j]].revision
    BY <1>3, <1>7, <1>9, <1>13
  <2>4. \A i \in DOMAIN nodes :
          nodes[p[i]].parents = IF i = 1 THEN <<>> ELSE <<nodes[p[i - 1]].revision>>
    BY <1>3, <1>15, <1>16
  <2>5. \A i, j, k \in DOMAIN nodes :
          i < j /\ j < k /\ nodes[p[i]].changed /\ nodes[p[k]].changed
            => nodes[p[j]].changed
    BY <1>3, <1>19
  <2> QED
    BY <2>1, <2>2, <2>3, <2>4, <2>5 DEF LinearOrders
<1>21. p[n] = h
  <2>1. n \in 1 .. n /\ n = Len(c)
    BY <1>3, <1>13
  <2>2. nodes[p[n]].revision = head /\ p[n] \in 1 .. n
    BY <1>3, <1>7, <1>9, <2>1
  <2> QED
    BY <1>3, <1>8, <2>2 DEF head
<1> QED
  BY <1>1, <1>2, <1>17, <1>20, <1>21 DEF c, n

-----------------------------------------------------------------------------

(* What a linear order says of the revisions.                              *)
LEMMA LinearFacts ==
  ASSUME NodesType, nodes # <<>>, NEW p \in LinearOrders
  PROVE  /\ p \in [1 .. Len(nodes) -> 1 .. Len(nodes)]
         /\ \A k \in 1 .. Len(nodes) : \E i \in 1 .. Len(nodes) : p[i] = k
         /\ \A i, j \in 1 .. Len(nodes) : ChainOf(p)[i] = ChainOf(p)[j] => i = j
         /\ Unique = Revisions /\ Revisions = {ChainOf(p)[i] : i \in 1 .. Len(nodes)}
         /\ \A i \in 1 .. Len(nodes) :
              NodeOf(ChainOf(p)[i]).parents = IF i = 1 THEN <<>> ELSE <<ChainOf(p)[i - 1]>>
         /\ \A i \in 1 .. Len(nodes) :
              OnlyParent(ChainOf(p)[i]) = IF i = 1 THEN NoId ELSE ChainOf(p)[i - 1]
<1> DEFINE n == Len(nodes)
           c == ChainOf(p)
<1>1. n \in Nat /\ DOMAIN nodes = 1 .. n
  BY NodeFacts
<1> HIDE DEF n
<1>2. /\ p \in [1 .. n -> 1 .. n]
      /\ \A i, j \in 1 .. n : i # j => p[i] # p[j]
      /\ \A i, j \in 1 .. n : i # j => nodes[p[i]].revision # nodes[p[j]].revision
      /\ \A i \in 1 .. n :
           nodes[p[i]].parents = IF i = 1 THEN <<>> ELSE <<nodes[p[i - 1]].revision>>
  BY <1>1 DEF LinearOrders
<1>3. \A k \in 1 .. n : \E i \in 1 .. n : p[i] = k
  <2>1. IsFiniteSet(1 .. n) /\ Cardinality(1 .. n) = n
    BY <1>1, IntervalSize
  <2>2. p \in Injection(1 .. n, 1 .. n)
    BY <1>2 DEF Injection, IsInjective
  <2>3. p \in Surjection(1 .. n, 1 .. n)
    BY <2>1, <2>2, FS_Injection
  <2> QED
    BY <2>3 DEF Surjection
<1>4. \A i \in 1 .. n : c[i] = nodes[p[i]].revision
  BY <1>1 DEF ChainOf
<1> HIDE DEF c
<1>5. \A i, j \in 1 .. n : c[i] = c[j] => i = j
  BY <1>2, <1>4
<1>6. \A i, j \in 1 .. n : nodes[i].revision = nodes[j].revision => i = j
  <2> TAKE i, j \in 1 .. n
  <2>1. PICK a \in 1 .. n : p[a] = i
    BY <1>3
  <2>2. PICK b \in 1 .. n : p[b] = j
    BY <1>3
  <2> QED
    BY <1>2, <2>1, <2>2
<1>7. Unique = Revisions
  BY <1>1, <1>6 DEF Unique, Holding
<1>8. Revisions = {c[i] : i \in 1 .. n}
  <2>1. \A k \in 1 .. n : \E i \in 1 .. n : nodes[k].revision = c[i]
    BY <1>3, <1>4
  <2>2. \A i \in 1 .. n : p[i] \in 1 .. n
    BY <1>2
  <2>3. Revisions = {nodes[k].revision : k \in 1 .. n}
    BY <1>1 DEF Revisions
  <2>4. ASSUME NEW r \in Revisions PROVE r \in {c[i] : i \in 1 .. n}
    BY <2>1, <2>3
  <2>5. ASSUME NEW i \in 1 .. n PROVE c[i] \in Revisions
    BY <1>4, <2>2, <2>3
  <2> QED
    BY <2>4, <2>5
<1>9. ASSUME NEW i \in 1 .. n PROVE NodeOf(c[i]) = nodes[p[i]]
  <2>1. c[i] \in Unique /\ p[i] \in DOMAIN nodes
    BY <1>1, <1>2, <1>7, <1>8
  <2> QED
    BY <1>4, <2>1, UniqueFacts
<1>10. \A i \in 1 .. n : NodeOf(c[i]).parents = IF i = 1 THEN <<>> ELSE <<c[i - 1]>>
  <2> TAKE i \in 1 .. n
  <2>1. i # 1 => i - 1 \in 1 .. n
    BY <1>1
  <2>2. NodeOf(c[i]).parents =
          IF i = 1 THEN <<>> ELSE <<nodes[p[i - 1]].revision>>
    BY <1>2, <1>9
  <2>3. i # 1 => c[i - 1] = nodes[p[i - 1]].revision
    BY <1>4, <2>1
  <2> QED
    BY <2>2, <2>3
<1>11. ASSUME NEW i \in 1 .. n
       PROVE  OnlyParent(c[i]) = IF i = 1 THEN NoId ELSE c[i - 1]
  <2>1. CASE i = 1
    <3>1. NodeOf(c[i]).parents = <<>>
      BY <1>10, <2>1
    <3> QED
      BY <2>1, <3>1 DEF OnlyParent
  <2>2. CASE i # 1
    <3>1. NodeOf(c[i]).parents = <<c[i - 1]>>
      BY <1>10, <2>2
    <3> QED
      BY <2>2, <3>1 DEF OnlyParent
  <2> QED
    BY <2>1, <2>2
<1> QED
  BY <1>2, <1>3, <1>5, <1>7, <1>8, <1>10, <1>11 DEF n, c

(* The end of the order is the only head.                                  *)
LEMMA LinearHead ==
  ASSUME NodesType, nodes # <<>>, NEW p \in LinearOrders
  PROVE  Heads = {p[Len(nodes)]} /\ AllParents \subseteq Revisions
<1> DEFINE n == Len(nodes)
           c == ChainOf(p)
<1>1. n \in Nat /\ n > 0 /\ DOMAIN nodes = 1 .. n
  BY NodeFacts DEF NodesType
<1>2. \A i \in 1 .. n : c[i] = nodes[p[i]].revision
  BY <1>1 DEF ChainOf
<1>3. /\ p \in [1 .. n -> 1 .. n] /\ \A k \in 1 .. n : \E i \in 1 .. n : p[i] = k
      /\ \A i, j \in 1 .. n : c[i] = c[j] => i = j
      /\ Unique = Revisions /\ Revisions = {c[i] : i \in 1 .. n}
      /\ \A i \in 1 .. n : NodeOf(c[i]).parents = IF i = 1 THEN <<>> ELSE <<c[i - 1]>>
  BY LinearFacts
<1> HIDE DEF n, c
<1>4. ASSUME NEW i \in 1 .. n
      PROVE  ToSet(nodes[p[i]].parents) = IF i = 1 THEN {} ELSE {c[i - 1]}
  <2>1. c[i] \in Unique /\ p[i] \in DOMAIN nodes
    BY <1>1, <1>3
  <2>2. NodeOf(c[i]) = nodes[p[i]]
    BY <1>2, <2>1, UniqueFacts
  <2>3. CASE i = 1
    <3>1. nodes[p[i]].parents = <<>>
      BY <1>3, <2>2, <2>3
    <3> QED
      BY <2>3, <3>1 DEF ToSet
  <2>4. CASE i # 1
    <3>1. nodes[p[i]].parents = <<c[i - 1]>>
      BY <1>3, <2>2, <2>4
    <3> QED
      BY <2>4, <3>1 DEF ToSet
  <2> QED
    BY <2>3, <2>4
<1>5. ASSUME NEW r PROVE r \in AllParents <=> \E i \in 1 .. n : i # n /\ r = c[i]
  <2>1. ASSUME r \in AllParents PROVE \E i \in 1 .. n : i # n /\ r = c[i]
    <3>1. PICK k \in 1 .. n : r \in ToSet(nodes[k].parents)
      BY <1>1, <2>1 DEF AllParents
    <3>2. PICK j \in 1 .. n : p[j] = k
      BY <1>3
    <3>3. j # 1 /\ r = c[j - 1]
      BY <1>4, <3>1, <3>2
    <3>4. j - 1 \in 1 .. n /\ j - 1 # n
      BY <1>1, <3>3
    <3> QED
      BY <3>3, <3>4
  <2>2. ASSUME NEW i \in 1 .. n, i # n, r = c[i] PROVE r \in AllParents
    <3>1. i + 1 \in 1 .. n /\ i + 1 # 1 /\ (i + 1) - 1 = i
      BY <1>1, <2>2
    <3>2. r \in ToSet(nodes[p[i + 1]].parents)
      BY <1>4, <2>2, <3>1
    <3>3. p[i + 1] \in DOMAIN nodes
      BY <1>1, <1>3, <3>1
    <3> QED
      BY <3>2, <3>3 DEF AllParents
  <2> QED
    BY <2>1, <2>2
<1>6. AllParents \subseteq Revisions
  BY <1>3, <1>5
<1>7. n \in 1 .. n
  BY <1>1
<1>8. p[n] \in Heads
  <2>1. p[n] \in DOMAIN nodes /\ nodes[p[n]].revision = c[n]
    BY <1>1, <1>2, <1>3, <1>7
  <2>2. ~ \E i \in 1 .. n : i # n /\ c[n] = c[i]
    BY <1>3, <1>7
  <2>3. nodes[p[n]].revision \notin AllParents
    BY <1>5, <2>1, <2>2
  <2> QED
    BY <2>1, <2>3 DEF Heads
<1>9. ASSUME NEW k \in Heads PROVE k = p[n]
  <2>1. k \in 1 .. n /\ nodes[k].revision \notin AllParents
    BY <1>1 DEF Heads
  <2>2. PICK i \in 1 .. n : p[i] = k
    BY <1>3, <2>1
  <2> QED
    BY <1>2, <1>5, <2>1, <2>2
<1> QED
  BY <1>6, <1>8, <1>9 DEF n

(* The search finds no cycle in a linear order.                            *)
LEMMA LinearHasNoCycle ==
  ASSUME NodesType, nodes # <<>>, NEW p \in LinearOrders
  PROVE  ~ HasRevisionCycle
<1> DEFINE n == Len(nodes)
           c == ChainOf(p)
           place(r) == CHOOSE i \in 1 .. n : c[i] = r
           rank == [r \in Id |-> IF r \in Unique THEN place(r) ELSE 1]
<1>1. n \in Nat /\ n > 0 /\ DOMAIN nodes = 1 .. n
  BY NodeFacts DEF NodesType
<1>2. /\ \A i, j \in 1 .. n : c[i] = c[j] => i = j
      /\ Unique = Revisions /\ Revisions = {c[i] : i \in 1 .. n}
      /\ \A i \in 1 .. n : NodeOf(c[i]).parents = IF i = 1 THEN <<>> ELSE <<c[i - 1]>>
  BY LinearFacts
<1> HIDE DEF n, c
<1>3. \A i \in 1 .. n : place(c[i]) = i
  BY <1>2
<1> HIDE DEF place
<1>4. n <= MaxFiles
  <2> DEFINE ids == [i \in 1 .. n |-> c[i]]
  <2>1. \A i \in 1 .. n : c[i] \in 1 .. MaxFiles
    <3> TAKE i \in 1 .. n
    <3>1. PICK k \in DOMAIN nodes : c[i] = nodes[k].revision
      BY <1>2 DEF Revisions
    <3> QED
      BY <3>1, NodeFacts
  <2>2. ids \in Injection(1 .. n, 1 .. MaxFiles)
    BY <1>2, <2>1 DEF Injection, IsInjective
  <2>3. /\ Cardinality(1 .. n) = n
        /\ IsFiniteSet(1 .. MaxFiles) /\ Cardinality(1 .. MaxFiles) = MaxFiles
    BY <1>1, FilesAssumption, IntervalSize
  <2> QED
    BY <2>2, <2>3, FS_Injection
<1>5. rank \in [Id -> 1 .. Cardinality(Id)]
  <2>1. \A r \in Unique : place(r) \in 1 .. n
    BY <1>2, <1>3
  <2>2. Cardinality(Id) = MaxFiles + 1
    BY SearchType
  <2> QED
    BY <1>1, <1>4, <2>1, <2>2, FilesAssumption
<1>6. Falls(BelowOf, Id, rank)
  <2>1. ASSUME NEW r \in Id, NEW k \in DOMAIN BelowOf[r]
        PROVE  BelowOf[r][k] \in Id /\ rank[BelowOf[r][k]] < rank[r]
    <3>1. r \in Unique
      BY <2>1 DEF BelowOf
    <3>2. PICK i \in 1 .. n : r = c[i]
      BY <1>2, <3>1
    <3>3. BelowOf[r] = NodeOf(c[i]).parents
      BY <3>1, <3>2 DEF BelowOf
    <3>4. i # 1
      <4> SUFFICES ASSUME i = 1 PROVE FALSE
        OBVIOUS
      <4>1. BelowOf[r] = <<>>
        BY <1>2, <3>3
      <4> QED
        BY <2>1, <4>1
    <3>5. BelowOf[r] = <<c[i - 1]>> /\ k = 1
      <4>1. BelowOf[r] = <<c[i - 1]>>
        BY <1>2, <3>3, <3>4
      <4> QED
        BY <2>1, <4>1
    <3>6. i - 1 \in 1 .. n /\ c[i - 1] \in Unique
      BY <1>1, <1>2, <3>4
    <3>7. rank[c[i - 1]] = i - 1 /\ rank[r] = i /\ c[i - 1] \in Id
      BY <1>3, <3>1, <3>2, <3>6, UniqueFacts
    <3> QED
      BY <1>1, <3>5, <3>7
  <2> QED
    BY <2>1 DEF Falls
<1> HIDE DEF rank
<1> QED
  BY <1>5, <1>6, SearchType, RankedHasNoCycle

(* From the head of a linear order the loop walks all of it.               *)
LEMMA LinearIsWalked ==
  ASSUME NodesType, nodes # <<>>, NEW p \in LinearOrders
  PROVE  Target.chain = ChainOf(p) /\ ~ Target.cyclic
<1> DEFINE n == Len(nodes)
           c == ChainOf(p)
           w == Walk(c[n])
           d == w.chain
           m == Len(d)
<1>1. n \in Nat /\ n > 0 /\ DOMAIN nodes = 1 .. n /\ n \in 1 .. n
  BY NodeFacts DEF NodesType
<1>2. /\ p \in [1 .. n -> 1 .. n]
      /\ \A i, j \in 1 .. n : c[i] = c[j] => i = j
      /\ Unique = Revisions /\ Revisions = {c[i] : i \in 1 .. n}
      /\ \A i \in 1 .. n : OnlyParent(c[i]) = IF i = 1 THEN NoId ELSE c[i - 1]
  BY LinearFacts
<1>3. c = [i \in 1 .. n |-> nodes[p[i]].revision]
  BY <1>1 DEF ChainOf
<1>4. Target = w
  <2>1. Heads = {p[n]} /\ p[n] \in DOMAIN nodes
    BY <1>1, <1>2, LinearHead
  <2>2. (CHOOSE i \in DOMAIN nodes : Heads = {i}) = p[n]
    BY <2>1
  <2>3. c[n] = nodes[p[n]].revision
    BY <1>1, <1>3
  <2> QED
    BY <2>1, <2>2, <2>3 DEF Target
<1> HIDE DEF n, c, w
<1>5. c[n] \in Unique /\ c[n] \in Id
  BY <1>1, <1>2, UniqueFacts
<1>6. /\ w \in WalkState /\ Linked(c[n], w)
      /\ ~ w.cyclic => w.current \notin Unique
  BY <1>5, WalkFacts DEF w
<1>7. d \in Seq(Id) /\ m \in Nat /\ DOMAIN d = 1 .. m
      /\ ToSet(d) = {d[i] : i \in 1 .. m}
  BY <1>6 DEF WalkState, ToSet
<1>8. /\ \A i \in 1 .. m : d[i] \in Unique
      /\ \A i, j \in 1 .. m : d[i] = d[j] => i = j
      /\ \A i \in 1 .. m : i > 1 => OnlyParent(d[i]) = d[i - 1]
      /\ m = 0 => w.current = c[n]
      /\ m > 0 => d[m] = c[n] /\ w.current = OnlyParent(d[1])
      /\ w.cyclic => w.current \in ToSet(d)
  BY <1>6 DEF Linked
<1> HIDE DEF d, m
<1>9. m > 0
  BY <1>5, <1>6, <1>7, <1>8
<1>10. \A k \in 0 .. m - 1 : k < n /\ d[m - k] = c[n - k]
  <2> DEFINE T == {k \in 0 .. m - 1 : k < n /\ d[m - k] = c[n - k]}
  <2>1. 0 \in T
    BY <1>1, <1>7, <1>8, <1>9
  <2>2. ASSUME NEW k \in 1 .. m - 1, k - 1 \in T PROVE k \in T
    <3>1. /\ m - (k - 1) \in 1 .. m /\ m - (k - 1) > 1
          /\ (m - (k - 1)) - 1 = m - k /\ m - k \in 1 .. m
      BY <1>7
    <3>2. OnlyParent(d[m - (k - 1)]) = d[m - k]
      BY <1>8, <3>1
    <3>3. k - 1 < n /\ d[m - (k - 1)] = c[n - (k - 1)] /\ n - (k - 1) \in 1 .. n
      BY <1>1, <1>7, <2>2
    <3>4. d[m - k] # NoId
      BY <1>8, <3>1, UniqueFacts
    <3>5. n - (k - 1) # 1
      BY <1>2, <3>2, <3>3, <3>4
    <3>6. d[m - k] = c[(n - (k - 1)) - 1]
      BY <1>2, <3>2, <3>3, <3>5
    <3>7. k < n /\ (n - (k - 1)) - 1 = n - k
      BY <1>1, <1>7, <3>3, <3>5
    <3> QED
      BY <3>6, <3>7
  <2> HIDE DEF T
  <2>3. m - 1 \in Nat
    BY <1>7, <1>9
  <2>4. \A k \in 0 .. m - 1 : k \in T
    BY <2>1, <2>2, <2>3, InductionUpto
  <2> QED
    BY <2>4 DEF T
<1>11. \A i \in 1 .. m : n - m + i \in 1 .. n /\ d[i] = c[n - m + i]
  <2> TAKE i \in 1 .. m
  <2>1. m - i \in 0 .. m - 1 /\ m - (m - i) = i /\ n - (m - i) = n - m + i
    BY <1>1, <1>7
  <2>2. m - i < n /\ d[m - (m - i)] = c[n - (m - i)]
    BY <1>10, <2>1
  <2> QED
    BY <1>1, <1>7, <2>1, <2>2
<1>12. /\ 1 \in 1 .. m /\ d[1] = c[n - m + 1] /\ n - m + 1 \in 1 .. n
  BY <1>7, <1>9, <1>11
<1>13. n - m + 1 = 1
  <2> SUFFICES ASSUME n - m + 1 # 1 PROVE FALSE
    OBVIOUS
  <2>1. (n - m + 1) - 1 = n - m /\ n - m \in 1 .. n
    BY <1>1, <1>7, <1>12
  <2>2. w.current = c[n - m]
    BY <1>2, <1>8, <1>9, <1>12, <2>1
  <2>3. w.current \in Unique
    BY <1>2, <2>1, <2>2
  <2>4. PICK i \in 1 .. m : d[i] = c[n - m]
    BY <1>6, <1>7, <1>8, <2>2, <2>3
  <2>5. n - m + i = n - m
    BY <1>2, <1>11, <2>1, <2>4
  <2> QED
    BY <1>1, <1>7, <2>5
<1>14. m = n /\ \A i \in 1 .. n : d[i] = c[i]
  <2>1. m = n
    BY <1>1, <1>7, <1>13
  <2>2. \A i \in 1 .. n : n - m + i = i
    BY <1>1, <2>1
  <2> QED
    BY <1>11, <2>1, <2>2
<1>15. d = c
  BY <1>3, <1>7, <1>14
<1>16. ~ w.cyclic
  <2>1. w.current = NoId
    BY <1>2, <1>8, <1>9, <1>12, <1>13
  <2>2. NoId \notin ToSet(d)
    BY <1>7, <1>8, UniqueFacts
  <2> QED
    BY <1>8, <2>1, <2>2
<1> QED
  BY <1>4, <1>15, <1>16 DEF c, d

LEMMA LinearHasNoReason ==
  ASSUME NodesType, nodes # <<>>, reasons = {}, NEW p \in LinearOrders
  PROVE  AllReasons = {}
<1> DEFINE n == Len(nodes)
           c == ChainOf(p)
<1>1. n \in Nat /\ n > 0 /\ DOMAIN nodes = 1 .. n
  BY NodeFacts DEF NodesType
<1>2. /\ p \in [1 .. n -> 1 .. n] /\ \A k \in 1 .. n : \E i \in 1 .. n : p[i] = k
      /\ \A i, j \in 1 .. n : c[i] = c[j] => i = j
      /\ Unique = Revisions /\ Revisions = {c[i] : i \in 1 .. n}
      /\ \A i \in 1 .. n : NodeOf(c[i]).parents = IF i = 1 THEN <<>> ELSE <<c[i - 1]>>
  BY LinearFacts
<1>3. c = [i \in 1 .. n |-> nodes[p[i]].revision]
  BY <1>1 DEF ChainOf
<1>4. Target.chain = c /\ ~ Target.cyclic
  BY LinearIsWalked
<1>5. \A i, j, k \in 1 .. n :
        i < j /\ j < k /\ nodes[p[i]].changed /\ nodes[p[k]].changed => nodes[p[j]].changed
  BY <1>1 DEF LinearOrders
<1> HIDE DEF n, c
<1>6. ASSUME NEW k \in DOMAIN nodes PROVE ~ (Len(nodes[k].parents) > 1)
  <2>1. PICK i \in 1 .. n : p[i] = k
    BY <1>1, <1>2
  <2>2. c[i] \in Unique /\ nodes[k].revision = c[i]
    BY <1>2, <1>3, <2>1
  <2>3. NodeOf(c[i]) = nodes[k]
    BY <2>2, UniqueFacts
  <2>4. nodes[k].parents = IF i = 1 THEN <<>> ELSE <<c[i - 1]>>
    BY <1>2, <2>3
  <2> QED
    BY <2>4
<1>7. Heads = {p[n]} /\ AllParents \subseteq Unique
  BY <1>2, LinearHead DEF n
<1>8. ToSet(Target.chain) = Unique
  <2>1. DOMAIN c = 1 .. n
    BY <1>3
  <2>2. ToSet(c) = {c[i] : i \in 1 .. n}
    BY <2>1 DEF ToSet
  <2> QED
    BY <1>2, <1>4, <2>2
<1>9. ASSUME NEW i \in 1 .. n PROVE c[i] \in Changed <=> nodes[p[i]].changed
  <2>1. nodes[p[i]].changed => c[i] \in Changed
    BY <1>1, <1>2, <1>3 DEF Changed
  <2>2. ASSUME c[i] \in Changed PROVE nodes[p[i]].changed
    <3>1. PICK k \in 1 .. n : nodes[k].changed /\ nodes[k].revision = c[i]
      BY <1>1, <2>2 DEF Changed
    <3>2. PICK j \in 1 .. n : p[j] = k
      BY <1>2
    <3>3. c[j] = c[i]
      BY <1>3, <3>1, <3>2
    <3> QED
      BY <1>2, <3>1, <3>2, <3>3
  <2> QED
    BY <2>1, <2>2
<1>10. Positions = {i \in 1 .. n : nodes[p[i]].changed}
  BY <1>3, <1>4, <1>9 DEF Positions
<1>11. OrderedChanged = Changed
  <2>1. ASSUME NEW r \in Changed PROVE r \in OrderedChanged
    <3>1. r \in Revisions
      BY <2>1 DEF Changed, Revisions
    <3>2. PICK i \in 1 .. n : r = c[i]
      BY <1>2, <3>1
    <3>3. i \in Positions
      BY <1>9, <1>10, <2>1, <3>2
    <3> QED
      BY <1>4, <3>2, <3>3 DEF OrderedChanged
  <2>2. OrderedChanged \subseteq Changed
    BY DEF OrderedChanged, Positions
  <2> QED
    BY <2>1, <2>2
<1>12. ASSUME NEW i \in Positions, NEW k \in Positions, NEW j \in i .. k
       PROVE  j \in Positions
  <2>1. i \in 1 .. n /\ k \in 1 .. n /\ nodes[p[i]].changed /\ nodes[p[k]].changed
    BY <1>10
  <2>2. j \in 1 .. n /\ (j = i \/ j = k \/ (i < j /\ j < k))
    BY <1>1, <2>1
  <2>3. nodes[p[j]].changed
    BY <1>5, <2>1, <2>2
  <2> QED
    BY <1>10, <2>2, <2>3
<1>13. ChangedAreLinear
  BY <1>11, <1>12 DEF ChangedAreLinear
<1>14. ~ HasRevisionCycle /\ \A i, j \in Heads : i = j
  BY <1>7, LinearHasNoCycle
<1> QED
  BY <1>2, <1>4, <1>6, <1>7, <1>8, <1>13, <1>14, NoReason

-----------------------------------------------------------------------------

(* What is executed above the baseline, for the chain of a linear order.   *)
LEMMA BaselineIsBelow ==
  ASSUME NodesType, nodes # <<>>, AllReasons = {}, NEW p \in LinearOrders,
         Target.chain = ChainOf(p)
  PROVE  LET c == Target.chain
             start == {i \in DOMAIN c : c[i] = Baseline} IN
         /\ start = {} => Baseline = NoId
         /\ \A i \in DOMAIN c : c[i] \in Changed => \A s \in start : s < i
         /\ Changed # {} /\ start = {} => c[1] \in Changed
         /\ \A s \in start : c[s + 1] \in Changed
<1> DEFINE n == Len(nodes)
           c == ChainOf(p)
           start == {i \in 1 .. n : c[i] = Baseline}
<1>1. n \in Nat /\ DOMAIN nodes = 1 .. n /\ DOMAIN c = 1 .. n
  BY NodeFacts DEF ChainOf
<1>2. /\ \A i, j \in 1 .. n : c[i] = c[j] => i = j
      /\ \A i \in 1 .. n : c[i] \in Unique
      /\ \A i \in 1 .. n : OnlyParent(c[i]) = IF i = 1 THEN NoId ELSE c[i - 1]
  BY LinearFacts
<1>3. Target.chain = c
  OBVIOUS
<1> HIDE DEF n, c
<1>4. \A i \in 1 .. n : c[i] # NoId
  BY <1>2, UniqueFacts
<1>5. Positions = {i \in 1 .. n : c[i] \in Changed}
  BY <1>1, <1>3 DEF Positions
<1>6. Changed # {} => Positions # {}
  BY NoReasons DEF ChangedAreLinear, OrderedChanged
<1>7. CASE Positions = {}
  <2>1. start = {} /\ Baseline = NoId /\ Changed = {}
    BY <1>4, <1>6, <1>7 DEF Baseline
  <2> QED
    BY <1>1, <1>3, <2>1
<1>8. CASE Positions # {}
  <2>1. PICK m \in Positions : \A j \in Positions : m <= j
    <3>1. Positions \subseteq Nat
      BY <1>1, <1>5
    <3> QED
      BY <1>8, <3>1, LeastNumber
  <2>2. m \in 1 .. n /\ c[m] \in Changed
    BY <1>5, <2>1
  <2>3. (CHOOSE i \in Positions : \A j \in Positions : i <= j) = m
    <3>1. \A i \in Positions : (\A j \in Positions : i <= j) => i = m
      BY <1>1, <1>5, <2>1
    <3> QED
      BY <2>1, <3>1
  <2>4. Baseline = IF m = 1 THEN NoId ELSE c[m - 1]
    BY <1>2, <1>3, <1>8, <2>2, <2>3 DEF Baseline
  <2>5. CASE m = 1
    <3>1. start = {} /\ Baseline = NoId
      BY <1>4, <2>4, <2>5
    <3> QED
      BY <1>1, <1>3, <2>2, <2>5, <3>1
  <2>6. CASE m # 1
    <3>1. m - 1 \in 1 .. n /\ (m - 1) + 1 = m
      BY <1>1, <2>2, <2>6
    <3>2. start = {m - 1}
      BY <1>2, <2>4, <2>6, <3>1
    <3>3. \A i \in 1 .. n : c[i] \in Changed => m - 1 < i
      BY <1>1, <1>5, <2>1, <2>2
    <3> HIDE DEF start
    <3> QED
      BY <1>1, <1>3, <2>2, <3>1, <3>2, <3>3 DEF start
  <2> QED
    BY <2>5, <2>6
<1> QED
  BY <1>7, <1>8

-----------------------------------------------------------------------------

GraphInv == NodesType /\ SupportedIsLinear /\ ChangesAboveBaseline

LEMMA SameNodes ==
  ASSUME nodes' = nodes
  PROVE  LinearOrders' = LinearOrders /\ Changed' = Changed
BY DEF LinearOrders, Changed

LEMMA BuildStep ==
  ASSUME NodesType, BuildGraph
  PROVE  SupportedIsLinear' /\ ChangesAboveBaseline'
<1>1. /\ nodes' = nodes /\ reasons' = reasons
      /\ graph'.heads = Heads /\ graph'.chain = Target.chain /\ graph'.baseline = Baseline
      /\ graph'.supported = (AllReasons = {} /\ nodes # <<>>)
  BY DEF BuildGraph
<1>2. LinearOrders' = LinearOrders /\ Changed' = Changed
  BY <1>1, SameNodes
<1>3. AllReasons = {} /\ nodes # <<>> =>
        /\ reasons = {}
        /\ \E p \in LinearOrders : Heads = {p[Len(nodes)]} /\ Target.chain = ChainOf(p)
  BY NoReasonIsLinear, NoReasons
<1>4. nodes # <<>> /\ reasons = {} /\ LinearOrders # {} => AllReasons = {}
  BY LinearHasNoReason
<1>5. SupportedIsLinear'
  <2>1. graph'.supported <=> nodes' # <<>> /\ reasons' = {} /\ LinearOrders' # {}
    BY <1>1, <1>2, <1>3, <1>4
  <2>2. graph'.supported =>
          \E p \in LinearOrders' :
            /\ graph'.heads = {p[Len(nodes')]}
            /\ graph'.chain = [i \in DOMAIN nodes' |-> nodes'[p[i]].revision]
    <3> SUFFICES ASSUME graph'.supported
                 PROVE  \E p \in LinearOrders' :
                          /\ graph'.heads = {p[Len(nodes')]}
                          /\ graph'.chain = [i \in DOMAIN nodes' |-> nodes'[p[i]].revision]
      OBVIOUS
    <3>1. PICK p \in LinearOrders : Heads = {p[Len(nodes)]} /\ Target.chain = ChainOf(p)
      BY <1>1, <1>3
    <3>2. graph'.heads = {p[Len(nodes')]}
      BY <1>1, <3>1
    <3>3. graph'.chain = [i \in DOMAIN nodes' |-> nodes'[p[i]].revision]
      BY <1>1, <3>1 DEF ChainOf
    <3> QED
      BY <1>2, <3>2, <3>3
  <2> QED
    BY <2>1, <2>2 DEF SupportedIsLinear
<1>6. ChangesAboveBaseline'
  <2> SUFFICES ASSUME AllReasons = {}, nodes # <<>> PROVE ChangesAboveBaseline'
    BY <1>1 DEF ChangesAboveBaseline
  <2>1. PICK p \in LinearOrders : Target.chain = ChainOf(p)
    BY <1>3
  <2>2. LET c == Target.chain
            start == {i \in DOMAIN c : c[i] = Baseline} IN
        /\ start = {} => Baseline = NoId
        /\ \A i \in DOMAIN c : c[i] \in Changed => \A s \in start : s < i
        /\ Changed # {} /\ start = {} => c[1] \in Changed
        /\ \A s \in start : c[s + 1] \in Changed
    BY <2>1, BaselineIsBelow
  <2>3. LET start == {i \in DOMAIN graph'.chain : graph'.chain[i] = graph'.baseline} IN
        /\ start = {} => graph'.baseline = NoId
        /\ \A i \in DOMAIN graph'.chain : graph'.chain[i] \in Changed => \A s \in start : s < i
        /\ Changed # {} /\ start = {} => graph'.chain[1] \in Changed
        /\ \A s \in start : graph'.chain[s + 1] \in Changed
    <3>1. graph'.chain = Target.chain /\ graph'.baseline = Baseline
      BY <1>1
    <3> HIDE <1>1
    <3> QED
      BY <3>1, <2>2
  <2>4. LET start == {i \in DOMAIN graph'.chain : graph'.chain[i] = graph'.baseline} IN
        /\ start = {} => graph'.baseline = NoId
        /\ \A i \in DOMAIN graph'.chain : graph'.chain[i] \in Changed' => \A s \in start : s < i
        /\ Changed' # {} /\ start = {} => graph'.chain[1] \in Changed'
        /\ \A s \in start : graph'.chain[s + 1] \in Changed'
    BY <1>2, <2>3, Zenon
  <2> QED
    BY <2>4, Zenon DEF ChangesAboveBaseline
<1> QED
  BY <1>5, <1>6

LEMMA GraphStep ==
  ASSUME GraphInv, [Discover]_graphVars
  PROVE  GraphInv'
<1>1. ASSUME NEW node \in Node, NEW complaints \in NodeComplaints,
             ParseRevision(node, complaints)
      PROVE  GraphInv'
  <2>1. nodes' \in Seq(Node)
    BY <1>1 DEF GraphInv, NodesType, ParseRevision
  <2>2. ~ Built'
    BY <1>1 DEF ParseRevision, Discovering, Built
  <2> QED
    BY <2>1, <2>2 DEF GraphInv, NodesType, SupportedIsLinear, ChangesAboveBaseline
<1>2. ASSUME NEW complaints \in FileComplaints, SkipRevision(complaints)
      PROVE  GraphInv'
  <2>1. NodesType' /\ ~ Built'
    BY <1>2 DEF GraphInv, NodesType, SkipRevision, Discovering, Built
  <2> QED
    BY <2>1 DEF GraphInv, SupportedIsLinear, ChangesAboveBaseline
<1>3. CASE RefuseFile
  <2>1. NodesType' /\ ~ Built'
    BY <1>3 DEF GraphInv, NodesType, RefuseFile, NoGraph, Built
  <2> QED
    BY <2>1 DEF GraphInv, SupportedIsLinear, ChangesAboveBaseline
<1>4. CASE BuildGraph
  <2>1. NodesType /\ NodesType'
    BY <1>4 DEF GraphInv, NodesType, BuildGraph
  <2> QED
    BY <1>4, <2>1, BuildStep DEF GraphInv
<1>5. CASE UNCHANGED graphVars
  <2>1. nodes' = nodes /\ reasons' = reasons /\ graph' = graph
    BY <1>5 DEF graphVars
  <2>2. LinearOrders' = LinearOrders /\ Changed' = Changed
    BY <2>1, SameNodes
  <2>3. NodesType'
    BY <2>1 DEF GraphInv, NodesType
  <2>4. SupportedIsLinear'
    <3>1. SupportedIsLinear /\ (Built' => Built)
      BY <2>1 DEF GraphInv, Built
    <3>2. Built' => (graph'.supported <=> nodes' # <<>> /\ reasons' = {} /\ LinearOrders' # {})
      BY <2>1, <2>2, <3>1 DEF SupportedIsLinear
    <3>3. ASSUME Built', graph'.supported
          PROVE  \E p \in LinearOrders' :
                   /\ graph'.heads = {p[Len(nodes')]}
                   /\ graph'.chain = [i \in DOMAIN nodes' |-> nodes'[p[i]].revision]
      <4>1. PICK p \in LinearOrders :
              /\ graph.heads = {p[Len(nodes)]}
              /\ graph.chain = [i \in DOMAIN nodes |-> nodes[p[i]].revision]
        BY <2>1, <3>1, <3>3 DEF SupportedIsLinear
      <4> QED
        BY <2>1, <2>2, <4>1
    <3> QED
      BY <3>2, <3>3 DEF SupportedIsLinear
  <2>5. ChangesAboveBaseline'
    BY <2>1, <2>2 DEF GraphInv, Built, ChangesAboveBaseline
  <2> QED
    BY <2>3, <2>4, <2>5 DEF GraphInv
<1> QED
  BY <1>1, <1>2, <1>3, <1>4, <1>5 DEF Discover

THEOREM GraphInvariant == GraphSpec => []GraphInv
<1>1. GraphInit => GraphInv
  BY DEF GraphInit, NoGraph, Built, GraphInv, NodesType, SupportedIsLinear,
         ChangesAboveBaseline
<1>2. GraphInv /\ [Discover]_graphVars => GraphInv'
  BY GraphStep
<1> QED
  BY <1>1, <1>2, PTL DEF GraphSpec

THEOREM SupportedAlwaysLinear == GraphSpec => []SupportedIsLinear
<1>1. GraphInv => SupportedIsLinear
  BY DEF GraphInv
<1> QED
  BY <1>1, GraphInvariant, PTL

THEOREM ChangesAlwaysAboveBaseline == GraphSpec => []ChangesAboveBaseline
<1>1. GraphInv => ChangesAboveBaseline
  BY DEF GraphInv
<1> QED
  BY <1>1, GraphInvariant, PTL

-----------------------------------------------------------------------------
(* The plan (PlanValidator).                                               *)

StepsType == steps \in Seq(Step) /\ Len(steps) <= MaxSteps

DistinctIds ==
  \A i, j \in 1 .. Len(steps) : steps[i].id = steps[j].id => i = j

DistinctCapabilities ==
  \A i, j \in 1 .. Len(steps) : steps[i].capability = steps[j].capability => i = j

LEMMA CatalogFacts ==
  /\ Catalog \in Seq(Capability) /\ DOMAIN Catalog = 1 .. Len(Catalog) /\ Len(Catalog) \in Nat
  /\ \A i, j \in 1 .. Len(Catalog) : Catalog[i] = Catalog[j] => i = j
  /\ Capability = {Catalog[i] : i \in 1 .. Len(Catalog)}
BY CatalogAssumption DEF Capability, ToSet, IsInjective

LEMMA StepFacts ==
  ASSUME StepsType
  PROVE  /\ Len(steps) \in Nat /\ DOMAIN steps = 1 .. Len(steps)
         /\ \A i \in 1 .. Len(steps) :
              /\ steps[i].id \in 1 .. MaxSteps /\ steps[i].id \in StepId
              /\ steps[i].capability \in Capability /\ steps[i].within \in BOOLEAN
              /\ steps[i].depends_on \in Seq(StepId)
              /\ Len(steps[i].depends_on) \in Nat
              /\ Len(steps[i].depends_on) <= MaxDepends
              /\ DOMAIN steps[i].depends_on = 1 .. Len(steps[i].depends_on)
<1>1. Len(steps) \in Nat /\ DOMAIN steps = 1 .. Len(steps)
  BY DEF StepsType
<1>2. ASSUME NEW d \in Dependencies
      PROVE  d \in Seq(StepId) /\ Len(d) \in Nat /\ Len(d) <= MaxDepends /\ DOMAIN d = 1 .. Len(d)
  <2>1. PICK n \in 0 .. MaxDepends : d \in [1 .. n -> StepId]
    BY DEF Dependencies
  <2>2. n \in Nat
    BY <2>1
  <2>3. d \in Seq(StepId) /\ Len(d) = n
    BY <2>1, <2>2
  <2> QED
    BY <2>1, <2>2, <2>3
<1>3. ASSUME NEW i \in 1 .. Len(steps)
      PROVE  /\ steps[i].id \in 1 .. MaxSteps /\ steps[i].capability \in Capability
             /\ steps[i].within \in BOOLEAN /\ steps[i].depends_on \in Dependencies
  <2>1. steps[i] \in Step
    BY DEF StepsType
  <2> QED
    BY <2>1 DEF Step
<1>4. 1 .. MaxSteps \subseteq StepId
  BY StepsAssumption DEF StepId
<1> QED
  BY <1>1, <1>2, <1>3, <1>4

LEMMA KeysAreCounted ==
  ASSUME StepsType
  PROVE  /\ Cardinality(IdOf) = Len(steps) <=> DistinctIds
         /\ Cardinality(CapabilitiesOf) = Len(steps) <=> DistinctCapabilities
<1> DEFINE f == [i \in 1 .. Len(steps) |-> steps[i].id]
           g == [i \in 1 .. Len(steps) |-> steps[i].capability]
<1>1. Len(steps) \in Nat /\ DOMAIN steps = 1 .. Len(steps)
  BY StepFacts
<1>2. Cardinality({f[i] : i \in 1 .. Len(steps)}) = Len(steps)
        <=> \A i, j \in 1 .. Len(steps) : f[i] = f[j] => i = j
  <2>1. DOMAIN f = 1 .. Len(steps) /\ f = [i \in 1 .. Len(steps) |-> f[i]]
    OBVIOUS
  <2> HIDE DEF f
  <2> QED
    BY <1>1, <2>1, AllDistinct
<1>3. Cardinality({g[i] : i \in 1 .. Len(steps)}) = Len(steps)
        <=> \A i, j \in 1 .. Len(steps) : g[i] = g[j] => i = j
  <2>1. DOMAIN g = 1 .. Len(steps) /\ g = [i \in 1 .. Len(steps) |-> g[i]]
    OBVIOUS
  <2> HIDE DEF g
  <2> QED
    BY <1>1, <2>1, AllDistinct
<1>4. IdOf = {f[i] : i \in 1 .. Len(steps)}
  BY <1>1 DEF IdOf
<1>5. CapabilitiesOf = {g[i] : i \in 1 .. Len(steps)}
  BY <1>1 DEF CapabilitiesOf
<1>6. DistinctIds <=> \A i, j \in 1 .. Len(steps) : f[i] = f[j] => i = j
  BY DEF DistinctIds
<1>7. DistinctCapabilities <=> \A i, j \in 1 .. Len(steps) : g[i] = g[j] => i = j
  BY DEF DistinctCapabilities
<1> QED
  BY <1>2, <1>3, <1>4, <1>5, <1>6, <1>7

LEMMA LastOfOne ==
  ASSUME NEW i \in Int PROVE LastOf({i}) = i
BY DEF LastOf

LEMMA StepByKey ==
  ASSUME StepsType, NEW i \in 1 .. Len(steps)
  PROVE  /\ DistinctIds => ById(steps[i].id) = steps[i]
         /\ DistinctCapabilities => ByCapability(steps[i].capability) = steps[i]
<1>1. DOMAIN steps = 1 .. Len(steps)
  BY StepFacts
<1>2. ASSUME DistinctIds PROVE ById(steps[i].id) = steps[i]
  <2>1. {j \in DOMAIN steps : steps[j].id = steps[i].id} = {i}
    BY <1>1, <1>2 DEF DistinctIds
  <2> QED
    BY <2>1, LastOfOne DEF ById
<1>3. ASSUME DistinctCapabilities PROVE ByCapability(steps[i].capability) = steps[i]
  <2>1. {j \in DOMAIN steps : steps[j].capability = steps[i].capability} = {i}
    BY <1>1, <1>3 DEF DistinctCapabilities
  <2> QED
    BY <2>1, LastOfOne DEF ByCapability
<1> QED
  BY <1>2, <1>3

-----------------------------------------------------------------------------

SearchState == [pending : Seq(StepId), found : SUBSET Capability]

Goes(search) == IF search.pending = <<>> THEN search ELSE Popped(search)

Rounds == MaxDepends * (Cardinality(Capability) + 1)

(* The last pending id is no step's, or that of one whose capability was   *)
(* found; or it is that of a step whose dependencies are pending next.     *)
Skips(s, id, rest) ==
  /\ Popped(s).pending = rest /\ Popped(s).found = s.found
  /\ \A j \in 1 .. Len(steps) : steps[j].id = id => steps[j].capability \in s.found

TakesUp(s, id, rest, j) ==
  /\ steps[j].id = id /\ steps[j].capability \notin s.found
  /\ Popped(s).found = s.found \union {steps[j].capability}
  /\ ToSet(Popped(s).pending) = ToSet(rest) \union ToSet(steps[j].depends_on)
  /\ Len(Popped(s).pending) = Len(rest) + Len(steps[j].depends_on)

Pops(s, id, rest) ==
  /\ ToSet(s.pending) = ToSet(rest) \union {id}
  /\ Len(rest) = Len(s.pending) - 1
  /\ Skips(s, id, rest) \/ \E j \in 1 .. Len(steps) : TakesUp(s, id, rest, j)

LEMMA PoppedFacts ==
  ASSUME StepsType, DistinctIds, NEW s \in SearchState, s.pending # <<>>
  PROVE  /\ Popped(s) \in SearchState
         /\ \E id \in ToSet(s.pending), rest \in Seq(StepId) : Pops(s, id, rest)
<1> DEFINE q == s.pending
           d == Last(q)
           rest == Front(q)
<1>1. /\ q \in Seq(StepId) /\ q # <<>> /\ s.found \in SUBSET Capability
      /\ s = [pending |-> q, found |-> s.found]
  BY DEF SearchState
<1>2. Len(q) \in Nat /\ Len(q) > 0 /\ DOMAIN q = 1 .. Len(q)
  <2> HIDE DEF q
  <2> QED
    BY <1>1
<1>3. d = q[Len(q)] /\ rest = SubSeq(q, 1, Len(q) - 1)
  BY DEF Last, Front
<1>4. /\ rest \in Seq(StepId) /\ Len(rest) = Len(q) - 1
      /\ \A i \in 1 .. Len(q) - 1 : rest[i] = q[i]
      /\ d \in ToSet(q) /\ d \in StepId
  <2> HIDE DEF q, rest, d
  <2> QED
    BY <1>1, <1>2, <1>3 DEF ToSet
<1>5. ToSet(q) = ToSet(rest) \union {d}
  <2> HIDE DEF q, rest, d
  <2>1. DOMAIN rest = 1 .. Len(q) - 1
    BY <1>4
  <2>2. 1 .. Len(q) = (1 .. Len(q) - 1) \union {Len(q)}
    BY <1>2
  <2> QED
    BY <1>2, <1>3, <1>4, <2>1, <2>2 DEF ToSet
<1> HIDE DEF q
<1>6. CASE d \notin IdOf \/ ById(d).capability \in s.found
  <2>1. Popped(s) = [pending |-> rest, found |-> s.found]
    BY <1>1, <1>6 DEF Popped, q
  <2>2. ASSUME NEW j \in 1 .. Len(steps), steps[j].id = d PROVE steps[j].capability \in s.found
    <3>1. d \in IdOf
      BY <2>2, StepFacts DEF IdOf
    <3> QED
      BY <1>6, <2>2, <3>1, StepByKey
  <2> HIDE DEF rest, d
  <2>3. Popped(s) \in SearchState /\ Popped(s).pending = rest /\ Popped(s).found = s.found
    BY <1>1, <1>4, <2>1 DEF SearchState
  <2>4. Skips(s, d, rest)
    BY <2>2, <2>3 DEF Skips
  <2> QED
    BY <1>4, <1>5, <2>3, <2>4 DEF q, Pops
<1>7. CASE ~ (d \notin IdOf \/ ById(d).capability \in s.found)
  <2>1. PICK j \in 1 .. Len(steps) : steps[j].id = d
    BY <1>7, StepFacts DEF IdOf
  <2>2. ById(d) = steps[j] /\ steps[j].capability \notin s.found
    BY <1>7, <2>1, StepByKey
  <2>3. Popped(s) = [pending |-> rest \o steps[j].depends_on,
                     found |-> s.found \union {steps[j].capability}]
    BY <1>1, <1>7, <2>2 DEF Popped, q
  <2> DEFINE t == steps[j].depends_on
  <2>4. t \in Seq(StepId) /\ steps[j].capability \in Capability
    BY StepFacts
  <2> HIDE DEF rest, d, t
  <2>5. rest \o t \in Seq(StepId) /\ Len(rest \o t) = Len(rest) + Len(t)
    BY <1>4, <2>4, ConcatProperties
  <2>6. ToSet(rest \o t) = ToSet(rest) \union ToSet(t)
    <3>1. /\ Len(rest) \in Nat /\ DOMAIN rest = 1 .. Len(rest)
          /\ Len(t) \in Nat /\ DOMAIN t = 1 .. Len(t)
          /\ DOMAIN (rest \o t) = 1 .. Len(rest) + Len(t)
      BY <1>4, <2>4, <2>5
    <3>2. ASSUME NEW x \in ToSet(rest \o t) PROVE x \in ToSet(rest) \union ToSet(t)
      <4>1. PICK i \in 1 .. Len(rest) + Len(t) : x = (rest \o t)[i]
        BY <3>1 DEF ToSet
      <4>2. x = IF i <= Len(rest) THEN rest[i] ELSE t[i - Len(rest)]
        BY <1>4, <2>4, <4>1, ConcatProperties
      <4>3. CASE i <= Len(rest)
        BY <3>1, <4>2, <4>3 DEF ToSet
      <4>4. CASE ~ (i <= Len(rest))
        <5>1. i - Len(rest) \in 1 .. Len(t) /\ x = t[i - Len(rest)]
          BY <3>1, <4>2, <4>4
        <5> QED
          BY <3>1, <5>1 DEF ToSet
      <4> QED
        BY <4>3, <4>4
    <3>3. ASSUME NEW x \in ToSet(rest) PROVE x \in ToSet(rest \o t)
      <4>1. PICK i \in 1 .. Len(rest) : x = rest[i]
        BY <3>1, <3>3 DEF ToSet
      <4>2. i \in 1 .. Len(rest) + Len(t) /\ (rest \o t)[i] = x
        BY <1>4, <2>4, <3>1, <4>1, ConcatProperties
      <4> QED
        BY <3>1, <4>2 DEF ToSet
    <3>4. ASSUME NEW x \in ToSet(t) PROVE x \in ToSet(rest \o t)
      <4>1. PICK i \in 1 .. Len(t) : x = t[i]
        BY <3>1, <3>4 DEF ToSet
      <4>2. i + Len(rest) \in 1 .. Len(rest) + Len(t) /\ (i + Len(rest)) - Len(rest) = i
            /\ ~ (i + Len(rest) <= Len(rest))
        BY <3>1
      <4>3. (rest \o t)[i + Len(rest)] = x
        BY <1>4, <2>4, <4>1, <4>2, ConcatProperties
      <4> QED
        BY <3>1, <4>2, <4>3 DEF ToSet
    <3> QED
      BY <3>2, <3>3, <3>4
  <2>7. Popped(s) \in SearchState /\ Popped(s).pending = rest \o t
        /\ Popped(s).found = s.found \union {steps[j].capability}
    BY <1>1, <2>3, <2>4, <2>5 DEF SearchState, t
  <2>8. TakesUp(s, d, rest, j)
    BY <2>1, <2>2, <2>5, <2>6, <2>7 DEF t, TakesUp
  <2>9. Pops(s, d, rest)
    BY <1>4, <1>5, <2>8 DEF q, Pops
  <2> QED
    BY <1>4, <2>7, <2>9 DEF q
<1> QED
  BY <1>6, <1>7

LEMMA GoesType ==
  ASSUME StepsType, DistinctIds, NEW s \in SearchState
  PROVE  Goes(s) \in SearchState
BY PoppedFacts DEF Goes

LEMMA RoundsType == Rounds \in Nat /\ IsFiniteSet(Capability) /\ Cardinality(Capability) \in Nat
<1>1. /\ Len(Catalog) \in Nat /\ DOMAIN Catalog = 1 .. Len(Catalog)
      /\ Catalog = [i \in 1 .. Len(Catalog) |-> Catalog[i]]
  BY CatalogFacts
<1>2. IsFiniteSet(Capability)
  BY <1>1, CatalogFacts, AllDistinct
<1>3. Cardinality(Capability) \in Nat
  BY <1>2, FS_CardinalityType
<1> QED
  BY <1>2, <1>3, StepsAssumption DEF Rounds

(* What the search has found after each round, and in the end.             *)
Searches(search, i) ==
  /\ search[0] = [pending |-> steps[i].depends_on, found |-> {}]
  /\ \A n \in 1 .. Rounds : search[n] = Goes(search[n - 1])
  /\ AncestorCapabilities(steps[i].id) = search[Rounds].found

LEMMA SearchIs ==
  ASSUME StepsType, DistinctIds, NEW i \in 1 .. Len(steps)
  PROVE  \E search \in [0 .. Rounds -> SearchState] : Searches(search, i)
<1> DEFINE start == [pending |-> steps[i].depends_on, found |-> {}]
           step == [n \in 1 .. Rounds |-> [s \in SearchState |-> Goes(s)]]
           body(f) == [n \in 0 .. Rounds |-> IF n = 0 THEN start ELSE Goes(f[n - 1])]
           search == CHOOSE f : f = body(f)
<1>1. Rounds \in Nat /\ start \in SearchState
  BY RoundsType, StepFacts DEF SearchState
<1>2. \A s \in SearchState : Goes(s) \in SearchState
  BY GoesType
<1>3. step \in [1 .. Rounds -> [SearchState -> SearchState]]
  BY <1>2
<1>4. PICK f \in [0 .. Rounds -> SearchState] : Recursive(f, Rounds, start, step)
  <2> HIDE DEF step, start
  <2> QED
    BY <1>1, <1>3, RecursionExists
<1>5. f = body(f)
  <2>1. ASSUME NEW n \in 0 .. Rounds, n # 0 PROVE step[n][f[n - 1]] = Goes(f[n - 1])
    <3>1. n \in 1 .. Rounds /\ n - 1 \in 0 .. Rounds
      BY <1>1, <2>1
    <3>2. f[n - 1] \in SearchState
      BY <3>1
    <3> QED
      BY <3>1, <3>2
  <2> HIDE DEF step, start
  <2> QED
    BY <1>4, <2>1 DEF Recursive
<1>6. search = body(search)
  <2> HIDE DEF body
  <2> QED
    BY <1>5
<1>7. AncestorCapabilities(steps[i].id) = search[Rounds].found
  BY StepByKey DEF AncestorCapabilities, Rounds, Goes
<1> HIDE DEF search
<1>8. /\ search[0] = start
      /\ \A n \in 1 .. Rounds : search[n] = Goes(search[n - 1])
  <2>1. 0 \in 0 .. Rounds /\ \A n \in 1 .. Rounds : n \in 0 .. Rounds /\ n # 0
    BY <1>1
  <2> HIDE DEF start
  <2>2. \A n \in 0 .. Rounds : search[n] = IF n = 0 THEN start ELSE Goes(search[n - 1])
    BY <1>6
  <2> QED
    BY <2>1, <2>2
<1>9. search \in [0 .. Rounds -> SearchState]
  <2> DEFINE T == {n \in 0 .. Rounds : search[n] \in SearchState}
  <2>1. 0 \in T
    <3> HIDE DEF start
    <3> QED
      BY <1>1, <1>8
  <2>2. \A n \in 1 .. Rounds : n - 1 \in T => n \in T
    BY <1>1, <1>2, <1>8
  <2> HIDE DEF T
  <2>3. \A n \in 0 .. Rounds : n \in T
    BY <1>1, <2>1, <2>2, InductionUpto
  <2> QED
    BY <1>6, <2>3 DEF T
<1>10. Searches(search, i)
  BY <1>7, <1>8 DEF Searches
<1> QED
  BY <1>9, <1>10

(* Every dependency of a step ranks lower than the step.                   *)
Lower(rank) ==
  \A i \in 1 .. Len(steps) :
    \A id \in ToSet(steps[i].depends_on) : rank[id] < rank[steps[i].id]

AllBelow(s, rank, r) ==
  /\ \A id \in ToSet(s.pending) : rank[id] < r
  /\ \A c \in s.found : \E j \in 1 .. Len(steps) :
       steps[j].capability = c /\ rank[steps[j].id] < r

LEMMA BelowStep ==
  ASSUME StepsType, DistinctIds, NEW rank \in [StepId -> Nat], Lower(rank), NEW r \in Nat,
         NEW s \in SearchState, AllBelow(s, rank, r)
  PROVE  AllBelow(Goes(s), rank, r)
<1>1. CASE s.pending = <<>>
  BY <1>1 DEF Goes
<1>2. CASE s.pending # <<>>
  <2>1. PICK id \in ToSet(s.pending) : \E rest \in Seq(StepId) : Pops(s, id, rest)
    BY <1>2, PoppedFacts
  <2>2. PICK rest \in Seq(StepId) : Pops(s, id, rest)
    BY <2>1
  <2>3. rank[id] < r /\ \A d \in ToSet(rest) : rank[d] < r
    BY <2>2 DEF AllBelow, Pops
  <2>4. CASE Skips(s, id, rest)
    BY <1>2, <2>3, <2>4 DEF AllBelow, Goes, Skips
  <2>5. ASSUME NEW j \in 1 .. Len(steps), TakesUp(s, id, rest, j)
        PROVE  AllBelow(Goes(s), rank, r)
    <3>1. \A d \in ToSet(steps[j].depends_on) : rank[d] < r
      <4> TAKE d \in ToSet(steps[j].depends_on)
      <4>1. rank[d] < rank[id]
        BY <2>5 DEF Lower, TakesUp
      <4>2. d \in StepId /\ id \in StepId
        BY <2>5, StepFacts DEF TakesUp, ToSet
      <4>3. rank[d] \in Nat /\ rank[id] \in Nat
        BY <4>2
      <4> QED
        BY <2>3, <4>1, <4>3
    <3>2. \A d \in ToSet(Goes(s).pending) : rank[d] < r
      BY <1>2, <2>3, <2>5, <3>1 DEF Goes, TakesUp
    <3>3. ASSUME NEW c \in Goes(s).found
          PROVE  \E k \in 1 .. Len(steps) : steps[k].capability = c /\ rank[steps[k].id] < r
      <4>1. c \in s.found \/ c = steps[j].capability
        BY <1>2, <2>5, <3>3 DEF Goes, TakesUp
      <4>2. rank[steps[j].id] < r
        BY <2>3, <2>5 DEF TakesUp
      <4> QED
        BY <4>1, <4>2 DEF AllBelow
    <3> QED
      BY <3>2, <3>3 DEF AllBelow
  <2> QED
    BY <2>2, <2>4, <2>5 DEF Pops
<1> QED
  BY <1>1, <1>2

(* Ancestors rank lower, however the steps are ranked.                     *)
LEMMA AncestorsAreLower ==
  ASSUME StepsType, DistinctIds, NEW rank \in [StepId -> Nat], Lower(rank),
         NEW i \in 1 .. Len(steps), NEW c \in AncestorCapabilities(steps[i].id)
  PROVE  \E j \in 1 .. Len(steps) :
           steps[j].capability = c /\ rank[steps[j].id] < rank[steps[i].id]
<1> DEFINE r == rank[steps[i].id]
<1>1. r \in Nat
  BY StepFacts
<1>2. PICK search \in [0 .. Rounds -> SearchState] : Searches(search, i)
  BY SearchIs
<1> DEFINE T == {n \in 0 .. Rounds : AllBelow(search[n], rank, r)}
<1>3. Rounds \in Nat /\ 0 \in 0 .. Rounds /\ Rounds \in 0 .. Rounds
  BY RoundsType
<1>4. 0 \in T
  <2>1. search[0].pending = steps[i].depends_on /\ search[0].found = {}
    BY <1>2 DEF Searches
  <2> QED
    BY <1>3, <2>1 DEF AllBelow, Lower
<1> HIDE DEF r
<1>5. ASSUME NEW n \in 1 .. Rounds, n - 1 \in T PROVE n \in T
  <2>1. n \in 0 .. Rounds /\ n - 1 \in 0 .. Rounds
    BY <1>3
  <2>2. search[n] = Goes(search[n - 1]) /\ search[n - 1] \in SearchState
    BY <1>2, <2>1 DEF Searches
  <2> QED
    BY <1>1, <1>5, <2>1, <2>2, BelowStep
<1> HIDE DEF T
<1>6. \A n \in 0 .. Rounds : n \in T
  BY <1>3, <1>4, <1>5, InductionUpto
<1>7. AllBelow(search[Rounds], rank, r) /\ c \in search[Rounds].found
  BY <1>2, <1>3, <1>6 DEF T, Searches
<1> QED
  BY <1>7 DEF AllBelow, r

-----------------------------------------------------------------------------
(* The search comes to what a step depends on directly, and to its end.    *)

Covers(s, i) ==
  \A j \in 1 .. Len(steps) : steps[j].id \in ToSet(steps[i].depends_on) =>
    steps[j].capability \in s.found \/ steps[j].id \in ToSet(s.pending)

Work(s) == Len(s.pending) + MaxDepends * Cardinality(Capability \ s.found)

LEMMA OneMoreFound ==
  ASSUME NEW F \in SUBSET Capability, NEW c \in Capability, c \notin F
  PROVE  /\ Cardinality(Capability \ F) \in Nat
         /\ Cardinality(Capability \ (F \union {c})) \in Nat
         /\ Cardinality(Capability \ F) = Cardinality(Capability \ (F \union {c})) + 1
<1>1. IsFiniteSet(Capability \ F)
  BY RoundsType, FS_Subset
<1>2. Capability \ (F \union {c}) = (Capability \ F) \ {c}
  OBVIOUS
<1>3. IsFiniteSet((Capability \ F) \ {c})
      /\ Cardinality((Capability \ F) \ {c}) = Cardinality(Capability \ F) - 1
  BY <1>1, FS_RemoveElement
<1>4. Cardinality(Capability \ F) \in Nat /\ Cardinality((Capability \ F) \ {c}) \in Nat
  BY <1>1, <1>3, FS_CardinalityType
<1> DEFINE before == Cardinality(Capability \ F)
           after == Cardinality(Capability \ (F \union {c}))
<1>5. after = before - 1 /\ before \in Nat /\ after \in Nat
  BY <1>2, <1>3, <1>4, Zenon
<1> HIDE DEF before, after
<1>6. before = after + 1
  BY <1>5
<1> QED
  BY <1>5, <1>6 DEF before, after

LEMMA WorkType ==
  ASSUME NEW s \in SearchState
  PROVE  /\ Len(s.pending) \in Nat /\ Cardinality(Capability \ s.found) \in Nat
         /\ Work(s) \in Nat /\ Len(s.pending) <= Work(s)
<1>1. Len(s.pending) \in Nat /\ IsFiniteSet(Capability \ s.found)
  BY RoundsType, FS_Subset DEF SearchState
<1>2. Cardinality(Capability \ s.found) \in Nat
  BY <1>1, FS_CardinalityType
<1>3. \A m, n \in Nat : m * n \in Nat
  OBVIOUS
<1> DEFINE product == MaxDepends * Cardinality(Capability \ s.found)
<1>4. product \in Nat /\ Work(s) = Len(s.pending) + product
  BY <1>2, <1>3, StepsAssumption DEF Work
<1> HIDE DEF product
<1> QED
  BY <1>1, <1>2, <1>4

LEMMA CoveringStep ==
  ASSUME StepsType, DistinctIds, NEW i \in 1 .. Len(steps), NEW s \in SearchState, Covers(s, i)
  PROVE  /\ Covers(Goes(s), i)
         /\ s.pending # <<>> => Work(Goes(s)) <= Work(s) - 1
<1>1. CASE s.pending = <<>>
  BY <1>1 DEF Goes
<1>2. CASE s.pending # <<>>
  <2>1. PICK id \in ToSet(s.pending) : \E rest \in Seq(StepId) : Pops(s, id, rest)
    BY <1>2, PoppedFacts
  <2>2. PICK rest \in Seq(StepId) : Pops(s, id, rest)
    BY <2>1
  <2>3. /\ Goes(s) \in SearchState /\ Goes(s) = Popped(s)
        /\ ToSet(s.pending) = ToSet(rest) \union {id} /\ Len(rest) = Len(s.pending) - 1
    BY <1>2, <2>2, PoppedFacts DEF Goes, Pops
  <2>4. CASE Skips(s, id, rest)
    <3>1. Covers(Goes(s), i)
      BY <2>3, <2>4 DEF Covers, Skips
    <3>2. Goes(s).found = s.found /\ Len(Goes(s).pending) = Len(s.pending) - 1
      BY <2>3, <2>4 DEF Skips
    <3> QED
      BY <3>1, <3>2, StepsAssumption, WorkType DEF Work
  <2>5. ASSUME NEW j \in 1 .. Len(steps), TakesUp(s, id, rest, j)
        PROVE  Covers(Goes(s), i) /\ Work(Goes(s)) <= Work(s) - 1
    <3>1. Covers(Goes(s), i)
      <4>1. \A k \in 1 .. Len(steps) : steps[k].id = id => k = j
        BY <2>5 DEF DistinctIds, TakesUp
      <4>2. /\ Goes(s).found = s.found \union {steps[j].capability}
            /\ ToSet(rest) \subseteq ToSet(Goes(s).pending)
        BY <2>3, <2>5 DEF TakesUp
      <4> QED
        BY <2>3, <4>1, <4>2 DEF Covers
    <3>2. Work(Goes(s)) <= Work(s) - 1
      <4> DEFINE card == Cardinality(Capability \ s.found)
                 less == Cardinality(Capability \ Goes(s).found)
                 more == Len(steps[j].depends_on)
      <4>1. less \in Nat /\ card = less + 1
        <5>1. /\ s.found \in SUBSET Capability
              /\ steps[j].capability \in Capability /\ steps[j].capability \notin s.found
          BY <2>5, StepFacts DEF SearchState, TakesUp
        <5>2. Goes(s).found = s.found \union {steps[j].capability}
          BY <2>3, <2>5 DEF TakesUp
        <5> QED
          BY <5>1, <5>2, OneMoreFound
      <4>2. more \in Nat /\ more <= MaxDepends
        BY StepFacts
      <4>3. Len(Goes(s).pending) = (Len(s.pending) - 1) + more /\ Len(s.pending) \in Nat
        BY <2>3, <2>5, WorkType DEF TakesUp
      <4>4. MaxDepends \in Nat
        BY StepsAssumption
      <4> HIDE DEF card, less, more
      <4>5. MaxDepends * card = MaxDepends * less + MaxDepends
        BY <4>1, <4>4
      <4>6. MaxDepends * less \in Nat
        BY <4>1, <4>4
      <4>7. /\ Work(s) = Len(s.pending) + MaxDepends * card
            /\ Work(Goes(s)) = Len(Goes(s).pending) + MaxDepends * less
        BY DEF Work, card, less
      <4> DEFINE product == MaxDepends * less
      <4> HIDE DEF product
      <4>8. /\ Work(s) = Len(s.pending) + (product + MaxDepends)
            /\ Work(Goes(s)) = ((Len(s.pending) - 1) + more) + product
            /\ product \in Nat
        BY <4>3, <4>5, <4>6, <4>7 DEF product
      <4>9. \A q, m, p, d \in Nat : m <= d => ((q - 1) + m) + p <= (q + (p + d)) - 1
        OBVIOUS
      <4> QED
        BY <4>2, <4>3, <4>4, <4>8, <4>9, Zenon
    <3> QED
      BY <3>1, <3>2
  <2> QED
    BY <2>2, <2>4, <2>5 DEF Pops
<1> QED
  BY <1>1, <1>2

LEMMA DirectAreAncestors ==
  ASSUME StepsType, DistinctIds, NEW i \in 1 .. Len(steps), NEW j \in 1 .. Len(steps),
         steps[j].id \in ToSet(steps[i].depends_on)
  PROVE  steps[j].capability \in AncestorCapabilities(steps[i].id)
<1>1. PICK search \in [0 .. Rounds -> SearchState] : Searches(search, i)
  BY SearchIs
<1> DEFINE Far(n) == search[n].pending = <<>> \/ Work(search[n]) <= Rounds - n
           T == {n \in 0 .. Rounds : Covers(search[n], i) /\ Far(n)}
<1>2. Rounds \in Nat /\ 0 \in 0 .. Rounds /\ Rounds \in 0 .. Rounds
  BY RoundsType
<1>3. 0 \in T
  <2>1. search[0].pending = steps[i].depends_on /\ search[0].found = {}
    BY <1>1 DEF Searches
  <2>2. Covers(search[0], i)
    BY <2>1 DEF Covers
  <2>3. Work(search[0]) = Len(steps[i].depends_on) + MaxDepends * Cardinality(Capability)
    <3>1. Capability \ {} = Capability
      OBVIOUS
    <3> QED
      BY <2>1, <3>1 DEF Work
  <2>4. Work(search[0]) <= Rounds
    <3> DEFINE card == Cardinality(Capability)
    <3>1. card \in Nat /\ MaxDepends \in Nat
      BY RoundsType, StepsAssumption
    <3>2. Len(steps[i].depends_on) \in Nat /\ Len(steps[i].depends_on) <= MaxDepends
      BY StepFacts
    <3> HIDE DEF card
    <3>3. MaxDepends * (card + 1) = MaxDepends * card + MaxDepends /\ MaxDepends * card \in Nat
      BY <3>1
    <3>4. Rounds = MaxDepends * card + MaxDepends
          /\ Work(search[0]) = Len(steps[i].depends_on) + MaxDepends * card
      BY <2>3, <3>3 DEF Rounds, card
    <3> DEFINE product == MaxDepends * card
    <3> HIDE DEF product
    <3>5. /\ Rounds = product + MaxDepends /\ product \in Nat
          /\ Work(search[0]) = Len(steps[i].depends_on) + product
      BY <3>3, <3>4 DEF product
    <3> QED
      BY <3>1, <3>2, <3>5
  <2> QED
    BY <1>2, <2>2, <2>4
<1>4. ASSUME NEW n \in 1 .. Rounds, n - 1 \in T PROVE n \in T
  <2>1. n \in 0 .. Rounds /\ n - 1 \in 0 .. Rounds
    BY <1>2
  <2>2. /\ search[n] = Goes(search[n - 1])
        /\ search[n - 1] \in SearchState /\ search[n] \in SearchState
    BY <1>1, <2>1 DEF Searches
  <2>3. /\ Covers(search[n], i)
        /\ search[n - 1].pending # <<>> => Work(search[n]) <= Work(search[n - 1]) - 1
    BY <1>4, <2>2, CoveringStep
  <2>4. CASE search[n - 1].pending = <<>>
    BY <2>1, <2>2, <2>3, <2>4 DEF Goes
  <2>5. CASE search[n - 1].pending # <<>>
    <3>1. Work(search[n - 1]) <= Rounds - (n - 1)
      BY <1>4, <2>5
    <3>2. Work(search[n]) \in Nat /\ Work(search[n - 1]) \in Nat
      BY <2>2, WorkType
    <3>3. Work(search[n]) <= Rounds - n
      BY <1>2, <2>3, <2>5, <3>1, <3>2
    <3> QED
      BY <2>1, <2>3, <3>3
  <2> QED
    BY <2>4, <2>5
<1> HIDE DEF T
<1>5. \A n \in 0 .. Rounds : n \in T
  BY <1>2, <1>3, <1>4, InductionUpto
<1>6. Covers(search[Rounds], i) /\ Far(Rounds)
  BY <1>2, <1>5 DEF T
<1>7. search[Rounds].pending = <<>>
  <2>1. search[Rounds] \in SearchState
    BY <1>2
  <2>2. CASE Work(search[Rounds]) <= Rounds - Rounds
    <3>1. Len(search[Rounds].pending) = 0
      BY <1>2, <2>1, <2>2, WorkType
    <3> QED
      BY <2>1, <3>1 DEF SearchState
  <2> QED
    BY <1>6, <2>2
<1>8. ToSet(search[Rounds].pending) = {}
  BY <1>7 DEF ToSet
<1> QED
  BY <1>1, <1>6, <1>8 DEF Covers, Searches

-----------------------------------------------------------------------------

PlanBelow == [id \in StepId |-> IF id \in IdOf THEN ById(id).depends_on ELSE <<>>]
PlanIds == [i \in DOMAIN steps |-> steps[i].id]

LEMMA PlanSearchType ==
  ASSUME StepsType, DistinctIds
  PROVE  /\ PlanBelow \in [StepId -> Seq(StepId)] /\ PlanIds \in Seq(StepId)
         /\ Len(PlanIds) = Len(steps)
         /\ IsFiniteSet(StepId) /\ Cardinality(StepId) = MaxSteps + 1
         /\ HasPlanCycle = HasCycle(PlanBelow, PlanIds)
         /\ \A i \in 1 .. Len(steps) : PlanBelow[steps[i].id] = steps[i].depends_on
         /\ \A id \in StepId : id \notin IdOf => PlanBelow[id] = <<>>
<1>1. ASSUME NEW id \in IdOf PROVE ById(id).depends_on \in Seq(StepId)
  <2>1. PICK i \in 1 .. Len(steps) : steps[i].id = id
    BY StepFacts DEF IdOf
  <2> QED
    BY <2>1, StepByKey, StepFacts
<1>2. PlanBelow \in [StepId -> Seq(StepId)]
  BY <1>1 DEF PlanBelow
<1>3. PlanIds \in [1 .. Len(steps) -> StepId] /\ Len(steps) \in Nat
  BY StepFacts DEF PlanIds
<1>4. PlanIds \in Seq(StepId) /\ Len(PlanIds) = Len(steps)
  BY <1>3
<1>5. IsFiniteSet(StepId) /\ Cardinality(StepId) = MaxSteps + 1
  <2>1. MaxSteps + 1 \in Nat
    BY StepsAssumption
  <2> QED
    BY <2>1, IntervalSize DEF StepId
<1>6. ASSUME NEW i \in 1 .. Len(steps) PROVE PlanBelow[steps[i].id] = steps[i].depends_on
  <2>1. steps[i].id \in IdOf /\ steps[i].id \in StepId
    BY StepFacts DEF IdOf
  <2> QED
    BY <2>1, StepByKey DEF PlanBelow
<1> QED
  BY <1>2, <1>4, <1>5, <1>6 DEF HasPlanCycle, PlanBelow, PlanIds

(* A plan without a cycle can be ranked.                                   *)
LEMMA NoPlanCycleIsRanked ==
  ASSUME StepsType, DistinctIds, ~ HasPlanCycle
  PROVE  \E rank \in [StepId -> Nat] : Lower(rank)
<1>1. PICK D \in SUBSET StepId :
        Ranked(PlanBelow, D) /\ \A n \in 1 .. Len(PlanIds) : PlanIds[n] \in D
  BY PlanSearchType, NoCycleIsRanked
<1>2. PICK k \in Nat : \E r \in [D -> 1 .. k] : Falls(PlanBelow, D, r)
  BY <1>1 DEF Ranked
<1>3. PICK r \in [D -> 1 .. k] : Falls(PlanBelow, D, r)
  BY <1>2
<1> DEFINE rank == [id \in StepId |-> IF id \in D THEN r[id] ELSE 0]
<1>4. rank \in [StepId -> Nat]
  <2>1. \A id \in D : r[id] \in Nat
    BY <1>3
  <2> QED
    BY <2>1
<1>5. ASSUME NEW i \in 1 .. Len(steps), NEW id \in ToSet(steps[i].depends_on)
      PROVE  rank[id] < rank[steps[i].id]
  <2>1. steps[i].id \in D
    BY <1>1, PlanSearchType, StepFacts DEF PlanIds
  <2>2. PICK m \in DOMAIN PlanBelow[steps[i].id] : PlanBelow[steps[i].id][m] = id
    BY PlanSearchType DEF ToSet
  <2>3. id \in D /\ r[id] < r[steps[i].id]
    BY <1>3, <2>1, <2>2 DEF Falls
  <2> QED
    BY <2>1, <2>3
<1>6. Lower(rank)
  BY <1>5 DEF Lower
<1> QED
  BY <1>4, <1>6

-----------------------------------------------------------------------------
(* Execution orders.                                                       *)

LEMMA OrderFacts ==
  ASSUME StepsType, NEW q \in ExecutionOrders
  PROVE  /\ q \in [1 .. Len(steps) -> 1 .. Len(steps)]
         /\ \A i, j \in 1 .. Len(steps) : q[i] = q[j] => i = j
         /\ \A k \in 1 .. Len(steps) : \E i \in 1 .. Len(steps) : q[i] = k
         /\ \A i \in 1 .. Len(steps) : \A d \in ToSet(steps[q[i]].depends_on) :
              \E j \in 1 .. Len(steps) : j < i /\ d = steps[q[j]].id
<1> DEFINE n == Len(steps)
<1>1. n \in Nat /\ DOMAIN steps = 1 .. n
  BY StepFacts
<1> HIDE DEF n
<1>2. /\ q \in [1 .. n -> 1 .. n]
      /\ \A i, j \in 1 .. n : i # j => q[i] # q[j]
      /\ \A i \in 1 .. n :
           ToSet(steps[q[i]].depends_on) \subseteq {steps[q[j]].id : j \in 1 .. i - 1}
  BY <1>1 DEF ExecutionOrders
<1>3. \A k \in 1 .. n : \E i \in 1 .. n : q[i] = k
  BY <1>1, <1>2, PermutationIsOnto
<1>4. ASSUME NEW i \in 1 .. n, NEW d \in ToSet(steps[q[i]].depends_on)
      PROVE  \E j \in 1 .. n : j < i /\ d = steps[q[j]].id
  <2>1. PICK j \in 1 .. i - 1 : d = steps[q[j]].id
    BY <1>2
  <2>2. j \in 1 .. n /\ j < i
    BY <1>1
  <2> QED
    BY <2>1, <2>2
<1> QED
  BY <1>2, <1>3, <1>4 DEF n

(* The places in an order rank the steps.                                  *)
LEMMA OrderRanks ==
  ASSUME StepsType, DistinctIds, NEW q \in ExecutionOrders
  PROVE  \E rank \in [StepId -> 1 .. MaxSteps + 1] :
           /\ Lower(rank)
           /\ \A i \in 1 .. Len(steps) : rank[steps[q[i]].id] = i
<1> DEFINE n == Len(steps)
           At(id) == {i \in 1 .. n : steps[q[i]].id = id}
           rank == [id \in StepId |-> IF At(id) = {} THEN 1 ELSE CHOOSE i \in At(id) : TRUE]
<1>1. n \in Nat /\ n <= MaxSteps /\ MaxSteps \in Nat
  BY StepFacts, StepsAssumption DEF StepsType
<1>2. /\ q \in [1 .. n -> 1 .. n]
      /\ \A i, j \in 1 .. n : q[i] = q[j] => i = j
      /\ \A k \in 1 .. n : \E i \in 1 .. n : q[i] = k
  BY OrderFacts
<1>3. \A i \in 1 .. n : \A d \in ToSet(steps[q[i]].depends_on) :
        \E j \in 1 .. n : j < i /\ d = steps[q[j]].id
  BY OrderFacts
<1>4. \A i \in 1 .. n : steps[i].id \in StepId
  BY StepFacts
<1>5. \A i, j \in 1 .. n : steps[i].id = steps[j].id => i = j
  BY DEF DistinctIds
<1> HIDE DEF n
<1>6. rank \in [StepId -> 1 .. MaxSteps + 1]
  <2>1. ASSUME NEW id \in StepId PROVE rank[id] \in 1 .. MaxSteps + 1
    <3>1. CASE At(id) = {}
      BY <1>1, <2>1, <3>1
    <3>2. CASE At(id) # {}
      <4>1. (CHOOSE i \in At(id) : TRUE) \in 1 .. n
        BY <3>2
      <4> QED
        BY <1>1, <2>1, <3>2, <4>1
    <3> QED
      BY <3>1, <3>2
  <2> QED
    BY <2>1
<1>7. ASSUME NEW i \in 1 .. n PROVE rank[steps[q[i]].id] = i
  <2>1. q[i] \in 1 .. n /\ steps[q[i]].id \in StepId
    BY <1>2, <1>4
  <2>2. ASSUME NEW j \in 1 .. n, steps[q[j]].id = steps[q[i]].id PROVE j = i
    <3>1. q[j] \in 1 .. n /\ q[i] \in 1 .. n
      BY <1>2
    <3>2. q[j] = q[i]
      BY <1>5, <2>2, <3>1
    <3> QED
      BY <1>2, <3>2
  <2>3. At(steps[q[i]].id) = {i}
    BY <2>2
  <2> QED
    BY <2>1, <2>3
<1> HIDE DEF rank, At
<1>8. ASSUME NEW k \in 1 .. n, NEW d \in ToSet(steps[k].depends_on)
      PROVE  rank[d] < rank[steps[k].id]
  <2>1. PICK i \in 1 .. n : q[i] = k
    BY <1>2
  <2>2. PICK j \in 1 .. n : j < i /\ d = steps[q[j]].id
    <3>1. d \in ToSet(steps[q[i]].depends_on)
      BY <1>8, <2>1
    <3> QED
      BY <1>3, <3>1
  <2>3. rank[steps[k].id] = i /\ rank[d] = j
    BY <1>7, <2>1, <2>2
  <2> QED
    BY <2>2, <2>3
<1>9. Lower(rank)
  BY <1>8 DEF Lower, n
<1> QED
  BY <1>6, <1>7, <1>9 DEF n

(* Two steps next to each other of which the second does not depend on the *)
(* first can be swapped.                                                   *)
LEMMA SwapIsOrder ==
  ASSUME StepsType, NEW p \in ExecutionOrders, NEW k \in 1 .. Len(steps),
         k + 1 \in 1 .. Len(steps),
         steps[p[k]].id \notin ToSet(steps[p[k + 1]].depends_on)
  PROVE  [p EXCEPT ![k] = p[k + 1], ![k + 1] = p[k]] \in ExecutionOrders
<1> DEFINE n == Len(steps)
           q == [p EXCEPT ![k] = p[k + 1], ![k + 1] = p[k]]
<1>1. n \in Nat /\ DOMAIN steps = 1 .. n /\ k \in 1 .. n /\ k + 1 \in 1 .. n /\ k \in Nat
  BY StepFacts
<1>2. p \in [1 .. n -> 1 .. n] /\ \A i, j \in 1 .. n : p[i] = p[j] => i = j
  BY OrderFacts
<1>3. \A i \in 1 .. n : \A d \in ToSet(steps[p[i]].depends_on) :
        \E j \in 1 .. n : j < i /\ d = steps[p[j]].id
  BY OrderFacts
<1> HIDE DEF n
<1>4. /\ q \in [1 .. n -> 1 .. n] /\ q[k] = p[k + 1] /\ q[k + 1] = p[k]
      /\ \A i \in 1 .. n : i # k /\ i # k + 1 => q[i] = p[i]
  BY <1>1, <1>2
<1> HIDE DEF q
<1>5. ASSUME NEW i \in 1 .. n, NEW j \in 1 .. n, i # j PROVE q[i] # q[j]
  BY <1>1, <1>2, <1>4, <1>5
<1>6. ASSUME NEW i \in 1 .. n, NEW d \in ToSet(steps[q[i]].depends_on)
      PROVE  \E j \in 1 .. i - 1 : d = steps[q[j]].id
  <2>1. CASE i = k
    <3>1. PICK j \in 1 .. n : j < k + 1 /\ d = steps[p[j]].id
      <4>1. d \in ToSet(steps[p[k + 1]].depends_on)
        BY <1>4, <1>6, <2>1
      <4> QED
        BY <1>1, <1>3, <4>1
    <3>2. j # k
      BY <1>4, <1>6, <2>1, <3>1
    <3>3. j \in 1 .. k - 1 /\ q[j] = p[j]
      BY <1>1, <1>4, <3>1, <3>2
    <3> QED
      BY <2>1, <3>1, <3>3
  <2>2. CASE i = k + 1
    <3>1. PICK j \in 1 .. n : j < k /\ d = steps[p[j]].id
      <4>1. d \in ToSet(steps[p[k]].depends_on)
        BY <1>4, <1>6, <2>2
      <4> QED
        BY <1>1, <1>3, <4>1
    <3>2. j \in 1 .. i - 1 /\ q[j] = p[j]
      BY <1>1, <1>4, <2>2, <3>1
    <3> QED
      BY <3>1, <3>2
  <2>3. CASE i # k /\ i # k + 1
    <3>1. PICK j \in 1 .. n : j < i /\ d = steps[p[j]].id
      <4>1. d \in ToSet(steps[p[i]].depends_on)
        BY <1>4, <1>6, <2>3
      <4> QED
        BY <1>1, <1>3, <4>1
    <3>2. CASE j = k
      <4>1. k + 1 \in 1 .. i - 1
        BY <1>1, <2>3, <3>1, <3>2
      <4> QED
        BY <1>4, <3>1, <3>2, <4>1
    <3>3. CASE j = k + 1
      <4>1. k \in 1 .. i - 1
        BY <1>1, <2>3, <3>1, <3>3
      <4> QED
        BY <1>4, <3>1, <3>3, <4>1
    <3>4. CASE j # k /\ j # k + 1
      <4>1. j \in 1 .. i - 1 /\ q[j] = p[j]
        BY <1>1, <1>4, <3>1, <3>4
      <4> QED
        BY <3>1, <4>1
    <3> QED
      BY <3>2, <3>3, <3>4
  <2> QED
    BY <2>1, <2>2, <2>3
<1>7. \A i \in 1 .. n :
        ToSet(steps[q[i]].depends_on) \subseteq {steps[q[j]].id : j \in 1 .. i - 1}
  BY <1>6
<1>8. q \in ExecutionOrders
  BY <1>1, <1>4, <1>5, <1>7 DEF ExecutionOrders
<1> QED
  BY <1>8 DEF q

-----------------------------------------------------------------------------
(* What is accepted can be executed in the catalog's order only.           *)

LEMMA NoErrors ==
  Errors = {} <=>
    /\ Cardinality(IdOf) = Len(steps) /\ Cardinality(CapabilitiesOf) = Len(steps)
    /\ Capability \subseteq CapabilitiesOf
    /\ \A c \in CapabilitiesOf : ByCapability(c).within
    /\ \A i \in DOMAIN steps :
         /\ steps[i].id \notin ToSet(steps[i].depends_on)
         /\ ToSet(steps[i].depends_on) \subseteq IdOf
    /\ ~ HasPlanCycle
    /\ \A c \in CapabilitiesOf : PrerequisitesMet(c)
BY DEF Errors, Error

(* The step of each capability of the catalog.                             *)
InCatalogOrder(p) ==
  /\ p \in [1 .. Len(steps) -> 1 .. Len(steps)]
  /\ \A i \in 1 .. Len(steps) : steps[p[i]].capability = Catalog[i]

LEMMA CatalogOrder ==
  ASSUME StepsType, DistinctCapabilities, Capability = CapabilitiesOf
  PROVE  /\ Len(steps) = Len(Catalog)
         /\ \E p : InCatalogOrder(p)
<1> DEFINE n == Len(steps)
           p == [k \in 1 .. n |-> CHOOSE i \in 1 .. n : steps[i].capability = Catalog[k]]
<1>1. Cardinality(Capability) = Len(Catalog)
  <2>1. /\ Len(Catalog) \in Nat /\ DOMAIN Catalog = 1 .. Len(Catalog)
        /\ Catalog = [i \in 1 .. Len(Catalog) |-> Catalog[i]]
    BY CatalogFacts
  <2> QED
    BY <2>1, CatalogFacts, AllDistinct
<1>2. n = Len(Catalog)
  BY <1>1, KeysAreCounted
<1>3. ASSUME NEW k \in 1 .. n PROVE p[k] \in 1 .. n /\ steps[p[k]].capability = Catalog[k]
  <2>1. Catalog[k] \in CapabilitiesOf
    BY <1>2, CatalogFacts
  <2>2. \E i \in 1 .. n : steps[i].capability = Catalog[k]
    BY <2>1, StepFacts DEF CapabilitiesOf
  <2> QED
    BY <2>2
<1>4. InCatalogOrder(p)
  <2> HIDE DEF p
  <2>1. p \in [1 .. n -> 1 .. n]
    BY <1>3 DEF p
  <2> QED
    BY <1>3, <2>1 DEF InCatalogOrder
<1> QED
  BY <1>2, <1>4

(* What a capability requires is executed before it, in any ranking.       *)
LEMMA CatalogIsAscending ==
  ASSUME StepsType, DistinctIds, DistinctCapabilities, Capability = CapabilitiesOf,
         \A c \in CapabilitiesOf : PrerequisitesMet(c),
         NEW p, InCatalogOrder(p), NEW rank \in [StepId -> Nat], Lower(rank),
         NEW k \in 1 .. Len(steps), k + 1 \in 1 .. Len(steps)
  PROVE  rank[steps[p[k]].id] < rank[steps[p[k + 1]].id]
<1>1. /\ p[k] \in 1 .. Len(steps) /\ p[k + 1] \in 1 .. Len(steps)
      /\ steps[p[k]].capability = Catalog[k] /\ steps[p[k + 1]].capability = Catalog[k + 1]
  BY DEF InCatalogOrder
<1>2. Len(steps) = Len(Catalog) /\ k \in DOMAIN Catalog /\ k < Len(Catalog)
  BY CatalogOrder, CatalogFacts
<1>3. Catalog[k] \in Prerequisites(Catalog[k + 1])
  BY <1>2 DEF Prerequisites
<1>4. Catalog[k + 1] \in CapabilitiesOf
  BY <1>2, CatalogFacts
<1>5. ByCapability(Catalog[k + 1]) = steps[p[k + 1]]
  BY <1>1, StepByKey
<1>6. Catalog[k] \in AncestorCapabilities(steps[p[k + 1]].id)
  BY <1>3, <1>4, <1>5 DEF PrerequisitesMet
<1>7. PICK j \in 1 .. Len(steps) :
        steps[j].capability = Catalog[k] /\ rank[steps[j].id] < rank[steps[p[k + 1]].id]
  BY <1>1, <1>6, AncestorsAreLower
<1>8. j = p[k]
  BY <1>1, <1>7 DEF DistinctCapabilities
<1> QED
  BY <1>7, <1>8

LEMMA CatalogOrderExecutes ==
  ASSUME StepsType, DistinctIds, DistinctCapabilities, Capability = CapabilitiesOf,
         \A c \in CapabilitiesOf : PrerequisitesMet(c), ~ HasPlanCycle,
         \A i \in DOMAIN steps : ToSet(steps[i].depends_on) \subseteq IdOf,
         NEW p, InCatalogOrder(p)
  PROVE  p \in ExecutionOrders
<1> DEFINE n == Len(steps)
<1>1. n \in Nat /\ DOMAIN steps = 1 .. n /\ n = Len(Catalog)
  BY StepFacts, CatalogOrder
<1>2. p \in [1 .. n -> 1 .. n] /\ \A i \in 1 .. n : steps[p[i]].capability = Catalog[i]
  BY DEF InCatalogOrder
<1>3. \A i, j \in 1 .. n : i # j => p[i] # p[j]
  BY <1>1, <1>2, CatalogFacts
<1>4. \A k \in 1 .. n : \E i \in 1 .. n : p[i] = k
  BY <1>1, <1>2, <1>3, PermutationIsOnto
<1>5. PICK rank \in [StepId -> Nat] : Lower(rank)
  BY NoPlanCycleIsRanked
<1> DEFINE f == [i \in 1 .. n |-> rank[steps[p[i]].id]]
<1>6. f \in [1 .. n -> Nat]
  BY <1>2, StepFacts
<1>7. \A k \in 1 .. n : k + 1 \in 1 .. n => f[k] < f[k + 1]
  BY <1>5, CatalogIsAscending
<1> HIDE DEF f, n
<1>8. \A i, j \in 1 .. n : i < j => f[i] < f[j]
  BY <1>1, <1>6, <1>7, AdjacentAscends
<1>9. ASSUME NEW i \in 1 .. n, NEW d \in ToSet(steps[p[i]].depends_on)
      PROVE  d \in {steps[p[j]].id : j \in 1 .. i - 1}
  <2>1. p[i] \in 1 .. n
    BY <1>2
  <2>2. PICK k \in 1 .. n : d = steps[k].id
    BY <1>1, <1>9, <2>1 DEF IdOf
  <2>3. PICK j \in 1 .. n : p[j] = k
    BY <1>4
  <2>4. rank[d] < rank[steps[p[i]].id]
    BY <1>5, <1>9, <2>1 DEF Lower, n
  <2>5. f[j] < f[i] /\ f[i] \in Nat /\ f[j] \in Nat
    BY <1>6, <2>2, <2>3, <2>4 DEF f
  <2>6. ~ (i < j) /\ i # j
    BY <1>8, <2>5
  <2>7. j \in 1 .. i - 1
    BY <1>1, <2>6
  <2> QED
    BY <2>2, <2>3, <2>7
<1> QED
  BY <1>1, <1>2, <1>3, <1>9 DEF ExecutionOrders

LEMMA OnlyCatalogOrder ==
  ASSUME StepsType, DistinctIds, DistinctCapabilities, Capability = CapabilitiesOf,
         \A c \in CapabilitiesOf : PrerequisitesMet(c), NEW q \in ExecutionOrders
  PROVE  [i \in DOMAIN steps |-> steps[q[i]].capability] = Catalog
<1> DEFINE n == Len(steps)
<1>1. n \in Nat /\ DOMAIN steps = 1 .. n /\ n = Len(Catalog)
  BY StepFacts, CatalogOrder
<1>2. PICK p : InCatalogOrder(p)
  BY CatalogOrder
<1>3. PICK rank \in [StepId -> 1 .. MaxSteps + 1] :
        Lower(rank) /\ \A i \in 1 .. n : rank[steps[q[i]].id] = i
  BY OrderRanks
<1>4. rank \in [StepId -> Nat]
  <2>1. \A id \in StepId : rank[id] \in Nat
    BY <1>3
  <2> QED
    BY <1>3, <2>1
<1>5. p \in [1 .. n -> 1 .. n] /\ \A i \in 1 .. n : steps[p[i]].capability = Catalog[i]
  BY <1>2 DEF InCatalogOrder
<1> DEFINE f == [i \in 1 .. n |-> rank[steps[p[i]].id]]
<1>6. ASSUME NEW i \in 1 .. n PROVE f[i] \in 1 .. n /\ q[f[i]] = p[i]
  <2>0. \A k \in 1 .. n : \E j \in 1 .. n : q[j] = k
    BY OrderFacts
  <2>1. PICK j \in 1 .. n : q[j] = p[i]
    <3>1. p[i] \in 1 .. n
      BY <1>5
    <3> HIDE DEF n
    <3> QED
      BY <2>0, <3>1
  <2>2. f[i] = j
    BY <1>3, <2>1
  <2> QED
    BY <2>1, <2>2
<1>7. \A k \in 1 .. n : k + 1 \in 1 .. n => f[k] < f[k + 1]
  BY <1>2, <1>3, <1>4, CatalogIsAscending
<1>8. f \in [1 .. n -> 1 .. n]
  BY <1>6
<1> HIDE DEF f, n
<1>9. \A i \in 1 .. n : f[i] = i
  BY <1>1, <1>7, <1>8, AscendingIsIdentity
<1>10. \A i \in 1 .. n : steps[q[i]].capability = Catalog[i]
  BY <1>5, <1>6, <1>9
<1>11. Catalog = [i \in 1 .. n |-> Catalog[i]]
  BY <1>1, CatalogFacts
<1> QED
  BY <1>1, <1>10, <1>11

RunsTheCatalog ==
  /\ \A i \in DOMAIN steps : steps[i].within
  /\ Cardinality(IdOf) = Len(steps)
  /\ ExecutionOrders # {}
  /\ \A p \in ExecutionOrders :
       [i \in DOMAIN steps |-> steps[p[i]].capability] = Catalog

LEMMA AcceptedIsOrdered ==
  ASSUME StepsType, Errors = {}
  PROVE  RunsTheCatalog
<1>1. /\ DistinctIds /\ DistinctCapabilities /\ ~ HasPlanCycle
      /\ \A i \in DOMAIN steps : ToSet(steps[i].depends_on) \subseteq IdOf
      /\ \A c \in CapabilitiesOf : PrerequisitesMet(c)
  BY NoErrors, KeysAreCounted
<1>2. Capability = CapabilitiesOf
  <2>1. CapabilitiesOf \subseteq Capability
    BY StepFacts DEF CapabilitiesOf
  <2> QED
    BY <2>1, NoErrors
<1>3. ASSUME NEW i \in DOMAIN steps PROVE steps[i].within
  <2>1. i \in 1 .. Len(steps) /\ steps[i].capability \in CapabilitiesOf
    BY StepFacts DEF CapabilitiesOf
  <2> QED
    BY <1>1, <2>1, NoErrors, StepByKey
<1>4. ExecutionOrders # {}
  <2>1. PICK p : InCatalogOrder(p)
    BY <1>1, <1>2, CatalogOrder
  <2> QED
    BY <1>1, <1>2, <2>1, CatalogOrderExecutes
<1>5. \A p \in ExecutionOrders :
        [i \in DOMAIN steps |-> steps[p[i]].capability] = Catalog
  BY <1>1, <1>2, OnlyCatalogOrder
<1> QED
  BY <1>3, <1>4, <1>5, NoErrors DEF RunsTheCatalog

(* An order to execute a plan in leaves no room for a cycle.               *)
LEMMA OrderHasNoCycle ==
  ASSUME StepsType, DistinctIds, NEW p \in ExecutionOrders
  PROVE  ~ HasPlanCycle
<1>1. PICK rank \in [StepId -> 1 .. MaxSteps + 1] : Lower(rank)
  BY OrderRanks
<1>2. ASSUME NEW id \in StepId, NEW m \in DOMAIN PlanBelow[id]
      PROVE  PlanBelow[id][m] \in StepId /\ rank[PlanBelow[id][m]] < rank[id]
  <2>1. id \in IdOf
    <3>1. DOMAIN <<>> = {}
      OBVIOUS
    <3> QED
      BY <1>2, <3>1, PlanSearchType
  <2>2. PICK k \in 1 .. Len(steps) : steps[k].id = id
    BY <2>1, StepFacts DEF IdOf
  <2>3. PlanBelow[id] = steps[k].depends_on
    BY <2>2, PlanSearchType
  <2>4. PlanBelow[id][m] \in ToSet(steps[k].depends_on) /\ steps[k].depends_on \in Seq(StepId)
    BY <1>2, <2>3, StepFacts DEF ToSet
  <2>5. PlanBelow[id][m] \in StepId
    BY <2>4, StepFacts DEF ToSet
  <2> QED
    BY <1>1, <2>2, <2>4, <2>5 DEF Lower
<1>3. Falls(PlanBelow, StepId, rank)
  BY <1>2 DEF Falls
<1>4. rank \in [StepId -> 1 .. Cardinality(StepId)]
  BY PlanSearchType
<1> QED
  BY <1>3, <1>4, PlanSearchType, RankedHasNoCycle

LEMMA OrderedIsAccepted ==
  ASSUME StepsType, RunsTheCatalog
  PROVE  Errors = {}
<1> DEFINE n == Len(steps)
<1>1. n \in Nat /\ DOMAIN steps = 1 .. n
  BY StepFacts
<1>2. DistinctIds /\ Cardinality(IdOf) = n
  BY KeysAreCounted DEF RunsTheCatalog
<1>3. PICK p \in ExecutionOrders : TRUE
  BY DEF RunsTheCatalog
<1>4. ASSUME NEW q \in ExecutionOrders
      PROVE  \A i \in 1 .. n : steps[q[i]].capability = Catalog[i]
  <2>1. [i \in DOMAIN steps |-> steps[q[i]].capability] = Catalog
    BY DEF RunsTheCatalog
  <2> QED
    BY <1>1, <2>1
<1>5. n = Len(Catalog)
  <2>1. [i \in DOMAIN steps |-> steps[p[i]].capability] = Catalog
    BY <1>3 DEF RunsTheCatalog
  <2>2. 1 .. n = 1 .. Len(Catalog)
    BY <1>1, <2>1, CatalogFacts
  <2>3. \A a, b \in Nat : 1 .. a = 1 .. b => a = b
    <3> SUFFICES ASSUME NEW a \in Nat, NEW b \in Nat, 1 .. a = 1 .. b PROVE a = b
      OBVIOUS
    <3>1. a \in 1 .. b \/ a = 0
      OBVIOUS
    <3>2. b \in 1 .. a \/ b = 0
      OBVIOUS
    <3> QED
      BY <3>1, <3>2
  <2> QED
    BY <1>1, <2>2, <2>3, CatalogFacts
<1>6. /\ p \in [1 .. n -> 1 .. n] /\ \A k \in 1 .. n : \E i \in 1 .. n : p[i] = k
      /\ \A i \in 1 .. n : \A d \in ToSet(steps[p[i]].depends_on) :
           \E j \in 1 .. n : j < i /\ d = steps[p[j]].id
      /\ \A i, j \in 1 .. n : p[i] = p[j] => i = j
  BY OrderFacts
<1>7. DistinctCapabilities
  <2> SUFFICES ASSUME NEW i \in 1 .. n, NEW j \in 1 .. n,
                      steps[i].capability = steps[j].capability
               PROVE  i = j
    BY DEF DistinctCapabilities
  <2>1. PICK a \in 1 .. n : p[a] = i
    BY <1>6
  <2>2. PICK b \in 1 .. n : p[b] = j
    BY <1>6
  <2>3. Catalog[a] = Catalog[b]
    BY <1>4, <2>1, <2>2
  <2>4. a = b
    BY <1>5, <2>3, CatalogFacts
  <2> QED
    BY <2>1, <2>2, <2>4
<1>8. Capability \subseteq CapabilitiesOf
  <2> SUFFICES ASSUME NEW i \in 1 .. n PROVE Catalog[i] \in CapabilitiesOf
    BY <1>5, CatalogFacts
  <2>1. p[i] \in DOMAIN steps /\ steps[p[i]].capability = Catalog[i]
    BY <1>1, <1>4, <1>6
  <2> QED
    BY <2>1 DEF CapabilitiesOf
<1>9. ASSUME NEW c \in CapabilitiesOf PROVE ByCapability(c).within
  <2>1. PICK i \in 1 .. n : steps[i].capability = c
    BY <1>1 DEF CapabilitiesOf
  <2>2. ByCapability(c) = steps[i]
    BY <1>7, <2>1, StepByKey
  <2> QED
    BY <1>1, <2>2 DEF RunsTheCatalog
<1>10. ASSUME NEW i \in DOMAIN steps
       PROVE  /\ steps[i].id \notin ToSet(steps[i].depends_on)
              /\ ToSet(steps[i].depends_on) \subseteq IdOf
  <2>1. PICK a \in 1 .. n : p[a] = i
    BY <1>1, <1>6
  <2>2. ASSUME NEW d \in ToSet(steps[i].depends_on)
        PROVE  \E j \in 1 .. n : j < a /\ d = steps[p[j]].id
    BY <1>6, <2>1, <2>2
  <2>3. ASSUME NEW d \in ToSet(steps[i].depends_on) PROVE d \in IdOf /\ d # steps[i].id
    <3>1. PICK j \in 1 .. n : j < a /\ d = steps[p[j]].id
      BY <2>2, <2>3
    <3>2. p[j] \in 1 .. n /\ p[j] # i
      <4>1. j # a
        BY <1>1, <3>1
      <4> QED
        BY <1>6, <2>1, <4>1
    <3>3. steps[p[j]].id # steps[i].id
      BY <1>1, <1>2, <3>2 DEF DistinctIds
    <3> QED
      BY <1>1, <3>1, <3>2, <3>3 DEF IdOf
  <2> QED
    BY <2>3
<1>11. ~ HasPlanCycle
  BY <1>2, <1>3, OrderHasNoCycle
<1>12. ASSUME NEW c \in CapabilitiesOf PROVE PrerequisitesMet(c)
  <2> SUFFICES ASSUME NEW k \in 1 .. n, k + 1 \in 1 .. n, Catalog[k + 1] = c
               PROVE  Catalog[k] \in AncestorCapabilities(ByCapability(c).id)
    <3>1. ASSUME NEW x \in Prerequisites(c)
          PROVE  \E k \in 1 .. n : k + 1 \in 1 .. n /\ Catalog[k + 1] = c /\ x = Catalog[k]
      <4>1. PICK k \in DOMAIN Catalog : k < Len(Catalog) /\ Catalog[k + 1] = c /\ x = Catalog[k]
        BY <3>1 DEF Prerequisites
      <4>2. k \in 1 .. n /\ k + 1 \in 1 .. n
        BY <1>1, <1>5, <4>1, CatalogFacts
      <4> QED
        BY <4>1, <4>2
    <3> QED
      BY <3>1 DEF PrerequisitesMet
  <2>1. /\ p[k] \in 1 .. n /\ p[k + 1] \in 1 .. n
        /\ steps[p[k]].capability = Catalog[k] /\ steps[p[k + 1]].capability = c
    BY <1>4, <1>6
  <2>2. ByCapability(c) = steps[p[k + 1]]
    BY <1>7, <2>1, StepByKey
  <2>3. steps[p[k]].id \in ToSet(steps[p[k + 1]].depends_on)
    <3> SUFFICES ASSUME steps[p[k]].id \notin ToSet(steps[p[k + 1]].depends_on) PROVE FALSE
      OBVIOUS
    <3> DEFINE q == [p EXCEPT ![k] = p[k + 1], ![k + 1] = p[k]]
    <3>1. q \in ExecutionOrders
      BY <1>3, SwapIsOrder
    <3>2. q[k] = p[k + 1]
      BY <1>1, <1>6
    <3> HIDE DEF q
    <3>3. Catalog[k] = Catalog[k + 1]
      BY <1>4, <2>1, <3>1, <3>2
    <3>4. k = k + 1
      BY <1>5, <3>3, CatalogFacts
    <3> QED
      BY <1>1, <3>4
  <2>4. steps[p[k]].capability \in AncestorCapabilities(steps[p[k + 1]].id)
    BY <1>2, <2>1, <2>3, DirectAreAncestors
  <2> QED
    BY <2>1, <2>2, <2>4
<1>13. Cardinality(CapabilitiesOf) = Len(steps)
  BY <1>7, KeysAreCounted
<1> QED
  BY <1>2, <1>8, <1>9, <1>10, <1>11, <1>12, <1>13, NoErrors

-----------------------------------------------------------------------------

PlanInv == StepsType /\ AcceptedRunsTheCatalog

LEMMA PlanStep ==
  ASSUME PlanInv, [Plan]_planVars
  PROVE  PlanInv'
<1>1. ASSUME NEW step \in Step, ProposeStep(step) PROVE PlanInv'
  <2>1. StepsType'
    BY <1>1, StepsAssumption DEF PlanInv, StepsType, ProposeStep
  <2>2. AcceptedRunsTheCatalog'
    BY <1>1 DEF ProposeStep, AcceptedRunsTheCatalog
  <2> QED
    BY <2>1, <2>2 DEF PlanInv
<1>2. CASE Validate
  <2>1. steps' = steps /\ verdict'.status = "validated" /\ verdict'.errors = Errors
    BY <1>2 DEF Validate
  <2>2. StepsType'
    BY <2>1 DEF PlanInv, StepsType
  <2>3. Errors = {} <=> RunsTheCatalog
    BY AcceptedIsOrdered, OrderedIsAccepted DEF PlanInv
  <2>4. RunsTheCatalog' <=> RunsTheCatalog
    BY <2>1 DEF RunsTheCatalog, IdOf, ExecutionOrders
  <2>5. AcceptedRunsTheCatalog'
    BY <2>1, <2>3, <2>4 DEF AcceptedRunsTheCatalog, Accepted, RunsTheCatalog
  <2> QED
    BY <2>2, <2>5 DEF PlanInv
<1>3. CASE UNCHANGED planVars
  <2>1. steps' = steps /\ verdict' = verdict
    BY <1>3 DEF planVars
  <2>2. RunsTheCatalog' <=> RunsTheCatalog
    BY <2>1 DEF RunsTheCatalog, IdOf, ExecutionOrders
  <2>3. AcceptedRunsTheCatalog'
    BY <2>1, <2>2 DEF PlanInv, AcceptedRunsTheCatalog, Accepted, RunsTheCatalog
  <2>4. StepsType'
    BY <2>1 DEF PlanInv, StepsType
  <2> QED
    BY <2>3, <2>4 DEF PlanInv
<1> QED
  BY <1>1, <1>2, <1>3 DEF Plan

(* PlanValidator.validate accepts, of the plans of any length over any     *)
(* catalog, exactly those that can be executed in the catalog's order and  *)
(* in no other.                                                            *)
THEOREM AcceptedAlwaysRunsTheCatalog == PlanSpec => []AcceptedRunsTheCatalog
<1>1. PlanInit => PlanInv
  BY StepsAssumption DEF PlanInit, NotValidated, PlanInv, StepsType, AcceptedRunsTheCatalog
<1>2. PlanInv /\ [Plan]_planVars => PlanInv'
  BY PlanStep
<1>3. PlanInv => AcceptedRunsTheCatalog
  BY DEF PlanInv
<1> QED
  BY <1>1, <1>2, <1>3, PTL DEF PlanSpec
=============================================================================
