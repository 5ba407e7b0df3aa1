---------------------------- MODULE RunCreation -----------------------------
(***************************************************************************)
(* RunService.create: requests with an Idempotency-Key, which clients      *)
(* repeat and send at the same time, become one run per key.               *)
(*                                                                         *)
(* A transaction reads what is committed at each statement.  An insert     *)
(* with ON CONFLICT DO NOTHING waits for the uncommitted row of another    *)
(* transaction with the same key.  A run and its first event are one       *)
(* commit; the row stands for both.                                        *)
(***************************************************************************)
EXTENDS Naturals, FiniteSets

CONSTANTS
  Client,   \* connections to the API
  Key,      \* idempotency keys
  Body,     \* request fingerprints
  MaxTries  \* bound of the model: requests of a client

ASSUME TriesAssumption == MaxTries \in Nat \ {0}

VARIABLES
  runs,     \* the committed audit_runs rows
  written,  \* the uncommitted rows of each client's transaction
  stage,    \* where that transaction stands
  asked,    \* the request of each client
  tries,    \* how many requests it sent
  answers   \* what the API answered

creationVars == <<runs, written, stage, asked, tries, answers>>

-----------------------------------------------------------------------------

Request == [key : Key, body : Body]

(* The uuid of a run: who asked for it, and at which try.                  *)
RunId == Client \X (1 .. MaxTries)
Row == [key : Key, body : Body, id : RunId]

(* A run is answered with by its row, IDEMPOTENCY_CONFLICT by no row.      *)
Answer == [to : Request, row : {{}} \union {{r} : r \in Row}]

Stages == {"idle", "lookup", "insert", "reread", "commit", "broken"}

CreationTypeOK ==
  /\ runs \subseteq Row
  /\ written \in [Client -> SUBSET Row]
  /\ stage \in [Client -> Stages]
  /\ asked \in [Client -> Request]
  /\ tries \in [Client -> 1 .. MaxTries]
  /\ answers \subseteq Answer

CreationInit ==
  /\ runs = {}
  /\ written = [c \in Client |-> {}]
  /\ stage = [c \in Client |-> "lookup"]
  /\ asked \in [Client -> Request]
  /\ tries = [c \in Client |-> 1]
  /\ answers = {}

(* A client repeats its request or sends another.                          *)
Ask(c, request) ==
  /\ stage[c] = "idle"
  /\ tries[c] < MaxTries
  /\ asked' = [asked EXCEPT ![c] = request]
  /\ tries' = [tries EXCEPT ![c] = @ + 1]
  /\ stage' = [stage EXCEPT ![c] = "lookup"]
  /\ UNCHANGED <<runs, written, answers>>

Under(key) == {r \in runs : r.key = key}

Reply(c, row) ==
  /\ answers' = answers \union {[to |-> asked[c], row |-> row]}
  /\ stage' = [stage EXCEPT ![c] = "idle"]
  /\ UNCHANGED <<asked, tries>>

(* Fault: the fingerprints are not compared.                               *)
ReplayAnyBody(c, row) == Reply(c, {row})

(* _resolve_replay                                                         *)
Replay(c, row) == Reply(c, IF row.body = asked[c].body THEN {row} ELSE {})

Advance(c, next) ==
  /\ stage' = [stage EXCEPT ![c] = next]
  /\ UNCHANGED <<asked, tries, answers>>

Lookup(c) ==
  /\ stage[c] = "lookup"
  /\ IF Under(asked[c].key) = {}
     THEN Advance(c, "insert")
     ELSE \E row \in Under(asked[c].key) : Replay(c, row)
  /\ UNCHANGED <<runs, written>>

NewRow(c) == [key |-> asked[c].key, body |-> asked[c].body,
              id |-> <<c, tries[c]>>]

(* Fault: an insert without the unique constraint, which waits for nobody. *)
InsertUnguarded(c) ==
  /\ stage[c] = "insert"
  /\ written' = [written EXCEPT ![c] = {NewRow(c)}]
  /\ Advance(c, "commit")
  /\ UNCHANGED runs

(* add_if_idempotency_absent                                               *)
Insert(c) ==
  /\ stage[c] = "insert"
  /\ \A other \in Client \ {c} :
       \A row \in written[other] : row.key # asked[c].key
  /\ IF Under(asked[c].key) = {}
     THEN written' = [written EXCEPT ![c] = {NewRow(c)}] /\ Advance(c, "commit")
     ELSE UNCHANGED written /\ Advance(c, "reread")
  /\ UNCHANGED runs

(* The row that was in the way is read; without one create breaks off.     *)
Reread(c) ==
  /\ stage[c] = "reread"
  /\ IF Under(asked[c].key) = {}
     THEN Advance(c, "broken")
     ELSE \E row \in Under(asked[c].key) : Replay(c, row)
  /\ UNCHANGED <<runs, written>>

Commit(c) ==
  /\ stage[c] = "commit"
  /\ runs' = runs \union written[c]
  /\ written' = [written EXCEPT ![c] = {}]
  /\ Reply(c, written[c])

(* The API process or the connection to the database ends.                 *)
Rollback(c) ==
  /\ stage[c] # "idle"
  /\ written' = [written EXCEPT ![c] = {}]
  /\ Advance(c, "idle")
  /\ UNCHANGED runs

Serve(c) ==
  \/ \E request \in Request : Ask(c, request)
  \/ Lookup(c) \/ Insert(c) \/ Reread(c) \/ Commit(c) \/ Rollback(c)

Create == \E c \in Client : Serve(c)

CreationSpec == CreationInit /\ [][Create]_creationVars

-----------------------------------------------------------------------------

(* A key has one run at most, committed or about to be: a repeated or      *)
(* concurrent request never makes a second one.                            *)
OneRunPerKey ==
  LET all == runs \union UNION {written[c] : c \in Client} IN
  \A r, s \in all : r.key = s.key => r = s

(* All answers to requests with one key agree: each names the one run of   *)
(* the key, if it was made by the same request, and is a conflict exactly  *)
(* if it was made by another one.  No lost race leaves create without the  *)
(* run that won it.                                                        *)
AnswersAgree ==
  /\ \A a \in answers :
       \E r \in runs :
         /\ r.key = a.to.key
         /\ a.row = IF r.body = a.to.body THEN {r} ELSE {}
  /\ \A c \in Client : stage[c] # "broken"
=============================================================================
