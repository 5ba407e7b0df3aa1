---------------------------- MODULE RunnerProofs ----------------------------
(***************************************************************************)
(* Proofs about Runner, for any tables, any histories of migrations, any   *)
(* fixtures and any number of interrupts.  What a command does to the      *)
(* database is a repeated migration, so the lemmas are inductions over the *)
(* number of migrations made.                                              *)
(***************************************************************************)
EXTENDS Runner, Intervals, TLAPS

-----------------------------------------------------------------------------
(* What Repeated computes.                                                 *)

Follows(f, move, n, first) ==
  f = [i \in 0 .. n |-> IF i = 0 THEN first ELSE move[f[i - 1]]]

LEMMA SequenceExists ==
  ASSUME NEW S, NEW move \in [S -> S], NEW first \in S
  PROVE  \A n \in Nat : \E f \in [0 .. n -> S] : Follows(f, move, n, first)
<1> DEFINE T == {n \in Nat : \E f \in [0 .. n -> S] : Follows(f, move, n, first)}
<1>1. 0 \in T
  <2> DEFINE f == [i \in 0 .. 0 |-> first]
  <2>1. f \in [0 .. 0 -> S] /\ Follows(f, move, 0, first)
    BY DEF Follows
  <2> QED
    BY <2>1
<1>2. ASSUME NEW n \in Nat, n \in T PROVE n + 1 \in T
  <2>1. PICK f \in [0 .. n -> S] : Follows(f, move, n, first)
    BY <1>2
  <2> DEFINE g == [i \in 0 .. n + 1 |-> IF i = n + 1 THEN move[f[n]] ELSE f[i]]
  <2>2. g \in [0 .. n + 1 -> S]
    OBVIOUS
  <2>3. ASSUME NEW i \in 0 .. n + 1
        PROVE  g[i] = IF i = 0 THEN first ELSE move[g[i - 1]]
    <3>1. CASE i = n + 1
      BY <3>1
    <3>2. CASE i # n + 1
      <4>1. i \in 0 .. n
        BY <3>2
      <4>2. f[i] = IF i = 0 THEN first ELSE move[f[i - 1]]
        BY <2>1, <4>1 DEF Follows
      <4>3. i # 0 => i - 1 \in 0 .. n /\ i - 1 # n + 1
        BY <4>1
      <4> QED
        BY <3>2, <4>1, <4>2, <4>3
    <3> QED
      BY <3>1, <3>2
  <2>4. Follows(g, move, n + 1, first)
    BY <2>2, <2>3 DEF Follows
  <2> QED
    BY <2>2, <2>4
<1> HIDE DEF T
<1>3. \A n \in Nat : n \in T
  BY <1>1, <1>2, InductionOnSet
<1> QED
  BY <1>3 DEF T

LEMMA SequenceUnique ==
  ASSUME NEW move, NEW first, NEW m \in Nat, NEW n \in Nat, NEW f, NEW g,
         Follows(f, move, m, first), Follows(g, move, n, first)
  PROVE  \A i \in Nat : i <= m /\ i <= n => f[i] = g[i]
<1> DEFINE T == {i \in Nat : i <= m /\ i <= n => f[i] = g[i]}
<1>1. \A i \in 0 .. m : f[i] = IF i = 0 THEN first ELSE move[f[i - 1]]
  BY DEF Follows
<1>2. \A i \in 0 .. n : g[i] = IF i = 0 THEN first ELSE move[g[i - 1]]
  BY DEF Follows
<1>3. 0 \in T
  BY <1>1, <1>2
<1>4. ASSUME NEW i \in Nat, i \in T PROVE i + 1 \in T
  <2> SUFFICES ASSUME i + 1 <= m, i + 1 <= n PROVE f[i + 1] = g[i + 1]
    OBVIOUS
  <2>1. f[i] = g[i] /\ i + 1 \in 0 .. m /\ i + 1 \in 0 .. n /\ (i + 1) - 1 = i
    BY <1>4
  <2> QED
    BY <2>1, <1>1, <1>2
<1> HIDE DEF T
<1>5. \A i \in Nat : i \in T
  BY <1>3, <1>4, InductionOnSet
<1> QED
  BY <1>5 DEF T

LEMMA RepeatedFollows ==
  ASSUME NEW S, NEW move \in [S -> S], NEW first \in S
  PROVE  \A n \in Nat : \E f \in [0 .. n -> S] :
           Follows(f, move, n, first) /\ Repeated(move, n, first) = f[n]
<1> TAKE n \in Nat
<1>1. PICK f \in [0 .. n -> S] : Follows(f, move, n, first)
  BY SequenceExists
<1> DEFINE h == CHOOSE g : g = [i \in 0 .. n |-> IF i = 0 THEN first ELSE move[g[i - 1]]]
<1>2. h = [i \in 0 .. n |-> IF i = 0 THEN first ELSE move[h[i - 1]]]
  BY <1>1 DEF Follows
<1>3. Repeated(move, n, first) = h[n]
  BY DEF Repeated
<1> HIDE DEF h
<1>4. Follows(h, move, n, first)
  BY <1>2 DEF Follows
<1>5. h[n] = f[n]
  BY <1>1, <1>4, SequenceUnique
<1> QED
  BY <1>1, <1>3, <1>5

(* Repeated begins with its first state, takes one move for each further   *)
(* step, and stays in the set the move is on.                              *)
LEMMA RepeatedFacts ==
  ASSUME NEW S, NEW move \in [S -> S], NEW first \in S
  PROVE  /\ Repeated(move, 0, first) = first
         /\ \A n \in Nat :
              /\ Repeated(move, n, first) \in S
              /\ Repeated(move, n + 1, first) = move[Repeated(move, n, first)]
<1>0. \A n \in Nat : \E f \in [0 .. n -> S] :
        Follows(f, move, n, first) /\ Repeated(move, n, first) = f[n]
  BY RepeatedFollows
<1>1. Repeated(move, 0, first) = first
  <2>1. PICK f \in [0 .. 0 -> S] :
          Follows(f, move, 0, first) /\ Repeated(move, 0, first) = f[0]
    BY <1>0
  <2> QED
    BY <2>1 DEF Follows
<1>2. ASSUME NEW n \in Nat
      PROVE  /\ Repeated(move, n, first) \in S
             /\ Repeated(move, n + 1, first) = move[Repeated(move, n, first)]
  <2>1. PICK f \in [0 .. n -> S] :
          Follows(f, move, n, first) /\ Repeated(move, n, first) = f[n]
    BY <1>0
  <2>2. PICK g \in [0 .. n + 1 -> S] :
          Follows(g, move, n + 1, first) /\ Repeated(move, n + 1, first) = g[n + 1]
    <3>1. n + 1 \in Nat
      OBVIOUS
    <3> QED
      BY <3>1, <1>0
  <2>3. f[n] = g[n]
    BY <2>1, <2>2, SequenceUnique
  <2>4. \A i \in 0 .. n + 1 : g[i] = IF i = 0 THEN first ELSE move[g[i - 1]]
    BY <2>2 DEF Follows
  <2>5. g[n + 1] = move[g[n]]
    <3>1. n + 1 \in 0 .. n + 1 /\ n + 1 # 0 /\ (n + 1) - 1 = n
      OBVIOUS
    <3> QED
      BY <2>4, <3>1
  <2> QED
    BY <2>1, <2>2, <2>3, <2>5
<1> QED
  BY <1>1, <1>2

(* A state that the move leaves alone is the last of the sequence.         *)
LEMMA RepeatedStays ==
  ASSUME NEW S, NEW move \in [S -> S], NEW first \in S, NEW m \in Nat,
         move[Repeated(move, m, first)] = Repeated(move, m, first)
  PROVE  \A n \in Nat : n >= m => Repeated(move, n, first) = Repeated(move, m, first)
<1> DEFINE T == {n \in Nat : n >= m => Repeated(move, n, first) = Repeated(move, m, first)}
<1>1. 0 \in T
  OBVIOUS
<1>2. ASSUME NEW n \in Nat, n \in T PROVE n + 1 \in T
  <2> SUFFICES ASSUME n + 1 >= m
               PROVE  Repeated(move, n + 1, first) = Repeated(move, m, first)
    OBVIOUS
  <2>1. CASE n + 1 = m
    BY <2>1
  <2>2. CASE n + 1 # m
    <3>1. Repeated(move, n, first) = Repeated(move, m, first)
      BY <1>2, <2>2
    <3> QED
      BY <3>1, RepeatedFacts
  <2> QED
    BY <2>1, <2>2
<1> HIDE DEF T
<1>3. \A n \in Nat : n \in T
  BY <1>1, <1>2, InductionOnSet
<1> QED
  BY <1>3 DEF T

-----------------------------------------------------------------------------
(* What a migration does to the tables.                                    *)

Migrations == [up : Change, down : Change]

(* A table that is not there has no rows.                                  *)
Clean(tables) == \A t \in Table : tables[t].columns = 0 => tables[t].rows = 0

LEMMA ChangeIs ==
  ASSUME NEW change \in Change
  PROVE  \/ change.kind \in {"nothing", "raise", "raise_value_error"}
         \/ /\ change.kind \in {"create", "drop", "add_column", "drop_column",
                                "insert", "delete"}
            /\ change.table \in Table
BY DEF Change

LEMMA ChangedType ==
  ASSUME NEW tables \in [Table -> TableState], NEW change \in Change,
         CanChange(tables, change)
  PROVE  /\ Changed(tables, change) \in [Table -> TableState]
         /\ Clean(tables) => Clean(Changed(tables, change))
<1> DEFINE t == change.table
<1>1. CASE change.kind \in {"nothing", "raise", "raise_value_error"}
  BY <1>1 DEF CanChange, Changed
<1>2. CASE change.kind = "create" /\ t \in Table
  BY <1>2 DEF Changed, CanChange, TableState, Clean
<1>3. CASE change.kind = "drop" /\ t \in Table
  BY <1>3, RunnerAssumption DEF Changed, TableState, Clean, Absent
<1>4. CASE change.kind = "add_column" /\ t \in Table
  BY <1>4 DEF Changed, TableState, Clean
<1>5. CASE change.kind = "drop_column" /\ t \in Table
  BY <1>5 DEF Changed, TableState, Clean
<1>6. CASE change.kind = "insert" /\ t \in Table
  BY <1>6, RunnerAssumption DEF Changed, CanChange, TableState, Clean
<1>7. CASE change.kind = "delete" /\ t \in Table
  BY <1>7, RunnerAssumption DEF Changed, TableState, Clean
<1> QED
  BY <1>1, <1>2, <1>3, <1>4, <1>5, <1>6, <1>7, ChangeIs

LEMMA TargetIs ==
  ASSUME RepositoryInit
  PROVE  /\ Target \in Nat /\ baseline \in Nat /\ baseline < Target
         /\ \A i \in 1 .. Target :
              migrations[i].up \in Change /\ migrations[i].down \in Change
<1>1. migrations \in Seq(Migrations)
  BY RunnerAssumption DEF RepositoryInit, Migrations
<1>2. Target \in Nat
  BY <1>1 DEF Target
<1>3. baseline \in Nat /\ baseline < Target
  BY <1>2 DEF RepositoryInit
<1>4. \A i \in 1 .. Target : migrations[i] \in Migrations
  BY <1>1 DEF Target
<1>5. \A m \in Migrations : m.up \in Change /\ m.down \in Change
  BY DEF Migrations
<1> QED
  BY <1>2, <1>3, <1>4, <1>5

CleanDatabase == {d \in Database : Clean(d.tables)}

LEMMA EmptyIs ==
  ASSUME RepositoryInit
  PROVE  Empty \in CleanDatabase
<1>1. Absent \in TableState
  BY RunnerAssumption DEF Absent, TableState
<1>2. Empty \in Database
  BY <1>1, TargetIs DEF Empty, Database
<1>3. Clean(Empty.tables)
  BY DEF Empty, Absent, Clean
<1> QED
  BY <1>2, <1>3 DEF CleanDatabase

(* One migration, up or down, stays among the databases.                   *)
LEMMA UpgradeOneType ==
  ASSUME RepositoryInit, NEW d \in Database, NEW r \in 0 .. Target
  PROVE  /\ UpgradeOne(d, r) \in Database
         /\ Clean(d.tables) => Clean(UpgradeOne(d, r).tables)
<1> DEFINE change == migrations[d.revision + 1].up
<1>1. CASE d.revision < r /\ CanChange(d.tables, change)
  <2>1. d.revision + 1 \in 1 .. Target /\ d.tables \in [Table -> TableState]
    BY <1>1, TargetIs DEF Database
  <2>2. change \in Change
    BY <2>1, TargetIs
  <2> HIDE DEF change
  <2>3. /\ Changed(d.tables, change) \in [Table -> TableState]
        /\ Clean(d.tables) => Clean(Changed(d.tables, change))
    BY <1>1, <2>1, <2>2, ChangedType
  <2>4. UpgradeOne(d, r) = [revision |-> d.revision + 1, tables |-> Changed(d.tables, change)]
    BY <1>1 DEF UpgradeOne, change
  <2> QED
    BY <2>1, <2>3, <2>4 DEF Database
<1>2. CASE ~ (d.revision < r /\ CanChange(d.tables, change))
  BY <1>2 DEF UpgradeOne
<1> QED
  BY <1>1, <1>2

LEMMA DowngradeOneType ==
  ASSUME RepositoryInit, NEW d \in Database, NEW r \in 0 .. Target
  PROVE  /\ DowngradeOne(d, r) \in Database
         /\ Clean(d.tables) => Clean(DowngradeOne(d, r).tables)
<1> DEFINE change == migrations[d.revision].down
<1>1. CASE d.revision > r /\ CanChange(d.tables, change)
  <2>1. d.revision \in 1 .. Target /\ d.tables \in [Table -> TableState]
    BY <1>1, TargetIs DEF Database
  <2>2. change \in Change
    BY <2>1, TargetIs
  <2> HIDE DEF change
  <2>3. /\ Changed(d.tables, change) \in [Table -> TableState]
        /\ Clean(d.tables) => Clean(Changed(d.tables, change))
    BY <1>1, <2>1, <2>2, ChangedType
  <2>4. DowngradeOne(d, r) = [revision |-> d.revision - 1, tables |-> Changed(d.tables, change)]
    BY <1>1 DEF DowngradeOne, change
  <2>5. d.revision - 1 \in 0 .. Target
    BY <2>1, TargetIs
  <2> QED
    BY <2>3, <2>4, <2>5 DEF Database
<1>2. CASE ~ (d.revision > r /\ CanChange(d.tables, change))
  BY <1>2 DEF DowngradeOne
<1> QED
  BY <1>1, <1>2

(* What the move keeps holds of the whole sequence.                        *)
LEMMA RepeatedWithin ==
  ASSUME NEW S, NEW move \in [S -> S], NEW C, C \subseteq S,
         \A d \in C : move[d] \in C, NEW first \in C
  PROVE  \A n \in Nat : Repeated(move, n, first) \in C
<1> DEFINE T == {n \in Nat : Repeated(move, n, first) \in C}
<1>1. /\ Repeated(move, 0, first) = first
      /\ \A n \in Nat : Repeated(move, n + 1, first) = move[Repeated(move, n, first)]
  BY RepeatedFacts
<1>2. 0 \in T
  BY <1>1
<1>3. \A n \in Nat : n \in T => n + 1 \in T
  BY <1>1
<1> HIDE DEF T
<1>4. \A n \in Nat : n \in T
  BY <1>2, <1>3, InductionOnSet
<1> QED
  BY <1>4 DEF T

(* Going on from a state of the sequence is going on with the sequence.    *)
LEMMA RepeatedGoesOn ==
  ASSUME NEW S, NEW move \in [S -> S], NEW first \in S, NEW m \in Nat
  PROVE  \A n \in Nat : Repeated(move, n, Repeated(move, m, first))
                          = Repeated(move, m + n, first)
<1> DEFINE second == Repeated(move, m, first)
           T == {n \in Nat : Repeated(move, n, second) = Repeated(move, m + n, first)}
<1>1. \A n \in Nat : Repeated(move, n + 1, first) = move[Repeated(move, n, first)]
  BY RepeatedFacts
<1>2. second \in S
  BY RepeatedFacts
<1> HIDE DEF second
<1>3. /\ Repeated(move, 0, second) = second
      /\ \A n \in Nat : Repeated(move, n + 1, second) = move[Repeated(move, n, second)]
  BY <1>2, RepeatedFacts
<1>4. 0 \in T
  BY <1>3 DEF second
<1>5. ASSUME NEW n \in Nat, n \in T PROVE n + 1 \in T
  <2>1. m + n \in Nat /\ m + (n + 1) = (m + n) + 1
    OBVIOUS
  <2>2. Repeated(move, m + (n + 1), first) = move[Repeated(move, m + n, first)]
    BY <2>1, <1>1
  <2> QED
    BY <2>2, <1>3, <1>5
<1> HIDE DEF T
<1>6. \A n \in Nat : n \in T
  BY <1>4, <1>5, InductionOnSet
<1> QED
  BY <1>6 DEF T, second

-----------------------------------------------------------------------------
(* The commands.                                                           *)

UpMove(r) == [d \in Database |-> UpgradeOne(d, r)]
DownMove(r) == [d \in Database |-> DowngradeOne(d, r)]

LEMMA CommandsAre ==
  ASSUME NEW d, NEW r
  PROVE  /\ Upgraded(d, r) = Repeated(UpMove(r), Target, d)
         /\ Downgraded(d, r) = Repeated(DownMove(r), Target, d)
BY DEF Upgraded, Downgraded, UpMove, DownMove

LEMMA MovesType ==
  ASSUME RepositoryInit, NEW r \in 0 .. Target
  PROVE  /\ UpMove(r) \in [Database -> Database]
         /\ DownMove(r) \in [Database -> Database]
         /\ \A d \in Database : /\ UpMove(r)[d] = UpgradeOne(d, r)
                                /\ DownMove(r)[d] = DowngradeOne(d, r)
         /\ \A d \in CleanDatabase : /\ UpMove(r)[d] \in CleanDatabase
                                     /\ DownMove(r)[d] \in CleanDatabase
<1>1. \A d \in Database : UpgradeOne(d, r) \in Database /\ DowngradeOne(d, r) \in Database
  BY UpgradeOneType, DowngradeOneType
<1>2. \A d \in Database : Clean(d.tables) =>
        Clean(UpgradeOne(d, r).tables) /\ Clean(DowngradeOne(d, r).tables)
  BY UpgradeOneType, DowngradeOneType
<1> QED
  BY <1>1, <1>2 DEF UpMove, DownMove, CleanDatabase

(* A command ends with a database, and makes no rows without a table.      *)
LEMMA CommandsType ==
  ASSUME RepositoryInit, NEW d \in Database, NEW r \in 0 .. Target
  PROVE  /\ Upgraded(d, r) \in Database /\ Downgraded(d, r) \in Database
         /\ d \in CleanDatabase =>
              Upgraded(d, r) \in CleanDatabase /\ Downgraded(d, r) \in CleanDatabase
<1>1. UpMove(r) \in [Database -> Database] /\ DownMove(r) \in [Database -> Database]
  BY MovesType
<1>2. Target \in Nat
  BY TargetIs
<1>3. /\ Repeated(UpMove(r), Target, d) \in Database
      /\ Repeated(DownMove(r), Target, d) \in Database
  BY <1>1, <1>2, RepeatedFacts
<1>4. ASSUME d \in CleanDatabase
      PROVE  /\ Repeated(UpMove(r), Target, d) \in CleanDatabase
             /\ Repeated(DownMove(r), Target, d) \in CleanDatabase
  <2>1. CleanDatabase \subseteq Database
    BY DEF CleanDatabase
  <2>2. \A c \in CleanDatabase :
          UpMove(r)[c] \in CleanDatabase /\ DownMove(r)[c] \in CleanDatabase
    BY MovesType
  <2>3. Repeated(UpMove(r), Target, d) \in CleanDatabase
    BY <1>1, <1>2, <1>4, <2>1, <2>2, RepeatedWithin
  <2>4. Repeated(DownMove(r), Target, d) \in CleanDatabase
    BY <1>1, <1>2, <1>4, <2>1, <2>2, RepeatedWithin
  <2> QED
    BY <2>3, <2>4
<1> QED
  BY <1>3, <1>4, CommandsAre

-----------------------------------------------------------------------------
(* The path of an undisturbed upgrade: the empty database after the first  *)
(* migrations.                                                             *)

At(n) == Repeated(UpMove(Target), n, Empty)
Path == {At(n) : n \in 0 .. Target}

LEMMA PathFacts ==
  ASSUME RepositoryInit
  PROVE  /\ At(0) = Empty
         /\ \A n \in Nat : At(n) \in CleanDatabase /\ At(n) \in Database
         /\ \A n \in Nat : At(n + 1) = UpgradeOne(At(n), Target)
<1>1. Target \in 0 .. Target
  BY TargetIs
<1>2. UpMove(Target) \in [Database -> Database]
  BY <1>1, MovesType
<1>3. Empty \in CleanDatabase /\ CleanDatabase \subseteq Database
  BY EmptyIs DEF CleanDatabase
<1>4. \A c \in CleanDatabase : UpMove(Target)[c] \in CleanDatabase
  BY <1>1, MovesType
<1>5. \A n \in Nat : At(n) \in CleanDatabase
  BY <1>2, <1>3, <1>4, RepeatedWithin DEF At
<1>6. /\ At(0) = Empty
      /\ \A n \in Nat : At(n + 1) = UpMove(Target)[At(n)]
  BY <1>2, <1>3, RepeatedFacts DEF At
<1> QED
  BY <1>1, <1>3, <1>5, <1>6, MovesType

(* After n migrations the revision is the n-th, or the upgrade is stuck.   *)
LEMMA PathRevision ==
  ASSUME RepositoryInit
  PROVE  \A n \in Nat :
           /\ At(n).revision <= n
           /\ At(n).revision # n => UpgradeOne(At(n), Target) = At(n)
<1> DEFINE T == {n \in Nat : /\ At(n).revision <= n
                             /\ At(n).revision # n => UpgradeOne(At(n), Target) = At(n)}
<1>1. 0 \in T
  BY PathFacts DEF Empty
<1>2. ASSUME NEW n \in Nat, n \in T PROVE n + 1 \in T
  <2>1. /\ At(n + 1) = UpgradeOne(At(n), Target)
        /\ At(n) \in Database
    BY PathFacts
  <2>2. CASE UpgradeOne(At(n), Target) = At(n)
    BY <1>2, <2>1, <2>2, TargetIs DEF Database
  <2>3. CASE UpgradeOne(At(n), Target) # At(n)
    <3>1. At(n).revision = n
      BY <1>2, <2>3
    <3>2. UpgradeOne(At(n), Target).revision = At(n).revision + 1
      BY <2>3 DEF UpgradeOne
    <3> QED
      BY <2>1, <3>1, <3>2
  <2> QED
    BY <2>2, <2>3
<1> HIDE DEF T
<1>3. \A n \in Nat : n \in T
  BY <1>1, <1>2, InductionOnSet
<1> QED
  BY <1>3 DEF T

(* It ends with the last migration at the latest.                          *)
LEMMA PathEnds ==
  ASSUME RepositoryInit
  PROVE  /\ UpgradeOne(At(Target), Target) = At(Target)
         /\ \A n \in Nat : n >= Target => At(n) = At(Target)
<1>1. Target \in Nat /\ Target \in 0 .. Target
  BY TargetIs
<1>2. At(Target) \in Database
  BY <1>1, PathFacts
<1>3. UpgradeOne(At(Target), Target) = At(Target)
  <2>1. CASE At(Target).revision = Target
    BY <2>1, <1>1 DEF UpgradeOne
  <2>2. CASE At(Target).revision # Target
    BY <2>2, <1>1, PathRevision
  <2> QED
    BY <2>1, <2>2
<1>4. UpMove(Target) \in [Database -> Database] /\ Empty \in Database
  BY <1>1, MovesType, EmptyIs DEF CleanDatabase
<1>5. UpMove(Target)[At(Target)] = At(Target)
  BY <1>1, <1>2, <1>3, MovesType
<1>6. \A n \in Nat : n >= Target => At(n) = At(Target)
  BY <1>1, <1>4, <1>5, RepeatedStays DEF At
<1> QED
  BY <1>3, <1>6

(* One more migration of any upgrade stays on the path.                    *)
LEMMA PathUp ==
  ASSUME RepositoryInit, NEW r \in 0 .. Target, NEW d \in Path
  PROVE  UpgradeOne(d, r) \in Path
<1>1. Target \in Nat
  BY TargetIs
<1>2. PICK n \in 0 .. Target : d = At(n)
  BY DEF Path
<1>3. At(n) \in Database
  BY <1>1, <1>2, PathFacts
<1>4. CASE UpgradeOne(d, r) = d
  BY <1>4
<1>5. CASE UpgradeOne(d, r) # d
  <2>1. UpgradeOne(d, r) = UpgradeOne(d, Target)
    BY <1>1, <1>2, <1>3, <1>5 DEF UpgradeOne, Database
  <2>2. UpgradeOne(d, r) = At(n + 1)
    BY <1>1, <1>2, <2>1, PathFacts
  <2>3. n # Target
    BY <1>2, <1>5, <2>1, PathEnds
  <2>4. n + 1 \in 0 .. Target
    BY <1>1, <1>2, <2>3
  <2> QED
    BY <2>2, <2>4 DEF Path
<1> QED
  BY <1>4, <1>5

(* An upgrade from anywhere on the path stays on it, and one to the target *)
(* ends where the path ends.                                               *)
LEMMA UpgradedOnPath ==
  ASSUME RepositoryInit, NEW d \in Path
  PROVE  /\ \A r \in 0 .. Target : Upgraded(d, r) \in Path
         /\ Upgraded(d, Target) = At(Target)
<1>1. Target \in Nat /\ Target \in 0 .. Target
  BY TargetIs
<1>2. Path \subseteq Database
  BY <1>1, PathFacts DEF Path
<1>3. ASSUME NEW r \in 0 .. Target PROVE Upgraded(d, r) \in Path
  <2>1. UpMove(r) \in [Database -> Database]
    BY MovesType
  <2>2. \A c \in Path : UpMove(r)[c] \in Path
    BY <1>2, MovesType, PathUp
  <2>3. Repeated(UpMove(r), Target, d) \in Path
    BY <1>1, <1>2, <2>1, <2>2, RepeatedWithin
  <2> QED
    BY <2>3, CommandsAre
<1>4. PICK m \in 0 .. Target : d = At(m)
  BY DEF Path
<1>5. UpMove(Target) \in [Database -> Database] /\ Empty \in Database
  BY <1>1, MovesType, EmptyIs DEF CleanDatabase
<1>6. Repeated(UpMove(Target), Target, At(m)) = At(m + Target)
  BY <1>1, <1>4, <1>5, RepeatedGoesOn DEF At
<1>7. At(m + Target) = At(Target)
  BY <1>1, <1>4, PathEnds
<1> QED
  BY <1>3, <1>4, <1>6, <1>7, CommandsAre

(* Upgrading an empty database to a revision is going as many steps.       *)
LEMMA UpgradedIsAt ==
  ASSUME RepositoryInit, NEW r \in 0 .. Target
  PROVE  Upgraded(Empty, r) = At(r)
<1> DEFINE Reached(n) == Repeated(UpMove(r), n, Empty)
           T == {n \in Nat : Reached(n) = At(IF n <= r THEN n ELSE r)}
<1>1. Target \in Nat /\ r \in Nat /\ r <= Target
  BY TargetIs
<1>2. UpMove(r) \in [Database -> Database] /\ Empty \in Database
  BY MovesType, EmptyIs DEF CleanDatabase
<1>3. /\ Reached(0) = Empty
      /\ \A n \in Nat : Reached(n + 1) = UpMove(r)[Reached(n)]
  BY <1>2, RepeatedFacts
<1> HIDE DEF Reached
<1>4. 0 \in T
  BY <1>1, <1>3, PathFacts
<1>5. ASSUME NEW n \in Nat, n \in T PROVE n + 1 \in T
  <2>1. CASE n < r
    <3>1. Reached(n) = At(n) /\ At(n) \in Database
      BY <1>1, <1>5, <2>1, PathFacts
    <3>2. Reached(n + 1) = UpgradeOne(At(n), r)
      BY <1>3, <3>1, MovesType
    <3>3. At(n).revision < r /\ At(n).revision < Target
      <4>1. At(n).revision <= n /\ At(n).revision \in Nat
        BY <3>1, PathRevision, <1>1 DEF Database
      <4> QED
        BY <1>1, <2>1, <4>1
    <3>4. UpgradeOne(At(n), r) = UpgradeOne(At(n), Target)
      BY <3>3 DEF UpgradeOne
    <3>5. Reached(n + 1) = At(n + 1)
      BY <3>2, <3>4, PathFacts
    <3> QED
      BY <1>1, <2>1, <3>5
  <2>2. CASE ~ (n < r)
    <3>1. Reached(n) = At(r) /\ At(r) \in Database
      <4>1. CASE n = r
        BY <1>1, <1>5, <4>1, PathFacts
      <4>2. CASE n # r
        BY <1>1, <1>5, <2>2, <4>2, PathFacts
      <4> QED
        BY <4>1, <4>2
    <3>2. Reached(n + 1) = UpgradeOne(At(r), r)
      BY <1>3, <3>1, MovesType
    <3>3. UpgradeOne(At(r), r) = At(r)
      <4>1. CASE At(r).revision = r
        BY <1>1, <4>1 DEF UpgradeOne
      <4>2. CASE At(r).revision # r
        <5>1. UpgradeOne(At(r), Target) = At(r) /\ At(r).revision <= r
          BY <1>1, <4>2, PathRevision
        <5>2. At(r).revision \in Nat
          BY <1>1, <3>1 DEF Database
        <5>3. At(r).revision < r /\ At(r).revision < Target
          BY <1>1, <4>2, <5>1, <5>2
        <5> QED
          BY <5>1, <5>3 DEF UpgradeOne
      <4> QED
        BY <4>1, <4>2
    <3> QED
      BY <1>1, <2>2, <3>2, <3>3
  <2> QED
    BY <2>1, <2>2
<1> HIDE DEF T
<1>6. \A n \in Nat : n \in T
  BY <1>4, <1>5, InductionOnSet
<1>7. Reached(Target) = At(r)
  <2>1. Reached(Target) = At(IF Target <= r THEN Target ELSE r)
    BY <1>1, <1>6 DEF T
  <2> QED
    BY <1>1, <2>1
<1> QED
  BY <1>7, CommandsAre DEF Reached

(* The repository does not change, so neither does what the commands do.   *)
LEMMA RepositoryStays ==
  ASSUME RepositoryInit, UNCHANGED repositoryVars
  PROVE  /\ RepositoryInit' /\ Target' = Target
         /\ Database' = Database /\ CleanDatabase' = CleanDatabase
         /\ Path' = Path /\ \A n : At(n)' = At(n)
         /\ \A d, r : (Upgraded(d, r))' = Upgraded(d, r)
<1>1. migrations' = migrations /\ baseline' = baseline /\ fixture' = fixture /\ support' = support
  BY DEF repositoryVars
<1>2. Target' = Target
  BY <1>1 DEF Target
<1>3. RepositoryInit'
  BY <1>1, <1>2 DEF RepositoryInit
<1>4. Database' = Database
  BY <1>2 DEF Database
<1>5. CleanDatabase' = CleanDatabase
  BY <1>4 DEF CleanDatabase
<1>6. ASSUME NEW d, NEW r PROVE UpgradeOne(d, r)' = UpgradeOne(d, r)
  BY <1>1 DEF UpgradeOne
<1>7. ASSUME NEW r PROVE UpMove(r)' = UpMove(r)
  BY <1>4, <1>6 DEF UpMove
<1>8. ASSUME NEW d, NEW r PROVE Upgraded(d, r)' = Upgraded(d, r)
  <2>1. Upgraded(d, r) = Repeated(UpMove(r), Target, d)
    BY CommandsAre
  <2>2. Upgraded(d, r)' = Repeated(UpMove(r)', Target', d)
    BY CommandsAre DEF Upgraded, UpMove
  <2> QED
    BY <1>2, <1>7, <2>1, <2>2
<1>9. UpMove(Target)' = UpMove(Target)
  BY <1>2, <1>4, <1>6 DEF UpMove
<1>10. ASSUME NEW n PROVE At(n)' = At(n)
  BY <1>9 DEF At, Empty
<1>11. Path' = Path
  BY <1>2, <1>10 DEF Path
<1> QED
  BY <1>2, <1>3, <1>4, <1>5, <1>8, <1>10, <1>11

-----------------------------------------------------------------------------
(* The inductive invariant.                                                *)

(* Until the first seeding the database is on the path of an undisturbed   *)
(* upgrade, and at its end once the target was applied.                    *)
PathInv ==
  seeded = NotSeeded =>
    /\ database \in Path
    /\ step \in {"baseline", "apply", "load", "failed"}
    /\ step = "failed" => verdict.step \in {"baseline", "apply", "load"}
    /\ step = "load" \/ (step = "failed" /\ verdict.step = "load") =>
         database = At(Target)

RoundtripSteps == {"downgrade", "upgrade", "compare"}
RoundtripFailed == step = "failed" /\ verdict.step \in RoundtripSteps

(* No migration of the upgrade is stuck.                                   *)
Complete == \A r \in 0 .. Target : At(r).revision = r

(* What the downgrade to a revision leaves of the rows it began with.      *)
Kept(r, t) ==
  IF \E s \in r .. Target : At(s).tables[t].columns = 0 THEN 0 ELSE before.rows[t]

(* The database has a revision's schema, and the rows that a downgrade to  *)
(* another left.                                                           *)
IsAt(db, revision, lowest) ==
  /\ db.revision = revision
  /\ \A t \in Table : /\ db.tables[t].columns = At(revision).tables[t].columns
                      /\ db.tables[t].rows = Kept(lowest, t)

RowsAreLost == \E t \in Table : Vanishes(t) /\ observed.rows[t] > 0

(* How the stages go without an interrupt.                                 *)
UpgradeInv ==
  /\ step \in {"baseline", "apply", "load"} => seeded = NotSeeded
  /\ step \in {"load", "smoke", "observe", "recover", "done"} \union RoundtripSteps
       \/ RoundtripFailed => Complete
  /\ step \in {"load", "smoke", "observe", "downgrade"} =>
       database.revision = Target /\ Schema(database) = Schema(At(Target))

RoundtripInv ==
  /\ step \in {"observe", "downgrade"} => observed = Observation(database)
  /\ step \in RoundtripSteps \union {"done"} =>
       before = observed /\ before.schema = Schema(At(Target))
  /\ step = "done" => database.revision = Target /\ before = Observation(database)

ReversibleInv ==
  /\ step = "upgrade" => IsAt(database, baseline, baseline)
  /\ step = "compare" => IsAt(database, Target, baseline)
  /\ step = "done" => ~ RowsAreLost
  /\ step = "recover" \/ RoundtripFailed => RowsAreLost

RunnerInv ==
  /\ RepositoryInit /\ RunnerTypeOK /\ Clean(database.tables) /\ PathInv
  /\ interrupts = 0 => UpgradeInv /\ RoundtripInv /\ (Reversible => ReversibleInv)
  /\ CoverageNotOverstated

-----------------------------------------------------------------------------
(* Types.                                                                  *)

Observations == [schema : [Table -> 0 .. 2], rows : [Table -> 0 .. MaxRows]]

LEMMA ObservationType ==
  ASSUME RepositoryInit, NEW db \in Database
  PROVE  Observation(db) \in Observations
<1>1. \A t \in Table : db.tables[t] \in TableState
  BY DEF Database
<1>2. \A t \in Table : db.tables[t].columns \in 0 .. 2 /\ db.tables[t].rows \in 0 .. MaxRows
  BY <1>1 DEF TableState
<1> QED
  BY <1>2 DEF Observation, Schema, Rows, Observations

LEMMA InitRunnerInv ==
  ASSUME RunnerInit
  PROVE  RunnerInv
<1> USE DEF RunnerInit, DatabaseInit
<1>1. Target \in Nat /\ baseline \in Nat /\ baseline < Target
  BY TargetIs
<1>2. Empty \in CleanDatabase
  BY EmptyIs
<1>3. Empty \in Database /\ Clean(Empty.tables)
  BY <1>2 DEF CleanDatabase
<1>4. NotObserved \in Observations
  BY <1>3, ObservationType DEF NotObserved
<1>5. RunnerTypeOK
  BY <1>3, <1>4, RunnerAssumption
     DEF RunnerTypeOK, Steps, NotSeeded, Observations, Codes
<1>6. Empty \in Path
  BY <1>1, PathFacts DEF Path
<1>7. PathInv
  BY <1>6 DEF PathInv
<1>8. UpgradeInv /\ RoundtripInv /\ ReversibleInv
  BY DEF UpgradeInv, RoundtripInv, ReversibleInv, RoundtripSteps, RoundtripFailed
<1>9. CoverageNotOverstated
  BY DEF CoverageNotOverstated
<1> QED
  BY <1>3, <1>5, <1>7, <1>8, <1>9 DEF RunnerInv

(* Every step leaves a database, and no rows without their table.          *)
LEMMA UpgradeType ==
  ASSUME RunnerInv, NEW at \in Steps, NEW target \in 0 .. Target, NEW next \in Steps,
         Upgrade(at, target, next)
  PROVE  RunnerTypeOK' /\ Clean(database.tables)'
<1> DEFINE reached == Upgraded(database, target)
<1>1. database \in CleanDatabase /\ database \in Database
  BY DEF RunnerInv, RunnerTypeOK, CleanDatabase
<1>2. RepositoryInit
  BY DEF RunnerInv
<1>3. reached \in CleanDatabase
  BY <1>1, <1>2, CommandsType
<1> HIDE DEF reached
<1>4. Database' = Database /\ CleanDatabase' = CleanDatabase
  BY <1>2, RepositoryStays DEF Upgrade
<1>5. database' \in CleanDatabase
  BY <1>1, <1>3 DEF Upgrade, LeftBehind, reached
<1>6. step' \in Steps
  BY DEF Upgrade, FailWith, Steps
<1>7. verdict' \in [step : Steps, code : Codes]
  <2>1. step \in Steps /\ verdict \in [step : Steps, code : Codes]
    BY DEF RunnerInv, RunnerTypeOK
  <2>2. \A action, change : ErrorCode(action, change) \in Codes
    BY DEF ErrorCode, Codes
  <2> QED
    BY <2>1, <2>2 DEF Upgrade, FailWith
<1> QED
  BY <1>4, <1>5, <1>6, <1>7 DEF RunnerInv, RunnerTypeOK, CleanDatabase, Upgrade

LEMMA InsertRowsType ==
  ASSUME RunnerInv, NEW rows \in [Table -> Nat], NEW summary,
         \A t \in Table : rows[t] > 0 => Present(t), InsertRows(rows, summary)
  PROVE  /\ database' \in CleanDatabase /\ database'.revision = database.revision
         /\ Schema(database') = Schema(database)
<1>1. database \in CleanDatabase /\ database \in Database
  BY DEF RunnerInv, RunnerTypeOK, CleanDatabase
<1>2. \A t \in Table : database.tables[t] \in TableState
  BY <1>1 DEF Database
<1>3. CASE UNCHANGED database
  BY <1>1, <1>3
<1>4. CASE /\ \A t \in Table : database.tables[t].rows + rows[t] <= MaxRows
           /\ database' = [database EXCEPT !.tables =
                [t \in Table |-> [columns |-> @[t].columns, rows |-> @[t].rows + rows[t]]]]
  <2>1. ASSUME NEW t \in Table
        PROVE  /\ database'.tables[t] \in TableState
               /\ database'.tables[t].columns = database.tables[t].columns
               /\ database'.tables[t].rows = database.tables[t].rows + rows[t]
    <3>1. database'.tables[t] = [columns |-> database.tables[t].columns,
                                 rows |-> database.tables[t].rows + rows[t]]
      BY <1>1, <1>4 DEF Database
    <3>2. /\ database.tables[t].columns \in 0 .. 2 /\ database.tables[t].rows \in Nat
          /\ database.tables[t].rows + rows[t] <= MaxRows
      BY <1>2, <1>4, RunnerAssumption DEF TableState
    <3> QED
      BY <3>1, <3>2, RunnerAssumption DEF TableState
  <2>2. database' = [revision |-> database.revision, tables |-> database'.tables]
    BY <1>1, <1>4 DEF Database
  <2>3. database'.tables = [t \in Table |-> database'.tables[t]]
    BY <1>1, <1>4 DEF Database
  <2>4. database' \in Database
    BY <1>1, <2>1, <2>2, <2>3 DEF Database
  <2>5. Clean(database'.tables)
    BY <1>1, <1>2, <2>1, RunnerAssumption DEF Clean, Present, CleanDatabase, TableState
  <2>6. Schema(database') = Schema(database)
    BY <2>1 DEF Schema
  <2> QED
    BY <2>2, <2>4, <2>5, <2>6 DEF CleanDatabase
<1> QED
  BY <1>3, <1>4 DEF InsertRows

LEMMA SeedRows ==
  ASSUME RunnerInv
  PROVE  /\ SyntheticRows \in [Table -> Nat]
         /\ \A t \in Table : SyntheticRows[t] > 0 => Present(t)
         /\ FixtureRows \in [Table -> Nat]
         /\ FixtureFits => \A t \in Table : FixtureRows[t] > 0 => Present(t)
<1>1. \A t \in Table \intersect DOMAIN fixture : fixture[t] \in Nat
  BY RunnerAssumption DEF RunnerInv, RepositoryInit
<1>2. FixtureRows \in [Table -> Nat]
  BY <1>1 DEF FixtureRows
<1>3. FixtureFits => \A t \in Table : FixtureRows[t] > 0 => Present(t)
  BY DEF FixtureRows, FixtureFits, Tables
<1>4. /\ SyntheticRows \in [Table -> Nat]
      /\ \A t \in Table : SyntheticRows[t] > 0 => Present(t)
  BY DEF SyntheticRows, Seedable, Tables
<1> QED
  BY <1>2, <1>3, <1>4

Summaries == [source : {"none", "fixture_manifest", "synthetic"},
              complete : BOOLEAN, tables : SUBSET Table]
Verdicts == [step : Steps, code : Codes]

LEMMA TypeParts ==
  ASSUME RunnerInv
  PROVE  /\ RepositoryInit /\ database \in CleanDatabase /\ database \in Database
         /\ step \in Steps /\ verdict \in Verdicts /\ verdict.step \in Steps
         /\ before \in Observations /\ observed \in Observations
         /\ seeded \in Summaries /\ interrupts \in 0 .. MaxInterrupts
BY DEF RunnerInv, RunnerTypeOK, CleanDatabase, Observations, Summaries, Verdicts

LEMMA TypeFrom ==
  ASSUME RunnerInv, UNCHANGED repositoryVars, database' \in CleanDatabase,
         step' \in Steps, verdict' \in Verdicts, before' \in Observations,
         observed' \in Observations, seeded' \in Summaries,
         interrupts' \in 0 .. MaxInterrupts
  PROVE  RunnerTypeOK' /\ Clean(database.tables)'
<1>1. Database' = Database
  BY TypeParts, RepositoryStays
<1> QED
  BY <1>1 DEF RunnerTypeOK, CleanDatabase, Observations, Summaries, Verdicts

LEMMA FailType ==
  ASSUME RunnerInv, NEW code \in Codes, NEW next \in Steps, FailWith(code, next)
  PROVE  verdict' \in Verdicts /\ step' \in Steps
BY TypeParts DEF FailWith, Verdicts

LEMMA ErrorCodeType ==
  ASSUME NEW action, NEW change
  PROVE  ErrorCode(action, change) \in Codes
BY DEF ErrorCode, Codes

(* Where the commands may come from here.                                  *)
LEMMA CommandsFromHere ==
  ASSUME RunnerInv
  PROVE  \A r \in 0 .. Target :
           /\ Upgraded(database, r) \in CleanDatabase
           /\ Downgraded(database, r) \in CleanDatabase
BY TypeParts, CommandsType

LEMMA PartWayType ==
  ASSUME RunnerInv
  PROVE  PartWay \subseteq CleanDatabase
<1>1. Target \in Nat /\ baseline \in Nat /\ baseline < Target
  BY TypeParts, TargetIs
<1>2. database \in CleanDatabase
  BY TypeParts
<1>3. CASE step = "baseline"
  <2>1. PartWay = {Upgraded(database, r) : r \in 0 .. baseline}
    BY <1>3 DEF PartWay
  <2>2. 0 .. baseline \subseteq 0 .. Target
    BY <1>1
  <2> QED
    BY <2>1, <2>2, CommandsFromHere
<1>4. CASE step \in {"apply", "upgrade", "recover"}
  <2>1. PartWay = {Upgraded(database, r) : r \in 0 .. Target}
    BY <1>4 DEF PartWay
  <2> QED
    BY <2>1, CommandsFromHere
<1>5. CASE step = "downgrade"
  <2>1. PartWay = {Downgraded(database, r) : r \in baseline .. Target}
    BY <1>5 DEF PartWay
  <2>2. baseline .. Target \subseteq 0 .. Target
    BY <1>1
  <2> QED
    BY <2>1, <2>2, CommandsFromHere
<1>6. CASE step \notin {"baseline", "apply", "upgrade", "recover", "downgrade"}
  BY <1>2, <1>6 DEF PartWay
<1> QED
  BY <1>3, <1>4, <1>5, <1>6

LEMMA TypeStep ==
  ASSUME RunnerInv, RunnerNext
  PROVE  RunnerTypeOK' /\ Clean(database.tables)'
<1>1. Target \in Nat /\ Target \in 0 .. Target /\ baseline \in 0 .. Target
  BY TypeParts, TargetIs
<1>2. CASE UpgradeBaseline
  BY <1>1, <1>2, UpgradeType DEF UpgradeBaseline, Steps
<1>3. CASE ApplyTarget
  BY <1>1, <1>3, UpgradeType DEF ApplyTarget, Steps
<1>4. CASE LoadTestData
  <2> SUFFICES /\ database' \in CleanDatabase /\ seeded' \in Summaries
               /\ verdict' \in Verdicts /\ step' \in Steps
    BY <1>4, TypeParts, TypeFrom DEF LoadTestData
  <2>1. ASSUME NEW rows \in [Table -> Nat], NEW summary \in Summaries,
               \A t \in Table : rows[t] > 0 => Present(t), InsertRows(rows, summary)
        PROVE  /\ database' \in CleanDatabase /\ seeded' \in Summaries
               /\ verdict' \in Verdicts /\ step' \in Steps
    <3>1. database' \in CleanDatabase
      BY <2>1, InsertRowsType
    <3>2. seeded' \in Summaries
      BY <2>1, TypeParts DEF InsertRows
    <3>3. CASE step' = "smoke" /\ UNCHANGED verdict
      BY <3>1, <3>2, <3>3, TypeParts DEF Steps
    <3>4. CASE \E code \in {"SEED_CONSTRAINT_FAILED", "SEED_TYPE_FAILED", "SEED_FAILED"} :
                 FailWith(code, "failed")
      BY <3>1, <3>2, <3>4, FailType DEF Codes, Steps
    <3> QED
      BY <2>1, <3>3, <3>4 DEF InsertRows
  <2>2. CASE LoadFixture
    <3>1. CASE FixtureFits
      <4> DEFINE summary == [source |-> "fixture_manifest", complete |-> TRUE,
                             tables |-> DOMAIN fixture]
      <4>1. summary \in Summaries
        BY <3>1 DEF Summaries, FixtureFits, Tables
      <4>2. InsertRows(FixtureRows, summary)
        BY <2>2, <3>1 DEF LoadFixture
      <4> HIDE DEF summary
      <4> QED
        BY <2>1, <3>1, <4>1, <4>2, SeedRows
    <3>2. CASE ~ FixtureFits
      BY <2>2, <3>2, FailType, TypeParts DEF LoadFixture, Codes, Steps
    <3> QED
      BY <3>1, <3>2
  <2>3. CASE LoadSynthetic
    <3> DEFINE summary == [source |-> "synthetic", complete |-> Gaps = {},
                           tables |-> Seedable]
    <3>1. summary \in Summaries
      BY DEF Summaries, Seedable, Tables
    <3>2. InsertRows(SyntheticRows, summary)
      BY <2>3 DEF LoadSynthetic
    <3> HIDE DEF summary
    <3> QED
      BY <2>1, <3>1, <3>2, SeedRows
  <2>4. CASE SkipSynthetic
    BY <2>4, TypeParts DEF SkipSynthetic, Summaries, Steps
  <2> QED
    BY <1>4, <2>2, <2>3, <2>4 DEF LoadTestData
<1>5. CASE RunSmokeChecks
  BY <1>5, TypeParts, TypeFrom, ObservationType DEF RunSmokeChecks, Steps
<1>6. CASE ObserveBefore
  BY <1>6, TypeParts, TypeFrom, ObservationType DEF ObserveBefore, Steps
<1>7. CASE DowngradeToBaseline
  <2>1. database' \in CleanDatabase
    BY <1>1, <1>7, TypeParts, CommandsFromHere DEF DowngradeToBaseline, LeftBehind
  <2>2. verdict' \in Verdicts /\ step' \in Steps
    BY <1>7, TypeParts, FailType, ErrorCodeType DEF DowngradeToBaseline, Steps
  <2> QED
    BY <1>7, <2>1, <2>2, TypeParts, TypeFrom DEF DowngradeToBaseline
<1>8. CASE UpgradeAgain
  <2>1. database' \in CleanDatabase
    BY <1>1, <1>8, TypeParts, CommandsFromHere DEF UpgradeAgain, LeftBehind
  <2>2. verdict' \in Verdicts /\ step' \in Steps
    BY <1>8, TypeParts, FailType, ErrorCodeType DEF UpgradeAgain, Steps
  <2> QED
    BY <1>8, <2>1, <2>2, TypeParts, TypeFrom DEF UpgradeAgain
<1>9. CASE Compare
  <2>1. verdict' \in Verdicts /\ step' \in Steps
    BY <1>9, TypeParts, FailType DEF Compare, Steps, Codes
  <2> QED
    BY <1>9, <2>1, TypeParts, TypeFrom DEF Compare
<1>10. CASE Recover
  <2>1. database' \in CleanDatabase
    BY <1>1, <1>10, TypeParts, CommandsFromHere DEF Recover, LeftBehind
  <2> QED
    BY <1>10, <2>1, TypeParts, TypeFrom DEF Recover, Steps
<1>11. CASE Interrupt
  <2>1. database' \in CleanDatabase
    BY <1>11, TypeParts, PartWayType DEF Interrupt, Stop, LoseResult
  <2>2. step' \in Steps
    <3>1. \A at \in Steps : Beginning(at) \in Steps
      BY DEF Beginning, Steps
    <3>2. CASE Stop
      BY <3>1, <3>2, TypeParts DEF Stop
    <3>3. CASE LoseResult
      BY <3>1, <3>3, TypeParts DEF LoseResult, Finished, Steps
    <3> QED
      BY <1>11, <3>2, <3>3 DEF Interrupt
  <2>3. interrupts' \in 0 .. MaxInterrupts
    BY <1>11, TypeParts, RunnerAssumption DEF Interrupt
  <2> QED
    BY <1>11, <2>1, <2>2, <2>3, TypeParts, TypeFrom DEF Interrupt
<1> QED
  BY <1>2, <1>3, <1>4, <1>5, <1>6, <1>7, <1>8, <1>9, <1>10, <1>11
     DEF RunnerNext, VerifyRoundtrip

-----------------------------------------------------------------------------
(* Upgrades converge.                                                      *)

LEMMA PathUpgrade ==
  ASSUME RunnerInv, NEW target \in 0 .. Target,
         \/ Upgrade("baseline", target, "apply")
         \/ target = Target /\ Upgrade("apply", target, "load")
  PROVE  PathInv'
<1> SUFFICES ASSUME seeded' = NotSeeded PROVE PathInv'
  BY DEF PathInv
<1>1. UNCHANGED <<repositoryVars, seeded>> /\ seeded = NotSeeded
  BY DEF Upgrade
<1>2. Path' = Path /\ \A n : At(n)' = At(n)
  BY <1>1, TypeParts, RepositoryStays
<1>3. Target' = Target
  BY <1>1, TypeParts, RepositoryStays
<1>4. database \in Path
  BY <1>1 DEF RunnerInv, PathInv
<1> DEFINE reached == Upgraded(database, target)
<1>5. reached \in Path /\ (target = Target => reached = At(Target))
  BY <1>4, TypeParts, UpgradedOnPath
<1> HIDE DEF reached
<1>6. database' \in Path
  BY <1>4, <1>5 DEF Upgrade, LeftBehind, reached
<1>7. \/ step' = "apply"
      \/ step' = "load" /\ target = Target /\ database' = reached
      \/ step' = "failed" /\ verdict'.step \in {"baseline", "apply"}
  BY DEF Upgrade, FailWith, reached
<1> QED
  BY <1>2, <1>3, <1>5, <1>6, <1>7 DEF PathInv

LEMMA PathStep ==
  ASSUME RunnerInv, RunnerNext
  PROVE  PathInv'
<1>1. Target \in 0 .. Target /\ baseline \in 0 .. Target
  BY TypeParts, TargetIs
<1>2. CASE UpgradeBaseline
  BY <1>1, <1>2, PathUpgrade DEF UpgradeBaseline
<1>3. CASE ApplyTarget
  BY <1>1, <1>3, PathUpgrade DEF ApplyTarget
<1>4. CASE LoadTestData
  <2> SUFFICES ASSUME seeded' = NotSeeded PROVE PathInv'
    BY DEF PathInv
  <2>1. UNCHANGED <<repositoryVars, database, seeded>> /\ step = "load"
        /\ step' = "failed" /\ verdict'.step = "load"
    BY <1>4 DEF LoadTestData, LoadFixture, LoadSynthetic, SkipSynthetic, InsertRows,
                FailWith, NotSeeded
  <2>2. Path' = Path /\ \A n : At(n)' = At(n)
    BY <2>1, TypeParts, RepositoryStays
  <2>3. Target' = Target
    BY <2>1, TypeParts, RepositoryStays
  <2> QED
    BY <2>1, <2>2, <2>3 DEF PathInv, RunnerInv
<1>5. CASE RunSmokeChecks \/ VerifyRoundtrip
  BY <1>5 DEF RunSmokeChecks, VerifyRoundtrip, ObserveBefore, DowngradeToBaseline,
              UpgradeAgain, Compare, Recover, PathInv, RunnerInv
<1>6. CASE Interrupt
  <2> SUFFICES ASSUME seeded' = NotSeeded PROVE PathInv'
    BY DEF PathInv
  <2>1. UNCHANGED <<repositoryVars, seeded, verdict>> /\ seeded = NotSeeded
    BY <1>6 DEF Interrupt
  <2>2. Path' = Path /\ \A n : At(n)' = At(n)
    BY <2>1, TypeParts, RepositoryStays
  <2>3. Target' = Target
    BY <2>1, TypeParts, RepositoryStays
  <2>4. PathInv
    BY DEF RunnerInv
  <2>5. CASE Stop
    <3>1. step \in {"baseline", "apply", "load"} /\ step' = step
      BY <2>1, <2>4, <2>5 DEF Stop, Beginning, PathInv
    <3>2. CASE step = "load"
      BY <2>1, <2>2, <2>3, <2>4, <2>5, <3>1, <3>2 DEF Stop, PartWay, PathInv
    <3>3. CASE step \in {"baseline", "apply"}
      <4>1. database \in Path
        BY <2>1, <2>4 DEF PathInv
      <4>2. \A r \in 0 .. Target : Upgraded(database, r) \in Path
        BY <4>1, TypeParts, UpgradedOnPath
      <4>3. 0 .. baseline \subseteq 0 .. Target
        BY TypeParts, TargetIs
      <4>4. database' \in Path
        BY <2>5, <3>3, <4>2, <4>3 DEF Stop, PartWay
      <4> QED
        BY <2>2, <3>1, <3>3, <4>4 DEF PathInv
    <3> QED
      BY <3>1, <3>2, <3>3
  <2>6. CASE LoseResult
    <3>1. step \in {"apply", "load", "failed"} /\ UNCHANGED database
      BY <2>1, <2>4, <2>6 DEF LoseResult, Finished, PathInv
    <3>2. \/ step = "apply" /\ step' = "baseline"
          \/ step = "load" /\ step' = "apply"
          \/ step = "failed" /\ step' = verdict.step /\ step' \in {"baseline", "apply", "load"}
      BY <2>1, <2>4, <2>6, <3>1 DEF LoseResult, Finished, PathInv, Beginning
    <3> QED
      BY <2>1, <2>2, <2>3, <2>4, <3>1, <3>2 DEF PathInv
  <2> QED
    BY <1>6, <2>5, <2>6 DEF Interrupt
<1> QED
  BY <1>2, <1>3, <1>4, <1>5, <1>6 DEF RunnerNext

-----------------------------------------------------------------------------
(* Coverage.                                                               *)

LEMMA CoverageStep ==
  ASSUME RunnerInv, RunnerNext
  PROVE  CoverageNotOverstated'
<1> SUFFICES ASSUME step' = "smoke", interrupts' = 0, seeded'.source = "synthetic",
                    seeded'.complete
             PROVE  \A t \in Tables' : support'[t] = "full" /\ database'.tables[t].rows > 0
  BY DEF CoverageNotOverstated
<1>1. database \in Database /\ interrupts \in Nat
  BY TypeParts
<1>2. LoadTestData
  BY <1>1 DEF RunnerNext, UpgradeBaseline, ApplyTarget, Upgrade, FailWith, RunSmokeChecks,
     VerifyRoundtrip, ObserveBefore, DowngradeToBaseline, UpgradeAgain, Compare, Recover,
     Interrupt
<1>3. LoadSynthetic /\ Gaps = {} /\ UNCHANGED support
  <2>1. UNCHANGED support /\ ~ SkipSynthetic
    BY <1>2 DEF LoadTestData, SkipSynthetic, repositoryVars
  <2>2. ~ LoadFixture
    BY DEF LoadFixture, InsertRows, FailWith
  <2>3. LoadSynthetic
    BY <1>2, <2>1, <2>2 DEF LoadTestData
  <2>4. seeded' = [source |-> "synthetic", complete |-> Gaps = {}, tables |-> Seedable]
    BY <2>3 DEF LoadSynthetic, InsertRows, FailWith
  <2>5. seeded'.complete = (Gaps = {})
    BY <2>4, Zenon
  <2> QED
    BY <2>1, <2>3, <2>5
<1>4. database' = [database EXCEPT !.tables =
        [t \in Table |-> [columns |-> @[t].columns, rows |-> @[t].rows + SyntheticRows[t]]]]
  BY <1>3 DEF LoadSynthetic, InsertRows, FailWith
<1>5. ASSUME NEW t \in Table
      PROVE  /\ database'.tables[t].columns = database.tables[t].columns
             /\ database'.tables[t].rows = database.tables[t].rows + SyntheticRows[t]
             /\ database.tables[t].rows \in Nat
  BY <1>1, <1>4, RunnerAssumption DEF Database, TableState
<1>6. Tables' = Tables
  BY <1>5 DEF Tables, Present
<1>7. ASSUME NEW t \in Tables
      PROVE  support[t] = "full" /\ database'.tables[t].rows > 0
  <2>1. support[t] = "full" /\ t \in Table
    BY <1>3 DEF Gaps, Tables
  <2>2. SyntheticRows[t] = 1
    BY <2>1 DEF SyntheticRows, Seedable
  <2> QED
    BY <1>5, <2>1, <2>2
<1> QED
  BY <1>3, <1>6, <1>7

-----------------------------------------------------------------------------
(* The roundtrip of a history that can be undone.                          *)

LEMMA UndoingKinds ==
  ASSUME NEW tables, NEW up \in Change, NEW down \in Change, Undoes(tables, down, up)
  PROVE  \/ up.kind = "nothing" /\ down.kind = "nothing"
         \/ /\ up.table \in Table /\ down.table = up.table
            /\ \/ up.kind = "create" /\ down.kind = "drop"
               \/ /\ up.kind = "drop" /\ down.kind = "create"
                  /\ tables[up.table].columns = 1
               \/ up.kind = "add_column" /\ down.kind = "drop_column"
               \/ up.kind = "drop_column" /\ down.kind = "add_column"
BY ChangeIs DEF Undoes

(* A downgrade that undoes its upgrade brings back the columns, and drops  *)
(* no rows but those of a table that was not there before.                 *)
LEMMA DownUndoes ==
  ASSUME NEW below \in [Table -> TableState], NEW up \in Change, NEW down \in Change,
         CanChange(below, up), Undoes(below, down, up),
         NEW tables \in [Table -> TableState], Clean(tables),
         \A t \in Table : tables[t].columns = Changed(below, up)[t].columns
  PROVE  /\ CanChange(tables, down)
         /\ \A t \in Table :
              /\ Changed(tables, down)[t].columns = below[t].columns
              /\ Changed(tables, down)[t].rows =
                   IF below[t].columns = 0 THEN 0 ELSE tables[t].rows
<1>1. \A t \in Table : /\ below[t] \in [columns : 0 .. 2, rows : 0 .. MaxRows]
                       /\ tables[t] \in [columns : 0 .. 2, rows : 0 .. MaxRows]
  BY DEF TableState
<1>2. CASE up.kind = "nothing" /\ down.kind = "nothing"
  BY <1>2 DEF CanChange, Changed, Clean
<1>3. CASE up.table \in Table /\ down.table = up.table /\ up.kind = "create" /\ down.kind = "drop"
  BY <1>1, <1>3 DEF CanChange, Changed, Clean, Absent
<1>4. CASE /\ up.table \in Table /\ down.table = up.table
           /\ up.kind = "drop" /\ down.kind = "create" /\ below[up.table].columns = 1
  BY <1>1, <1>4 DEF CanChange, Changed, Clean, Absent
<1>5. CASE /\ up.table \in Table /\ down.table = up.table
           /\ up.kind = "add_column" /\ down.kind = "drop_column"
  BY <1>1, <1>5 DEF CanChange, Changed, Clean
<1>6. CASE /\ up.table \in Table /\ down.table = up.table
           /\ up.kind = "drop_column" /\ down.kind = "add_column"
  BY <1>1, <1>6 DEF CanChange, Changed, Clean
<1>7. \/ up.kind = "nothing" /\ down.kind = "nothing"
      \/ /\ up.table \in Table /\ down.table = up.table
         /\ \/ up.kind = "create" /\ down.kind = "drop"
            \/ /\ up.kind = "drop" /\ down.kind = "create"
               /\ below[up.table].columns = 1
            \/ up.kind = "add_column" /\ down.kind = "drop_column"
            \/ up.kind = "drop_column" /\ down.kind = "add_column"
  BY UndoingKinds
<1> QED
  BY <1>2, <1>3, <1>4, <1>5, <1>6, <1>7

(* The upgrade can be made again, and loses the rows of what it drops.     *)
LEMMA UpRedoes ==
  ASSUME NEW below \in [Table -> TableState], NEW up \in Change, NEW down \in Change,
         CanChange(below, up), Undoes(below, down, up),
         NEW tables \in [Table -> TableState], Clean(tables),
         \A t \in Table : tables[t].columns = below[t].columns
  PROVE  /\ CanChange(tables, up)
         /\ \A t \in Table :
              /\ Changed(tables, up)[t].columns = Changed(below, up)[t].columns
              /\ Changed(tables, up)[t].rows =
                   IF Changed(below, up)[t].columns = 0 THEN 0 ELSE tables[t].rows
<1>1. \A t \in Table : /\ below[t] \in [columns : 0 .. 2, rows : 0 .. MaxRows]
                       /\ tables[t] \in [columns : 0 .. 2, rows : 0 .. MaxRows]
  BY DEF TableState
<1>2. CASE up.kind = "nothing" /\ down.kind = "nothing"
  BY <1>2 DEF CanChange, Changed, Clean
<1>3. CASE up.table \in Table /\ up.kind = "create"
  BY <1>1, <1>3 DEF CanChange, Changed, Clean
<1>4. CASE up.table \in Table /\ up.kind = "drop"
  BY <1>1, <1>4 DEF CanChange, Changed, Clean, Absent
<1>5. CASE up.table \in Table /\ up.kind = "add_column"
  BY <1>1, <1>5 DEF CanChange, Changed, Clean
<1>6. CASE up.table \in Table /\ up.kind = "drop_column"
  BY <1>1, <1>6 DEF CanChange, Changed, Clean
<1> QED
  BY <1>2, <1>3, <1>4, <1>5, <1>6, UndoingKinds

(* On a path that is not stuck each revision is its upgrade of the one     *)
(* below.                                                                  *)
LEMMA CompleteStep ==
  ASSUME RepositoryInit, Complete, NEW i \in 1 .. Target
  PROVE  /\ At(i - 1).tables \in [Table -> TableState]
         /\ CanChange(At(i - 1).tables, migrations[i].up)
         /\ At(i).tables = Changed(At(i - 1).tables, migrations[i].up)
         /\ Reversible /\ i > baseline =>
              Undoes(At(i - 1).tables, migrations[i].down, migrations[i].up)
<1>1. Target \in Nat /\ i - 1 \in 0 .. Target /\ i - 1 \in Nat /\ (i - 1) + 1 = i /\ i \in 0 .. Target
  BY TargetIs
<1>2. At(i - 1).revision = i - 1 /\ At(i).revision = i
  BY <1>1 DEF Complete
<1>3. At(i) = UpgradeOne(At(i - 1), Target)
  BY <1>1, PathFacts
<1>4. At(i - 1) \in Database
  BY <1>1, PathFacts
<1>5. /\ CanChange(At(i - 1).tables, migrations[i].up)
      /\ At(i).tables = Changed(At(i - 1).tables, migrations[i].up)
  BY <1>1, <1>2, <1>3 DEF UpgradeOne
<1>6. Upgraded(Empty, i - 1) = At(i - 1)
  BY <1>1, UpgradedIsAt
<1> QED
  BY <1>4, <1>5, <1>6 DEF Database, Reversible

LEMMA KeptBelow ==
  ASSUME RepositoryInit, NEW i \in 1 .. Target, NEW t \in Table
  PROVE  Kept(i - 1, t) =
           IF At(i - 1).tables[t].columns = 0 THEN 0 ELSE Kept(i, t)
<1>1. Target \in Nat
  BY TargetIs
<1>2. \A s : s \in i - 1 .. Target <=> s = i - 1 \/ s \in i .. Target
  BY <1>1
<1>3. (\E s \in i - 1 .. Target : At(s).tables[t].columns = 0)
        <=> \/ At(i - 1).tables[t].columns = 0
            \/ \E s \in i .. Target : At(s).tables[t].columns = 0
  BY <1>2
<1> QED
  BY <1>3 DEF Kept

LEMMA DownStepIsAt ==
  ASSUME RepositoryInit, Complete, Reversible, NEW i \in 1 .. Target, i > baseline,
         NEW d \in CleanDatabase, IsAt(d, i, i)
  PROVE  IsAt(DowngradeOne(d, baseline), i - 1, i - 1)
<1>1. /\ At(i - 1).tables \in [Table -> TableState]
      /\ CanChange(At(i - 1).tables, migrations[i].up)
      /\ At(i).tables = Changed(At(i - 1).tables, migrations[i].up)
      /\ Undoes(At(i - 1).tables, migrations[i].down, migrations[i].up)
  BY CompleteStep
<1>2. migrations[i].up \in Change /\ migrations[i].down \in Change
  BY TargetIs
<1>3. /\ d.revision = i /\ d.tables \in [Table -> TableState] /\ Clean(d.tables)
      /\ \A t \in Table : /\ d.tables[t].columns = At(i).tables[t].columns
                          /\ d.tables[t].rows = Kept(i, t)
  BY DEF CleanDatabase, Database, IsAt
<1> DEFINE after == Changed(d.tables, migrations[i].down)
<1>4. /\ CanChange(d.tables, migrations[i].down)
      /\ \A t \in Table :
           /\ after[t].columns = At(i - 1).tables[t].columns
           /\ after[t].rows =
                IF At(i - 1).tables[t].columns = 0 THEN 0 ELSE d.tables[t].rows
  BY <1>1, <1>2, <1>3, DownUndoes
<1>5. DowngradeOne(d, baseline) = [revision |-> i - 1, tables |-> after]
  BY <1>3, <1>4 DEF DowngradeOne
<1> HIDE DEF after
<1>6. \A t \in Table : after[t].rows = Kept(i - 1, t)
  BY <1>3, <1>4, KeptBelow
<1> QED
  BY <1>4, <1>5, <1>6 DEF IsAt

LEMMA UpStepIsAt ==
  ASSUME RepositoryInit, Complete, Reversible, NEW i \in 1 .. Target, i > baseline,
         NEW d \in CleanDatabase, IsAt(d, i - 1, baseline)
  PROVE  IsAt(UpgradeOne(d, Target), i, baseline)
<1>1. /\ At(i - 1).tables \in [Table -> TableState]
      /\ CanChange(At(i - 1).tables, migrations[i].up)
      /\ At(i).tables = Changed(At(i - 1).tables, migrations[i].up)
      /\ Undoes(At(i - 1).tables, migrations[i].down, migrations[i].up)
  BY CompleteStep
<1>2. /\ migrations[i].up \in Change /\ migrations[i].down \in Change
      /\ Target \in Nat /\ baseline \in Nat
  BY TargetIs
<1>3. /\ d.revision = i - 1 /\ d.tables \in [Table -> TableState] /\ Clean(d.tables)
      /\ \A t \in Table : /\ d.tables[t].columns = At(i - 1).tables[t].columns
                          /\ d.tables[t].rows = Kept(baseline, t)
  BY DEF CleanDatabase, Database, IsAt
<1> DEFINE after == Changed(d.tables, migrations[i].up)
<1>4. /\ CanChange(d.tables, migrations[i].up)
      /\ \A t \in Table :
           /\ after[t].columns = At(i).tables[t].columns
           /\ after[t].rows =
                IF At(i).tables[t].columns = 0 THEN 0 ELSE d.tables[t].rows
  BY <1>1, <1>2, <1>3, UpRedoes
<1>5. UpgradeOne(d, Target) = [revision |-> i, tables |-> after]
  BY <1>2, <1>3, <1>4 DEF UpgradeOne
<1> HIDE DEF after
<1>6. \A t \in Table : At(i).tables[t].columns = 0 => Kept(baseline, t) = 0
  <2>1. i \in baseline .. Target
    BY <1>2
  <2> QED
    BY <2>1 DEF Kept
<1> QED
  BY <1>3, <1>4, <1>5, <1>6 DEF IsAt

(* Without a failure the downgrade ends at the baseline's schema, with the *)
(* rows of the tables that are there all the way.                          *)
LEMMA DowngradedIsAt ==
  ASSUME RepositoryInit, Complete, Reversible, NEW d \in CleanDatabase, IsAt(d, Target, Target)
  PROVE  IsAt(Downgraded(d, baseline), baseline, baseline)
<1> DEFINE Reached(n) == Repeated(DownMove(baseline), n, d)
           Level(n) == IF n < Target - baseline THEN Target - n ELSE baseline
           T == {n \in Nat : IsAt(Reached(n), Level(n), Level(n))}
<1>1. Target \in Nat /\ baseline \in Nat /\ baseline < Target /\ baseline \in 0 .. Target
  BY TargetIs
<1>2. /\ DownMove(baseline) \in [Database -> Database]
      /\ \A c \in Database : DownMove(baseline)[c] = DowngradeOne(c, baseline)
      /\ \A c \in CleanDatabase : DownMove(baseline)[c] \in CleanDatabase
      /\ CleanDatabase \subseteq Database
  BY <1>1, MovesType DEF CleanDatabase
<1>3. /\ Reached(0) = d
      /\ \A n \in Nat : Reached(n + 1) = DownMove(baseline)[Reached(n)]
  BY <1>2, RepeatedFacts
<1>4. \A n \in Nat : Reached(n) \in CleanDatabase
  BY <1>2, RepeatedWithin
<1> HIDE DEF Reached
<1>5. 0 \in T
  BY <1>1, <1>3
<1>6. ASSUME NEW n \in Nat, n \in T PROVE n + 1 \in T
  <2>1. IsAt(Reached(n), Level(n), Level(n)) /\ Reached(n) \in CleanDatabase
    BY <1>4, <1>6
  <2>2. Reached(n + 1) = DowngradeOne(Reached(n), baseline)
    BY <1>2, <1>3, <2>1
  <2>3. CASE n < Target - baseline
    <3>1. /\ Level(n) \in 1 .. Target /\ Level(n) > baseline
          /\ Level(n + 1) = Level(n) - 1
      BY <1>1, <2>3
    <3> HIDE DEF Level
    <3>2. IsAt(DowngradeOne(Reached(n), baseline), Level(n) - 1, Level(n) - 1)
      BY <2>1, <3>1, DownStepIsAt
    <3> QED
      BY <2>2, <3>1, <3>2
  <2>4. CASE ~ (n < Target - baseline)
    <3>1. Level(n) = baseline /\ Level(n + 1) = baseline
      BY <1>1, <2>4
    <3>2. Reached(n).revision = baseline
      BY <2>1, <3>1 DEF IsAt
    <3>3. DowngradeOne(Reached(n), baseline) = Reached(n)
      BY <1>1, <3>2 DEF DowngradeOne
    <3> QED
      BY <2>1, <2>2, <3>1, <3>3
  <2> QED
    BY <2>3, <2>4
<1> HIDE DEF T
<1>7. \A n \in Nat : n \in T
  BY <1>5, <1>6, InductionOnSet
<1>8. Level(Target) = baseline
  BY <1>1
<1>9. IsAt(Reached(Target), baseline, baseline)
  BY <1>1, <1>7, <1>8 DEF T
<1> QED
  BY <1>9, CommandsAre DEF Reached

(* And the upgrade from there at the target's.                             *)
LEMMA UpgradedIsAgain ==
  ASSUME RepositoryInit, Complete, Reversible, NEW d \in CleanDatabase,
         IsAt(d, baseline, baseline)
  PROVE  IsAt(Upgraded(d, Target), Target, baseline)
<1> DEFINE Reached(n) == Repeated(UpMove(Target), n, d)
           Level(n) == IF n < Target - baseline THEN baseline + n ELSE Target
           T == {n \in Nat : IsAt(Reached(n), Level(n), baseline)}
<1>1. Target \in Nat /\ baseline \in Nat /\ baseline < Target /\ Target \in 0 .. Target
  BY TargetIs
<1>2. /\ UpMove(Target) \in [Database -> Database]
      /\ \A c \in Database : UpMove(Target)[c] = UpgradeOne(c, Target)
      /\ \A c \in CleanDatabase : UpMove(Target)[c] \in CleanDatabase
      /\ CleanDatabase \subseteq Database
  BY <1>1, MovesType DEF CleanDatabase
<1>3. /\ Reached(0) = d
      /\ \A n \in Nat : Reached(n + 1) = UpMove(Target)[Reached(n)]
  BY <1>2, RepeatedFacts
<1>4. \A n \in Nat : Reached(n) \in CleanDatabase
  BY <1>2, RepeatedWithin
<1> HIDE DEF Reached
<1>5. 0 \in T
  BY <1>1, <1>3
<1>6. ASSUME NEW n \in Nat, n \in T PROVE n + 1 \in T
  <2>1. IsAt(Reached(n), Level(n), baseline) /\ Reached(n) \in CleanDatabase
    BY <1>4, <1>6
  <2>2. Reached(n + 1) = UpgradeOne(Reached(n), Target)
    BY <1>2, <1>3, <2>1
  <2>3. CASE n < Target - baseline
    <3>1. /\ Level(n + 1) \in 1 .. Target /\ Level(n + 1) > baseline
          /\ Level(n) = Level(n + 1) - 1
      BY <1>1, <2>3
    <3> HIDE DEF Level
    <3>2. IsAt(UpgradeOne(Reached(n), Target), Level(n + 1), baseline)
      BY <2>1, <3>1, UpStepIsAt
    <3> QED
      BY <2>2, <3>2
  <2>4. CASE ~ (n < Target - baseline)
    <3>1. Level(n) = Target /\ Level(n + 1) = Target
      BY <1>1, <2>4
    <3>2. Reached(n).revision = Target
      BY <2>1, <3>1 DEF IsAt
    <3>3. UpgradeOne(Reached(n), Target) = Reached(n)
      BY <1>1, <3>2 DEF UpgradeOne
    <3> QED
      BY <2>1, <2>2, <3>1, <3>3
  <2> QED
    BY <2>3, <2>4
<1> HIDE DEF T
<1>7. \A n \in Nat : n \in T
  BY <1>5, <1>6, InductionOnSet
<1>8. Level(Target) = Target
  BY <1>1
<1>9. IsAt(Reached(Target), Target, baseline)
  BY <1>1, <1>7, <1>8 DEF T
<1> QED
  BY <1>9, CommandsAre DEF Reached

(* If the upgrade reached the target, no migration is stuck.               *)
LEMMA CompleteIs ==
  ASSUME RepositoryInit, At(Target).revision = Target
  PROVE  Complete
<1>1. Target \in Nat /\ Target \in 0 .. Target
  BY TargetIs
<1>2. ASSUME NEW r \in 0 .. Target, At(r).revision # r PROVE FALSE
  <2>1. r \in Nat /\ r <= Target
    BY <1>1
  <2>2. At(r).revision <= r /\ UpgradeOne(At(r), Target) = At(r)
    BY <1>2, <2>1, PathRevision
  <2>3. At(r) \in Database /\ UpMove(Target) \in [Database -> Database] /\ Empty \in Database
    BY <1>1, <2>1, PathFacts, MovesType, EmptyIs DEF CleanDatabase
  <2>4. UpMove(Target)[At(r)] = At(r)
    BY <1>1, <2>2, <2>3, MovesType
  <2>5. At(Target) = At(r)
    BY <1>1, <2>1, <2>3, <2>4, RepeatedStays DEF At
  <2> QED
    BY <1>1, <1>2, <2>1, <2>2, <2>5
<1> QED
  BY <1>2 DEF Complete

LEMMA PathStays ==
  ASSUME RepositoryInit, UNCHANGED repositoryVars
  PROVE  /\ baseline' = baseline
         /\ Complete' = Complete /\ Reversible' = Reversible
         /\ Schema(At(Target))' = Schema(At(Target))
         /\ \A t : Vanishes(t)' = Vanishes(t)
         /\ UNCHANGED before => \A r, t : Kept(r, t)' = Kept(r, t)
<1>1. migrations' = migrations /\ baseline' = baseline
  BY DEF repositoryVars
<1>2. Target' = Target
  BY RepositoryStays
<1>3. \A n : At(n)' = At(n)
  BY RepositoryStays
<1>4. \A d, r : Upgraded(d, r)' = Upgraded(d, r)
  BY RepositoryStays
<1>5. Complete' = Complete
  BY <1>2, <1>3 DEF Complete
<1>6. Reversible' = Reversible
  BY <1>1, <1>2, <1>4 DEF Reversible, Empty
<1>7. Schema(At(Target))' = Schema(At(Target))
  BY <1>2, <1>3 DEF Schema
<1>8. ASSUME NEW t PROVE Vanishes(t)' = Vanishes(t)
  BY <1>1, <1>2, <1>4 DEF Vanishes, Empty
<1>9. ASSUME UNCHANGED before, NEW r, NEW t PROVE Kept(r, t)' = Kept(r, t)
  BY <1>2, <1>3, <1>9 DEF Kept
<1> QED
  BY <1>1, <1>5, <1>6, <1>7, <1>8, <1>9

-----------------------------------------------------------------------------
(* Runs that are not interrupted.                                          *)

LEMMA NotInterrupted ==
  ASSUME RunnerInv, RunnerNext, interrupts' = 0
  PROVE  /\ interrupts = 0 /\ UpgradeInv /\ RoundtripInv /\ (Reversible => ReversibleInv)
         /\ ~ Interrupt /\ UNCHANGED repositoryVars
<1>1. interrupts \in Nat
  BY TypeParts
<1>2. ~ Interrupt
  BY <1>1 DEF Interrupt
<1>3. interrupts = 0 /\ UNCHANGED repositoryVars
  BY <1>2 DEF RunnerNext, UpgradeBaseline, ApplyTarget, Upgrade, LoadTestData,
     RunSmokeChecks, VerifyRoundtrip, ObserveBefore, DowngradeToBaseline, UpgradeAgain,
     Compare, Recover
<1> QED
  BY <1>2, <1>3 DEF RunnerInv

LEMMA LoadKeepsSchema ==
  ASSUME RunnerInv, LoadTestData
  PROVE  /\ database'.revision = database.revision
         /\ Schema(database') = Schema(database)
<1>1. CASE LoadFixture
  <2>1. CASE FixtureFits
    <3>1. PICK summary : InsertRows(FixtureRows, summary)
      BY <1>1, <2>1 DEF LoadFixture
    <3> QED
      BY <2>1, <3>1, SeedRows, InsertRowsType
  <2>2. CASE ~ FixtureFits
    BY <1>1, <2>2 DEF LoadFixture
  <2> QED
    BY <2>1, <2>2
<1>2. CASE LoadSynthetic
  <2>1. PICK summary : InsertRows(SyntheticRows, summary)
    BY <1>2 DEF LoadSynthetic
  <2> QED
    BY <2>1, SeedRows, InsertRowsType
<1>3. CASE SkipSynthetic
  BY <1>3 DEF SkipSynthetic
<1> QED
  BY <1>1, <1>2, <1>3 DEF LoadTestData

LEMMA UpgradeInvStep ==
  ASSUME RunnerInv, RunnerNext, interrupts' = 0
  PROVE  UpgradeInv'
<1>1. UpgradeInv /\ UNCHANGED repositoryVars /\ ~ Interrupt
  BY NotInterrupted
<1>2. /\ Target' = Target /\ Complete' = Complete
      /\ Schema(At(Target))' = Schema(At(Target))
  BY <1>1, TypeParts, RepositoryStays, PathStays
<1>3. CASE UpgradeBaseline
  BY <1>1, <1>3 DEF UpgradeBaseline, Upgrade, FailWith, UpgradeInv, RoundtripFailed,
     RoundtripSteps
<1>4. CASE ApplyTarget
  <2>1. step' = "failed" => verdict'.step = "apply"
    BY <1>4 DEF ApplyTarget, Upgrade, FailWith
  <2>2. step' \in {"load", "failed"} /\ seeded' = NotSeeded
    BY <1>1, <1>4 DEF ApplyTarget, Upgrade, FailWith, UpgradeInv
  <2>3. CASE step' = "load"
    <3>1. database' = Upgraded(database, Target) /\ database'.revision >= Target
      BY <1>4, <2>3 DEF ApplyTarget, Upgrade, FailWith
    <3>2. database \in Path
      BY <1>1, <1>4 DEF ApplyTarget, Upgrade, UpgradeInv, RunnerInv, PathInv
    <3>3. database' = At(Target)
      BY <3>1, <3>2, TypeParts, UpgradedOnPath
    <3>4. Target \in Nat /\ At(Target) \in Database
      BY TypeParts, TargetIs, PathFacts
    <3>5. At(Target).revision = Target
      BY <3>1, <3>3, <3>4 DEF Database
    <3>6. Complete
      BY <3>5, TypeParts, CompleteIs
    <3> QED
      BY <1>2, <2>2, <2>3, <3>3, <3>5, <3>6 DEF UpgradeInv, RoundtripFailed, Schema
  <2>4. CASE step' = "failed"
    BY <2>1, <2>4 DEF UpgradeInv, RoundtripFailed, RoundtripSteps
  <2> QED
    BY <2>2, <2>3, <2>4
<1>5. CASE LoadTestData
  <2>1. \/ step' = "smoke"
        \/ step' = "failed" /\ verdict'.step = "load"
    BY <1>5 DEF LoadTestData, LoadFixture, LoadSynthetic, SkipSynthetic, InsertRows, FailWith
  <2>2. /\ database'.revision = database.revision
        /\ Schema(database') = Schema(database)
    BY <1>5, LoadKeepsSchema
  <2>3. step = "load"
    BY <1>5 DEF LoadTestData
  <2>4. Schema(database)' = Schema(database')
    BY DEF Schema
  <2> QED
    BY <1>1, <1>2, <2>1, <2>2, <2>3, <2>4 DEF UpgradeInv, RoundtripFailed, RoundtripSteps
<1>6. CASE RunSmokeChecks \/ ObserveBefore
  <2>1. /\ UNCHANGED database /\ step \in {"smoke", "observe"}
        /\ step' \in {"observe", "downgrade"}
    BY <1>6 DEF RunSmokeChecks, ObserveBefore
  <2>2. Schema(database)' = Schema(database)
    BY <2>1 DEF Schema
  <2> QED
    BY <1>1, <1>2, <2>1, <2>2 DEF UpgradeInv, RoundtripFailed
<1>7. CASE DowngradeToBaseline \/ UpgradeAgain \/ Compare
  <2>1. step \in RoundtripSteps /\ step' \in {"upgrade", "compare", "done", "recover"}
    BY <1>7 DEF DowngradeToBaseline, UpgradeAgain, Compare, FailWith, RoundtripSteps
  <2> QED
    BY <1>1, <1>2, <2>1 DEF UpgradeInv, RoundtripFailed
<1>8. CASE Recover
  BY <1>1, <1>2, <1>8 DEF Recover, UpgradeInv, RoundtripFailed
<1> QED
  BY <1>1, <1>3, <1>4, <1>5, <1>6, <1>7, <1>8 DEF RunnerNext, VerifyRoundtrip

LEMMA RoundtripInvStep ==
  ASSUME RunnerInv, RunnerNext, interrupts' = 0
  PROVE  RoundtripInv'
<1>1. UpgradeInv /\ RoundtripInv /\ UNCHANGED repositoryVars /\ ~ Interrupt
  BY NotInterrupted
<1>2. Target' = Target /\ Schema(At(Target))' = Schema(At(Target))
  BY <1>1, TypeParts, RepositoryStays, PathStays
<1>3. CASE UpgradeBaseline \/ ApplyTarget \/ LoadTestData
  <2>1. step' \in {"apply", "load", "smoke", "failed"}
    BY <1>3 DEF UpgradeBaseline, ApplyTarget, Upgrade, LoadTestData, LoadFixture,
       LoadSynthetic, SkipSynthetic, InsertRows, FailWith
  <2> QED
    BY <2>1 DEF RoundtripInv, RoundtripSteps
<1>4. CASE RunSmokeChecks
  BY <1>4 DEF RunSmokeChecks, RoundtripInv, RoundtripSteps, Observation, Schema, Rows
<1>5. CASE ObserveBefore
  <2>1. /\ UNCHANGED <<database, observed>> /\ before' = Observation(database)
        /\ step = "observe" /\ step' = "downgrade"
    BY <1>5 DEF ObserveBefore
  <2>2. Observation(database)' = Observation(database)
    BY <2>1 DEF Observation, Schema, Rows
  <2>3. observed = Observation(database) /\ Schema(database) = Schema(At(Target))
    BY <1>1, <2>1 DEF RoundtripInv, UpgradeInv
  <2>4. Observation(database).schema = Schema(database)
    BY DEF Observation
  <2> QED
    BY <1>2, <2>1, <2>2, <2>3, <2>4 DEF RoundtripInv
<1>6. CASE DowngradeToBaseline \/ UpgradeAgain
  <2>1. /\ UNCHANGED <<before, observed>> /\ step \in RoundtripSteps
        /\ step' \in {"upgrade", "compare", "recover"}
    BY <1>6 DEF DowngradeToBaseline, UpgradeAgain, FailWith, RoundtripSteps
  <2> QED
    BY <1>1, <1>2, <2>1 DEF RoundtripInv
<1>7. CASE Compare
  <2>1. /\ UNCHANGED <<before, observed, database>> /\ step = "compare"
        /\ step' \in {"done", "recover"} /\ (step' = "done" => Restored)
    BY <1>7 DEF Compare, FailWith
  <2>2. Observation(database)' = Observation(database)
    BY <2>1 DEF Observation, Schema, Rows
  <2> QED
    BY <1>1, <1>2, <2>1, <2>2 DEF RoundtripInv, Restored, RoundtripSteps
<1>8. CASE Recover
  BY <1>8 DEF Recover, RoundtripInv, RoundtripSteps
<1> QED
  BY <1>1, <1>3, <1>4, <1>5, <1>6, <1>7, <1>8 DEF RunnerNext, VerifyRoundtrip

LEMMA SameSchema ==
  ASSUME NEW a, NEW b
  PROVE  Schema(a) = Schema(b)
           <=> \A t \in Table : a.tables[t].columns = b.tables[t].columns
<1>1. /\ \A t \in Table : Schema(a)[t] = a.tables[t].columns
      /\ \A t \in Table : Schema(b)[t] = b.tables[t].columns
  BY DEF Schema
<1> QED
  BY <1>1 DEF Schema

LEMMA VanishesIs ==
  ASSUME RepositoryInit, NEW t \in Table
  PROVE  Vanishes(t) <=> \E r \in baseline .. Target : At(r).tables[t].columns = 0
<1>1. \A r \in baseline .. Target : r \in 0 .. Target
  BY TargetIs
<1>2. \A r \in baseline .. Target : Upgraded(Empty, r) = At(r)
  BY <1>1, UpgradedIsAt
<1> QED
  BY <1>2 DEF Vanishes

(* The comparison finds exactly the rows that were lost.                   *)
LEMMA ComparisonFindsLosses ==
  ASSUME RunnerInv, RoundtripInv, step = "compare", IsAt(database, Target, baseline)
  PROVE  Restored <=> ~ RowsAreLost
<1>1. before = observed /\ before.schema = Schema(At(Target)) /\ before \in Observations
  BY TypeParts DEF RoundtripInv, RoundtripSteps
<1>2. Schema(database) = Schema(At(Target)) /\ database.revision = Target
  BY SameSchema DEF IsAt
<1>3. before = [schema |-> before.schema, rows |-> before.rows]
      /\ before.rows = [t \in Table |-> before.rows[t]]
      /\ \A t \in Table : before.rows[t] \in 0 .. MaxRows
  BY <1>1 DEF Observations
<1>4. Restored <=> before.rows = Rows(database)
  <2>1. /\ Observation(database) = [schema |-> Schema(database), rows |-> Rows(database)]
        /\ Observation(database).rows = Rows(database)
    BY DEF Observation
  <2> QED
    BY <1>1, <1>2, <1>3, <2>1 DEF Restored
<1>5. before.rows = Rows(database)
        <=> \A t \in Table : before.rows[t] = database.tables[t].rows
  BY <1>3 DEF Rows
<1>6. ASSUME NEW t \in Table
      PROVE  database.tables[t].rows = IF Vanishes(t) THEN 0 ELSE before.rows[t]
  BY TypeParts, VanishesIs DEF IsAt, Kept
<1>7. \A t \in Table : before.rows[t] = database.tables[t].rows
                         <=> ~ (Vanishes(t) /\ observed.rows[t] > 0)
  <2> TAKE t \in Table
  <2>1. before.rows[t] \in Nat /\ observed.rows[t] = before.rows[t]
    BY <1>1, <1>3, RunnerAssumption
  <2>2. CASE Vanishes(t)
    <3>1. database.tables[t].rows = 0
      BY <1>6, <2>2
    <3>2. before.rows[t] = 0 <=> ~ (observed.rows[t] > 0)
      BY <2>1
    <3> QED
      BY <2>2, <3>1, <3>2
  <2>3. CASE ~ Vanishes(t)
    BY <1>6, <2>3
  <2> QED
    BY <2>2, <2>3
<1> QED
  BY <1>4, <1>5, <1>7 DEF RowsAreLost

LEMMA ReversibleInvStep ==
  ASSUME RunnerInv, RunnerNext, interrupts' = 0, Reversible'
  PROVE  ReversibleInv'
<1>1. UpgradeInv /\ RoundtripInv /\ UNCHANGED repositoryVars /\ ~ Interrupt
  BY NotInterrupted
<1>2. Reversible /\ ReversibleInv
  BY <1>1, TypeParts, NotInterrupted, PathStays
<1>3. /\ Target' = Target /\ baseline' = baseline
      /\ \A n : At(n)' = At(n)
      /\ \A t : Vanishes(t)' = Vanishes(t)
  BY <1>1, TypeParts, RepositoryStays, PathStays
<1>4. UNCHANGED before => \A r, t : Kept(r, t)' = Kept(r, t)
  BY <1>1, TypeParts, PathStays
<1>5. UNCHANGED observed => RowsAreLost' = RowsAreLost
  BY <1>3 DEF RowsAreLost
<1>6. /\ RepositoryInit /\ database \in CleanDatabase /\ database \in Database
      /\ Target \in Nat
  BY TypeParts, TargetIs
<1>7. CASE \/ UpgradeBaseline \/ ApplyTarget \/ LoadTestData \/ RunSmokeChecks
           \/ ObserveBefore
  <2>1. \/ step' \in {"apply", "load", "smoke", "observe", "downgrade"}
        \/ step' = "failed" /\ verdict'.step \in {"baseline", "apply", "load"}
    BY <1>7 DEF UpgradeBaseline, ApplyTarget, Upgrade, LoadTestData, LoadFixture,
       LoadSynthetic, SkipSynthetic, InsertRows, FailWith, RunSmokeChecks, ObserveBefore
  <2> QED
    BY <2>1 DEF ReversibleInv, RoundtripFailed, RoundtripSteps
<1>8. CASE DowngradeToBaseline
  <2>1. step = "downgrade" /\ UNCHANGED <<before, observed>>
    BY <1>8 DEF DowngradeToBaseline
  <2>2. /\ Complete /\ database.revision = Target
        /\ Schema(database) = Schema(At(Target)) /\ before = Observation(database)
    BY <1>1, <2>1 DEF UpgradeInv, RoundtripInv, RoundtripSteps
  <2>3. \A t \in Table : before.rows[t] = database.tables[t].rows
    BY <2>2 DEF Observation, Rows
  <2>4. \A t \in Table : database.tables[t].columns = At(Target).tables[t].columns
    BY <2>2, SameSchema
  <2>5. \A t \in Table : database.tables[t].rows = Kept(Target, t)
    <3>1. \A s : s \in Target .. Target <=> s = Target
      BY <1>6
    <3> QED
      BY <1>6, <2>3, <2>4, <3>1 DEF Kept, CleanDatabase, Clean
  <2>6. IsAt(database, Target, Target)
    BY <2>2, <2>4, <2>5 DEF IsAt
  <2> DEFINE reached == Downgraded(database, baseline)
  <2>7. IsAt(reached, baseline, baseline)
    BY <1>2, <1>6, <2>2, <2>6, DowngradedIsAt
  <2>8. reached.revision = baseline /\ baseline \in Nat
    BY <1>6, <2>7, TargetIs DEF IsAt
  <2>9. database' = reached /\ step' = "upgrade"
    BY <1>8, <2>8 DEF DowngradeToBaseline
  <2> HIDE DEF reached
  <2>10. IsAt(database, baseline, baseline)'
    BY <1>3, <1>4, <2>1, <2>7, <2>9 DEF IsAt
  <2> QED
    BY <2>9, <2>10 DEF ReversibleInv, RoundtripFailed
<1>9. CASE UpgradeAgain
  <2>1. step = "upgrade" /\ UNCHANGED <<before, observed>>
    BY <1>9 DEF UpgradeAgain
  <2>2. Complete /\ IsAt(database, baseline, baseline)
    BY <1>1, <1>2, <2>1 DEF UpgradeInv, ReversibleInv, RoundtripSteps
  <2> DEFINE reached == Upgraded(database, Target)
  <2>3. IsAt(reached, Target, baseline)
    BY <1>2, <1>6, <2>2, UpgradedIsAgain
  <2>4. database' = reached /\ step' = "compare"
    BY <1>9, <2>3 DEF UpgradeAgain, IsAt
  <2> HIDE DEF reached
  <2>5. IsAt(database, Target, baseline)'
    BY <1>3, <1>4, <2>1, <2>3, <2>4 DEF IsAt
  <2> QED
    BY <2>4, <2>5 DEF ReversibleInv, RoundtripFailed
<1>10. CASE Compare
  <2>1. step = "compare" /\ UNCHANGED observed
    BY <1>10 DEF Compare
  <2>2. IsAt(database, Target, baseline)
    BY <1>2, <2>1 DEF ReversibleInv
  <2>3. Restored <=> ~ RowsAreLost
    BY <1>1, <2>1, <2>2, ComparisonFindsLosses
  <2>4. \/ Restored /\ step' = "done"
        \/ ~ Restored /\ step' = "recover"
    BY <1>10 DEF Compare, FailWith
  <2> QED
    BY <1>5, <2>1, <2>3, <2>4 DEF ReversibleInv, RoundtripFailed
<1>11. CASE Recover
  <2>1. step = "recover" /\ step' = "failed" /\ UNCHANGED observed
    BY <1>11 DEF Recover
  <2> QED
    BY <1>2, <1>5, <2>1 DEF ReversibleInv
<1> QED
  BY <1>1, <1>7, <1>8, <1>9, <1>10, <1>11 DEF RunnerNext, VerifyRoundtrip

LEMMA RunnerStutters ==
  ASSUME RunnerInv, UNCHANGED runnerVars
  PROVE  RunnerInv'
<1>1. /\ UNCHANGED repositoryVars /\ database' = database /\ step' = step /\ before' = before
      /\ observed' = observed /\ seeded' = seeded /\ verdict' = verdict
      /\ interrupts' = interrupts /\ support' = support
  BY DEF runnerVars, repositoryVars
<1>2. RepositoryInit /\ RepositoryInit' /\ Database' = Database /\ Path' = Path
      /\ Target' = Target /\ baseline' = baseline
      /\ \A n : At(n)' = At(n)
  BY <1>1, TypeParts, RepositoryStays, PathStays
<1>3. /\ Complete' = Complete /\ Reversible' = Reversible
      /\ Schema(At(Target))' = Schema(At(Target))
      /\ \A t : Vanishes(t)' = Vanishes(t)
      /\ \A r, t : Kept(r, t)' = Kept(r, t)
  BY <1>1, <1>2, PathStays
<1>4. RunnerTypeOK' /\ Clean(database.tables)'
  BY <1>1, <1>2 DEF RunnerInv, RunnerTypeOK, Clean
<1>5. PathInv'
  BY <1>1, <1>2 DEF RunnerInv, PathInv
<1>6. Schema(database)' = Schema(database) /\ Observation(database)' = Observation(database)
  BY <1>1 DEF Schema, Observation, Rows
<1>7. RoundtripFailed' = RoundtripFailed
  BY <1>1 DEF RoundtripFailed
<1>8. UpgradeInv' = UpgradeInv
  BY <1>1, <1>2, <1>3, <1>6, <1>7 DEF UpgradeInv
<1>9. RoundtripInv' = RoundtripInv
  BY <1>1, <1>2, <1>3, <1>6 DEF RoundtripInv
<1>10. RowsAreLost' = RowsAreLost
  BY <1>1, <1>3 DEF RowsAreLost
<1>11. /\ IsAt(database, baseline, baseline)' = IsAt(database, baseline, baseline)
       /\ IsAt(database, Target, baseline)' = IsAt(database, Target, baseline)
  BY <1>1, <1>2, <1>3 DEF IsAt
<1>12. ReversibleInv' = ReversibleInv
  BY <1>1, <1>7, <1>10, <1>11 DEF ReversibleInv
<1>13. CoverageNotOverstated'
  <2>1. Tables' = Tables
    BY <1>1 DEF Tables, Present
  <2> QED
    BY <1>1, <2>1 DEF RunnerInv, CoverageNotOverstated
<1> QED
  BY <1>1, <1>2, <1>3, <1>4, <1>5, <1>8, <1>9, <1>12, <1>13 DEF RunnerInv

LEMMA NextRunnerInv ==
  ASSUME RunnerInv, [RunnerNext]_runnerVars
  PROVE  RunnerInv'
<1>1. CASE RunnerNext
  <2>1. UNCHANGED repositoryVars
    BY <1>1 DEF RunnerNext, UpgradeBaseline, ApplyTarget, Upgrade, LoadTestData,
       RunSmokeChecks, VerifyRoundtrip, ObserveBefore, DowngradeToBaseline, UpgradeAgain,
       Compare, Recover, Interrupt
  <2>2. RepositoryInit'
    BY <2>1, TypeParts, RepositoryStays
  <2>3. RunnerTypeOK' /\ Clean(database.tables)'
    BY <1>1, TypeStep
  <2>4. PathInv' /\ CoverageNotOverstated'
    BY <1>1, PathStep, CoverageStep
  <2>5. ASSUME interrupts' = 0
        PROVE  UpgradeInv' /\ RoundtripInv' /\ (Reversible' => ReversibleInv')
    BY <1>1, <2>5, UpgradeInvStep, RoundtripInvStep, ReversibleInvStep
  <2> QED
    BY <2>2, <2>3, <2>4, <2>5 DEF RunnerInv
<1>2. CASE UNCHANGED runnerVars
  BY <1>2, RunnerStutters
<1> QED
  BY <1>1, <1>2

-----------------------------------------------------------------------------
(* The theorems.                                                           *)

(* The inductive invariant of the runner, for any repository.              *)
THEOREM RunnerInvariant == RunnerSpec => []RunnerInv
<1>1. RunnerInit => RunnerInv
  BY InitRunnerInv
<1>2. RunnerInv /\ [RunnerNext]_runnerVars => RunnerInv'
  BY NextRunnerInv
<1> QED
  BY <1>1, <1>2, PTL DEF RunnerSpec

(* The database is at a revision of the repository, and every result is    *)
(* one the runner may print.                                               *)
THEOREM RunnerTypeCorrect == RunnerSpec => []RunnerTypeOK
<1>1. RunnerInv => RunnerTypeOK
  BY DEF RunnerInv
<1> QED
  BY <1>1, RunnerInvariant, PTL

(* A roundtrip that was not interrupted succeeds only with the schema and  *)
(* the row counts it began with; if the downgrades undo the upgrades, it   *)
(* fails exactly if it had rows in a table that is dropped on the way.     *)
THEOREM RoundtripAlwaysJudgesRight == RunnerSpec => []RoundtripVerdict
<1>1. ASSUME RunnerInv PROVE RoundtripVerdict
  <2> SUFFICES ASSUME interrupts = 0 PROVE
        /\ step = "done" => database.revision = Target /\ observed = Observation(database)
        /\ Reversible /\ (RoundtripFailed \/ step = "done") =>
             (RoundtripFailed <=> RowsAreLost)
    BY DEF RoundtripVerdict, RoundtripFailed, RoundtripSteps, RowsAreLost
  <2>1. RoundtripInv /\ (Reversible => ReversibleInv)
    BY <1>1 DEF RunnerInv
  <2>2. step = "done" => database.revision = Target /\ observed = Observation(database)
    BY <2>1 DEF RoundtripInv
  <2>3. ~ (RoundtripFailed /\ step = "done")
    BY DEF RoundtripFailed
  <2>4. ASSUME Reversible, RoundtripFailed \/ step = "done"
        PROVE  RoundtripFailed <=> RowsAreLost
    BY <2>1, <2>3, <2>4 DEF ReversibleInv
  <2> QED
    BY <2>2, <2>4
<1> QED
  BY <1>1, RunnerInvariant, PTL

(* What a seeding calls complete has a row in every table and a value in   *)
(* every column.                                                           *)
THEOREM CoverageNeverOverstated == RunnerSpec => []CoverageNotOverstated
<1>1. RunnerInv => CoverageNotOverstated
  BY DEF RunnerInv
<1> QED
  BY <1>1, RunnerInvariant, PTL

(* However often the upgrades were stopped between two migrations and      *)
(* executed again, the first seeding finds what one upgrade would make.    *)
THEOREM UpgradesAlwaysConverge == RunnerSpec => []UpgradesConverge
<1>1. ASSUME RunnerInv PROVE UpgradesConverge
  <2>1. RepositoryInit /\ PathInv /\ Target \in 0 .. Target
    BY <1>1, TargetIs DEF RunnerInv
  <2>2. Upgraded(Empty, Target) = At(Target)
    BY <2>1, UpgradedIsAt
  <2> QED
    BY <2>1, <2>2 DEF PathInv, UpgradesConverge
<1> QED
  BY <1>1, RunnerInvariant, PTL
=============================================================================
