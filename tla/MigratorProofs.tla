--------------------------- MODULE MigratorProofs ---------------------------
(***************************************************************************)
(* The migrations are applied in order, none is recorded that is not       *)
(* applied, and a replica serves only on the whole schema, for any number  *)
(* of replicas and migrations and whichever files have a COMMIT.           *)
(***************************************************************************)
EXTENDS ReplicaLife, WellFoundedInduction, TLAPS

Applying(r) == pc[r] \in {"execute", "record", "commit"}

\* What a replica does not have to apply is there, although the set was read
\* when its start began and the other replicas have gone on since.
OthersApplied(r) ==
    Applying(r) => pending[r] # {} /\ Migrations \ pending[r] \subseteq schema

\* The COMMIT of the file has made the changes permanent before the record.
ExecutedOwnCommit(r) ==
    pc[r] \in {"record", "commit"} /\ Current(r) \in OwnCommit => Current(r) \in schema

IInv ==
    /\ TypeOK
    /\ AppliedInOrder
    /\ RecordedWereApplied
    /\ ServesMigrated
    /\ \A r \in Replicas : OthersApplied(r) /\ ExecutedOwnCommit(r)

-----------------------------------------------------------------------------
\* A replica that has migrations to apply has a first one.
LEMMA CurrentIsFirst ==
    ASSUME TypeOK, NEW r \in Replicas, pending[r] # {}
    PROVE  /\ Current(r) \in pending[r]
           /\ Current(r) \in Migrations
           /\ \A n \in pending[r] : Current(r) <= n
<1>1. pending[r] \subseteq Migrations /\ Migrations \subseteq Nat
  BY MigratorAssumption DEF TypeOK, Migrations
<1>2. PICK m \in pending[r] : \A n \in pending[r] : ~(<<n, m>> \in OpToRel(<, Nat))
  BY <1>1, WFMin, NatLessThanWellFounded, Zenon
<1>3. ASSUME NEW n \in pending[r] PROVE m <= n
  <2>1. n \in Nat /\ m \in Nat /\ <<n, m>> \notin {ss \in Nat \X Nat : ss[1] < ss[2]}
    BY <1>1, <1>2, Zenon DEF OpToRel
  <2> QED
    BY <2>1
<1> QED
  BY <1>1, <1>3, Zenon DEF Current

\* Everything below the first migration to apply is there.
LEMMA BelowCurrentApplied ==
    ASSUME TypeOK, NEW r \in Replicas, OthersApplied(r), Applying(r)
    PROVE  \A n \in 1..Current(r) : n = Current(r) \/ n \in schema
<1>1. Current(r) \in Migrations /\ \A n \in pending[r] : Current(r) <= n
  BY CurrentIsFirst DEF OthersApplied
<1>2. pending[r] \subseteq Migrations /\ Migrations \ pending[r] \subseteq schema
  BY DEF OthersApplied, TypeOK
<1> QED
  BY <1>1, <1>2, MigratorAssumption DEF Migrations

\* The two ways in which the changes of the current migration become permanent
\* keep the schema a prefix of the migrations.
LEMMA ApplyKeepsOrder ==
    ASSUME TypeOK, AppliedInOrder, NEW r \in Replicas, OthersApplied(r), Applying(r),
           schema' = schema \cup {Current(r)}
    PROVE  AppliedInOrder'
<1>1. \A n \in 1..Current(r) : n \in schema'
  BY BelowCurrentApplied
<1>2. \A m \in schema : 1..m \subseteq schema'
  BY DEF AppliedInOrder
<1> QED
  BY <1>1, <1>2 DEF AppliedInOrder

\* The migration at which another replica is stays the one it is.
LEMMA CurrentOfOthers ==
    ASSUME NEW r \in Replicas, pending'[r] = pending[r]
    PROVE  Current(r)' = Current(r)
BY DEF Current

-----------------------------------------------------------------------------
THEOREM InitIInv == Init => IInv
BY MigratorAssumption DEF Init, IInv, TypeOK, AppliedInOrder, RecordedWereApplied,
    ServesMigrated, OthersApplied, ExecutedOwnCommit, Applying

\* A replica that stops or fails leaves what is committed as it is.
LEMMA ExitKeeps == ASSUME IInv, NEW r \in Replicas, Exit(r), stops' \in 0..MaxStops PROVE IInv'
<1> USE DEF IInv, Exit
<1>1. TypeOK'
  BY DEF TypeOK
<1>2. AppliedInOrder' /\ RecordedWereApplied' /\ ServesMigrated'
  BY DEF TypeOK, AppliedInOrder, RecordedWereApplied, ServesMigrated
<1>3. ASSUME NEW q \in Replicas PROVE OthersApplied(q)' /\ ExecutedOwnCommit(q)'
  BY CurrentOfOthers DEF TypeOK, OthersApplied, ExecutedOwnCommit, Applying
<1> QED
  BY <1>1, <1>2, <1>3

\* What is missing is all that is not recorded, and what is recorded is there.
LEMMA GetAppliedKeeps == ASSUME IInv, NEW r \in Replicas, GetApplied(r) PROVE IInv'
<1> USE DEF IInv, GetApplied, Goto
<1>1. TypeOK'
  BY DEF TypeOK
<1>2. AppliedInOrder' /\ RecordedWereApplied'
  BY DEF AppliedInOrder, RecordedWereApplied
<1>3. ServesMigrated'
  BY DEF TypeOK, RecordedWereApplied, ServesMigrated
<1>4. ASSUME NEW q \in Replicas PROVE OthersApplied(q)' /\ ExecutedOwnCommit(q)'
  <2>1. CASE q = r
    BY <2>1 DEF TypeOK, OthersApplied, ExecutedOwnCommit, Applying, RecordedWereApplied
  <2>2. CASE q # r
    BY <2>2, CurrentOfOthers DEF TypeOK, OthersApplied, ExecutedOwnCommit, Applying
  <2> QED
    BY <2>1, <2>2
<1> QED
  BY <1>1, <1>2, <1>3, <1>4

\* A file with a COMMIT changes the schema for everyone, before its record.
LEMMA ExecuteKeeps == ASSUME IInv, NEW r \in Replicas, Execute(r) PROVE IInv'
<1> USE DEF IInv, Execute, Goto
<1>1. Applying(r) /\ OthersApplied(r) /\ Current(r) \in Migrations
  BY CurrentIsFirst DEF Applying, OthersApplied
<1>2. schema' = schema \/ schema' = schema \cup {Current(r)}
  OBVIOUS
<1>3. TypeOK'
  BY <1>1 DEF TypeOK
<1>4. AppliedInOrder'
  <2>1. CASE schema' = schema
    BY <2>1 DEF AppliedInOrder
  <2>2. CASE schema' = schema \cup {Current(r)}
    BY <1>1, <2>2, ApplyKeepsOrder
  <2> QED
    BY <1>2, <2>1, <2>2
<1>5. RecordedWereApplied'
  BY <1>2 DEF RecordedWereApplied
<1>6. ServesMigrated'
  BY <1>2, <1>3 DEF TypeOK, ServesMigrated
<1>7. ASSUME NEW q \in Replicas PROVE OthersApplied(q)' /\ ExecutedOwnCommit(q)'
  BY <1>1, <1>2, CurrentOfOthers DEF TypeOK, OthersApplied, ExecutedOwnCommit, Applying
<1> QED
  BY <1>3, <1>4, <1>5, <1>6, <1>7

\* The record of a file with a COMMIT comes after the changes.
LEMMA RecordKeeps == ASSUME IInv, NEW r \in Replicas, Record(r) PROVE IInv'
<1> USE DEF IInv, Record, Goto
<1>1. Applying(r) /\ Current(r) \in Migrations
  BY CurrentIsFirst DEF Applying, OthersApplied
<1>2. TypeOK'
  BY <1>1 DEF TypeOK
<1>3. AppliedInOrder' /\ RecordedWereApplied' /\ ServesMigrated'
  BY DEF TypeOK, AppliedInOrder, RecordedWereApplied, ServesMigrated, ExecutedOwnCommit
<1>4. ASSUME NEW q \in Replicas PROVE OthersApplied(q)' /\ ExecutedOwnCommit(q)'
  BY CurrentOfOthers DEF TypeOK, OthersApplied, ExecutedOwnCommit, Applying
<1> QED
  BY <1>2, <1>3, <1>4

\* After its commit the migration is there, with or without a COMMIT in it.
LEMMA CommitKeeps == ASSUME IInv, NEW r \in Replicas, Commit(r) PROVE IInv'
<1> USE DEF IInv, Commit, Goto
<1>1. Applying(r) /\ OthersApplied(r) /\ Current(r) \in pending[r] /\ Current(r) \in Migrations
  BY CurrentIsFirst DEF Applying, OthersApplied
<1>2. schema' = schema \cup {Current(r)}
  BY DEF ExecutedOwnCommit
<1>3. TypeOK'
  BY <1>1 DEF TypeOK
<1>4. AppliedInOrder'
  BY <1>1, <1>2, ApplyKeepsOrder
<1>5. RecordedWereApplied'
  BY <1>2 DEF RecordedWereApplied
<1>6. Migrations \ pending'[r] \subseteq schema'
  BY <1>1, <1>2 DEF TypeOK, OthersApplied
<1>7. ServesMigrated'
  BY <1>2, <1>3, <1>6 DEF TypeOK, ServesMigrated
<1>8. ASSUME NEW q \in Replicas PROVE OthersApplied(q)' /\ ExecutedOwnCommit(q)'
  <2>1. CASE q = r
    BY <1>1, <1>6, <2>1 DEF TypeOK, OthersApplied, ExecutedOwnCommit, Applying
  <2>2. CASE q # r
    BY <1>2, <2>2, CurrentOfOthers DEF TypeOK, OthersApplied, ExecutedOwnCommit, Applying
  <2> QED
    BY <2>1, <2>2
<1> QED
  BY <1>3, <1>4, <1>5, <1>7, <1>8

THEOREM StepIInv == IInv /\ [Next]_vars => IInv'
<1> SUFFICES ASSUME IInv, [Next]_vars PROVE IInv'
  OBVIOUS
<1>1. ASSUME NEW r \in Replicas, Start(r) PROVE IInv'
  BY <1>1, CurrentOfOthers DEF IInv, Start, Goto, TypeOK, AppliedInOrder, RecordedWereApplied,
      ServesMigrated, OthersApplied, ExecutedOwnCommit, Applying
<1>2. ASSUME NEW r \in Replicas, GetApplied(r) PROVE IInv'
  BY <1>2, GetAppliedKeeps
<1>3. ASSUME NEW r \in Replicas, Execute(r) PROVE IInv'
  BY <1>3, ExecuteKeeps
<1>4. ASSUME NEW r \in Replicas, Record(r) PROVE IInv'
  BY <1>4, RecordKeeps
<1>5. ASSUME NEW r \in Replicas, Commit(r) PROVE IInv'
  BY <1>5, CommitKeeps
<1>6. ASSUME NEW r \in Replicas, StatementFails(r) PROVE IInv'
  BY <1>6, ExitKeeps DEF StatementFails, IInv, TypeOK
<1>7. ASSUME NEW r \in Replicas, Stop(r) PROVE IInv'
  BY <1>7, ExitKeeps, MigratorAssumption DEF Stop, IInv, TypeOK
<1>8. CASE UNCHANGED vars
  BY <1>8, CurrentOfOthers DEF vars, IInv, TypeOK, AppliedInOrder, RecordedWereApplied,
      ServesMigrated, OthersApplied, ExecutedOwnCommit, Applying
<1> QED
  BY <1>1, <1>2, <1>3, <1>4, <1>5, <1>6, <1>7, <1>8 DEF Next, Migrate

\* The invariant gives each of the properties.
LEMMA IInvGives ==
    IInv => TypeOK /\ AppliedInOrder /\ RecordedWereApplied /\ ServesMigrated
BY DEF IInv

-----------------------------------------------------------------------------
\* What main.go does after the migrations leaves them alone, but for its end.
LEMMA LifeKeepsIInv == ASSUME IInv, [LifeNext]_all PROVE IInv'
<1>1. ASSUME NEW r \in Replicas, Migration(r) PROVE IInv'
  BY <1>1, StepIInv DEF Migration, Next
<1>2. ASSUME NEW r \in Replicas, Die(r) PROVE IInv'
  BY <1>2, StepIInv DEF Die, Next
<1>3. ASSUME NEW r \in Replicas, Close(r) PROVE IInv'
  BY <1>3, ExitKeeps DEF Close, IInv, TypeOK
<1>4. ASSUME NEW r \in Replicas, Signal(r) PROVE IInv'
  BY <1>4, CurrentOfOthers, MigratorAssumption DEF Signal, IInv, TypeOK, AppliedInOrder,
      RecordedWereApplied, ServesMigrated, OthersApplied, ExecutedOwnCommit, Applying
<1>5. CASE UNCHANGED vars
  BY <1>5, StepIInv
<1> QED
  BY <1>1, <1>2, <1>3, <1>4, <1>5
  DEF LifeNext, Main, Serve, Accept, Answer, ClientLeaves, Shutdown, all

\* A replica that has requests has migrated: whoever leaves "migrated" has
\* ended, or had nothing.
LEMMA LifeKeepsLifeOK == ASSUME TypeOK, LifeOK, [LifeNext]_all PROVE LifeOK'
<1> USE DEF LifeOK, TypeOK
<1>1. ASSUME NEW r \in Replicas, Migration(r) PROVE LifeOK'
  BY <1>1 DEF Migration, run, Migrate, Start, GetApplied, Execute, Record, Commit,
      StatementFails, Goto, Exit
<1>2. ASSUME NEW r \in Replicas, Die(r) \/ Close(r) PROVE LifeOK'
  BY <1>2 DEF Die, Stop, Close, Exit, Gone
<1>3. ASSUME NEW r \in Replicas, Serve(r) \/ Signal(r) \/ Shutdown(r) PROVE LifeOK'
  BY <1>3 DEF Serve, Signal, Shutdown, Live, vars
<1>4. ASSUME NEW r \in Replicas, Accept(r) \/ Answer(r) \/ ClientLeaves(r) PROVE LifeOK'
  BY <1>4 DEF Accept, Answer, ClientLeaves, Kinds, vars
<1>5. CASE UNCHANGED all
  BY <1>5 DEF all, vars, run
<1> QED
  BY <1>1, <1>2, <1>3, <1>4, <1>5 DEF LifeNext, Main

\* Both invariants together are one of the whole life of a replica.
LEMMA LifeInvariant == LifeSpec => [](IInv /\ LifeOK)
<1>1. LifeInit => IInv /\ LifeOK
  BY InitIInv DEF LifeInit, LifeOK
<1>2. IInv /\ LifeOK /\ [LifeNext]_all => IInv' /\ LifeOK'
  BY LifeKeepsIInv, LifeKeepsLifeOK, IInvGives
<1> QED
  BY <1>1, <1>2, PTL DEF LifeSpec

\* However many replicas migrate at once and stop where they may, the schema is
\* always a prefix of the migrations (Migrate, applyMigration).
THEOREM MigratorSafe == LifeSpec => []AppliedInOrder
BY LifeInvariant, IInvGives, PTL

\* The types of the migrations' state, for replicas that also serve and stop.
THEOREM TypeCorrect == LifeSpec => []TypeOK
BY LifeInvariant, IInvGives, PTL

\* A replica has requests only between the end of its migrations and of its
\* process, wherever it is told to stop.
THEOREM LifeCorrect == LifeSpec => []LifeOK
BY LifeInvariant, PTL

\* No migration is ever recorded before its changes are there, so none is
\* skipped (applyMigration), whenever replicas crash, stop and start.
THEOREM NoneSkipped == LifeSpec => []RecordedWereApplied
BY LifeInvariant, IInvGives, PTL

\* A replica that has migrated has every migration under it as long as it
\* lives, although each replica looks only once at what is applied.
THEOREM ServedMigrated == LifeSpec => []ServesMigrated
BY LifeInvariant, IInvGives, PTL

-----------------------------------------------------------------------------
(* Changes without their record. *)

\* Replica r has made the changes of a file with a COMMIT, and not yet their record.
Between(r) ==
    /\ pc[r] = "record"
    /\ Current(r) \in OwnCommit
    /\ Current(r) \notin recorded

\* Changes that are there without their record are those of a file with a COMMIT.
OnlyOwnCommit == schema \ recorded \subseteq OwnCommit

\* Migration m, if it is there without its record, is about to be recorded.
RecordComes(m) ==
    m \in schema \ recorded => \E r \in Replicas : Between(r) /\ Current(r) = m

\* A step of a replica is one of its start, of its end, or of what it does with
\* the schema left alone.
LEMMA LifeSteps ==
    ASSUME LifeOK, [LifeNext]_all
    PROVE  \/ \E r \in Replicas : Execute(r) \/ Record(r) \/ Commit(r)
           \/ \E r \in Replicas : Start(r) \/ GetApplied(r)
           \/ \E r \in Replicas : Exit(r) /\ (~Between(r) \/ Stop(r))
           \/ UNCHANGED <<schema, recorded, pc, pending, locked>>
<1>1. ASSUME NEW r \in Replicas, Close(r) PROVE Exit(r) /\ ~Between(r)
  BY <1>1 DEF Close, LifeOK, Between
<1>2. ASSUME NEW r \in Replicas, StatementFails(r) PROVE Exit(r) /\ ~Between(r)
  BY <1>2 DEF StatementFails, Between
<1>3. ASSUME NEW r \in Replicas, Die(r) PROVE Exit(r) /\ Stop(r)
  BY <1>3 DEF Die, Stop
<1>4. ASSUME NEW r \in Replicas, Migration(r)
      PROVE  \/ Start(r) \/ GetApplied(r) \/ Execute(r) \/ Record(r) \/ Commit(r)
             \/ StatementFails(r)
  BY <1>4 DEF Migration, Migrate
<1>5. ASSUME NEW r \in Replicas, \/ Serve(r) \/ Shutdown(r) \/ Accept(r) \/ Answer(r)
                                 \/ ClientLeaves(r) \/ Signal(r)
      PROVE  UNCHANGED <<schema, recorded, pc, pending, locked>>
  BY <1>5 DEF Serve, Shutdown, Accept, Answer, ClientLeaves, Signal, vars
<1>6. CASE UNCHANGED all
  BY <1>6 DEF all, vars
<1> QED
  BY <1>1, <1>2, <1>3, <1>4, <1>5, <1>6 DEF LifeNext, Main

\* Only the COMMIT of a file makes changes permanent before their record.
LEMMA OwnCommitStep ==
    ASSUME IInv, LifeOK, OnlyOwnCommit, [LifeNext]_all
    PROVE  OnlyOwnCommit'
<1> USE DEF OnlyOwnCommit
<1>1. ASSUME NEW r \in Replicas, Execute(r) \/ Record(r) PROVE OnlyOwnCommit'
  BY <1>1 DEF Execute, Record
<1>2. ASSUME NEW r \in Replicas, Commit(r) PROVE OnlyOwnCommit'
  BY <1>2 DEF Commit
<1>3. ASSUME NEW r \in Replicas, Start(r) \/ GetApplied(r) \/ Exit(r) PROVE OnlyOwnCommit'
  BY <1>3 DEF Start, GetApplied, Exit
<1> QED
  BY <1>1, <1>2, <1>3, LifeSteps

\* A replica that does not stop between the two makes the record.
LEMMA RecordComesStep ==
    ASSUME IInv, LifeOK, NEW m \in Migrations, RecordComes(m), [LifeNext]_all,
           \A r \in Replicas : Between(r) /\ Current(r) = m => pc'[r] # "down"
    PROVE  RecordComes(m)'
<1> USE DEF IInv, TypeOK
<1>a. SUFFICES ASSUME m \in schema' \ recorded'
               PROVE  \E r \in Replicas : Between(r)' /\ Current(r)' = m
  BY DEF RecordComes
<1>1. ASSUME m \in schema, m \notin recorded,
             \A r \in Replicas : Between(r) /\ Current(r) = m =>
                 pc'[r] = pc[r] /\ pending'[r] = pending[r]
      PROVE  \E r \in Replicas : Between(r)' /\ Current(r)' = m
  <2>1. PICK r \in Replicas : Between(r) /\ Current(r) = m
    BY <1>1 DEF RecordComes
  <2>2. Current(r)' = m
    BY <1>1, <2>1, CurrentOfOthers
  <2> QED
    BY <1>a, <1>1, <2>1, <2>2 DEF Between
<1>2. ASSUME NEW r \in Replicas, Execute(r)
      PROVE  \E q \in Replicas : Between(q)' /\ Current(q)' = m
  <2>1. /\ pc[r] = "execute" /\ pc'[r] = "record" /\ recorded' = recorded
        /\ pending' = pending
        /\ \A q \in Replicas \ {r} : pc'[q] = pc[q]
        /\ \/ schema' = schema
           \/ Current(r) \in OwnCommit /\ schema' = schema \cup {Current(r)}
    BY <1>2 DEF Execute, Goto
  <2>2. CASE m \in schema
    <3>1. \A q \in Replicas : Between(q) => q # r
      BY <2>1 DEF Between
    <3> QED
      BY <1>1, <1>a, <2>1, <2>2, <3>1
  <2>3. CASE m \notin schema
    <3>1. m = Current(r) /\ Current(r)' = m /\ Current(r) \in OwnCommit
      BY <1>a, <2>1, <2>3, CurrentOfOthers
    <3> QED
      BY <1>a, <2>1, <3>1 DEF Between
  <2> QED
    BY <2>2, <2>3
<1>3. ASSUME NEW r \in Replicas, Record(r)
      PROVE  \E q \in Replicas : Between(q)' /\ Current(q)' = m
  <2>1. /\ pc[r] = "record" /\ schema' = schema /\ pending' = pending
        /\ \A q \in Replicas \ {r} : pc'[q] = pc[q]
        /\ \/ recorded' = recorded /\ Current(r) \notin OwnCommit
           \/ recorded' = recorded \cup {Current(r)}
    BY <1>3 DEF Record, Goto
  <2>2. \A q \in Replicas : Between(q) /\ Current(q) = m => q # r
    BY <1>a, <2>1 DEF Between
  <2> QED
    BY <1>1, <1>a, <2>1, <2>2
<1>4. ASSUME NEW r \in Replicas, Commit(r)
      PROVE  \E q \in Replicas : Between(q)' /\ Current(q)' = m
  <2>1. /\ pc[r] = "commit"
        /\ \A q \in Replicas \ {r} : pc'[q] = pc[q] /\ pending'[q] = pending[q]
        /\ \/ schema' = schema /\ recorded' = recorded
           \/ schema' = schema \cup {Current(r)} /\ recorded' = recorded \cup {Current(r)}
    BY <1>4 DEF Commit, Goto
  <2>2. \A q \in Replicas : Between(q) => q # r
    BY <2>1 DEF Between
  <2> QED
    BY <1>1, <1>a, <2>1, <2>2
<1>5. ASSUME NEW r \in Replicas, Start(r) \/ GetApplied(r)
      PROVE  \E q \in Replicas : Between(q)' /\ Current(q)' = m
  <2>1. /\ pc[r] \in {"down", "start"} /\ schema' = schema /\ recorded' = recorded
        /\ \A q \in Replicas \ {r} : pc'[q] = pc[q] /\ pending'[q] = pending[q]
    BY <1>5 DEF Start, GetApplied, Goto
  <2>2. \A q \in Replicas : Between(q) => q # r
    BY <2>1 DEF Between
  <2> QED
    BY <1>1, <1>a, <2>1, <2>2
<1>6. ASSUME NEW r \in Replicas, Exit(r)
      PROVE  \E q \in Replicas : Between(q)' /\ Current(q)' = m
  <2>1. /\ pc'[r] = "down" /\ UNCHANGED <<schema, recorded, pending>>
        /\ \A q \in Replicas \ {r} : pc'[q] = pc[q]
    BY <1>6 DEF Exit
  <2>2. ~(Between(r) /\ Current(r) = m)
    BY <2>1
  <2> QED
    BY <1>1, <1>a, <2>1, <2>2
<1>7. CASE UNCHANGED <<schema, recorded, pc, pending, locked>>
  BY <1>1, <1>a, <1>7
<1> QED
  BY <1>2, <1>3, <1>4, <1>5, <1>6, <1>7, LifeSteps

\* A migration whose file has no COMMIT of its own is there exactly when its record
\* is, as applyMigration says, wherever replicas stop.
THEOREM OwnCommitOnly == LifeSpec => []OnlyOwnCommit
<1>1. LifeInit => OnlyOwnCommit
  BY DEF LifeInit, Init, OnlyOwnCommit
<1> QED
  BY <1>1, OwnCommitStep, LifeInvariant, PTL DEF LifeSpec

\* With a COMMIT in its file it is so too, as long as no replica stops between the
\* end of the file and the record: that is the only way to part the two.
THEOREM RecordedUnlessStopped ==
    LifeSpec /\ [][\A r \in Replicas : Between(r) => pc'[r] # "down"]_all
        => []AppliedWithRecord
<1> DEFINE Kept == \A r \in Replicas : Between(r) => pc'[r] # "down"
<1> DEFINE AllCome == \A m \in Migrations : RecordComes(m)
<1>1. LifeInit => AllCome
  BY DEF LifeInit, Init, RecordComes
<1>2. IInv /\ LifeOK /\ AllCome /\ [LifeNext]_all /\ [Kept]_all => AllCome'
  <2> SUFFICES ASSUME IInv, LifeOK, AllCome, [LifeNext]_all, [Kept]_all,
                      NEW m \in Migrations
               PROVE  RecordComes(m)'
    OBVIOUS
  <2>1. \A r \in Replicas : Between(r) => pc'[r] # "down"
    BY DEF all, vars, Between
  <2> QED
    BY <2>1, RecordComesStep
<1>3. IInv /\ AllCome => AppliedWithRecord
  BY DEF IInv, TypeOK, RecordedWereApplied, RecordComes, AppliedWithRecord, Between
<1> HIDE DEF Kept, AllCome
<1>4. LifeSpec /\ [][Kept]_all => []AllCome
  BY <1>1, <1>2, LifeInvariant, PTL DEF LifeSpec
<1>5. LifeSpec /\ [][Kept]_all => []AppliedWithRecord
  BY <1>3, <1>4, LifeInvariant, PTL
<1> QED
  BY <1>5 DEF Kept

\* A file that can be run again does no harm when its record is lost: as long as no
\* replica stops between the COMMIT of another file and its record, no stop leaves
\* the schema so that no replica can start again.
THEOREM NoneStranded ==
    LifeSpec
    /\ [][\A r \in Replicas :
             Between(r) /\ Current(r) \notin Repeatable => pc'[r] # "down"]_all
        => []~Stranded
<1> DEFINE Kept == \A r \in Replicas :
                       Between(r) /\ Current(r) \notin Repeatable => pc'[r] # "down"
<1> DEFINE OthersCome == \A m \in Migrations \ Repeatable : RecordComes(m)
<1>1. LifeInit => OthersCome
  BY DEF LifeInit, Init, RecordComes
<1>2. IInv /\ LifeOK /\ OthersCome /\ [LifeNext]_all /\ [Kept]_all => OthersCome'
  <2> SUFFICES ASSUME IInv, LifeOK, OthersCome, [LifeNext]_all, [Kept]_all,
                      NEW m \in Migrations \ Repeatable
               PROVE  RecordComes(m)'
    OBVIOUS
  <2>1. \A r \in Replicas : Between(r) /\ Current(r) = m => pc'[r] # "down"
    BY DEF all, vars, Between
  <2> QED
    BY <2>1, RecordComesStep
<1>3. IInv /\ OthersCome => ~Stranded
  BY DEF IInv, TypeOK, RecordComes, Stranded, Between
<1> HIDE DEF Kept, OthersCome
<1>4. LifeSpec /\ [][Kept]_all => []OthersCome
  BY <1>1, <1>2, LifeInvariant, PTL DEF LifeSpec
<1>5. LifeSpec /\ [][Kept]_all => []~Stranded
  BY <1>3, <1>4, LifeInvariant, PTL
<1> QED
  BY <1>5 DEF Kept

-----------------------------------------------------------------------------
(* The open transaction. *)

\* Replica r has changed the schema in a transaction that it has not committed.
InOwnTransaction(r) == pc[r] \in {"record", "commit"} /\ Current(r) \notin OwnCommit

\* It is the one that the others wait for.
LockHeld ==
    \A r \in Replicas : locked = r <=> InOwnTransaction(r)

\* A statement of r waits for the transaction of another replica.
Waits(r) == pc[r] = "execute" /\ locked # NoReplica

\* Two replicas are never both in such a transaction, and while one waits another
\* does not: replicas that migrate together never all wait.
MigratorsGoOn ==
    /\ \A r, q \in Replicas : InOwnTransaction(r) /\ InOwnTransaction(q) => r = q
    /\ (\E r \in Replicas : Waits(r)) =>
           \E q \in Replicas : pc[q] \in {"record", "commit"}

\* The transaction is open from the statement to its commit or the replica's end.
LEMMA LockStep ==
    ASSUME IInv, LifeOK, LockHeld, [LifeNext]_all
    PROVE  LockHeld'
<1> USE DEF IInv, TypeOK, LockHeld, InOwnTransaction
<1>a. NoReplica \notin Replicas
  BY MigratorAssumption
<1>1. ASSUME NEW r \in Replicas, Execute(r) PROVE LockHeld'
  BY <1>1, <1>a, CurrentOfOthers DEF Execute, Goto
<1>2. ASSUME NEW r \in Replicas, Record(r) PROVE LockHeld'
  BY <1>2, <1>a, CurrentOfOthers DEF Record, Goto
<1>3. ASSUME NEW r \in Replicas, Commit(r) PROVE LockHeld'
  BY <1>3, <1>a, CurrentOfOthers DEF Commit, Goto
<1>4. ASSUME NEW r \in Replicas, Start(r) \/ GetApplied(r) PROVE LockHeld'
  BY <1>4, <1>a, CurrentOfOthers DEF Start, GetApplied, Goto
<1>5. ASSUME NEW r \in Replicas, Exit(r) PROVE LockHeld'
  BY <1>5, <1>a, CurrentOfOthers DEF Exit
<1>6. CASE UNCHANGED <<schema, recorded, pc, pending, locked>>
  BY <1>6, CurrentOfOthers
<1> QED
  BY <1>1, <1>2, <1>3, <1>4, <1>5, <1>6, LifeSteps

\* The transaction that a replica waits for is open, so that its owner is about to
\* record and commit or has failed: none is left behind by a replica that ended.
THEOREM MigratorsNeverStuck == LifeSpec => []MigratorsGoOn
<1>1. LifeInit => LockHeld
  BY MigratorAssumption DEF LifeInit, Init, LockHeld, InOwnTransaction
<1>2. IInv /\ LockHeld => MigratorsGoOn
  BY DEF IInv, TypeOK, LockHeld, MigratorsGoOn, InOwnTransaction, Waits
<1> QED
  BY <1>1, <1>2, LockStep, LifeInvariant, PTL DEF LifeSpec
=============================================================================
