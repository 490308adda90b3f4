-------------------------- MODULE Migration_proofs --------------------------
(***************************************************************************)
(* Proofs about Migration, for any number of callers, writes and faults.   *)
(*                                                                         *)
(* The three readings of a caller happen outside a transaction: what it    *)
(* commits to, what it verifies and what it backs up may differ.  The      *)
(* inductive invariant says that, as long as the database is of the family *)
(* the caller found, they can only have grown: the commitment is at most   *)
(* the backup, which is at most the table.  When the exclusive transaction *)
(* finds the commitment equal to the table, all of them are equal.         *)
(***************************************************************************)
EXTENDS Migration, TLAPS

Verifying == {"shape", "source", "events", "approvals", "verify", "verify_events", "backup"}

PCs == Verifying \cup {"idle", "tables", "version", "lock", "verify_active", "ready", "refused"}

CallerRecords ==
  [pc : PCs, family : Families, commitment : Commitments, verified : Nat \cup {NoRows},
   backup : Contents]

HistoryEntries == [family : Families, commitment : Commitments, backup : Contents]

Databases == [family : Families, intact : BOOLEAN, rows : Nat, archive : Contents,
              history : Seq(HistoryEntries)]

\* What holds of a caller x beside a database d with the backups bs.
CallerOK(x, d, bs) ==
  /\ x.pc \in {"ready", "verify_active"} => d.family = "ACTIVE_V9"
  /\ x.pc = "version" => d.family \in {"MAIN_V8", "ACTIVE_V9"}
  /\ x.family = "MAIN_V8" => d.family \in {"MAIN_V8", "ACTIVE_V9"}
  /\ x.pc = "tables" => x.backup = NoContent
  /\ x.pc \in Verifying => x.family \in LegacyFamilies
  /\ x.pc = "lock" =>
       x.family \in LegacyFamilies \/ (x.family = "EMPTY" /\ x.backup = NoContent)
  /\ x.family \in LegacyFamilies /\ x.family = d.family =>
       /\ x.pc \in {"verify", "verify_events", "backup"} => x.commitment[2] <= d.rows
       /\ x.pc \in {"backup", "lock"} => d.intact
       /\ x.pc = "lock" =>
            /\ x.backup \in bs
            /\ x.backup.family = d.family
            /\ x.commitment[2] <= x.backup.rows
            /\ x.backup.rows <= d.rows

\* What holds of a database d of which w transactions were committed.
DatabaseOK(d, w) ==
  /\ d.family # "ACTIVE_V9" => w.new = 0
  /\ d.family = "EMPTY" => d.rows = 0
  /\ d.family \in {"EMPTY", "INCOMPATIBLE"} => d.intact

MigrationInv ==
  /\ MigrationTypeOK
  /\ NothingIsLost /\ HistoryIsTrue /\ CorruptIsLeftAlone
  /\ DatabaseOK(db, written)
  /\ \A c \in Callers : CallerOK(callers[c], db, backups)

-----------------------------------------------------------------------------
\* A caller stays as it should be while the database of its family and the set of
\* backups only grow.
LEMMA GrowthKeepsCaller ==
  ASSUME NEW x \in CallerRecords, NEW d \in Databases, NEW e \in Databases,
         NEW bs, NEW cs, CallerOK(x, d, bs), bs \subseteq cs,
         e.family = d.family, e.intact = d.intact, d.rows <= e.rows
  PROVE  CallerOK(x, e, cs)
<1>1. d.rows \in Nat /\ e.rows \in Nat
  BY DEF Databases
<1>2. x.commitment[2] \in Int /\ x.backup.rows \in Int
  BY DEF CallerRecords, Commitments, Contents, NoRows
<1>3. x.commitment[2] <= d.rows => x.commitment[2] <= e.rows
  BY <1>1, <1>2
<1>4. x.backup.rows <= d.rows => x.backup.rows <= e.rows
  BY <1>1, <1>2
<1> QED
  BY <1>3, <1>4 DEF CallerOK

\* A caller stays as it should be when another one migrates the database.
LEMMA MigrationKeepsCaller ==
  ASSUME NEW x, NEW d, NEW e, NEW bs, CallerOK(x, d, bs), e.family = "ACTIVE_V9"
  PROVE  CallerOK(x, e, bs)
BY DEF CallerOK, LegacyFamilies

\* A caller that has not begun, or was refused, is as it should be.
LEMMA IdleIsOK ==
  ASSUME NEW d, NEW bs, NEW pc \in {"idle", "tables", "refused"}
  PROVE  /\ [Idle EXCEPT !.pc = pc] \in CallerRecords
         /\ CallerOK([Idle EXCEPT !.pc = pc], d, bs)
<1>1. /\ [Idle EXCEPT !.pc = pc].family = "EMPTY" /\ [Idle EXCEPT !.pc = pc].pc = pc
      /\ [Idle EXCEPT !.pc = pc].backup = NoContent
  BY DEF Idle
<1>2. [Idle EXCEPT !.pc = pc] \in CallerRecords
  BY DEF Idle, CallerRecords, PCs, Verifying, Families, LegacyFamilies, Commitments, Contents,
         NoCommitment, NoContent, NoRows
<1> QED
  BY <1>1, <1>2 DEF CallerOK, LegacyFamilies, Verifying

\* The same for a caller that is told the active database is ready.
LEMMA ReadyIsOK ==
  ASSUME NEW d, NEW bs, d.family = "ACTIVE_V9"
  PROVE  /\ [Idle EXCEPT !.pc = "ready"] \in CallerRecords
         /\ CallerOK([Idle EXCEPT !.pc = "ready"], d, bs)
<1>1. /\ [Idle EXCEPT !.pc = "ready"].family = "EMPTY"
      /\ [Idle EXCEPT !.pc = "ready"].pc = "ready"
  BY DEF Idle
<1>2. [Idle EXCEPT !.pc = "ready"] \in CallerRecords
  BY DEF Idle, CallerRecords, PCs, Verifying, Families, LegacyFamilies, Commitments, Contents,
         NoCommitment, NoContent, NoRows
<1> QED
  BY <1>1, <1>2 DEF CallerOK, LegacyFamilies, Verifying

\* The type invariant in the vocabulary of these proofs.
LEMMA TypesOfMigration ==
  MigrationTypeOK <=> /\ db \in Databases
                      /\ backups \subseteq Contents
                      /\ callers \in [Callers -> CallerRecords]
                      /\ written \in [old : Nat, new : Nat]
                      /\ faults \in Nat
<1>1. PCs = {"idle", "tables", "version", "shape", "source", "events", "approvals",
             "verify", "verify_events", "backup", "lock", "verify_active", "ready", "refused"}
  BY DEF PCs, Verifying
<1> QED
  BY <1>1 DEF MigrationTypeOK, Databases, CallerRecords, HistoryEntries

-----------------------------------------------------------------------------
\* A step of one caller that leaves the database alone keeps the invariant when that
\* caller is as it should be afterwards.
LEMMA CallerStep ==
  ASSUME MigrationInv, NEW c \in Callers,
         UNCHANGED <<db, written>>,
         backups \subseteq backups', backups' \subseteq Contents, faults' \in Nat,
         callers' \in [Callers -> CallerRecords],
         \A q \in Callers \ {c} : callers'[q] = callers[q],
         CallerOK(callers'[c], db, backups')
  PROVE  MigrationInv'
<1>1. db \in Databases /\ callers \in [Callers -> CallerRecords]
  BY TypesOfMigration DEF MigrationInv
<1>2. MigrationTypeOK'
  BY <1>1, TypesOfMigration DEF MigrationInv, MigrationTypeOK, Databases, CallerRecords,
     HistoryEntries, PCs, Verifying
<1>3. ASSUME NEW q \in Callers
      PROVE  CallerOK(callers'[q], db', backups')
  <2>1. CASE q = c
    BY <2>1
  <2>2. CASE q # c
    <3>1. CallerOK(callers[q], db, backups)
      BY DEF MigrationInv
    <3>2. db.rows <= db.rows
      BY <1>1 DEF Databases
    <3>3. callers[q] \in CallerRecords
      BY <1>1
    <3>4. CallerOK(callers[q], db, backups')
      BY <1>1, <3>1, <3>2, <3>3, GrowthKeepsCaller
    <3> QED
      BY <2>2, <3>4
  <2> QED
    BY <2>1, <2>2
<1>4. NothingIsLost' /\ CorruptIsLeftAlone' /\ DatabaseOK(db, written)'
  BY DEF MigrationInv, NothingIsLost, CorruptIsLeftAlone, DatabaseOK
<1>5. HistoryIsTrue'
  BY DEF MigrationInv, HistoryIsTrue
<1> QED
  BY <1>2, <1>3, <1>4, <1>5 DEF MigrationInv

\* The steps in which a caller reads, is refused, fails or dies.
ReadingStep(c) ==
  \/ Begin(c) \/ ReadTables(c) \/ ReadVersion(c) \/ ValidateShape(c)
  \/ ReadSourceTables(c) \/ CommitEvents(c) \/ CommitApprovals(c) \/ VerifyApprovals(c)
  \/ VerifyEvents(c) \/ CreateBackup(c) \/ VerifyActive(c) \/ Fails(c) \/ Dies(c)

\* They change at most the caller, the backups and the count of faults.
LEMMA ReadingStepsFrame ==
  ASSUME MigrationInv, NEW c \in Callers, ReadingStep(c)
  PROVE  /\ UNCHANGED <<db, written>>
         /\ backups \subseteq backups' /\ backups' \subseteq Contents
         /\ faults' \in Nat
         /\ \A q \in Callers \ {c} : callers'[q] = callers[q]
         /\ DOMAIN callers' = Callers
<1>1. /\ db \in Databases /\ backups \subseteq Contents /\ faults \in Nat
      /\ callers \in [Callers -> CallerRecords]
  BY TypesOfMigration DEF MigrationInv
<1>2. [family |-> db.family, rows |-> db.rows] \in Contents
  BY <1>1 DEF Databases, Contents
<1>3. CASE CreateBackup(c)
  BY <1>1, <1>2, <1>3 DEF CreateBackup
<1>4. CASE Fails(c) \/ Dies(c)
  BY <1>1, <1>4 DEF Fails, Dies, Refuse
<1>5. CASE Begin(c) \/ ReadTables(c) \/ ReadVersion(c) \/ ValidateShape(c) \/ ReadSourceTables(c)
  BY <1>1, <1>5 DEF Begin, ReadTables, ReadVersion, ValidateShape, ReadSourceTables, Refuse, Goto
<1>6. CASE \/ CommitEvents(c) \/ CommitApprovals(c) \/ VerifyApprovals(c) \/ VerifyEvents(c)
           \/ VerifyActive(c)
  BY <1>1, <1>6 DEF CommitEvents, CommitApprovals, VerifyApprovals, VerifyEvents, VerifyActive,
                    Refuse, Goto
<1> QED
  BY <1>3, <1>4, <1>5, <1>6, ReadingStep(c) DEF ReadingStep

\* The caller that takes one of them is as it should be afterwards.
LEMMA ReadingStepsCaller ==
  ASSUME MigrationInv, NEW c \in Callers, ReadingStep(c)
  PROVE  callers'[c] \in CallerRecords /\ CallerOK(callers'[c], db, backups')
<1> DEFINE x == callers[c]
           y == callers'[c]
<1>1. /\ db \in Databases /\ callers \in [Callers -> CallerRecords]
      /\ backups \subseteq Contents
  BY TypesOfMigration DEF MigrationInv
<1>2. x \in CallerRecords /\ CallerOK(x, db, backups)
  BY <1>1 DEF MigrationInv
<1>3. /\ db.rows \in Nat /\ db.family \in Families
      /\ x.pc \in PCs /\ x.family \in Families /\ x.commitment \in Commitments
      /\ x.verified \in Nat \cup {NoRows} /\ x.backup \in Contents
  BY <1>1, <1>2 DEF Databases, CallerRecords
<1>4. ASSUME NEW pc \in {"idle", "tables", "refused"}, y = [Idle EXCEPT !.pc = pc]
      PROVE  y \in CallerRecords /\ CallerOK(y, db, backups')
  BY <1>4, IdleIsOK
<1>5. CASE callers' = [callers EXCEPT ![c] = [Idle EXCEPT !.pc = "refused"]]
  <2>1. y = [Idle EXCEPT !.pc = "refused"]
    BY <1>1, <1>5
  <2> QED
    BY <2>1, <1>4
<1>6. CASE Begin(c)
  <2>1. y = [Idle EXCEPT !.pc = "tables"]
    BY <1>1, <1>6 DEF Begin
  <2> QED
    BY <2>1, <1>4
<1>7. CASE Dies(c)
  <2>1. y = Idle
    BY <1>1, <1>7 DEF Dies
  <2>2. Idle = [Idle EXCEPT !.pc = "idle"]
    BY DEF Idle
  <2> QED
    BY <2>1, <2>2, <1>4
<1>8. CASE Fails(c)
  BY <1>5, <1>8 DEF Fails, Refuse
<1>9. CASE ReadTables(c)
  <2>1. /\ y = [x EXCEPT !.pc = y.pc, !.family = y.family]
        /\ \/ y.pc = "lock" /\ y.family = "EMPTY" /\ db.family = "EMPTY"
           \/ /\ y.pc = "version" /\ y.family = "VERIFIED_UNVERSIONED"
              /\ db.family \in {"MAIN_V8", "ACTIVE_V9"}
           \/ y.pc = "shape" /\ y.family = "VERIFIED_UNVERSIONED"
    BY <1>1, <1>2, <1>3, <1>9 DEF ReadTables, CallerRecords
  <2>2. y \in CallerRecords
    BY <1>2, <2>1 DEF CallerRecords, PCs, Verifying, Families, LegacyFamilies
  <2>3. y.backup = NoContent
    <3>1. x.backup = NoContent
      BY <1>2, <1>9 DEF ReadTables, CallerOK
    <3>2. y.backup = x.backup
      BY <1>1, <1>2, <1>9 DEF ReadTables, CallerRecords
    <3> QED
      BY <3>1, <3>2
  <2> QED
    BY <2>1, <2>2, <2>3 DEF CallerOK, LegacyFamilies, Verifying
<1>10. CASE ReadVersion(c)
  <2>1. /\ y = [x EXCEPT !.pc = y.pc, !.family = y.family]
        /\ y.family = db.family
        /\ x.pc = "version"
        /\ \/ y.pc = "verify_active" /\ db.family = "ACTIVE_V9"
           \/ y.pc = "shape" /\ db.family # "ACTIVE_V9"
    BY <1>1, <1>2, <1>3, <1>10 DEF ReadVersion, CallerRecords
  <2>2. db.family \in {"MAIN_V8", "ACTIVE_V9"}
    BY <1>2, <2>1 DEF CallerOK
  <2>3. y \in CallerRecords
    BY <1>2, <1>3, <2>1 DEF CallerRecords, PCs, Verifying
  <2> QED
    BY <2>1, <2>2, <2>3 DEF CallerOK, LegacyFamilies, Verifying
<1>11. CASE ValidateShape(c) \/ ReadSourceTables(c)
  <2>1. CASE callers' = [callers EXCEPT ![c] = [Idle EXCEPT !.pc = "refused"]]
    BY <2>1, <1>5
  <2>2. CASE \E pc \in {"source", "events"} : Goto(c, pc)
    <3>1. /\ y = [x EXCEPT !.pc = y.pc] /\ y.pc \in {"source", "events"}
          /\ x.pc \in {"shape", "source"}
      BY <1>1, <1>2, <1>11, <2>2 DEF ValidateShape, ReadSourceTables, Goto, CallerRecords
    <3>2. y \in CallerRecords
      BY <1>2, <3>1 DEF CallerRecords, PCs, Verifying
    <3>3. y.family = x.family
      BY <3>1, <1>2 DEF CallerRecords
    <3> QED
      BY <1>2, <3>1, <3>2, <3>3 DEF CallerOK, Verifying
  <2> QED
    BY <1>11, <2>1, <2>2 DEF ValidateShape, ReadSourceTables, Refuse
<1>12. CASE CommitEvents(c)
  <2>1. /\ y = [x EXCEPT !.pc = "approvals", !.commitment = <<db.rows, NoRows>>]
        /\ x.pc = "events"
    BY <1>1, <1>12 DEF CommitEvents
  <2>0. <<db.rows, NoRows>> \in Commitments
    BY <1>3 DEF Commitments
  <2>2. y \in CallerRecords
    BY <1>2, <2>0, <2>1 DEF CallerRecords, PCs, Verifying
  <2>3. y.family = x.family /\ y.pc = "approvals"
    BY <2>1, <1>2 DEF CallerRecords
  <2> QED
    BY <1>2, <2>1, <2>2, <2>3 DEF CallerOK, Verifying
<1>13. CASE CommitApprovals(c)
  <2>1. /\ y = [x EXCEPT !.pc = "verify", !.commitment = <<x.commitment[1], db.rows>>]
        /\ x.pc = "approvals"
    BY <1>1, <1>13 DEF CommitApprovals
  <2>0. <<x.commitment[1], db.rows>> \in Commitments
    BY <1>3 DEF Commitments
  <2>2. y \in CallerRecords
    BY <1>2, <2>0, <2>1 DEF CallerRecords, PCs, Verifying
  <2>3. y.family = x.family /\ y.pc = "verify" /\ y.commitment[2] <= db.rows
    BY <2>1, <1>2, <1>3 DEF CallerRecords
  <2> QED
    BY <1>2, <2>1, <2>2, <2>3 DEF CallerOK, Verifying
<1>14. CASE VerifyApprovals(c)
  <2>1. y = [x EXCEPT !.pc = "verify_events", !.verified = db.rows] /\ x.pc = "verify"
    BY <1>1, <1>14 DEF VerifyApprovals
  <2>2. y \in CallerRecords
    BY <1>2, <1>3, <2>1 DEF CallerRecords, PCs, Verifying
  <2>3. y.family = x.family /\ y.pc = "verify_events" /\ y.commitment = x.commitment
    BY <2>1, <1>2 DEF CallerRecords
  <2> QED
    BY <1>2, <2>1, <2>2, <2>3 DEF CallerOK, Verifying
<1>15. CASE VerifyEvents(c)
  <2>1. CASE Refuse(c)
    BY <2>1, <1>5 DEF Refuse
  <2>2. CASE RecordsVerify /\ Goto(c, "backup")
    <3>1. y = [x EXCEPT !.pc = "backup"] /\ x.pc = "verify_events"
      BY <1>1, <1>15, <2>2 DEF VerifyEvents, Goto
    <3>2. y \in CallerRecords
      BY <1>2, <3>1 DEF CallerRecords, PCs, Verifying
    <3>3. y.family = x.family /\ y.pc = "backup" /\ y.commitment = x.commitment
      BY <3>1, <1>2 DEF CallerRecords
    <3>4. db.intact
      BY <2>2 DEF RecordsVerify
    <3> QED
      BY <1>2, <3>1, <3>2, <3>3, <3>4 DEF CallerOK, Verifying
  <2> QED
    BY <1>15, <2>1, <2>2 DEF VerifyEvents
<1>16. CASE CreateBackup(c)
  <2> DEFINE copy == [family |-> db.family, rows |-> db.rows]
  <2>1. /\ y = [x EXCEPT !.pc = "lock", !.backup = copy] /\ x.pc = "backup"
        /\ copy \in backups'
    BY <1>1, <1>16 DEF CreateBackup
  <2>0. copy \in Contents
    BY <1>3 DEF Contents
  <2> HIDE DEF copy
  <2>2. y \in CallerRecords
    BY <1>2, <2>0, <2>1 DEF CallerRecords, PCs, Verifying
  <2>3. /\ y.family = x.family /\ y.pc = "lock" /\ y.commitment = x.commitment
        /\ y.backup = copy
    BY <2>1, <1>2 DEF CallerRecords
  <2>4. y.backup.family = db.family /\ y.backup.rows = db.rows /\ db.rows <= db.rows
    BY <2>3, <1>3 DEF copy
  <2>5. y.family \in LegacyFamilies
    BY <1>2, <2>1, <2>3 DEF CallerOK, Verifying
  <2> QED
    BY <1>2, <2>1, <2>2, <2>3, <2>4, <2>5 DEF CallerOK, Verifying
<1>17. CASE VerifyActive(c)
  <2>1. CASE Refuse(c)
    BY <2>1, <1>5 DEF Refuse
  <2>2. CASE /\ db.family = "ACTIVE_V9"
             /\ callers' = [callers EXCEPT ![c] = [Idle EXCEPT !.pc = "ready"]]
    <3>1. y = [Idle EXCEPT !.pc = "ready"]
      BY <1>1, <2>2
    <3> QED
      BY <2>2, <3>1, ReadyIsOK
  <2> QED
    BY <1>17, <2>1, <2>2 DEF VerifyActive
<1> QED
  BY <1>6, <1>7, <1>8, <1>9, <1>10, <1>11, <1>12, <1>13, <1>14, <1>15, <1>16, <1>17
     DEF ReadingStep

-----------------------------------------------------------------------------
\* Migrate keeps the invariant: it is refused and changes nothing, or the commitment,
\* the backup and the tables are the same.
LEMMA MigrateStep ==
  ASSUME MigrationInv, NEW c \in Callers, Migrate(c)
  PROVE  MigrationInv'
<1> DEFINE x == callers[c]
<1>1. /\ db \in Databases /\ callers \in [Callers -> CallerRecords]
      /\ backups \subseteq Contents /\ faults \in Nat /\ written \in [old : Nat, new : Nat]
  BY TypesOfMigration DEF MigrationInv
<1>2. x \in CallerRecords /\ CallerOK(x, db, backups) /\ x.pc = "lock"
  BY <1>1 DEF MigrationInv, Migrate
<1>3. CASE ~Archives(c)
  <2>1. /\ callers' = [callers EXCEPT ![c] = [Idle EXCEPT !.pc = "refused"]]
        /\ UNCHANGED <<db, backups, written, faults>>
    BY <1>3 DEF Migrate, Refuse
  <2>2. [Idle EXCEPT !.pc = "refused"] \in CallerRecords
    BY IdleIsOK
  <2>3. CallerOK([Idle EXCEPT !.pc = "refused"], db, backups')
    BY IdleIsOK
  <2>4. callers'[c] = [Idle EXCEPT !.pc = "refused"]
    BY <1>1, <2>1
  <2>5. /\ callers' \in [Callers -> CallerRecords]
        /\ \A q \in Callers \ {c} : callers'[q] = callers[q]
    BY <1>1, <2>1, <2>2
  <2>6. CallerOK(callers'[c], db, backups')
    BY <2>3, <2>4
  <2>7. /\ UNCHANGED <<db, written>> /\ backups \subseteq backups'
        /\ backups' \subseteq Contents /\ faults' \in Nat
    BY <1>1, <2>1
  <2> QED
    BY <2>5, <2>6, <2>7, CallerStep
<1>4. CASE Archives(c)
  <2> DEFINE archive == IF x.family = "EMPTY" THEN NoContent
                        ELSE [family |-> db.family, rows |-> db.rows]
             entry == [family |-> x.family, commitment |-> x.commitment, backup |-> x.backup]
  <2>1. /\ db' = Migrated(c)
        /\ callers' = [callers EXCEPT ![c] = [Idle EXCEPT !.pc = "ready"]]
        /\ UNCHANGED <<backups, written, faults>>
    BY <1>4 DEF Migrate
  <2>2. x.family = db.family /\ x.family \in LegacyFamilies \cup {"EMPTY"}
    BY <1>2, <1>4 DEF Archives, CallerOK
  <2>3. db.family # "ACTIVE_V9"
    BY <2>2 DEF LegacyFamilies
  <2>4. Len(db.history) = 0 /\ db.history = <<>>
    BY <1>1, <2>3 DEF MigrationInv, HistoryIsTrue, Databases
  <2>5. /\ db'.family = "ACTIVE_V9" /\ db'.rows = 0 /\ db'.intact = db.intact
        /\ db'.archive = archive /\ db'.history = Append(db.history, entry)
    BY <1>1, <2>1 DEF Migrated, Databases
  <2>6. entry \in HistoryEntries
    BY <1>2 DEF HistoryEntries, CallerRecords
  <2>7. archive \in Contents
    BY <1>1 DEF Databases, Contents, NoContent, NoRows, Families, LegacyFamilies
  <2>8. db' \in Databases
    <3>1. db'.history \in Seq(HistoryEntries)
      BY <1>1, <2>5, <2>6 DEF Databases
    <3>2. db' = [family |-> "ACTIVE_V9", intact |-> db.intact, rows |-> 0,
                 archive |-> archive, history |-> db'.history]
      BY <1>1, <2>1 DEF Migrated, Databases
    <3> HIDE DEF archive
    <3> QED
      BY <1>1, <2>7, <3>1, <3>2 DEF Databases, Families
  <2>9. x.family # "EMPTY" =>
          x.backup = archive /\ x.backup \in backups /\ x.commitment = <<db.rows, db.rows>>
    <3> HAVE x.family # "EMPTY"
    <3>1. x.family \in LegacyFamilies /\ x.commitment = <<db.rows, db.rows>>
      BY <1>4, <2>2 DEF Archives
    <3>2. /\ x.backup \in backups /\ x.backup.family = db.family
          /\ x.commitment[2] <= x.backup.rows /\ x.backup.rows <= db.rows
      BY <1>2, <2>2, <3>1 DEF CallerOK
    <3>3. x.backup.rows = db.rows
      <4>1. db.rows \in Nat /\ x.backup.rows \in Int
        BY <1>1, <1>2 DEF Databases, CallerRecords, Contents, NoRows
      <4>2. x.commitment[2] = db.rows
        BY <3>1
      <4> QED
        BY <3>2, <4>1, <4>2
    <3>4. x.backup = [family |-> db.family, rows |-> db.rows]
      BY <1>2, <3>2, <3>3 DEF CallerRecords, Contents
    <3> QED
      BY <3>1, <3>2, <3>4
  <2>10. x.family = "EMPTY" => x.backup = NoContent
    BY <1>2 DEF CallerOK, LegacyFamilies
  <2>11. MigrationTypeOK'
    <3>1. callers' \in [Callers -> CallerRecords]
      BY <1>1, <2>1, <2>5, ReadyIsOK
    <3> QED
      BY <1>1, <2>1, <2>8, <3>1 DEF MigrationTypeOK, Databases, CallerRecords, HistoryEntries,
         PCs, Verifying
  <2>12. NothingIsLost'
    <3>1. written'.new = 0
      BY <1>1, <2>1, <2>3 DEF MigrationInv, DatabaseOK
    <3>2. CASE x.family = "EMPTY"
      <4>1. written.old = 0
        BY <2>2, <3>2 DEF MigrationInv, DatabaseOK, NothingIsLost
      <4> QED
        BY <2>1, <2>5, <3>1, <3>2, <4>1 DEF NothingIsLost
    <3>3. CASE x.family # "EMPTY"
      <4>1. archive.rows = db.rows /\ db.rows = written.old
        BY <2>3, <3>3 DEF MigrationInv, NothingIsLost
      <4>2. archive # NoContent
        BY <1>1, <3>3 DEF NoContent, NoRows, Databases
      <4> HIDE DEF archive
      <4> QED
        BY <2>1, <2>5, <3>1, <4>1, <4>2 DEF NothingIsLost
    <3> QED
      BY <3>2, <3>3
  <2>13. HistoryIsTrue'
    <3>1. Len(db'.history) = 1 /\ db'.history[1] = entry
      BY <2>4, <2>5, <2>6
    <3>2. entry.backup = archive
      BY <2>9, <2>10
    <3>3. entry.family \in LegacyFamilies =>
            /\ archive.family = entry.family
            /\ entry.backup \in backups
            /\ entry.commitment = <<archive.rows, archive.rows>>
      BY <2>2, <2>9 DEF LegacyFamilies
    <3> HIDE DEF archive, entry
    <3>4. 1..Len(db'.history) = {1}
      BY <3>1
    <3> QED
      BY <2>1, <2>5, <3>1, <3>2, <3>3, <3>4 DEF HistoryIsTrue
  <2>14. CorruptIsLeftAlone' /\ DatabaseOK(db, written)'
    <3>1. db.intact
      BY <1>2, <2>2 DEF CallerOK, MigrationInv, DatabaseOK
    <3> QED
      BY <2>5, <3>1 DEF CorruptIsLeftAlone, DatabaseOK
  <2>15. ASSUME NEW q \in Callers
         PROVE  CallerOK(callers'[q], db', backups')
    <3>1. CASE q = c
      BY <1>1, <2>1, <2>5, <3>1, ReadyIsOK
    <3>2. CASE q # c
      <4>1. CallerOK(callers[q], db, backups)
        BY DEF MigrationInv
      <4>2. CallerOK(callers[q], db', backups)
        BY <2>5, <4>1, MigrationKeepsCaller
      <4> QED
        BY <1>1, <2>1, <3>2, <4>2
    <3> QED
      BY <3>1, <3>2
  <2> QED
    BY <2>11, <2>12, <2>13, <2>14, <2>15 DEF MigrationInv
<1> QED
  BY <1>3, <1>4

-----------------------------------------------------------------------------
\* The writes of the programs keep the invariant: the tables only grow.
LEMMA WriteStep ==
  ASSUME MigrationInv, UNCHANGED <<backups, callers, faults>>,
         db' \in Databases, written' \in [old : Nat, new : Nat],
         \/ OldProgramInitializes
         \/ OldProgramWrites
         \/ \E c \in Callers : NewProgramWrites(c)
  PROVE  MigrationInv'
<1>1. /\ db \in Databases /\ callers \in [Callers -> CallerRecords]
      /\ written \in [old : Nat, new : Nat]
  BY TypesOfMigration DEF MigrationInv
<1>2. MigrationTypeOK'
  BY TypesOfMigration DEF MigrationInv, MigrationTypeOK, Databases, HistoryEntries
<1>3. /\ db'.intact = db.intact /\ db'.archive = db.archive /\ db'.history = db.history
      /\ db.rows \in Nat /\ written.old \in Nat /\ written.new \in Nat
  BY <1>1 DEF OldProgramInitializes, OldProgramWrites, NewProgramWrites, Databases
<1>4. CASE OldProgramInitializes
  <2>1. /\ db.family = "EMPTY" /\ db'.family = "MAIN_V8" /\ db'.rows = db.rows
        /\ written' = written
    BY <1>1, <1>4 DEF OldProgramInitializes, Databases
  <2>2. NothingIsLost' /\ DatabaseOK(db, written)' /\ CorruptIsLeftAlone'
    BY <1>3, <2>1 DEF MigrationInv, NothingIsLost, DatabaseOK, CorruptIsLeftAlone, LegacyFamilies
  <2>3. HistoryIsTrue'
    BY <1>3, <2>1 DEF MigrationInv, HistoryIsTrue
  <2>4. ASSUME NEW q \in Callers
        PROVE  CallerOK(callers[q], db', backups)
    <3>1. CallerOK(callers[q], db, backups)
      BY DEF MigrationInv
    <3> QED
      BY <2>1, <3>1 DEF CallerOK, LegacyFamilies
  <2> QED
    BY <1>2, <2>2, <2>3, <2>4 DEF MigrationInv
<1>5. CASE OldProgramWrites \/ \E c \in Callers : NewProgramWrites(c)
  <2>1. db'.family = db.family /\ db'.rows = db.rows + 1
    BY <1>1, <1>5 DEF OldProgramWrites, NewProgramWrites, Databases
  <2>2. ASSUME OldProgramWrites
        PROVE  NothingIsLost' /\ DatabaseOK(db, written)' /\ CorruptIsLeftAlone'
    <3>1. /\ db.family \in LegacyFamilies
          /\ written'.old = written.old + 1 /\ written'.new = written.new
      BY <1>1, <2>2 DEF OldProgramWrites
    <3> QED
      BY <1>3, <2>1, <3>1 DEF MigrationInv, NothingIsLost, DatabaseOK, CorruptIsLeftAlone,
                              LegacyFamilies
  <2>3. ASSUME NEW c \in Callers, NewProgramWrites(c)
        PROVE  NothingIsLost' /\ DatabaseOK(db, written)' /\ CorruptIsLeftAlone'
    <3>1. db.family = "ACTIVE_V9"
      BY <2>3 DEF MigrationInv, NewProgramWrites, CallerOK
    <3>2. written'.new = written.new + 1 /\ written'.old = written.old
      BY <1>1, <2>3 DEF NewProgramWrites
    <3> QED
      BY <1>3, <2>1, <3>1, <3>2 DEF MigrationInv, NothingIsLost, DatabaseOK, CorruptIsLeftAlone,
                                    LegacyFamilies
  <2>4. HistoryIsTrue'
    BY <1>3, <2>1 DEF MigrationInv, HistoryIsTrue
  <2>5. ASSUME NEW q \in Callers
        PROVE  CallerOK(callers[q], db', backups)
    <3>1. CallerOK(callers[q], db, backups) /\ callers[q] \in CallerRecords
      BY <1>1 DEF MigrationInv
    <3>2. db.rows <= db'.rows
      BY <1>3, <2>1
    <3>3. db' \in Databases /\ backups \subseteq backups
      OBVIOUS
    <3> QED
      BY <1>1, <1>3, <2>1, <3>1, <3>2, <3>3, GrowthKeepsCaller
  <2>6. NothingIsLost' /\ DatabaseOK(db, written)' /\ CorruptIsLeftAlone'
    BY <1>5, <2>2, <2>3
  <2> QED
    BY <1>2, <2>4, <2>5, <2>6 DEF MigrationInv
<1> QED
  BY <1>4, <1>5

\* Every step of the specification keeps the invariant.
LEMMA MigrationStep ==
  ASSUME MigrationInv, [MigrationNext]_migrationVars
  PROVE  MigrationInv'
<1>1. /\ db \in Databases /\ callers \in [Callers -> CallerRecords]
      /\ written \in [old : Nat, new : Nat]
  BY TypesOfMigration DEF MigrationInv
<1>2. ASSUME NEW c \in Callers, ReadingStep(c)
      PROVE  MigrationInv'
  <2>1. /\ UNCHANGED <<db, written>>
        /\ backups \subseteq backups' /\ backups' \subseteq Contents
        /\ faults' \in Nat
        /\ \A q \in Callers \ {c} : callers'[q] = callers[q]
    BY <1>2, ReadingStepsFrame
  <2>2. callers'[c] \in CallerRecords /\ CallerOK(callers'[c], db, backups')
    BY <1>2, ReadingStepsCaller
  <2>3. callers' \in [Callers -> CallerRecords]
    <3>1. DOMAIN callers' = Callers
      BY <1>2, ReadingStepsFrame
    <3>2. callers' = [q \in Callers |-> callers'[q]]
      BY <1>2, <3>1 DEF ReadingStep, Begin, ReadTables, ReadVersion, ValidateShape,
         ReadSourceTables, CommitEvents, CommitApprovals, VerifyApprovals, VerifyEvents,
         CreateBackup, VerifyActive, Fails, Dies, Refuse, Goto
    <3>3. \A q \in Callers : callers'[q] \in CallerRecords
      BY <1>1, <2>1, <2>2
    <3> QED
      BY <3>2, <3>3
  <2> QED
    BY <2>1, <2>2, <2>3, CallerStep
<1>3. ASSUME NEW c \in Callers, Migrate(c)
      PROVE  MigrationInv'
  BY <1>3, MigrateStep
<1>4. CASE \/ OldProgramInitializes \/ OldProgramWrites
           \/ \E c \in Callers : NewProgramWrites(c)
  <2>1. UNCHANGED <<backups, callers, faults>>
    BY <1>4 DEF OldProgramInitializes, OldProgramWrites, NewProgramWrites
  <2>2. db' \in Databases
    <3>1. CASE OldProgramInitializes
      BY <1>1, <3>1 DEF OldProgramInitializes, Databases, Families, LegacyFamilies
    <3>2. CASE OldProgramWrites \/ \E c \in Callers : NewProgramWrites(c)
      BY <1>1, <3>2 DEF OldProgramWrites, NewProgramWrites, Databases
    <3> QED
      BY <1>4, <3>1, <3>2
  <2>3. written' \in [old : Nat, new : Nat]
    BY <1>1, <1>4 DEF OldProgramInitializes, OldProgramWrites, NewProgramWrites
  <2> QED
    BY <1>4, <2>1, <2>2, <2>3, WriteStep
<1>5. CASE UNCHANGED migrationVars
  BY <1>5 DEF migrationVars, MigrationInv, MigrationTypeOK, NothingIsLost, HistoryIsTrue,
              CorruptIsLeftAlone, DatabaseOK, CallerOK
<1> QED
  BY <1>2, <1>3, <1>4, <1>5 DEF MigrationNext, Advance, ReadingStep

\* The databases that may be found satisfy the invariant.
LEMMA MigrationStarts == MigrationInit => MigrationInv
<1> SUFFICES ASSUME MigrationInit PROVE MigrationInv
  OBVIOUS
<1>1. PICK family \in SourceFamilies, intact \in BOOLEAN :
        (family \notin LegacyFamilies => intact) /\ db = Found(family, intact)
  BY DEF MigrationInit
<1>2. family \in Families /\ family # "ACTIVE_V9"
  BY SourceFamiliesAssumption
<1>3. /\ db.family = family /\ db.intact = intact /\ db.rows = 0 /\ db.archive = NoContent
      /\ db.history = <<>>
  BY <1>1 DEF Found
<1>4. Len(db.history) = 0
  BY <1>3
<1>5. db \in Databases
  <2>1. NoContent \in Contents
    BY DEF NoContent, Contents, Families, LegacyFamilies, NoRows
  <2>2. <<>> \in Seq(HistoryEntries)
    OBVIOUS
  <2> QED
    BY <1>1, <1>2, <2>1, <2>2 DEF Found, Databases
<1>6. Idle = [Idle EXCEPT !.pc = "idle"]
  BY DEF Idle
<1>7. Idle \in CallerRecords /\ CallerOK(Idle, db, backups)
  BY <1>6, IdleIsOK
<1>8. MigrationTypeOK
  BY <1>5, <1>7, TypesOfMigration DEF MigrationInit
<1>9. NothingIsLost /\ CorruptIsLeftAlone /\ DatabaseOK(db, written)
  BY <1>1, <1>2, <1>3 DEF MigrationInit, NothingIsLost, CorruptIsLeftAlone, DatabaseOK,
                          LegacyFamilies
<1>10. HistoryIsTrue
  BY <1>2, <1>3, <1>4 DEF HistoryIsTrue
<1> QED
  BY <1>7, <1>8, <1>9, <1>10 DEF MigrationInv, MigrationInit

-----------------------------------------------------------------------------
\* The inductive invariant: whatever two readings of ensure_active_schema saw, the
\* commitment is at most the backup and the backup at most the tables.
THEOREM MigrationInvariant == MigrationSpec => []MigrationInv
<1>1. MigrationInv /\ [MigrationNext]_migrationVars => MigrationInv'
  BY MigrationStep
<1> QED
  BY <1>1, MigrationStarts, PTL DEF MigrationSpec

\* The variables of ensure_active_schema keep their types.
THEOREM MigrationTypes == MigrationSpec => []MigrationTypeOK
<1>1. MigrationInv => MigrationTypeOK
  BY DEF MigrationInv
<1> QED
  BY <1>1, MigrationInvariant, PTL

\* No committed transaction of the old or the new program is lost by a migration,
\* however many callers of ensure_active_schema race, fail and die.
THEOREM MigrationLosesNothing == MigrationSpec => []NothingIsLost
<1>1. MigrationInv => NothingIsLost
  BY DEF MigrationInv
<1> QED
  BY <1>1, MigrationInvariant, PTL

\* A database is migrated once, and migration_history tells the truth about the archive,
\* the commitment and the backup.
THEOREM MigrationHistoryIsTrue == MigrationSpec => []HistoryIsTrue
<1>1. MigrationInv => HistoryIsTrue
  BY DEF MigrationInv
<1> QED
  BY <1>1, MigrationInvariant, PTL

\* A database whose records do not verify is never migrated.
THEOREM MigrationLeavesCorrupt == MigrationSpec => []CorruptIsLeftAlone
<1>1. MigrationInv => CorruptIsLeftAlone
  BY DEF MigrationInv
<1> QED
  BY <1>1, MigrationInvariant, PTL

\* ensure_active_schema returns only when the active schema is there.
THEOREM MigrationReady == MigrationSpec => []ReadyMeansActive
<1>1. MigrationInv => ReadyMeansActive
  BY DEF MigrationInv, CallerOK, ReadyMeansActive
<1> QED
  BY <1>1, MigrationInvariant, PTL

\* Once active, the schema, the archive and the history stay, and no row goes.
THEOREM MigrationIsForever == MigrationSpec => ActiveIsForever
<1>1. ASSUME MigrationInv, [MigrationNext]_migrationVars, db.family = "ACTIVE_V9"
      PROVE  /\ db'.family = "ACTIVE_V9"
             /\ db'.archive = db.archive /\ db'.history = db.history
             /\ db'.rows >= db.rows
  <2>1. db \in Databases /\ db.rows \in Nat
    BY <1>1, TypesOfMigration DEF MigrationInv, Databases
  <2>2. ASSUME NEW c \in Callers, Migrate(c)
        PROVE  db' = db
    <3>1. CallerOK(callers[c], db, backups) /\ callers[c].pc = "lock"
      BY <1>1, <2>2 DEF MigrationInv, Migrate
    <3>2. callers[c].family # db.family
      BY <1>1, <3>1 DEF CallerOK, LegacyFamilies
    <3> QED
      BY <2>2, <3>2 DEF Migrate, Archives
  <2>3. ASSUME NEW c \in Callers, ReadingStep(c)
        PROVE  db' = db
    BY <1>1, <2>3, ReadingStepsFrame
  <2>4. CASE OldProgramInitializes \/ OldProgramWrites
    BY <1>1, <2>4 DEF OldProgramInitializes, OldProgramWrites, LegacyFamilies
  <2>5. ASSUME NEW c \in Callers, NewProgramWrites(c)
        PROVE  /\ db'.family = db.family /\ db'.rows = db.rows + 1
               /\ db'.archive = db.archive /\ db'.history = db.history
    BY <2>1, <2>5 DEF NewProgramWrites, Databases
  <2>6. CASE db' = db
    BY <1>1, <2>1, <2>6
  <2>7. CASE \E c \in Callers : NewProgramWrites(c)
    BY <1>1, <2>1, <2>5, <2>7
  <2> QED
    BY <1>1, <2>2, <2>3, <2>4, <2>6, <2>7
       DEF MigrationNext, Advance, ReadingStep, migrationVars
<1>2. MigrationInv /\ [MigrationNext]_migrationVars =>
        [db.family = "ACTIVE_V9" =>
           /\ db'.family = "ACTIVE_V9"
           /\ db'.archive = db.archive /\ db'.history = db.history
           /\ db'.rows >= db.rows]_migrationVars
  BY <1>1
<1> QED
  BY <1>2, MigrationInvariant, PTL DEF MigrationSpec, ActiveIsForever
=============================================================================
