------------------------------ MODULE Migration ------------------------------
(***************************************************************************)
(* ensure_active_schema (repositories/migrations.py): a caller detects     *)
(* which family of schemas the database belongs to, commits to its         *)
(* contents, verifies them and writes a backup, all in separate statements *)
(* outside a transaction; then it archives the old tables and creates the  *)
(* active ones in one BEGIN EXCLUSIVE transaction.  Every start, every     *)
(* readiness probe and the first use of a repository calls it, so several  *)
(* callers may run at once, beside a program of the old version that still *)
(* writes, and any of them can fail or die on the way.                     *)
(*                                                                         *)
(* The contents of the old tables are abstracted to the number of old      *)
(* transactions committed in them, each of which writes to both            *)
(* approval_audit_events and approvals; a digest is what it commits to.    *)
(***************************************************************************)
EXTENDS Integers, Sequences

CONSTANTS
  Callers,         \* concurrent callers of ensure_active_schema
  SourceFamilies,  \* the databases that may be found
  MaxRows,         \* bound on the writes of the old program, and on those of the new
  MaxFaults        \* bound on failures and deaths

LegacyFamilies == {"MAIN_V8", "VERIFIED_UNVERSIONED"}

\* DatabaseFamily, and any other database.
Families == LegacyFamilies \cup {"EMPTY", "ACTIVE_V9", "INCOMPATIBLE"}

ASSUME SourceFamiliesAssumption == SourceFamilies \subseteq Families \ {"ACTIVE_V9"}
ASSUME MigrationBoundsAssumption == MaxRows \in Nat /\ MaxFaults \in Nat

VARIABLES
  db,        \* the database file
  backups,   \* the contents of the backup files
  callers,   \* what each caller is doing
  written,   \* how many transactions of the old and of the new program were committed
  faults     \* failures and deaths so far

migrationVars == <<db, backups, callers, written, faults>>

-----------------------------------------------------------------------------
NoRows == -1
NoContent == [family |-> "EMPTY", rows |-> NoRows]
NoCommitment == <<NoRows, NoRows>>

\* A new database has no tables.  `intact` says whether the records found verify,
\* `archive` holds the renamed tables, `history` is migration_history.
Found(family, intact) ==
  [family |-> family, intact |-> intact, rows |-> 0, archive |-> NoContent,
   history |-> <<>>]

Idle == [pc |-> "idle", family |-> "EMPTY", commitment |-> NoCommitment,
         verified |-> NoRows, backup |-> NoContent]

MigrationInit ==
  /\ \E family \in SourceFamilies, intact \in BOOLEAN :
       /\ family \notin LegacyFamilies => intact
       /\ db = Found(family, intact)
  /\ backups = {}
  /\ callers = [c \in Callers |-> Idle]
  /\ written = [old |-> 0, new |-> 0]
  /\ faults = 0

\* A caller is between two steps of ensure_active_schema.
Running(c) == callers[c].pc \notin {"idle", "ready", "refused"}

Goto(c, pc) == callers' = [callers EXCEPT ![c].pc = pc]

\* SchemaCompatibilityError: the caller stops and keeps nothing.
Refuse(c) == callers' = [callers EXCEPT ![c] = [Idle EXCEPT !.pc = "refused"]]

-----------------------------------------------------------------------------
(* Detection: _detect_family and _validate_source_shape.                   *)

Begin(c) ==
  /\ ~Running(c)
  /\ callers' = [callers EXCEPT ![c] = [Idle EXCEPT !.pc = "tables"]]
  /\ UNCHANGED <<db, backups, written, faults>>

\* The names of the tables: none, some with schema_metadata, or some without.
ReadTables(c) ==
  /\ callers[c].pc = "tables"
  /\ callers' = [callers EXCEPT
       ![c].pc = CASE db.family = "EMPTY" -> "lock"
                   [] db.family \in {"MAIN_V8", "ACTIVE_V9"} -> "version"
                   [] OTHER -> "shape",
       ![c].family = IF db.family = "EMPTY" THEN "EMPTY" ELSE "VERIFIED_UNVERSIONED"]
  /\ UNCHANGED <<db, backups, written, faults>>

ReadVersion(c) ==
  /\ callers[c].pc = "version"
  /\ callers' = [callers EXCEPT
       ![c].pc = IF db.family = "ACTIVE_V9" THEN "verify_active" ELSE "shape",
       ![c].family = db.family]
  /\ UNCHANGED <<db, backups, written, faults>>

\* Mutant: only versioned databases are known, as the deployment guide says.
KnownIfVersioned(c) == callers[c].family = "MAIN_V8" /\ db.family = "MAIN_V8"

\* The names, columns and definitions of the tables are those of the family.
KnownShape(c) == callers[c].family = db.family

ValidateShape(c) ==
  /\ callers[c].pc = "shape"
  /\ IF KnownShape(c) THEN Goto(c, "source") ELSE Refuse(c)
  /\ UNCHANGED <<db, backups, written, faults>>

-----------------------------------------------------------------------------
(* The commitment, the verification and the backup.                        *)

\* _source_tables reads the names again; the commitment knows no query for the
\* tables of the active schema.
ReadSourceTables(c) ==
  /\ callers[c].pc = "source"
  /\ IF db.family = "ACTIVE_V9" THEN Refuse(c) ELSE Goto(c, "events")
  /\ UNCHANGED <<db, backups, written, faults>>

\* Mutant: the commitment to the first table is taken for the whole.
CommitOneTable(c) ==
  /\ callers[c].pc = "events"
  /\ callers' = [callers EXCEPT ![c].pc = "approvals", ![c].commitment = <<db.rows>>]
  /\ UNCHANGED <<db, backups, written, faults>>

\* _database_commitment, table by table: approval_audit_events comes first.
CommitEvents(c) ==
  /\ callers[c].pc = "events"
  /\ callers' = [callers EXCEPT ![c].pc = "approvals", ![c].commitment = <<db.rows, NoRows>>]
  /\ UNCHANGED <<db, backups, written, faults>>

CommitApprovals(c) ==
  /\ callers[c].pc = "approvals"
  /\ callers' = [callers EXCEPT ![c].pc = "verify",
                   ![c].commitment = <<callers[c].commitment[1], db.rows>>]
  /\ UNCHANGED <<db, backups, written, faults>>

\* _verify_source_integrity reads the approvals, and then the events of each.
VerifyApprovals(c) ==
  /\ callers[c].pc = "verify"
  /\ callers' = [callers EXCEPT ![c].pc = "verify_events", ![c].verified = db.rows]
  /\ UNCHANGED <<db, backups, written, faults>>

\* Mutant: records that do not verify are archived all the same.
RecordsIgnored == TRUE

\* The chains and digests of approvals, executions and security events, recomputed.
RecordsVerify == db.intact

\* If the tables moved in between, the records may or may not seem to match.
VerifyEvents(c) ==
  /\ callers[c].pc = "verify_events"
  /\ \/ RecordsVerify /\ Goto(c, "backup")
     \/ (~RecordsVerify \/ db.rows # callers[c].verified) /\ Refuse(c)
  /\ UNCHANGED <<db, backups, written, faults>>

\* _create_backup: a consistent copy of the database as it is now.
CreateBackup(c) ==
  LET copy == [family |-> db.family, rows |-> db.rows] IN
  /\ callers[c].pc = "backup"
  /\ backups' = backups \cup {copy}
  /\ callers' = [callers EXCEPT ![c].pc = "lock", ![c].backup = copy]
  /\ UNCHANGED <<db, written, faults>>

-----------------------------------------------------------------------------
(* The migration: one exclusive transaction.                               *)

\* Mutant: the archive is not compared with what was committed to.
ArchivesAnything(c) == callers[c].family = db.family

\* Mutant: tables that exist already are taken for the ones to be created.
ArchivesIfUnchanged(c) ==
  callers[c].family # "EMPTY" =>
    callers[c].family = db.family /\ callers[c].commitment = <<db.rows, db.rows>>

\* A table to be created or a name to be archived under must be free, and what is
\* archived must be what was committed to.
Archives(c) ==
  /\ callers[c].family = db.family
  /\ callers[c].family # "EMPTY" => callers[c].commitment = <<db.rows, db.rows>>

Migrated(c) ==
  [db EXCEPT
     !.family = "ACTIVE_V9", !.rows = 0,
     !.archive = IF callers[c].family = "EMPTY" THEN NoContent
                 ELSE [family |-> db.family, rows |-> db.rows],
     !.history = Append(@, [family |-> callers[c].family,
                            commitment |-> callers[c].commitment,
                            backup |-> callers[c].backup])]

\* Mutant: a migration that is refused puts its backup back.
MigrateOrRestore(c) ==
  /\ callers[c].pc = "lock"
  /\ IF Archives(c)
     THEN /\ db' = Migrated(c)
          /\ callers' = [callers EXCEPT ![c] = [Idle EXCEPT !.pc = "ready"]]
     ELSE /\ Refuse(c)
          /\ db' = IF callers[c].family = "EMPTY" THEN db
                   ELSE [db EXCEPT !.family = callers[c].family, !.archive = NoContent,
                                   !.rows = callers[c].backup.rows, !.history = <<>>]
  /\ UNCHANGED <<backups, written, faults>>

Migrate(c) ==
  /\ callers[c].pc = "lock"
  /\ IF Archives(c)
     THEN /\ db' = Migrated(c)
          /\ callers' = [callers EXCEPT ![c] = [Idle EXCEPT !.pc = "ready"]]
     ELSE Refuse(c) /\ UNCHANGED db
  /\ UNCHANGED <<backups, written, faults>>

\* _verify_active_schema: the active schema is there, and nothing is migrated.
VerifyActive(c) ==
  /\ callers[c].pc = "verify_active"
  /\ IF db.family = "ACTIVE_V9"
     THEN callers' = [callers EXCEPT ![c] = [Idle EXCEPT !.pc = "ready"]]
     ELSE Refuse(c)
  /\ UNCHANGED <<db, backups, written, faults>>

-----------------------------------------------------------------------------
(* Failures, and the programs that write.                                  *)

\* A lock is not granted in time, or SQLite or the file system fails.
Fails(c) ==
  /\ Running(c) /\ faults < MaxFaults
  /\ faults' = faults + 1
  /\ Refuse(c)
  /\ UNCHANGED <<db, backups, written>>

\* The process dies; what it had not committed is gone.
Dies(c) ==
  /\ callers[c].pc # "idle" /\ faults < MaxFaults
  /\ faults' = faults + 1
  /\ callers' = [callers EXCEPT ![c] = Idle]
  /\ UNCHANGED <<db, backups, written>>

\* The program of the old version makes its schema in an empty database.
OldProgramInitializes ==
  /\ db.family = "EMPTY" /\ "MAIN_V8" \in SourceFamilies
  /\ db' = [db EXCEPT !.family = "MAIN_V8"]
  /\ UNCHANGED <<backups, callers, written, faults>>

OldProgramWrites ==
  /\ db.family \in LegacyFamilies /\ written.old < MaxRows
  /\ db' = [db EXCEPT !.rows = @ + 1]
  /\ written' = [written EXCEPT !.old = @ + 1]
  /\ UNCHANGED <<backups, callers, faults>>

\* A program that was told the database is ready writes to the active tables.
NewProgramWrites(c) ==
  /\ callers[c].pc = "ready" /\ written.new < MaxRows
  /\ db' = [db EXCEPT !.rows = @ + 1]
  /\ written' = [written EXCEPT !.new = @ + 1]
  /\ UNCHANGED <<backups, callers, faults>>

Advance(c) ==
  \/ Begin(c)
  \/ ReadTables(c)
  \/ ReadVersion(c)
  \/ ValidateShape(c)
  \/ ReadSourceTables(c)
  \/ CommitEvents(c)
  \/ CommitApprovals(c)
  \/ VerifyApprovals(c)
  \/ VerifyEvents(c)
  \/ CreateBackup(c)
  \/ Migrate(c)
  \/ VerifyActive(c)

MigrationNext ==
  \/ \E c \in Callers : Advance(c) \/ Fails(c) \/ Dies(c) \/ NewProgramWrites(c)
  \/ OldProgramInitializes
  \/ OldProgramWrites

MigrationSpec == MigrationInit /\ [][MigrationNext]_migrationVars

\* ensure_active_schema is straight-line code, and it is called again and again: by the
\* readiness probe and by whoever restarts a failed process.
MigrationFairSpec ==
  MigrationSpec /\ \A c \in Callers : WF_migrationVars(Advance(c))

-----------------------------------------------------------------------------
(* Properties.                                                             *)

Contents == [family : Families, rows : Nat \cup {NoRows}]
Commitments == (Nat \cup {NoRows}) \X (Nat \cup {NoRows})

\* Every variable has its type.
MigrationTypeOK ==
  /\ db \in [family : Families, intact : BOOLEAN, rows : Nat, archive : Contents,
             history : Seq([family : Families, commitment : Commitments,
                            backup : Contents])]
  /\ backups \subseteq Contents
  /\ callers \in [Callers ->
       [pc : {"idle", "tables", "version", "shape", "source", "events", "approvals",
              "verify", "verify_events", "backup", "lock", "verify_active", "ready",
              "refused"},
        family : Families, commitment : Commitments, verified : Nat \cup {NoRows},
        backup : Contents]]
  /\ written \in [old : Nat, new : Nat]
  /\ faults \in Nat

\* Every transaction the old program committed is in its tables or in the archive, and
\* every one of the new program is in the active tables: two callers, a writer in
\* between or a death at any step lose nothing.
NothingIsLost ==
  IF db.family = "ACTIVE_V9"
  THEN /\ db.rows = written.new
       /\ IF db.archive = NoContent THEN written.old = 0 ELSE db.archive.rows = written.old
  ELSE db.rows = written.old

\* A database is migrated once.  What migration_history says of it is true: the archive
\* is the family and the content committed to, and the backup it names holds exactly
\* what was archived, though the three were read at different times.
HistoryIsTrue ==
  /\ Len(db.history) = IF db.family = "ACTIVE_V9" THEN 1 ELSE 0
  /\ \A n \in 1..Len(db.history) :
       LET entry == db.history[n] IN
       /\ entry.backup = db.archive
       /\ entry.family \in LegacyFamilies =>
            /\ db.archive.family = entry.family
            /\ entry.backup \in backups
            /\ entry.commitment = <<db.archive.rows, db.archive.rows>>

\* A database whose records do not verify is left as it is, whoever asks how often.
CorruptIsLeftAlone == ~db.intact => db.family \in LegacyFamilies

\* A caller is told that the database is ready only when the active schema is there.
ReadyMeansActive == \A c \in Callers : callers[c].pc = "ready" => db.family = "ACTIVE_V9"

\* No step leaves the active schema, touches the archive or the history, or removes a
\* row; a second start changes nothing.
ActiveIsForever ==
  [][db.family = "ACTIVE_V9" =>
       /\ db'.family = "ACTIVE_V9"
       /\ db'.archive = db.archive /\ db'.history = db.history
       /\ db'.rows >= db.rows]_migrationVars

\* A known database whose records verify becomes active, though callers refuse each
\* other, stumble over the writes of the old program, fail and die, finitely often.
EventuallyActive ==
  (db.intact /\ db.family # "INCOMPATIBLE") ~> db.family = "ACTIVE_V9"
=============================================================================
