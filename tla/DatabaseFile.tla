----------------------------- MODULE DatabaseFile -----------------------------
(***************************************************************************)
(* One SQLite file (database.py) and the programs that open it: the server *)
(* creates it under another name and renames it, or finds it and upgrades  *)
(* it version by version after a copy; a migration script                  *)
(* (misc/migrate_*_db.py) creates it and fills it from an old database.    *)
(* Scripts run in autocommit mode: every statement is a commit, and the    *)
(* process may die after any of them.                                      *)
(***************************************************************************)
EXTENDS Integers, FiniteSets, Sequences

CONSTANTS
    Target,         \* CHANNELDB_TARGET_VERSION and its like
    Upgraders,      \* versions with a script upgrade-<name>-to-v<n>.sql
    Statements,     \* Statements[v]: CREATE TABLEs that version v adds
    MigrationOrder, \* the tables a migration script copies, in its order
    References,     \* pairs <<t, u>>: rows of t refer to rows of u
    None            \* no such file

ASSUME VersionAssumption ==
    /\ Target \in Nat \ {0}
    /\ Upgraders \subseteq 2..Target
    /\ Statements \in [1..Target -> Nat \ {0}]

VARIABLES
    file,       \* the database file, or None
    temp,       \* the file of _get_temporary_dbfile that is being filled, or None
    backup,     \* backup[v]: the file <dbfile>-backup-v<v>, or None
    role,       \* what runs: "server" or "migrate"
    phase,      \* where it is; "off" when nothing runs
    version,    \* _get_db's version
    statement,  \* the statement of the upgrader that is next
    copied      \* tables copied by the open transaction of a migration

fileVars == <<file, temp, backup, role, phase, version, statement, copied>>

\* The tables of a database of version v.
Schema(v) == UNION {{<<w, i>> : i \in 1..Statements[w]} : w \in 1..v}

RowTable == {MigrationOrder[i] : i \in DOMAIN MigrationOrder}

\* Every migration script copies a table once, and after those it refers to.
ASSUME OrderAssumption ==
    /\ MigrationOrder \in Seq(RowTable)
    /\ \A i, j \in DOMAIN MigrationOrder : MigrationOrder[i] = MigrationOrder[j] => i = j
    /\ \A p \in References, i \in DOMAIN MigrationOrder :
          MigrationOrder[i] = p[1] => \E j \in 1..(i - 1) : MigrationOrder[j] = p[2]

\* version: the row of the version table; 0 if there is no telling, because the
\* row is missing, the table is, the file is not a database, or it fails the
\* foreign key check.  rows: the tables that have their rows.
Database == [version : Nat, tables : SUBSET Schema(Target), rows : SUBSET RowTable]

\* None is no file.
ASSUME NoneAssumption == None \notin Database

Empty == [version |-> 0, tables |-> {}, rows |-> {}]

OfVersion(v) == [version |-> v, tables |-> Schema(v), rows |-> RowTable]

\* A database that has been in use, of any version, also one that is to come,
\* or something else.
FileInit ==
    /\ file \in {None, Empty} \union {OfVersion(v) : v \in 1..Target}
                 \union {[OfVersion(Target) EXCEPT !.version = Target + 1]}
    /\ temp = None
    /\ backup = [v \in 1..Target |-> None]
    /\ role = "server"
    /\ phase = "off"
    /\ version = 0
    /\ statement = 1
    /\ copied = {}

-----------------------------------------------------------------------------
\* As far as os.path.exists.
Launch(program) ==
    /\ phase = "off"
    /\ role' = program
    /\ IF file = None
         THEN temp' = Empty /\ phase' = "creating"
         ELSE /\ phase' = IF program = "server" THEN "opening" ELSE "already exists"
              /\ temp' = temp
    /\ UNCHANGED <<file, backup, version, statement, copied>>

\* create_or_upgrade_channel_db and its like: an existing file is opened.
ServerStarts == Launch("server")

\* create_channel_db, create_usage_db: an existing file is refused.
MigrationStarts == Launch("migrate")

\* One statement of the schema.
CreateTable ==
    /\ phase = "creating"
    /\ \E t \in Schema(Target) \ temp.tables :
          temp' = [temp EXCEPT !.tables = @ \union {t}]
    /\ UNCHANGED <<file, backup, role, phase, version, statement, copied>>

MayRename == temp.tables = Schema(Target) /\ temp.version = Target

CreateVersion ==
    /\ phase = "creating"
    /\ temp.tables = Schema(Target)
    /\ temp.version = 0
    /\ temp' = [temp EXCEPT !.version = Target]
    /\ UNCHANGED <<file, backup, role, phase, version, statement, copied>>

\* os.rename, and the file is opened.
Rename ==
    /\ phase = "creating"
    /\ MayRename
    /\ file' = temp
    /\ temp' = None
    /\ phase' = IF role = "server" THEN "opening" ELSE "copying"
    /\ UNCHANGED <<backup, role, version, statement, copied>>

-----------------------------------------------------------------------------
\* SELECT version FROM version.  A copy begins by emptying the file it writes.
ReadVersion ==
    /\ phase = "opening"
    /\ version' = file.version
    /\ statement' = 1
    /\ \/ /\ file.version \notin 1..Target
          /\ phase' = "refused"
          /\ backup' = backup
       \/ /\ file.version = Target
          /\ phase' = "open"
          /\ backup' = backup
       \/ /\ file.version \in 1..(Target - 1)
          /\ phase' = "backing up"
          /\ backup' = [backup EXCEPT ![file.version] = Empty]
    /\ UNCHANGED <<file, temp, role, copied>>

\* Fault: the copy is cut short and nobody notices.
CopiedInPart == Empty

Copied == file

\* shutil.copy.
BackUp ==
    /\ phase = "backing up"
    /\ backup' = [backup EXCEPT ![version] = Copied]
    /\ phase' = "upgrading"
    /\ UNCHANGED <<file, temp, role, version, statement, copied>>

\* Fault: the script of the version the file already has.
SameUpgrader == version

Upgrader == version + 1

\* get_upgrader raises: "left at" the version it has.
NoUpgrader ==
    /\ phase = "upgrading"
    /\ Upgrader \notin Upgraders
    /\ phase' = "refused"
    /\ UNCHANGED <<file, temp, backup, role, version, statement, copied>>

\* CREATE TABLE raises if the table exists.
UpgradeTable ==
    /\ phase = "upgrading"
    /\ Upgrader \in Upgraders
    /\ statement <= Statements[Upgrader]
    /\ LET t == <<Upgrader, statement>>
       IN IF t \in file.tables
            THEN phase' = "refused" /\ UNCHANGED <<file, statement>>
            ELSE /\ file' = [file EXCEPT !.tables = @ \union {t}]
                 /\ statement' = statement + 1
                 /\ phase' = phase
    /\ UNCHANGED <<temp, backup, role, version, copied>>

\* Fault: the version is recorded before the tables are there.
DueFirst == statement = 1

\* The last two statements of a script replace the row of version.
Due == statement = Statements[Upgrader] + 1

DeleteVersion ==
    /\ phase = "upgrading"
    /\ Upgrader \in Upgraders
    /\ Due
    /\ file' = [file EXCEPT !.version = 0]
    /\ phase' = "renumbering"
    /\ UNCHANGED <<temp, backup, role, version, statement, copied>>

InsertVersion ==
    /\ phase = "renumbering"
    /\ file' = [file EXCEPT !.version = Upgrader]
    /\ version' = Upgrader
    /\ statement' = 1
    /\ phase' = IF Upgrader = Target THEN "open" ELSE "upgrading"
    /\ UNCHANGED <<temp, backup, role, copied>>

-----------------------------------------------------------------------------
\* Fault: every table is committed by itself.
RowsAfterCopying(t) == file.rows \union {t}

RowsWhileCopying(t) == file.rows

NextTable == MigrationOrder[Cardinality(copied) + 1]

\* INSERT of the rows of the next table, in a transaction: raises if a row
\* refers to one that is not there.
CopyTable ==
    /\ phase = "copying"
    /\ copied # RowTable
    /\ IF \E p \in References : p[1] = NextTable /\ p[2] \notin copied
         THEN phase' = "failed" /\ UNCHANGED <<file, copied>>
         ELSE /\ copied' = copied \union {NextTable}
              /\ file' = [file EXCEPT !.rows = RowsWhileCopying(NextTable)]
              /\ phase' = phase
    /\ UNCHANGED <<temp, backup, role, version, statement>>

CommitCopy ==
    /\ phase = "copying"
    /\ copied = RowTable
    /\ file' = [file EXCEPT !.rows = copied]
    /\ phase' = "migrated"
    /\ UNCHANGED <<temp, backup, role, version, statement, copied>>

\* The process ends, wherever it is.  The temporary file is never looked at again.
Exit ==
    /\ phase # "off"
    /\ phase' = "off"
    /\ temp' = None
    /\ version' = 0
    /\ statement' = 1
    /\ copied' = {}
    /\ UNCHANGED <<file, backup, role>>

FileNext ==
    \/ ServerStarts
    \/ MigrationStarts
    \/ CreateTable
    \/ CreateVersion
    \/ Rename
    \/ ReadVersion
    \/ BackUp
    \/ NoUpgrader
    \/ UpgradeTable
    \/ DeleteVersion
    \/ InsertVersion
    \/ CopyTable
    \/ CommitCopy
    \/ Exit

FileSpec == FileInit /\ [][FileNext]_fileVars

-----------------------------------------------------------------------------
\* A database that is exactly of its version.
Whole(db) ==
    /\ db # None
    /\ db.version \in 1..Target
    /\ db.tables = Schema(db.version)

\* database.py:122, "if version != target_version": the server works with the
\* schema it was written for.  Whatever was cut short before, creation, copy,
\* upgrade or migration, a file without all the tables of the target version is
\* never taken for one.
OpenedIsCurrent ==
    phase = "open" => file.version = Target /\ file.tables = Schema(Target)

\* When the server refuses a file, the file is broken, from another time, or has
\* no scripts to the target: a whole file is always upgraded, also one that was
\* left between two versions by an upgrade of several.
RefusesOnlyBroken ==
    phase = "refused" =>
        ~(Whole(file) /\ (file.version + 1)..Target \subseteq Upgraders)

\* database.py:106 "storing backup of v%d db": once an upgrade has changed the
\* file, there is a whole database of an earlier version to go back to.
UpgradeHasBackup ==
    phase \in {"upgrading", "renumbering"} /\ statement > 1 =>
        \E v \in 1..version : Whole(backup[v]) /\ backup[v].version = v

\* database.py:81 "If anything goes wrong, nothing is left at the ``dbfile`` path":
\* a migration fills a whole database.  It copies all the rows or none, and in an
\* order the foreign keys allow.
MigratesAllOrNothing ==
    /\ phase \in {"copying", "migrated"} => file.version = Target /\ Whole(file)
    /\ file # None => file.rows \in {{}, RowTable}
    /\ phase = "migrated" => file.rows = RowTable
    /\ phase # "failed"

\* The log line again, of every moment after: once there has been a backup, the
\* file or a backup is a whole database.
BackupOutlivesRetries ==
    (\E v \in 1..Target : backup[v] # None) =>
        Whole(file) \/ \E v \in 1..Target : Whole(backup[v])
=============================================================================
