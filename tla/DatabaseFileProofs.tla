-------------------------- MODULE DatabaseFileProofs --------------------------
(***************************************************************************)
(* What an opened database file is, wherever programs were cut short       *)
(* before, for any number of versions and of statements per upgrade.       *)
(*                                                                         *)
(* An interrupted upgrade leaves the tables of a version and the first few *)
(* of the next one (Shape).  A program that goes on past the first         *)
(* statement therefore found none of them: its file was whole, and so is   *)
(* the copy it made.                                                       *)
(***************************************************************************)
EXTENDS DatabaseFile, FiniteSetTheorems, TLAPS

\* The tables of version v and the first k that the next upgrade adds.
Prefix(v, k) == Schema(v) \union {<<v + 1, i>> : i \in 1..k}

IsDatabase(db) ==
    /\ db = [version |-> db.version, tables |-> db.tables, rows |-> db.rows]
    /\ db.version \in Nat

Shape(db) ==
    /\ IsDatabase(db)
    /\ db.version \in 1..Target => \E k \in Nat : db.tables = Prefix(db.version, k)
    /\ db.version = Target => db.tables = Schema(Target)

\* The backup of version v is a database of version v.
Backed(v) == Whole(backup[v]) /\ backup[v].version = v

FilesOK ==
    /\ file # None => Shape(file)
    /\ phase = "creating" => temp \in Database
    /\ backup = [v \in 1..Target |-> backup[v]]

UpgradingOK ==
    phase \in {"backing up", "upgrading"} =>
        /\ Shape(file)
        /\ version \in 1..(Target - 1)
        /\ file.version = version
        /\ statement \in Nat \ {0}
        /\ phase = "backing up" => statement = 1 /\ file # None
        /\ statement > 1 => file.tables = Prefix(version, statement - 1)

RenumberingOK ==
    phase = "renumbering" =>
        /\ Shape(file)
        /\ version \in 1..(Target - 1)
        /\ file.tables = Schema(version + 1)

BackupOK ==
    /\ phase = "upgrading" =>
          \/ \E v \in 1..version : Backed(v)
          \/ statement = 1 /\ backup[version] = file /\ file # None
    /\ phase = "renumbering" => \E v \in 1..version : Backed(v)

Opened ==
    /\ phase = "opening" => file # None
    /\ phase = "copying" => Shape(file)
    /\ OpenedIsCurrent

IInv == FilesOK /\ UpgradingOK /\ RenumberingOK /\ BackupOK /\ Opened /\ RefusesOnlyBroken

-----------------------------------------------------------------------------
(* The tables of versions. *)

LEMMA SchemaMember ==
    ASSUME NEW v \in 1..Target, NEW t
    PROVE  t \in Schema(v) <=> \E w \in 1..v : \E i \in 1..Statements[w] : t = <<w, i>>
BY DEF Schema

LEMMA SchemaGrows ==
    ASSUME NEW v \in 1..(Target - 1)
    PROVE  Schema(v + 1) = Prefix(v, Statements[v + 1])
<1> USE VersionAssumption
<1>1. v \in 1..Target /\ v + 1 \in 1..Target
  OBVIOUS
<1>2. ASSUME NEW t \in Schema(v + 1) PROVE t \in Prefix(v, Statements[v + 1])
  <2>1. PICK w \in 1..(v + 1) : \E i \in 1..Statements[w] : t = <<w, i>>
    BY <1>1, SchemaMember
  <2>2. CASE w = v + 1
    BY <2>1, <2>2 DEF Prefix
  <2>3. CASE w # v + 1
    <3>1. w \in 1..v
      BY <2>3
    <3>2. t \in Schema(v)
      BY <1>1, <2>1, <3>1, SchemaMember
    <3> QED BY <3>2 DEF Prefix
  <2> QED BY <2>2, <2>3
<1>3. ASSUME NEW t \in Prefix(v, Statements[v + 1]) PROVE t \in Schema(v + 1)
  <2>1. CASE t \in Schema(v)
    <3>1. PICK w \in 1..v : \E i \in 1..Statements[w] : t = <<w, i>>
      BY <1>1, <2>1, SchemaMember
    <3>2. w \in 1..(v + 1)
      OBVIOUS
    <3> QED BY <1>1, <3>1, <3>2, SchemaMember
  <2>2. ASSUME NEW i \in 1..Statements[v + 1], t = <<v + 1, i>> PROVE t \in Schema(v + 1)
    <3>1. v + 1 \in 1..(v + 1)
      OBVIOUS
    <3> QED BY <1>1, <2>2, <3>1, SchemaMember
  <2> QED BY <1>3, <2>1, <2>2 DEF Prefix
<1> QED BY <1>2, <1>3

LEMMA NotInSchema ==
    ASSUME NEW v \in 1..Target, NEW i \in Nat
    PROVE  <<v + 1, i>> \notin Schema(v)
<1>1. ASSUME NEW t \in Schema(v) PROVE t # <<v + 1, i>>
  <2>1. PICK w \in 1..v : \E j \in 1..Statements[w] : t = <<w, j>>
    BY SchemaMember
  <2>2. w # v + 1
    OBVIOUS
  <2> QED BY <2>1, <2>2
<1> QED BY <1>1

LEMMA PrefixZero ==
    ASSUME NEW v \in 1..Target
    PROVE  Prefix(v, 0) = Schema(v)
<1>1. {<<v + 1, i>> : i \in 1..0} = {}
  OBVIOUS
<1> QED BY <1>1 DEF Prefix

LEMMA PrefixNext ==
    ASSUME NEW v \in 1..Target, NEW i \in Nat \ {0}
    PROVE  Prefix(v, i - 1) \union {<<v + 1, i>>} = Prefix(v, i)
<1>1. 1..i = (1..(i - 1)) \union {i}
  OBVIOUS
<1> QED BY <1>1 DEF Prefix

LEMMA PrefixFirst ==
    ASSUME NEW v \in 1..Target, NEW k \in Nat \ {0}
    PROVE  <<v + 1, 1>> \in Prefix(v, k)
<1>1. 1 \in 1..k
  OBVIOUS
<1> QED BY <1>1 DEF Prefix

-----------------------------------------------------------------------------
(* The invariant. *)

LEMMA EmptyIsDatabase == Empty \in Database /\ Shape(Empty)
BY VersionAssumption DEF Shape, IsDatabase, Empty, Database

LEMMA VersionShape == ASSUME NEW v \in 1..Target PROVE Shape(OfVersion(v))
<1>1. Schema(v) = Prefix(v, 0)
  BY PrefixZero
<1> QED BY <1>1, VersionAssumption DEF Shape, IsDatabase, OfVersion

LEMMA InitIInv == FileInit => IInv
<1> SUFFICES ASSUME FileInit PROVE IInv
  OBVIOUS
<1>1. file # None => Shape(file)
  <2>1. Shape([OfVersion(Target) EXCEPT !.version = Target + 1])
    BY VersionAssumption DEF Shape, IsDatabase, OfVersion
  <2> QED BY <2>1, EmptyIsDatabase, VersionShape DEF FileInit
<1>2. FilesOK
  BY <1>1 DEF FilesOK, FileInit
<1> QED BY <1>2 DEF IInv, FileInit, UpgradingOK, RenumberingOK, BackupOK, Opened,
               OpenedIsCurrent, RefusesOnlyBroken

\* Files and backups as they are, and a phase that claims nothing.
LEMMA IdleStep ==
    ASSUME IInv, UNCHANGED <<file, backup>>,
           phase' \in {"off", "already exists", "creating", "failed", "copying", "migrated"},
           phase' = "creating" => temp' \in Database,
           phase' = "copying" => Shape(file)
    PROVE  IInv'
<1>1. \A db : Shape(db)' = Shape(db)
  BY DEF Shape, IsDatabase
<1> QED BY <1>1 DEF IInv, FilesOK, UpgradingOK, RenumberingOK, BackupOK, Opened,
               OpenedIsCurrent, RefusesOnlyBroken

LEMMA LaunchStep ==
    ASSUME IInv, NEW program, Launch(program)
    PROVE  IInv'
<1>1. CASE phase' # "opening"
  BY <1>1, IdleStep, EmptyIsDatabase DEF Launch
<1>2. CASE phase' = "opening"
  BY <1>2 DEF Launch, IInv, FilesOK, UpgradingOK, RenumberingOK, BackupOK, Opened,
              OpenedIsCurrent, RefusesOnlyBroken
<1> QED BY <1>1, <1>2

LEMMA CreateStep ==
    ASSUME IInv, CreateTable \/ CreateVersion
    PROVE  IInv'
<1>1. temp' \in Database
  <2>1. temp \in Database
    BY DEF CreateTable, CreateVersion, IInv, FilesOK
  <2> QED BY <2>1, VersionAssumption DEF CreateTable, CreateVersion, Database
<1> QED BY <1>1, IdleStep DEF CreateTable, CreateVersion

LEMMA RenameStep ==
    ASSUME IInv, Rename
    PROVE  IInv'
<1>1. Shape(temp)
  <2>0. Target \in 1..Target
    BY VersionAssumption
  <2>1. Schema(Target) = Prefix(Target, 0)
    BY <2>0, PrefixZero
  <2>2. IsDatabase(temp)
    BY DEF Rename, IInv, FilesOK, Database, IsDatabase
  <2> QED BY <2>1, <2>2 DEF Rename, MayRename, Shape
<1>2. file' = temp /\ phase' \in {"opening", "copying"} /\ backup' = backup
  BY DEF Rename
<1>3. temp # None
  BY NoneAssumption DEF Rename, IInv, FilesOK
<1> QED BY <1>1, <1>2, <1>3 DEF IInv, FilesOK, UpgradingOK, RenumberingOK, BackupOK,
               Opened, OpenedIsCurrent, RefusesOnlyBroken
LEMMA ReadVersionStep ==
    ASSUME IInv, ReadVersion
    PROVE  IInv'
<1>1. file # None /\ Shape(file) /\ file' = file /\ version' = file.version /\ statement' = 1
  BY DEF ReadVersion, IInv, FilesOK, Opened
<1>2. Shape(file)'
  BY <1>1 DEF Shape, IsDatabase
<1>3. ASSUME file.version \notin 1..Target, phase' = "refused", backup' = backup
      PROVE  IInv'
  BY <1>1, <1>2, <1>3 DEF IInv, FilesOK, UpgradingOK, RenumberingOK, BackupOK,
     Opened, OpenedIsCurrent, RefusesOnlyBroken, Whole
<1>4. ASSUME file.version = Target, phase' = "open", backup' = backup
      PROVE  IInv'
  <2>1. file.tables = Schema(Target)
    BY <1>1, <1>4 DEF Shape
  <2> QED BY <1>1, <1>2, <1>4, <2>1 DEF IInv, FilesOK, UpgradingOK, RenumberingOK,
                 BackupOK, Opened, OpenedIsCurrent, RefusesOnlyBroken
<1>5. ASSUME file.version \in 1..(Target - 1), phase' = "backing up",
             backup' = [backup EXCEPT ![file.version] = Empty]
      PROVE  IInv'
  <2>1. backup = [v \in 1..Target |-> backup[v]]
    BY DEF IInv, FilesOK
  <2>2. backup' = [v \in 1..Target |-> backup'[v]]
    BY <1>5, <2>1
  <2>3. FilesOK'
    BY <1>1, <1>2, <1>5, <2>2 DEF FilesOK
  <2>4. UpgradingOK'
    <3>1. statement' = 1 /\ version' = file'.version /\ version' \in 1..(Target - 1)
      BY <1>1, <1>5
    <3>2. file' # None /\ statement' \in Nat \ {0} /\ ~(statement' > 1)
      BY <1>1, <3>1
    <3> QED BY <1>2, <3>1, <3>2 DEF UpgradingOK
  <2> QED BY <1>1, <1>5, <2>3, <2>4 DEF IInv, RenumberingOK, BackupOK, Opened,
                 OpenedIsCurrent, RefusesOnlyBroken
<1> QED BY <1>3, <1>4, <1>5 DEF ReadVersion

LEMMA BackUpStep ==
    ASSUME IInv, BackUp
    PROVE  IInv'
<1>1. /\ file # None /\ file' = file
      /\ Shape(file)
      /\ version \in 1..(Target - 1) /\ version' = version
      /\ file.version = version
      /\ statement = 1 /\ statement' = 1
      /\ phase' = "upgrading"
  BY DEF BackUp, IInv, UpgradingOK
<1>2. version \in 1..Target
  BY <1>1, VersionAssumption
<1>3. backup' = [backup EXCEPT ![version] = file] /\ backup = [v \in 1..Target |-> backup[v]]
  BY DEF BackUp, Copied, IInv, FilesOK
<1>4. backup' = [v \in 1..Target |-> backup'[v]] /\ backup'[version] = file
  BY <1>2, <1>3
<1>5. Shape(file)'
  BY <1>1 DEF Shape, IsDatabase
<1>6. FilesOK' /\ UpgradingOK'
  BY <1>1, <1>4, <1>5 DEF FilesOK, UpgradingOK
<1> QED BY <1>1, <1>4, <1>6 DEF IInv, RenumberingOK, BackupOK, Opened, OpenedIsCurrent,
               RefusesOnlyBroken

LEMMA NoUpgraderStep ==
    ASSUME IInv, NoUpgrader
    PROVE  IInv'
<1>1. /\ file' = file /\ backup' = backup
      /\ Shape(file)
      /\ version \in 1..(Target - 1)
      /\ file.version = version
      /\ version + 1 \notin Upgraders
      /\ phase' = "refused"
  BY DEF NoUpgrader, Upgrader, IInv, UpgradingOK
<1>2. file.version + 1 \in (file.version + 1)..Target
  BY <1>1, VersionAssumption
<1>3. Shape(file)'
  BY <1>1 DEF Shape, IsDatabase
<1> QED BY <1>1, <1>2, <1>3 DEF IInv, FilesOK, UpgradingOK, RenumberingOK, BackupOK,
               Opened, OpenedIsCurrent, RefusesOnlyBroken

\* What the file is while its upgrader runs.
LEMMA FileWhileUpgrading ==
    ASSUME IInv, phase = "upgrading"
    PROVE  /\ Shape(file)
           /\ version \in 1..(Target - 1)
           /\ version \in 1..Target
           /\ version + 1 \in 1..Target
           /\ file.version = version
           /\ statement \in Nat \ {0}
           /\ statement > 1 => file.tables = Prefix(version, statement - 1)
           /\ backup = [v \in 1..Target |-> backup[v]]
BY VersionAssumption DEF IInv, UpgradingOK, FilesOK
LEMMA UpgradeTableStep ==
    ASSUME IInv, UpgradeTable
    PROVE  IInv'
<1> DEFINE t == <<version + 1, statement>>
<1>1. phase = "upgrading"
  BY DEF UpgradeTable
<1>2. PICK k \in Nat : /\ file.tables = Prefix(version, k)
                       /\ statement > 1 => k = statement - 1
  <2>1. CASE statement > 1
    <3>1. statement - 1 \in Nat
      BY <1>1, FileWhileUpgrading
    <3> QED BY <1>1, <2>1, <3>1, FileWhileUpgrading
  <2>2. CASE ~(statement > 1)
    BY <1>1, <2>2, FileWhileUpgrading DEF Shape
  <2> QED BY <2>1, <2>2
<1>3. version \in 1..Target /\ statement \in Nat \ {0} /\ file.version = version
  BY <1>1, FileWhileUpgrading
<1>4. CASE t \in file.tables
  <2>1. phase' = "refused" /\ file' = file /\ backup' = backup
    BY <1>4 DEF UpgradeTable, Upgrader
  <2>2. file.tables # Schema(version)
    BY <1>3, <1>4, NotInSchema
  <2>3. Shape(file)'
    BY <1>1, <2>1, FileWhileUpgrading DEF Shape, IsDatabase
  <2> QED BY <1>3, <2>1, <2>2, <2>3 DEF IInv, FilesOK, UpgradingOK, RenumberingOK, BackupOK,
                 Opened, OpenedIsCurrent, RefusesOnlyBroken, Whole
<1>5. CASE t \notin file.tables
  <2>1. /\ file' = [file EXCEPT !.tables = @ \union {t}]
        /\ statement' = statement + 1
        /\ phase' = "upgrading" /\ version' = version /\ backup' = backup
    BY <1>1, <1>5 DEF UpgradeTable, Upgrader
  <2>2. k = statement - 1
    <3>1. CASE statement = 1
      <4>1. <<version + 1, 1>> \notin Prefix(version, k)
        BY <1>2, <1>5, <3>1
      <4>2. k \notin Nat \ {0}
        BY <1>3, <4>1, PrefixFirst
      <4> QED BY <3>1, <4>2
    <3>2. CASE statement > 1
      BY <1>2, <3>2
    <3> QED BY <1>3, <3>1, <3>2
  <2>3. file.tables \union {t} = Prefix(version, statement)
    BY <1>2, <1>3, <2>2, PrefixNext
  <2>4. /\ file' = [version |-> version, tables |-> Prefix(version, statement), rows |-> file.rows]
        /\ Shape(file)
    BY <1>1, <1>3, <2>1, <2>3, FileWhileUpgrading DEF Shape, IsDatabase
  <2>5. file'.version = version /\ file'.tables = Prefix(version, statement) /\ IsDatabase(file)'
    BY <1>3, <2>4 DEF IsDatabase
  <2>6. version \in 1..(Target - 1) /\ backup = [v \in 1..Target |-> backup[v]]
    BY <1>1, FileWhileUpgrading
  <2>7. Shape(file)'
    BY <1>3, <2>5, <2>6, VersionAssumption DEF Shape
  <2>8. FilesOK' /\ UpgradingOK'
    BY <1>3, <2>1, <2>5, <2>6, <2>7 DEF FilesOK, UpgradingOK
  <2>9. \E v \in 1..version : Backed(v)
    <3>1. CASE \E v \in 1..version : Backed(v)
      BY <3>1
    <3>2. CASE statement = 1 /\ backup[version] = file /\ file # None
      <4>1. file.tables = Schema(version)
        <5>1. k = 0
          BY <2>2, <3>2
        <5> QED BY <1>2, <1>3, <5>1, PrefixZero
      <4>2. Backed(version) /\ version \in 1..version
        BY <1>3, <3>2, <4>1 DEF Backed, Whole
      <4> QED BY <4>2
    <3> QED BY <1>1, <3>1, <3>2 DEF IInv, BackupOK
  <2>10. BackupOK'
    BY <2>1, <2>9 DEF BackupOK, Backed, Whole
  <2> QED BY <2>1, <2>8, <2>10 DEF IInv, RenumberingOK, Opened, OpenedIsCurrent,
                 RefusesOnlyBroken
<1> QED BY <1>4, <1>5

LEMMA DeleteVersionStep ==
    ASSUME IInv, DeleteVersion
    PROVE  IInv'
<1>1. phase = "upgrading" /\ statement = Statements[version + 1] + 1
  BY DEF DeleteVersion, Due, Upgrader
<1>2. Statements[version + 1] \in Nat \ {0}
  BY <1>1, FileWhileUpgrading, VersionAssumption
<1>3. file.tables = Schema(version + 1)
  <2>1. file.tables = Prefix(version, Statements[version + 1])
    BY <1>1, <1>2, FileWhileUpgrading
  <2> QED BY <1>1, <2>1, FileWhileUpgrading, SchemaGrows
<1>4. /\ file' = [file EXCEPT !.version = 0]
      /\ phase' = "renumbering" /\ version' = version /\ backup' = backup
  BY DEF DeleteVersion
<1>5. file' = [version |-> 0, tables |-> file.tables, rows |-> file.rows]
  BY <1>1, <1>4, FileWhileUpgrading DEF Shape, IsDatabase
<1>6. file'.tables = Schema(version + 1) /\ Shape(file)'
  BY <1>3, <1>5, VersionAssumption DEF Shape, IsDatabase
<1>7. \E v \in 1..version : Backed(v)
  BY <1>1, <1>2 DEF IInv, BackupOK
<1>8. (\E v \in 1..version : Backed(v))'
  BY <1>4, <1>7 DEF Backed, Whole
<1>9. FilesOK' /\ RenumberingOK'
  BY <1>1, <1>4, <1>6, FileWhileUpgrading DEF FilesOK, RenumberingOK
<1> QED BY <1>4, <1>8, <1>9 DEF IInv, UpgradingOK, BackupOK, Opened, OpenedIsCurrent,
               RefusesOnlyBroken

LEMMA InsertVersionStep ==
    ASSUME IInv, InsertVersion
    PROVE  IInv'
<1>1. /\ Shape(file)
      /\ version \in 1..(Target - 1)
      /\ version + 1 \in 1..Target
      /\ file.tables = Schema(version + 1)
      /\ backup = [v \in 1..Target |-> backup[v]]
  BY VersionAssumption DEF InsertVersion, IInv, RenumberingOK, FilesOK
<1>2. /\ file' = [file EXCEPT !.version = version + 1]
      /\ version' = version + 1 /\ statement' = 1 /\ backup' = backup
      /\ phase' = IF version + 1 = Target THEN "open" ELSE "upgrading"
  BY DEF InsertVersion, Upgrader
<1>3. file' = [version |-> version + 1, tables |-> Schema(version + 1), rows |-> file.rows]
  BY <1>1, <1>2 DEF Shape, IsDatabase
<1>4. file'.version = version + 1 /\ file'.tables = Schema(version + 1) /\ IsDatabase(file)'
  BY <1>1, <1>3 DEF IsDatabase
<1>5. Shape(file)'
  <2>1. Schema(version + 1) = Prefix(version + 1, 0)
    BY <1>1, PrefixZero
  <2> QED BY <1>4, <2>1 DEF Shape
<1>6. \E v \in 1..(version + 1) : Backed(v)
  <2>1. PICK v \in 1..version : Backed(v)
    BY DEF IInv, BackupOK, InsertVersion
  <2>2. v \in 1..(version + 1)
    BY <1>1
  <2> QED BY <2>1, <2>2
<1>7. (\E v \in 1..version : Backed(v))'
  BY <1>2, <1>6 DEF Backed, Whole
<1>8. FilesOK'
  BY <1>1, <1>2, <1>5 DEF FilesOK
<1>9. CASE version + 1 = Target
  BY <1>2, <1>4, <1>8, <1>9 DEF IInv, UpgradingOK, RenumberingOK, BackupOK, Opened,
     OpenedIsCurrent, RefusesOnlyBroken
<1>10. CASE version + 1 # Target
  <2>1. version + 1 \in 1..(Target - 1)
    BY <1>1, <1>10, VersionAssumption
  <2>2. UpgradingOK'
    BY <1>2, <1>4, <1>5, <1>10, <2>1 DEF UpgradingOK
  <2> QED BY <1>2, <1>7, <1>8, <1>10, <2>2 DEF IInv, RenumberingOK, BackupOK, Opened,
                 OpenedIsCurrent, RefusesOnlyBroken
<1> QED BY <1>9, <1>10
LEMMA CopyStep ==
    ASSUME IInv, CopyTable \/ CommitCopy
    PROVE  IInv'
<1>1. /\ Shape(file)
      /\ file' = file \/ \E rs : file' = [file EXCEPT !.rows = rs]
      /\ backup' = backup
      /\ phase' \in {"copying", "failed", "migrated"}
  BY DEF CopyTable, CommitCopy, IInv, Opened
<1>2. Shape(file)'
  BY <1>1 DEF Shape, IsDatabase
<1> QED BY <1>1, <1>2 DEF IInv, FilesOK, UpgradingOK, RenumberingOK, BackupOK, Opened,
               OpenedIsCurrent, RefusesOnlyBroken

LEMMA NextIInv == IInv /\ [FileNext]_fileVars => IInv'
<1> SUFFICES ASSUME IInv, [FileNext]_fileVars PROVE IInv'
  OBVIOUS
<1>1. CASE Exit
  BY <1>1, IdleStep DEF Exit
<1>2. CASE UNCHANGED fileVars
  BY <1>2 DEF fileVars, IInv, FilesOK, UpgradingOK, RenumberingOK, BackupOK, Backed, Whole,
     Opened, OpenedIsCurrent, RefusesOnlyBroken, Shape, IsDatabase
<1> QED BY <1>1, <1>2, LaunchStep, CreateStep, RenameStep, ReadVersionStep, BackUpStep,
           NoUpgraderStep, UpgradeTableStep, DeleteVersionStep, InsertVersionStep, CopyStep
           DEF FileNext, ServerStarts, MigrationStarts

LEMMA SpecIInv == FileSpec => []IInv
<1> QED BY InitIInv, NextIInv, PTL DEF FileSpec

-----------------------------------------------------------------------------
\* The server never works with a schema other than the one it was written for,
\* wherever any program was cut short before (database.py:90-125).
THEOREM OpenedFilesAreCurrent == FileSpec => []OpenedIsCurrent
<1>1. IInv => OpenedIsCurrent
  BY DEF IInv, Opened
<1> QED BY <1>1, SpecIInv, PTL

\* A whole file with a way up is never refused (database.py:104-123).
THEOREM RefusalsAreJustified == FileSpec => []RefusesOnlyBroken
<1>1. IInv => RefusesOnlyBroken
  BY DEF IInv
<1> QED BY <1>1, SpecIInv, PTL

\* An upgrade that has changed the file has a whole backup (database.py:104-118).
THEOREM UpgradesHaveBackups == FileSpec => []UpgradeHasBackup
<1>1. IInv => UpgradeHasBackup
  BY DEF IInv, BackupOK, UpgradeHasBackup, Backed
<1> QED BY <1>1, SpecIInv, PTL

-----------------------------------------------------------------------------
(* The migration. *)

\* The first n tables of the script.
FirstTables(n) == {MigrationOrder[i] : i \in 1..n}

\* A transaction that copies has copied the tables in their order, and the file
\* shows none of it.
Copying ==
    /\ Whole(file) /\ file.version = Target /\ file.rows = {}
    /\ IsFiniteSet(copied)
    /\ Cardinality(copied) \in 0..Len(MigrationOrder)
    /\ copied = FirstTables(Cardinality(copied))

CopyInv ==
    /\ phase \in {"opening", "backing up", "upgrading", "renumbering", "open"} => file # None
    /\ phase = "creating" => temp # None /\ temp.rows = {}
    /\ phase \in {"off", "creating"} => copied = {}
    /\ phase = "copying" => Copying
    /\ phase = "migrated" => Whole(file) /\ file.version = Target /\ file.rows = RowTable
    /\ file # None => file \in Database /\ file.rows \in {{}, RowTable}
    /\ phase # "failed"

LEMMA AllTables == FirstTables(Len(MigrationOrder)) = RowTable
BY OrderAssumption DEF FirstTables, RowTable

LEMMA SchemaSubset ==
    ASSUME NEW v \in 1..Target
    PROVE  Schema(v) \subseteq Schema(Target)
<1>1. Target \in 1..Target /\ \A w \in 1..v : w \in 1..Target
  BY VersionAssumption
<1> QED BY <1>1, SchemaMember

LEMMA InitCopy == FileInit => CopyInv
<1>1. Empty \in Database /\ Empty.rows = {}
  BY EmptyIsDatabase DEF Empty
<1>2. ASSUME NEW v \in 1..Target PROVE OfVersion(v) \in Database /\ OfVersion(v).rows = RowTable
  <2>1. Schema(v) \subseteq Schema(Target)
    BY SchemaSubset
  <2> QED BY <2>1 DEF OfVersion, Database
<1> DEFINE later == [OfVersion(Target) EXCEPT !.version = Target + 1]
<1>3. later \in Database /\ later.rows = RowTable
  BY VersionAssumption DEF OfVersion, Database
<1> HIDE DEF later
<1>4. FileInit => file = None \/ file = Empty \/ file = later
                     \/ \E v \in 1..Target : file = OfVersion(v)
  BY DEF FileInit, later
<1>5. FileInit => phase = "off" /\ copied = {}
  BY DEF FileInit
<1> QED BY <1>1, <1>2, <1>3, <1>4, <1>5 DEF CopyInv

\* A file is created without rows, and a copy begins on a whole one.
LEMMA CreateCopy ==
    ASSUME IInv, CopyInv,
           CreateTable \/ CreateVersion \/ Rename \/ \E program : Launch(program)
    PROVE  CopyInv'
<1>1. CASE \E program : Launch(program)
  <2>1. Empty # None /\ Empty.rows = {}
    BY EmptyIsDatabase, NoneAssumption DEF Empty
  <2>2. /\ phase = "off" /\ file' = file /\ copied' = copied
        /\ \/ file = None /\ temp' = Empty /\ phase' = "creating"
           \/ file # None /\ phase' \in {"opening", "already exists"}
    BY <1>1 DEF Launch
  <2> QED BY <2>1, <2>2 DEF CopyInv
<1>2. CASE CreateTable \/ CreateVersion
  <2>1. temp \in Database /\ temp.rows = {}
    BY <1>2 DEF CreateTable, CreateVersion, IInv, FilesOK, CopyInv
  <2>2. temp' \in Database /\ temp'.rows = {}
    BY <1>2, <2>1, VersionAssumption DEF CreateTable, CreateVersion, Database
  <2>3. phase = "creating" /\ phase' = "creating" /\ UNCHANGED <<file, copied>>
    BY <1>2 DEF CreateTable, CreateVersion
  <2> QED BY <2>2, <2>3, NoneAssumption DEF CopyInv
<1>3. CASE Rename
  <2>0. temp \in Database
    BY <1>3 DEF Rename, IInv, FilesOK
  <2>1. /\ file' = temp /\ temp # None /\ temp.rows = {} /\ copied' = {}
        /\ phase' \in {"opening", "copying"}
        /\ temp.tables = Schema(Target) /\ temp.version = Target
    BY <1>3 DEF Rename, MayRename, CopyInv
  <2>2. Whole(file)'
    BY <2>1, VersionAssumption DEF Whole
  <2>3. Cardinality(copied') = 0 /\ IsFiniteSet(copied') /\ 0 \in 0..Len(MigrationOrder)
    BY <2>1, FS_EmptySet, OrderAssumption
  <2>4. FirstTables(0) = {}
    BY DEF FirstTables
  <2>5. Copying'
    BY <2>1, <2>2, <2>3, <2>4 DEF Copying
  <2> QED BY <2>0, <2>1, <2>5 DEF CopyInv, Database
<1> QED BY <1>1, <1>2, <1>3

\* Opening and upgrading leave the rows alone.
LEMMA UpgradeCopy ==
    ASSUME IInv, CopyInv,
           ReadVersion \/ BackUp \/ NoUpgrader \/ UpgradeTable \/ DeleteVersion \/ InsertVersion
    PROVE  CopyInv'
<1>1. /\ file \in Database
      /\ phase' \in {"refused", "open", "backing up", "upgrading", "renumbering"}
  BY DEF ReadVersion, BackUp, NoUpgrader, UpgradeTable, DeleteVersion, InsertVersion, CopyInv
<1>2. \/ file' = file
      \/ \E t \in Schema(Target) : file' = [file EXCEPT !.tables = @ \union {t}]
      \/ \E v \in Nat : file' = [file EXCEPT !.version = v]
  <2>1. CASE ReadVersion \/ BackUp \/ NoUpgrader
    BY <2>1 DEF ReadVersion, BackUp, NoUpgrader
  <2>2. CASE UpgradeTable
    <3>1. /\ phase = "upgrading" /\ statement <= Statements[version + 1]
          /\ \/ file' = file
             \/ file' = [file EXCEPT !.tables = @ \union {<<version + 1, statement>>}]
      BY <2>2 DEF UpgradeTable, Upgrader
    <3>2. version + 1 \in 1..Target /\ statement \in 1..Statements[version + 1]
      BY <3>1, FileWhileUpgrading, VersionAssumption
    <3>3. <<version + 1, statement>> \in Schema(Target)
      BY <3>2, VersionAssumption, SchemaMember
    <3> QED BY <3>1, <3>3
  <2>3. CASE DeleteVersion \/ InsertVersion
    BY <2>3 DEF DeleteVersion, InsertVersion, Upgrader, IInv, RenumberingOK
  <2> QED BY <2>1, <2>2, <2>3
<1>3. file' \in Database /\ file'.rows = file.rows
  BY <1>1, <1>2 DEF Database
<1>4. file # None /\ file' # None
  BY <1>3, NoneAssumption
     DEF ReadVersion, BackUp, NoUpgrader, UpgradeTable, DeleteVersion, InsertVersion, CopyInv
<1> QED BY <1>1, <1>3, <1>4 DEF CopyInv

\* The next table refers to tables that have been copied.
LEMMA CopyTableCopy ==
    ASSUME IInv, CopyInv, CopyTable
    PROVE  CopyInv'
<1> DEFINE n == Cardinality(copied)
<1>1. Copying /\ copied # RowTable /\ Shape(file)
  BY DEF CopyTable, CopyInv, IInv, Opened
<1>2. n + 1 \in 1..Len(MigrationOrder) /\ n \in Nat
  BY <1>1, AllTables, OrderAssumption DEF Copying
<1>3. DOMAIN MigrationOrder = 1..Len(MigrationOrder) /\ Len(MigrationOrder) \in Nat
  BY OrderAssumption
<1>4. NextTable = MigrationOrder[n + 1]
  BY DEF NextTable
<1> HIDE DEF n
<1>5. ASSUME NEW p \in References, p[1] = NextTable PROVE p[2] \in copied
  <2>1. PICK j \in 1..((n + 1) - 1) : MigrationOrder[j] = p[2]
    BY <1>2, <1>3, <1>4, <1>5, OrderAssumption
  <2> QED BY <1>1, <1>2, <2>1 DEF Copying, FirstTables, n
<1>6. NextTable \notin copied
  <2>1. ASSUME NEW i \in 1..n PROVE MigrationOrder[i] # NextTable
    BY <1>2, <1>3, <1>4, OrderAssumption
  <2> QED BY <1>1, <2>1 DEF Copying, FirstTables, n
<1>7. /\ copied' = copied \union {NextTable}
      /\ file' = [file EXCEPT !.rows = file.rows]
      /\ phase' = "copying" /\ temp' = temp
  BY <1>5 DEF CopyTable, RowsWhileCopying
<1>8. file' = file
  BY <1>1, <1>7 DEF Shape, IsDatabase
<1>9. IsFiniteSet(copied') /\ Cardinality(copied') = n + 1
  BY <1>1, <1>6, <1>7, FS_AddElement DEF Copying, n
<1>10. copied' = FirstTables(n + 1)
  <2>1. 1..(n + 1) = 1..n \union {n + 1}
    BY <1>2
  <2>2. FirstTables(n + 1) = FirstTables(n) \union {NextTable}
    BY <1>4, <2>1 DEF FirstTables
  <2> QED BY <1>1, <1>7, <2>2 DEF Copying, n
<1>11. Copying'
  BY <1>1, <1>2, <1>8, <1>9, <1>10 DEF Copying, Whole
<1> QED BY <1>7, <1>8, <1>11 DEF CopyInv

\* The commit writes all the rows.
LEMMA CommitCopyCopy ==
    ASSUME IInv, CopyInv, CommitCopy
    PROVE  CopyInv'
<1>1. Copying /\ copied = RowTable /\ Shape(file)
  BY DEF CommitCopy, CopyInv, IInv, Opened
<1>2. file' = [file EXCEPT !.rows = RowTable] /\ phase' = "migrated"
  BY <1>1 DEF CommitCopy
<1>3. /\ file'.rows = RowTable /\ file'.version = file.version /\ file'.tables = file.tables
      /\ file' \in Database
  BY <1>1, <1>2 DEF CopyInv, Copying, Whole, Database
<1>4. Whole(file)' /\ file'.version = Target
  BY <1>1, <1>3, NoneAssumption DEF Copying, Whole
<1> QED BY <1>2, <1>3, <1>4 DEF CopyInv

LEMMA NextCopy == IInv /\ CopyInv /\ [FileNext]_fileVars => CopyInv'
<1> SUFFICES ASSUME IInv, CopyInv, [FileNext]_fileVars PROVE CopyInv'
  OBVIOUS
<1>1. CASE Exit
  BY <1>1 DEF Exit, CopyInv
<1>2. CASE UNCHANGED fileVars
  BY <1>2 DEF fileVars, CopyInv, Copying, Whole
<1> QED BY <1>1, <1>2, CreateCopy, UpgradeCopy, CopyTableCopy, CommitCopyCopy
           DEF FileNext, ServerStarts, MigrationStarts

\* A migration script that is killed at any statement leaves a whole database of
\* the target version with all rows or with none, never stumbles over a foreign
\* key, and one that ends has copied everything, for any tables in an order such
\* as the scripts' (migrate_channel_db.py:34-84, migrate_usage_db.py).
THEOREM MigrationsAreWhole == FileSpec => []MigratesAllOrNothing
<1>1. CopyInv => MigratesAllOrNothing
  BY DEF CopyInv, Copying, MigratesAllOrNothing
<1> QED BY <1>1, InitCopy, NextCopy, SpecIInv, PTL DEF FileSpec
=============================================================================
