--------------------------- MODULE PayoutDirProofs ---------------------------
(***************************************************************************)
(* For any number of processes, payouts and faults: a database in its      *)
(* final place is complete, has the schema its version says, and never     *)
(* loses what was recorded in it.                                          *)
(***************************************************************************)
EXTENDS PayoutDir, TLAPS

(* What an import finds and what a later command finds are in order.       *)
LEMMA InitDirInv == Init => DirInv
<1> USE DirAssumption, NoFileIsNoDatabase
<1>1. \A v \in 1 .. 3, u \in BOOLEAN : Stored(v, u) \in Database
  BY DEF Stored, Database
<1>2. SUFFICES ASSUME Init PROVE DirInv
  OBVIOUS
<1>3. TypeOK
  <2>1. dir \in Database \union {NoFile}
    BY <1>1, <1>2 DEF Init
  <2>2. made \in BOOLEAN
    BY <1>2, Zenon DEF Init
  <2>3. QED
    BY <1>2, <2>1, <2>2 DEF Init, TypeOK
<1>4. ImportInv /\ MigrationInv
  BY <1>2 DEF Init, ImportInv, MigrationInv
<1>5. PublishedInv
  <2>1. CASE dir = NoFile
    BY <1>2, <2>1 DEF Init, PublishedInv
  <2>2. CASE dir # NoFile
    <3>1. PICK v \in 1 .. 3, u \in BOOLEAN : dir = Stored(v, u)
      BY <1>2, <2>2 DEF Init
    <3>2. Complete(dir) /\ dir.version \in 1 .. 3 /\ (dir.version < 2 <=> dir.owner = "payer")
      BY <3>1 DEF Stored, Complete
    <3>3. QED
      BY <1>2, <3>2 DEF Init, PublishedInv
  <2>3. QED
    BY <2>1, <2>2
<1>6. QED
  BY <1>3, <1>4, <1>5 DEF DirInv

(* The steps of an import touch its own temporary directory, and Publish   *)
(* the payout directory only while there is none.                          *)
LEMMA ImportKeepsDirInv ==
    ASSUME DirInv, NEW p \in Processes, ImportStep(p)
    PROVE  DirInv'
<1> USE DirAssumption, NoFileIsNoDatabase
    DEF DirInv, dbVersion, First_Metadata, First_Metadata_Version, CreateNoReturn_Metadata
<1>1. CASE Import(p)
  <2>0. EmptyFile \in Database /\ EmptyFile.owner = "owner"
    BY DEF EmptyFile, Database
  <2>1. TypeOK'
    <3>1. pc' \in [Processes -> {"idle", "schema", "tables", "metadata", "named", "groups",
                                "logged", "reading", "migrating", "renamed", "written", "migrated", "open"}]
      BY <1>1 DEF Import, GoTo, TypeOK
    <3>2. temp' \in [Processes -> Database \union {NoFile}]
      BY <1>1, <2>0 DEF Import, TempDir, TypeOK
    <3>3. QED
      BY <1>1, <3>1, <3>2 DEF Import, TypeOK
  <2>2. ImportInv'
    BY <1>1, <2>0 DEF Import, TempDir, GoTo, TypeOK, ImportInv
  <2>3. MigrationInv' /\ PublishedInv'
    BY <1>1 DEF Import, GoTo, TypeOK, MigrationInv, PublishedInv, Complete
  <2>4. QED
    BY <2>1, <2>2, <2>3 DEF DirInv
<1>2. CASE CreateTable(p)
  <2>1. TypeOK'
    BY <1>2 DEF CreateTable, GoTo, TypeOK, ImportInv, Database
  <2>2. ImportInv'
    BY <1>2 DEF CreateTable, GoTo, TypeOK, ImportInv, Database
  <2>3. MigrationInv' /\ PublishedInv'
    BY <1>2 DEF CreateTable, GoTo, TypeOK, MigrationInv, PublishedInv, Complete
  <2>4. QED
    BY <2>1, <2>2, <2>3 DEF DirInv
<1>3. CASE CreateOtherTables(p)
  <2>1. TypeOK'
    BY <1>3 DEF CreateOtherTables, GoTo, TypeOK, ImportInv, Database
  <2>2. ImportInv'
    BY <1>3 DEF CreateOtherTables, GoTo, TypeOK, ImportInv, Database
  <2>3. MigrationInv' /\ PublishedInv'
    BY <1>3 DEF CreateOtherTables, GoTo, TypeOK, MigrationInv, PublishedInv, Complete
  <2>4. QED
    BY <2>1, <2>2, <2>3 DEF DirInv
<1>4. CASE CreateMetadata(p)
  <2>1. TypeOK'
    BY <1>4 DEF CreateMetadata, GoTo, TypeOK, ImportInv, Database
  <2>2. ImportInv'
    BY <1>4 DEF CreateMetadata, GoTo, TypeOK, ImportInv, Database
  <2>3. MigrationInv' /\ PublishedInv'
    BY <1>4 DEF CreateMetadata, GoTo, TypeOK, MigrationInv, PublishedInv, Complete
  <2>4. QED
    BY <2>1, <2>2, <2>3 DEF DirInv
<1>5. CASE NameDatabase(p)
  <2>1. TypeOK'
    BY <1>5 DEF NameDatabase, GoTo, TypeOK, ImportInv, Database
  <2>2. ImportInv'
    BY <1>5 DEF NameDatabase, GoTo, TypeOK, ImportInv, Database
  <2>3. MigrationInv' /\ PublishedInv'
    BY <1>5 DEF NameDatabase, GoTo, TypeOK, MigrationInv, PublishedInv, Complete
  <2>4. QED
    BY <2>1, <2>2, <2>3 DEF DirInv
<1>6. CASE CreatePayoutGroup(p)
  <2>1. TypeOK'
    BY <1>6 DEF CreatePayoutGroup, GoTo, TypeOK, ImportInv, Database
  <2>2. ImportInv'
    BY <1>6 DEF CreatePayoutGroup, GoTo, TypeOK, ImportInv, Database
  <2>3. MigrationInv' /\ PublishedInv'
    BY <1>6 DEF CreatePayoutGroup, GoTo, TypeOK, MigrationInv, PublishedInv, Complete
  <2>4. QED
    BY <2>1, <2>2, <2>3 DEF DirInv
<1>7. CASE Publish(p)
  <2>1. TypeOK'
    BY <1>7 DEF Publish, GoTo, TypeOK, ImportInv, Database
  <2>2. ImportInv'
    BY <1>7 DEF Publish, GoTo, TypeOK, ImportInv, Database
  <2>3. MigrationInv' /\ PublishedInv'
    BY <1>7 DEF Publish, GoTo, TypeOK, ImportInv, MigrationInv, PublishedInv, Complete, Database
  <2>4. QED
    BY <2>1, <2>2, <2>3 DEF DirInv
<1>8. CASE PublishRefused(p)
  <2>1. TypeOK'
    BY <1>8 DEF PublishRefused, GoTo, TypeOK, ImportInv, Database
  <2>2. ImportInv'
    BY <1>8 DEF PublishRefused, GoTo, TypeOK, ImportInv, Database
  <2>3. MigrationInv' /\ PublishedInv'
    BY <1>8 DEF PublishRefused, GoTo, TypeOK, MigrationInv, PublishedInv, Complete
  <2>4. QED
    BY <2>1, <2>2, <2>3 DEF DirInv
<1>9. QED
  BY <1>1, <1>2, <1>3, <1>4, <1>5, <1>6, <1>7, <1>8 DEF ImportStep

(* Opening leaves the temporary directories alone; a migration writes the  *)
(* database only when it commits, and nobody else writes in between.       *)
LEMMA OpenKeepsDirInv ==
    ASSUME DirInv, NEW p \in Processes, OpenStep(p)
    PROVE  DirInv'
<1> USE DirAssumption, NoFileIsNoDatabase
    DEF DirInv, EmptyFile, dbVersion, First_Metadata, First_Metadata_Version, CreateNoReturn_Metadata
<1>1. CASE Open(p)
  <2>1. TypeOK'
    BY <1>1 DEF Open, GoTo, TypeOK, MigrationInv, Database
  <2>2. ImportInv'
    BY <1>1 DEF Open, GoTo, TypeOK, ImportInv
  <2>3. MigrationInv'
    BY <1>1 DEF Open, GoTo, TypeOK, MigrationInv, PublishedInv, Complete, Database
  <2>4. PublishedInv'
    BY <1>1 DEF Open, GoTo, TypeOK, MigrationInv, PublishedInv, Complete, Database
  <2>5. QED
    BY <2>1, <2>2, <2>3, <2>4 DEF DirInv
<1>2. CASE Migrate(p)
  <2>1. TypeOK'
    BY <1>2 DEF Migrate, GoTo, TypeOK, MigrationInv, Database
  <2>2. ImportInv'
    BY <1>2 DEF Migrate, GoTo, TypeOK, ImportInv
  <2>3. MigrationInv'
    BY <1>2 DEF Migrate, GoTo, TypeOK, MigrationInv, PublishedInv, Complete, Database
  <2>4. PublishedInv'
    BY <1>2 DEF Migrate, GoTo, TypeOK, MigrationInv, PublishedInv, Complete, Database
  <2>5. QED
    BY <2>1, <2>2, <2>3, <2>4 DEF DirInv
<1>3. CASE MigrateV2(p)
  <2>1. TypeOK'
    BY <1>3 DEF MigrateV2, GoTo, TypeOK, MigrationInv, Database
  <2>2. ImportInv'
    BY <1>3 DEF MigrateV2, GoTo, TypeOK, ImportInv
  <2>3. MigrationInv'
    BY <1>3 DEF MigrateV2, GoTo, TypeOK, MigrationInv, PublishedInv, Complete, Database
  <2>4. PublishedInv'
    BY <1>3 DEF MigrateV2, GoTo, TypeOK, MigrationInv, PublishedInv, Complete, Database
  <2>5. QED
    BY <2>1, <2>2, <2>3, <2>4 DEF DirInv
<1>4. CASE MigrateFails(p)
  <2>1. TypeOK'
    BY <1>4 DEF MigrateFails, GoTo, TypeOK, MigrationInv, Database
  <2>2. ImportInv'
    BY <1>4 DEF MigrateFails, GoTo, TypeOK, ImportInv
  <2>3. MigrationInv'
    BY <1>4 DEF MigrateFails, GoTo, TypeOK, MigrationInv, PublishedInv, Complete, Database
  <2>4. PublishedInv'
    BY <1>4 DEF MigrateFails, GoTo, TypeOK, MigrationInv, PublishedInv, Complete, Database
  <2>5. QED
    BY <2>1, <2>2, <2>3, <2>4 DEF DirInv
<1>5. CASE WriteVersion(p)
  <2>1. TypeOK'
    BY <1>5 DEF WriteVersion, GoTo, TypeOK, MigrationInv, Database
  <2>2. ImportInv'
    BY <1>5 DEF WriteVersion, GoTo, TypeOK, ImportInv
  <2>3. MigrationInv'
    BY <1>5 DEF WriteVersion, GoTo, TypeOK, MigrationInv, PublishedInv, Complete, Database
  <2>4. PublishedInv'
    BY <1>5 DEF WriteVersion, GoTo, TypeOK, MigrationInv, PublishedInv, Complete, Database
  <2>5. QED
    BY <2>1, <2>2, <2>3, <2>4 DEF DirInv
<1>6. CASE Commit(p)
  <2>1. TypeOK'
    BY <1>6 DEF Commit, GoTo, TypeOK, MigrationInv, Database
  <2>2. ImportInv'
    BY <1>6 DEF Commit, GoTo, TypeOK, ImportInv
  <2>3. MigrationInv'
    BY <1>6 DEF Commit, GoTo, TypeOK, MigrationInv, PublishedInv, Complete, Database
  <2>4. PublishedInv'
    BY <1>6 DEF Commit, GoTo, TypeOK, MigrationInv, PublishedInv, Complete, Database
  <2>5. QED
    BY <2>1, <2>2, <2>3, <2>4 DEF DirInv
<1>7. CASE Use(p)
  <2>1. TypeOK'
    BY <1>7 DEF Use, GoTo, TypeOK, MigrationInv, Database
  <2>2. ImportInv'
    BY <1>7 DEF Use, GoTo, TypeOK, ImportInv
  <2>3. MigrationInv'
    BY <1>7 DEF Use, GoTo, TypeOK, MigrationInv, PublishedInv, Complete, Database
  <2>4. PublishedInv'
    BY <1>7 DEF Use, GoTo, TypeOK, MigrationInv, PublishedInv, Complete, Database
  <2>5. QED
    BY <2>1, <2>2, <2>3, <2>4 DEF DirInv
<1>8. CASE Close(p)
  <2>1. TypeOK'
    BY <1>8 DEF Close, GoTo, TypeOK, MigrationInv, Database
  <2>2. ImportInv'
    BY <1>8 DEF Close, GoTo, TypeOK, ImportInv
  <2>3. MigrationInv'
    BY <1>8 DEF Close, GoTo, TypeOK, MigrationInv, PublishedInv, Complete, Database
  <2>4. PublishedInv'
    BY <1>8 DEF Close, GoTo, TypeOK, MigrationInv, PublishedInv, Complete, Database
  <2>5. QED
    BY <2>1, <2>2, <2>3, <2>4 DEF DirInv
<1>9. CASE OpenMigrated(p)
  <2>1. TypeOK'
    BY <1>9 DEF OpenMigrated, GoTo, TypeOK, MigrationInv, Database
  <2>2. ImportInv'
    BY <1>9 DEF OpenMigrated, GoTo, TypeOK, ImportInv
  <2>3. MigrationInv'
    BY <1>9 DEF OpenMigrated, GoTo, TypeOK, MigrationInv, PublishedInv, Complete, Database
  <2>4. PublishedInv'
    BY <1>9 DEF OpenMigrated, GoTo, TypeOK, MigrationInv, PublishedInv, Complete, Database
  <2>5. QED
    BY <2>1, <2>2, <2>3, <2>4 DEF DirInv
<1>10. CASE LogBeforeImport(p)
  <2>1. TypeOK' /\ ImportInv'
    BY <1>10 DEF LogBeforeImport, GoTo, TypeOK, ImportInv
  <2>2. MigrationInv' /\ PublishedInv'
    BY <1>10 DEF LogBeforeImport, GoTo, TypeOK, MigrationInv, PublishedInv, Complete
  <2>3. QED
    BY <2>1, <2>2 DEF DirInv
<1>11. CASE OpenNothing(p)
  <2>0. EmptyFile \in Database
    BY DEF EmptyFile, Database
  <2>1. \A q \in Processes :
            pc[q] \notin {"reading", "migrating", "renamed", "written", "migrated", "open"}
    BY <1>11 DEF OpenNothing, MigrationInv, PublishedInv
  <2>2. TypeOK' /\ ImportInv'
    BY <1>11, <2>0 DEF OpenNothing, GoTo, TypeOK, ImportInv
  <2>3. MigrationInv' /\ PublishedInv'
    BY <1>11, <2>1 DEF OpenNothing, GoTo, TypeOK, MigrationInv, PublishedInv, Complete
  <2>4. QED
    BY <2>2, <2>3 DEF DirInv
<1>12. QED
  BY <1>1, <1>2, <1>3, <1>4, <1>5, <1>6, <1>7, <1>8, <1>9, <1>10, <1>11 DEF OpenStep

(* A fault forgets what its process was doing, and rolls it back. *)
LEMMA FaultKeepsDirInv ==
    ASSUME DirInv, NEW p \in Processes, Fault(p)
    PROVE  DirInv'
<1> USE NoFileIsNoDatabase DEF DirInv
<1>1. TypeOK'
  BY DEF Fault, GoTo, TypeOK
<1>2. ImportInv'
  BY DEF Fault, GoTo, TypeOK, ImportInv
<1>3. MigrationInv'
  BY DEF Fault, GoTo, TypeOK, MigrationInv, Complete
<1>4. PublishedInv'
  BY DEF Fault, GoTo, TypeOK, PublishedInv, Complete
<1>5. QED
  BY <1>1, <1>2, <1>3, <1>4 DEF DirInv

(* Every process, every step: the directory is in order at all times.      *)
THEOREM DirInvCorrect == Spec => []DirInv
<1>1. Init => DirInv
  BY InitDirInv
<1>2. DirInv /\ [Next]_vars => DirInv'
  <2>1. ASSUME DirInv, Next PROVE DirInv'
    BY <2>1, ImportKeepsDirInv, OpenKeepsDirInv, FaultKeepsDirInv DEF Next
  <2>2. ASSUME DirInv, UNCHANGED vars PROVE DirInv'
    BY <2>2 DEF vars, DirInv, TypeOK, ImportInv, MigrationInv, PublishedInv, Complete
  <2>3. QED
    BY <2>1, <2>2
<1>3. QED
  BY <1>1, <1>2, PTL DEF Spec

(* A database in its final place has all its tables, its metadata and      *)
(* every payout of the CSV file, whoever died while building it.           *)
THEOREM PublishedIsComplete == Spec => []PublishedComplete
<1>1. DirInv => PublishedComplete
  BY DEF DirInv, PublishedInv, Complete, PublishedComplete
<1>2. QED
  BY <1>1, DirInvCorrect, PTL

(* A command that has the database open has the current schema version,    *)
(* however many of them migrate at once.                                   *)
THEOREM OpenedIsCurrent == Spec => []OpenIsCurrent
<1>1. DirInv => OpenIsCurrent
  BY DEF DirInv, MigrationInv, OpenIsCurrent
<1>2. QED
  BY <1>1, DirInvCorrect, PTL

(* The version number says which schema the file has, also after a         *)
(* migration that was cut short.                                           *)
THEOREM VersionIsSchema == Spec => []VersionMatchesSchema
<1>1. DirInv => VersionMatchesSchema
  BY DEF DirInv, TypeOK, PublishedInv, VersionMatchesSchema, Database
<1>2. QED
  BY <1>1, DirInvCorrect, PTL

(* Neither a second import nor a migration loses recorded transactions.    *)
THEOREM PublishedStays == Spec => PublishedForGood
<1> USE DirAssumption, NoFileIsNoDatabase
<1>1. DirInv /\ [Next]_vars => [NothingLost(dir, dir')]_vars
  <2>1. SUFFICES ASSUME DirInv, dir # NoFile, NEW p \in Processes,
                        ImportStep(p) \/ OpenStep(p) \/ Fault(p)
                 PROVE  NothingLost(dir, dir')
    BY DEF Next, NothingLost
  <2>2. CASE dir' = dir
    BY <2>1, <2>2 DEF DirInv, TypeOK, Database, NothingLost
  <2>3. CASE Commit(p)
    BY <2>1, <2>3 DEF Commit, DirInv, TypeOK, MigrationInv, PublishedInv, NothingLost,
       Database, dbVersion
  <2>4. CASE Use(p)
    <3>1. dir \in Database
      BY <2>1 DEF DirInv, TypeOK
    <3>2. dir' \in Database /\ dir'.version = dir.version /\ dir'.used = TRUE
      BY <2>4, <3>1 DEF Use, Database
    <3>3. dir.version \in Nat
      BY <3>1 DEF Database
    <3>4. QED
      BY <3>2, <3>3 DEF NothingLost
  <2>5. CASE OpenNothing(p)
    <3>1. dir = EmptyFile /\ dir' = EmptyFile
      BY <2>1, <2>5 DEF OpenNothing, DirInv, PublishedInv
    <3>2. QED
      BY <2>2, <3>1
  <2>6. QED
    BY <2>1, <2>2, <2>3, <2>4, <2>5 DEF ImportStep, OpenStep, LogBeforeImport, Import, CreateTable,
       CreateOtherTables, CreateMetadata, NameDatabase, CreatePayoutGroup, Publish,
       PublishRefused, Open, OpenMigrated, Migrate, MigrateV2, MigrateFails, WriteVersion, Close,
       Fault
<1>2. QED
  BY <1>1, DirInvCorrect, PTL DEF Spec, PublishedForGood
==============================================================================
