------------------------------ MODULE PayoutDir ------------------------------
(***************************************************************************)
(* The directory of one CSV file: how an import builds its database beside *)
(* it and renames it into place, and how later commands open and, when it  *)
(* is an old one, migrate it.  Several processes may be at it at once, and *)
(* each may die at any point; the files are what survives.                 *)
(*                                                                         *)
(* pc of a process:                                                        *)
(*   "idle"      not running, or ended                                     *)
(*   "schema"    has a temporary directory; creates the tables             *)
(*   "tables"    some of the tables are created                            *)
(*   "metadata"  all of them are                                           *)
(*   "named"     the metadata is written; payouts.db.tmp to be renamed     *)
(*   "groups"    creates the payout groups, one by one                     *)
(*   "logged"    a run that came before the import, and has opened its log *)
(*   "reading"   has read an old version number, and has the file closed   *)
(*   "migrating" in the SQL transaction, owner column not yet renamed      *)
(*   "renamed"   in the SQL transaction, version not yet written           *)
(*   "written"   in the SQL transaction, everything written                *)
(*   "migrated"  has committed; the file closed, to be opened again         *)
(*   "open"      has the database open                                     *)
(***************************************************************************)
EXTENDS Naturals

CONSTANTS
    Processes,  \* commands working on the directory
    Payouts,    \* lines of the CSV file
    NoFile,     \* no such file, no such directory
    MaxFaults   \* bound: commands that die or fail

ASSUME DirAssumption ==
    /\ Payouts \in Nat
    /\ MaxFaults \in Nat

dbVersion == 2

VARIABLES
    pc,        \* see above
    temp,      \* per process, the database in its temporary directory
    dir,       \* the database in the payout directory, NoFile without one
    made,      \* a run has made the payout directory, for its log
    uncommitted, \* per process, the database as its SQL transaction has it
    writer,    \* the processes in a SQL write transaction
    faults     \* commands that died or failed so far

vars == <<pc, temp, dir, made, uncommitted, writer, faults>>

(* What a database file holds: its tables, the column version 2 renamed,   *)
(* the metadata's version (0 without metadata), its payout groups, and     *)
(* whether a run has recorded transactions in it.                          *)
Database == [tables : {"none", "some", "all"}, owner : {"payer", "owner"},
             version : Nat, groups : Nat, used : BOOLEAN]

EmptyFile == [tables |-> "none", owner |-> "owner", version |-> 0, groups |-> 0,
              used |-> FALSE]

Stored(v, u) == [tables |-> "all", owner |-> IF v < 2 THEN "payer" ELSE "owner",
                 version |-> v, groups |-> Payouts, used |-> u]

ASSUME NoFileIsNoDatabase == NoFile \notin Database

TypeOK ==
    /\ pc \in [Processes -> {"idle", "schema", "tables", "metadata", "named", "groups",
                             "logged", "reading", "migrating", "renamed", "written", "migrated", "open"}]
    /\ temp \in [Processes -> Database \union {NoFile}]
    /\ dir \in Database \union {NoFile}
    /\ made \in BOOLEAN
    /\ uncommitted \in [Processes -> Database \union {NoFile}]
    /\ writer \subseteq Processes
    /\ faults \in Nat

(* Nothing imported yet, or a database of this tool, an older or a newer one. *)
Init ==
    /\ pc = [p \in Processes |-> "idle"]
    /\ temp = [p \in Processes |-> NoFile]
    /\ dir \in {NoFile} \union {Stored(v, u) : v \in 1 .. 3, u \in BOOLEAN}
    /\ made = FALSE
    /\ uncommitted = [p \in Processes |-> NoFile]
    /\ writer = {}
    /\ faults = 0

(* The first row of the table metadata. *)
First_Metadata(d) == d.version # 0
First_Metadata_Version(d) == d.version
CreateNoReturn_Metadata(d) == [d EXCEPT !.version = dbVersion]

GoTo(p, where) == pc' = [pc EXCEPT ![p] = where]

------------------------------------------------------------------------------
(* Import *)

(* Mutant: the same temporary directory every time, with what is in it. *)
SameTempDir(p) == IF temp[p] = NoFile THEN EmptyFile ELSE temp[p]

(* os.MkdirTemp: a directory of its own, and an empty database in it. *)
TempDir(p) == EmptyFile

(* The database does not exist yet: start on a temporary one. *)
Import(p) ==
    /\ pc[p] = "idle"
    /\ dir = NoFile
    /\ GoTo(p, "schema")
    /\ temp' = [temp EXCEPT ![p] = TempDir(p)]
    /\ UNCHANGED <<made, dir, uncommitted, writer, faults>>

(* The schema is not executed in one transaction. *)
CreateTable(p) ==
    /\ pc[p] = "schema" /\ temp[p].tables = "none"
    /\ GoTo(p, "tables")
    /\ temp' = [temp EXCEPT ![p].tables = "some"]
    /\ UNCHANGED <<made, dir, uncommitted, writer, faults>>

CreateOtherTables(p) ==
    /\ pc[p] = "tables"
    /\ GoTo(p, "metadata")
    /\ temp' = [temp EXCEPT ![p].tables = "all"]
    /\ UNCHANGED <<made, dir, uncommitted, writer, faults>>

CreateMetadata(p) ==
    /\ pc[p] = "metadata"
    /\ GoTo(p, "named")
    /\ temp' = [temp EXCEPT ![p] = CreateNoReturn_Metadata(@)]
    /\ UNCHANGED <<made, dir, uncommitted, writer, faults>>

(* The metadata is read back; payouts.db.tmp becomes payouts.db and is     *)
(* opened.                                                                 *)
NameDatabase(p) ==
    /\ pc[p] = "named"
    /\ First_Metadata(temp[p]) /\ First_Metadata_Version(temp[p]) = dbVersion
    /\ GoTo(p, "groups")
    /\ UNCHANGED <<made, temp, dir, uncommitted, writer, faults>>

CreatePayoutGroup(p) ==
    /\ pc[p] = "groups" /\ temp[p].groups < Payouts
    /\ temp' = [temp EXCEPT ![p].groups = @ + 1]
    /\ UNCHANGED <<made, pc, dir, uncommitted, writer, faults>>

(* Mutant: a rename that replaces what is there.                           *)
PublishReplacing(p) ==
    /\ pc[p] = "groups" /\ temp[p].groups = Payouts
    /\ GoTo(p, "idle")
    /\ dir' = temp[p]
    /\ temp' = [temp EXCEPT ![p] = NoFile]
    /\ UNCHANGED <<made, uncommitted, writer, faults>>

(* The temporary directory becomes the payout directory; os.Rename does    *)
(* not replace a directory.                                                *)
Publish(p) ==
    /\ pc[p] = "groups" /\ temp[p].groups = Payouts
    /\ dir = NoFile /\ ~made
    /\ GoTo(p, "idle")
    /\ dir' = temp[p]
    /\ temp' = [temp EXCEPT ![p] = NoFile]
    /\ UNCHANGED <<made, uncommitted, writer, faults>>

(* Another import was faster, or a run has made the directory. *)
PublishRefused(p) ==
    /\ pc[p] = "groups" /\ temp[p].groups = Payouts
    /\ dir # NoFile \/ made
    /\ GoTo(p, "idle")
    /\ temp' = [temp EXCEPT ![p] = NoFile]
    /\ UNCHANGED <<made, dir, uncommitted, writer, faults>>

------------------------------------------------------------------------------
(* A run before the import: openLog makes the payout directory, and SQLite *)
(* an empty database in it, whose version cannot be read.  Every import    *)
(* after that finds a database and refuses to start.                       *)

LogBeforeImport(p) ==
    /\ pc[p] = "idle"
    /\ dir = NoFile
    /\ GoTo(p, "logged")
    /\ made' = TRUE
    /\ UNCHANGED <<temp, dir, uncommitted, writer, faults>>

OpenNothing(p) ==
    /\ pc[p] = "logged"
    /\ GoTo(p, "idle")
    /\ dir' = EmptyFile
    /\ UNCHANGED <<temp, made, uncommitted, writer, faults>>

------------------------------------------------------------------------------
(* OpenDB *)

(* Read the version.  An audit opens the file for reading, closes it when  *)
(* it is old and opens it again; a newer version is refused.               *)
Open(p) ==
    /\ pc[p] = "idle"
    /\ dir # NoFile /\ First_Metadata(dir) /\ First_Metadata_Version(dir) <= dbVersion
    /\ GoTo(p, IF First_Metadata_Version(dir) < dbVersion THEN "reading" ELSE "open")
    /\ UNCHANGED <<made, temp, dir, uncommitted, writer, faults>>

(* Mutant: two processes migrate at once. *)
MigrateTogether(p) ==
    /\ pc[p] = "reading"
    /\ GoTo(p, "migrating")
    /\ writer' = writer \union {p}
    /\ uncommitted' = [uncommitted EXCEPT ![p] = dir]
    /\ UNCHANGED <<made, temp, dir, faults>>

(* migrateDB for the version that was read: one writer at a time. *)
Migrate(p) ==
    /\ pc[p] = "reading"
    /\ writer = {}
    /\ GoTo(p, "migrating")
    /\ writer' = {p}
    /\ uncommitted' = [uncommitted EXCEPT ![p] = dir]
    /\ UNCHANGED <<made, temp, dir, faults>>

(* migrateV2 selects the payer column. *)
MigrateV2(p) ==
    /\ pc[p] = "migrating" /\ uncommitted[p].owner = "payer"
    /\ GoTo(p, "renamed")
    /\ uncommitted' = [uncommitted EXCEPT ![p].owner = "owner"]
    /\ UNCHANGED <<made, temp, dir, writer, faults>>

(* There is none: another process has migrated in between.  Roll back. *)
MigrateFails(p) ==
    /\ pc[p] = "migrating" /\ uncommitted[p].owner # "payer"
    /\ GoTo(p, "idle")
    /\ uncommitted' = [uncommitted EXCEPT ![p] = NoFile]
    /\ writer' = writer \ {p}
    /\ UNCHANGED <<made, temp, dir, faults>>

WriteVersion(p) ==
    /\ pc[p] = "renamed"
    /\ GoTo(p, "written")
    /\ uncommitted' = [uncommitted EXCEPT ![p].version = dbVersion]
    /\ UNCHANGED <<made, temp, dir, writer, faults>>

Commit(p) ==
    /\ pc[p] = "written"
    /\ GoTo(p, "migrated")
    /\ dir' = uncommitted[p]
    /\ uncommitted' = [uncommitted EXCEPT ![p] = NoFile]
    /\ writer' = writer \ {p}
    /\ UNCHANGED <<made, temp, faults>>

(* Close and re-open; the version is not looked at again. *)
OpenMigrated(p) ==
    /\ pc[p] = "migrated"
    /\ First_Metadata(dir)
    /\ GoTo(p, "open")
    /\ UNCHANGED <<made, temp, dir, uncommitted, writer, faults>>

(* The pipeline records a transaction: a write transaction of its own. *)
Use(p) ==
    /\ pc[p] = "open"
    /\ writer = {}
    /\ dir' = [dir EXCEPT !.used = TRUE]
    /\ UNCHANGED <<made, pc, temp, uncommitted, writer, faults>>

Close(p) ==
    /\ pc[p] = "open"
    /\ GoTo(p, "idle")
    /\ UNCHANGED <<made, temp, dir, uncommitted, writer, faults>>

------------------------------------------------------------------------------
(* A process dies, leaving its temporary directory behind, or a call fails *)
(* and the command removes it; an open SQL transaction is rolled back.     *)
Fault(p) ==
    /\ pc[p] # "idle"
    /\ faults < MaxFaults
    /\ faults' = faults + 1
    /\ GoTo(p, "idle")
    /\ temp' \in {temp, [temp EXCEPT ![p] = NoFile]}
    /\ uncommitted' = [uncommitted EXCEPT ![p] = NoFile]
    /\ writer' = writer \ {p}
    /\ UNCHANGED <<dir, made>>

ImportStep(p) ==
    \/ Import(p)
    \/ CreateTable(p)
    \/ CreateOtherTables(p)
    \/ CreateMetadata(p)
    \/ NameDatabase(p)
    \/ CreatePayoutGroup(p)
    \/ Publish(p)
    \/ PublishRefused(p)

OpenStep(p) ==
    \/ LogBeforeImport(p)
    \/ OpenNothing(p)
    \/ Open(p)
    \/ Migrate(p)
    \/ MigrateV2(p)
    \/ MigrateFails(p)
    \/ WriteVersion(p)
    \/ Commit(p)
    \/ OpenMigrated(p)
    \/ Use(p)
    \/ Close(p)

Next == \E p \in Processes : ImportStep(p) \/ OpenStep(p) \/ Fault(p)

Spec == Init /\ [][Next]_vars

(* Every command that is running goes on, and somebody imports. *)
ImportFairness == \A p \in Processes : WF_vars(ImportStep(p))

FairSpec == Spec /\ ImportFairness

------------------------------------------------------------------------------
(* The inductive invariant: a temporary database is as far as its import,  *)
(* a transaction holds what it has written so far, and there is one writer. *)
Complete(d) == d.tables = "all" /\ d.groups = Payouts

ImportInv ==
    \A p \in Processes :
        /\ pc[p] \in {"schema", "tables", "metadata", "named", "groups"} =>
             temp[p] # NoFile /\ temp[p].owner = "owner"
        /\ pc[p] \in {"metadata", "named", "groups"} => temp[p].tables = "all"
        /\ pc[p] \in {"named", "groups"} => temp[p].version = dbVersion

MigrationInv ==
    /\ \A p, q \in writer : p = q
    /\ \A p \in Processes :
        /\ pc[p] \in {"migrating", "renamed", "written"} =>
             /\ p \in writer
             /\ uncommitted[p] # NoFile
             /\ Complete(uncommitted[p])
             /\ uncommitted[p].used = dir.used
        /\ pc[p] \in {"reading", "migrating", "renamed", "written", "migrated", "open"} =>
             dir # NoFile /\ ~made
        /\ pc[p] = "migrating" =>
             uncommitted[p].version = dir.version /\ uncommitted[p].owner = dir.owner
        /\ pc[p] \in {"renamed", "written"} =>
             dir.version = 1 /\ uncommitted[p].owner = "owner"
        /\ pc[p] = "written" => uncommitted[p].version = dbVersion
        /\ pc[p] \in {"migrated", "open"} => dir.version = dbVersion

PublishedInv ==
    /\ \A p \in Processes : pc[p] = "logged" => made
    /\ made => dir \in {NoFile, EmptyFile}
    /\ dir # NoFile /\ ~made =>
         /\ Complete(dir)
         /\ dir.version \in 1 .. 3
         /\ dir.version < 2 <=> dir.owner = "payer"

DirInv == TypeOK /\ ImportInv /\ MigrationInv /\ PublishedInv

(* A database in its final place is a complete one: all tables, metadata,  *)
(* every payout of the CSV, whoever died while building it; only a run     *)
(* before the import puts an empty one there.                              *)
PublishedComplete ==
    dir # NoFile /\ ~made =>
        dir.tables = "all" /\ dir.version > 0 /\ dir.groups = Payouts

(* The version number says which schema the file has, also when a          *)
(* migration was cut short or two commands migrated at once.               *)
VersionMatchesSchema ==
    dir # NoFile /\ ~made => (dir.version >= 2 <=> dir.owner = "owner")

(* A command that has the database open has the current schema. *)
OpenIsCurrent ==
    \A p \in Processes : pc[p] = "open" => dir # NoFile /\ dir.version = dbVersion

(* A database is never replaced: neither a second import nor a migration   *)
(* ever loses the transactions recorded in it, or takes its version back.  *)
NothingLost(d, e) ==
    d # NoFile => e # NoFile /\ e.version >= d.version /\ (d.used => e.used)

PublishedForGood == [][NothingLost(dir, dir')]_vars

(* An import that keeps being repeated succeeds, whatever is left behind,  *)
(* but for what a run that came before it leaves in the payout directory.  *)
EventuallyImported == []~made => <>(dir # NoFile)
==============================================================================
