---------------------------- MODULE DatabaseOpen ----------------------------
(* Opening the SQLite store (internal/db/sqlite.go, migrations.go): the move of
   a legacy directory to the primary location, and the versioned schema
   migrations, run by several processes that may crash at any step.

   A database file is an inode, because a process keeps the file it opened even
   after the directory it was found in is renamed or removed.  A directory is
   missing (Absent), present without orbit.db (NoDb), or holds an inode. *)
EXTENDS Naturals, FiniteSets

CONSTANTS Process,          \* processes that open the store: TUIs and engines
          Inode,            \* database files
          Absent, NoDb,     \* a missing directory, a directory without orbit.db
          NumMigrations,    \* length of the migrations table
          Repeatable,       \* migrations that succeed when run a second time
          LegacyVersion,    \* schema version of the legacy database
          MaxFaults         \* bound on crashes, failed steps and failed queries

ASSUME DatabaseAssumption ==
    /\ NumMigrations \in Nat /\ MaxFaults \in Nat
    /\ LegacyVersion \in 0 .. NumMigrations
    /\ Repeatable \subseteq 1 .. NumMigrations
    /\ Absent \notin Inode /\ NoDb \notin Inode /\ Absent # NoDb
    /\ "legacy" \notin Process

VARIABLES pc,       \* where each process stands in Open
          at,       \* what each location holds
          data,     \* contents of each file: whose rows, schema_version, schema
          holder,   \* processes that hold the migration lock
          aside,    \* the backup a mover has set aside
          conn,     \* the file each process has open
          seen,     \* the version each process believes the schema has
          wrote,    \* processes whose triage has been committed
          faults,
          looked,   \* history: processes that saw no primary database
          stale,    \* history: ... and locked after one had appeared
          bypass,   \* history: processes that connected during a move
          raced,    \* history: a version was read before and used after a change
          misread,  \* history: processes that took a failed query for version 0
          misled    \* history: ... of a database that had one, and used it

files == <<at, data, aside>>
versions == <<raced, misread, misled>>
history == <<looked, stale, bypass, versions>>
vars == <<pc, files, holder, conn, seen, wrote, faults, history>>

Location == {"legacy", "primary", "staging"}
Held == Inode \cup {Absent, NoDb}
Contents == [rows : SUBSET (Process \cup {"legacy"}),
             version : 0 .. NumMigrations, schema : 0 .. NumMigrations]
Empty == [rows |-> {}, version |-> 0, schema |-> 0]

MovePhase == {"checkpoint", "stage", "copy", "swap", "setAside", "swapAgain",
              "dropAside", "removeFile", "removeDir"}
Phase == {"down", "look", "discover", "lock", "secure", "connect", "version",
          "migrate", "running", "failed"} \cup MovePhase

TypeOK ==
    /\ pc \in [Process -> Phase]
    /\ at \in [Location -> Held]
    /\ data \in [Inode -> Contents]
    /\ holder \subseteq Process
    /\ aside \in [Process -> Held]
    /\ conn \in [Process -> Inode \cup {Absent}]
    /\ seen \in [Process -> 0 .. NumMigrations]
    /\ wrote \subseteq Process
    /\ faults \in 0 .. MaxFaults
    /\ looked \subseteq Process /\ stale \subseteq Process /\ bypass \subseteq Process
    /\ raced \in BOOLEAN /\ misled \in BOOLEAN /\ misread \subseteq Process

InUse == {at[l] : l \in Location} \cup {aside[p] : p \in Process}
            \cup {conn[p] : p \in Process}
FreshInode == CHOOSE i \in Inode : i \notin InUse
HasFresh == \E i \in Inode : i \notin InUse

(* A previous version left its data behind, or nothing did; the primary
   directory may already exist, made by "doctor". *)
Init ==
    /\ pc = [p \in Process |-> "down"]
    /\ \E i \in Inode : \E old \in {Absent, i} : \E new \in {Absent, NoDb} :
         /\ i = CHOOSE j \in Inode : TRUE
         /\ at = [legacy |-> old, primary |-> new, staging |-> Absent]
         /\ data = [j \in Inode |->
                IF j = old THEN [rows |-> {"legacy"}, version |-> LegacyVersion,
                                 schema |-> LegacyVersion]
                ELSE Empty]
    /\ holder = {} /\ aside = [p \in Process |-> Absent]
    /\ conn = [p \in Process |-> Absent] /\ seen = [p \in Process |-> 0]
    /\ wrote = {} /\ faults = 0
    /\ looked = {} /\ stale = {} /\ bypass = {}
    /\ raced = FALSE /\ misread = {} /\ misled = FALSE

Goto(p, from, to) == pc[p] = from /\ pc' = [pc EXCEPT ![p] = to]

-----------------------------------------------------------------------------
(* Discovery *)

Start(p) ==
    /\ pc[p] \in {"down", "failed"}
    /\ pc' = [pc EXCEPT ![p] = "look"]
    /\ looked' = looked \ {p}
    /\ UNCHANGED <<files, holder, conn, seen, wrote, faults, stale, bypass, versions>>

LookSkipped(p) ==
    /\ Goto(p, "look", "discover")
    /\ looked' = IF at["primary"] \in Inode THEN looked ELSE looked \cup {p}
    /\ UNCHANGED <<files, holder, conn, seen, wrote, faults, stale, bypass, versions>>

Look(p) ==
    /\ Goto(p, "look", IF at["primary"] \in Inode THEN "secure" ELSE "discover")
    /\ looked' = IF at["primary"] \in Inode THEN looked ELSE looked \cup {p}
    /\ UNCHANGED <<files, holder, conn, seen, wrote, faults, stale, bypass, versions>>

Discover(p) ==
    /\ Goto(p, "discover", IF at["legacy"] \in Inode THEN "lock" ELSE "secure")
    /\ UNCHANGED <<files, holder, conn, seen, wrote, faults, history>>

(* The lock is tried, not awaited: a process that does not get it goes on to
   open the store as if there were nothing to move. *)
Lock(p) ==
    /\ Goto(p, "lock", IF holder = {} THEN "checkpoint" ELSE "secure")
    /\ IF holder = {}
       THEN /\ holder' = {p}
            /\ stale' = IF p \in looked /\ at["primary"] \in Inode
                        THEN stale \cup {p} ELSE stale
       ELSE UNCHANGED <<holder, stale>>
    /\ UNCHANGED <<files, conn, seen, wrote, faults, looked, bypass, versions>>

-----------------------------------------------------------------------------
(* The move, under the lock *)

(* The checkpoint opens the legacy database, which makes one where only the
   directory is left. *)
Checkpoint(p) ==
    /\ Goto(p, "checkpoint", "stage")
    /\ IF at["legacy"] = NoDb
       THEN /\ HasFresh
            /\ at' = [at EXCEPT !["legacy"] = FreshInode]
            /\ data' = [data EXCEPT ![FreshInode] = Empty]
       ELSE UNCHANGED <<at, data>>
    /\ UNCHANGED <<aside, holder, conn, seen, wrote, faults, history>>

ClearStaging(p) ==
    /\ Goto(p, "stage", "copy")
    /\ at' = [at EXCEPT !["staging"] = Absent]
    /\ UNCHANGED <<data, aside, holder, conn, seen, wrote, faults, history>>

Copy(p) ==
    /\ at["legacy"] \in Inode /\ HasFresh
    /\ Goto(p, "copy", "swap")
    /\ at' = [at EXCEPT !["staging"] = FreshInode]
    /\ data' = [data EXCEPT ![FreshInode] = data[at["legacy"]]]
    /\ UNCHANGED <<aside, holder, conn, seen, wrote, faults, history>>

Fault == faults < MaxFaults /\ faults' = faults + 1

(* Every failed step of the move unlocks and lets Open carry on: the copy and its
   verification, a rename, a removal. *)
GiveUp(p, from) ==
    /\ Goto(p, from, "secure")
    /\ holder' = holder \ {p}
    /\ UNCHANGED <<files, conn, seen, wrote, history>>

StepFails(p) ==
    /\ \E from \in {"copy", "swap", "setAside", "swapAgain", "removeFile", "removeDir"} : GiveUp(p, from)
    /\ Fault

(* os.Rename refuses a destination directory that exists. *)
Swap(p) ==
    /\ pc[p] = "swap"
    /\ IF at["primary"] = Absent
       THEN /\ pc' = [pc EXCEPT ![p] = "removeFile"]
            /\ at' = [at EXCEPT !["primary"] = at["staging"], !["staging"] = Absent]
       ELSE /\ pc' = [pc EXCEPT ![p] = "setAside"] /\ UNCHANGED at
    /\ UNCHANGED <<data, aside, holder, conn, seen, wrote, faults, history>>

SetAside(p) ==
    /\ Goto(p, "setAside", "swapAgain")
    /\ aside' = [aside EXCEPT ![p] = at["primary"]]
    /\ at' = [at EXCEPT !["primary"] = Absent]
    /\ UNCHANGED <<data, holder, conn, seen, wrote, faults, history>>

SwapAgain(p) ==
    /\ at["primary"] = Absent
    /\ Goto(p, "swapAgain", "dropAside")
    /\ at' = [at EXCEPT !["primary"] = at["staging"], !["staging"] = Absent]
    /\ UNCHANGED <<data, aside, holder, conn, seen, wrote, faults, history>>

SwapRefusedButCleans(p) ==
    /\ at["primary"] # Absent
    /\ Goto(p, "swapAgain", "removeFile")
    /\ UNCHANGED <<files, holder, conn, seen, wrote, faults, history>>

(* Another process has made the directory again meanwhile: neither the staged
   copy nor the backup can be renamed to it. *)
SwapRefused(p) ==
    /\ at["primary"] # Absent
    /\ GiveUp(p, "swapAgain") /\ UNCHANGED faults

(* The second swap fails otherwise, and the backup is put back; where that fails
   too (StepFails) it stays where it is. *)
PutBack(p) ==
    /\ at["primary"] = Absent /\ Fault
    /\ Goto(p, "swapAgain", "secure")
    /\ at' = [at EXCEPT !["primary"] = aside[p]]
    /\ aside' = [aside EXCEPT ![p] = Absent]
    /\ holder' = holder \ {p}
    /\ UNCHANGED <<data, conn, seen, wrote, history>>

DropAside(p) ==
    /\ Goto(p, "dropAside", "removeFile")
    /\ aside' = [aside EXCEPT ![p] = Absent]
    /\ UNCHANGED <<at, data, holder, conn, seen, wrote, faults, history>>

RemoveFile(p) ==
    /\ Goto(p, "removeFile", "removeDir")
    /\ at' = [at EXCEPT !["legacy"] = NoDb]
    /\ UNCHANGED <<data, aside, holder, conn, seen, wrote, faults, history>>

RemoveDir(p) ==
    /\ Goto(p, "removeDir", "secure")
    /\ at' = [at EXCEPT !["legacy"] = Absent]
    /\ holder' = holder \ {p}
    /\ UNCHANGED <<data, aside, conn, seen, wrote, faults, history>>

Move(p) ==
    \/ Checkpoint(p) \/ ClearStaging(p) \/ Copy(p) \/ StepFails(p) \/ Swap(p)
    \/ SetAside(p) \/ SwapAgain(p) \/ SwapRefused(p) \/ PutBack(p) \/ DropAside(p)
    \/ RemoveFile(p) \/ RemoveDir(p)

-----------------------------------------------------------------------------
(* Opening and migrating *)

SecureDir(p) ==
    /\ Goto(p, "secure", "connect")
    /\ at' = IF at["primary"] = Absent THEN [at EXCEPT !["primary"] = NoDb] ELSE at
    /\ UNCHANGED <<data, aside, holder, conn, seen, wrote, faults, history>>

(* The first statement opens the file by its path, or makes it. *)
Connect(p) ==
    /\ pc[p] = "connect"
    /\ at["primary"] = NoDb => HasFresh
    /\ pc' = [pc EXCEPT ![p] = IF at["primary"] = Absent THEN "failed" ELSE "version"]
    /\ IF at["primary"] = NoDb
       THEN /\ at' = [at EXCEPT !["primary"] = FreshInode]
            /\ data' = [data EXCEPT ![FreshInode] = Empty]
       ELSE UNCHANGED <<at, data>>
    /\ conn' = [conn EXCEPT ![p] = at'["primary"]]
    /\ bypass' = IF holder \ {p} # {} THEN bypass \cup {p} ELSE bypass
    /\ UNCHANGED <<aside, holder, seen, wrote, faults, looked, stale, versions>>

(* Whatever error the query ends with, the version is taken to be 0. *)
ReadVersion(p) ==
    /\ Goto(p, "version", "migrate")
    /\ \/ /\ seen' = [seen EXCEPT ![p] = data[conn[p]].version]
          /\ misread' = misread \ {p} /\ UNCHANGED faults
       \/ /\ data[conn[p]].version # 0 /\ Fault
          /\ seen' = [seen EXCEPT ![p] = 0]
          /\ misread' = misread \cup {p}
    /\ UNCHANGED <<files, holder, conn, wrote, looked, stale, bypass, raced, misled>>

(* A process acts on a version that is not the one the file has. *)
NoteUse(p) ==
    LET wrong == data[conn[p]].version # seen[p] IN
    /\ raced' = (raced \/ (wrong /\ p \notin misread))
    /\ misled' = (misled \/ (wrong /\ p \in misread))
    /\ UNCHANGED misread

AtLeast(m, n) == IF m >= n THEN m ELSE n

RecordedIndex(db, i) == [db EXCEPT !.version = i - 1, !.schema = AtLeast(@, i)]
RecordedNext(db, i) == [db EXCEPT !.version = i + 1, !.schema = AtLeast(@, i)]

(* CREATE TABLE IF NOT EXISTS and UPDATE succeed again; an ALTER TABLE that adds
   a column that is there already does not. *)
Applies(db, i) == i > db.schema \/ i \in Repeatable

(* One transaction: the statements of the migration and the new version. *)
Recorded(db, i) == [db EXCEPT !.version = i, !.schema = AtLeast(@, i)]

ApplyMigration(p) ==
    LET i == seen[p] + 1  db == data[conn[p]] IN
    /\ pc[p] = "migrate" /\ i <= NumMigrations
    /\ Applies(db, i)
    /\ data' = [data EXCEPT ![conn[p]] = Recorded(db, i)]
    /\ seen' = [seen EXCEPT ![p] = i]
    /\ NoteUse(p)
    /\ UNCHANGED <<pc, at, aside, holder, conn, wrote, faults, looked, stale, bypass>>

(* The transaction is rolled back and Open fails. *)
MigrationFails(p) ==
    LET i == seen[p] + 1 IN
    /\ Goto(p, "migrate", "failed")
    /\ i <= NumMigrations /\ ~Applies(data[conn[p]], i)
    /\ conn' = [conn EXCEPT ![p] = Absent]
    /\ NoteUse(p)
    /\ UNCHANGED <<files, holder, seen, wrote, faults, looked, stale, bypass>>

Migrated(p) ==
    /\ seen[p] = NumMigrations
    /\ Goto(p, "migrate", "running")
    /\ UNCHANGED <<files, holder, conn, seen, wrote, faults, history>>

(* The user triages: the row is committed and acknowledged. *)
Triage(p) ==
    /\ pc[p] = "running" /\ p \notin wrote
    /\ wrote' = wrote \cup {p}
    /\ data' = [data EXCEPT ![conn[p]].rows = @ \cup {p}]
    /\ UNCHANGED <<pc, at, aside, holder, conn, seen, faults, history>>

(* A crash, or a kill: the kernel closes the file and drops the lock.  An error
   that makes Open close the database and return leaves the same behind. *)
Crash(p) ==
    /\ pc[p] \notin {"down", "failed"} /\ Fault
    /\ pc' = [pc EXCEPT ![p] = "down"]
    /\ holder' = holder \ {p}
    /\ conn' = [conn EXCEPT ![p] = Absent]
    /\ UNCHANGED <<files, seen, wrote, history>>

Next ==
    \E p \in Process :
        \/ Start(p) \/ Look(p) \/ Discover(p) \/ Lock(p) \/ Move(p)
        \/ SecureDir(p) \/ Connect(p) \/ ReadVersion(p) \/ ApplyMigration(p)
        \/ MigrationFails(p) \/ Migrated(p) \/ Triage(p) \/ Crash(p)

Spec == Init /\ [][Next]_vars

-----------------------------------------------------------------------------
Holds(l, row) == at[l] \in Inode /\ row \in data[at[l]].rows
LegacyExists == \E i \in Inode : "legacy" \in data[i].rows

(* LegacySurvives: whatever crashes, and however many processes open the store
   at once, the legacy data is either where it was or in the primary location.
   The swap in performAtomicMove and the removal of the source are ordered for
   this. *)
LegacySurvives ==
    LegacyExists => Holds("legacy", "legacy") \/ Holds("primary", "legacy")

(* OnlyAStaleLookLoses: the legacy data can be lost only through a process that
   looked for the primary database before it took the migration lock and moves
   over a database that appeared in between.  migrateLegacyData does not look
   again under the lock. *)
OnlyAStaleLookLoses == stale = {} => LegacySurvives

(* TriageLostOnlyToAMove: committed triage stays in the database a later start
   will open, unless its process connected while another one was moving the
   legacy data in, or a stale look let a move replace the database. *)
TriageLostOnlyToAMove ==
    \A p \in wrote : Holds("primary", p) \/ p \in bypass \/ stale # {}

(* VersionIsSchema: schema_version tells which migrations a database has had, so
   that a later start applies the missing ones and no other. *)
VersionIsSchema == \A i \in Inode : data[i].version = data[i].schema

(* OnlyRaceOrMisreadBreaksOpen: the version disagrees with the schema, or a
   migration is about to fail, only after one process has applied migrations
   between another one's look at the version and its transaction, or after a
   version query that failed has made a process start again from migration 1.
   And who is about to fail always holds a version older than the file's. *)
Doomed(p) == pc[p] = "migrate" /\ seen[p] < NumMigrations /\ ~Applies(data[conn[p]], seen[p] + 1)
OnlyRaceOrMisreadBreaksOpen ==
    ~raced /\ ~misled =>
        VersionIsSchema /\ \A p \in Process : Doomed(p) => seen[p] < data[conn[p]].version
=============================================================================
