------------------------- MODULE DatabaseOpenProofs -------------------------
(* The safety of DatabaseOpen for any number of processes, faults and
   migrations: what a move may lose, and through which race alone. *)
EXTENDS DatabaseOpen, TLAPS

USE DatabaseAssumption DEF vars, files, versions, history, Goto

(* A connected process has a file. *)
Connected == \A p \in Process : pc[p] \in {"version", "migrate", "running"} => conn[p] \in Inode

(* Who moves holds the lock, alone. *)
OneMover ==
    /\ \A p \in holder : pc[p] \in MovePhase
    /\ \A p \in Process : pc[p] \in MovePhase => holder = {p}

(* Who goes to lock has seen no primary database. *)
HasLooked == \A p \in Process : pc[p] \in {"discover", "lock"} => p \in looked

(* Where the legacy rows are at each step of a move. *)
MoveKeeps ==
    stale = {} /\ LegacyExists =>
        /\ Holds("legacy", "legacy") \/ Holds("primary", "legacy")
        /\ \A p \in Process :
            /\ pc[p] \in {"checkpoint", "stage", "copy", "swap", "setAside", "swapAgain"}
                 => Holds("legacy", "legacy")
            /\ pc[p] \in {"swap", "setAside", "swapAgain"} => Holds("staging", "legacy")
            /\ pc[p] \in {"dropAside", "removeFile", "removeDir"} => Holds("primary", "legacy")

(* Who connected outside a move has the primary database open or its row in it,
   and nothing has been moved since. *)
Settled(p) == p \notin bypass /\ (conn[p] # Absent \/ p \in wrote)
NoMoveSince ==
    stale = {} => \A p \in Process : Settled(p) =>
        /\ holder = {} /\ at["primary"] \in Inode
        /\ conn[p] # Absent => conn[p] = at["primary"]
        /\ p \in wrote => Holds("primary", p)

VersionUnlessBroken == ~raced /\ ~misled => VersionIsSchema

IInv == TypeOK /\ Connected /\ OneMover /\ HasLooked /\ MoveKeeps /\ NoMoveSince /\ VersionUnlessBroken

-----------------------------------------------------------------------------
Step(p) ==
    \/ Start(p) \/ Look(p) \/ Discover(p) \/ Lock(p) \/ Move(p)
    \/ SecureDir(p) \/ Connect(p) \/ ReadVersion(p) \/ ApplyMigration(p)
    \/ MigrationFails(p) \/ Migrated(p) \/ Triage(p) \/ Crash(p)

(* A new file gets an inode nothing refers to. *)
LEMMA FreshIsUnused == HasFresh => FreshInode \in Inode /\ FreshInode \notin InUse
BY DEF HasFresh, FreshInode

(* A step moves one process to a phase there is, and leaves the others where they
   were. *)
LEMMA PhaseStep ==
  ASSUME NEW p \in Process, Step(p), TypeOK
  PROVE  /\ pc' \in [Process -> Phase]
         /\ \A q \in Process : q # p => pc'[q] = pc[q] /\ conn'[q] = conn[q] /\ seen'[q] = seen[q]
<1>1. CASE Start(p)
  BY <1>1 DEF Start, Phase, MovePhase, TypeOK
<1>2. CASE Look(p)
  BY <1>2 DEF Look, Phase, MovePhase, TypeOK
<1>3. CASE Discover(p)
  BY <1>3 DEF Discover, Phase, MovePhase, TypeOK
<1>4. CASE Lock(p)
  BY <1>4 DEF Lock, Phase, MovePhase, TypeOK
<1>5. CASE Checkpoint(p)
  BY <1>5 DEF Checkpoint, Phase, MovePhase, TypeOK
<1>6. CASE ClearStaging(p)
  BY <1>6 DEF ClearStaging, Phase, MovePhase, TypeOK
<1>7. CASE Copy(p)
  BY <1>7 DEF Copy, Phase, MovePhase, TypeOK
<1>8. CASE StepFails(p)
  BY <1>8 DEF StepFails, GiveUp, Phase, MovePhase, TypeOK
<1>9. CASE Swap(p)
  BY <1>9 DEF Swap, Phase, MovePhase, TypeOK
<1>10. CASE SetAside(p)
  BY <1>10 DEF SetAside, Phase, MovePhase, TypeOK
<1>11. CASE SwapAgain(p)
  BY <1>11 DEF SwapAgain, Phase, MovePhase, TypeOK
<1>12. CASE SwapRefused(p)
  BY <1>12 DEF SwapRefused, GiveUp, Phase, MovePhase, TypeOK
<1>12b. CASE PutBack(p)
  BY <1>12b DEF PutBack, Phase, MovePhase, TypeOK
<1>13. CASE DropAside(p)
  BY <1>13 DEF DropAside, Phase, MovePhase, TypeOK
<1>14. CASE RemoveFile(p)
  BY <1>14 DEF RemoveFile, Phase, MovePhase, TypeOK
<1>15. CASE RemoveDir(p)
  BY <1>15 DEF RemoveDir, Phase, MovePhase, TypeOK
<1>16. CASE SecureDir(p)
  BY <1>16 DEF SecureDir, Phase, MovePhase, TypeOK
<1>17. CASE Connect(p)
  BY <1>17 DEF Connect, Phase, MovePhase, TypeOK
<1>18. CASE ReadVersion(p)
  BY <1>18 DEF ReadVersion, Phase, MovePhase, TypeOK
<1>19. CASE ApplyMigration(p)
  BY <1>19 DEF ApplyMigration, Phase, MovePhase, TypeOK
<1>20. CASE MigrationFails(p)
  BY <1>20 DEF MigrationFails, Phase, MovePhase, TypeOK
<1>21. CASE Migrated(p)
  BY <1>21 DEF Migrated, Phase, MovePhase, TypeOK
<1>22. CASE Triage(p)
  BY <1>22 DEF Triage, Phase, MovePhase, TypeOK
<1>23. CASE Crash(p)
  BY <1>23 DEF Crash, Phase, MovePhase, TypeOK
<1>24. QED
  BY <1>1, <1>2, <1>3, <1>4, <1>5, <1>6, <1>7, <1>8, <1>9, <1>10, <1>11, <1>12, <1>12b, <1>13, <1>14, <1>15, <1>16, <1>17, <1>18, <1>19, <1>20, <1>21, <1>22, <1>23 DEF Step, Move

(* A process keeps its file from Connect on. *)
LEMMA ConnectedStep ==
  ASSUME NEW p \in Process, Step(p), TypeOK, Connected
  PROVE  Connected'
<1>1. CASE Start(p)
  BY <1>1 DEF Start, TypeOK, Connected, MovePhase
<1>2. CASE Look(p)
  BY <1>2 DEF Look, TypeOK, Connected, MovePhase
<1>3. CASE Discover(p)
  BY <1>3 DEF Discover, TypeOK, Connected, MovePhase
<1>4. CASE Lock(p)
  BY <1>4 DEF Lock, TypeOK, Connected, MovePhase
<1>5. CASE Checkpoint(p)
  BY <1>5 DEF Checkpoint, TypeOK, Connected, MovePhase
<1>6. CASE ClearStaging(p)
  BY <1>6 DEF ClearStaging, TypeOK, Connected, MovePhase
<1>7. CASE Copy(p)
  BY <1>7 DEF Copy, TypeOK, Connected, MovePhase
<1>8. CASE StepFails(p)
  BY <1>8 DEF StepFails, GiveUp, TypeOK, Connected, MovePhase
<1>9. CASE Swap(p)
  BY <1>9 DEF Swap, TypeOK, Connected, MovePhase
<1>10. CASE SetAside(p)
  BY <1>10 DEF SetAside, TypeOK, Connected, MovePhase
<1>11. CASE SwapAgain(p)
  BY <1>11 DEF SwapAgain, TypeOK, Connected, MovePhase
<1>12. CASE SwapRefused(p)
  BY <1>12 DEF SwapRefused, GiveUp, TypeOK, Connected, MovePhase
<1>12b. CASE PutBack(p)
  BY <1>12b DEF PutBack, TypeOK, Connected, MovePhase
<1>13. CASE DropAside(p)
  BY <1>13 DEF DropAside, TypeOK, Connected, MovePhase
<1>14. CASE RemoveFile(p)
  BY <1>14 DEF RemoveFile, TypeOK, Connected, MovePhase
<1>15. CASE RemoveDir(p)
  BY <1>15 DEF RemoveDir, TypeOK, Connected, MovePhase
<1>16. CASE SecureDir(p)
  BY <1>16 DEF SecureDir, TypeOK, Connected, MovePhase
<1>17. CASE Connect(p)
  <2>1. at["primary"] \in Inode \cup {Absent, NoDb}
    BY DEF TypeOK, Held, Location
  <2>2. pc'[p] = "version" => conn'[p] \in Inode
    BY <2>1, <1>17, FreshIsUnused DEF Connect, TypeOK, Location
  <2>3. QED  BY <2>2, <1>17 DEF Connect, TypeOK, Connected
<1>18. CASE ReadVersion(p)
  BY <1>18 DEF ReadVersion, TypeOK, Connected, MovePhase
<1>19. CASE ApplyMigration(p)
  BY <1>19 DEF ApplyMigration, TypeOK, Connected, MovePhase
<1>20. CASE MigrationFails(p)
  BY <1>20 DEF MigrationFails, TypeOK, Connected, MovePhase
<1>21. CASE Migrated(p)
  BY <1>21 DEF Migrated, TypeOK, Connected, MovePhase
<1>22. CASE Triage(p)
  BY <1>22 DEF Triage, TypeOK, Connected, MovePhase
<1>23. CASE Crash(p)
  BY <1>23 DEF Crash, TypeOK, Connected, MovePhase
<1>24. QED
  BY <1>1, <1>2, <1>3, <1>4, <1>5, <1>6, <1>7, <1>8, <1>9, <1>10, <1>11, <1>12, <1>12b, <1>13, <1>14, <1>15, <1>16, <1>17, <1>18, <1>19, <1>20, <1>21, <1>22, <1>23 DEF Step, Move

(* The lock is taken when free, and given up with the move. *)
LEMMA OneMoverStep ==
  ASSUME NEW p \in Process, Step(p), TypeOK, OneMover
  PROVE  OneMover'
<1>1. CASE Start(p)
  BY <1>1 DEF Start, TypeOK, OneMover, MovePhase
<1>2. CASE Look(p)
  BY <1>2 DEF Look, TypeOK, OneMover, MovePhase
<1>3. CASE Discover(p)
  BY <1>3 DEF Discover, TypeOK, OneMover, MovePhase
<1>4. CASE Lock(p)
  BY <1>4 DEF Lock, TypeOK, OneMover, MovePhase
<1>5. CASE Checkpoint(p)
  BY <1>5 DEF Checkpoint, TypeOK, OneMover, MovePhase
<1>6. CASE ClearStaging(p)
  BY <1>6 DEF ClearStaging, TypeOK, OneMover, MovePhase
<1>7. CASE Copy(p)
  BY <1>7 DEF Copy, TypeOK, OneMover, MovePhase
<1>8. CASE StepFails(p)
  BY <1>8 DEF StepFails, GiveUp, TypeOK, OneMover, MovePhase
<1>9. CASE Swap(p)
  BY <1>9 DEF Swap, TypeOK, OneMover, MovePhase
<1>10. CASE SetAside(p)
  BY <1>10 DEF SetAside, TypeOK, OneMover, MovePhase
<1>11. CASE SwapAgain(p)
  BY <1>11 DEF SwapAgain, TypeOK, OneMover, MovePhase
<1>12. CASE SwapRefused(p)
  BY <1>12 DEF SwapRefused, GiveUp, TypeOK, OneMover, MovePhase
<1>12b. CASE PutBack(p)
  BY <1>12b DEF PutBack, TypeOK, OneMover, MovePhase
<1>13. CASE DropAside(p)
  BY <1>13 DEF DropAside, TypeOK, OneMover, MovePhase
<1>14. CASE RemoveFile(p)
  BY <1>14 DEF RemoveFile, TypeOK, OneMover, MovePhase
<1>15. CASE RemoveDir(p)
  BY <1>15 DEF RemoveDir, TypeOK, OneMover, MovePhase
<1>16. CASE SecureDir(p)
  BY <1>16 DEF SecureDir, TypeOK, OneMover, MovePhase
<1>17. CASE Connect(p)
  BY <1>17 DEF Connect, TypeOK, OneMover, MovePhase
<1>18. CASE ReadVersion(p)
  BY <1>18 DEF ReadVersion, TypeOK, OneMover, MovePhase
<1>19. CASE ApplyMigration(p)
  BY <1>19 DEF ApplyMigration, TypeOK, OneMover, MovePhase
<1>20. CASE MigrationFails(p)
  BY <1>20 DEF MigrationFails, TypeOK, OneMover, MovePhase
<1>21. CASE Migrated(p)
  BY <1>21 DEF Migrated, TypeOK, OneMover, MovePhase
<1>22. CASE Triage(p)
  BY <1>22 DEF Triage, TypeOK, OneMover, MovePhase
<1>23. CASE Crash(p)
  BY <1>23 DEF Crash, TypeOK, OneMover, MovePhase
<1>24. QED
  BY <1>1, <1>2, <1>3, <1>4, <1>5, <1>6, <1>7, <1>8, <1>9, <1>10, <1>11, <1>12, <1>12b, <1>13, <1>14, <1>15, <1>16, <1>17, <1>18, <1>19, <1>20, <1>21, <1>22, <1>23 DEF Step, Move

(* Lock is reached by a look that found no primary database. *)
LEMMA HasLookedStep ==
  ASSUME NEW p \in Process, Step(p), TypeOK, HasLooked
  PROVE  HasLooked'
<1>1. CASE Start(p)
  BY <1>1 DEF Start, TypeOK, HasLooked, MovePhase
<1>2. CASE Look(p)
  BY <1>2 DEF Look, TypeOK, HasLooked, MovePhase
<1>3. CASE Discover(p)
  BY <1>3 DEF Discover, TypeOK, HasLooked, MovePhase
<1>4. CASE Lock(p)
  BY <1>4 DEF Lock, TypeOK, HasLooked, MovePhase
<1>5. CASE Checkpoint(p)
  BY <1>5 DEF Checkpoint, TypeOK, HasLooked, MovePhase
<1>6. CASE ClearStaging(p)
  BY <1>6 DEF ClearStaging, TypeOK, HasLooked, MovePhase
<1>7. CASE Copy(p)
  BY <1>7 DEF Copy, TypeOK, HasLooked, MovePhase
<1>8. CASE StepFails(p)
  BY <1>8 DEF StepFails, GiveUp, TypeOK, HasLooked, MovePhase
<1>9. CASE Swap(p)
  BY <1>9 DEF Swap, TypeOK, HasLooked, MovePhase
<1>10. CASE SetAside(p)
  BY <1>10 DEF SetAside, TypeOK, HasLooked, MovePhase
<1>11. CASE SwapAgain(p)
  BY <1>11 DEF SwapAgain, TypeOK, HasLooked, MovePhase
<1>12. CASE SwapRefused(p)
  BY <1>12 DEF SwapRefused, GiveUp, TypeOK, HasLooked, MovePhase
<1>12b. CASE PutBack(p)
  BY <1>12b DEF PutBack, TypeOK, HasLooked, MovePhase
<1>13. CASE DropAside(p)
  BY <1>13 DEF DropAside, TypeOK, HasLooked, MovePhase
<1>14. CASE RemoveFile(p)
  BY <1>14 DEF RemoveFile, TypeOK, HasLooked, MovePhase
<1>15. CASE RemoveDir(p)
  BY <1>15 DEF RemoveDir, TypeOK, HasLooked, MovePhase
<1>16. CASE SecureDir(p)
  BY <1>16 DEF SecureDir, TypeOK, HasLooked, MovePhase
<1>17. CASE Connect(p)
  BY <1>17 DEF Connect, TypeOK, HasLooked, MovePhase
<1>18. CASE ReadVersion(p)
  BY <1>18 DEF ReadVersion, TypeOK, HasLooked, MovePhase
<1>19. CASE ApplyMigration(p)
  BY <1>19 DEF ApplyMigration, TypeOK, HasLooked, MovePhase
<1>20. CASE MigrationFails(p)
  BY <1>20 DEF MigrationFails, TypeOK, HasLooked, MovePhase
<1>21. CASE Migrated(p)
  BY <1>21 DEF Migrated, TypeOK, HasLooked, MovePhase
<1>22. CASE Triage(p)
  BY <1>22 DEF Triage, TypeOK, HasLooked, MovePhase
<1>23. CASE Crash(p)
  BY <1>23 DEF Crash, TypeOK, HasLooked, MovePhase
<1>24. QED
  BY <1>1, <1>2, <1>3, <1>4, <1>5, <1>6, <1>7, <1>8, <1>9, <1>10, <1>11, <1>12, <1>12b, <1>13, <1>14, <1>15, <1>16, <1>17, <1>18, <1>19, <1>20, <1>21, <1>22, <1>23 DEF Step, Move
(* What a step does to the contents of the files: the legacy rows are copied and
   never made, and a file in use keeps its rows. *)
DataStep ==
    /\ data' \in [Inode -> Contents]
    /\ \A i \in Inode : "legacy" \in data'[i].rows => LegacyExists
    /\ \A i \in Inode \cap InUse : data[i].rows \subseteq data'[i].rows

(* A step that writes no file makes none that holds legacy rows. *)
LEMMA SameData == TypeOK /\ UNCHANGED data => DataStep
BY DEF TypeOK, DataStep, LegacyExists

(* A new file is a copy of one there is, or empty. *)
LEMMA NewFile ==
  ASSUME TypeOK, HasFresh, NEW c \in Contents, "legacy" \in c.rows => LegacyExists,
         data' = [data EXCEPT ![FreshInode] = c]
  PROVE  DataStep /\ data'[FreshInode] = c
BY FreshIsUnused DEF TypeOK, DataStep, LegacyExists

(* A migration that is recorded keeps the rows and sets the version. *)
LEMMA RecordedType ==
  ASSUME NEW db \in Contents, NEW i \in 1 .. NumMigrations
  PROVE  /\ Recorded(db, i) \in Contents /\ Recorded(db, i).rows = db.rows
         /\ Recorded(db, i).version = i /\ Recorded(db, i).schema = AtLeast(db.schema, i)
<1>1. AtLeast(db.schema, i) \in 0 .. NumMigrations
  BY DEF AtLeast, Contents
<1>2. /\ db = [rows |-> db.rows, version |-> db.version, schema |-> db.schema]
      /\ db.rows \in SUBSET (Process \cup {"legacy"}) /\ i \in 0 .. NumMigrations
  BY DEF Contents
<1> DEFINE r == Recorded(db, i)
<1>3. /\ DOMAIN r = DOMAIN db /\ r.rows = db.rows /\ r.version = i
      /\ r.schema = AtLeast(db.schema, i)
  BY <1>2 DEF Recorded, Contents
<1>4. r \in Contents
  <2>1. r = [db EXCEPT !.version = i, !.schema = AtLeast(db.schema, i)]
    BY <1>2 DEF Recorded
  <2>2. QED  BY <1>1, <1>2, <2>1 DEF Contents
<1>5. QED  BY <1>3, <1>4

(* Every step copies, creates or changes files as DataStep says. *)
LEMMA DataSteps ==
  ASSUME NEW p \in Process, Step(p), TypeOK, Connected
  PROVE  DataStep
<1>e. Empty \in Contents /\ Empty.rows = {}
  BY DEF Empty, Contents
<1>1. CASE Start(p)
  BY SameData, <1>1 DEF Start
<1>2. CASE Look(p)
  BY SameData, <1>2 DEF Look
<1>3. CASE Discover(p)
  BY SameData, <1>3 DEF Discover
<1>4. CASE Lock(p)
  BY SameData, <1>4 DEF Lock
<1>5. CASE Checkpoint(p)
  <2>1. CASE at["legacy"] = NoDb
    BY <1>e, <2>1, <1>5, NewFile DEF Checkpoint
  <2>2. CASE at["legacy"] # NoDb
    BY <2>2, <1>5, SameData DEF Checkpoint
  <2>3. QED  BY <2>1, <2>2
<1>6. CASE ClearStaging(p)
  BY SameData, <1>6 DEF ClearStaging
<1>7. CASE Copy(p)
  <2>1. at["legacy"] \in Inode /\ HasFresh /\ data' = [data EXCEPT ![FreshInode] = data[at["legacy"]]]
    BY <1>7 DEF Copy
  <2>2. data[at["legacy"]] \in Contents /\ ("legacy" \in data[at["legacy"]].rows => LegacyExists)
    BY <2>1 DEF TypeOK, LegacyExists
  <2>3. QED  BY <2>1, <2>2, NewFile
<1>8. CASE StepFails(p)
  BY SameData, <1>8 DEF StepFails, GiveUp
<1>9. CASE Swap(p)
  BY SameData, <1>9 DEF Swap
<1>10. CASE SetAside(p)
  BY SameData, <1>10 DEF SetAside
<1>11. CASE SwapAgain(p)
  BY SameData, <1>11 DEF SwapAgain
<1>12. CASE SwapRefused(p)
  BY SameData, <1>12 DEF SwapRefused, GiveUp
<1>12b. CASE PutBack(p)
  BY SameData, <1>12b DEF PutBack
<1>13. CASE DropAside(p)
  BY SameData, <1>13 DEF DropAside
<1>14. CASE RemoveFile(p)
  BY SameData, <1>14 DEF RemoveFile
<1>15. CASE RemoveDir(p)
  BY SameData, <1>15 DEF RemoveDir
<1>16. CASE SecureDir(p)
  BY SameData, <1>16 DEF SecureDir
<1>17. CASE Connect(p)
  <2>1. CASE at["primary"] = NoDb
    BY <1>e, <2>1, <1>17, NewFile DEF Connect
  <2>2. CASE at["primary"] # NoDb
    BY <2>2, <1>17, SameData DEF Connect
  <2>3. QED  BY <2>1, <2>2
<1>18. CASE ReadVersion(p)
  BY SameData, <1>18 DEF ReadVersion
<1>19. CASE ApplyMigration(p)
  <2> DEFINE c == conn[p]
             i == seen[p] + 1
  <2>1. c \in Inode /\ data[c] \in Contents /\ i \in 1 .. NumMigrations
    BY <1>19 DEF ApplyMigration, Connected, TypeOK
  <2>2. data' = [data EXCEPT ![c] = Recorded(data[c], i)]
    BY <1>19 DEF ApplyMigration
  <2>3. Recorded(data[c], i) \in Contents /\ Recorded(data[c], i).rows = data[c].rows
    BY <2>1, RecordedType
  <2> HIDE DEF c, i
  <2>4. QED  BY <2>1, <2>2, <2>3 DEF TypeOK, DataStep, LegacyExists
<1>20. CASE MigrationFails(p)
  BY SameData, <1>20 DEF MigrationFails
<1>21. CASE Migrated(p)
  BY SameData, <1>21 DEF Migrated
<1>22. CASE Triage(p)
  <2> DEFINE c == conn[p]
  <2>1. c \in Inode /\ data[c] \in Contents
    BY <1>22 DEF Triage, Connected, TypeOK
  <2>2. data' = [data EXCEPT ![c].rows = @ \cup {p}]
    BY <1>22 DEF Triage
  <2> HIDE DEF c
  <2>3. /\ data' \in [Inode -> Contents]
        /\ \A i \in Inode : data'[i].rows = IF i = c THEN data[i].rows \cup {p} ELSE data[i].rows
    BY <2>1, <2>2 DEF TypeOK, Contents
  <2>4. QED  BY <2>3 DEF DataStep, LegacyExists
<1>23. CASE Crash(p)
  BY SameData, <1>23 DEF Crash
<1>24. QED
  BY <1>1, <1>2, <1>3, <1>4, <1>5, <1>6, <1>7, <1>8, <1>9, <1>10, <1>11, <1>12, <1>12b, <1>13, <1>14, <1>15, <1>16, <1>17, <1>18, <1>19, <1>20, <1>21, <1>22, <1>23 DEF Step, Move

(* Every step keeps the types. *)
LEMMA TypeStep ==
  ASSUME NEW p \in Process, Step(p), TypeOK, Connected
  PROVE  TypeOK'
<1>d. data' \in [Inode -> Contents]
  BY DataSteps DEF DataStep
<1>p. pc' \in [Process -> Phase]
  BY PhaseStep
<1>1. CASE Start(p)
  BY <1>d, <1>p, <1>1 DEF Start, TypeOK, Held, Location
<1>2. CASE Look(p)
  BY <1>d, <1>p, <1>2 DEF Look, TypeOK, Held, Location
<1>3. CASE Discover(p)
  BY <1>d, <1>p, <1>3 DEF Discover, TypeOK, Held, Location
<1>4. CASE Lock(p)
  BY <1>d, <1>p, <1>4 DEF Lock, TypeOK, Held, Location
<1>5. CASE Checkpoint(p)
  <2>1. HasFresh \/ UNCHANGED at
    BY <1>5 DEF Checkpoint
  <2>2. at' \in [Location -> Held]
    BY <2>1, <1>5, FreshIsUnused DEF Checkpoint, TypeOK, Held, Location
  <2>3. QED  BY <1>d, <1>p, <2>2, <1>5 DEF Checkpoint, TypeOK
<1>6. CASE ClearStaging(p)
  BY <1>d, <1>p, <1>6 DEF ClearStaging, TypeOK, Held, Location
<1>7. CASE Copy(p)
  <2>1. at' \in [Location -> Held]
    BY <1>7, FreshIsUnused DEF Copy, TypeOK, Held, Location
  <2>2. QED  BY <1>d, <1>p, <2>1, <1>7 DEF Copy, TypeOK
<1>8. CASE StepFails(p)
  BY <1>d, <1>p, <1>8 DEF StepFails, GiveUp, Fault, TypeOK, Held, Location
<1>9. CASE Swap(p)
  BY <1>d, <1>p, <1>9 DEF Swap, TypeOK, Held, Location
<1>10. CASE SetAside(p)
  BY <1>d, <1>p, <1>10 DEF SetAside, TypeOK, Held, Location
<1>11. CASE SwapAgain(p)
  BY <1>d, <1>p, <1>11 DEF SwapAgain, TypeOK, Held, Location
<1>12. CASE SwapRefused(p)
  BY <1>d, <1>p, <1>12 DEF SwapRefused, GiveUp, TypeOK, Held, Location
<1>12b. CASE PutBack(p)
  <2>1. at' \in [Location -> Held] /\ aside' \in [Process -> Held]
    BY <1>12b DEF PutBack, TypeOK, Held, Location
  <2>2. QED  BY <1>d, <1>p, <2>1, <1>12b DEF PutBack, Fault, TypeOK
<1>13. CASE DropAside(p)
  BY <1>d, <1>p, <1>13 DEF DropAside, TypeOK, Held, Location
<1>14. CASE RemoveFile(p)
  BY <1>d, <1>p, <1>14 DEF RemoveFile, TypeOK, Held, Location
<1>15. CASE RemoveDir(p)
  BY <1>d, <1>p, <1>15 DEF RemoveDir, TypeOK, Held, Location
<1>16. CASE SecureDir(p)
  BY <1>d, <1>p, <1>16 DEF SecureDir, TypeOK, Held, Location
<1>17. CASE Connect(p)
  <2>1. at["primary"] \in Inode \cup {Absent, NoDb} /\ at \in [Location -> Held]
    BY DEF TypeOK, Held, Location
  <2>2. at' \in [Location -> Held] /\ at'["primary"] \in Inode \cup {Absent}
    BY <2>1, <1>17, FreshIsUnused DEF Connect, Held, Location
  <2>3. conn' \in [Process -> Inode \cup {Absent}]
    BY <2>2, <1>17 DEF Connect, TypeOK
  <2>4. QED  BY <1>d, <1>p, <2>2, <2>3, <1>17 DEF Connect, TypeOK
<1>18. CASE ReadVersion(p)
  <2>1. conn[p] \in Inode /\ data[conn[p]].version \in 0 .. NumMigrations
    BY <1>18 DEF ReadVersion, Connected, TypeOK, Contents
  <2>2. QED  BY <1>d, <1>p, <2>1, <1>18 DEF ReadVersion, Fault, TypeOK
<1>19. CASE ApplyMigration(p)
  <2>1. seen[p] + 1 \in 0 .. NumMigrations
    BY <1>19 DEF ApplyMigration, TypeOK
  <2>2. seen' \in [Process -> 0 .. NumMigrations]
    BY <2>1, <1>19 DEF ApplyMigration, TypeOK
  <2>3. raced' \in BOOLEAN /\ misled' \in BOOLEAN /\ misread' \subseteq Process
    BY <1>19 DEF ApplyMigration, NoteUse, TypeOK
  <2>4. QED  BY <1>d, <1>p, <2>2, <2>3, <1>19 DEF ApplyMigration, TypeOK
<1>20. CASE MigrationFails(p)
  <2>1. raced' \in BOOLEAN /\ misled' \in BOOLEAN /\ misread' \subseteq Process
    BY <1>20 DEF MigrationFails, NoteUse, TypeOK
  <2>2. QED  BY <1>d, <1>p, <2>1, <1>20 DEF MigrationFails, TypeOK, Held, Location
<1>21. CASE Migrated(p)
  BY <1>d, <1>p, <1>21 DEF Migrated, TypeOK, Held, Location
<1>22. CASE Triage(p)
  BY <1>d, <1>p, <1>22 DEF Triage, TypeOK, Held, Location
<1>23. CASE Crash(p)
  BY <1>d, <1>p, <1>23 DEF Crash, Fault, TypeOK, Held, Location
<1>24. QED
  BY <1>1, <1>2, <1>3, <1>4, <1>5, <1>6, <1>7, <1>8, <1>9, <1>10, <1>11, <1>12, <1>12b, <1>13, <1>14, <1>15, <1>16, <1>17, <1>18, <1>19, <1>20, <1>21, <1>22, <1>23 DEF Step, Move
-----------------------------------------------------------------------------
(* The legacy rows *)

LEMMA RowsStay ==
  ASSUME TypeOK, DataStep, NEW l \in Location, NEW row, at'[l] = at[l], Holds(l, row)
  PROVE  Holds(l, row)'
<1>1. at[l] \in Inode /\ at[l] \in InUse
  BY DEF Holds, InUse
<1>2. QED  BY <1>1 DEF Holds, DataStep

BeforeSwap == {"checkpoint", "stage", "copy", "swap", "setAside", "swapAgain"}
Staged == {"swap", "setAside", "swapAgain"}
Swapped == {"dropAside", "removeFile", "removeDir"}

(* What was a race remains one. *)
LEMMA StaleGrows ==
  ASSUME NEW p \in Process, Step(p)
  PROVE  stale \subseteq stale' /\ bypass \subseteq bypass' /\ (raced => raced') /\ (misled => misled')
<1>1. CASE Start(p)
  BY <1>1 DEF Start
<1>2. CASE Look(p)
  BY <1>2 DEF Look
<1>3. CASE Discover(p)
  BY <1>3 DEF Discover
<1>4. CASE Lock(p)
  BY <1>4 DEF Lock
<1>5. CASE Checkpoint(p)
  BY <1>5 DEF Checkpoint
<1>6. CASE ClearStaging(p)
  BY <1>6 DEF ClearStaging
<1>7. CASE Copy(p)
  BY <1>7 DEF Copy
<1>8. CASE StepFails(p)
  BY <1>8 DEF StepFails, GiveUp
<1>9. CASE Swap(p)
  BY <1>9 DEF Swap
<1>10. CASE SetAside(p)
  BY <1>10 DEF SetAside
<1>11. CASE SwapAgain(p)
  BY <1>11 DEF SwapAgain
<1>12. CASE SwapRefused(p)
  BY <1>12 DEF SwapRefused, GiveUp
<1>12b. CASE PutBack(p)
  BY <1>12b DEF PutBack
<1>13. CASE DropAside(p)
  BY <1>13 DEF DropAside
<1>14. CASE RemoveFile(p)
  BY <1>14 DEF RemoveFile
<1>15. CASE RemoveDir(p)
  BY <1>15 DEF RemoveDir
<1>16. CASE SecureDir(p)
  BY <1>16 DEF SecureDir
<1>17. CASE Connect(p)
  BY <1>17 DEF Connect
<1>18. CASE ReadVersion(p)
  BY <1>18 DEF ReadVersion
<1>19. CASE ApplyMigration(p)
  BY <1>19 DEF ApplyMigration, NoteUse
<1>20. CASE MigrationFails(p)
  BY <1>20 DEF MigrationFails, NoteUse
<1>21. CASE Migrated(p)
  BY <1>21 DEF Migrated
<1>22. CASE Triage(p)
  BY <1>22 DEF Triage
<1>23. CASE Crash(p)
  BY <1>23 DEF Crash
<1>24. QED
  BY <1>1, <1>2, <1>3, <1>4, <1>5, <1>6, <1>7, <1>8, <1>9, <1>10, <1>11, <1>12, <1>12b, <1>13, <1>14, <1>15, <1>16, <1>17, <1>18, <1>19, <1>20, <1>21, <1>22, <1>23 DEF Step, Move

(* Each file operation of a move keeps the legacy rows somewhere. *)
LEMMA MoveKeepsStep ==
  ASSUME NEW p \in Process, Step(p), IInv
  PROVE  MoveKeeps'
<1> DEFINE L == "legacy"
<1> SUFFICES ASSUME stale' = {}, LegacyExists'
             PROVE  /\ Holds(L, L)' \/ Holds("primary", L)'
                    /\ \A q \in Process :
                        /\ pc'[q] \in BeforeSwap => Holds(L, L)'
                        /\ pc'[q] \in Staged => Holds("staging", L)'
                        /\ pc'[q] \in Swapped => Holds("primary", L)'
  BY DEF MoveKeeps, BeforeSwap, Staged, Swapped
<1>a. DataStep /\ TypeOK
  BY DataSteps DEF IInv
<1>b. stale = {} /\ LegacyExists
  BY <1>a, StaleGrows DEF DataStep, LegacyExists
<1>c. /\ Holds(L, L) \/ Holds("primary", L)
      /\ \A q \in Process :
          /\ pc[q] \in BeforeSwap => Holds(L, L)
          /\ pc[q] \in Staged => Holds("staging", L)
          /\ pc[q] \in Swapped => Holds("primary", L)
  BY <1>b DEF IInv, MoveKeeps, BeforeSwap, Staged, Swapped
<1>d. \A l \in Location : at'[l] = at[l] /\ Holds(l, L) => Holds(l, L)'
  BY <1>a, RowsStay
<1>e. /\ pc \in [Process -> Phase] /\ pc' \in [Process -> Phase] /\ at \in [Location -> Held]
      /\ \A q \in Process : q # p => pc'[q] = pc[q]
  BY <1>a, PhaseStep DEF TypeOK
<1>f. \A l \in Location : Holds(l, L) => at[l] \in Inode
  BY DEF Holds
(* No one else moves while p does. *)
<1>g. pc[p] \in MovePhase => \A q \in Process : q # p => pc'[q] \notin BeforeSwap \cup Staged \cup Swapped
  BY <1>e DEF IInv, OneMover, BeforeSwap, Staged, Swapped, MovePhase
<1> DEFINE Goal == /\ Holds(L, L)' \/ Holds("primary", L)'
                   /\ \A q \in Process :
                        /\ pc'[q] \in BeforeSwap => Holds(L, L)'
                        /\ pc'[q] \in Staged => Holds("staging", L)'
                        /\ pc'[q] \in Swapped => Holds("primary", L)'
(* A step that leaves the directories alone and does not begin a move. *)
<1>h. ASSUME UNCHANGED at,
             \/ pc'[p] = pc[p]
             \/ pc'[p] \notin BeforeSwap \cup Staged \cup Swapped
             \/ pc[p] \in BeforeSwap /\ pc'[p] \in BeforeSwap /\ (pc'[p] \in Staged => pc[p] \in Staged)
             \/ pc[p] \in Swapped /\ pc'[p] \in Swapped
      PROVE  Goal
  <2>1. \A l \in Location : Holds(l, L) => Holds(l, L)'
    BY <1>d, <1>h
  <2>2. \A q \in Process :
          /\ pc'[q] \in BeforeSwap => Holds(L, L)'
          /\ pc'[q] \in Staged => Holds("staging", L)'
          /\ pc'[q] \in Swapped => Holds("primary", L)'
    <3>1. ASSUME NEW q \in Process, q # p
          PROVE  /\ pc'[q] \in BeforeSwap => Holds(L, L)'
                 /\ pc'[q] \in Staged => Holds("staging", L)'
                 /\ pc'[q] \in Swapped => Holds("primary", L)'
      BY <1>c, <1>e, <2>1, <3>1 DEF Location
    <3>2. /\ pc'[p] \in BeforeSwap => Holds(L, L)'
          /\ pc'[p] \in Staged => Holds("staging", L)'
          /\ pc'[p] \in Swapped => Holds("primary", L)'
      BY <1>c, <1>h, <2>1 DEF Location, BeforeSwap, Staged, Swapped
    <3>3. QED  BY <3>1, <3>2
  <2>3. QED  BY <1>c, <2>1, <2>2 DEF Location
(* A step of the mover. *)
<1>i. ASSUME pc[p] \in MovePhase,
             Holds(L, L)' \/ Holds("primary", L)',
             pc'[p] \in BeforeSwap => Holds(L, L)',
             pc'[p] \in Staged => Holds("staging", L)',
             pc'[p] \in Swapped => Holds("primary", L)'
      PROVE  Goal
  BY <1>g, <1>i
<1>1. CASE Start(p)
  BY <1>e, <1>h, <1>1 DEF Start, MovePhase, BeforeSwap, Staged, Swapped
<1>2. CASE Look(p)
  BY <1>e, <1>h, <1>2 DEF Look, MovePhase, BeforeSwap, Staged, Swapped
<1>3. CASE Discover(p)
  BY <1>e, <1>h, <1>3 DEF Discover, MovePhase, BeforeSwap, Staged, Swapped
<1>4. CASE Lock(p)
  <2>1. CASE holder # {}
    BY <1>e, <1>h, <2>1, <1>4 DEF Lock, BeforeSwap, Staged, Swapped
  <2>2. CASE holder = {}
    <3>1. p \in looked /\ pc'[p] = "checkpoint" /\ UNCHANGED at
      BY <1>e, <2>2, <1>4 DEF Lock, IInv, HasLooked
    <3>2. at["primary"] \notin Inode
      BY <2>2, <3>1, <1>4 DEF Lock
    <3>3. Holds(L, L)'
      BY <1>c, <1>d, <1>f, <3>1, <3>2 DEF Location
    <3>4. \A q \in Process : q # p => pc'[q] \notin BeforeSwap \cup Staged \cup Swapped
      BY <1>e, <2>2 DEF IInv, OneMover, BeforeSwap, Staged, Swapped, MovePhase
    <3>5. pc'[p] \notin Staged \cup Swapped
      BY <3>1 DEF Staged, Swapped
    <3>6. QED  BY <3>3, <3>4, <3>5
  <2>3. QED  BY <2>1, <2>2
<1>5. CASE Checkpoint(p)
  <2>1. pc[p] = "checkpoint" /\ pc'[p] = "stage"
    BY <1>e, <1>5 DEF Checkpoint
  <2>2. Holds(L, L) /\ at[L] # NoDb
    BY <1>c, <1>f, <2>1 DEF BeforeSwap, Location
  <2>3. UNCHANGED at
    BY <2>2, <1>5 DEF Checkpoint
  <2>4. QED  BY <1>h, <2>1, <2>3 DEF BeforeSwap, Staged
<1>6. CASE ClearStaging(p)
  <2>1. pc[p] = "stage" /\ pc'[p] = "copy" /\ at'[L] = at[L]
    BY <1>e, <1>6 DEF ClearStaging, Location
  <2>2. Holds(L, L)'
    BY <1>c, <1>d, <2>1 DEF BeforeSwap, Location
  <2>3. QED  BY <1>i, <2>1, <2>2 DEF MovePhase, Staged, Swapped
<1>7. CASE Copy(p)
  <2>1. /\ pc[p] = "copy" /\ pc'[p] = "swap" /\ at'[L] = at[L] /\ HasFresh /\ at[L] \in Inode
        /\ at'["staging"] = FreshInode
        /\ data' = [data EXCEPT ![FreshInode] = data[at[L]]]
    BY <1>e, <1>7 DEF Copy, Location
  <2>2. Holds(L, L) /\ Holds(L, L)'
    BY <1>c, <1>d, <2>1 DEF BeforeSwap, Location
  <2>3. FreshInode \in Inode /\ data \in [Inode -> Contents]
    BY <1>a, <2>1, FreshIsUnused DEF TypeOK
  <2>4. Holds("staging", L)'
    BY <2>1, <2>2, <2>3 DEF Holds
  <2>5. QED  BY <1>i, <2>1, <2>2, <2>4 DEF MovePhase, Swapped
<1>8. CASE StepFails(p)
  BY <1>e, <1>h, <1>8 DEF StepFails, GiveUp, MovePhase, BeforeSwap, Staged, Swapped
<1>9. CASE Swap(p)
  <2>1. pc[p] = "swap" /\ Holds(L, L) /\ Holds("staging", L)
    BY <1>c, <1>9 DEF Swap, BeforeSwap, Staged
  <2>2. CASE at["primary"] = Absent
    <3>1. pc'[p] = "removeFile" /\ at'["primary"] = at["staging"] /\ UNCHANGED data
      BY <1>e, <2>2, <1>9 DEF Swap, Location
    <3>2. Holds("primary", L)'
      BY <2>1, <3>1 DEF Holds
    <3>3. QED  BY <1>i, <2>1, <3>1, <3>2 DEF MovePhase, BeforeSwap, Staged
  <2>3. CASE at["primary"] # Absent
    <3>1. pc'[p] = "setAside" /\ UNCHANGED at
      BY <1>e, <2>3, <1>9 DEF Swap
    <3>2. QED  BY <1>h, <2>1, <3>1 DEF BeforeSwap, Staged
  <2>4. QED  BY <2>2, <2>3
<1>10. CASE SetAside(p)
  <2>1. /\ pc[p] = "setAside" /\ pc'[p] = "swapAgain"
        /\ at'[L] = at[L] /\ at'["staging"] = at["staging"]
    BY <1>e, <1>10 DEF SetAside, Location
  <2>2. Holds(L, L)' /\ Holds("staging", L)'
    BY <1>c, <1>d, <2>1 DEF BeforeSwap, Staged, Location
  <2>3. QED  BY <1>i, <2>1, <2>2 DEF MovePhase, Swapped
<1>11. CASE SwapAgain(p)
  <2>1. /\ pc[p] = "swapAgain" /\ pc'[p] = "dropAside"
        /\ at'["primary"] = at["staging"] /\ UNCHANGED data
    BY <1>e, <1>11 DEF SwapAgain, Location
  <2>2. Holds("primary", L)'
    BY <1>c, <2>1 DEF Holds, Staged
  <2>3. QED  BY <1>i, <2>1, <2>2 DEF MovePhase, BeforeSwap, Staged
<1>12. CASE SwapRefused(p)
  BY <1>e, <1>h, <1>12 DEF SwapRefused, GiveUp, MovePhase, BeforeSwap, Staged, Swapped
<1>12b. CASE PutBack(p)
  <2>1. pc[p] = "swapAgain" /\ pc'[p] = "secure" /\ at'[L] = at[L]
    BY <1>e, <1>12b DEF PutBack, Location
  <2>2. Holds(L, L)'
    BY <1>c, <1>d, <2>1 DEF BeforeSwap, Location
  <2>3. QED  BY <1>i, <2>1, <2>2 DEF MovePhase, BeforeSwap, Staged, Swapped
<1>13. CASE DropAside(p)
  BY <1>e, <1>h, <1>13 DEF DropAside, MovePhase, BeforeSwap, Staged, Swapped
<1>14. CASE RemoveFile(p)
  <2>1. pc[p] = "removeFile" /\ pc'[p] = "removeDir" /\ at'["primary"] = at["primary"]
    BY <1>e, <1>14 DEF RemoveFile, Location
  <2>2. Holds("primary", L)'
    BY <1>c, <1>d, <2>1 DEF Swapped, Location
  <2>3. QED  BY <1>i, <2>1, <2>2 DEF MovePhase, BeforeSwap, Staged
<1>15. CASE RemoveDir(p)
  <2>1. pc[p] = "removeDir" /\ pc'[p] = "secure" /\ at'["primary"] = at["primary"]
    BY <1>e, <1>15 DEF RemoveDir, Location
  <2>2. Holds("primary", L)'
    BY <1>c, <1>d, <2>1 DEF Swapped, Location
  <2>3. QED  BY <1>i, <2>1, <2>2 DEF MovePhase, BeforeSwap, Staged, Swapped
<1>16. CASE SecureDir(p)
  <2>1. pc[p] = "secure" /\ pc'[p] = "connect"
    BY <1>e, <1>16 DEF SecureDir
  <2>2. /\ at'[L] = at[L] /\ at'["staging"] = at["staging"]
        /\ at["primary"] \in Inode => at'["primary"] = at["primary"]
    BY <1>e, <1>16 DEF SecureDir, Location
  <2>3. \A l \in Location : Holds(l, L) => Holds(l, L)'
    BY <1>d, <1>f, <2>2 DEF Location
  <2>4. pc'[p] \notin BeforeSwap \cup Staged \cup Swapped
    BY <2>1 DEF BeforeSwap, Staged, Swapped
  <2>5. QED  BY <1>c, <1>e, <2>3, <2>4 DEF Location
<1>17. CASE Connect(p)
  <2>1. pc'[p] \in {"failed", "version"}
    BY <1>e, <1>17 DEF Connect
  <2>2. /\ at'[L] = at[L] /\ at'["staging"] = at["staging"]
        /\ at["primary"] \in Inode => at'["primary"] = at["primary"]
    BY <1>e, <1>17 DEF Connect, Location
  <2>3. \A l \in Location : Holds(l, L) => Holds(l, L)'
    BY <1>d, <1>f, <2>2 DEF Location
  <2>4. pc'[p] \notin BeforeSwap \cup Staged \cup Swapped
    BY <2>1 DEF BeforeSwap, Staged, Swapped
  <2>5. QED  BY <1>c, <1>e, <2>3, <2>4 DEF Location
<1>18. CASE ReadVersion(p)
  BY <1>e, <1>h, <1>18 DEF ReadVersion, MovePhase, BeforeSwap, Staged, Swapped
<1>19. CASE ApplyMigration(p)
  BY <1>e, <1>h, <1>19 DEF ApplyMigration, MovePhase, BeforeSwap, Staged, Swapped
<1>20. CASE MigrationFails(p)
  BY <1>e, <1>h, <1>20 DEF MigrationFails, MovePhase, BeforeSwap, Staged, Swapped
<1>21. CASE Migrated(p)
  BY <1>e, <1>h, <1>21 DEF Migrated, MovePhase, BeforeSwap, Staged, Swapped
<1>22. CASE Triage(p)
  BY <1>e, <1>h, <1>22 DEF Triage, MovePhase, BeforeSwap, Staged, Swapped
<1>23. CASE Crash(p)
  BY <1>e, <1>h, <1>23 DEF Crash, MovePhase, BeforeSwap, Staged, Swapped
<1>24. QED
  BY <1>1, <1>2, <1>3, <1>4, <1>5, <1>6, <1>7, <1>8, <1>9, <1>10, <1>11, <1>12, <1>12b, <1>13, <1>14, <1>15, <1>16, <1>17, <1>18, <1>19, <1>20, <1>21, <1>22, <1>23 DEF Step, Move
-----------------------------------------------------------------------------
(* Committed triage *)

LEMMA NoMoveSinceStep ==
  ASSUME NEW p \in Process, Step(p), IInv
  PROVE  NoMoveSince'
<1> SUFFICES ASSUME stale' = {}, NEW q \in Process, q \notin bypass', conn'[q] # Absent \/ q \in wrote'
             PROVE  /\ holder' = {} /\ at'["primary"] \in Inode
                    /\ conn'[q] # Absent => conn'[q] = at'["primary"]
                    /\ q \in wrote' => Holds("primary", q)'
  BY DEF NoMoveSince, Settled
<1> DEFINE Goal == /\ holder' = {} /\ at'["primary"] \in Inode
                   /\ conn'[q] # Absent => conn'[q] = at'["primary"]
                   /\ q \in wrote' => Holds("primary", q)'
<1>a. DataStep /\ TypeOK /\ Connected /\ OneMover
  BY DataSteps DEF IInv
<1>b. stale = {} /\ q \notin bypass
  BY StaleGrows
<1>c. Settled(q) => /\ holder = {} /\ at["primary"] \in Inode
                    /\ conn[q] # Absent => conn[q] = at["primary"]
                    /\ q \in wrote => Holds("primary", q)
  BY <1>b DEF IInv, NoMoveSince
(* Who has not connected yet: only its connection makes it settled. *)
<1>d. CASE ~Settled(q)
  <2>1. conn[q] = Absent /\ q \notin wrote
    BY <1>b, <1>d DEF Settled
  <2>2. Connect(p) /\ p = q
    <3>1. pc[p] = "running" => conn[p] # Absent
      BY <1>a DEF Connected
    <3>2. CASE Connect(p)
      <4>1. q \notin wrote' /\ conn' = [conn EXCEPT ![p] = at'["primary"]] /\ conn \in [Process -> Inode \cup {Absent}]
        BY <1>a, <2>1, <3>2 DEF Connect, TypeOK
      <4>2. QED  BY <2>1, <3>2, <4>1
    <3>3. CASE Triage(p)
      BY <2>1, <3>1, <3>3 DEF Triage
    <3>4. CASE MigrationFails(p) \/ Crash(p)
      BY <1>a, <2>1, <3>4 DEF MigrationFails, Crash, TypeOK
    <3>5. CASE ~(Connect(p) \/ Triage(p) \/ MigrationFails(p) \/ Crash(p))
      <4>1. UNCHANGED <<conn, wrote>>
        BY <3>5 DEF Step, Move, Start, Look, Discover, Lock, Checkpoint, ClearStaging, Copy, StepFails,
                    Swap, SetAside, SwapAgain, SwapRefused, PutBack, DropAside, RemoveFile, RemoveDir, GiveUp,
                    SecureDir, ReadVersion, ApplyMigration, Migrated
      <4>2. QED  BY <2>1, <4>1
    <3>6. QED  BY <3>2, <3>3, <3>4, <3>5
  <2>3. holder = {}
    <3>1. holder \ {p} = {}
      BY <1>b, <2>2 DEF Connect
    <3>2. p \notin holder
      BY <1>a, <2>2 DEF Connect, OneMover, MovePhase
    <3>3. QED  BY <3>1, <3>2
  <2>4. at'["primary"] \in Inode \cup {Absent}
    <3>1. at["primary"] \in Inode \cup {Absent, NoDb} /\ at \in [Location -> Held]
      BY <1>a DEF TypeOK, Held, Location
    <3>2. QED  BY <2>2, <3>1, FreshIsUnused DEF Connect, Location
  <2>5. conn'[q] = at'["primary"] /\ q \notin wrote' /\ holder' = {}
    BY <1>a, <2>1, <2>2, <2>3 DEF Connect, TypeOK
  <2>6. QED  BY <2>4, <2>5
(* Who is settled: no move can have begun, nor can one begin now. *)
<1>e. CASE Settled(q)
  <2>1. /\ holder = {} /\ at["primary"] \in Inode
        /\ conn[q] # Absent => conn[q] = at["primary"]
        /\ q \in wrote => Holds("primary", q)
    BY <1>c, <1>e
  <2>2. pc[p] \notin MovePhase
    BY <1>a, <2>1 DEF OneMover
  <2>3. ~Move(p)
    BY <2>2 DEF MovePhase, Move, Checkpoint, ClearStaging, Copy, StepFails, Swap, SetAside,
                SwapAgain, SwapRefused, PutBack, DropAside, RemoveFile, RemoveDir, GiveUp
  <2>4. CASE Lock(p)
    <3>1. p \in looked
      BY <2>4 DEF Lock, IInv, HasLooked
    <3>2. QED  BY <2>1, <2>4, <3>1 DEF Lock
  <2>5. ASSUME ~Lock(p)
        PROVE  at'["primary"] = at["primary"] /\ holder' = {}
    <3>1. at \in [Location -> Held]
      BY <1>a DEF TypeOK
    <3>2. CASE SecureDir(p)
      BY <2>1, <3>1, <3>2 DEF SecureDir
    <3>3. CASE Connect(p)
      BY <2>1, <3>1, <3>3 DEF Connect
    <3>4. CASE Crash(p)
      BY <2>1, <3>4 DEF Crash
    <3>5. CASE ~(SecureDir(p) \/ Connect(p) \/ Crash(p))
      BY <2>1, <2>3, <2>5, <3>5
         DEF Step, Start, Look, Discover, ReadVersion, ApplyMigration, MigrationFails, Migrated, Triage
    <3>6. QED  BY <3>2, <3>3, <3>4, <3>5
  <2>6. CASE ~Lock(p)
    <3>1. at'["primary"] = at["primary"] /\ holder' = {} /\ at'["primary"] \in Inode
      BY <2>1, <2>5, <2>6
    <3>2. Holds("primary", q) => Holds("primary", q)'
      BY <1>a, <3>1, RowsStay DEF Location
    <3>3. conn'[q] # Absent => conn'[q] = at'["primary"]
      <4>1. conn \in [Process -> Inode \cup {Absent}]
        BY <1>a DEF TypeOK
      <4>2. conn'[q] \in {conn[q], Absent, at'["primary"]}
        <5>1. CASE Connect(p)
          BY <4>1, <5>1 DEF Connect
        <5>2. CASE MigrationFails(p) \/ Crash(p)
          BY <4>1, <5>2 DEF MigrationFails, Crash
        <5>3. CASE ~(Connect(p) \/ MigrationFails(p) \/ Crash(p))
          BY <2>3, <2>6, <5>3
             DEF Step, Start, Look, Discover, SecureDir, ReadVersion, ApplyMigration, Migrated, Triage
        <5>4. QED  BY <5>1, <5>2, <5>3
      <4>3. QED  BY <2>1, <3>1, <4>2
    <3>4. q \in wrote' => Holds("primary", q)'
      <4>1. CASE q \in wrote
        BY <2>1, <3>2, <4>1
      <4>2. CASE q \notin wrote /\ q \in wrote'
        <5>1. Triage(p) /\ p = q
          <6>1. Triage(p)
            BY <2>3, <2>6, <4>2
               DEF Step, Start, Look, Discover, SecureDir, Connect, ReadVersion, ApplyMigration,
                   MigrationFails, Migrated, Crash
          <6>2. QED  BY <4>2, <6>1 DEF Triage
        <5>2. conn[q] \in Inode /\ conn[q] = at["primary"]
          BY <1>a, <2>1, <5>1 DEF Triage, Connected
        <5>3. data \in [Inode -> Contents] /\ data[conn[q]] \in Contents
          BY <1>a, <5>2 DEF TypeOK
        <5>4. q \in data'[conn[q]].rows
          BY <5>1, <5>2, <5>3 DEF Triage, Contents
        <5>5. QED  BY <3>1, <5>2, <5>4 DEF Holds
      <4>3. QED  BY <4>1, <4>2
    <3>5. QED  BY <3>1, <3>3, <3>4
  <2>7. QED  BY <2>4, <2>6
<1>f. QED  BY <1>d, <1>e

-----------------------------------------------------------------------------
(* The schema *)

LEMMA VersionStep ==
  ASSUME NEW p \in Process, Step(p), IInv
  PROVE  VersionUnlessBroken'
<1> SUFFICES ASSUME ~raced', ~misled', NEW i \in Inode
             PROVE  data'[i].version = data'[i].schema
  BY DEF VersionUnlessBroken, VersionIsSchema
<1>a. TypeOK /\ Connected /\ data \in [Inode -> Contents]
  BY DEF IInv, TypeOK
<1>b. \A j \in Inode : data[j].version = data[j].schema
  BY StaleGrows DEF IInv, VersionUnlessBroken, VersionIsSchema
(* A new file is empty or a copy. *)
<1>c. ASSUME HasFresh, NEW c \in Contents, data' = [data EXCEPT ![FreshInode] = c], c.version = c.schema
      PROVE  data'[i].version = data'[i].schema
  BY <1>a, <1>b, <1>c
<1>d. Empty \in Contents /\ Empty.version = Empty.schema
  BY DEF Empty, Contents
<1>e. UNCHANGED data => data'[i].version = data'[i].schema
  BY <1>b
<1>1. CASE Start(p)
  BY <1>e, <1>1 DEF Start
<1>2. CASE Look(p)
  BY <1>e, <1>2 DEF Look
<1>3. CASE Discover(p)
  BY <1>e, <1>3 DEF Discover
<1>4. CASE Lock(p)
  BY <1>e, <1>4 DEF Lock
<1>5. CASE Checkpoint(p)
  BY <1>c, <1>d, <1>e, <1>5 DEF Checkpoint
<1>6. CASE ClearStaging(p)
  BY <1>e, <1>6 DEF ClearStaging
<1>7. CASE Copy(p)
  BY <1>a, <1>b, <1>c, <1>7 DEF Copy
<1>8. CASE StepFails(p)
  BY <1>e, <1>8 DEF StepFails, GiveUp
<1>9. CASE Swap(p)
  BY <1>e, <1>9 DEF Swap
<1>10. CASE SetAside(p)
  BY <1>e, <1>10 DEF SetAside
<1>11. CASE SwapAgain(p)
  BY <1>e, <1>11 DEF SwapAgain
<1>12. CASE SwapRefused(p)
  BY <1>e, <1>12 DEF SwapRefused, GiveUp
<1>12b. CASE PutBack(p)
  BY <1>e, <1>12b DEF PutBack
<1>13. CASE DropAside(p)
  BY <1>e, <1>13 DEF DropAside
<1>14. CASE RemoveFile(p)
  BY <1>e, <1>14 DEF RemoveFile
<1>15. CASE RemoveDir(p)
  BY <1>e, <1>15 DEF RemoveDir
<1>16. CASE SecureDir(p)
  BY <1>e, <1>16 DEF SecureDir
<1>17. CASE Connect(p)
  BY <1>c, <1>d, <1>e, <1>17 DEF Connect
<1>18. CASE ReadVersion(p)
  BY <1>e, <1>18 DEF ReadVersion
<1>19. CASE ApplyMigration(p)
  <2> DEFINE c == conn[p]
             n == seen[p] + 1
  <2>1. c \in Inode /\ data[c] \in Contents /\ n \in 1 .. NumMigrations /\ seen[p] \in Nat
    BY <1>a, <1>19 DEF ApplyMigration, Connected, TypeOK
  <2>2. data' = [data EXCEPT ![c] = Recorded(data[c], n)] /\ data[c].version = n - 1
    <3>1. data' = [data EXCEPT ![c] = Recorded(data[c], n)]
      BY <1>19 DEF ApplyMigration
    <3>2. data[c].version = seen[p]
      BY <1>19 DEF ApplyMigration, NoteUse
    <3>3. QED  BY <2>1, <3>1, <3>2
  <2>3. Recorded(data[c], n).version = n /\ Recorded(data[c], n).schema = AtLeast(data[c].schema, n)
    BY <2>1, RecordedType
  <2> HIDE DEF c, n
  <2>4. AtLeast(data[c].schema, n) = n
    BY <1>b, <2>1, <2>2 DEF AtLeast
  <2>5. QED  BY <1>a, <1>b, <2>1, <2>2, <2>3, <2>4
<1>20. CASE MigrationFails(p)
  BY <1>e, <1>20 DEF MigrationFails
<1>21. CASE Migrated(p)
  BY <1>e, <1>21 DEF Migrated
<1>22. CASE Triage(p)
  <2> DEFINE c == conn[p]
  <2>1. c \in Inode /\ data[c] \in Contents
    BY <1>a, <1>22 DEF Triage, Connected, TypeOK
  <2>2. data' = [data EXCEPT ![c].rows = @ \cup {p}]
    BY <1>22 DEF Triage
  <2> HIDE DEF c
  <2>3. data'[i].version = data[i].version /\ data'[i].schema = data[i].schema
    BY <1>a, <2>1, <2>2 DEF Contents
  <2>4. QED  BY <1>b, <2>3
<1>23. CASE Crash(p)
  BY <1>e, <1>23 DEF Crash
<1>24. QED
  BY <1>1, <1>2, <1>3, <1>4, <1>5, <1>6, <1>7, <1>8, <1>9, <1>10, <1>11, <1>12, <1>12b, <1>13, <1>14, <1>15, <1>16, <1>17, <1>18, <1>19, <1>20, <1>21, <1>22, <1>23 DEF Step, Move

-----------------------------------------------------------------------------
(* The invariant holds at the start, *)
LEMMA InitHolds == Init => IInv
<1> SUFFICES ASSUME Init PROVE IInv
  OBVIOUS
<1>0. PICK i \in Inode : \E old \in {Absent, i} : \E new \in {Absent, NoDb} :
        /\ at = [legacy |-> old, primary |-> new, staging |-> Absent]
        /\ data = [j \in Inode |->
                IF j = old THEN [rows |-> {"legacy"}, version |-> LegacyVersion,
                                 schema |-> LegacyVersion]
                ELSE Empty]
  BY DEF Init
<1>1. PICK old \in {Absent, i}, new \in {Absent, NoDb} :
        /\ at = [legacy |-> old, primary |-> new, staging |-> Absent]
        /\ data = [j \in Inode |->
                IF j = old THEN [rows |-> {"legacy"}, version |-> LegacyVersion,
                                 schema |-> LegacyVersion]
                ELSE Empty]
  BY <1>0
<1>2. /\ pc = [p \in Process |-> "down"] /\ holder = {} /\ aside = [p \in Process |-> Absent]
      /\ conn = [p \in Process |-> Absent] /\ seen = [p \in Process |-> 0]
      /\ wrote = {} /\ faults = 0
      /\ looked = {} /\ stale = {} /\ bypass = {}
      /\ raced = FALSE /\ misread = {} /\ misled = FALSE
  BY DEF Init
<1>3. TypeOK
  <2>1. at \in [Location -> Held]
    BY <1>1 DEF Location, Held
  <2>2. data \in [Inode -> Contents]
    BY <1>1 DEF Contents, Empty
  <2>3. /\ pc \in [Process -> Phase] /\ aside \in [Process -> Held]
        /\ conn \in [Process -> Inode \cup {Absent}]
    BY <1>2 DEF Phase, Held
  <2>4. seen \in [Process -> 0 .. NumMigrations] /\ faults \in 0 .. MaxFaults
    BY <1>2
  <2>5. QED  BY <1>2, <2>1, <2>2, <2>3, <2>4 DEF TypeOK
<1>4. Connected /\ OneMover /\ HasLooked /\ NoMoveSince
  BY <1>2 DEF Connected, OneMover, HasLooked, NoMoveSince, Settled, MovePhase
<1>5. MoveKeeps
  <2>1. LegacyExists => Holds("legacy", "legacy")
    BY <1>1 DEF LegacyExists, Holds, Empty
  <2>2. QED  BY <1>2, <2>1 DEF MoveKeeps
<1>6. VersionUnlessBroken
  BY <1>1 DEF VersionUnlessBroken, VersionIsSchema, Empty
<1>7. QED  BY <1>3, <1>4, <1>5, <1>6 DEF IInv

(* after every step, *)
LEMMA NextHolds == IInv /\ [Next]_vars => IInv'
<1> SUFFICES ASSUME IInv, [Next]_vars PROVE IInv'
  OBVIOUS
<1>1. CASE Next
  <2>1. PICK p \in Process : Step(p)
    BY <1>1 DEF Next, Step
  <2>2. TypeOK /\ Connected /\ OneMover /\ HasLooked
    BY DEF IInv
  <2>3. TypeOK' /\ Connected' /\ OneMover' /\ HasLooked'
    BY <2>1, <2>2, TypeStep, ConnectedStep, OneMoverStep, HasLookedStep
  <2>4. MoveKeeps' /\ NoMoveSince' /\ VersionUnlessBroken'
    BY <2>1, MoveKeepsStep, NoMoveSinceStep, VersionStep
  <2>5. QED  BY <2>3, <2>4 DEF IInv
<1>2. CASE UNCHANGED vars
  BY <1>2 DEF IInv, TypeOK, Connected, OneMover, HasLooked, MoveKeeps, NoMoveSince, VersionUnlessBroken,
              Settled, Holds, LegacyExists, VersionIsSchema
<1>3. QED  BY <1>1, <1>2

(* and so always. *)
LEMMA InvariantHolds == Spec => []IInv
BY InitHolds, NextHolds, PTL DEF Spec

(* TypeCorrect: every variable of the opening of the store keeps its type. *)
THEOREM TypeCorrect == Spec => []TypeOK
<1>1. IInv => TypeOK
  BY DEF IInv
<1>2. QED  BY <1>1, InvariantHolds, PTL

(* LegacyIsSafe: the legacy rows are where they were or in the primary database
   at every moment, through any faults, unless a process has moved over a
   database that appeared after its look. *)
THEOREM LegacyIsSafe == Spec => []OnlyAStaleLookLoses
<1>1. IInv => OnlyAStaleLookLoses
  BY DEF IInv, MoveKeeps, OnlyAStaleLookLoses, LegacySurvives
<1>2. QED  BY <1>1, InvariantHolds, PTL

(* TriageIsSafe: the triage of a process that connected outside a move stays in
   the primary database, with the same exception. *)
THEOREM TriageIsSafe == Spec => []TriageLostOnlyToAMove
<1>1. IInv => TriageLostOnlyToAMove
  <2>1. IInv => wrote \subseteq Process
    BY DEF IInv, TypeOK
  <2>2. QED  BY <2>1 DEF IInv, NoMoveSince, Settled, TriageLostOnlyToAMove
<1>2. QED  BY <1>1, InvariantHolds, PTL

(* OpenBreaksOnlyByRaceOrMisread: schema_version agrees with the schema, and no
   migration is bound to fail, unless a version has been used after another
   process had moved it on, or a failed query has been used as version 0. *)
THEOREM OpenBreaksOnlyByRaceOrMisread == Spec => []OnlyRaceOrMisreadBreaksOpen
<1>1. IInv => OnlyRaceOrMisreadBreaksOpen
  <2> SUFFICES ASSUME IInv, ~raced, ~misled
               PROVE  VersionIsSchema /\ \A p \in Process : Doomed(p) => seen[p] < data[conn[p]].version
    BY DEF OnlyRaceOrMisreadBreaksOpen
  <2>1. VersionIsSchema
    BY DEF IInv, VersionUnlessBroken
  <2>2. ASSUME NEW p \in Process, Doomed(p)
        PROVE  seen[p] < data[conn[p]].version
    <3>1. conn[p] \in Inode /\ data[conn[p]] \in Contents /\ seen[p] \in Nat
      BY <2>2 DEF IInv, Doomed, Connected, TypeOK
    <3>2. ~(seen[p] + 1 > data[conn[p]].schema)
      BY <2>2 DEF Doomed, Applies
    <3>3. data[conn[p]].version = data[conn[p]].schema /\ data[conn[p]].schema \in Nat
      BY <2>1, <3>1 DEF VersionIsSchema, Contents
    <3>4. QED  BY <3>1, <3>2, <3>3
  <2>3. QED  BY <2>1, <2>2
<1>2. QED  BY <1>1, InvariantHolds, PTL
=============================================================================
