------------------------ MODULE NotificationSyncProofs ------------------------
(* Theorems about NotificationSync, for every set of threads, page size and *)
(* alert limit.                                                             *)
EXTENDS NotificationSync, FiniteSetTheorems, WellFoundedInduction, TLAPS

USE DEF vars, github, store, local, alerts, history

-----------------------------------------------------------------------------
(* The choices the definitions make exist. *)

\* A set of natural numbers has a least element.
LEMMA LeastNat ==
  ASSUME NEW S \in SUBSET Nat, S # {}
  PROVE  \E x \in S : \A y \in S : x <= y
<1>. DEFINE R == {ss \in Nat \X Nat : ss[1] < ss[2]}
<1>1. IsWellFoundedOn(R, Nat)
  BY NatLessThanWellFounded, Zenon DEF OpToRel
<1>2. PICK x \in S : \A y \in S : ~(<<y, x>> \in R)
  <2>. HIDE DEF R
  <2>. QED BY <1>1, WFMin
<1>3. ASSUME NEW y \in S, y < x
      PROVE  FALSE
  <2>1. <<y, x>> \in Nat \X Nat /\ <<y, x>>[1] = y /\ <<y, x>>[2] = x
    OBVIOUS
  <2>2. <<y, x>> \in R
    BY <1>3, <2>1
  <2>. QED BY <1>2, <2>2
<1>. QED BY <1>3

\* A bounded set of natural numbers has a greatest element.
LEMMA GreatestNat ==
  ASSUME NEW S \in SUBSET Nat, S # {}, NEW b \in Nat, \A x \in S : x <= b
  PROVE  \E x \in S : \A y \in S : y <= x
<1>. DEFINE T == {b - x : x \in S}
<1>1. T \in SUBSET Nat /\ T # {}
  <2>1. \A x \in S : b - x \in Nat
    OBVIOUS
  <2>2. T # {}
    OBVIOUS
  <2>. QED BY <2>1, <2>2
<1>2. PICK m \in T : \A y \in T : m <= y
  <2>. HIDE DEF T
  <2>. QED BY <1>1, LeastNat
<1>3. PICK x \in S : m = b - x
  BY <1>2
<1>4. \A y \in S : y <= x
  <2>. TAKE y \in S
  <2>1. b - y \in T /\ b - x \in T
    OBVIOUS
  <2>. QED BY <1>2, <1>3, <2>1
<1>. QED BY <1>4

\* The last entry of a thread is one of the entries fetched for it.
LEMMA LatestIsFetched ==
  ASSUME NEW got \in SUBSET Entry, NEW b \in Nat, \A e \in got : e.page < b,
         NEW t \in IDs(got)
  PROVE  Latest(got, t) \in got /\ Latest(got, t).id = t
<1>. DEFINE P == {e.page : e \in {f \in got : f.id = t}}
<1>1. P \in SUBSET Nat /\ P # {} /\ \A x \in P : x <= b
  <2>1. P \in SUBSET Nat
    BY DEF Entry
  <2>2. P # {}
    BY DEF IDs
  <2>3. \A x \in P : x <= b
    BY <2>1
  <2>. QED BY <2>1, <2>2, <2>3
<1>2. PICK p \in P : \A q \in P : q <= p
  <2>. HIDE DEF P
  <2>. QED BY <1>1, GreatestNat
<1>3. \E e \in got : e.id = t /\ \A f \in got : f.id = t => f.page <= e.page
  BY <1>2
<1>. QED BY <1>3 DEF Latest

\* While entries are left to look at, the next one is one of them.
LEMMA NextEntryIsLeft ==
  ASSUME TypeOK, NEW c \in Cycle, cycle[c].todo # {}
  PROVE  NextEntry(c) \in cycle[c].todo
<1>. DEFINE todo == cycle[c].todo
            P == {e.page : e \in todo}
<1>0. todo \in SUBSET Entry /\ todo # {}
  BY DEF TypeOK, CycleState
<1>. HIDE DEF todo
<1>1. P \in SUBSET Nat /\ P # {}
  BY <1>0 DEF Entry
<1>2. PICK p \in P : \A q \in P : p <= q
  <2>. HIDE DEF P
  <2>. QED BY <1>1, LeastNat
<1>. DEFINE U == {e.updated : e \in {f \in todo : f.page = p}}
<1>3. U \in SUBSET Nat /\ U # {} /\ \A x \in U : x <= MaxTime
  BY <1>0, <1>2, SyncAssumption DEF Entry, Stamp
<1>4. PICK u \in U : \A v \in U : v <= u
  <2>1. MaxTime \in Nat
    BY SyncAssumption
  <2>. HIDE DEF U
  <2>. QED BY <1>3, <2>1, GreatestNat
<1>5. PICK e \in todo : e.page = p /\ e.updated = u
  BY <1>4
<1>6. \A f \in todo : e.page < f.page \/ (e.page = f.page /\ e.updated >= f.updated)
  <2>. TAKE f \in todo
  <2>1. f.page \in P /\ p <= f.page
    BY <1>2
  <2>2. f.page = p => f.updated <= u
    BY <1>4
  <2>3. e.page \in Nat /\ f.page \in Nat /\ e.updated \in Nat /\ f.updated \in Nat
    BY <1>0, SyncAssumption DEF Entry, Stamp
  <2>. QED BY <1>5, <2>1, <2>2, <2>3
<1>. QED BY <1>6 DEF NextEntry, todo

-----------------------------------------------------------------------------
(* Type correctness. *)

\* What type correctness says of the cycles.
CyclesOK == cycle \in [Cycle -> CycleState] /\ \A c \in Cycle : CycleOK(cycle[c])

\* A cycle that is replaced by a well-formed one leaves the cycles well formed.
LEMMA CycleReplaced ==
  ASSUME CyclesOK, NEW c \in Cycle, NEW k \in CycleState, CycleOK(k),
         cycle' = [cycle EXCEPT ![c] = k]
  PROVE  CyclesOK'
BY DEF CyclesOK, CycleOK, IDs

\* An idle cycle is well formed.
LEMMA IdleOK == Idle \in CycleState /\ CycleOK(Idle)
BY SyncAssumption DEF Idle, CycleState, CycleOK, Meta, NoMeta, Stamp, Phase, IDs

\* The entries of a page are entries, and carry its number.
LEMMA PageIsTyped ==
  ASSUME TypeOK, NEW n \in Nat \ {0}
  PROVE  Page(n) \in SUBSET Entry /\ \A e \in Page(n) : e.page = n
BY DEF TypeOK, Page, OnPage, Listed, Entry

\* What Begin, reading the metadata and fetching leave of the cycles.
LEMMA FetchingTyped ==
  ASSUME TypeOK, NEW c \in Cycle,
         \/ \E force \in BOOLEAN : Begin(c, force)
         \/ ReadMeta(c) \/ SkipPoll(c) \/ NotModified(c) \/ FetchPage(c) \/ FetchFails(c)
  PROVE  CyclesOK'
<1>. CyclesOK /\ cycle[c] \in CycleState /\ CycleOK(cycle[c])
  BY DEF CyclesOK, TypeOK
<1>1. ASSUME NEW force \in BOOLEAN, Begin(c, force)
      PROVE  CyclesOK'
  <2>. DEFINE k == [cycle[c] EXCEPT !.pc = "meta", !.force = force]
  <2>1. k \in CycleState /\ CycleOK(k)
    BY <1>1 DEF Begin, CycleState, CycleOK, Phase
  <2>2. cycle' = [cycle EXCEPT ![c] = k]
    BY <1>1 DEF Begin, CyclesOK, CycleState
  <2>. QED BY <2>1, <2>2, CycleReplaced
<1>2. CASE ReadMeta(c)
  <2>. DEFINE k == [cycle[c] EXCEPT !.pc = "fetch", !.meta = meta, !.fresh = meta]
  <2>1. k \in CycleState /\ CycleOK(k)
    BY <1>2 DEF ReadMeta, TypeOK, CycleState, CycleOK, Phase
  <2>2. cycle' = [cycle EXCEPT ![c] = k]
    BY <1>2 DEF ReadMeta, CyclesOK, CycleState
  <2>. QED BY <2>1, <2>2, CycleReplaced
<1>3. CASE SkipPoll(c)
  BY <1>3, IdleOK, CycleReplaced DEF SkipPoll, Return
<1>4. CASE NotModified(c)
  <2>. DEFINE k == [cycle[c] EXCEPT !.pc = "save", !.got = {}]
  <2>1. k \in CycleState /\ CycleOK(k)
    BY <1>4 DEF NotModified, CycleState, CycleOK, Phase, IDs
  <2>2. cycle' = [cycle EXCEPT ![c] = k]
    BY <1>4 DEF NotModified, CyclesOK, CycleState
  <2>. QED BY <2>1, <2>2, CycleReplaced
<1>5. CASE FetchPage(c)
  <2>. DEFINE n == cycle[c].page
              got == cycle[c].got \cup Page(n)
              pc == IF HasNext(n) THEN "fetch" ELSE IF got = {} THEN "save" ELSE "upsert"
              fresh == Checkpoint(cycle[c].fresh, n)
              k == [cycle[c] EXCEPT !.got = got, !.fresh = fresh, !.page = n + 1, !.pc = pc]
  <2>1. cycle' = [cycle EXCEPT ![c] = k]
    BY <1>5 DEF FetchPage, CyclesOK, CycleState
  <2>2. n \in Nat \ {0} /\ n + 1 \in Nat \ {0} /\ pc \in {"fetch", "save", "upsert"}
    BY DEF CycleState
  <2>3. fresh \in Meta
    BY DEF Checkpoint, CycleState, Meta, TypeOK
  <2>4. got \in SUBSET Entry /\ \A e \in got : e.page < n + 1
    BY <2>2, PageIsTyped DEF CycleState, CycleOK, Entry
  <2>5. cycle[c].todo = {} /\ cycle[c].ids = {}
    BY <1>5 DEF FetchPage, CycleOK
  <2>. HIDE DEF n, got, pc, fresh
  <2>6. k \in CycleState
    BY <2>2, <2>3, <2>4 DEF CycleState, Phase
  <2>7. CycleOK(k)
    BY <2>2, <2>4, <2>5 DEF CycleOK, CycleState, IDs
  <2>. QED BY <2>1, <2>6, <2>7, CycleReplaced
<1>6. CASE FetchFails(c)
  BY <1>6, IdleOK, CycleReplaced DEF FetchFails, Return
<1>. QED BY <1>1, <1>2, <1>3, <1>4, <1>5, <1>6

\* What the steps after the fetch leave of the cycles.
LEMMA ProcessingTyped ==
  ASSUME TypeOK, NEW c \in Cycle,
         \/ Upsert(c) \/ Check(c) \/ CheckFails(c) \/ NotifyMuted(c) \/ NotifyAlert(c)
         \/ NotifySummary(c) \/ Mark(c) \/ Save(c) \/ StoreFails(c)
  PROVE  CyclesOK'
<1>. CyclesOK /\ cycle[c] \in CycleState /\ CycleOK(cycle[c])
  BY DEF CyclesOK, TypeOK
<1>1. CASE Upsert(c)
  <2>. DEFINE k == [cycle[c] EXCEPT !.pc = "check", !.todo = cycle[c].got]
  <2>1. k \in CycleState /\ CycleOK(k)
    BY <1>1 DEF Upsert, CycleState, CycleOK, Phase
  <2>2. cycle' = [cycle EXCEPT ![c] = k]
    BY <1>1 DEF Upsert, CyclesOK, CycleState
  <2>. QED BY <2>1, <2>2, CycleReplaced
<1>2. CASE Check(c)
  <2>. DEFINE e == NextEntry(c)
              notify == [cycle[c] EXCEPT !.pc = "notify"]
              skip == [cycle[c] EXCEPT !.todo = cycle[c].todo \ {e}]
  <2>1. notify \in CycleState /\ CycleOK(notify) /\ skip \in CycleState /\ CycleOK(skip)
    BY <1>2 DEF Check, CycleState, CycleOK, Phase
  <2>2. cycle' = [cycle EXCEPT ![c] = notify] \/ cycle' = [cycle EXCEPT ![c] = skip]
    BY <1>2 DEF Check, CyclesOK, CycleState
  <2>. QED BY <2>1, <2>2, CycleReplaced
<1>3. CASE CheckFails(c)
  <2>. DEFINE k == [cycle[c] EXCEPT !.todo = cycle[c].todo \ {NextEntry(c)}]
  <2>1. k \in CycleState /\ CycleOK(k)
    BY <1>3 DEF CheckFails, CycleState, CycleOK, Phase
  <2>2. cycle' = [cycle EXCEPT ![c] = k]
    BY <1>3 DEF CheckFails, CyclesOK, CycleState
  <2>. QED BY <2>1, <2>2, CycleReplaced
<1>4. CASE NotifyMuted(c) \/ NotifyAlert(c) \/ NotifySummary(c)
  <2>1. PICK i \in {0, 1} : cycle' = Noted(c, NextEntry(c), i)
    BY <1>4 DEF NotifyMuted, NotifyAlert, NotifySummary
  <2>. DEFINE e == NextEntry(c)
              k == [cycle[c] EXCEPT !.pc = "check", !.todo = cycle[c].todo \ {e},
                                    !.ids = cycle[c].ids \cup {e.id}, !.sent = cycle[c].sent + i]
  <2>2. cycle[c].pc = "notify" /\ cycle[c].todo # {}
    BY <1>4 DEF NotifyMuted, NotifyAlert, NotifySummary, CycleOK
  <2>3. e \in cycle[c].todo /\ e \in cycle[c].got /\ e.id \in Thread
    BY <2>2, NextEntryIsLeft DEF CycleOK, CycleState, Entry
  <2>4. cycle[c].sent + i \in Nat
    BY DEF CycleState
  <2>5. cycle' = [cycle EXCEPT ![c] = k]
    BY <2>1 DEF Noted, CyclesOK, CycleState
  <2>. HIDE DEF e
  <2>6. k \in CycleState
    BY <2>3, <2>4 DEF CycleState, Phase
  <2>7. CycleOK(k)
    BY <2>2, <2>3 DEF CycleOK, CycleState, IDs
  <2>. QED BY <2>5, <2>6, <2>7, CycleReplaced
<1>5. CASE Mark(c)
  <2>. DEFINE k == [cycle[c] EXCEPT !.pc = "save"]
  <2>1. k \in CycleState /\ CycleOK(k)
    BY <1>5 DEF Mark, CycleState, CycleOK, Phase
  <2>2. cycle' = [cycle EXCEPT ![c] = k]
    BY <1>5 DEF Mark, CyclesOK, CycleState
  <2>. QED BY <2>1, <2>2, CycleReplaced
<1>6. CASE Save(c) \/ StoreFails(c)
  BY <1>6, IdleOK, CycleReplaced DEF Save, StoreFails, Return
<1>. QED BY <1>1, <1>2, <1>3, <1>4, <1>5, <1>6

\* Type correctness of what is not a cycle.
RestOK ==
  /\ now \in Stamp /\ updated \in [Thread -> Stamp] /\ unread \in [Thread -> BOOLEAN]
  /\ stored \in [Thread -> Stamp] /\ read \in [Thread -> BOOLEAN]
  /\ notified \in [Thread -> BOOLEAN] /\ meta \in Meta /\ recent \in BOOLEAN
  /\ localOnly \subseteq Thread /\ patching \subseteq Thread
  /\ silent \in BOOLEAN /\ count \in 0..(AlertLimit + 1)
  /\ shown \in [Thread -> Nat] /\ missed \subseteq Thread
  /\ faults \in 0..MaxFaults

\* TypeOK in two halves: the cycles, and the rest.
LEMMA TypeParts == TypeOK <=> RestOK /\ CyclesOK
BY DEF TypeOK, RestOK, CyclesOK

\* The events of GitHub and of the user keep their types.
LEMMA EnvironmentTyped ==
  ASSUME TypeOK, NEW t \in Thread, Environment(t)
  PROVE  TypeOK'
<1>. USE SyncAssumption DEF TypeOK, Stamp
<1>1. CASE Activity(t)
  BY <1>1 DEF Activity
<1>2. CASE ReadElsewhere(t)
  BY <1>2 DEF ReadElsewhere
<1>3. CASE MarkRead(t)
  BY <1>3 DEF MarkRead
<1>4. CASE MarkUnread(t)
  BY <1>4 DEF MarkUnread
<1>5. CASE PatchDone(t)
  <2>1. now' \in Stamp
    BY <1>5 DEF PatchDone
  <2>2. unread' \in [Thread -> BOOLEAN] /\ localOnly' \subseteq Thread /\ patching' \subseteq Thread
    BY <1>5 DEF PatchDone
  <2>. QED BY <1>5, <2>1, <2>2 DEF PatchDone
<1>6. CASE PatchFails(t)
  BY <1>6, SyncAssumption DEF PatchFails, Fault
<1>. QED BY <1>1, <1>2, <1>3, <1>4, <1>5, <1>6 DEF Environment

\* A step of a cycle keeps the types of what is not a cycle.
LEMMA StepRest ==
  ASSUME TypeOK, NEW c \in Cycle, Step(c)
  PROVE  RestOK'
<1>. RestOK /\ cycle[c] \in CycleState /\ CycleOK(cycle[c])
  BY DEF TypeOK, RestOK
<1>. USE SyncAssumption DEF RestOK
<1>1. CASE ReadMeta(c) \/ SkipPoll(c) \/ NotModified(c) \/ FetchPage(c) \/ Check(c) \/ NotifyMuted(c)
  BY <1>1 DEF ReadMeta, SkipPoll, NotModified, FetchPage, Check, NotifyMuted
<1>2. CASE FetchFails(c)
  <2>1. meta' \in Meta /\ recent' \in BOOLEAN
    BY <1>2 DEF FetchFails, CycleState
  <2>2. faults' \in 0..MaxFaults
    BY <1>2 DEF FetchFails, Fault
  <2>. QED BY <1>2, <2>1, <2>2 DEF FetchFails
<1>3. CASE Upsert(c)
  <2>. DEFINE got == cycle[c].got
  <2>1. \A t \in IDs(got) : Latest(got, t) \in Entry
    BY LatestIsFetched DEF CycleState, CycleOK
  <2>2. stored' \in [Thread -> Stamp] /\ read' \in [Thread -> BOOLEAN]
    BY <1>3, <2>1 DEF Upsert, Entry
  <2>3. localOnly' \subseteq Thread
    BY <1>3, <2>2 DEF Upsert
  <2>. QED BY <1>3, <2>2, <2>3 DEF Upsert
<1>4. CASE CheckFails(c)
  <2>1. NextEntry(c).id \in Thread
    BY <1>4, NextEntryIsLeft DEF CheckFails, CycleState, Entry
  <2>. QED BY <1>4, <2>1 DEF CheckFails, Fault
<1>5. CASE NotifyAlert(c)
  BY <1>5 DEF NotifyAlert, Fault, NoFault
<1>6. CASE NotifySummary(c)
  BY <1>6 DEF NotifySummary, Fault, NoFault
<1>7. CASE Mark(c)
  BY <1>7 DEF Mark
<1>8. CASE Save(c)
  <2>1. meta' \in Meta
    BY <1>8 DEF Save, CycleState, Meta
  <2>. QED BY <1>8, <2>1 DEF Save
<1>9. CASE StoreFails(c)
  BY <1>9 DEF StoreFails, Fault
<1>. QED BY <1>1, <1>2, <1>3, <1>4, <1>5, <1>6, <1>7, <1>8, <1>9 DEF Step

\* Every step keeps the types.
LEMMA NextTyped == TypeOK /\ [Next]_vars => TypeOK'
<1>. SUFFICES ASSUME TypeOK, [Next]_vars PROVE TypeOK'
  OBVIOUS
<1>1. ASSUME NEW t \in Thread, Environment(t) PROVE TypeOK'
  BY <1>1, EnvironmentTyped
<1>2. ASSUME NEW c \in Cycle, NEW force \in BOOLEAN, Begin(c, force) PROVE TypeOK'
  <2>1. CyclesOK'
    BY <1>2, FetchingTyped
  <2>2. RestOK'
    <3>1. silent' \in BOOLEAN
      BY <1>2, Zenon DEF Begin
    <3>2. faults' \in 0..MaxFaults
      <4>1. NoFault \/ Fault
        BY <1>2, Zenon DEF Begin
      <4>. QED BY <4>1, SyncAssumption DEF Fault, NoFault, TypeOK
    <3>3. count' \in 0..(AlertLimit + 1)
      BY <1>2, SyncAssumption DEF Begin
    <3>. QED BY <1>2, <3>1, <3>2, <3>3 DEF Begin, TypeOK, RestOK
  <2>. QED BY <2>1, <2>2, TypeParts, PTL
<1>3. ASSUME NEW c \in Cycle, Step(c) PROVE TypeOK'
  <2>1. CyclesOK'
    BY <1>3, FetchingTyped, ProcessingTyped DEF Step
  <2>2. RestOK'
    BY <1>3, StepRest
  <2>. QED BY <2>1, <2>2, TypeParts, PTL
<1>4. CASE TimePasses
  BY <1>4 DEF TimePasses, TypeOK
<1>5. CASE Crash
  <2>1. CyclesOK'
    BY <1>5, IdleOK DEF Crash, CyclesOK
  <2>2. RestOK'
    <3>1. faults' \in 0..MaxFaults
      BY <1>5, SyncAssumption DEF Crash, Fault, TypeOK
    <3>2. count' \in 0..(AlertLimit + 1)
      BY <1>5, SyncAssumption DEF Crash
    <3>. QED BY <1>5, <3>1, <3>2 DEF Crash, TypeOK, RestOK
  <2>. QED BY <2>1, <2>2, TypeParts, PTL
<1>6. CASE UNCHANGED vars
  BY <1>6 DEF TypeOK
<1>. QED BY <1>1, <1>2, <1>3, <1>4, <1>5, <1>6 DEF Next

\* Initially every variable has its type.
LEMMA InitTyped == Init => TypeOK
<1>1. 0 \in Stamp /\ 1 \in Stamp /\ NoMeta \in Meta /\ 0 \in 0..(AlertLimit + 1)
  BY SyncAssumption DEF Stamp, Meta, NoMeta
<1>2. 0 \in 0..MaxFaults
  BY SyncAssumption
<1>. SUFFICES ASSUME Init PROVE TypeOK
  OBVIOUS
<1>3. CyclesOK
  BY IdleOK DEF Init, CyclesOK
<1>4. RestOK
  BY <1>1, <1>2 DEF Init, RestOK
<1>. QED BY <1>3, <1>4, TypeParts

\* Every variable keeps its type, and what a cycle has still to look at and to mark
\* is always among what it fetched.
THEOREM SyncTypeCorrect == Spec => []TypeOK
BY InitTyped, NextTyped, PTL DEF Spec

-----------------------------------------------------------------------------
(* One cycle at a time: a validator that is the listing's hides no stale row. *)

\* The entries fetched are what GitHub shows now.
Current(got) == \A e \in got : e.updated = updated[e.id] /\ e.unread = unread[e.id]

\* The listing down to the end of page n - 1 is among the entries fetched.
Covered(got, n) == \A t \in Listed : Position(t) < (n - 1) * PageSize => t \in IDs(got)

AllAgree == \A t \in Thread : Agrees(t)

\* Stamps lie in the past, a thread has a row only after it was listed, and a cycle
\* past its first read holds the metadata that is still stored, and a later validator.
Behind(c) ==
  /\ \A t \in Thread : updated[t] <= now /\ (updated[t] = 0 => stored[t] = 0)
  /\ meta.validator <= now /\ cycle[c].fresh.validator <= now
  /\ \A e \in cycle[c].got : updated[e.id] # 0
  /\ cycle[c].pc \notin {"idle", "meta"} =>
       cycle[c].meta = meta /\ meta.validator <= cycle[c].fresh.validator

\* The new validator speaks for what has been done so far: nothing before the first
\* page, the pages fetched, the whole listing, and at last the store.
FreshSoFar(c) ==
  LET k == cycle[c]
  IN /\ k.pc \in {"idle", "meta"} => k.page = 1 /\ k.got = {}
     /\ k.pc = "fetch" /\ k.page = 1 => k.got = {} /\ k.fresh = k.meta
     /\ k.pc = "fetch" /\ k.page # 1 /\ k.fresh.validator = now =>
          Current(k.got) /\ Covered(k.got, k.page)
     /\ k.pc = "upsert" /\ k.fresh.validator = now => Current(k.got) /\ Listed \subseteq IDs(k.got)
     /\ k.pc \in {"check", "notify", "save"} /\ k.fresh.validator = now => AllAgree

FreshInv(c) == TypeOK /\ Behind(c) /\ FreshSoFar(c) /\ NotModifiedMeansFresh

\* The stamps and the cycle of a state are what the arithmetic below needs.
LEMMA FreshTypes ==
  ASSUME TypeOK, NEW c \in Cycle
  PROVE  /\ now \in Nat /\ meta.validator \in Nat /\ updated \in [Thread -> Nat]
         /\ cycle[c] \in CycleState /\ cycle[c].page \in Nat \ {0}
         /\ cycle[c].meta.validator \in Nat /\ cycle[c].fresh.validator \in Nat
         /\ cycle[c].got \in SUBSET Entry
BY SyncAssumption DEF TypeOK, Stamp, Meta, CycleState

\* Fewer threads come before a listed one than there are in the listing.
LEMMA PositionBelow ==
  ASSUME TypeOK, NEW t \in Listed
  PROVE  /\ Position(t) \in Nat /\ Cardinality(Listed) \in Nat
         /\ Position(t) < Cardinality(Listed)
<1>. DEFINE before == {u \in Listed : updated[u] > updated[t]}
<1>1. IsFiniteSet(Listed)
  BY SyncAssumption, FS_Subset DEF Listed
<1>2. before \in SUBSET Listed /\ t \notin before
  BY SyncAssumption DEF TypeOK, Stamp, Listed
<1>. HIDE DEF before
<1>3. IsFiniteSet(before) /\ Cardinality(before) <= Cardinality(Listed)
      /\ Cardinality(before) # Cardinality(Listed)
  BY <1>1, <1>2, FS_Subset
<1>4. Cardinality(before) \in Nat /\ Cardinality(Listed) \in Nat
  BY <1>1, <1>3, FS_CardinalityType
<1>. QED BY <1>3, <1>4 DEF Position, before

\* An event at GitHub makes every validator kept so far an old one.
LEMMA EventFresh ==
  ASSUME NEW c \in Cycle, FreshInv(c), now' = now + 1, UNCHANGED <<meta, stored, cycle>>,
         \A t \in Thread : updated'[t] = updated[t] \/ updated'[t] = now'
  PROVE  (Behind(c) /\ FreshSoFar(c) /\ NotModifiedMeansFresh)'
<1>. TypeOK /\ Behind(c) /\ FreshSoFar(c)
  BY DEF FreshInv
<1>1. meta'.validator < now' /\ cycle'[c].fresh.validator < now'
  BY FreshTypes DEF Behind
<1>2. Behind(c)'
  <2>1. \A t \in Thread : updated'[t] <= now' /\ (updated'[t] = 0 => updated[t] = 0 \/ stored'[t] = 0)
    BY FreshTypes DEF Behind
  <2>2. \A t \in Thread : updated'[t] = 0 => updated[t] = 0
    BY FreshTypes
  <2>3. \A e \in cycle[c].got : updated'[e.id] # 0
    BY <2>2, FreshTypes DEF Behind, Entry
  <2>. QED BY <1>1, <2>1, <2>2, <2>3, FreshTypes DEF Behind
<1>3. FreshSoFar(c)'
  BY <1>1, FreshTypes DEF FreshSoFar
<1>. QED BY <1>1, <1>2, <1>3, FreshTypes DEF NotModifiedMeansFresh

\* A change of this device's own read state leaves every row in agreement that was.
LEMMA LocalFresh ==
  ASSUME NEW c \in Cycle, FreshInv(c), UNCHANGED <<github, meta, stored, cycle>>,
         \A t \in Thread : Agrees(t) => Agrees(t)'
  PROVE  (Behind(c) /\ FreshSoFar(c) /\ NotModifiedMeansFresh)'
<1>. TypeOK /\ Behind(c) /\ FreshSoFar(c) /\ NotModifiedMeansFresh
  BY DEF FreshInv
<1>1. Behind(c)'
  BY DEF Behind
<1>2. FreshSoFar(c)'
  <2>1. AllAgree => AllAgree'
    BY DEF AllAgree
  <2>2. \A got : Current(got)' <=> Current(got)
    BY DEF Current
  <2>3. \A got, n : Covered(got, n)' <=> Covered(got, n)
    BY DEF Covered, Listed, Position
  <2>4. Listed' = Listed
    BY DEF Listed
  <2>. QED BY <2>1, <2>2, <2>3, <2>4 DEF FreshSoFar
<1>3. NotModifiedMeansFresh'
  BY DEF NotModifiedMeansFresh
<1>. QED BY <1>1, <1>2, <1>3

\* GitHub, the other devices and the user keep the invariant.
LEMMA EnvironmentFresh ==
  ASSUME NEW c \in Cycle, FreshInv(c), NEW t \in Thread, Environment(t)
  PROVE  (Behind(c) /\ FreshSoFar(c) /\ NotModifiedMeansFresh)'
<1>. TypeOK
  BY DEF FreshInv
<1>1. CASE Activity(t)
  BY <1>1, EventFresh DEF Activity, TypeOK
<1>2. CASE ReadElsewhere(t)
  BY <1>2, EventFresh DEF ReadElsewhere
<1>3. CASE MarkRead(t)
  BY <1>3, LocalFresh DEF MarkRead, Agrees, TypeOK
<1>4. CASE MarkUnread(t)
  BY <1>4, LocalFresh DEF MarkUnread, Agrees, TypeOK
<1>5. CASE PatchDone(t) /\ unread[t]
  BY <1>5, EventFresh DEF PatchDone
<1>6. CASE PatchDone(t) /\ ~unread[t]
  <2>1. unread' = unread /\ now' = now
    BY <1>6 DEF PatchDone, TypeOK
  <2>2. \A u \in Thread : Agrees(u) => Agrees(u)'
    BY <1>6, <2>1 DEF PatchDone, Agrees
  <2>. QED BY <1>6, <2>1, <2>2, LocalFresh DEF PatchDone
<1>7. CASE PatchFails(t)
  BY <1>7, LocalFresh DEF PatchFails, Agrees
<1>. QED BY <1>1, <1>2, <1>3, <1>4, <1>5, <1>6, <1>7 DEF Environment

\* What the predicates of the invariant depend on.
LEMMA SameStore ==
  ASSUME UNCHANGED <<github, stored, read, localOnly>>
  PROVE  AllAgree' <=> AllAgree
BY DEF AllAgree, Agrees

\* While GitHub stands still, what was fetched stays as current and as complete as it
\* was.
LEMMA SameGithub ==
  ASSUME UNCHANGED github
  PROVE  /\ Listed' = Listed
         /\ \A got : Current(got)' <=> Current(got)
         /\ \A got, n : Covered(got, n)' <=> Covered(got, n)
BY DEF Listed, Current, Covered, Position

\* A cycle that has returned keeps the invariant if the store agrees where it must.
LEMMA ReturnFresh ==
  ASSUME NEW c \in Cycle, TypeOK, Behind(c), UNCHANGED <<github, stored>>,
         cycle'[c] = Idle, meta'.validator <= now, NotModifiedMeansFresh'
  PROVE  (Behind(c) /\ FreshSoFar(c) /\ NotModifiedMeansFresh)'
<1>1. Behind(c)'
  BY FreshTypes DEF Behind, Idle, NoMeta
<1>2. FreshSoFar(c)'
  BY DEF FreshSoFar, Idle
<1>. QED BY <1>1, <1>2

\* A step of the cycle on its own variables keeps what is said of the store.
LEMMA OwnStepFresh ==
  ASSUME NEW c \in Cycle, FreshInv(c), UNCHANGED <<github, meta, stored, read, localOnly>>,
         cycle'[c].got = cycle[c].got, cycle'[c].fresh.validator <= now,
         cycle'[c].pc \notin {"idle", "meta"} =>
           cycle'[c].meta = meta /\ meta.validator <= cycle'[c].fresh.validator,
         FreshSoFar(c)'
  PROVE  (Behind(c) /\ FreshSoFar(c) /\ NotModifiedMeansFresh)'
<1>1. Behind(c)'
  BY DEF FreshInv, Behind
<1>2. NotModifiedMeansFresh'
  BY DEF FreshInv, NotModifiedMeansFresh, Agrees
<1>. QED BY <1>1, <1>2

\* Up to the last page.
LEMMA FetchingFresh ==
  ASSUME NEW c \in Cycle, FreshInv(c),
         \/ \E force \in BOOLEAN : Begin(c, force)
         \/ ReadMeta(c) \/ SkipPoll(c) \/ NotModified(c) \/ FetchPage(c) \/ FetchFails(c)
  PROVE  (Behind(c) /\ FreshSoFar(c) /\ NotModifiedMeansFresh)'
<1>. TypeOK /\ Behind(c) /\ FreshSoFar(c) /\ NotModifiedMeansFresh
  BY DEF FreshInv
<1>0. cycle \in [Cycle -> CycleState] /\ cycle[c] \in CycleState
  BY DEF TypeOK
<1>1. ASSUME NEW force \in BOOLEAN, Begin(c, force)
      PROVE  (Behind(c) /\ FreshSoFar(c) /\ NotModifiedMeansFresh)'
  <2>1. /\ cycle[c].pc = "idle" /\ cycle'[c].pc = "meta" /\ cycle'[c].got = cycle[c].got
        /\ cycle'[c].page = cycle[c].page /\ cycle'[c].fresh = cycle[c].fresh
    BY <1>1, <1>0 DEF Begin, CycleState
  <2>2. FreshSoFar(c)'
    BY <2>1 DEF FreshSoFar
  <2>3. UNCHANGED <<github, meta, stored, read, localOnly>>
    BY <1>1 DEF Begin
  <2>. QED BY <2>1, <2>2, <2>3, OwnStepFresh DEF Behind
<1>2. CASE ReadMeta(c)
  <2>1. /\ cycle[c].pc = "meta" /\ cycle'[c].pc = "fetch" /\ cycle'[c].got = cycle[c].got
        /\ cycle'[c].page = cycle[c].page /\ cycle'[c].fresh = meta /\ cycle'[c].meta = meta
    BY <1>2, <1>0 DEF ReadMeta, CycleState
  <2>2. FreshSoFar(c)'
    BY <2>1 DEF FreshSoFar
  <2>3. UNCHANGED <<github, meta, stored, read, localOnly>>
    BY <1>2 DEF ReadMeta
  <2>4. meta.validator <= now /\ meta.validator <= meta.validator
    BY FreshTypes DEF Behind
  <2>. QED BY <2>1, <2>2, <2>3, <2>4, OwnStepFresh
<1>3. CASE SkipPoll(c)
  <2>1. cycle'[c] = Idle
    BY <1>3, <1>0 DEF SkipPoll, Return
  <2>2. NotModifiedMeansFresh'
    BY <1>3 DEF SkipPoll, NotModifiedMeansFresh, Agrees
  <2>. QED BY <1>3, <2>1, <2>2, ReturnFresh DEF SkipPoll, Behind
<1>4. CASE NotModified(c)
  <2>1. /\ cycle[c].pc = "fetch" /\ cycle'[c].pc = "save" /\ cycle'[c].got = {}
        /\ cycle'[c].fresh = cycle[c].fresh /\ cycle'[c].meta = cycle[c].meta
    BY <1>4, <1>0 DEF NotModified, CycleState
  <2>2. AllAgree /\ cycle[c].meta = meta
    BY <1>4, <2>1 DEF NotModified, Behind, NotModifiedMeansFresh, AllAgree
  <2>3. FreshSoFar(c)'
    BY <1>4, <2>1, <2>2, SameStore DEF FreshSoFar, NotModified
  <2>4. Behind(c)'
    BY <1>4, <2>1, <2>2 DEF Behind, NotModified
  <2>5. NotModifiedMeansFresh'
    BY <1>4 DEF NotModified, NotModifiedMeansFresh, Agrees
  <2>. QED BY <2>3, <2>4, <2>5
<1>6. CASE FetchFails(c)
  <2>1. cycle'[c] = Idle
    BY <1>6, <1>0 DEF FetchFails, Return
  <2>2. meta' = meta /\ UNCHANGED <<github, stored, read, localOnly>>
    BY <1>6 DEF FetchFails, Behind
  <2>3. NotModifiedMeansFresh'
    BY <2>2 DEF NotModifiedMeansFresh, Agrees
  <2>. QED BY <2>1, <2>2, <2>3, ReturnFresh DEF Behind
<1>5. CASE FetchPage(c)
  <2>. DEFINE n == cycle[c].page
              got == cycle[c].got \cup Page(n)
  <2>0. UNCHANGED <<github, store, local>>
    BY <1>5 DEF FetchPage
  <2>1. /\ cycle[c].pc = "fetch" /\ cycle'[c].got = got /\ cycle'[c].page = n + 1
        /\ cycle'[c].fresh = Checkpoint(cycle[c].fresh, n) /\ cycle'[c].meta = cycle[c].meta
    BY <1>5, <1>0 DEF FetchPage, CycleState
  <2>2. cycle'[c].pc = IF HasNext(n) THEN "fetch" ELSE IF got = {} THEN "save" ELSE "upsert"
    BY <1>5, <1>0 DEF FetchPage, CycleState
  <2>3. n \in Nat \ {0} /\ PageSize \in Nat \ {0}
    BY <1>0, SyncAssumption DEF CycleState
  <2>4. cycle'[c].fresh.validator = IF n = 1 THEN now ELSE cycle[c].fresh.validator
    BY <2>1, <1>0 DEF Checkpoint, CycleState, Meta
  <2>5. \A e \in Page(n) : /\ e.id \in Listed /\ e.updated = updated[e.id]
                           /\ e.unread = unread[e.id]
    BY DEF Page, OnPage
  <2>6. ASSUME NEW t \in OnPage(n)
        PROVE  t \in IDs(Page(n))
    <3>. DEFINE e == [page |-> n, id |-> t, updated |-> updated[t], unread |-> unread[t]]
    <3>1. e \in Page(n) /\ e.id = t
      BY DEF Page
    <3>. QED BY <3>1 DEF IDs
  <2>. HIDE DEF n
  <2>7. Behind(c)'
    BY <2>0, <2>1, <2>2, <2>4, <2>5, FreshTypes DEF Behind, Listed
  <2>8. ASSUME cycle'[c].fresh.validator = now
        PROVE  Current(got) /\ Covered(got, n + 1)
    <3>1. Current(cycle[c].got) /\ Covered(cycle[c].got, n)
      <4>1. CASE n = 1
        <5>1. cycle[c].got = {}
          BY <2>1, <4>1 DEF FreshSoFar, n
        <5>2. (n - 1) * PageSize = 0
          BY <2>3, <4>1
        <5>. QED BY <5>1, <5>2, PositionBelow DEF Current, Covered
      <4>2. CASE n # 1
        BY <2>1, <2>4, <2>8, <4>2 DEF FreshSoFar, n
      <4>. QED BY <4>1, <4>2
    <3>2. Current(got)
      BY <3>1, <2>5 DEF Current
    <3>3. ASSUME NEW t \in Listed, Position(t) < ((n + 1) - 1) * PageSize
          PROVE  t \in IDs(got)
      <4>1. (n + 1) - 1 = n /\ Position(t) \in Nat /\ (n - 1) * PageSize \in Int
        BY <2>3, PositionBelow
      <4>2. Position(t) < n * PageSize
        BY <3>3, <4>1
      <4>3. CASE Position(t) < (n - 1) * PageSize
        BY <3>1, <4>3 DEF Covered, IDs
      <4>4. CASE ~(Position(t) < (n - 1) * PageSize)
        <5>1. t \in OnPage(n)
          BY <4>1, <4>2, <4>4 DEF OnPage
        <5>. QED BY <5>1, <2>6 DEF IDs
      <4>. QED BY <4>3, <4>4
    <3>. QED BY <3>2, <3>3 DEF Covered
  <2>9. ASSUME cycle'[c].fresh.validator = now, ~HasNext(n)
        PROVE  Listed \subseteq IDs(got)
    <3>1. (n + 1) - 1 = n /\ n * PageSize \in Nat
      BY <2>3
    <3>2. \A t \in Listed : Position(t) < ((n + 1) - 1) * PageSize
      BY <2>9, <3>1, PositionBelow DEF HasNext
    <3>. QED BY <2>8, <2>9, <3>2 DEF Covered
  <2>10. ASSUME cycle'[c].fresh.validator = now, ~HasNext(n), got = {}
         PROVE  AllAgree
    <3>1. Listed = {}
      BY <2>9, <2>10 DEF IDs
    <3>. QED BY <3>1 DEF AllAgree, Agrees, Listed, Behind
  <2>11. FreshSoFar(c)'
    <3>. HIDE DEF got
    <3>. QED BY <2>0, <2>1, <2>2, <2>3, <2>8, <2>9, <2>10, SameStore, SameGithub DEF FreshSoFar
  <2>12. NotModifiedMeansFresh'
    BY <2>0 DEF NotModifiedMeansFresh, Agrees
  <2>. QED BY <2>7, <2>11, <2>12
<1>. QED BY <1>1, <1>2, <1>3, <1>4, <1>5, <1>6

\* From the upsert to the save.
LEMMA ProcessingFresh ==
  ASSUME NEW c \in Cycle, FreshInv(c),
         \/ Upsert(c) \/ Check(c) \/ CheckFails(c) \/ NotifyMuted(c) \/ NotifyAlert(c)
         \/ NotifySummary(c) \/ Mark(c) \/ Save(c) \/ StoreFails(c)
  PROVE  (Behind(c) /\ FreshSoFar(c) /\ NotModifiedMeansFresh)'
<1>. TypeOK /\ Behind(c) /\ FreshSoFar(c) /\ NotModifiedMeansFresh
  BY DEF FreshInv
<1>0. cycle \in [Cycle -> CycleState] /\ cycle[c] \in CycleState
  BY DEF TypeOK
<1>1. CASE Upsert(c)
  <2>. DEFINE got == cycle[c].got
  <2>1. /\ cycle[c].pc = "upsert" /\ cycle'[c].pc = "check" /\ cycle'[c].got = got
        /\ cycle'[c].fresh = cycle[c].fresh /\ cycle'[c].meta = cycle[c].meta
    BY <1>1, <1>0 DEF Upsert, CycleState
  <2>2. \A t \in IDs(got) : Latest(got, t) \in got /\ Latest(got, t).id = t
    BY LatestIsFetched DEF TypeOK, CycleState, CycleOK
  <2>3. \A t \in Thread : t \in IDs(got) =>
          /\ stored'[t] = Latest(got, t).updated
          /\ updated[t] # 0
    BY <1>1, <2>2 DEF Upsert, Behind
  <2>4. \A t \in Thread : t \notin IDs(got) =>
          stored'[t] = stored[t] /\ read'[t] = read[t] /\ (t \in localOnly' <=> t \in localOnly)
    BY <1>1 DEF Upsert
  <2>5. Behind(c)'
    BY <1>1, <2>1, <2>3, <2>4 DEF Upsert, Behind
  <2>6. ASSUME Current(got), NEW t \in IDs(got), t \in Thread
        PROVE  Agrees(t)'
    <3>1. stored'[t] = updated[t]
      BY <2>2, <2>3, <2>6 DEF Current
    <3>2. read'[t] = ~Latest(got, t).unread /\ Latest(got, t).unread = unread[t]
      BY <1>1, <2>2, <2>6 DEF Upsert, Current
    <3>. QED BY <1>1, <3>1, <3>2 DEF Upsert, Agrees
  <2>7. ASSUME cycle[c].fresh.validator = now
        PROVE  AllAgree'
    <3>1. Current(got) /\ Listed \subseteq IDs(got)
      BY <2>1, <2>7 DEF FreshSoFar
    <3>2. ASSUME NEW t \in Thread, t \notin IDs(got)
          PROVE  Agrees(t)'
      BY <1>1, <2>4, <3>1, <3>2 DEF Upsert, Agrees, Listed, Behind
    <3>. QED BY <2>6, <3>1, <3>2 DEF AllAgree
  <2>8. FreshSoFar(c)'
    BY <1>1, <2>1, <2>7 DEF Upsert, FreshSoFar
  <2>9. NotModifiedMeansFresh'
    <3>. SUFFICES ASSUME meta'.validator = now' PROVE AllAgree'
      BY DEF NotModifiedMeansFresh, AllAgree
    <3>1. cycle[c].fresh.validator = now
      BY <1>1, <2>1, FreshTypes DEF Upsert, Behind
    <3>. QED BY <2>7, <3>1
  <2>. QED BY <2>5, <2>8, <2>9
<1>2. CASE Check(c) \/ CheckFails(c) \/ NotifyMuted(c) \/ NotifyAlert(c) \/ NotifySummary(c) \/ Mark(c)
  <2>1. UNCHANGED <<github, meta, stored, read, localOnly>>
    BY <1>2 DEF Check, CheckFails, NotifyMuted, NotifyAlert, NotifySummary, Mark
  <2>2. /\ cycle[c].pc \in {"check", "notify"} /\ cycle'[c].pc \in {"check", "notify", "save"}
        /\ cycle'[c].got = cycle[c].got /\ cycle'[c].fresh = cycle[c].fresh
        /\ cycle'[c].meta = cycle[c].meta
    <3>1. CASE Check(c)
      BY <1>0, <3>1 DEF Check, CycleState
    <3>2. CASE CheckFails(c)
      BY <1>0, <3>2 DEF CheckFails, CycleState
    <3>3. CASE NotifyMuted(c)
      BY <1>0, <3>3 DEF NotifyMuted, Noted, CycleState
    <3>4. CASE NotifyAlert(c)
      BY <1>0, <3>4 DEF NotifyAlert, Noted, CycleState
    <3>5. CASE NotifySummary(c)
      BY <1>0, <3>5 DEF NotifySummary, Noted, CycleState
    <3>6. CASE Mark(c)
      BY <1>0, <3>6 DEF Mark, CycleState
    <3>. QED BY <1>2, <3>1, <3>2, <3>3, <3>4, <3>5, <3>6
  <2>3. FreshSoFar(c)'
    BY <2>1, <2>2, SameStore DEF FreshSoFar
  <2>. QED BY <2>1, <2>2, <2>3, OwnStepFresh DEF Behind
<1>3. CASE Save(c)
  <2>1. cycle'[c] = Idle /\ UNCHANGED <<github, stored, read, localOnly>> /\ cycle[c].pc = "save"
    BY <1>3, <1>0 DEF Save, Return
  <2>2. meta'.validator = cycle[c].fresh.validator
    BY <1>3, <1>0 DEF Save, CycleState, Meta
  <2>3. NotModifiedMeansFresh'
    BY <2>1, <2>2, SameStore DEF NotModifiedMeansFresh, FreshSoFar, AllAgree
  <2>. QED BY <2>1, <2>2, <2>3, ReturnFresh DEF Behind
<1>4. CASE StoreFails(c)
  <2>1. cycle'[c] = Idle /\ UNCHANGED <<github, meta, stored, read, localOnly>>
    BY <1>4, <1>0 DEF StoreFails, Return
  <2>2. NotModifiedMeansFresh'
    BY <2>1 DEF NotModifiedMeansFresh, Agrees
  <2>. QED BY <2>1, <2>2, ReturnFresh DEF Behind
<1>. QED BY <1>1, <1>2, <1>3, <1>4

\* If no two cycles overlap, whatever fails or crashes between two steps, a validator
\* that is still the listing's is kept only with a store that agrees with the listing:
\* a 304 never hides a row that is behind.  (With two cycles it may: SyncStaleOverlap.)
THEOREM SingleCycleFresh ==
  ASSUME NEW c, Cycle = {c}
  PROVE  Spec => []NotModifiedMeansFresh
<1>1. Init => FreshInv(c)
  <2>. SUFFICES ASSUME Init PROVE FreshInv(c)
    OBVIOUS
  <2>1. TypeOK
    BY InitTyped
  <2>2. Behind(c) /\ FreshSoFar(c)
    BY DEF Init, Behind, FreshSoFar, Idle, NoMeta
  <2>3. NotModifiedMeansFresh
    BY DEF Init, NotModifiedMeansFresh, NoMeta
  <2>. QED BY <2>1, <2>2, <2>3 DEF FreshInv
<1>2. FreshInv(c) /\ [Next]_vars => FreshInv(c)'
  <2>. SUFFICES ASSUME FreshInv(c), [Next]_vars
                PROVE  (Behind(c) /\ FreshSoFar(c) /\ NotModifiedMeansFresh)'
    BY NextTyped DEF FreshInv
  <2>1. ASSUME NEW t \in Thread, Environment(t)
        PROVE  (Behind(c) /\ FreshSoFar(c) /\ NotModifiedMeansFresh)'
    BY <2>1, EnvironmentFresh
  <2>2. ASSUME NEW force \in BOOLEAN, Begin(c, force)
        PROVE  (Behind(c) /\ FreshSoFar(c) /\ NotModifiedMeansFresh)'
    BY <2>2, FetchingFresh
  <2>3. CASE Step(c)
    BY <2>3, FetchingFresh, ProcessingFresh DEF Step
  <2>4. CASE TimePasses
    BY <2>4, LocalFresh DEF TimePasses, Agrees
  <2>5. CASE Crash
    <3>1. cycle'[c] = Idle /\ UNCHANGED <<github, store, localOnly>>
      BY <2>5 DEF Crash
    <3>2. NotModifiedMeansFresh'
      BY <3>1 DEF FreshInv, NotModifiedMeansFresh, Agrees
    <3>. QED BY <3>1, <3>2, ReturnFresh DEF FreshInv, Behind
  <2>6. CASE UNCHANGED vars
    BY <2>6, LocalFresh DEF Agrees
  <2>. QED BY <2>1, <2>2, <2>3, <2>4, <2>5, <2>6 DEF Next
<1>3. FreshInv(c) => NotModifiedMeansFresh
  BY DEF FreshInv
<1>. QED BY <1>1, <1>2, <1>3, PTL DEF Spec

-----------------------------------------------------------------------------
(* One cycle at a time: the throttle counts for the cycle that alerts. *)

\* The alerts of the cycle are among those the alert service has counted.
ThrottleInv(c) == /\ cycle[c].sent <= count
                  /\ cycle[c].pc = "idle" => cycle[c].sent = 0

\* A step that leaves the counter and the cycle's alerts alone, or ends the cycle.
LEMMA UncountedStep ==
  ASSUME NEW c \in Cycle, TypeOK, ThrottleInv(c), count' = count,
         \/ cycle'[c].sent = cycle[c].sent /\ cycle'[c].pc # "idle"
         \/ cycle' = cycle
         \/ cycle'[c] = Idle
  PROVE  ThrottleInv(c)'
<1>1. count \in Nat
  BY SyncAssumption DEF TypeOK
<1>. QED BY <1>1 DEF ThrottleInv, Idle

\* A step of the cycle keeps the invariant.
LEMMA StepCounted ==
  ASSUME NEW c \in Cycle, TypeOK, ThrottleInv(c), Step(c)
  PROVE  ThrottleInv(c)'
<1>0. cycle \in [Cycle -> CycleState] /\ cycle[c] \in CycleState
  BY DEF TypeOK
<1>1. CASE ReadMeta(c) \/ NotModified(c) \/ Upsert(c) \/ Check(c) \/ CheckFails(c) \/ Mark(c)
  <2>1. count' = count
    BY <1>1 DEF ReadMeta, NotModified, Upsert, Check, CheckFails, Mark
  <2>2. cycle'[c].sent = cycle[c].sent /\ cycle'[c].pc # "idle"
    <3>1. CASE ReadMeta(c) \/ NotModified(c) \/ Upsert(c) \/ Mark(c)
      BY <1>0, <3>1 DEF ReadMeta, NotModified, Upsert, Mark, CycleState
    <3>2. CASE Check(c)
      BY <1>0, <3>2 DEF Check, CycleState
    <3>3. CASE CheckFails(c)
      BY <1>0, <3>3 DEF CheckFails, CycleState
    <3>. QED BY <1>1, <3>1, <3>2, <3>3
  <2>. QED BY <2>1, <2>2, UncountedStep
<1>2. CASE FetchPage(c)
  <2>1. count' = count /\ cycle'[c].sent = cycle[c].sent
    BY <1>0, <1>2 DEF FetchPage, CycleState
  <2>2. cycle'[c].pc # "idle"
    BY <1>0, <1>2 DEF FetchPage, CycleState
  <2>. QED BY <2>1, <2>2, UncountedStep
<1>3. CASE SkipPoll(c) \/ FetchFails(c) \/ Save(c) \/ StoreFails(c)
  <2>1. count' = count /\ cycle'[c] = Idle
    BY <1>0, <1>3 DEF SkipPoll, FetchFails, Save, StoreFails, Return
  <2>. QED BY <2>1, UncountedStep
<1>4. CASE NotifyMuted(c) \/ NotifyAlert(c) \/ NotifySummary(c)
  <2>1. count \in Nat /\ cycle[c].sent \in Nat
    BY <1>0, SyncAssumption DEF TypeOK, CycleState
  <2>2. PICK i \in {0, 1} : cycle' = Noted(c, NextEntry(c), i) /\ count' \in {count + i, count + 1}
    BY <1>4, <2>1 DEF NotifyMuted, NotifyAlert, NotifySummary
  <2>3. cycle'[c].sent = cycle[c].sent + i /\ cycle'[c].pc = "check"
    BY <1>0, <2>2 DEF Noted, CycleState
  <2>. QED BY <2>1, <2>2, <2>3 DEF ThrottleInv
<1>. QED BY <1>1, <1>2, <1>3, <1>4 DEF Step

\* If no two cycles overlap, a cycle shows at most AlertLimit alerts and one summary,
\* however many entries it brings and whichever deliveries fail.
THEOREM SingleCycleThrottle ==
  ASSUME NEW c, Cycle = {c}
  PROVE  Spec => []ThrottleBound
<1>1. Init => TypeOK /\ ThrottleInv(c)
  BY InitTyped DEF Init, ThrottleInv, Idle
<1>2. TypeOK /\ ThrottleInv(c) /\ [Next]_vars => (TypeOK /\ ThrottleInv(c))'
  <2>. SUFFICES ASSUME TypeOK, ThrottleInv(c), [Next]_vars PROVE ThrottleInv(c)'
    BY NextTyped
  <2>1. ASSUME NEW t \in Thread, Environment(t)
        PROVE  ThrottleInv(c)'
    <3>1. UNCHANGED <<count, cycle>>
      BY <2>1 DEF Environment, Activity, ReadElsewhere, MarkRead, MarkUnread, PatchDone, PatchFails
    <3>. QED BY <3>1, UncountedStep
  <2>2. ASSUME NEW force \in BOOLEAN, Begin(c, force)
        PROVE  ThrottleInv(c)'
    <3>1. cycle[c] \in CycleState /\ cycle \in [Cycle -> CycleState]
      BY DEF TypeOK
    <3>2. count' = 0 /\ cycle[c].pc = "idle"
      BY <2>2 DEF Begin
    <3>3. cycle'[c].sent = cycle[c].sent /\ cycle'[c].pc = "meta"
      BY <2>2, <3>1 DEF Begin, CycleState
    <3>. QED BY <3>2, <3>3 DEF ThrottleInv
  <2>3. CASE Step(c)
    BY <2>3, StepCounted
  <2>4. CASE TimePasses
    BY <2>4, UncountedStep DEF TimePasses
  <2>5. CASE Crash
    BY <2>5 DEF Crash, ThrottleInv, Idle
  <2>6. CASE UNCHANGED vars
    BY <2>6, UncountedStep
  <2>. QED BY <2>1, <2>2, <2>3, <2>4, <2>5, <2>6 DEF Next
<1>3. TypeOK /\ ThrottleInv(c) => ThrottleBound
  <2>. SUFFICES ASSUME TypeOK, ThrottleInv(c) PROVE cycle[c].sent <= AlertLimit + 1
    BY DEF ThrottleBound
  <2>1. count \in Nat /\ count <= AlertLimit + 1 /\ AlertLimit \in Nat /\ cycle[c].sent \in Nat
    BY SyncAssumption DEF TypeOK, CycleState
  <2>. QED BY <2>1 DEF ThrottleInv
<1>. QED BY <1>1, <1>2, <1>3, PTL DEF Spec

-----------------------------------------------------------------------------
(* One cycle at a time: a second alert for a thread needs a fault. *)

\* No entry still to come can make the running cycle alert for t again.
Paid(c, t) ==
  \/ notified[t]
  \/ t \in cycle[c].ids /\ (count >= AlertLimit \/ t \notin IDs(cycle[c].todo))

\* Every alert beyond the first is paid for by a fault; until t is paid for, so is
\* the first.
Owed(c) ==
  \A t \in Thread : /\ shown[t] <= 1 + faults
                    /\ ~Paid(c, t) => shown[t] <= faults

\* Due was asked before the alert, and the marks are written before the save.
Marked(c) ==
  /\ cycle[c].pc = "notify" => ~notified[NextEntry(c).id]
  /\ cycle[c].pc = "save" => \A t \in cycle[c].ids : notified[t]

\* A listing of one page is fetched once, and has one entry for a thread.
OneEntryEach(c) ==
  /\ \A e, f \in cycle[c].got : e.id = f.id => e = f
  /\ cycle[c].pc \in {"idle", "meta", "fetch"} => cycle[c].page = 1

OnlyEntry(c) == AlertLimit <= 1 \/ OneEntryEach(c)

RepeatInv(c) == Owed(c) /\ Marked(c) /\ OnlyEntry(c)

\* The faults are a number.
LEMMA FaultsTyped == (TypeOK => faults \in Nat) /\ (TypeOK' => faults' \in Nat)
BY SyncAssumption DEF TypeOK

\* A failed call or a crash is one more fault.
LEMMA FaultsCount ==
  ASSUME TypeOK
  PROVE  /\ UNCHANGED faults => faults <= faults'
         /\ Fault => faults <= faults' /\ faults < faults'
BY SyncAssumption DEF TypeOK, Fault

\* The next entry depends on what is left to look at only.
LEMMA SameNext ==
  ASSUME NEW c \in Cycle, cycle'[c].todo = cycle[c].todo
  PROVE  NextEntry(c)' = NextEntry(c)
<1>. DEFINE First(S) == CHOOSE e \in S : \A f \in S :
                          e.page < f.page \/ (e.page = f.page /\ e.updated >= f.updated)
<1>1. NextEntry(c) = First(cycle[c].todo)
  BY DEF NextEntry
<1>2. NextEntry(c)' = First(cycle'[c].todo)
  BY DEF NextEntry
<1>. HIDE DEF First
<1>. QED BY <1>1, <1>2

\* A step that shows nothing keeps the account, if it is a fault or leaves every
\* thread paid for that was.
LEMMA OwedKept ==
  ASSUME TypeOK, TypeOK', NEW c \in Cycle, Owed(c), shown' = shown,
         faults <= faults',
         \/ faults < faults'
         \/ \A t \in Thread : Paid(c, t) => Paid(c, t)'
  PROVE  Owed(c)'
<1>. SUFFICES ASSUME NEW t \in Thread
              PROVE  /\ shown'[t] <= 1 + faults'
                     /\ ~Paid(c, t)' => shown'[t] <= faults'
  BY DEF Owed
<1>1. faults \in Nat /\ faults' \in Nat /\ shown[t] \in Nat /\ shown'[t] = shown[t]
  BY FaultsTyped DEF TypeOK
<1>2. shown[t] <= 1 + faults /\ (~Paid(c, t) => shown[t] <= faults)
  BY DEF Owed
<1>3. CASE faults < faults'
  <2>1. shown[t] <= faults'
    BY <1>1, <1>2, <1>3
  <2>. QED BY <1>1, <2>1
<1>4. CASE Paid(c, t) => Paid(c, t)'
  <2>1. shown'[t] <= 1 + faults'
    BY <1>1, <1>2
  <2>2. shown[t] <= faults => shown'[t] <= faults'
    BY <1>1
  <2>. QED BY <1>2, <1>4, <2>1, <2>2
<1>. QED BY <1>3, <1>4

\* The steps that come before the first alert of a cycle, and those that end one.
LEMMA NoAlertsYet ==
  ASSUME TypeOK, TypeOK', NEW c \in Cycle, Owed(c),
         cycle[c].ids = {}, cycle'[c].ids = {}, cycle'[c].pc # "notify",
         UNCHANGED <<shown, notified>>, faults <= faults'
  PROVE  Owed(c)' /\ Marked(c)'
<1>1. \A t \in Thread : Paid(c, t) => Paid(c, t)'
  BY DEF Paid
<1>2. Marked(c)'
  BY DEF Marked
<1>. QED BY <1>1, <1>2, OwedKept

\* A fault that ends the cycle pays for the alerts whose marks are lost.
LEMMA FaultReturns ==
  ASSUME TypeOK, TypeOK', NEW c \in Cycle, Owed(c), cycle'[c] = Idle,
         shown' = shown, faults < faults'
  PROVE  Owed(c)' /\ Marked(c)'
<1>1. Owed(c)'
  <2>1. faults <= faults'
    BY FaultsTyped
  <2>. QED BY <2>1, OwedKept
<1>2. Marked(c)'
  BY DEF Marked, Idle
<1>. QED BY <1>1, <1>2

\* A listing that fits a page is fetched with one request.
LEMMA OnePage ==
  ASSUME TypeOK, Cardinality(Thread) <= PageSize
  PROVE  ~HasNext(1)
<1>1. Listed \subseteq Thread
  BY DEF Listed
<1>2. /\ Cardinality(Listed) <= Cardinality(Thread)
      /\ Cardinality(Listed) \in Nat /\ Cardinality(Thread) \in Nat
  BY <1>1, SyncAssumption, FS_Subset, FS_CardinalityType
<1>. QED BY <1>2, SyncAssumption DEF HasNext

\* Every step keeps one entry for a thread, if the listing fits one page.
LEMMA EntriesStep ==
  ASSUME TypeOK, NEW c, Cycle = {c}, AlertLimit <= 1 \/ Cardinality(Thread) <= PageSize,
         OnlyEntry(c), [Next]_vars
  PROVE  OnlyEntry(c)'
<1>. SUFFICES ASSUME Cardinality(Thread) <= PageSize, OneEntryEach(c)
              PROVE  OneEntryEach(c)'
  BY DEF OnlyEntry
<1>0. /\ cycle \in [Cycle -> CycleState] /\ cycle[c] \in CycleState /\ CycleOK(cycle[c])
  BY DEF TypeOK
<1>1. CASE cycle'[c] = Idle
  BY <1>1 DEF OneEntryEach, Idle
<1>2. ASSUME cycle'[c].got = cycle[c].got, cycle'[c].page = cycle[c].page,
             \/ cycle'[c].pc \notin {"idle", "meta", "fetch"}
             \/ cycle[c].pc \in {"idle", "meta", "fetch"}
      PROVE  OneEntryEach(c)'
  BY <1>2 DEF OneEntryEach
<1>3. ASSUME NEW t \in Thread, Environment(t)
      PROVE  OneEntryEach(c)'
  BY <1>3 DEF OneEntryEach, Environment, Activity, ReadElsewhere, MarkRead, MarkUnread,
              PatchDone, PatchFails
<1>4. ASSUME NEW force \in BOOLEAN, Begin(c, force)
      PROVE  OneEntryEach(c)'
  BY <1>0, <1>2, <1>4 DEF Begin, CycleState
<1>5. CASE Step(c)
  <2>1. CASE ReadMeta(c)
    BY <1>0, <1>2, <2>1 DEF ReadMeta, CycleState
  <2>2. CASE SkipPoll(c) \/ FetchFails(c) \/ Save(c) \/ StoreFails(c)
    BY <1>0, <1>1, <2>2 DEF SkipPoll, FetchFails, Save, StoreFails, Return
  <2>3. CASE NotModified(c)
    <3>1. cycle'[c].pc = "save" /\ cycle'[c].got = {}
      BY <1>0, <2>3 DEF NotModified, CycleState
    <3>. QED BY <3>1 DEF OneEntryEach
  <2>4. CASE FetchPage(c)
    <3>1. cycle[c].page = 1 /\ cycle[c].pc = "fetch"
      BY <2>4 DEF FetchPage, OneEntryEach
    <3>2. \A e \in cycle[c].got : e.page \in Nat \ {0} /\ e.page < 1
      BY <1>0, <3>1 DEF CycleOK, CycleState, Entry
    <3>3. cycle[c].got = {}
      BY <3>2
    <3>4. cycle'[c].got = Page(1) /\ cycle'[c].pc \in {"save", "upsert"}
      BY <1>0, <2>4, <3>1, <3>3, OnePage DEF FetchPage, CycleState
    <3>5. \A e, f \in Page(1) : e.id = f.id => e = f
      BY DEF Page
    <3>. QED BY <3>4, <3>5 DEF OneEntryEach
  <2>5. CASE Upsert(c) \/ Mark(c)
    BY <1>0, <1>2, <2>5 DEF Upsert, Mark, CycleState
  <2>6. CASE Check(c)
    BY <1>0, <1>2, <2>6 DEF Check, CycleState
  <2>7. CASE CheckFails(c)
    BY <1>0, <1>2, <2>7 DEF CheckFails, CycleState
  <2>8. CASE NotifyMuted(c) \/ NotifyAlert(c) \/ NotifySummary(c)
    <3>1. PICK i \in {0, 1} : cycle' = Noted(c, NextEntry(c), i)
      BY <2>8 DEF NotifyMuted, NotifyAlert, NotifySummary
    <3>. QED BY <1>0, <1>2, <3>1 DEF Noted, CycleState
  <2>. QED BY <1>5, <2>1, <2>2, <2>3, <2>4, <2>5, <2>6, <2>7, <2>8 DEF Step
<1>6. CASE TimePasses \/ UNCHANGED vars
  BY <1>6 DEF TimePasses, OneEntryEach
<1>7. CASE Crash
  BY <1>1, <1>7 DEF Crash
<1>. QED BY <1>3, <1>4, <1>5, <1>6, <1>7 DEF Next

\* What the alerts of a cycle change.
LEMMA NotifyOwed ==
  ASSUME TypeOK, TypeOK', NEW c \in Cycle, RepeatInv(c),
         NotifyMuted(c) \/ NotifyAlert(c) \/ NotifySummary(c)
  PROVE  Owed(c)' /\ Marked(c)'
<1>0. /\ cycle \in [Cycle -> CycleState] /\ cycle[c] \in CycleState /\ CycleOK(cycle[c])
      /\ count \in Nat /\ count' \in Nat /\ AlertLimit \in Nat /\ faults \in Nat
  BY SyncAssumption, FaultsTyped DEF TypeOK
<1>1. cycle[c].pc = "notify" /\ notified' = notified
  BY DEF NotifyMuted, NotifyAlert, NotifySummary
<1>. PICK e : e = NextEntry(c)
  OBVIOUS
<1>2. e \in cycle[c].todo /\ cycle[c].todo \subseteq cycle[c].got /\ ~notified[e.id]
  BY <1>0, <1>1, NextEntryIsLeft DEF CycleOK, RepeatInv, Marked
<1>3. e.id \in Thread
  BY <1>0, <1>2 DEF CycleState, Entry
<1>4. PICK i \in {0, 1} : cycle' = Noted(c, e, i)
  BY DEF NotifyMuted, NotifyAlert, NotifySummary
<1>5. /\ cycle'[c].pc = "check" /\ cycle'[c].todo = cycle[c].todo \ {e}
      /\ cycle'[c].ids = cycle[c].ids \cup {e.id}
  BY <1>0, <1>4 DEF Noted, CycleState
<1>6. count' = count \/ count' = count + 1
  BY DEF NotifyMuted, NotifyAlert, NotifySummary
<1>7. \A t \in Thread : Paid(c, t) => Paid(c, t)'
  BY <1>0, <1>1, <1>5, <1>6 DEF Paid, IDs
<1>8. Marked(c)'
  BY <1>5 DEF Marked
<1>9. CASE shown' = shown /\ faults <= faults'
  BY <1>7, <1>8, <1>9, OwedKept DEF RepeatInv
<1>10. CASE /\ shown' = [shown EXCEPT ![e.id] = @ + 1] /\ faults' = faults
            /\ count < AlertLimit /\ count' = count + 1
  <2>1. ~Paid(c, e.id)
    BY <1>0, <1>2, <1>10 DEF Paid, IDs
  <2>2. Paid(c, e.id)'
    <3>1. CASE AlertLimit <= 1
      BY <1>0, <1>5, <1>10, <3>1 DEF Paid
    <3>2. CASE OneEntryEach(c)
      <4>1. e.id \notin IDs(cycle'[c].todo)
        BY <1>2, <1>5, <3>2 DEF IDs, OneEntryEach
      <4>. QED BY <1>5, <4>1 DEF Paid
    <3>. QED BY <3>1, <3>2 DEF RepeatInv, OnlyEntry
  <2>3. ASSUME NEW t \in Thread
        PROVE  /\ shown'[t] <= 1 + faults'
               /\ ~Paid(c, t)' => shown'[t] <= faults'
    <3>1. /\ shown[t] \in Nat /\ shown[t] <= 1 + faults
          /\ ~Paid(c, t) => shown[t] <= faults
      BY DEF TypeOK, RepeatInv, Owed
    <3>2. shown'[t] = IF t = e.id THEN shown[t] + 1 ELSE shown[t]
      BY <1>10 DEF TypeOK
    <3>3. CASE t = e.id
      BY <1>0, <1>10, <2>1, <2>2, <3>1, <3>2, <3>3
    <3>4. CASE t # e.id
      BY <1>0, <1>7, <1>10, <3>1, <3>2, <3>4
    <3>. QED BY <3>3, <3>4
  <2>. QED BY <1>8, <2>3 DEF Owed
<1>11. UNCHANGED faults => faults <= faults'
  BY <1>0, FaultsCount
<1>12. Fault => faults <= faults'
  BY <1>0, FaultsCount
<1>13. CASE NotifyMuted(c)
  BY <1>9, <1>11, <1>13 DEF NotifyMuted
<1>14. CASE NotifyAlert(c)
  <2>1. CASE Fault /\ UNCHANGED <<count, shown>>
    BY <1>9, <1>12, <2>1
  <2>2. CASE count' = count + 1 /\ shown' = [shown EXCEPT ![e.id] = @ + 1] /\ NoFault
    BY <1>10, <1>14, <2>2 DEF NotifyAlert, NoFault
  <2>. QED BY <1>14, <2>1, <2>2 DEF NotifyAlert
<1>15. CASE NotifySummary(c)
  BY <1>9, <1>11, <1>12, <1>15 DEF NotifySummary, NoFault
<1>. QED BY <1>13, <1>14, <1>15

\* Every step of the cycle keeps the account.
LEMMA StepOwed ==
  ASSUME TypeOK, TypeOK', NEW c \in Cycle, RepeatInv(c), Step(c)
  PROVE  Owed(c)' /\ Marked(c)'
<1>0. /\ cycle \in [Cycle -> CycleState] /\ cycle[c] \in CycleState /\ CycleOK(cycle[c])
      /\ faults \in Nat /\ Owed(c) /\ Marked(c)
  BY FaultsTyped DEF TypeOK, RepeatInv
<1>00. /\ UNCHANGED faults => faults <= faults'
       /\ Fault => faults <= faults' /\ faults < faults'
  BY <1>0, FaultsCount
<1>1. CASE ReadMeta(c) \/ SkipPoll(c) \/ NotModified(c) \/ FetchFails(c) \/ Upsert(c)
  <2>1. cycle[c].ids = {} /\ UNCHANGED <<shown, notified>>
    BY <1>0, <1>1 DEF ReadMeta, SkipPoll, NotModified, FetchFails, Upsert, CycleOK
  <2>2. cycle'[c].ids = {} /\ cycle'[c].pc # "notify"
    <3>1. CASE SkipPoll(c) \/ FetchFails(c)
      <4>1. cycle'[c] = Idle
        BY <1>0, <3>1 DEF SkipPoll, FetchFails, Return
      <4>. QED BY <4>1 DEF Idle
    <3>2. CASE ReadMeta(c) \/ NotModified(c) \/ Upsert(c)
      BY <1>0, <2>1, <3>2 DEF ReadMeta, NotModified, Upsert, CycleState
    <3>. QED BY <1>1, <3>1, <3>2
  <2>3. faults <= faults'
    BY <1>00, <1>1 DEF ReadMeta, SkipPoll, NotModified, FetchFails, Upsert, NoFault
  <2>. QED BY <1>0, <2>1, <2>2, <2>3, NoAlertsYet
<1>2. CASE FetchPage(c)
  <2>1. cycle[c].ids = {} /\ UNCHANGED <<shown, notified, faults>>
    BY <1>0, <1>2 DEF FetchPage, CycleOK
  <2>2. cycle'[c].ids = {} /\ cycle'[c].pc # "notify"
    BY <1>0, <1>2, <2>1 DEF FetchPage, CycleState
  <2>. QED BY <1>0, <1>00, <2>1, <2>2, NoAlertsYet
<1>3. CASE Check(c)
  <2>. DEFINE e == NextEntry(c)
  <2>1. UNCHANGED <<shown, notified, count, faults>> /\ cycle[c].pc = "check"
    BY <1>3 DEF Check
  <2>2. CASE Due(e, cycle[c].meta.last)
    <3>1. /\ cycle'[c].pc = "notify" /\ cycle'[c].todo = cycle[c].todo
          /\ cycle'[c].ids = cycle[c].ids
      BY <1>0, <1>3, <2>2 DEF Check, CycleState
    <3>2. NextEntry(c)' = e
      BY <3>1, SameNext
    <3>3. ~notified[e.id]
      BY <2>2 DEF Due
    <3>4. Marked(c)'
      BY <2>1, <3>1, <3>2, <3>3 DEF Marked
    <3>5. \A t \in Thread : Paid(c, t) => Paid(c, t)'
      BY <2>1, <3>1 DEF Paid
    <3>. QED BY <1>0, <1>00, <2>1, <3>4, <3>5, OwedKept
  <2>3. CASE ~Due(e, cycle[c].meta.last)
    <3>1. /\ cycle'[c].pc = "check" /\ cycle'[c].todo = cycle[c].todo \ {e}
          /\ cycle'[c].ids = cycle[c].ids
      BY <1>0, <1>3, <2>1, <2>3 DEF Check, CycleState
    <3>. HIDE DEF e
    <3>2. Marked(c)'
      BY <3>1 DEF Marked
    <3>3. \A t \in Thread : Paid(c, t) => Paid(c, t)'
      BY <2>1, <3>1 DEF Paid, IDs
    <3>. QED BY <1>0, <1>00, <2>1, <3>2, <3>3, OwedKept
  <2>. QED BY <2>2, <2>3
<1>4. CASE CheckFails(c)
  <2>1. shown' = shown /\ Fault
    BY <1>4 DEF CheckFails
  <2>2. cycle'[c].pc = "check"
    BY <1>0, <1>4 DEF CheckFails, CycleState
  <2>3. Marked(c)'
    BY <2>2 DEF Marked
  <2>. QED BY <1>0, <1>00, <2>1, <2>3, OwedKept
<1>5. CASE NotifyMuted(c) \/ NotifyAlert(c) \/ NotifySummary(c)
  BY <1>5, NotifyOwed
<1>6. CASE Mark(c)
  <2>1. /\ UNCHANGED <<shown, count, faults>>
        /\ notified' = [t \in Thread |-> notified[t] \/ t \in cycle[c].ids]
    BY <1>6 DEF Mark
  <2>2. cycle'[c].pc = "save" /\ cycle'[c].ids = cycle[c].ids
    BY <1>0, <1>6 DEF Mark, CycleState
  <2>3. Marked(c)'
    BY <1>0, <2>1, <2>2 DEF Marked, CycleState
  <2>4. \A t \in Thread : Paid(c, t) => Paid(c, t)'
    BY <2>1 DEF Paid
  <2>. QED BY <1>0, <1>00, <2>1, <2>3, <2>4, OwedKept
<1>7. CASE Save(c)
  <2>1. /\ UNCHANGED <<shown, notified, faults>> /\ cycle'[c] = Idle
        /\ cycle[c].pc = "save"
    BY <1>0, <1>7 DEF Save, Return
  <2>2. \A t \in Thread : Paid(c, t) => Paid(c, t)'
    BY <1>0, <2>1 DEF Paid, Marked
  <2>3. Marked(c)'
    BY <2>1 DEF Marked, Idle
  <2>. QED BY <1>0, <1>00, <2>1, <2>2, <2>3, OwedKept
<1>8. CASE StoreFails(c)
  <2>1. shown' = shown /\ Fault /\ cycle'[c] = Idle
    BY <1>0, <1>8 DEF StoreFails, Return
  <2>. QED BY <1>0, <1>00, <2>1, FaultReturns
<1>. QED BY <1>1, <1>2, <1>3, <1>4, <1>5, <1>6, <1>7, <1>8 DEF Step

\* While cycles do not overlap, the user is alerted for a thread a second time only
\* when a call failed or the program crashed between an alert and its mark, however
\* many faults there are: for the code's limits, while the listing fits one page.
\* (On a longer listing a thread that moves to the next page is alerted for twice.)
THEOREM RepeatsAreFaults ==
  ASSUME NEW c, Cycle = {c}, AlertLimit <= 1 \/ Cardinality(Thread) <= PageSize
  PROVE  Spec => []RepeatsNeedAFault
<1>1. Init => TypeOK /\ RepeatInv(c)
  <2>. SUFFICES ASSUME Init PROVE Owed(c) /\ Marked(c) /\ OneEntryEach(c)
    BY InitTyped DEF RepeatInv, OnlyEntry
  <2>1. Owed(c)
    BY DEF Init, Owed
  <2>2. Marked(c) /\ OneEntryEach(c)
    BY DEF Init, Marked, OneEntryEach, Idle
  <2>. QED BY <2>1, <2>2
<1>2. TypeOK /\ RepeatInv(c) /\ [Next]_vars => (TypeOK /\ RepeatInv(c))'
  <2>. SUFFICES ASSUME TypeOK, RepeatInv(c), [Next]_vars
                PROVE  Owed(c)' /\ Marked(c)'
    BY NextTyped, EntriesStep DEF RepeatInv
  <2>0. TypeOK' /\ Owed(c) /\ Marked(c)
    BY NextTyped DEF RepeatInv
  <2>1. /\ UNCHANGED faults => faults <= faults'
        /\ Fault => faults <= faults' /\ faults < faults'
    BY FaultsCount
  <2>2. ASSUME UNCHANGED <<shown, notified, count, cycle>>,
               faults <= faults'
        PROVE  Owed(c)' /\ Marked(c)'
    <3>1. NextEntry(c)' = NextEntry(c)
      BY <2>2, SameNext
    <3>2. Marked(c)'
      BY <2>0, <2>2, <3>1 DEF Marked
    <3>3. \A t \in Thread : Paid(c, t) => Paid(c, t)'
      BY <2>2 DEF Paid
    <3>. QED BY <2>0, <2>2, <3>2, <3>3, OwedKept
  <2>3. ASSUME NEW t \in Thread, Environment(t)
        PROVE  Owed(c)' /\ Marked(c)'
    <3>1. UNCHANGED <<shown, notified, count, cycle>>
      BY <2>3 DEF Environment, Activity, ReadElsewhere, MarkRead, MarkUnread, PatchDone, PatchFails
    <3>2. Fault \/ UNCHANGED faults
      BY <2>3 DEF Environment, Activity, ReadElsewhere, MarkRead, MarkUnread, PatchDone, PatchFails
    <3>. QED BY <2>1, <2>2, <3>1, <3>2
  <2>4. ASSUME NEW force \in BOOLEAN, Begin(c, force)
        PROVE  Owed(c)' /\ Marked(c)'
    <3>0. cycle[c] \in CycleState /\ cycle \in [Cycle -> CycleState] /\ CycleOK(cycle[c])
      BY DEF TypeOK
    <3>1. UNCHANGED <<shown, notified>> /\ cycle[c].pc = "idle"
      BY <2>4 DEF Begin
    <3>2. cycle[c].ids = {} /\ cycle'[c].ids = {} /\ cycle'[c].pc = "meta"
      BY <2>4, <3>0, <3>1 DEF Begin, CycleState, CycleOK
    <3>3. Fault \/ UNCHANGED faults
      BY <2>4 DEF Begin, NoFault
    <3>4. faults <= faults'
      BY <2>1, <3>3
    <3>. QED BY <2>0, <3>1, <3>2, <3>4, NoAlertsYet
  <2>5. CASE Step(c)
    BY <2>0, <2>5, StepOwed
  <2>6. CASE TimePasses \/ UNCHANGED vars
    BY <2>1, <2>2, <2>6 DEF TimePasses
  <2>7. CASE Crash
    <3>1. shown' = shown /\ cycle'[c] = Idle /\ Fault
      BY <2>7 DEF Crash
    <3>. QED BY <2>0, <2>1, <3>1, FaultReturns
  <2>. QED BY <2>3, <2>4, <2>5, <2>6, <2>7 DEF Next
<1>3. TypeOK /\ RepeatInv(c) => RepeatsNeedAFault
  BY DEF RepeatInv, Owed, RepeatsNeedAFault
<1>. QED BY <1>1, <1>2, <1>3, PTL DEF Spec

-----------------------------------------------------------------------------
(* Any number of cycles: no alert is lost but for the threads in missed. *)

\* Activity that the cycles have to alert for.
Live(t) == unread[t] /\ t \notin missed

\* Saved metadata: the validator is no younger than the time of the save.
Dated(m) == m.validator <= m.last /\ m.last <= now

\* The entry of the thread's last activity is in S.
Matched(S, t) == \E e \in S : e.id = t /\ e.updated = updated[t] /\ e.unread

\* The thread has been alerted for, or the cycle will come to it: its entry is on a
\* page still to come, among those fetched, still to be looked at, or to be marked.
Tracks(c, t) ==
  LET k == cycle[c]
  IN /\ k.pc \notin {"idle", "meta"} /\ updated[t] <= k.meta.last => notified[t]
     /\ k.pc = "fetch" => \/ notified[t] \/ Matched(k.got, t)
                          \/ Position(t) >= (k.page - 1) * PageSize
     /\ k.pc = "upsert" => notified[t] \/ Matched(k.got, t)
     /\ k.pc \in {"check", "notify"} => notified[t] \/ t \in k.ids \/ Matched(k.todo, t)
     /\ k.pc = "save" => notified[t]

\* A cycle that has not read its metadata has fetched nothing; one that has holds
\* metadata that was saved.
Begun(c) ==
  /\ cycle[c].fresh.validator <= now
  /\ cycle[c].pc \in {"idle", "meta"} => cycle[c].page = 1 /\ cycle[c].got = {}
  /\ cycle[c].pc \notin {"idle", "meta"} => Dated(cycle[c].meta)

AlertInv ==
  /\ \A t \in Thread : updated[t] <= now /\ (unread[t] => updated[t] # 0)
  /\ Dated(meta) /\ NoAlertLost
  /\ \A c \in Cycle : Begun(c)
  /\ \A c \in Cycle, t \in Thread : Live(t) => Tracks(c, t)

\* The times of the metadata are what the arithmetic below needs.
LEMMA AlertTypes ==
  ASSUME TypeOK
  PROVE  /\ now \in Nat /\ updated \in [Thread -> Nat]
         /\ meta \in Meta /\ meta.validator \in Nat /\ meta.last \in Nat
         /\ \A c \in Cycle : /\ cycle[c].meta.validator \in Nat /\ cycle[c].meta.last \in Nat
                             /\ cycle[c].fresh.validator \in Nat
BY SyncAssumption DEF TypeOK, Stamp, Meta, CycleState

\* New activity of another thread only moves a thread down the listing.
LEMMA PositionGrows ==
  ASSUME TypeOK, NEW t \in Listed, NEW u \in Thread, u # t,
         \A w \in Thread : updated[w] <= now,
         updated' = [updated EXCEPT ![u] = now + 1]
  PROVE  \A m \in Int : Position(t) >= m => Position(t)' >= m
<1>. DEFINE before == {w \in Listed : updated[w] > updated[t]}
<1>. DEFINE after == {w \in Listed' : updated'[w] > updated'[t]}
<1>1. t \in Thread /\ updated'[t] = updated[t]
  BY DEF Listed, TypeOK
<1>2. before \subseteq after
  <2>. SUFFICES ASSUME NEW w \in before PROVE w \in after
    OBVIOUS
  <2>1. w \in Thread /\ updated[w] # 0 /\ updated[w] > updated[t]
    BY DEF Listed
  <2>2. CASE w = u
    BY <1>1, <2>1, <2>2, AlertTypes DEF Listed
  <2>3. CASE w # u
    BY <1>1, <2>1, <2>3, AlertTypes DEF Listed
  <2>. QED BY <2>2, <2>3
<1>3. IsFiniteSet(after)
  <2>1. after \subseteq Thread
    BY DEF Listed
  <2>. HIDE DEF after
  <2>. QED BY <2>1, SyncAssumption, FS_Subset
<1>4. Position(t) = Cardinality(before) /\ Position(t)' = Cardinality(after)
  BY DEF Position
<1>. HIDE DEF before, after
<1>5. /\ IsFiniteSet(before) /\ Cardinality(before) <= Cardinality(after)
      /\ Cardinality(before) \in Nat /\ Cardinality(after) \in Nat
  BY <1>2, <1>3, FS_Subset, FS_CardinalityType
<1>. QED BY <1>4, <1>5

\* A cycle goes on tracking a thread when neither of them takes a step.
LEMMA StillTracked ==
  ASSUME TypeOK, NEW c \in Cycle, NEW t \in Thread, Tracks(c, t),
         cycle'[c] = cycle[c], updated'[t] = updated[t], notified[t] => notified'[t],
         \A m \in Int : Position(t) >= m => Position(t)' >= m
  PROVE  Tracks(c, t)'
<1>1. (cycle[c].page - 1) * PageSize \in Int
  BY SyncAssumption DEF TypeOK, CycleState
<1>2. \A S : Matched(S, t)' <=> Matched(S, t)
  BY DEF Matched
<1>. DEFINE due == (cycle[c].page - 1) * PageSize
<1>3. Position(t) >= due => Position(t)' >= due
  BY <1>1
<1>4. (Position(t) >= (cycle[c].page - 1) * PageSize)' <=> Position(t)' >= due
  OBVIOUS
<1>. HIDE DEF due
<1>. QED BY <1>2, <1>3, <1>4 DEF Tracks, due

\* A step that leaves the activity, the cycles and the marks alone keeps the invariant.
LEMMA QuietTracked ==
  ASSUME TypeOK, AlertInv, now' \in {now, now + 1},
         UNCHANGED <<updated, notified, meta, cycle, missed>>,
         \A t \in Thread : unread'[t] => unread[t]
  PROVE  AlertInv'
<1>1. \A t \in Thread : updated'[t] <= now' /\ (unread'[t] => updated'[t] # 0)
  BY AlertTypes DEF AlertInv
<1>2. Dated(meta)' /\ NoAlertLost'
  BY AlertTypes DEF AlertInv, Dated, NoAlertLost
<1>3. \A c \in Cycle : Begun(c)'
  BY AlertTypes DEF AlertInv, Begun, Dated
<1>4. ASSUME NEW c \in Cycle, NEW t \in Thread, Live(t)'
      PROVE  Tracks(c, t)'
  <2>1. Tracks(c, t)
    BY <1>4 DEF AlertInv, Live
  <2>2. Position(t)' = Position(t)
    BY DEF Position, Listed
  <2>. QED BY <2>1, <2>2, StillTracked
<1>. QED BY <1>1, <1>2, <1>3, <1>4 DEF AlertInv

\* New activity is tracked by every cycle still to fetch its first page, and else
\* missed; the cycles go on tracking the other threads.
LEMMA ActivityTracked ==
  ASSUME TypeOK, AlertInv, NEW u \in Thread, Activity(u)
  PROVE  AlertInv'
<1>. USE AlertTypes
<1>1. /\ now' = now + 1 /\ updated' = [updated EXCEPT ![u] = now + 1]
      /\ unread' = [unread EXCEPT ![u] = TRUE]
      /\ UNCHANGED <<notified, meta, cycle>>
  BY DEF Activity
<1>2. \A t \in Thread : /\ updated'[t] = IF t = u THEN now + 1 ELSE updated[t]
                        /\ t # u => unread'[t] = unread[t] /\ (t \in missed' <=> t \in missed)
  BY <1>1 DEF Activity, TypeOK
<1>3. \A t \in Thread : updated'[t] <= now' /\ (unread'[t] => updated'[t] # 0)
  BY <1>1, <1>2 DEF AlertInv
<1>4. Dated(meta)' /\ NoAlertLost'
  BY <1>1, <1>2 DEF AlertInv, Dated, NoAlertLost
<1>5. \A c \in Cycle : Begun(c)'
  BY <1>1 DEF AlertInv, Begun, Dated
<1>6. ASSUME NEW c \in Cycle, Live(u)'
      PROVE  Tracks(c, u)'
  <2>1. ~PastFetch(c)
    BY <1>6 DEF Activity, Live
  <2>2. cycle[c] \in CycleState
    BY DEF TypeOK
  <2>3. \/ cycle[c].pc \in {"idle", "meta"}
        \/ cycle[c].pc = "fetch" /\ cycle[c].page = 1 /\ Dated(cycle[c].meta)
    BY <2>1, <2>2 DEF PastFetch, CycleState, Phase, AlertInv, Begun
  <2>4. Position(u)' \in Nat
    <3>1. {w \in Listed' : updated'[w] > updated'[u]} \subseteq Thread
      BY DEF Listed
    <3>. QED BY <3>1, SyncAssumption, FS_Subset, FS_CardinalityType DEF Position
  <2>5. cycle[c].pc = "fetch" => /\ Position(u)' >= (cycle[c].page - 1) * PageSize
                                 /\ ~(updated'[u] <= cycle[c].meta.last)
    BY <1>2, <2>3, <2>4, SyncAssumption DEF Dated
  <2>. QED BY <1>1, <2>3, <2>5 DEF Tracks
<1>7. ASSUME NEW c \in Cycle, NEW t \in Thread, t # u, Live(t)'
      PROVE  Tracks(c, t)'
  <2>1. Tracks(c, t) /\ t \in Listed
    BY <1>2, <1>7 DEF AlertInv, Live, Listed
  <2>2. \A m \in Int : Position(t) >= m => Position(t)' >= m
    BY <1>1, <1>7, <2>1, PositionGrows DEF AlertInv
  <2>. QED BY <1>1, <1>2, <1>7, <2>1, <2>2, StillTracked
<1>. QED BY <1>3, <1>4, <1>5, <1>6, <1>7 DEF AlertInv

\* GitHub, the other devices and the user keep the invariant.
LEMMA EnvironmentTracked ==
  ASSUME TypeOK, AlertInv, NEW t \in Thread, Environment(t)
  PROVE  AlertInv'
<1>1. CASE Activity(t)
  BY <1>1, ActivityTracked
<1>2. CASE ReadElsewhere(t)
  BY <1>2, QuietTracked DEF ReadElsewhere, TypeOK
<1>3. CASE MarkRead(t) \/ MarkUnread(t) \/ PatchFails(t)
  BY <1>3, QuietTracked DEF MarkRead, MarkUnread, PatchFails
<1>4. CASE PatchDone(t)
  <2>1. now' \in {now, now + 1} /\ \A u \in Thread : unread'[u] => unread[u]
    BY <1>4 DEF PatchDone, TypeOK
  <2>. QED BY <1>4, <2>1, QuietTracked DEF PatchDone
<1>. QED BY <1>1, <1>2, <1>3, <1>4 DEF Environment

\* A step of a cycle, beside its own variables.
LEMMA StepFrame ==
  ASSUME TypeOK, NEW c \in Cycle, Step(c) \/ \E force \in BOOLEAN : Begin(c, force)
  PROVE  /\ UNCHANGED github /\ missed \subseteq missed'
         /\ \A t \in Thread : notified[t] => notified'[t]
         /\ \A d \in Cycle \ {c} : cycle'[d] = cycle[d]
<1>1. CASE \E force \in BOOLEAN : Begin(c, force)
  BY <1>1 DEF Begin, TypeOK
<1>2. CASE ReadMeta(c) \/ SkipPoll(c) \/ NotModified(c) \/ FetchPage(c)
  BY <1>2 DEF ReadMeta, SkipPoll, NotModified, FetchPage, Return, TypeOK
<1>3. CASE FetchFails(c) \/ Save(c) \/ StoreFails(c)
  BY <1>3 DEF FetchFails, Save, StoreFails, Return, TypeOK
<1>4. CASE Upsert(c) \/ Check(c) \/ CheckFails(c)
  BY <1>4 DEF Upsert, Check, CheckFails, TypeOK
<1>5. CASE NotifyMuted(c) \/ NotifyAlert(c) \/ NotifySummary(c)
  BY <1>5 DEF NotifyMuted, NotifyAlert, NotifySummary, Noted, TypeOK
<1>6. CASE Mark(c)
  BY <1>6 DEF Mark, TypeOK
<1>. QED BY <1>1, <1>2, <1>3, <1>4, <1>5, <1>6 DEF Step

\* The saved metadata after a step of a cycle, and what the cycle itself holds.
LEMMA StepDated ==
  ASSUME TypeOK, AlertInv, NEW c \in Cycle, Step(c) \/ \E force \in BOOLEAN : Begin(c, force)
  PROVE  Dated(meta)' /\ NoAlertLost' /\ Begun(c)'
<1>0. /\ cycle \in [Cycle -> CycleState] /\ cycle[c] \in CycleState
      /\ Begun(c) /\ \A t \in Thread : Live(t) => Tracks(c, t)
  BY DEF TypeOK, AlertInv
<1>1. now' = now /\ \A m : Dated(m)' <=> Dated(m)
  BY StepFrame DEF Dated
<1>2. ASSUME meta' = meta
      PROVE  Dated(meta)' /\ NoAlertLost'
  BY <1>2, StepFrame DEF AlertInv, Dated, NoAlertLost
<1>3. ASSUME cycle'[c] = Idle
      PROVE  Begun(c)'
  BY <1>1, <1>3, AlertTypes DEF Begun, Idle, NoMeta
<1>4. ASSUME cycle[c].pc \notin {"idle", "meta"}, cycle'[c].pc \notin {"idle", "meta"},
             cycle'[c].meta = cycle[c].meta, cycle'[c].fresh.validator <= now
      PROVE  Begun(c)'
  BY <1>0, <1>1, <1>4 DEF Begun, Dated
<1>5. CASE \E force \in BOOLEAN : Begin(c, force)
  <2>1. PICK force \in BOOLEAN : Begin(c, force)
    BY <1>5
  <2>2. /\ meta' = meta /\ cycle[c].pc = "idle" /\ cycle'[c].pc = "meta"
        /\ cycle'[c].page = cycle[c].page /\ cycle'[c].got = cycle[c].got
        /\ cycle'[c].fresh = cycle[c].fresh
    BY <1>0, <2>1 DEF Begin, CycleState
  <2>. QED BY <1>0, <1>1, <1>2, <2>2 DEF Begun
<1>6. CASE ReadMeta(c)
  <2>1. /\ meta' = meta /\ cycle'[c].pc = "fetch" /\ cycle'[c].fresh = meta
        /\ cycle'[c].meta = meta
    BY <1>0, <1>6 DEF ReadMeta, CycleState
  <2>. QED BY <1>1, <1>2, <2>1, AlertTypes DEF Begun, AlertInv, Dated
<1>7. CASE SkipPoll(c) \/ StoreFails(c)
  BY <1>0, <1>2, <1>3, <1>7 DEF SkipPoll, StoreFails, Return
<1>8. CASE NotModified(c) \/ Upsert(c) \/ Check(c) \/ CheckFails(c) \/ Mark(c)
  <2>1. meta' = meta
    BY <1>8 DEF NotModified, Upsert, Check, CheckFails, Mark
  <2>2. /\ cycle[c].pc \notin {"idle", "meta"} /\ cycle'[c].pc \notin {"idle", "meta"}
        /\ cycle'[c].meta = cycle[c].meta /\ cycle'[c].fresh = cycle[c].fresh
    <3>1. CASE NotModified(c) \/ Upsert(c) \/ Mark(c)
      BY <1>0, <3>1 DEF NotModified, Upsert, Mark, CycleState
    <3>2. CASE Check(c)
      BY <1>0, <3>2 DEF Check, CycleState
    <3>3. CASE CheckFails(c)
      BY <1>0, <3>3 DEF CheckFails, CycleState
    <3>. QED BY <1>8, <3>1, <3>2, <3>3
  <2>. QED BY <1>0, <1>2, <1>4, <2>1, <2>2 DEF Begun
<1>9. CASE NotifyMuted(c) \/ NotifyAlert(c) \/ NotifySummary(c)
  <2>1. PICK i \in {0, 1} : cycle' = Noted(c, NextEntry(c), i)
    BY <1>9 DEF NotifyMuted, NotifyAlert, NotifySummary
  <2>2. meta' = meta /\ cycle[c].pc = "notify"
    BY <1>9 DEF NotifyMuted, NotifyAlert, NotifySummary
  <2>3. /\ cycle'[c].pc = "check"
        /\ cycle'[c].meta = cycle[c].meta /\ cycle'[c].fresh = cycle[c].fresh
    BY <1>0, <2>1 DEF Noted, CycleState
  <2>. QED BY <1>0, <1>2, <1>4, <2>2, <2>3 DEF Begun
<1>10. CASE FetchPage(c)
  <2>1. /\ meta' = meta /\ cycle[c].pc = "fetch" /\ cycle'[c].meta = cycle[c].meta
        /\ cycle'[c].pc \in {"fetch", "save", "upsert"}
        /\ cycle'[c].fresh = Checkpoint(cycle[c].fresh, cycle[c].page)
    BY <1>0, <1>10 DEF FetchPage, CycleState
  <2>2. cycle'[c].fresh.validator <= now
    BY <1>0, <2>1, AlertTypes DEF Checkpoint, CycleState, Meta, Begun
  <2>. QED BY <1>2, <1>4, <2>1, <2>2
<1>11. CASE FetchFails(c)
  <2>1. /\ cycle'[c] = Idle /\ cycle[c].pc = "fetch"
        /\ notified' = notified /\ meta' \in {meta, cycle[c].meta}
    BY <1>0, <1>11 DEF FetchFails, Return
  <2>2. CASE meta' = meta
    BY <1>2, <1>3, <2>1, <2>2
  <2>3. CASE meta' = cycle[c].meta
    <3>1. Dated(meta)'
      BY <1>0, <2>1, <2>3, <1>1 DEF Begun, Dated
    <3>2. NoAlertLost'
      <4>. SUFFICES ASSUME NEW t \in Thread, unread[t], t \notin missed,
                           cycle[c].meta.last >= updated[t]
                    PROVE  notified[t]
        BY <2>1, <2>3, StepFrame DEF NoAlertLost
      <4>1. updated[t] <= cycle[c].meta.last
        BY AlertTypes
      <4>. QED BY <1>0, <2>1, <4>1 DEF Live, Tracks
    <3>. QED BY <1>3, <2>1, <3>1, <3>2
  <2>. QED BY <2>1, <2>2, <2>3
<1>12. CASE Save(c)
  <2>1. /\ cycle'[c] = Idle /\ cycle[c].pc = "save" /\ notified' = notified
        /\ meta'.validator = cycle[c].fresh.validator /\ meta'.last = now
    BY <1>0, <1>12 DEF Save, Return, CycleState, Meta
  <2>2. Dated(meta)'
    BY <1>0, <1>1, <2>1, AlertTypes DEF Dated, Begun
  <2>3. NoAlertLost'
    <3>. SUFFICES ASSUME NEW t \in Thread, unread[t], t \notin missed
                  PROVE  notified[t]
      BY <2>1, StepFrame DEF NoAlertLost
    <3>. QED BY <1>0, <2>1 DEF Live, Tracks
  <2>. QED BY <1>3, <2>1, <2>2, <2>3
<1>. QED BY <1>5, <1>6, <1>7, <1>8, <1>9, <1>10, <1>11, <1>12 DEF Step

\* The answer to the request for a page holds the threads of that page.
LEMMA PageTracked ==
  ASSUME TypeOK, NEW c \in Cycle, NEW t \in Thread, unread[t], updated[t] # 0,
         Tracks(c, t), FetchPage(c)
  PROVE  Tracks(c, t)'
<1>0. cycle \in [Cycle -> CycleState] /\ cycle[c] \in CycleState
  BY DEF TypeOK
<1>. DEFINE n == cycle[c].page
            got == cycle[c].got \cup Page(n)
<1>1. UNCHANGED <<github, notified>>
  BY DEF FetchPage
<1>2. /\ cycle[c].pc = "fetch" /\ cycle'[c].got = got /\ cycle'[c].page = n + 1
      /\ cycle'[c].meta = cycle[c].meta
      /\ cycle'[c].pc = IF HasNext(n) THEN "fetch" ELSE IF got = {} THEN "save" ELSE "upsert"
  BY <1>0 DEF FetchPage, CycleState
<1>3. /\ n \in Nat \ {0} /\ PageSize \in Nat \ {0} /\ t \in Listed
      /\ Position(t) \in Nat /\ Position(t) < Cardinality(Listed) /\ Cardinality(Listed) \in Nat
  BY <1>0, SyncAssumption, PositionBelow DEF CycleState, Listed
<1>4. t \in OnPage(n) => Matched(got, t)
  <2>. SUFFICES ASSUME t \in OnPage(n) PROVE Matched(got, t)
    OBVIOUS
  <2>. DEFINE e == [page |-> n, id |-> t, updated |-> updated[t], unread |-> unread[t]]
  <2>1. e \in Page(n) /\ e.id = t /\ e.updated = updated[t] /\ e.unread
    BY DEF Page
  <2>2. e \in got
    BY <2>1
  <2>. HIDE DEF e
  <2>. QED BY <2>1, <2>2 DEF Matched
<1>5. Matched(cycle[c].got, t) => Matched(got, t)
  BY DEF Matched
<1>6. \/ notified[t] \/ Matched(cycle[c].got, t)
      \/ Position(t) >= (n - 1) * PageSize
  BY <1>2 DEF Tracks
<1>. HIDE DEF n, got
<1>7. notified[t] \/ Matched(got, t) \/ Position(t) >= n * PageSize
  <2>1. n * PageSize \in Nat /\ (n - 1) * PageSize \in Nat
    BY <1>3
  <2>. QED BY <1>3, <1>4, <1>5, <1>6, <2>1 DEF OnPage
<1>8. ~HasNext(n) => notified[t] \/ Matched(got, t)
  <2>1. n * PageSize \in Nat
    BY <1>3
  <2>. QED BY <1>3, <1>7, <2>1 DEF HasNext
<1>9. got = {} => ~Matched(got, t)
  BY DEF Matched
<1>10. \A S : Matched(S, t)' <=> Matched(S, t)
  BY <1>1 DEF Matched
<1>11. Position(t)' = Position(t) /\ (n + 1) - 1 = n
  BY <1>1, <1>3 DEF Position, Listed
<1>12. updated[t] <= cycle[c].meta.last => notified[t]
  BY <1>2 DEF Tracks
<1>. QED BY <1>1, <1>2, <1>7, <1>8, <1>9, <1>10, <1>11, <1>12 DEF Tracks

\* What one step of a cycle leaves to do it still tracks.
LEMMA StepTracked ==
  ASSUME TypeOK, AlertInv, NEW c \in Cycle, Step(c) \/ \E force \in BOOLEAN : Begin(c, force),
         NEW t \in Thread, Live(t)'
  PROVE  Tracks(c, t)'
<1>0. /\ cycle \in [Cycle -> CycleState] /\ cycle[c] \in CycleState /\ CycleOK(cycle[c])
      /\ Begun(c)
  BY DEF TypeOK, AlertInv
<1>1. Live(t) /\ Tracks(c, t) /\ unread[t] /\ updated[t] # 0 /\ UNCHANGED github
  BY StepFrame DEF AlertInv, Live
<1>2. \A S : Matched(S, t)' <=> Matched(S, t)
  BY <1>1 DEF Matched
<1>3. notified[t] => notified'[t]
  BY StepFrame
<1>4. CASE \E force \in BOOLEAN : Begin(c, force)
  <2>1. PICK force \in BOOLEAN : Begin(c, force)
    BY <1>4
  <2>2. cycle'[c].pc = "meta"
    BY <1>0, <2>1 DEF Begin, CycleState
  <2>. QED BY <2>2 DEF Tracks
<1>5. CASE ReadMeta(c)
  <2>1. /\ cycle[c].pc = "meta" /\ cycle'[c].pc = "fetch" /\ cycle'[c].page = cycle[c].page
        /\ cycle'[c].meta = meta
    BY <1>0, <1>5 DEF ReadMeta, CycleState
  <2>2. updated[t] <= meta.last => notified[t]
    BY <1>1, AlertTypes DEF AlertInv, NoAlertLost, Live
  <2>3. Position(t) \in Nat /\ Position(t)' = Position(t)
    BY <1>1, PositionBelow DEF Listed, Position
  <2>4. Position(t)' >= (cycle'[c].page - 1) * PageSize
    BY <1>0, <2>1, <2>3, SyncAssumption DEF Begun
  <2>. QED BY <1>1, <1>3, <2>1, <2>2, <2>4 DEF Tracks
<1>6. CASE SkipPoll(c) \/ FetchFails(c) \/ Save(c) \/ StoreFails(c)
  <2>1. cycle'[c] = Idle
    BY <1>0, <1>6 DEF SkipPoll, FetchFails, Save, StoreFails, Return
  <2>. QED BY <2>1 DEF Tracks, Idle
<1>7. CASE NotModified(c)
  <2>1. /\ cycle[c].pc = "fetch" /\ cycle[c].meta.validator = now /\ cycle'[c].pc = "save"
        /\ cycle'[c].meta = cycle[c].meta
    BY <1>0, <1>7 DEF NotModified, CycleState
  <2>2. updated[t] <= cycle[c].meta.last
    BY <1>0, <2>1, AlertTypes DEF AlertInv, Begun, Dated
  <2>. QED BY <1>1, <1>3, <2>1, <2>2 DEF Tracks
<1>8. CASE FetchPage(c)
  BY <1>1, <1>8, PageTracked
<1>9. CASE Upsert(c)
  <2>1. /\ cycle[c].pc = "upsert" /\ cycle'[c].pc = "check" /\ cycle'[c].todo = cycle[c].got
        /\ cycle'[c].meta = cycle[c].meta
    BY <1>0, <1>9 DEF Upsert, CycleState
  <2>. QED BY <1>1, <1>2, <1>3, <2>1 DEF Tracks
<1>10. CASE Check(c)
  <2>. DEFINE e == NextEntry(c)
  <2>0. cycle[c].pc = "check" /\ cycle'[c].meta = cycle[c].meta /\ cycle'[c].ids = cycle[c].ids
    BY <1>0, <1>10 DEF Check, CycleState
  <2>1. CASE Due(e, cycle[c].meta.last)
    <3>1. cycle'[c].pc = "notify" /\ cycle'[c].todo = cycle[c].todo
      BY <1>0, <1>10, <2>1 DEF Check, CycleState
    <3>. QED BY <1>1, <1>2, <1>3, <2>0, <3>1 DEF Tracks
  <2>2. CASE ~Due(e, cycle[c].meta.last)
    <3>1. cycle'[c].pc = "check" /\ cycle'[c].todo = cycle[c].todo \ {e}
      BY <1>0, <1>10, <2>2 DEF Check, CycleState
    <3>2. ASSUME e.id = t, e.updated = updated[t], e.unread
          PROVE  notified[t]
      <4>1. notified[t] \/ updated[t] <= cycle[c].meta.last
        BY <2>2, <3>2, AlertTypes DEF Due
      <4>. QED BY <1>1, <2>0, <4>1 DEF Tracks
    <3>3. notified[t] \/ t \in cycle[c].ids \/ Matched(cycle[c].todo \ {e}, t)
      BY <1>1, <2>0, <3>2 DEF Tracks, Matched
    <3>. QED BY <1>1, <1>2, <1>3, <2>0, <3>1, <3>3 DEF Tracks
  <2>. QED BY <2>1, <2>2
<1>11. CASE CheckFails(c)
  <2>. DEFINE e == NextEntry(c)
  <2>1. /\ cycle[c].pc = "check" /\ cycle'[c].pc = "check" /\ cycle'[c].todo = cycle[c].todo \ {e}
        /\ cycle'[c].meta = cycle[c].meta /\ cycle'[c].ids = cycle[c].ids
    BY <1>0, <1>11 DEF CheckFails, CycleState
  <2>2. e.id # t
    BY <1>11 DEF CheckFails, Live
  <2>3. notified[t] \/ t \in cycle[c].ids \/ Matched(cycle[c].todo \ {e}, t)
    BY <1>1, <2>1, <2>2 DEF Tracks, Matched
  <2>. QED BY <1>1, <1>2, <1>3, <2>1, <2>3 DEF Tracks
<1>12. CASE NotifyMuted(c) \/ NotifyAlert(c) \/ NotifySummary(c)
  <2>. DEFINE e == NextEntry(c)
  <2>1. PICK i \in {0, 1} : cycle' = Noted(c, e, i)
    BY <1>12 DEF NotifyMuted, NotifyAlert, NotifySummary
  <2>2. cycle[c].pc = "notify"
    BY <1>12 DEF NotifyMuted, NotifyAlert, NotifySummary
  <2>3. /\ cycle'[c].pc = "check" /\ cycle'[c].todo = cycle[c].todo \ {e}
        /\ cycle'[c].meta = cycle[c].meta /\ cycle'[c].ids = cycle[c].ids \cup {e.id}
    BY <1>0, <2>1 DEF Noted, CycleState
  <2>4. notified[t] \/ t \in cycle[c].ids \cup {e.id} \/ Matched(cycle[c].todo \ {e}, t)
    BY <1>1, <2>2 DEF Tracks, Matched
  <2>. QED BY <1>1, <1>2, <1>3, <2>2, <2>3, <2>4 DEF Tracks
<1>13. CASE Mark(c)
  <2>1. /\ cycle[c].pc = "check" /\ cycle[c].todo = {} /\ cycle'[c].pc = "save"
        /\ cycle'[c].meta = cycle[c].meta
    BY <1>0, <1>13 DEF Mark, CycleState
  <2>2. notified[t] \/ t \in cycle[c].ids
    BY <1>1, <2>1 DEF Tracks, Matched
  <2>3. notified'[t]
    BY <1>13, <2>2 DEF Mark
  <2>. QED BY <2>1, <2>3 DEF Tracks
<1>. QED BY <1>4, <1>5, <1>6, <1>7, <1>8, <1>9, <1>10, <1>11, <1>12, <1>13 DEF Step

\* A step of one cycle keeps the invariant of them all.
LEMMA CycleStepTracked ==
  ASSUME TypeOK, AlertInv, NEW c \in Cycle, Step(c) \/ \E force \in BOOLEAN : Begin(c, force)
  PROVE  AlertInv'
<1>1. /\ UNCHANGED github /\ missed \subseteq missed'
      /\ \A t \in Thread : notified[t] => notified'[t]
      /\ \A d \in Cycle \ {c} : cycle'[d] = cycle[d]
  BY StepFrame
<1>2. \A t \in Thread : updated'[t] <= now' /\ (unread'[t] => updated'[t] # 0)
  BY <1>1 DEF AlertInv
<1>3. \A d \in Cycle : Begun(d)'
  <2>1. \A d \in Cycle \ {c} : Begun(d)'
    BY <1>1 DEF AlertInv, Begun, Dated
  <2>. QED BY <2>1, StepDated
<1>4. ASSUME NEW d \in Cycle, NEW t \in Thread, Live(t)'
      PROVE  Tracks(d, t)'
  <2>1. CASE d = c
    BY <1>4, <2>1, StepTracked
  <2>2. CASE d # c
    <3>1. Tracks(d, t)
      BY <1>1, <1>4 DEF AlertInv, Live
    <3>2. Position(t)' = Position(t)
      BY <1>1 DEF Position, Listed
    <3>. QED BY <1>1, <2>2, <3>1, <3>2, StillTracked
  <2>. QED BY <2>1, <2>2
<1>. QED BY <1>2, <1>3, <1>4, StepDated DEF AlertInv

\* However many cycles overlap and whatever fails or crashes between two steps, an unread
\* thread whose activity the saved time covers has been marked as alerted for, unless its
\* activity came after some cycle had begun to fetch or its row could not be read.
THEOREM AlertsAreKept == Spec => []NoAlertLost
<1>1. Init => TypeOK /\ AlertInv
  <2>. SUFFICES ASSUME Init PROVE AlertInv
    BY InitTyped
  <2>. QED BY DEF Init, AlertInv, Dated, NoAlertLost, Begun, Live, Idle, NoMeta
<1>2. TypeOK /\ AlertInv /\ [Next]_vars => (TypeOK /\ AlertInv)'
  <2>. SUFFICES ASSUME TypeOK, AlertInv, [Next]_vars PROVE AlertInv'
    BY NextTyped
  <2>1. ASSUME NEW t \in Thread, Environment(t)
        PROVE  AlertInv'
    BY <2>1, EnvironmentTracked
  <2>2. ASSUME NEW c \in Cycle, NEW force \in BOOLEAN, Begin(c, force)
        PROVE  AlertInv'
    BY <2>2, CycleStepTracked
  <2>3. ASSUME NEW c \in Cycle, Step(c)
        PROVE  AlertInv'
    BY <2>3, CycleStepTracked
  <2>4. CASE TimePasses
    BY <2>4, QuietTracked DEF TimePasses
  <2>5. CASE Crash
    <3>1. /\ UNCHANGED <<github, notified, meta, missed>>
          /\ \A c \in Cycle : cycle'[c] = Idle
      BY <2>5 DEF Crash
    <3>2. \A c \in Cycle : Begun(c)'
      BY <3>1, AlertTypes DEF Begun, Idle, NoMeta
    <3>3. \A c \in Cycle, t \in Thread : Tracks(c, t)'
      BY <3>1 DEF Tracks, Idle
    <3>. QED BY <3>1, <3>2, <3>3 DEF AlertInv, Dated, NoAlertLost
  <2>6. CASE UNCHANGED vars
    BY <2>6, QuietTracked
  <2>. QED BY <2>1, <2>2, <2>3, <2>4, <2>5, <2>6 DEF Next
<1>3. AlertInv => NoAlertLost
  BY DEF AlertInv
<1>. QED BY <1>1, <1>2, <1>3, PTL DEF Spec
=============================================================================
