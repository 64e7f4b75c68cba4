-------------------------- MODULE UserStore_proofs --------------------------
(***************************************************************************)
(* Theorems about UserStore: type correctness; compactions exclude each    *)
(* other as long as no lock file was removed as stale; the disk keeps      *)
(* every record but those a running compaction is blind to, and with one   *)
(* writer implements LearningLog; before the first compaction every        *)
(* process counts the others' records exactly once.                        *)
(***************************************************************************)
EXTENDS UserStore, FiniteSetTheorems, FunctionTheorems, SequenceTheorems, TLAPS

-----------------------------------------------------------------------------
(* Lemmas about the operators.                                             *)

\* Applying any places of a sequence to a model gives a model.
LEMMA ReplayType ==
    ASSUME NEW m \in Model, NEW s \in Seq(Record), NEW K \in SUBSET (1..Len(s))
    PROVE  Replay(m, s, K) \in Model
<1> DEFINE Counted(n) == {k \in K : s[k].id = n /\ \A j \in K : j >= k => ~IsWipe(s[j])}
<1>1. \A n \in Id : Cardinality(Counted(n)) \in Nat
  <2> SUFFICES ASSUME NEW n \in Id PROVE Cardinality(Counted(n)) \in Nat
    OBVIOUS
  <2>1. Counted(n) \subseteq 1..Len(s)
    OBVIOUS
  <2>2. IsFiniteSet(1..Len(s))
    BY FS_Interval
  <2> QED BY <2>1, <2>2, FS_Subset, FS_CardinalityType
<1>2. \A n \in Id : (IF \E k \in K : IsWipe(s[k]) THEN 0 ELSE m[n]) \in Nat
  BY DEF Model
<1>3. \A n \in Id : (IF \E k \in K : IsWipe(s[k]) THEN 0 ELSE m[n])
                    + Cardinality(Counted(n)) \in Nat
  BY <1>1, <1>2
<1> QED BY <1>3 DEF Replay, Model

\* A fresh MemoryUser is a model.
LEMMA EmptyModelType == EmptyModel \in Model
BY DEF EmptyModel, Model

SnapshotType == [model : Model, consumed : Nat, prefix : Seq(Record), stamp : Nat]

\* What load_all returns is a model.
LEMMA LoadAllType ==
    ASSUME NEW j \in Seq(Record), NEW snap \in SnapshotType
    PROVE  LoadAll(j, snap) \in Model
<1>1. ((IF StillThere(j, snap) THEN snap.consumed ELSE 0) + 1 .. Len(j)) \in SUBSET (1..Len(j))
  BY DEF SnapshotType
<1>2. snap.model \in Model
  BY DEF SnapshotType
<1> QED BY <1>1, <1>2, ReplayType DEF LoadAll

\* A piece of a sequence, within its bounds, is a sequence of the same elements.
LEMMA SubSeqType ==
    ASSUME NEW s \in Seq(Record), NEW a \in Nat \ {0}, NEW b \in Nat, b <= Len(s)
    PROVE  SubSeq(s, a, b) \in Seq(Record)
BY SubSeqProperties

\* What prefix_of hashes is a sequence of records.
LEMMA PrefixType ==
    ASSUME NEW j \in Seq(Record), NEW n \in Nat
    PROVE  PrefixOf(j, n) \in Seq(Record)
<1>1. Len(j) \in Nat /\ PrefixCap \in Nat
  BY StoreAssumption
<1>2. MinOf(Len(j), MinOf(n, PrefixCap)) \in Nat /\ MinOf(Len(j), MinOf(n, PrefixCap)) <= Len(j)
  BY <1>1 DEF MinOf
<1> QED BY <1>2, SubSeqType DEF PrefixOf

\* What is left of the channel after recv is a sequence of records.
LEMMA TailType ==
    ASSUME NEW s \in Seq(Record), NEW n \in Nat
    PROVE  SubSeq(s, n + 1, Len(s)) \in Seq(Record)
BY SubSeqType

\* The writer thread's record slot after a step that sets it to x.
SlotType == {f \in [Process -> Seq(Record)] : \A q \in Process : Len(f[q]) <= 1}

\* Setting one writer slot to at most one record keeps the slots well typed.
LEMMA SlotStep ==
    ASSUME NEW f \in SlotType, NEW p \in Process, NEW x \in Seq(Record), Len(x) <= 1
    PROVE  [f EXCEPT ![p] = x] \in SlotType
BY DEF SlotType

\* One more entry in `own` keeps its type.
LEMMA OneMore ==
    ASSUME NEW f \in [Id -> Nat], NEW k
    PROVE  [f EXCEPT ![k] = f[k] + 1] \in [Id -> Nat]
<1>1. \A n \in Id : (IF n = k THEN f[k] + 1 ELSE f[n]) \in Nat
  <2> SUFFICES ASSUME NEW n \in Id PROVE (IF n = k THEN f[k] + 1 ELSE f[n]) \in Nat
    OBVIOUS
  <2>1. f[n] \in Nat
    OBVIOUS
  <2>2. CASE n = k
    BY <2>1, <2>2
  <2>3. CASE n # k
    BY <2>1, <2>3
  <2> QED BY <2>2, <2>3
<1>2. [f EXCEPT ![k] = f[k] + 1] = [n \in Id |-> IF n = k THEN f[k] + 1 ELSE f[n]]
  OBVIOUS
<1> QED BY <1>1, <1>2

-----------------------------------------------------------------------------
(* Type correctness, one step per action.                                  *)

\* The initial state is well typed.
LEMMA TypeInit == Init => TypeOK
<1> SUFFICES ASSUME Init PROVE TypeOK
  OBVIOUS
<1>1. EmptyModel \in Model /\ <<>> \in Seq(Record) /\ Len(<<>>) <= 1
  BY EmptyModelType
<1>2. 0 \in 0..MaxRecords /\ 0 \in 0..MaxCrashes /\ 0 \in 0..MaxFailures
  BY StoreAssumption
<1>3. NoEntries \in [Id -> Nat]
  BY DEF NoEntries
<1>4. look \in [Process -> [stamp : Nat, journal : Seq(Record)]]
  <2>1. NoLook \in [stamp : Nat, journal : Seq(Record)]
    BY <1>1 DEF NoLook
  <2> QED BY <2>1 DEF Init
<1>5. snapshot \in [model : Model, consumed : Nat, prefix : Seq(Record), stamp : Nat]
  BY <1>1 DEF Init, NoSnapshot
<1>6. rec \in [Process -> Seq(Record)] /\ \A p \in Process : Len(rec[p]) <= 1
  BY <1>1 DEF Init
<1>7. model \in [Process -> Model] /\ merged \in [Process -> Model]
  BY <1>1 DEF Init
<1>8. own \in [Process -> [Id -> Nat]]
  BY <1>3 DEF Init
<1>9. /\ journal \in Seq(Record) /\ written \in Seq(Record)
      /\ queue \in [Process -> Seq(Record)] /\ first \in [Process -> Seq(Record)]
      /\ again \in [Process -> Seq(Record)] /\ rest \in [Process -> Seq(Record)]
  BY <1>1 DEF Init
<1>10. /\ ui \in [Process -> UiStep] /\ writer \in [Process -> WriterStep]
       /\ offset \in [Process -> Nat] /\ stamp \in [Process -> Nat]
       /\ end \in [Process -> Nat] /\ tries \in [Process -> 0..1]
  BY DEF Init, UiStep, WriterStep
<1>11. /\ ids \in 0..MaxRecords /\ crashes \in 0..MaxCrashes /\ failures \in 0..MaxFailures
       /\ lock \in {"none", "fresh", "stale"} /\ exposed \in SUBSET Record /\ broken \in BOOLEAN
       /\ dropped \in SUBSET Record
  BY <1>2 DEF Init
<1> QED BY <1>4, <1>5, <1>6, <1>7, <1>8, <1>9, <1>10, <1>11 DEF TypeOK

\* The UI thread's control steps (open, the first read, the choices of sync) keep the types.
LEMMA UiTypes ==
    ASSUME TypeOK, NEW p \in Process,
           Open(p) \/ LoadJournal(p) \/ SyncReload(p) \/ SyncGrown(p)
    PROVE  TypeOK'
<1> USE DEF TypeOK, UiGoes, UiStep, disk, uiVars, writerVars, job, bounds, history
<1> DEFINE Look == [stamp : Nat, journal : Seq(Record)]
<1>a. \A x \in Look : [look EXCEPT ![p] = x] \in [Process -> Look]
  OBVIOUS
<1>b. [stamp |-> snapshot.stamp, journal |-> <<>>] \in Look
  OBVIOUS
<1>c. [stamp |-> look[p].stamp, journal |-> journal] \in Look
  OBVIOUS
<1>1. CASE Open(p)
  <2>1. look' \in [Process -> Look]
    BY <1>1, <1>a, <1>b DEF Open
  <2> QED BY <1>1, <2>1 DEF Open
<1>2. CASE LoadJournal(p)
  <2>1. look' \in [Process -> Look]
    BY <1>2, <1>a, <1>c DEF LoadJournal
  <2> QED BY <1>2, <2>1 DEF LoadJournal
<1>3. CASE SyncReload(p)
  <2>1. look' \in [Process -> Look]
    BY <1>3, <1>a, <1>b DEF SyncReload
  <2> QED BY <1>3, <2>1 DEF SyncReload
<1>4. CASE SyncGrown(p)
  BY <1>4 DEF SyncGrown
<1> QED BY <1>1, <1>2, <1>3, <1>4

\* The second half of load_all keeps the types.
LEMMA LoadSnapshotTypes ==
    ASSUME TypeOK, NEW p \in Process, LoadSnapshot(p)
    PROVE  TypeOK'
<1>1. LoadAll(look[p].journal, snapshot) \in Model
  BY LoadAllType DEF TypeOK, SnapshotType
<1>2. Len(look[p].journal) \in Nat
  BY SMTT(20) DEF TypeOK
<1>3. look' \in [Process -> [stamp : Nat, journal : Seq(Record)]]
  <2>1. NoLook \in [stamp : Nat, journal : Seq(Record)]
    BY DEF NoLook
  <2> QED BY <2>1 DEF LoadSnapshot, TypeOK
<1>4. look[p].stamp \in Nat
  BY DEF TypeOK
<1>5. own' \in [Process -> [Id -> Nat]]
  <2>1. \A k \in Id : own[p][k] \in Nat
    BY DEF TypeOK
  <2>2. [k \in Id |-> IF k > Len(look[p].journal) THEN own[p][k] ELSE 0] \in [Id -> Nat]
    BY <2>1
  <2> QED BY <2>2 DEF LoadSnapshot, TypeOK
<1> QED
  BY <1>1, <1>2, <1>3, <1>4, <1>5 DEF LoadSnapshot, TypeOK, UiGoes, UiStep, NoLook, disk, writerVars, job, bounds, history

\* Tailing the journal keeps the types.
LEMMA SyncTailTypes ==
    ASSUME TypeOK, NEW p \in Process, SyncTail(p)
    PROVE  TypeOK'
<1>1. Foreign(p) \in SUBSET (1..Len(journal))
  <2>1. offset[p] \in Nat /\ Len(journal) \in Nat
    BY DEF TypeOK
  <2>2. \A k \in offset[p]+1 .. Len(journal) : k \in 1..Len(journal)
    BY <2>1
  <2> QED BY <2>2 DEF Foreign
<1>2. Replay(model[p], journal, Foreign(p)) \in Model
  <2>1. model[p] \in Model /\ journal \in Seq(Record)
    BY DEF TypeOK
  <2> QED BY <1>1, <2>1, ReplayType
<1>3. \A k \in Id : own[p][k] \in Nat /\ (own[p][k] > 0 => own[p][k] - 1 \in Nat)
  <2> SUFFICES ASSUME NEW k \in Id
               PROVE  own[p][k] \in Nat /\ (own[p][k] > 0 => own[p][k] - 1 \in Nat)
    OBVIOUS
  <2>1. own[p][k] \in Nat
    BY DEF TypeOK
  <2> QED BY <2>1
<1>4. own' \in [Process -> [Id -> Nat]]
  BY <1>3 DEF SyncTail, TypeOK
<1>5. Len(journal) \in Nat
  BY DEF TypeOK
<1> QED
  BY <1>2, <1>4, <1>5 DEF SyncTail, TypeOK, UiGoes, UiStep, disk, writerVars, job, bounds, history

\* record and wipe keep the types.
LEMMA RecordCallTypes ==
    ASSUME TypeOK, NEW p \in Writer, NEW kinds \in Calls, Record_(p, kinds)
    PROVE  TypeOK'
<1> DEFINE new == [i \in DOMAIN kinds |-> [id |-> ids + i, by |-> p, kind |-> kinds[i]]]
<1>1. kinds \in Seq(Kind) /\ DOMAIN kinds = 1..Len(kinds) /\ Len(kinds) \in Nat
  <2>1. CASE kinds = <<"choose">>
    BY <2>1 DEF Kind
  <2>2. CASE kinds = <<"choose", "negative">>
    BY <2>2 DEF Kind
  <2>3. CASE kinds = <<"wipe">>
    BY <2>3 DEF Kind
  <2> QED BY <2>1, <2>2, <2>3 DEF Calls
<1>2. ids \in Nat /\ ids + Len(kinds) <= MaxRecords
  BY <1>1, StoreAssumption DEF Record_, TypeOK
<1>3. \A i \in 1..Len(kinds) : new[i] \in Record
  BY <1>1, <1>2, StoreAssumption DEF Record, Id
<1>4. new \in Seq(Record) /\ DOMAIN new = 1..Len(new)
  BY <1>1, <1>3
<1>5. Replay(model[p], new, DOMAIN new) \in Model
  BY <1>4, ReplayType DEF TypeOK, Process
<1>6. queue[p] \o new \in Seq(Record)
  BY <1>4 DEF TypeOK, Process
<1>7. ids' \in 0..MaxRecords
  BY <1>1, <1>2 DEF Record_
<1> QED
  BY <1>5, <1>6, <1>7 DEF Record_, TypeOK, Process, disk, writerVars, job, history

\* The steps of the writer thread that only move control, the lock or history.
LEMMA ControlTypes ==
    ASSUME TypeOK, NEW p \in Writer,
           \/ Receive(p) \/ WaitOver(p) \/ Acquire(p) \/ AcquireFails(p)
           \/ FindStale(p) \/ BreakLock(p) \/ Unlock(p)
    PROVE  TypeOK'
<1>0. queue[p] \in Seq(Record)
  BY StoreAssumption DEF TypeOK, Process
<1> USE DEF TypeOK, Process, WriterGoes, WriterStep, Compacting,
            disk, uiVars, writerVars, job, bounds, history
<1>1. CASE Receive(p)
  <2>0. queue[p] # <<>>
    BY <1>1 DEF Receive
  <2>1. Head(queue[p]) \in Record /\ Tail(queue[p]) \in Seq(Record)
    <3> HIDE DEF TypeOK, Process, WriterGoes, WriterStep, Compacting,
                 disk, uiVars, writerVars, job, bounds, history
    <3> QED BY <1>0, <2>0
  <2>2. rec' \in [Process -> Seq(Record)] /\ \A q \in Process : Len(rec'[q]) <= 1
    <3>1. <<Head(queue[p])>> \in Seq(Record) /\ Len(<<Head(queue[p])>>) <= 1
      BY <2>1
    <3>2. rec \in SlotType
      BY DEF SlotType
    <3>3. [rec EXCEPT ![p] = <<Head(queue[p])>>] \in SlotType
      BY <3>1, <3>2, SlotStep
    <3> QED BY <1>1, <3>3 DEF Receive, SlotType
  <2>3. queue' \in [Process -> Seq(Record)]
    BY <1>1, <2>1 DEF Receive
  <2> QED BY <1>1, <2>2, <2>3 DEF Receive
<1>2. CASE WaitOver(p)
  BY <1>2 DEF WaitOver
<1>3. CASE Acquire(p)
  <2>1. tries' \in [Process -> 0..1] /\ writer' \in [Process -> WriterStep]
    BY <1>3, SMTT(20) DEF Acquire
  <2> QED BY <1>3, <2>1 DEF Acquire
<1>4. CASE AcquireFails(p)
  <2>1. tries' \in [Process -> 0..1] /\ writer' \in [Process -> WriterStep]
    BY <1>4, SMTT(20) DEF AcquireFails
  <2> QED BY <1>4, <2>1 DEF AcquireFails
<1>5. CASE FindStale(p)
  BY <1>5 DEF FindStale
<1>6. CASE BreakLock(p)
  <2>1. (IF tries[p] = 0 THEN 1 ELSE 0) \in 0..1
    OBVIOUS
  <2>2. tries' \in [Process -> 0..1]
    BY <1>6, <2>1 DEF BreakLock
  <2>3. writer' \in [Process -> WriterStep]
    BY <1>6 DEF BreakLock
  <2> QED BY <1>6, <2>2, <2>3 DEF BreakLock
<1>7. CASE Unlock(p)
  BY <1>7 DEF Unlock
<1> QED BY <1>1, <1>2, <1>3, <1>4, <1>5, <1>6, <1>7

\* The writer thread's append and the entry in `own`, done or failed, keep the types.
LEMMA AppendTypes ==
    ASSUME TypeOK, NEW p \in Writer,
           AppendRecord(p) \/ AppendFails(p) \/ PushOwn(p) \/ PositionUnknown(p)
    PROVE  TypeOK'
<1> USE DEF TypeOK, Process, WriterGoes, WriterStep, Compacting,
            disk, uiVars, writerVars, job, bounds, history
<1>a. Range(rec[p]) \subseteq Record
  <2>1. rec[p] \in Seq(Record)
    OBVIOUS
  <2> HIDE DEF TypeOK, Process, WriterGoes, WriterStep, Compacting,
               disk, uiVars, writerVars, job, bounds, history
  <2>2. \A i \in DOMAIN rec[p] : rec[p][i] \in Record
    BY <2>1
  <2> QED BY <2>2 DEF Range
<1>b. ASSUME rec' = [rec EXCEPT ![p] = <<>>]
      PROVE  rec' \in [Process -> Seq(Record)] /\ \A q \in Process : Len(rec'[q]) <= 1
  <2>1. <<>> \in Seq(Record) /\ Len(<<>>) <= 1 /\ rec \in SlotType
    BY SMTT(20) DEF SlotType
  <2>2. [rec EXCEPT ![p] = <<>>] \in SlotType
    BY <2>1, SlotStep
  <2> QED BY <1>b, <2>2 DEF SlotType
<1>1. CASE AppendRecord(p)
  <2>1. journal \o rec[p] \in Seq(Record) /\ written \o rec[p] \in Seq(Record)
    OBVIOUS
  <2>2. rec' \in [Process -> Seq(Record)] /\ \A q \in Process : Len(rec'[q]) <= 1
    BY <1>1, <1>b DEF AppendRecord
  <2>3. exposed' \in SUBSET Record
    BY <1>1, <1>a DEF AppendRecord
  <2>4. Len(journal) + 1 \in Nat
    OBVIOUS
  <2> QED BY <1>1, <2>1, <2>2, <2>3, <2>4 DEF AppendRecord
<1>2. CASE PushOwn(p)
  <2>1. own' \in [Process -> [Id -> Nat]]
    <3> DEFINE new == [own[p] EXCEPT ![end[p]] = own[p][end[p]] + 1]
    <3>1. own[p] \in [Id -> Nat]
      OBVIOUS
    <3>2. new \in [Id -> Nat]
      BY <3>1, OneMore
    <3>3. own' = [own EXCEPT ![p] = new]
      BY <1>2 DEF PushOwn
    <3> QED BY <3>2, <3>3
  <2> QED BY <1>2, <2>1 DEF PushOwn
<1>3. CASE AppendFails(p)
  <2>1. rec' \in [Process -> Seq(Record)] /\ \A q \in Process : Len(rec'[q]) <= 1
    BY <1>3, <1>b DEF AppendFails
  <2>2. dropped' \in SUBSET Record
    BY <1>3, <1>a DEF AppendFails
  <2>3. failures' \in 0..MaxFailures
    BY <1>3, StoreAssumption DEF AppendFails
  <2> QED BY <1>3, <2>1, <2>2, <2>3 DEF AppendFails
<1>4. CASE PositionUnknown(p)
  <2>1. failures' \in 0..MaxFailures
    BY <1>4, StoreAssumption DEF PositionUnknown
  <2> QED BY <1>4, <2>1 DEF PositionUnknown
<1> QED BY <1>1, <1>2, <1>3, <1>4

\* Every step of compact keeps the types.
LEMMA CompactTypes ==
    ASSUME TypeOK, NEW p \in Writer,
           \/ CompactRead(p) \/ CompactMergeJournal(p) \/ CompactMergeSnapshot(p)
           \/ CompactWriteSnapshot(p) \/ CompactReadTail(p) \/ CompactWriteJournal(p)
           \/ ReplaceFails(p)
    PROVE  TypeOK'
<1> USE EmptyModelType DEF TypeOK, Process, WriterGoes, WriterStep, Compacting,
            disk, uiVars, writerVars, job, bounds, history
<1>1. CASE CompactRead(p)
  BY <1>1 DEF CompactRead
<1>2. CASE CompactMergeJournal(p)
  BY <1>2 DEF CompactMergeJournal
<1>3. CASE CompactMergeSnapshot(p)
  <2>1. LoadAll(again[p], snapshot) \in Model
    BY LoadAllType DEF SnapshotType
  <2>2. merged' \in [Process -> Model]
    BY <1>3, <2>1 DEF CompactMergeSnapshot
  <2>3. again' \in [Process -> Seq(Record)]
    BY <1>3 DEF CompactMergeSnapshot
  <2> QED BY <1>3, <2>2, <2>3 DEF CompactMergeSnapshot
<1>4. CASE CompactWriteSnapshot(p)
  <2>1. PrefixOf(first[p], Len(first[p])) \in Seq(Record) /\ Len(first[p]) \in Nat
    <3>1. first[p] \in Seq(Record) /\ Len(first[p]) \in Nat
      OBVIOUS
    <3> QED BY <3>1, PrefixType
  <2>2. snapshot.stamp + 1 \in Nat
    BY SMTT(20)
  <2>3. snapshot' \in [model : Model, consumed : Nat, prefix : Seq(Record), stamp : Nat]
    BY <1>4, <2>1, <2>2 DEF CompactWriteSnapshot
  <2> QED BY <1>4, <2>3 DEF CompactWriteSnapshot
<1>5. CASE CompactReadTail(p)
  <2>1. SubSeq(journal, Len(first[p]) + 1, Len(journal)) \in Seq(Record)
    <3>1. journal \in Seq(Record) /\ Len(first[p]) \in Nat
      OBVIOUS
    <3> QED BY <3>1, TailType
  <2>2. rest' \in [Process -> Seq(Record)]
    BY <1>5, <2>1 DEF CompactReadTail
  <2>3. first' \in [Process -> Seq(Record)]
    BY <1>5 DEF CompactReadTail
  <2> QED BY <1>5, <2>2, <2>3 DEF CompactReadTail
<1>6. CASE CompactWriteJournal(p)
  <2>1. rest' \in [Process -> Seq(Record)] /\ journal' \in Seq(Record)
    BY <1>6 DEF CompactWriteJournal
  <2> QED BY <1>6, <2>1 DEF CompactWriteJournal
<1>7. CASE ReplaceFails(p)
  <2>1. /\ first' \in [Process -> Seq(Record)] /\ again' \in [Process -> Seq(Record)]
        /\ merged' \in [Process -> Model] /\ rest' \in [Process -> Seq(Record)]
    BY <1>7, SMTT(20) DEF ReplaceFails, DropJob
  <2>2. failures' \in 0..MaxFailures
    BY <1>7, StoreAssumption DEF ReplaceFails
  <2>3. writer' \in [Process -> WriterStep]
    BY <1>7 DEF ReplaceFails
  <2> QED BY <1>7, <2>1, <2>2, <2>3 DEF ReplaceFails
<1> QED BY <1>1, <1>2, <1>3, <1>4, <1>5, <1>6, <1>7

\* A crash and a failed replace_file keep the types.
LEMMA EnvironmentTypes ==
    ASSUME TypeOK, (\E p \in Process : Crash(p)) \/ AgeLock
    PROVE  TypeOK'
<1>1. ASSUME NEW p \in Process, Crash(p) PROVE TypeOK'
  <2>t. \A S : \A f \in [Process -> S] : \A x \in S : [f EXCEPT ![p] = x] \in [Process -> S]
    OBVIOUS
  <2>0. <<>> \in Seq(Record) /\ Len(<<>>) <= 1 /\ 0 \in Nat /\ 0 \in 0..1
    OBVIOUS
  <2>1. look' \in [Process -> [stamp : Nat, journal : Seq(Record)]]
    <3>1. NoLook \in [stamp : Nat, journal : Seq(Record)]
      BY <2>0 DEF NoLook
    <3>2. look \in [Process -> [stamp : Nat, journal : Seq(Record)]] /\ look' = [look EXCEPT ![p] = NoLook]
      BY <1>1 DEF Crash, TypeOK
    <3> QED BY <2>t, <3>1, <3>2
  <2>2. own' \in [Process -> [Id -> Nat]]
    <3>1. NoEntries \in [Id -> Nat]
      BY <2>0 DEF NoEntries
    <3>2. own \in [Process -> [Id -> Nat]] /\ own' = [own EXCEPT ![p] = NoEntries]
      BY <1>1 DEF Crash, TypeOK
    <3> QED BY <2>t, <3>1, <3>2
  <2>3. rec' \in [Process -> Seq(Record)] /\ \A q \in Process : Len(rec'[q]) <= 1
    <3>1. rec \in SlotType /\ rec' = [rec EXCEPT ![p] = <<>>]
      BY <1>1 DEF Crash, TypeOK, SlotType
    <3>2. rec' \in SlotType
      BY <2>0, <3>1, SlotStep
    <3> QED BY <3>2 DEF SlotType
  <2>4. crashes' \in 0..MaxCrashes
    <3>1. crashes \in 0..MaxCrashes /\ crashes < MaxCrashes /\ crashes' = crashes + 1
      BY <1>1 DEF Crash, TypeOK
    <3> QED BY <3>1, StoreAssumption
  <2>5. /\ first' \in [Process -> Seq(Record)] /\ again' \in [Process -> Seq(Record)]
        /\ rest' \in [Process -> Seq(Record)] /\ queue' \in [Process -> Seq(Record)]
    <3>1. /\ first \in [Process -> Seq(Record)] /\ first' = [first EXCEPT ![p] = <<>>]
          /\ again \in [Process -> Seq(Record)] /\ again' = [again EXCEPT ![p] = <<>>]
          /\ rest \in [Process -> Seq(Record)] /\ rest' = [rest EXCEPT ![p] = <<>>]
          /\ queue \in [Process -> Seq(Record)] /\ queue' = [queue EXCEPT ![p] = <<>>]
      BY <1>1 DEF Crash, DropJob, TypeOK
    <3> QED BY <2>0, <2>t, <3>1
  <2>6. merged' \in [Process -> Model] /\ model' \in [Process -> Model]
    <3>1. /\ merged \in [Process -> Model] /\ merged' = [merged EXCEPT ![p] = EmptyModel]
          /\ model \in [Process -> Model] /\ model' = [model EXCEPT ![p] = EmptyModel]
      BY <1>1 DEF Crash, DropJob, TypeOK
    <3> QED BY <2>t, <3>1, EmptyModelType
  <2>7. ui' \in [Process -> UiStep] /\ writer' \in [Process -> WriterStep]
    <3>1. /\ ui \in [Process -> UiStep] /\ ui' = [ui EXCEPT ![p] = "down"]
          /\ writer \in [Process -> WriterStep] /\ writer' = [writer EXCEPT ![p] = "idle"]
      BY <1>1 DEF Crash, TypeOK
    <3>2. "down" \in UiStep /\ "idle" \in WriterStep
      BY DEF UiStep, WriterStep
    <3> QED BY <2>t, <3>1, <3>2
  <2>8. /\ offset' \in [Process -> Nat] /\ stamp' \in [Process -> Nat]
        /\ end' \in [Process -> Nat] /\ tries' \in [Process -> 0..1]
    <3>1. /\ offset \in [Process -> Nat] /\ offset' = [offset EXCEPT ![p] = 0]
          /\ stamp \in [Process -> Nat] /\ stamp' = [stamp EXCEPT ![p] = 0]
          /\ end \in [Process -> Nat] /\ end' = [end EXCEPT ![p] = 0]
          /\ tries \in [Process -> 0..1] /\ tries' = [tries EXCEPT ![p] = 0]
      BY <1>1 DEF Crash, TypeOK
    <3> QED BY <2>0, <2>t, <3>1
  <2>9. UNCHANGED <<journal, snapshot, lock, ids, failures, written, exposed, dropped, broken>>
    BY <1>1 DEF Crash, disk, history
  <2> QED BY <2>1, <2>2, <2>3, <2>4, <2>5, <2>6, <2>7, <2>8, <2>9 DEF TypeOK
<1>2. CASE AgeLock
  BY <1>2 DEF AgeLock, TypeOK, uiVars, writerVars, job, bounds, history
<1> QED BY <1>1, <1>2

\* Every step of the store keeps every variable's type.
LEMMA TypeStep == TypeOK /\ [Next]_vars => TypeOK'
<1> SUFFICES ASSUME TypeOK, [Next]_vars PROVE TypeOK'
  OBVIOUS
<1>1. CASE UNCHANGED vars
  BY <1>1 DEF vars, TypeOK, disk, uiVars, writerVars, job, bounds, history
<1>2. ASSUME NEW p \in Process, Open(p) \/ Loading(p) PROVE TypeOK'
  BY <1>2, UiTypes, LoadSnapshotTypes DEF Loading
<1>3. ASSUME NEW p \in Composer, Sync(p) PROVE TypeOK'
  BY <1>3, UiTypes, SyncTailTypes, StoreAssumption DEF Sync, Process
<1>4. ASSUME NEW p \in Writer, (\E kinds \in Calls : Record_(p, kinds)) \/ WriterThread(p)
                               \/ AppendFails(p) \/ PositionUnknown(p) \/ ReplaceFails(p)
      PROVE  TypeOK'
  BY <1>4, RecordCallTypes, ControlTypes, AppendTypes, CompactTypes DEF WriterThread, Compact
<1> QED BY <1>1, <1>2, <1>3, <1>4, EnvironmentTypes DEF Next

\* Every variable keeps its type, for any processes, thresholds and bounds.
THEOREM TypeCorrect == Spec => []TypeOK
BY TypeInit, TypeStep, PTL DEF Spec

-----------------------------------------------------------------------------
(* Mutual exclusion of compactions.  OneCompactor alone is not inductive:  *)
(* that a process may enter says nothing unless whoever is inside has left *)
(* a lock file that keeps the others out.                                  *)

HolderHasLock == ~broken => \A p \in Process : writer[p] \in Compacting => lock # "none"

CompactionInv == TypeOK /\ OneCompactor /\ HolderHasLock

\* At most one process compacts, and the lock file exists while it does: inductive.
LEMMA CompactionStep == CompactionInv /\ [Next]_vars => CompactionInv'
<1> SUFFICES ASSUME CompactionInv, [Next]_vars PROVE CompactionInv'
  OBVIOUS
<1> USE DEF CompactionInv, OneCompactor, HolderHasLock
<1>t. TypeOK /\ TypeOK'
  BY TypeStep
<1>w. writer \in [Process -> WriterStep]
  BY <1>t DEF TypeOK
<1>1. CASE UNCHANGED <<writer, lock, broken>>
  BY <1>1, <1>t
<1>2. ASSUME NEW p \in Process, Open(p) \/ Loading(p) \/ Sync(p)
      PROVE  CompactionInv'
  BY <1>1, <1>2 DEF Loading, Sync, Open, LoadJournal, LoadSnapshot, SyncReload, SyncGrown,
                    SyncTail, disk, writerVars, history
<1>3. ASSUME NEW p \in Process, Crash(p) PROVE CompactionInv'
  BY <1>3, <1>t, <1>w DEF Crash, disk, history, Compacting
<1>4. CASE AgeLock
  BY <1>4, <1>t DEF AgeLock, writerVars, history
<1>5. ASSUME NEW p \in Writer, NEW kinds \in Calls, Record_(p, kinds) PROVE CompactionInv'
  BY <1>1, <1>5 DEF Record_, disk, writerVars, history
<1>6. ASSUME NEW p \in Writer,
             \/ Receive(p) \/ WaitOver(p) \/ AppendRecord(p) \/ AppendFails(p) \/ PushOwn(p)
             \/ PositionUnknown(p) \/ AcquireFails(p) \/ FindStale(p)
      PROVE  CompactionInv'
  <2>1. UNCHANGED <<lock, broken>>
    BY <1>6 DEF Receive, WaitOver, AppendRecord, AppendFails, PushOwn, PositionUnknown,
                AcquireFails, FindStale, disk, history
  <2>2. \A q \in Process : writer'[q] \in Compacting => writer[q] \in Compacting
    BY <1>6, <1>w DEF Receive, WaitOver, AppendRecord, AppendFails, PushOwn, PositionUnknown,
                      AcquireFails, FindStale, WriterGoes, Compacting
  <2> QED BY <2>1, <2>2, <1>t
<1>7. ASSUME NEW p \in Writer, Acquire(p) PROVE CompactionInv'
  <2>1. lock = "none" /\ lock' = "fresh" /\ broken' = broken
    BY <1>7 DEF Acquire, history
  <2>2. \A q \in Process : writer'[q] \in Compacting => writer[q] \in Compacting \/ q = p
    BY <1>7, <1>w DEF Acquire, WriterGoes
  <2> QED BY <2>1, <2>2, <1>t
<1>8. ASSUME NEW p \in Writer, BreakLock(p) PROVE CompactionInv'
  BY <1>8, <1>t DEF BreakLock
<1>9. ASSUME NEW p \in Writer,
             \/ CompactRead(p) \/ CompactMergeJournal(p) \/ CompactMergeSnapshot(p)
             \/ CompactWriteSnapshot(p) \/ CompactReadTail(p) \/ CompactWriteJournal(p)
             \/ ReplaceFails(p)
      PROVE  CompactionInv'
  <2>1. UNCHANGED <<lock, broken>>
    BY <1>9 DEF CompactRead, CompactMergeJournal, CompactMergeSnapshot, CompactWriteSnapshot,
                CompactReadTail, CompactWriteJournal, ReplaceFails, disk, history
  <2>2. \A q \in Process : writer'[q] \in Compacting => writer[q] \in Compacting
    BY <1>9, <1>w DEF CompactRead, CompactMergeJournal, CompactMergeSnapshot,
                CompactWriteSnapshot, CompactReadTail, CompactWriteJournal, ReplaceFails,
                WriterGoes, Compacting
  <2> QED BY <2>1, <2>2, <1>t
<1>10. ASSUME NEW p \in Writer, Unlock(p) PROVE CompactionInv'
  <2>1. writer[p] \in Compacting /\ broken' = broken
    BY <1>10 DEF Unlock, WriterGoes, Compacting, history
  <2>2. \A q \in Process : writer'[q] \in Compacting => writer[q] \in Compacting /\ q # p
    BY <1>10, <1>w DEF Unlock, WriterGoes, Compacting
  <2> QED BY <2>1, <2>2, <1>t DEF Process
<1> QED
  BY <1>1, <1>2, <1>3, <1>4, <1>5, <1>6, <1>7, <1>8, <1>9, <1>10, StoreAssumption
  DEF Next, WriterThread, Compact, Process, vars, disk, writerVars, history

\* Two processes are never inside compact at the same time unless some process
\* has removed a lock file as stale.
THEOREM CompactionsExclusive == Spec => []OneCompactor
<1>1. Init => CompactionInv
  BY TypeInit DEF CompactionInv, OneCompactor, HolderHasLock, Init, Compacting
<1>2. CompactionInv => OneCompactor
  BY DEF CompactionInv
<1> QED BY <1>1, <1>2, CompactionStep, PTL DEF Spec

-----------------------------------------------------------------------------
(* Replay: what it counts, in pieces, one record at a time, and moved to   *)
(* other places.                                                           *)

\* The places of K whose records count for id n: no wipe comes at or after them.
Counted(s, K, n) == {k \in K : s[k].id = n /\ \A j \in K : j >= k => ~IsWipe(s[j])}

\* Replay, one identity at a time.
LEMMA ReplayAt ==
    ASSUME NEW m, NEW s, NEW K, NEW n \in Id
    PROVE  Replay(m, s, K)[n] =
               (IF \E k \in K : IsWipe(s[k]) THEN 0 ELSE m[n]) + Cardinality(Counted(s, K, n))
BY DEF Replay, Counted

\* What is counted is finite.
LEMMA CountedFinite ==
    ASSUME NEW s, NEW a \in Int, NEW b \in Int, NEW n
    PROVE  /\ IsFiniteSet(Counted(s, a..b, n))
           /\ Cardinality(Counted(s, a..b, n)) \in Nat
<1>1. Counted(s, a..b, n) \in SUBSET (a..b)
  BY DEF Counted
<1>2. IsFiniteSet(a..b)
  BY FS_Interval
<1> QED BY <1>1, <1>2, FS_Subset, FS_CardinalityType

\* Replay gives a model, whatever the places.
LEMMA ReplayIsModel ==
    ASSUME NEW m \in Model, NEW s, NEW a \in Int, NEW b \in Int
    PROVE  Replay(m, s, a..b) \in Model
<1>1. ASSUME NEW n \in Id PROVE Replay(m, s, a..b)[n] \in Nat
  <2>1. m[n] \in Nat
    BY DEF Model
  <2> QED BY <2>1, ReplayAt, CountedFinite
<1>2. Replay(m, s, a..b) = [n \in Id |-> Replay(m, s, a..b)[n]]
  BY DEF Replay
<1> QED BY <1>1, <1>2 DEF Model

\* Replay looks at the places of K only.
LEMMA ReplaySame ==
    ASSUME NEW m, NEW s, NEW t, NEW K, \A k \in K : s[k] = t[k]
    PROVE  Replay(m, s, K) = Replay(m, t, K)
<1>1. ASSUME NEW n \in Id PROVE Counted(s, K, n) = Counted(t, K, n)
  BY DEF Counted
<1>2. (\E k \in K : IsWipe(s[k])) <=> (\E k \in K : IsWipe(t[k]))
  OBVIOUS
<1> QED BY <1>1, <1>2 DEF Replay, Counted

\* Nothing replayed, nothing changed.
LEMMA ReplayNothing ==
    ASSUME NEW m \in Model, NEW s
    PROVE  Replay(m, s, {}) = m
<1>1. ASSUME NEW n \in Id PROVE Replay(m, s, {})[n] = m[n]
  <2>1. Counted(s, {}, n) = {}
    BY DEF Counted
  <2>2. m[n] \in Nat
    BY DEF Model
  <2>3. Cardinality(Counted(s, {}, n)) = 0
    BY <2>1, FS_EmptySet
  <2>4. Replay(m, s, {})[n] = m[n] + Cardinality(Counted(s, {}, n))
    BY ReplayAt
  <2> QED BY <2>2, <2>3, <2>4
<1> QED BY <1>1 DEF Replay, Model

\* Replaying in two parts is replaying at once.
LEMMA ReplaySplit ==
    ASSUME NEW m \in Model, NEW s, NEW a \in Int, NEW b \in Int, NEW c \in Int,
           a <= b + 1, b <= c
    PROVE  Replay(Replay(m, s, a..b), s, b+1..c) = Replay(m, s, a..c)
<1> DEFINE mid == Replay(m, s, a..b)
           One == a..b
           Two == b+1..c
           Both == a..c
<1>0. Both = One \union Two /\ One \intersect Two = {} /\ \A i \in One, j \in Two : i < j
  OBVIOUS
<1>1. ASSUME NEW n \in Id PROVE Replay(mid, s, Two)[n] = Replay(m, s, Both)[n]
  <2> DEFINE C1 == Counted(s, One, n)
             C2 == Counted(s, Two, n)
             C == Counted(s, Both, n)
  <2>0. /\ IsFiniteSet(C1) /\ IsFiniteSet(C2) /\ IsFiniteSet(C)
        /\ Cardinality(C1) \in Nat /\ Cardinality(C2) \in Nat /\ Cardinality(C) \in Nat
    BY CountedFinite
  <2>1. /\ mid[n] = (IF \E k \in One : IsWipe(s[k]) THEN 0 ELSE m[n]) + Cardinality(C1)
        /\ Replay(mid, s, Two)[n] = (IF \E k \in Two : IsWipe(s[k]) THEN 0 ELSE mid[n]) + Cardinality(C2)
        /\ Replay(m, s, Both)[n] = (IF \E k \in Both : IsWipe(s[k]) THEN 0 ELSE m[n]) + Cardinality(C)
    BY ReplayAt
  <2>2. m[n] \in Nat
    BY DEF Model
  <2>3. CASE \E k \in Two : IsWipe(s[k])
    <3>1. \E k \in Both : IsWipe(s[k])
      BY <1>0, <2>3
    <3>2. C = C2
      <4>1. PICK w \in Two : IsWipe(s[w])
        BY <2>3
      <4>2. \A k \in One : w >= k /\ w \in Both
        BY <1>0, <4>1
      <4>3. C \subseteq Two
        BY <1>0, <4>1, <4>2 DEF Counted
      <4>4. \A k \in Two : (\A j \in Both : j >= k => ~IsWipe(s[j])) <=> (\A j \in Two : j >= k => ~IsWipe(s[j]))
        BY <1>0
      <4> QED BY <1>0, <4>3, <4>4 DEF Counted
    <3> QED BY <2>1, <2>3, <3>1, <3>2
  <2>4. CASE ~ \E k \in Two : IsWipe(s[k])
    <3>1. (\E k \in Both : IsWipe(s[k])) <=> (\E k \in One : IsWipe(s[k]))
      BY <1>0, <2>4
    <3>2. C = C1 \union C2
      <4>1. \A k \in One : (\A j \in Both : j >= k => ~IsWipe(s[j])) <=> (\A j \in One : j >= k => ~IsWipe(s[j]))
        BY <1>0, <2>4
      <4>2. \A k \in Two : (\A j \in Both : j >= k => ~IsWipe(s[j])) /\ (\A j \in Two : j >= k => ~IsWipe(s[j]))
        BY <1>0, <2>4
      <4> QED BY <1>0, <4>1, <4>2 DEF Counted
    <3>3. C1 \intersect C2 = {}
      BY <1>0 DEF Counted
    <3>4. Cardinality(C) = Cardinality(C1) + Cardinality(C2)
      <4>1. Cardinality(C1 \intersect C2) = 0
        BY <3>3, FS_EmptySet
      <4>2. Cardinality(C1 \union C2) = Cardinality(C1) + Cardinality(C2) - Cardinality(C1 \intersect C2)
        BY <2>0, FS_Union
      <4> HIDE DEF C, C1, C2
      <4> QED BY <2>0, <3>2, <4>1, <4>2
    <3> HIDE DEF C, C1, C2, mid, One, Two, Both
    <3> QED BY <2>0, <2>1, <2>2, <2>4, <3>1, <3>4
  <2> QED BY <2>3, <2>4
<1> QED BY <1>1 DEF Replay

\* One record more: a wipe leaves nothing, any other counts once more.
LEMMA ReplayOne ==
    ASSUME NEW m \in Model, NEW s, NEW k \in Int
    PROVE  /\ IsWipe(s[k]) => Replay(m, s, k..k) = EmptyModel
           /\ ~IsWipe(s[k]) => Replay(m, s, k..k) =
                  [n \in Id |-> IF n = s[k].id THEN m[n] + 1 ELSE m[n]]
<1>0. k..k = {k}
  OBVIOUS
<1>1. ASSUME NEW n \in Id
      PROVE  Replay(m, s, {k})[n] =
                 IF IsWipe(s[k]) THEN 0 ELSE IF n = s[k].id THEN m[n] + 1 ELSE m[n]
  <2>1. Counted(s, {k}, n) = IF ~IsWipe(s[k]) /\ s[k].id = n THEN {k} ELSE {}
    BY DEF Counted
  <2>2. m[n] \in Nat
    BY DEF Model
  <2>3. Cardinality({k}) = 1 /\ Cardinality({}) = 0
    BY FS_Singleton, FS_EmptySet
  <2>4. Replay(m, s, {k})[n] = (IF \E j \in {k} : IsWipe(s[j]) THEN 0 ELSE m[n]) + Cardinality(Counted(s, {k}, n))
    BY ReplayAt
  <2> QED BY <2>1, <2>2, <2>3, <2>4
<1> QED BY <1>0, <1>1 DEF Replay, EmptyModel

\* Places without a wipe and without id n make no difference to it.
LEMMA ReplayWithout ==
    ASSUME NEW m \in Model, NEW s, NEW a \in Int, NEW b \in Int, NEW n \in Id,
           \A k \in a..b : ~IsWipe(s[k]) /\ s[k].id # n
    PROVE  Replay(m, s, a..b)[n] = m[n]
<1>1. Counted(s, a..b, n) = {}
  BY DEF Counted
<1>2. m[n] \in Nat
  BY DEF Model
<1>3. Cardinality(Counted(s, a..b, n)) = 0
  BY <1>1, FS_EmptySet
<1> QED BY <1>2, <1>3, ReplayAt

\* What is replayed on top of equal counts gives equal counts.
LEMMA ReplayOnEqual ==
    ASSUME NEW m, NEW l, NEW s, NEW K, NEW n \in Id, m[n] = l[n]
    PROVE  Replay(m, s, K)[n] = Replay(l, s, K)[n]
BY ReplayAt

\* A record counts as often when it stands at another place, its neighbours with it.
LEMMA ReplayShift ==
    ASSUME NEW m \in Model, NEW s, NEW t, NEW c \in Nat, NEW l \in Nat,
           \A k \in 1..l : t[k] = s[c + k]
    PROVE  Replay(m, t, 1..l) = Replay(m, s, c+1..c+l)
<1> DEFINE A == 1..l
           B == c+1..c+l
<1>0. (\A k \in A : c + k \in B) /\ (\A j \in B : j - c \in A /\ c + (j - c) = j)
  OBVIOUS
<1>1. ASSUME NEW n \in Id PROVE Replay(m, t, A)[n] = Replay(m, s, B)[n]
  <2> DEFINE F == [k \in Counted(t, A, n) |-> c + k]
  <2>1. (\E k \in A : IsWipe(t[k])) <=> (\E k \in B : IsWipe(s[k]))
    BY <1>0
  <2>2. \A k \in A : k \in Counted(t, A, n) <=> c + k \in Counted(s, B, n)
    <3> SUFFICES ASSUME NEW k \in A
                 PROVE  (\A j \in A : j >= k => ~IsWipe(t[j])) <=> (\A j \in B : j >= c + k => ~IsWipe(s[j]))
      BY <1>0 DEF Counted
    <3>1. ASSUME \A j \in A : j >= k => ~IsWipe(t[j]), NEW j \in B, j >= c + k PROVE ~IsWipe(s[j])
      <4>1. j - c \in A /\ j - c >= k /\ t[j - c] = s[j]
        BY <1>0, <3>1
      <4> QED BY <3>1, <4>1
    <3>2. ASSUME \A j \in B : j >= c + k => ~IsWipe(s[j]), NEW j \in A, j >= k PROVE ~IsWipe(t[j])
      BY <1>0, <3>2
    <3> QED BY <3>1, <3>2
  <2>3. F \in Bijection(Counted(t, A, n), Counted(s, B, n))
    <3>1. Counted(t, A, n) \subseteq A /\ Counted(s, B, n) \subseteq B
      BY DEF Counted
    <3>2. F \in [Counted(t, A, n) -> Counted(s, B, n)]
      BY <2>2, <3>1
    <3>3. \A x, y \in Counted(t, A, n) : F[x] = F[y] => x = y
      BY <3>1
    <3>4. ASSUME NEW j \in Counted(s, B, n) PROVE \E k \in Counted(t, A, n) : F[k] = j
      <4>1. j - c \in A /\ c + (j - c) = j
        BY <1>0, <3>1
      <4> QED BY <2>2, <4>1
    <3> QED BY <3>2, <3>3, <3>4, Fun_IsBij
  <2>4. Cardinality(Counted(t, A, n)) = Cardinality(Counted(s, B, n))
    <3>1. IsFiniteSet(Counted(t, A, n))
      BY CountedFinite
    <3>2. ExistsBijection(Counted(t, A, n), Counted(s, B, n))
      BY <2>3 DEF ExistsBijection
    <3> QED BY <3>1, <3>2, FS_Bijection
  <2> QED BY <2>1, <2>4, ReplayAt
<1> QED BY <1>1 DEF Replay

-----------------------------------------------------------------------------
(* Identities.  A record is one place of one channel or one place of what  *)
(* was written, and the journal is a piece of what was written, whatever   *)
(* compactions, crashes and broken locks do.                               *)

Waiting(p) == rec[p] \o queue[p]
WaitingOf == [p \in Writer |-> Waiting(p)]

Unique(waiting, w, n) ==
    /\ \A k \in 1..Len(w) : w[k].id <= n
    /\ \A p \in Writer : \A i \in 1..Len(waiting[p]) : waiting[p][i].id <= n /\ waiting[p][i].by = p
    /\ \A j, k \in 1..Len(w) : w[j].id = w[k].id => j = k
    /\ \A p \in Writer : \A i \in 1..Len(waiting[p]), k \in 1..Len(w) : waiting[p][i].id # w[k].id
    /\ \A p, q \in Writer : \A i \in 1..Len(waiting[p]), j \in 1..Len(waiting[q]) :
           waiting[p][i].id = waiting[q][j].id => p = q /\ i = j

\* s has records of w only, none of them twice.
Piece(s, w) ==
    /\ \A k \in 1..Len(s) : \E i \in 1..Len(w) : w[i] = s[k]
    /\ \A j, k \in 1..Len(s) : s[j].id = s[k].id => j = k

\* s has records of w only.
Drawn(s, w) == \A k \in 1..Len(s) : \E i \in 1..Len(w) : w[i] = s[k]

\* The writer thread has one record from recv to the append, and none otherwise.
OneTaken(p) == IF writer[p] \in {"waiting", "appending"} THEN Len(rec[p]) = 1 ELSE rec[p] = <<>>

IdInv ==
    /\ Unique(WaitingOf, written, ids)
    /\ \A p \in Writer : OneTaken(p)
    /\ Piece(journal, written)
    /\ \A p \in Process : Piece(first[p], written) /\ Piece(rest[p], written)
    /\ Drawn(snapshot.prefix, written)

\* Records have natural identities.
LEMMA IdsAreNumbers ==
    ASSUME NEW s \in Seq(Record), NEW k \in 1..Len(s)
    PROVE  s[k] \in Record /\ s[k].id \in Nat
<1>1. s[k] \in Record
  OBVIOUS
<1> QED BY <1>1, StoreAssumption DEF Record, Id

\* What Unique says of one sequence, of two, and of a channel and the written records.
LEMMA UniqueFacts ==
    ASSUME NEW f, NEW w, NEW n, Unique(f, w, n)
    PROVE  /\ \A k \in 1..Len(w) : w[k].id <= n
           /\ \A j, k \in 1..Len(w) : w[j].id = w[k].id => j = k
           /\ \A p \in Writer : \A i \in 1..Len(f[p]) :
                  /\ f[p][i].id <= n /\ f[p][i].by = p
                  /\ \A k \in 1..Len(w) : f[p][i].id # w[k].id
           /\ \A p, q \in Writer : \A i \in 1..Len(f[p]), j \in 1..Len(f[q]) :
                  f[p][i].id = f[q][j].id => p = q /\ i = j
BY DEF Unique

\* Records are numbered as the calls make them.
LEMMA UniqueRequest ==
    ASSUME NEW f \in [Writer -> Seq(Record)], NEW w \in Seq(Record), NEW n \in Nat, Unique(f, w, n),
           NEW p \in Writer, NEW new \in Seq(Record),
           \A i \in 1..Len(new) : new[i].id = n + i /\ new[i].by = p
    PROVE  Unique([f EXCEPT ![p] = f[p] \o new], w, n + Len(new))
<1> DEFINE g == [f EXCEPT ![p] = f[p] \o new]
<1>1. Len(new) \in Nat /\ Len(w) \in Nat /\ \A q \in Writer : Len(f[q]) \in Nat
  OBVIOUS
<1>2. \A q \in Writer : q # p => g[q] = f[q]
  OBVIOUS
<1>3. g[p] = f[p] \o new /\ Len(g[p]) = Len(f[p]) + Len(new)
  OBVIOUS
<1>4. \A i \in 1..Len(g[p]) :
          /\ i <= Len(f[p]) => i \in 1..Len(f[p]) /\ g[p][i] = f[p][i]
          /\ i > Len(f[p]) => /\ i - Len(f[p]) \in 1..Len(new) /\ g[p][i] = new[i - Len(f[p])]
                              /\ g[p][i].id = n + (i - Len(f[p])) /\ g[p][i].by = p
  <2>1. \A i \in 1..Len(f[p]) + Len(new) :
            g[p][i] = IF i <= Len(f[p]) THEN f[p][i] ELSE new[i - Len(f[p])]
    BY <1>3, ConcatProperties
  <2>2. Len(f[p]) \in Nat /\ Len(new) \in Nat /\ Len(g[p]) = Len(f[p]) + Len(new)
    BY <1>1, <1>3
  <2> HIDE DEF g
  <2>3. \A i \in 1..Len(g[p]) : i <= Len(f[p]) => i \in 1..Len(f[p]) /\ g[p][i] = f[p][i]
    BY <2>1, <2>2
  <2>4. \A i \in 1..Len(g[p]) : i > Len(f[p]) => i - Len(f[p]) \in 1..Len(new)
    BY <2>2
  <2>5. \A i \in 1..Len(g[p]) : i > Len(f[p]) => g[p][i] = new[i - Len(f[p])]
    BY <2>1, <2>2
  <2>6. \A i \in 1..Len(g[p]) : i > Len(f[p]) => g[p][i].id = n + (i - Len(f[p])) /\ g[p][i].by = p
    BY <2>4, <2>5
  <2> QED BY <2>3, <2>4, <2>5, <2>6
<1>u. \A q, r \in Writer : \A i \in 1..Len(f[q]), j \in 1..Len(f[r]) :
          f[q][i].id = f[r][j].id => q = r /\ i = j
  BY UniqueFacts
<1>5. \A k \in 1..Len(w) : w[k].id <= n /\ w[k].id \in Nat
  BY UniqueFacts, IdsAreNumbers
<1>6. \A q \in Writer : \A i \in 1..Len(f[q]) : /\ f[q][i].id <= n /\ f[q][i].id \in Nat /\ f[q][i].by = q
                                               /\ \A k \in 1..Len(w) : f[q][i].id # w[k].id
  BY UniqueFacts, IdsAreNumbers
<1> DEFINE Old(q, i) == i \in 1..Len(f[q]) /\ g[q][i] = f[q][i]
           New(q, i) == q = p /\ i \in Nat /\ g[q][i].by = p
                        /\ \E k \in 1..Len(new) : g[q][i].id = n + k /\ i = Len(f[p]) + k
<1>7. ASSUME NEW q \in Writer, NEW i \in 1..Len(g[q]) PROVE Old(q, i) \/ New(q, i)
  <2>1. CASE q # p
    BY <1>2, <2>1
  <2>2. CASE q = p /\ i <= Len(f[p])
    BY <1>1, <1>4, <2>2
  <2>3. CASE q = p /\ i > Len(f[p])
    <3>1. i \in 1..Len(g[p]) /\ i \in Nat
      BY <1>1, <1>3, <2>3
    <3>2. /\ i - Len(f[p]) \in 1..Len(new) /\ g[p][i].by = p
          /\ g[p][i].id = n + (i - Len(f[p]))
      BY <1>4, <2>3, <3>1
    <3>3. i = Len(f[p]) + (i - Len(f[p]))
      BY <1>1, <3>1
    <3> QED BY <2>3, <3>1, <3>2, <3>3
  <2>4. i <= Len(f[p]) \/ i > Len(f[p])
    BY <1>1, <1>3, <2>1
  <2> QED BY <2>1, <2>2, <2>3, <2>4
<1> HIDE DEF g
<1>8. ASSUME NEW q \in Writer, NEW r \in Writer, NEW i \in 1..Len(g[q]), NEW j \in 1..Len(g[r]),
             g[q][i].id = g[r][j].id
      PROVE  q = r /\ i = j
  <2>1. ASSUME Old(q, i), Old(r, j) PROVE q = r /\ i = j
    BY <1>8, <1>u, <2>1
  <2>2. ASSUME Old(q, i), New(r, j) PROVE FALSE
    BY <1>1, <1>6, <1>8, <2>2
  <2>3. ASSUME New(q, i), Old(r, j) PROVE FALSE
    <3>1. PICK k \in 1..Len(new) : g[q][i].id = n + k
      BY <2>3
    <3>2. g[r][j].id <= n
      BY <1>6, <2>3
    <3> QED BY <1>1, <1>8, <3>1, <3>2
  <2>4. ASSUME New(q, i), New(r, j) PROVE q = r /\ i = j
    <3>1. PICK k \in 1..Len(new) : g[q][i].id = n + k /\ i = Len(f[p]) + k
      BY <2>4
    <3>2. PICK l \in 1..Len(new) : g[r][j].id = n + l /\ j = Len(f[p]) + l
      BY <2>4
    <3>3. n + k = n + l
      BY <1>8, <3>1, <3>2
    <3>4. k = l
      BY <3>3
    <3> QED BY <2>4, <3>1, <3>2, <3>4
  <2> HIDE DEF Old, New
  <2> QED BY <1>7, <2>1, <2>2, <2>3, <2>4
<1>12. ASSUME NEW q \in Writer, NEW i \in 1..Len(g[q])
       PROVE  /\ g[q][i].id <= n + Len(new) /\ g[q][i].by = q
              /\ \A k \in 1..Len(w) : g[q][i].id # w[k].id
  <2>1. ASSUME Old(q, i) PROVE /\ g[q][i].id <= n + Len(new) /\ g[q][i].by = q
                               /\ \A k \in 1..Len(w) : g[q][i].id # w[k].id
    <3>1. f[q][i].id <= n /\ f[q][i].id \in Nat /\ f[q][i].by = q /\ \A k \in 1..Len(w) : f[q][i].id # w[k].id
      BY <1>6, <2>1
    <3> QED BY <1>1, <2>1, <3>1
  <2>2. ASSUME New(q, i) PROVE /\ g[q][i].id <= n + Len(new) /\ g[q][i].by = q
                               /\ \A k \in 1..Len(w) : g[q][i].id # w[k].id
    BY <1>1, <1>5, <2>2
  <2> HIDE DEF Old, New
  <2> QED BY <1>7, <2>1, <2>2
<1>9. \A k \in 1..Len(w) : w[k].id <= n + Len(new)
  BY <1>1, <1>5
<1> HIDE DEF g
<1>10. \A j, k \in 1..Len(w) : w[j].id = w[k].id => j = k
  BY DEF Unique
<1>11. Unique(g, w, n + Len(new))
  BY <1>12, <1>8, <1>9, <1>10 DEF Unique
<1> QED BY <1>11 DEF g

\* The first record waiting is written.
LEMMA UniqueWrite ==
    ASSUME NEW f \in [Writer -> Seq(Record)], NEW w \in Seq(Record), NEW n \in Nat, Unique(f, w, n),
           NEW p \in Writer, NEW x \in Record, NEW t \in Seq(Record), f[p] = <<x>> \o t
    PROVE  Unique([f EXCEPT ![p] = t], w \o <<x>>, n)
<1> DEFINE g == [f EXCEPT ![p] = t]
           v == w \o <<x>>
           Source(q, i, j) == j \in 1..Len(f[q]) /\ g[q][i] = f[q][j] /\ (q = p => i + 1 = j /\ j # 1) /\ (q # p => j = i)
<1>1. Len(w) \in Nat /\ Len(t) \in Nat /\ Len(v) = Len(w) + 1 /\ Len(f[p]) = Len(t) + 1
  OBVIOUS
<1>2. \A q \in Writer : q # p => g[q] = f[q]
  OBVIOUS
<1>3. g[p] = t /\ f[p][1] = x /\ 1 \in 1..Len(f[p])
  BY <1>1
<1>4. \A i \in 1..Len(t) : i \in Nat /\ i + 1 \in 1..Len(f[p]) /\ t[i] = f[p][i + 1] /\ i + 1 # 1
  BY <1>1
<1>5. \A k \in 1..Len(v) : (k \in 1..Len(w) /\ v[k] = w[k]) \/ (v[k] = f[p][1] /\ k = Len(w) + 1)
  <2>1. \A k \in 1..Len(v) : /\ k <= Len(w) => k \in 1..Len(w) /\ v[k] = w[k]
                             /\ k > Len(w) => v[k] = x /\ k = Len(w) + 1
    BY <1>1
  <2>2. \A k \in 1..Len(v) : k <= Len(w) \/ k > Len(w)
    BY <1>1
  <2> HIDE DEF v
  <2> QED BY <1>3, <2>1, <2>2
<1>6. /\ \A k \in 1..Len(w) : w[k].id <= n
      /\ \A j, k \in 1..Len(w) : w[j].id = w[k].id => j = k
      /\ \A q \in Writer : \A i \in 1..Len(f[q]) :
             /\ f[q][i].id <= n /\ f[q][i].by = q
             /\ \A k \in 1..Len(w) : f[q][i].id # w[k].id
      /\ \A q, r \in Writer : \A i \in 1..Len(f[q]), j \in 1..Len(f[r]) :
             f[q][i].id = f[r][j].id => q = r /\ i = j
  BY UniqueFacts
<1>7. ASSUME NEW q \in Writer, NEW i \in 1..Len(g[q]) PROVE i \in Nat /\ \E j \in 1..Len(f[q]) : Source(q, i, j)
  <2>1. CASE q # p
    BY <1>2, <2>1
  <2>2. CASE q = p
    BY <1>1, <1>3, <1>4, <2>2
  <2> QED BY <2>1, <2>2
<1> HIDE DEF g, v
<1>8. \A k \in 1..Len(v) : v[k].id <= n
  <2>1. f[p][1].id <= n
    BY <1>3, <1>6
  <2>2. ASSUME NEW k \in 1..Len(v) PROVE v[k].id <= n
    <3>1. CASE k \in 1..Len(w) /\ v[k] = w[k]
      BY <1>6, <3>1
    <3>2. CASE v[k] = f[p][1]
      BY <2>1, <3>2
    <3> QED BY <1>5, <3>1, <3>2
  <2> QED BY <2>2
<1>9. ASSUME NEW j \in 1..Len(v), NEW k \in 1..Len(v), v[j].id = v[k].id PROVE j = k
  <2>1. CASE j \in 1..Len(w) /\ v[j] = w[j] /\ k \in 1..Len(w) /\ v[k] = w[k]
    BY <1>6, <1>9, <2>1
  <2>2. CASE j \in 1..Len(w) /\ v[j] = w[j] /\ v[k] = f[p][1]
    BY <1>3, <1>6, <1>9, <2>2
  <2>3. CASE k \in 1..Len(w) /\ v[k] = w[k] /\ v[j] = f[p][1]
    BY <1>3, <1>6, <1>9, <2>3
  <2>4. CASE j = Len(w) + 1 /\ k = Len(w) + 1
    BY <2>4
  <2> QED BY <1>5, <2>1, <2>2, <2>3, <2>4
<1>10. ASSUME NEW q \in Writer, NEW i \in 1..Len(g[q])
       PROVE  /\ g[q][i].id <= n /\ g[q][i].by = q
              /\ \A k \in 1..Len(v) : g[q][i].id # v[k].id
  <2>1. PICK j \in 1..Len(f[q]) : Source(q, i, j)
    BY <1>7
  <2>2. g[q][i].id <= n /\ g[q][i].by = q
    BY <1>6, <2>1
  <2>3. ASSUME NEW k \in 1..Len(v) PROVE g[q][i].id # v[k].id
    <3>1. CASE k \in 1..Len(w) /\ v[k] = w[k]
      BY <1>6, <2>1, <3>1
    <3>2. CASE v[k] = f[p][1]
      <4>1. ~(q = p /\ j = 1)
        BY <2>1
      <4>2. f[q][j].id # f[p][1].id
        BY <1>3, <1>6, <4>1
      <4> QED BY <2>1, <3>2, <4>2
    <3> QED BY <1>5, <3>1, <3>2
  <2> QED BY <2>2, <2>3
<1>11. ASSUME NEW q \in Writer, NEW r \in Writer, NEW i \in 1..Len(g[q]), NEW j \in 1..Len(g[r]),
             g[q][i].id = g[r][j].id
      PROVE  q = r /\ i = j
  <2>1. PICK a \in 1..Len(f[q]) : Source(q, i, a)
    BY <1>7
  <2>2. PICK b \in 1..Len(f[r]) : Source(r, j, b)
    BY <1>7
  <2>3. q = r /\ a = b
    BY <1>6, <1>11, <2>1, <2>2
  <2>4. i \in Nat /\ j \in Nat
    BY <1>7
  <2> QED BY <2>1, <2>2, <2>3, <2>4
<1>12. Unique(g, v, n)
  <2>1. \A q \in Writer : \A i \in 1..Len(g[q]) : g[q][i].id <= n /\ g[q][i].by = q
    BY <1>10
  <2>2. \A q \in Writer : \A i \in 1..Len(g[q]), k \in 1..Len(v) : g[q][i].id # v[k].id
    BY <1>10
  <2> QED BY <1>8, <1>9, <1>11, <2>1, <2>2 DEF Unique
<1> QED BY <1>12 DEF g, v

\* A process dies with its channel.
LEMMA UniqueDrop ==
    ASSUME NEW f \in [Writer -> Seq(Record)], NEW w \in Seq(Record), NEW n \in Nat, Unique(f, w, n),
           NEW p
    PROVE  Unique([f EXCEPT ![p] = <<>>], w, n)
<1> DEFINE g == [f EXCEPT ![p] = <<>>]
<1>1. \A q \in Writer : g[q] = IF q = p THEN <<>> ELSE f[q]
  OBVIOUS
<1>2. \A q \in Writer : \A i \in 1..Len(g[q]) : g[q] = f[q]
  BY <1>1
<1> HIDE DEF g
<1>3. Unique(g, w, n)
  <2> USE DEF Unique
  <2>1. \A q \in Writer : \A i \in 1..Len(g[q]) : g[q][i].id <= n /\ g[q][i].by = q
    BY <1>2
  <2>2. \A q \in Writer : \A i \in 1..Len(g[q]), k \in 1..Len(w) : g[q][i].id # w[k].id
    BY <1>2
  <2>3. \A q, r \in Writer : \A i \in 1..Len(g[q]), j \in 1..Len(g[r]) :
           g[q][i].id = g[r][j].id => q = r /\ i = j
    BY <1>2
  <2> QED BY <2>1, <2>2, <2>3
<1> QED BY <1>3 DEF g

\* A piece stays one when more is written.
LEMMA PieceLater ==
    ASSUME NEW s \in Seq(Record), NEW w \in Seq(Record), NEW x \in Record, Piece(s, w)
    PROVE  Piece(s, w \o <<x>>)
<1>1. \A i \in 1..Len(w) : i \in 1..Len(w \o <<x>>) /\ (w \o <<x>>)[i] = w[i]
  OBVIOUS
<1> QED BY <1>1 DEF Piece

\* A new record at the end of both.
LEMMA PieceAppend ==
    ASSUME NEW s \in Seq(Record), NEW w \in Seq(Record), NEW x \in Record, Piece(s, w),
           \A i \in 1..Len(w) : w[i].id # x.id
    PROVE  Piece(s \o <<x>>, w \o <<x>>)
<1> DEFINE t == s \o <<x>>
           v == w \o <<x>>
<1>1. Len(s) \in Nat /\ Len(t) = Len(s) + 1 /\ Len(w) \in Nat /\ Len(v) = Len(w) + 1
  OBVIOUS
<1>2. \A k \in 1..Len(t) : (k <= Len(s) => k \in 1..Len(s) /\ t[k] = s[k]) /\ (k > Len(s) => t[k] = x /\ k = Len(s) + 1)
  BY <1>1
<1>3. (\A i \in 1..Len(w) : i \in 1..Len(v) /\ v[i] = w[i]) /\ Len(w) + 1 \in 1..Len(v) /\ v[Len(w) + 1] = x
  BY <1>1
<1>4. \A k \in 1..Len(s) : s[k].id # x.id
  BY DEF Piece
<1> HIDE DEF t, v
<1>5. \A k \in 1..Len(t) : \E i \in 1..Len(v) : v[i] = t[k]
  <2> SUFFICES ASSUME NEW k \in 1..Len(t) PROVE \E i \in 1..Len(v) : v[i] = t[k]
    OBVIOUS
  <2>1. CASE k <= Len(s)
    <3>1. k \in 1..Len(s) /\ t[k] = s[k]
      BY <1>2, <2>1
    <3>2. PICK i \in 1..Len(w) : w[i] = s[k]
      BY <3>1 DEF Piece
    <3> QED BY <1>3, <3>1, <3>2
  <2>2. CASE k > Len(s)
    BY <1>2, <1>3, <2>2
  <2> QED BY <1>1, <2>1, <2>2
<1>6. ASSUME NEW j \in 1..Len(t), NEW k \in 1..Len(t), t[j].id = t[k].id PROVE j = k
  <2>1. CASE j <= Len(s) /\ k <= Len(s)
    BY <1>2, <1>6, <2>1 DEF Piece
  <2>2. CASE (j <= Len(s) /\ k > Len(s)) \/ (j > Len(s) /\ k <= Len(s))
    BY <1>2, <1>4, <1>6, <2>2
  <2>3. CASE j > Len(s) /\ k > Len(s)
    BY <1>2, <2>3
  <2> QED BY <1>1, <2>1, <2>2, <2>3
<1>7. Piece(t, v)
  BY <1>5, <1>6 DEF Piece
<1> QED BY <1>7 DEF t, v

\* A tail of a piece is a piece.
LEMMA PieceTail ==
    ASSUME NEW s \in Seq(Record), NEW w \in Seq(Record), NEW n \in Nat, Piece(s, w)
    PROVE  Piece(SubSeq(s, n + 1, Len(s)), w)
<1> DEFINE t == SubSeq(s, n + 1, Len(s))
<1>1. \A k \in 1..Len(t) : n + k \in 1..Len(s) /\ t[k] = s[n + k] /\ k \in Nat
  OBVIOUS
<1> HIDE DEF t
<1>2. ASSUME NEW k \in 1..Len(t) PROVE \E i \in 1..Len(w) : w[i] = t[k]
  <2>1. n + k \in 1..Len(s) /\ t[k] = s[n + k]
    BY <1>1
  <2> HIDE <1>1
  <2>2. PICK i \in 1..Len(w) : w[i] = s[n + k]
    BY <2>1 DEF Piece
  <2> QED BY <2>1, <2>2
<1>3. ASSUME NEW j \in 1..Len(t), NEW k \in 1..Len(t), t[j].id = t[k].id PROVE j = k
  <2>1. n + j = n + k
    BY <1>1, <1>3, ZenonT(30) DEF Piece
  <2> QED BY <1>1, <2>1
<1>4. Piece(t, w)
  BY <1>2, <1>3 DEF Piece
<1> QED BY <1>4 DEF t

\* What is drawn from records stays drawn from them when more are written.
LEMMA DrawnLater ==
    ASSUME NEW s \in Seq(Record), NEW w \in Seq(Record), NEW x \in Record, Drawn(s, w)
    PROVE  Drawn(s, w \o <<x>>)
<1>1. \A i \in 1..Len(w) : i \in 1..Len(w \o <<x>>) /\ (w \o <<x>>)[i] = w[i]
  OBVIOUS
<1> QED BY <1>1 DEF Drawn

\* What prefix_of hashes: the first records of what it is given, one at least if there is one.
LEMMA PrefixIs ==
    ASSUME NEW s \in Seq(Record), NEW n \in Nat, n <= Len(s)
    PROVE  /\ PrefixOf(s, n) \in Seq(Record)
           /\ Len(PrefixOf(s, n)) = MinOf(n, PrefixCap) /\ MinOf(n, PrefixCap) \in Nat
           /\ MinOf(n, PrefixCap) <= n
           /\ \A k \in 1..MinOf(n, PrefixCap) : k \in 1..Len(s) /\ PrefixOf(s, n)[k] = s[k]
           /\ n > 0 => 1 \in 1..MinOf(n, PrefixCap)
<1>1. Len(s) \in Nat /\ PrefixCap \in Nat /\ PrefixCap > 0
  BY StoreAssumption
<1>2. MinOf(n, PrefixCap) \in Nat /\ MinOf(n, PrefixCap) <= n /\ (n > 0 => 1 \in 1..MinOf(n, PrefixCap))
  BY <1>1 DEF MinOf
<1>3. MinOf(Len(s), MinOf(n, PrefixCap)) = MinOf(n, PrefixCap)
  BY <1>1, <1>2 DEF MinOf
<1>4. PrefixOf(s, n) = SubSeq(s, 1, MinOf(n, PrefixCap))
  BY <1>3 DEF PrefixOf
<1> DEFINE c == MinOf(n, PrefixCap)
<1> HIDE DEF c
<1>5. c \in Nat /\ c <= Len(s)
  BY <1>1, <1>2 DEF c
<1>6. SubSeq(s, 1, c) \in Seq(Record) /\ Len(SubSeq(s, 1, c)) = c
  BY <1>1, <1>5
<1>7. \A k \in 1..c : k \in 1..Len(s) /\ SubSeq(s, 1, c)[k] = s[k]
  BY <1>1, <1>5
<1> QED BY <1>2, <1>4, <1>6, <1>7 DEF c

\* The hashed prefix of what is drawn from w is drawn from w.
LEMMA PrefixDrawn ==
    ASSUME NEW s \in Seq(Record), NEW w, Drawn(s, w)
    PROVE  Drawn(PrefixOf(s, Len(s)), w)
<1>1. Len(s) \in Nat /\ Len(s) <= Len(s)
  OBVIOUS
<1>2. \A k \in 1..Len(PrefixOf(s, Len(s))) : k \in 1..Len(s) /\ PrefixOf(s, Len(s))[k] = s[k]
  BY <1>1, PrefixIs
<1> QED BY <1>2 DEF Drawn

\* The channel and the taken record are records.
LEMMA WaitingType ==
    ASSUME TypeOK
    PROVE  /\ WaitingOf \in [Writer -> Seq(Record)]
           /\ \A p \in Writer : WaitingOf[p] = rec[p] \o queue[p]
<1>1. \A p \in Writer : rec[p] \in Seq(Record) /\ queue[p] \in Seq(Record)
  BY DEF TypeOK, Process
<1>2. \A p \in Writer : rec[p] \o queue[p] \in Seq(Record)
  BY <1>1
<1> QED BY <1>2 DEF WaitingOf, Waiting

\* Steps that touch no record keep the identities.
LEMMA IdIdle ==
    ASSUME IdInv, UNCHANGED <<journal, snapshot, queue, rec, first, rest, written, ids>>,
           \A q \in Writer : writer'[q] \in {"waiting", "appending"} <=> writer[q] \in {"waiting", "appending"}
    PROVE  IdInv'
<1>1. WaitingOf' = WaitingOf
  BY DEF WaitingOf, Waiting
<1>2. \A q \in Writer : OneTaken(q)'
  BY DEF IdInv, OneTaken
<1> QED BY <1>1, <1>2 DEF IdInv

\* Sequences of records may be joined in any grouping.
LEMMA RecordsAssociate ==
    ASSUME NEW a \in Seq(Record), NEW b \in Seq(Record), NEW c \in Seq(Record)
    PROVE  a \o (b \o c) = (a \o b) \o c
BY ConcatAssociative

\* record, wipe: fresh records join the channel.
LEMMA IdRequest ==
    ASSUME TypeOK, IdInv, NEW p \in Writer, NEW kinds \in Calls, Record_(p, kinds)
    PROVE  IdInv'
<1> DEFINE new == [i \in DOMAIN kinds |-> [id |-> ids + i, by |-> p, kind |-> kinds[i]]]
<1>1. kinds \in Seq(Kind) /\ DOMAIN kinds = 1..Len(kinds) /\ Len(kinds) \in Nat
  <2>1. CASE kinds = <<"choose">>
    BY <2>1 DEF Kind
  <2>2. CASE kinds = <<"choose", "negative">>
    BY <2>2 DEF Kind
  <2>3. CASE kinds = <<"wipe">>
    BY <2>3 DEF Kind
  <2> QED BY <2>1, <2>2, <2>3 DEF Calls
<1>2. ids \in Nat /\ ids + Len(kinds) <= MaxRecords
  BY <1>1, StoreAssumption DEF Record_, TypeOK
<1>3. \A i \in 1..Len(kinds) : new[i] \in Record
  BY <1>1, <1>2, StoreAssumption DEF Record, Id
<1>4. new \in Seq(Record) /\ Len(new) = Len(kinds)
  BY <1>1, <1>3
<1>5. \A i \in 1..Len(new) : new[i].id = ids + i /\ new[i].by = p
  BY <1>1, <1>4
<1>6. queue' = [queue EXCEPT ![p] = queue[p] \o new] /\ rec' = rec /\ ids' = ids + Len(new)
  BY <1>4 DEF Record_, writerVars
<1> HIDE DEF new
<1>7. WaitingOf' = [WaitingOf EXCEPT ![p] = WaitingOf[p] \o new]
  <2>1. \A q \in Writer : rec[q] \in Seq(Record) /\ queue[q] \in Seq(Record) /\ queue'[q] = IF q = p THEN queue[p] \o new ELSE queue[q]
    BY <1>6 DEF TypeOK, Process
  <2>2. rec[p] \o (queue[p] \o new) = (rec[p] \o queue[p]) \o new
    <3>1. rec[p] \in Seq(Record) /\ queue[p] \in Seq(Record) /\ new \in Seq(Record)
      BY <1>4, <2>1
    <3> QED BY <3>1, RecordsAssociate
  <2>3. \A q \in Writer : Waiting(q)' = IF q = p THEN WaitingOf[p] \o new ELSE WaitingOf[q]
    <3> SUFFICES ASSUME NEW q \in Writer PROVE Waiting(q)' = IF q = p THEN WaitingOf[p] \o new ELSE WaitingOf[q]
      OBVIOUS
    <3>1. Waiting(q)' = rec[q] \o queue'[q]
      BY <1>6 DEF Waiting
    <3>2. WaitingOf[p] = rec[p] \o queue[p] /\ WaitingOf[q] = rec[q] \o queue[q]
      BY DEF Waiting, WaitingOf
    <3>3. q = p => queue'[q] = queue[p] \o new
      BY <2>1
    <3>4. q # p => queue'[q] = queue[q]
      BY <2>1
    <3> QED BY <2>2, <3>1, <3>2, <3>3, <3>4
  <2> QED BY <2>3 DEF WaitingOf
<1>8. Unique(WaitingOf, written, ids) /\ written \in Seq(Record)
  BY DEF IdInv, TypeOK
<1>9. Unique(WaitingOf', written, ids')
  BY <1>2, <1>4, <1>5, <1>6, <1>7, <1>8, WaitingType, UniqueRequest
<1>10. UNCHANGED <<journal, snapshot, writer, rec, first, rest, written>>
  BY DEF Record_, disk, writerVars, job, history
<1> QED BY <1>9, <1>10 DEF IdInv, OneTaken

\* recv: the head of the channel becomes the taken record.
LEMMA IdReceive ==
    ASSUME TypeOK, IdInv, NEW p \in Writer, Receive(p)
    PROVE  IdInv'
<1>1. /\ queue[p] # <<>> /\ writer[p] = "idle" /\ writer' = [writer EXCEPT ![p] = "waiting"]
      /\ rec' = [rec EXCEPT ![p] = <<Head(queue[p])>>]
      /\ queue' = [queue EXCEPT ![p] = Tail(queue[p])]
      /\ UNCHANGED <<journal, snapshot, first, rest, written, ids>>
  BY DEF Receive, WriterGoes, disk, job, bounds, history
<1>2. rec[p] = <<>>
  BY <1>1 DEF IdInv, OneTaken
<1>3. /\ queue[p] \in Seq(Record) /\ rec \in [Process -> Seq(Record)]
      /\ queue \in [Process -> Seq(Record)] /\ writer \in [Process -> WriterStep] /\ p \in Process
  BY DEF TypeOK, Process
<1>4. <<Head(queue[p])>> \o Tail(queue[p]) = <<>> \o queue[p]
  BY <1>1, <1>3
<1>5. \A q \in Writer : Waiting(q)' = Waiting(q)
  BY <1>1, <1>2, <1>3, <1>4 DEF Waiting, Process
<1>6. WaitingOf' = WaitingOf
  BY <1>5 DEF WaitingOf
<1>7. \A q \in Writer : OneTaken(q)'
  <2>1. \A q \in Writer : OneTaken(q)
    BY DEF IdInv
  <2> QED BY <2>1, <1>1, <1>3 DEF OneTaken, Process
<1> QED BY <1>1, <1>6, <1>7 DEF IdInv

\* The record the writer thread took is new to all that was written.
LEMMA TakenRecord ==
    ASSUME TypeOK, IdInv, NEW p \in Writer, writer[p] = "appending"
    PROVE  \E x \in Record :
               /\ rec[p] = <<x>> /\ WaitingOf[p] = <<x>> \o queue[p]
               /\ \A k \in 1..Len(written) : written[k].id # x.id
<1>1. rec[p] \in Seq(Record) /\ queue[p] \in Seq(Record)
  BY DEF TypeOK, Process
<1>2. Len(rec[p]) = 1
  BY <1>1 DEF IdInv, OneTaken
<1>3. PICK x \in Record : rec[p] = <<x>>
  <2>1. rec[p][1] \in Record /\ rec[p] = <<rec[p][1]>>
    BY <1>1, <1>2
  <2> QED BY <2>1
<1>4. WaitingOf[p] = <<x>> \o queue[p]
  BY <1>3, WaitingType
<1>5. 1 \in 1..Len(WaitingOf[p]) /\ WaitingOf[p][1] = x
  BY <1>1, <1>4
<1>6. \A k \in 1..Len(written) : WaitingOf[p][1].id # written[k].id
  BY <1>5, UniqueFacts DEF IdInv
<1> QED BY <1>3, <1>4, <1>5, <1>6

\* The writer thread appends a record that is new to the journal and to all that was written.
LEMMA TakenIsFresh ==
    ASSUME TypeOK, IdInv, NEW p \in Writer, AppendRecord(p)
    PROVE  \E x \in Record :
               /\ rec[p] = <<x>> /\ WaitingOf[p] = <<x>> \o queue[p]
               /\ journal' = journal \o <<x>> /\ written' = written \o <<x>>
               /\ \A k \in 1..Len(written) : written[k].id # x.id
<1>1. writer[p] = "appending"
  BY DEF AppendRecord, WriterGoes
<1>2. PICK x \in Record : /\ rec[p] = <<x>> /\ WaitingOf[p] = <<x>> \o queue[p]
                          /\ \A k \in 1..Len(written) : written[k].id # x.id
  BY <1>1, TakenRecord
<1> QED BY <1>2 DEF AppendRecord

\* The append keeps the identities.
LEMMA IdAppend ==
    ASSUME TypeOK, IdInv, NEW p \in Writer, AppendRecord(p)
    PROVE  IdInv'
<1>1. PICK x \in Record : /\ rec[p] = <<x>> /\ WaitingOf[p] = <<x>> \o queue[p]
                          /\ journal' = journal \o <<x>> /\ written' = written \o <<x>>
                          /\ \A k \in 1..Len(written) : written[k].id # x.id
  BY TakenIsFresh
<1>2. /\ writer[p] = "appending" /\ writer' = [writer EXCEPT ![p] = "pushing"]
      /\ rec' = [rec EXCEPT ![p] = <<>>]
      /\ UNCHANGED <<snapshot, queue, first, rest, ids>>
  BY DEF AppendRecord, WriterGoes, job, bounds
<1>3. /\ \A q \in Process : rec[q] \in Seq(Record) /\ queue[q] \in Seq(Record)
                            /\ first[q] \in Seq(Record) /\ rest[q] \in Seq(Record)
      /\ rec \in [Process -> Seq(Record)] /\ writer \in [Process -> WriterStep] /\ p \in Process
      /\ ids \in Nat /\ written \in Seq(Record) /\ journal \in Seq(Record)
      /\ snapshot.prefix \in Seq(Record) /\ Writer \subseteq Process
  BY StoreAssumption DEF TypeOK, Process
<1>4. WaitingOf' = [WaitingOf EXCEPT ![p] = queue[p]]
  <2>1. <<>> \o queue[p] = queue[p]
    BY <1>3
  <2>2. \A q \in Writer : Waiting(q)' = IF q = p THEN queue[p] ELSE WaitingOf[q]
    BY <1>2, <1>3, <2>1 DEF Waiting, WaitingOf
  <2> QED BY <2>2 DEF WaitingOf
<1>5. Unique(WaitingOf, written, ids)
  BY DEF IdInv
<1>6. Unique([WaitingOf EXCEPT ![p] = queue[p]], written \o <<x>>, ids)
  BY <1>1, <1>3, <1>5, WaitingType, UniqueWrite
<1>7. Unique(WaitingOf, written, ids)'
  BY <1>1, <1>2, <1>4, <1>6
<1>8. \A q \in Writer : OneTaken(q)'
  <2>1. \A q \in Writer : OneTaken(q)
    BY DEF IdInv
  <2> QED BY <2>1, <1>2, <1>3 DEF OneTaken
<1>9. Piece(journal, written)'
  BY <1>1, <1>3, PieceAppend DEF IdInv
<1>10. \A q \in Process : Piece(first[q], written)' /\ Piece(rest[q], written)'
  <2> SUFFICES ASSUME NEW q \in Process PROVE Piece(first[q], written)' /\ Piece(rest[q], written)'
    OBVIOUS
  <2>1. Piece(first[q], written) /\ Piece(rest[q], written)
    BY DEF IdInv
  <2>2. Piece(first[q], written \o <<x>>) /\ Piece(rest[q], written \o <<x>>)
    BY <1>3, <2>1, PieceLater
  <2> QED BY <1>1, <1>2, <2>2
<1>11. Drawn(snapshot.prefix, written)'
  BY <1>1, <1>2, <1>3, DrawnLater DEF IdInv
<1> QED BY <1>7, <1>8, <1>9, <1>10, <1>11 DEF IdInv

\* What is unique with one more record written is unique without it.
LEMMA UniqueShorter ==
    ASSUME NEW f, NEW w \in Seq(Record), NEW x \in Record, NEW n, Unique(f, w \o <<x>>, n)
    PROVE  Unique(f, w, n)
<1> DEFINE v == w \o <<x>>
<1>1. \A k \in 1..Len(w) : k \in 1..Len(v) /\ v[k] = w[k]
  OBVIOUS
<1>2. Unique(f, v, n)
  OBVIOUS
<1> HIDE DEF v
<1>3. /\ \A k \in 1..Len(w) : w[k].id <= n
      /\ \A j, k \in 1..Len(w) : w[j].id = w[k].id => j = k
      /\ \A p \in Writer : \A i \in 1..Len(f[p]), k \in 1..Len(w) : f[p][i].id # w[k].id
  BY <1>1, <1>2 DEF Unique
<1> QED BY <1>2, <1>3 DEF Unique

\* A failed append takes its record out of the process and writes nothing.
LEMMA IdAppendFails ==
    ASSUME TypeOK, IdInv, NEW p \in Writer, AppendFails(p)
    PROVE  IdInv'
<1>1. /\ writer[p] = "appending" /\ writer' = [writer EXCEPT ![p] = "idle"]
      /\ rec' = [rec EXCEPT ![p] = <<>>]
      /\ UNCHANGED <<journal, snapshot, written, queue, first, rest, ids>>
  BY DEF AppendFails, WriterGoes, job, disk
<1>2. /\ \A q \in Process : rec[q] \in Seq(Record) /\ queue[q] \in Seq(Record)
      /\ rec \in [Process -> Seq(Record)] /\ writer \in [Process -> WriterStep] /\ p \in Process
      /\ ids \in Nat /\ written \in Seq(Record) /\ Writer \subseteq Process
  BY StoreAssumption DEF TypeOK, Process
<1>3. PICK x \in Record : /\ WaitingOf[p] = <<x>> \o queue[p]
                          /\ \A k \in 1..Len(written) : written[k].id # x.id
  BY <1>1, TakenRecord
<1>4. WaitingOf' = [WaitingOf EXCEPT ![p] = queue[p]]
  <2>1. <<>> \o queue[p] = queue[p]
    BY <1>2
  <2>2. \A q \in Writer : Waiting(q)' = IF q = p THEN queue[p] ELSE WaitingOf[q]
    BY <1>1, <1>2, <2>1 DEF Waiting, WaitingOf
  <2> QED BY <2>2 DEF WaitingOf
<1>5. Unique(WaitingOf, written, ids)'
  <2>1. Unique([WaitingOf EXCEPT ![p] = queue[p]], written \o <<x>>, ids)
    BY <1>2, <1>3, WaitingType, UniqueWrite DEF IdInv
  <2>2. Unique([WaitingOf EXCEPT ![p] = queue[p]], written, ids)
    BY <1>2, <2>1, UniqueShorter
  <2> QED BY <1>1, <1>4, <2>2
<1>6. \A q \in Writer : OneTaken(q)'
  <2>1. \A q \in Writer : OneTaken(q)
    BY DEF IdInv
  <2> QED BY <2>1, <1>1, <1>2 DEF OneTaken
<1> QED BY <1>1, <1>5, <1>6 DEF IdInv

\* The steps of compact that read or write records.
LEMMA IdCompact ==
    ASSUME TypeOK, IdInv, NEW p \in Writer,
           \/ CompactRead(p) \/ CompactWriteSnapshot(p) \/ CompactReadTail(p)
           \/ CompactWriteJournal(p) \/ ReplaceFails(p)
    PROVE  IdInv'
<1>1. UNCHANGED <<queue, rec, written, ids>>
  BY DEF CompactRead, CompactWriteSnapshot, CompactReadTail, CompactWriteJournal, ReplaceFails, bounds, history
<1>2. WaitingOf' = WaitingOf
  BY <1>1 DEF WaitingOf, Waiting
<1>3. \A q \in Writer : writer'[q] \in {"waiting", "appending"} <=> writer[q] \in {"waiting", "appending"}
  BY DEF CompactRead, CompactWriteSnapshot, CompactReadTail, CompactWriteJournal, ReplaceFails, WriterGoes, TypeOK, Process
<1>4. \A q \in Writer : OneTaken(q)'
  <2>1. \A q \in Writer : OneTaken(q)
    BY DEF IdInv
  <2> QED BY <2>1, <1>1, <1>3 DEF OneTaken
<1>5. Piece(<<>>, written)
  BY DEF Piece
<1>6. /\ first \in [Process -> Seq(Record)] /\ rest \in [Process -> Seq(Record)] /\ p \in Process
      /\ journal \in Seq(Record) /\ written \in Seq(Record) /\ Len(first[p]) \in Nat
  BY SMTT(20) DEF TypeOK, Process
<1>7. CASE CompactRead(p)
  BY <1>1, <1>2, <1>4, <1>6, <1>7 DEF IdInv, CompactRead, disk
<1>8. CASE CompactWriteSnapshot(p)
  <2>1. Drawn(first[p], written)
    BY <1>6 DEF IdInv, Piece, Drawn
  <2>2. Drawn(snapshot.prefix, written)'
    BY <1>1, <1>6, <1>8, <2>1, PrefixDrawn DEF CompactWriteSnapshot
  <2> QED BY <1>1, <1>2, <1>4, <1>8, <2>2 DEF IdInv, CompactWriteSnapshot
<1>9. CASE CompactReadTail(p)
  <2>1. Piece(SubSeq(journal, Len(first[p]) + 1, Len(journal)), written)
    BY <1>6, PieceTail DEF IdInv
  <2>2. \A q \in Process : Piece(first[q], written)' /\ Piece(rest[q], written)'
    BY <1>1, <1>5, <1>6, <1>9, <2>1 DEF IdInv, CompactReadTail
  <2> QED BY <1>1, <1>2, <1>4, <1>9, <2>2 DEF IdInv, CompactReadTail, disk
<1>10. CASE CompactWriteJournal(p)
  BY <1>1, <1>2, <1>4, <1>5, <1>6, <1>10 DEF IdInv, CompactWriteJournal
<1>11. CASE ReplaceFails(p)
  BY <1>1, <1>2, <1>4, <1>5, <1>6, <1>11 DEF IdInv, ReplaceFails, DropJob, disk
<1> QED BY <1>7, <1>8, <1>9, <1>10, <1>11

\* A process dies with what it had not written yet.
LEMMA IdCrash ==
    ASSUME TypeOK, IdInv, NEW p \in Process, Crash(p)
    PROVE  IdInv'
<1>1. /\ queue' = [queue EXCEPT ![p] = <<>>] /\ rec' = [rec EXCEPT ![p] = <<>>]
      /\ writer' = [writer EXCEPT ![p] = "idle"]
      /\ first' = [first EXCEPT ![p] = <<>>] /\ rest' = [rest EXCEPT ![p] = <<>>]
      /\ UNCHANGED <<journal, snapshot, written, ids>>
  BY DEF Crash, DropJob, disk, history
<1>2. /\ rec \in [Process -> Seq(Record)] /\ queue \in [Process -> Seq(Record)]
      /\ writer \in [Process -> WriterStep] /\ Writer \subseteq Process
      /\ first \in [Process -> Seq(Record)] /\ rest \in [Process -> Seq(Record)]
      /\ ids \in Nat /\ written \in Seq(Record)
  BY StoreAssumption, SMTT(20) DEF TypeOK, Process
<1>3. WaitingOf' = [WaitingOf EXCEPT ![p] = <<>>]
  <2>1. <<>> \o <<>> = <<>>
    OBVIOUS
  <2>2. \A q \in Writer : Waiting(q)' = IF q = p THEN <<>> ELSE WaitingOf[q]
    BY <1>1, <1>2, <2>1 DEF Waiting, WaitingOf
  <2> QED BY <2>2 DEF WaitingOf
<1>4. Unique(WaitingOf, written, ids)'
  BY <1>1, <1>2, <1>3, WaitingType, UniqueDrop DEF IdInv
<1>5. \A q \in Writer : OneTaken(q)'
  <2>1. \A q \in Writer : OneTaken(q)
    BY DEF IdInv
  <2> QED BY <2>1, <1>1, <1>2 DEF OneTaken
<1>6. Piece(<<>>, written)
  BY DEF Piece
<1> QED BY <1>1, <1>2, <1>4, <1>5, <1>6 DEF IdInv

\* Every step keeps the identities: inductive.
LEMMA IdStep == TypeOK /\ IdInv /\ [Next]_vars => IdInv'
<1> SUFFICES ASSUME TypeOK, IdInv, [Next]_vars PROVE IdInv'
  OBVIOUS
<1>1. CASE UNCHANGED vars
  BY <1>1, IdIdle DEF vars, disk, writerVars, job, bounds, history
<1>2. ASSUME NEW p \in Process, Open(p) \/ Loading(p) \/ Sync(p) PROVE IdInv'
  BY <1>2, IdIdle DEF Loading, Sync, Open, LoadJournal, LoadSnapshot, SyncReload, SyncGrown,
                      SyncTail, disk, writerVars, job, bounds, history
<1>3. ASSUME NEW p \in Writer, NEW kinds \in Calls, Record_(p, kinds) PROVE IdInv'
  BY <1>3, IdRequest
<1>4. ASSUME NEW p \in Writer,
             \/ WaitOver(p) \/ PushOwn(p) \/ PositionUnknown(p) \/ Acquire(p) \/ AcquireFails(p)
             \/ FindStale(p) \/ BreakLock(p) \/ Unlock(p) \/ CompactMergeJournal(p)
             \/ CompactMergeSnapshot(p)
      PROVE  IdInv'
  <2>1. UNCHANGED <<journal, snapshot, queue, rec, first, rest, written, ids>>
    BY <1>4 DEF WaitOver, PushOwn, PositionUnknown, Acquire, AcquireFails, FindStale, BreakLock, Unlock,
                CompactMergeJournal, CompactMergeSnapshot, disk, job, bounds, history
  <2>2. \A q \in Writer : writer'[q] \in {"waiting", "appending"} <=> writer[q] \in {"waiting", "appending"}
    BY <1>4 DEF WaitOver, PushOwn, PositionUnknown, Acquire, AcquireFails, FindStale, BreakLock, Unlock,
                CompactMergeJournal, CompactMergeSnapshot, WriterGoes, TypeOK, Process
  <2> QED BY <2>1, <2>2, IdIdle
<1>5. CASE AgeLock
  BY <1>5, IdIdle DEF AgeLock, writerVars, job, bounds, history
<1> QED
  BY <1>1, <1>2, <1>3, <1>4, <1>5, IdReceive, IdAppend, IdAppendFails, IdCompact, IdCrash,
     StoreAssumption
  DEF Next, WriterThread, Compact, Process

\* The initial state has no records.
LEMMA IdInit == Init => IdInv
<1> SUFFICES ASSUME Init PROVE IdInv
  OBVIOUS
<1>1. \A p \in Writer : WaitingOf[p] = <<>>
  <2>1. <<>> \o <<>> = <<>>
    OBVIOUS
  <2> QED BY <2>1 DEF Init, WaitingOf, Waiting, Process
<1>2. Unique(WaitingOf, written, ids)
  BY <1>1 DEF Unique, Init
<1> QED BY <1>2 DEF Init, IdInv, OneTaken, Piece, Drawn, NoSnapshot, Process

-----------------------------------------------------------------------------
(* The disk.  Where the writer thread stands in compact, its job still     *)
(* leads to what was written, except for the records whose append fell     *)
(* into a blind spot.                                                      *)

Alone == \A p, q \in Writer : p = q

\* What every record written so far comes to.
Expected == Replay(EmptyModel, written, 1..Len(written))

\* No record numbered n fell into a blind spot.
Certain(n) == \A r \in exposed : r.id # n

RightView(m) == \A n \in Id : Certain(n) => m[n] = Expected[n]

Begins(s, t) == Len(s) <= Len(t) /\ \A k \in 1..Len(s) : s[k] = t[k]

\* The records of j the snapshot stands for, as load_all sees it.
Skipped(j, snap) == IF StillThere(j, snap) THEN snap.consumed ELSE 0

\* The journal was truncated after the snapshot was written: its first record is gone.
Passed(j, snap) ==
    /\ snap.consumed > 0 /\ 1 \in 1..Len(snap.prefix)
    /\ \A k \in 1..Len(j) : j[k] # snap.prefix[1]

\* The records of s past place a fell into a blind spot.
ExposedFrom(s, a) == \A k \in 1..Len(s) : k > a => s[k] \in exposed

JobInv(q) ==
    /\ writer[q] = "mergeJournal" =>
           Begins(first[q], journal) /\ ExposedFrom(journal, Len(first[q]))
    /\ writer[q] = "mergeSnapshot" =>
           /\ Begins(first[q], again[q]) /\ Begins(again[q], journal)
           /\ ExposedFrom(again[q], Len(first[q]))
           /\ Skipped(again[q], snapshot) = Skipped(journal, snapshot)
    /\ writer[q] = "writeSnapshot" =>
           /\ Begins(first[q], journal)
           /\ RightView(Replay(merged[q], journal, Len(first[q])+1 .. Len(journal)))
    /\ writer[q] = "readTail" =>
           /\ Begins(first[q], journal) /\ StillThere(journal, snapshot)
           /\ snapshot.consumed = Len(first[q])
    /\ writer[q] = "writeJournal" =>
           /\ StillThere(journal, snapshot)
           /\ snapshot.consumed + Len(rest[q]) <= Len(journal)
           /\ \A k \in 1..Len(rest[q]) : rest[q][k] = journal[snapshot.consumed + k]
           /\ ExposedFrom(journal, snapshot.consumed + Len(rest[q]))

Calm == (~broken \/ Alone) /\ \A r \in exposed : Choice(r)

DiskRight ==
    /\ RightView(DiskView)
    /\ StillThere(journal, snapshot) \/ Passed(journal, snapshot)
    /\ \A q \in Writer : JobInv(q)

\* What one more written record makes of a model.
After(m, x) ==
    IF IsWipe(x) THEN EmptyModel ELSE [n \in Id |-> IF n = x.id THEN m[n] + 1 ELSE m[n]]

\* One more record at the end is applied last.
LEMMA ReplayLast ==
    ASSUME NEW m \in Model, NEW s \in Seq(Record), NEW x \in Record, NEW a \in Nat, a <= Len(s)
    PROVE  Replay(m, s \o <<x>>, a + 1 .. Len(s \o <<x>>)) = After(Replay(m, s, a + 1 .. Len(s)), x)
<1> DEFINE t == s \o <<x>>
           l == Len(s)
           mid == Replay(m, t, a + 1 .. l)
<1>1. l \in Nat /\ Len(t) = l + 1 /\ t[l + 1] = x /\ \A k \in 1..l : t[k] = s[k]
  OBVIOUS
<1> HIDE DEF t, l
<1>2. mid \in Model
  BY <1>1, ReplayIsModel
<1>3. mid = Replay(m, s, a + 1 .. l)
  <2>1. \A k \in a + 1 .. l : t[k] = s[k]
    BY <1>1
  <2> QED BY <2>1, ReplaySame
<1>4. Replay(mid, t, l + 1 .. l + 1) = Replay(m, t, a + 1 .. l + 1)
  <2>1. a + 1 \in Int /\ l \in Int /\ l + 1 \in Int /\ a + 1 <= l + 1 /\ l <= l + 1
    BY <1>1 DEF l
  <2>2. \A i, j, k \in Int : i <= j + 1 /\ j <= k =>
            Replay(Replay(m, t, i..j), t, j+1..k) = Replay(m, t, i..k)
    BY ReplaySplit
  <2> QED BY <2>1, <2>2
<1> HIDE DEF mid
<1>5. Replay(mid, t, l + 1 .. l + 1) = After(mid, x)
  <2>1. l + 1 \in Int
    BY <1>1
  <2>2. /\ IsWipe(t[l + 1]) => Replay(mid, t, l + 1 .. l + 1) = EmptyModel
        /\ ~IsWipe(t[l + 1]) => Replay(mid, t, l + 1 .. l + 1) =
               [n \in Id |-> IF n = t[l + 1].id THEN mid[n] + 1 ELSE mid[n]]
    <3>1. \A k \in Int : /\ IsWipe(t[k]) => Replay(mid, t, k..k) = EmptyModel
                         /\ ~IsWipe(t[k]) => Replay(mid, t, k..k) =
                                [n \in Id |-> IF n = t[k].id THEN mid[n] + 1 ELSE mid[n]]
      BY <1>2, ReplayOne, ZenonT(30)
    <3> QED BY <2>1, <3>1
  <2> QED BY <1>1, <2>2 DEF After
<1> QED BY <1>1, <1>3, <1>4, <1>5 DEF t, l

\* Models that agree on a record still do after one more.
LEMMA AfterOnEqual ==
    ASSUME NEW m, NEW l, NEW x, NEW n \in Id, m[n] = l[n]
    PROVE  After(m, x)[n] = After(l, x)[n]
BY DEF After

\* Sequences with the same first records have the same hashed prefix.
LEMMA PrefixSame ==
    ASSUME NEW s \in Seq(Record), NEW t \in Seq(Record), NEW n \in Nat,
           n <= Len(s), n <= Len(t), \A k \in 1..n : s[k] = t[k]
    PROVE  PrefixOf(s, n) = PrefixOf(t, n)
<1> DEFINE c == MinOf(n, PrefixCap)
           a == PrefixOf(s, n)
           b == PrefixOf(t, n)
<1>1. /\ a \in Seq(Record) /\ Len(a) = c /\ c \in Nat /\ c <= n
      /\ \A k \in 1..c : a[k] = s[k]
  BY PrefixIs
<1>2. /\ b \in Seq(Record) /\ Len(b) = c
      /\ \A k \in 1..c : b[k] = t[k]
  BY PrefixIs
<1> HIDE DEF a, b, c
<1>3. \A k \in 1..c : a[k] = b[k]
  BY <1>1, <1>2
<1>4. a = b
  BY <1>1, <1>2, <1>3, SeqEqual
<1> QED BY <1>4 DEF a, b

\* A snapshot that fits a journal fits every longer one.
LEMMA StillThereLonger ==
    ASSUME NEW s \in Seq(Record), NEW t \in Seq(Record), NEW snap \in SnapshotType,
           Begins(s, t), StillThere(s, snap)
    PROVE  StillThere(t, snap)
<1>1. snap.consumed \in Nat /\ Len(s) \in Nat /\ Len(t) \in Nat
  BY DEF SnapshotType
<1>2. snap.consumed <= Len(s) /\ snap.consumed <= Len(t) /\ \A k \in 1..snap.consumed : s[k] = t[k]
  BY <1>1 DEF StillThere, Begins
<1>3. PrefixOf(s, snap.consumed) = PrefixOf(t, snap.consumed)
  BY <1>1, <1>2, PrefixSame
<1> QED BY <1>2, <1>3 DEF StillThere

\* A snapshot that fits stands for the journal's first record, if for any.
LEMMA StillThereFirst ==
    ASSUME NEW s \in Seq(Record), NEW snap \in SnapshotType, StillThere(s, snap), snap.consumed > 0
    PROVE  1 \in 1..Len(snap.prefix) /\ 1 \in 1..Len(s) /\ snap.prefix[1] = s[1]
<1>1. snap.consumed \in Nat /\ snap.consumed <= Len(s) /\ snap.prefix = PrefixOf(s, snap.consumed)
  BY DEF SnapshotType, StillThere
<1> DEFINE c == MinOf(snap.consumed, PrefixCap)
<1>2. /\ Len(PrefixOf(s, snap.consumed)) = c
      /\ \A k \in 1..c : k \in 1..Len(s) /\ PrefixOf(s, snap.consumed)[k] = s[k]
      /\ 1 \in 1..c
  BY <1>1, PrefixIs
<1> HIDE DEF c
<1> QED BY <1>1, <1>2

\* A journal that was truncated is not taken for the one the snapshot stands for.
LEMMA PassedIsGone ==
    ASSUME NEW s \in Seq(Record), NEW snap \in SnapshotType, Passed(s, snap)
    PROVE  ~StillThere(s, snap)
<1> SUFFICES ASSUME StillThere(s, snap) PROVE FALSE
  OBVIOUS
<1>1. 1 \in 1..Len(s) /\ snap.prefix[1] = s[1]
  BY StillThereFirst DEF Passed
<1> QED BY <1>1 DEF Passed

\* A snapshot of nothing fits every journal.
LEMMA StillThereNothing ==
    ASSUME NEW s \in Seq(Record), NEW t \in Seq(Record), NEW snap \in SnapshotType,
           snap.consumed = 0, StillThere(s, snap)
    PROVE  StillThere(t, snap)
<1>1. 0 \in Nat /\ 0 <= Len(s) /\ 0 <= Len(t) /\ \A k \in 1..0 : s[k] = t[k]
  OBVIOUS
<1>2. PrefixOf(s, 0) = PrefixOf(t, 0)
  BY <1>1, PrefixSame
<1> QED BY <1>1, <1>2 DEF StillThere

\* Exposed records past place a do not change what a certain one counts.
LEMMA ExposedChangeNothing ==
    ASSUME NEW m \in Model, NEW s \in Seq(Record), NEW a \in Nat, NEW b \in Nat, b <= Len(s),
           ExposedFrom(s, a), \A r \in exposed : Choice(r), NEW n \in Id, Certain(n)
    PROVE  Replay(m, s, a + 1 .. b)[n] = m[n]
<1>1. \A k \in a + 1 .. b : k \in 1..Len(s) /\ k > a
  OBVIOUS
<1>2. \A k \in a + 1 .. b : s[k] \in exposed
  BY <1>1 DEF ExposedFrom
<1>3. \A k \in a + 1 .. b : ~IsWipe(s[k]) /\ s[k].id # n
  BY <1>2 DEF Choice, Certain
<1>4. a + 1 \in Int /\ b \in Int
  OBVIOUS
<1>5. \A i, j \in Int : (\A k \in i..j : ~IsWipe(s[k]) /\ s[k].id # n) => Replay(m, s, i..j)[n] = m[n]
  BY ReplayWithout
<1> QED BY <1>3, <1>4, <1>5

JobStep == {"mergeJournal", "mergeSnapshot", "writeSnapshot", "readTail", "writeJournal"}

\* A process in a step of its job is inside compact.
LEMMA JobIsCompacting == JobStep \subseteq Compacting
BY DEF JobStep, Compacting

\* A process outside its job's steps has nothing to show.
LEMMA NoJob ==
    ASSUME NEW q, writer[q] \notin JobStep
    PROVE  JobInv(q)
BY DEF JobInv, JobStep

\* The types of what a compaction reads and writes.
LEMMA DiskTypes ==
    ASSUME TypeOK
    PROVE  /\ journal \in Seq(Record) /\ Len(journal) \in Nat
           /\ written \in Seq(Record) /\ Len(written) \in Nat
           /\ snapshot \in SnapshotType /\ snapshot.model \in Model /\ snapshot.consumed \in Nat
           /\ snapshot.prefix \in Seq(Record)
           /\ \A q \in Writer : /\ q \in Process
                                /\ first[q] \in Seq(Record) /\ Len(first[q]) \in Nat
                                /\ again[q] \in Seq(Record) /\ Len(again[q]) \in Nat
                                /\ rest[q] \in Seq(Record) /\ Len(rest[q]) \in Nat
                                /\ merged[q] \in Model
<1>1. snapshot \in SnapshotType /\ snapshot.model \in Model /\ snapshot.consumed \in Nat
      /\ snapshot.prefix \in Seq(Record)
  BY DEF TypeOK, SnapshotType
<1>2. journal \in Seq(Record) /\ written \in Seq(Record)
  BY DEF TypeOK
<1>3. \A q \in Writer : /\ q \in Process /\ first[q] \in Seq(Record) /\ again[q] \in Seq(Record)
                        /\ rest[q] \in Seq(Record) /\ merged[q] \in Model
  BY DEF TypeOK, Process
<1> QED BY <1>1, <1>2, <1>3

\* Steps that leave the disk, and every running job, as they were.
LEMMA DiskIdle ==
    ASSUME DiskRight, UNCHANGED <<journal, snapshot, written, exposed>>,
           \A q \in Writer : writer'[q] \in JobStep =>
               /\ writer'[q] = writer[q] /\ first'[q] = first[q] /\ again'[q] = again[q]
               /\ merged'[q] = merged[q] /\ rest'[q] = rest[q]
    PROVE  DiskRight'
<1>1. ASSUME NEW q \in Writer PROVE JobInv(q)'
  <2>1. CASE writer'[q] \in JobStep
    <3>1. JobInv(q)
      BY DEF DiskRight
    <3>2. /\ writer'[q] = writer[q] /\ first'[q] = first[q] /\ again'[q] = again[q]
          /\ merged'[q] = merged[q] /\ rest'[q] = rest[q]
      BY <2>1
    <3>3. CASE writer[q] \in {"mergeJournal", "mergeSnapshot"}
      BY <3>1, <3>2, <3>3 DEF JobInv, ExposedFrom
    <3>4. CASE writer[q] = "writeSnapshot"
      BY <3>1, <3>2, <3>4 DEF JobInv, RightView, Certain, Expected
    <3>5. CASE writer[q] \in {"readTail", "writeJournal"}
      BY <3>1, <3>2, <3>5 DEF JobInv, ExposedFrom
    <3> QED BY <2>1, <3>2, <3>3, <3>4, <3>5 DEF JobStep
  <2>2. CASE writer'[q] \notin JobStep
    BY <2>2 DEF JobInv, JobStep
  <2> QED BY <2>1, <2>2
<1>2. RightView(DiskView)'
  BY DEF DiskRight, RightView, Certain, Expected, DiskView
<1> QED BY <1>1, <1>2 DEF DiskRight

\* A written record moves the disk's view and what is expected of it alike.
LEMMA RightAfter ==
    ASSUME NEW m, NEW l, NEW x \in Record, RightView(m), exposed \subseteq exposed',
           Expected' = After(Expected, x), l = After(m, x)
    PROVE  \A n \in Id : Certain(n)' => l[n] = Expected'[n]
<1> SUFFICES ASSUME NEW n \in Id, Certain(n)' PROVE l[n] = Expected'[n]
  OBVIOUS
<1>1. Certain(n)
  BY DEF Certain
<1>2. m[n] = Expected[n]
  BY <1>1 DEF RightView
<1> QED BY <1>2, AfterOnEqual

\* The append, whatever compaction is running.
LEMMA DiskAppend ==
    ASSUME TypeOK, IdInv, DiskRight, NEW p \in Writer, AppendRecord(p)
    PROVE  DiskRight'
<1>1. PICK x \in Record : /\ rec[p] = <<x>>
                          /\ journal' = journal \o <<x>> /\ written' = written \o <<x>>
                          /\ \A k \in 1..Len(written) : written[k].id # x.id
  BY TakenIsFresh
<1>2. /\ UNCHANGED <<snapshot, first, again, merged, rest>>
      /\ \A q \in Writer : writer'[q] \in JobStep => writer'[q] = writer[q]
      /\ exposed \subseteq exposed'
      /\ \A q \in Writer : writer[q] \in {"mergeJournal", "writeJournal"} => x \in exposed'
  <2>1. Range(rec[p]) = {x}
    BY <1>1 DEF Range
  <2>2. exposed' = IF \E q \in Writer : writer[q] \in {"mergeJournal", "writeJournal"}
                   THEN exposed \union {x} ELSE exposed
    BY <2>1 DEF AppendRecord
  <2>3. UNCHANGED <<snapshot, first, again, merged, rest>>
    BY DEF AppendRecord, job
  <2>4. \A q \in Writer : writer'[q] \in JobStep => writer'[q] = writer[q]
    BY DEF AppendRecord, WriterGoes, TypeOK, Process, JobStep
  <2> QED BY <2>2, <2>3, <2>4
<1>t. TypeOK
  OBVIOUS
<1>3. /\ journal' \in Seq(Record) /\ Len(journal') = Len(journal) + 1 /\ journal'[Len(journal) + 1] = x
      /\ Begins(journal, journal') /\ \A k \in 1..Len(journal) : journal'[k] = journal[k]
  BY <1>1, <1>t, DiskTypes DEF Begins
<1>4. \A m \in Model, a \in Nat : a <= Len(journal) =>
          Replay(m, journal', a + 1 .. Len(journal')) = After(Replay(m, journal, a + 1 .. Len(journal)), x)
  BY <1>1, <1>t, DiskTypes, ReplayLast
<1>5. Expected' = After(Expected, x)
  <2>1. 0 \in Nat /\ 0 <= Len(written) /\ EmptyModel \in Model
    BY <1>t, DiskTypes, EmptyModelType
  <2>2. Replay(EmptyModel, written \o <<x>>, 0 + 1 .. Len(written \o <<x>>))
            = After(Replay(EmptyModel, written, 0 + 1 .. Len(written)), x)
    BY <1>t, <2>1, DiskTypes, ReplayLast
  <2> QED BY <1>1, <2>2 DEF Expected
<1>6. /\ StillThere(journal, snapshot) => StillThere(journal', snapshot)
      /\ ~StillThere(journal, snapshot) => Passed(journal', snapshot) /\ ~StillThere(journal', snapshot)
  <2>1. StillThere(journal, snapshot) => StillThere(journal', snapshot)
    BY <1>3, <1>t, DiskTypes, StillThereLonger
  <2>2. ASSUME ~StillThere(journal, snapshot) PROVE Passed(journal', snapshot)
    <3>1. Passed(journal, snapshot)
      BY <2>2 DEF DiskRight
    <3>2. x # snapshot.prefix[1]
      BY <1>1, <3>1 DEF IdInv, Drawn, Passed
    <3>3. \A k \in 1..Len(journal') : k \in 1..Len(journal) \/ k = Len(journal) + 1
      BY <1>3, <1>t, DiskTypes
    <3> QED BY <1>3, <3>1, <3>2, <3>3 DEF Passed
  <2>3. Passed(journal', snapshot) => ~StillThere(journal', snapshot)
    BY <1>3, <1>t, DiskTypes, PassedIsGone
  <2> QED BY <2>1, <2>2, <2>3
<1>7. Skipped(journal', snapshot) = Skipped(journal, snapshot) /\ Skipped(journal, snapshot) \in Nat
      /\ Skipped(journal, snapshot) <= Len(journal)
  BY <1>6, <1>t, DiskTypes DEF Skipped, StillThere
<1>8. RightView(DiskView)'
  <2>1. DiskView' = After(DiskView, x)
    BY <1>2, <1>4, <1>7, <1>t, DiskTypes DEF DiskView, LoadAll, Skipped
  <2>2. \A n \in Id : Certain(n)' => DiskView'[n] = Expected'[n]
    BY <1>2, <1>5, <2>1, RightAfter DEF DiskRight
  <2> QED BY <2>2 DEF RightView
<1>9. ASSUME NEW q \in Writer PROVE JobInv(q)'
  <2>0. /\ first[q] \in Seq(Record) /\ again[q] \in Seq(Record) /\ rest[q] \in Seq(Record)
        /\ Len(first[q]) \in Nat /\ Len(again[q]) \in Nat /\ Len(rest[q]) \in Nat /\ Len(journal) \in Nat
        /\ merged[q] \in Model /\ snapshot.consumed \in Nat
    BY <1>t, DiskTypes
  <2>1. \A s \in Seq(Record) : Begins(s, journal) => Begins(s, journal')
    BY <1>3, <2>0 DEF Begins
  <2>2. JobInv(q)
    BY DEF DiskRight
  <2>e. \A a \in Nat : ExposedFrom(journal, a) /\ x \in exposed' =>
            \A k \in 1..Len(journal') : k > a => journal'[k] \in exposed'
    <3> SUFFICES ASSUME NEW a \in Nat, ExposedFrom(journal, a), x \in exposed',
                        NEW k \in 1..Len(journal'), k > a
                 PROVE  journal'[k] \in exposed'
      OBVIOUS
    <3>1. k \in 1..Len(journal) \/ k = Len(journal) + 1
      BY <1>3, <2>0
    <3> QED BY <1>2, <1>3, <3>1 DEF ExposedFrom
  <2>3. ASSUME writer'[q] = "mergeJournal"
        PROVE  (Begins(first[q], journal) /\ ExposedFrom(journal, Len(first[q])))'
    <3>1. writer[q] = "mergeJournal"
      BY <1>2, <2>3 DEF JobStep
    <3> QED BY <1>2, <2>0, <2>1, <2>2, <2>e, <3>1 DEF JobInv, ExposedFrom
  <2>4. ASSUME writer'[q] = "mergeSnapshot"
        PROVE  (/\ Begins(first[q], again[q]) /\ Begins(again[q], journal)
                /\ ExposedFrom(again[q], Len(first[q]))
                /\ Skipped(again[q], snapshot) = Skipped(journal, snapshot))'
    <3>1. writer[q] = "mergeSnapshot"
      BY <1>2, <2>4 DEF JobStep
    <3> QED BY <1>2, <1>7, <2>0, <2>1, <2>2, <3>1 DEF JobInv, ExposedFrom
  <2>5. ASSUME writer'[q] = "writeSnapshot"
        PROVE  (/\ Begins(first[q], journal)
                /\ RightView(Replay(merged[q], journal, Len(first[q])+1 .. Len(journal))))'
    <3>1. writer[q] = "writeSnapshot"
      BY <1>2, <2>5 DEF JobStep
    <3>2. Begins(first[q], journal) /\ Len(first[q]) <= Len(journal)
      BY <2>2, <3>1 DEF JobInv, Begins
    <3>3. Replay(merged[q], journal', Len(first[q])+1 .. Len(journal'))
              = After(Replay(merged[q], journal, Len(first[q])+1 .. Len(journal)), x)
      BY <1>4, <2>0, <3>2
    <3>4. RightView(Replay(merged[q], journal, Len(first[q])+1 .. Len(journal)))
      BY <2>2, <3>1 DEF JobInv
    <3>5. \A n \in Id : Certain(n)' =>
              Replay(merged[q], journal', Len(first[q])+1 .. Len(journal'))[n] = Expected'[n]
      BY <1>2, <1>5, <3>3, <3>4, RightAfter
    <3> QED BY <1>2, <2>0, <2>1, <3>2, <3>5 DEF RightView
  <2>6. ASSUME writer'[q] = "readTail"
        PROVE  (/\ Begins(first[q], journal) /\ StillThere(journal, snapshot)
                /\ snapshot.consumed = Len(first[q]))'
    <3>1. writer[q] = "readTail"
      BY <1>2, <2>6 DEF JobStep
    <3> QED BY <1>2, <1>6, <2>0, <2>1, <2>2, <3>1 DEF JobInv
  <2>7. ASSUME writer'[q] = "writeJournal"
        PROVE  (/\ StillThere(journal, snapshot)
                /\ snapshot.consumed + Len(rest[q]) <= Len(journal)
                /\ \A k \in 1..Len(rest[q]) : rest[q][k] = journal[snapshot.consumed + k]
                /\ ExposedFrom(journal, snapshot.consumed + Len(rest[q])))'
    <3>1. writer[q] = "writeJournal"
      BY <1>2, <2>7 DEF JobStep
    <3>2. /\ StillThere(journal, snapshot)
          /\ snapshot.consumed + Len(rest[q]) <= Len(journal)
          /\ \A k \in 1..Len(rest[q]) : rest[q][k] = journal[snapshot.consumed + k]
          /\ ExposedFrom(journal, snapshot.consumed + Len(rest[q]))
      BY <2>2, <3>1 DEF JobInv
    <3>3. \A k \in 1..Len(rest[q]) : rest[q][k] = journal'[snapshot.consumed + k]
      <4> SUFFICES ASSUME NEW k \in 1..Len(rest[q]) PROVE rest[q][k] = journal'[snapshot.consumed + k]
        OBVIOUS
      <4>1. snapshot.consumed + k \in 1..Len(journal)
        BY <2>0, <3>2
      <4> QED BY <1>3, <3>2, <4>1
    <3>4. snapshot.consumed + Len(rest[q]) \in Nat /\ snapshot.consumed + Len(rest[q]) <= Len(journal')
      BY <1>3, <2>0, <3>2
    <3>5. \A k \in 1..Len(journal') : k > snapshot.consumed + Len(rest[q]) => journal'[k] \in exposed'
      BY <1>2, <2>e, <3>1, <3>2, <3>4
    <3> QED BY <1>2, <1>6, <3>2, <3>3, <3>4, <3>5 DEF ExposedFrom
  <2> QED BY <2>3, <2>4, <2>5, <2>6, <2>7 DEF JobInv
<1>10. (StillThere(journal, snapshot) \/ Passed(journal, snapshot))'
  BY <1>2, <1>6
<1> QED BY <1>8, <1>9, <1>10 DEF DiskRight

\* compact reads the journal, and load_all reads it again.
LEMMA DiskReads ==
    ASSUME CompactionInv, Calm, DiskRight, NEW p \in Writer, CompactRead(p) \/ CompactMergeJournal(p)
    PROVE  DiskRight'
<1>1. UNCHANGED <<journal, snapshot, written, exposed, merged, rest>>
  BY DEF CompactRead, CompactMergeJournal, disk, history
<1>2. TypeOK
  BY DEF CompactionInv
<1>3. Begins(journal, journal) /\ ExposedFrom(journal, Len(journal))
  BY <1>2, DiskTypes DEF Begins, ExposedFrom
<1>4. JobInv(p)'
  <2>1. CASE CompactRead(p)
    <3>1. writer'[p] = "mergeJournal" /\ first'[p] = journal
      BY <1>2, <2>1 DEF CompactRead, WriterGoes, TypeOK, Process
    <3> QED BY <1>1, <1>3, <3>1 DEF JobInv, ExposedFrom
  <2>2. CASE CompactMergeJournal(p)
    <3>1. writer'[p] = "mergeSnapshot" /\ writer[p] = "mergeJournal" /\ again'[p] = journal /\ first' = first
      BY <1>2, <2>2 DEF CompactMergeJournal, WriterGoes, TypeOK, Process
    <3>2. Begins(first[p], journal) /\ ExposedFrom(journal, Len(first[p]))
      BY <3>1 DEF DiskRight, JobInv
    <3> QED BY <1>1, <1>3, <3>1, <3>2 DEF JobInv, ExposedFrom
  <2> QED BY <2>1, <2>2
<1>5. ASSUME NEW q \in Writer, q # p PROVE JobInv(q)'
  <2>1. writer'[q] = writer[q] /\ first'[q] = first[q] /\ again'[q] = again[q]
    BY <1>2, <1>5 DEF CompactRead, CompactMergeJournal, WriterGoes, TypeOK, Process
  <2>2. JobInv(q)
    BY DEF DiskRight
  <2> QED BY <1>1, <2>1, <2>2 DEF JobInv, Begins, ExposedFrom, RightView, Certain, Expected
<1>6. RightView(DiskView)'
  BY <1>1 DEF DiskRight, RightView, Certain, Expected, DiskView
<1> QED BY <1>1, <1>4, <1>5, <1>6 DEF DiskRight

\* A compaction merges what it read into the snapshot it read.
LEMMA DiskMerge ==
    ASSUME CompactionInv, Calm, DiskRight, NEW p \in Writer, CompactMergeSnapshot(p)
    PROVE  DiskRight'
<1>1. /\ UNCHANGED <<journal, snapshot, written, exposed, first, rest>>
      /\ writer[p] = "mergeSnapshot"
      /\ \A q \in Writer : writer'[q] = IF q = p THEN "writeSnapshot" ELSE writer[q]
      /\ \A q \in Writer : q # p => merged'[q] = merged[q] /\ again'[q] = again[q]
      /\ merged'[p] = LoadAll(again[p], snapshot)
  BY DEF CompactMergeSnapshot, CompactionInv, TypeOK, Process, WriterGoes, disk, history
<1>t. TypeOK
  BY DEF CompactionInv
<1>2. /\ journal \in Seq(Record) /\ Len(journal) \in Nat /\ first[p] \in Seq(Record) /\ Len(first[p]) \in Nat
      /\ again[p] \in Seq(Record) /\ Len(again[p]) \in Nat
      /\ snapshot \in SnapshotType /\ snapshot.model \in Model /\ snapshot.consumed \in Nat
  BY <1>t, DiskTypes
<1> DEFINE a == Len(again[p])
           f == Len(first[p])
           l == Len(journal)
           c == Skipped(journal, snapshot)
           m == LoadAll(again[p], snapshot)
<1>3. /\ Begins(first[p], again[p]) /\ Begins(again[p], journal)
      /\ ExposedFrom(again[p], f) /\ Skipped(again[p], snapshot) = c
  BY <1>1 DEF DiskRight, JobInv
<1>4. f \in Nat /\ a \in Nat /\ l \in Nat /\ c \in Nat /\ f <= a /\ a <= l /\ c <= a
  BY <1>2, <1>3 DEF Begins, Skipped, StillThere
<1>5. \A k \in 1..a : again[p][k] = journal[k]
  BY <1>3 DEF Begins
<1>6. m = Replay(snapshot.model, journal, c + 1 .. a)
  <2>1. m = Replay(snapshot.model, again[p], c + 1 .. a)
    BY <1>3 DEF LoadAll, Skipped
  <2>2. \A k \in c + 1 .. a : again[p][k] = journal[k]
    BY <1>4, <1>5
  <2>3. \A K : (\A k \in K : again[p][k] = journal[k]) =>
            Replay(snapshot.model, again[p], K) = Replay(snapshot.model, journal, K)
    BY ReplaySame
  <2> QED BY <2>1, <2>2, <2>3
<1>7. m \in Model
  BY <1>2, LoadAllType
<1>8. DiskView = Replay(snapshot.model, journal, c + 1 .. l)
  BY DEF DiskView, LoadAll, Skipped
<1> HIDE DEF a, f, l, c, m
<1>9. \A s \in Model : \A i, j, k \in Int : i <= j + 1 /\ j <= k =>
          Replay(Replay(s, journal, i..j), journal, j+1..k) = Replay(s, journal, i..k)
  BY ReplaySplit
<1>10. ASSUME NEW n \in Id, Certain(n)
       PROVE  Replay(m, journal, f + 1 .. l)[n] = Expected[n]
  <2>1. Replay(m, journal, f + 1 .. a)[n] = m[n]
    <3>1. \A i, j \in Int : (\A k \in i..j : ~IsWipe(journal[k]) /\ journal[k].id # n) =>
              Replay(m, journal, i..j)[n] = m[n]
      BY <1>7, ReplayWithout
    <3>2. ASSUME NEW k \in f + 1 .. a PROVE ~IsWipe(journal[k]) /\ journal[k].id # n
      <4>1. k \in 1..a /\ k > f
        BY <1>4
      <4>2. journal[k] \in exposed
        BY <1>3, <1>5, <4>1 DEF ExposedFrom, a
      <4> QED BY <1>10, <4>2 DEF Calm, Choice, Certain
    <3>3. f + 1 \in Int /\ a \in Int
      BY <1>4
    <3> QED BY <3>1, <3>2, <3>3
  <2>2. Replay(Replay(m, journal, f + 1 .. a), journal, a + 1 .. l)[n]
            = Replay(m, journal, a + 1 .. l)[n]
    BY <2>1, ReplayOnEqual
  <2>3. Replay(Replay(m, journal, f + 1 .. a), journal, a + 1 .. l) = Replay(m, journal, f + 1 .. l)
    BY <1>4, <1>7, <1>9
  <2>4. Replay(m, journal, a + 1 .. l) = DiskView
    BY <1>2, <1>4, <1>6, <1>8, <1>9
  <2>5. DiskView[n] = Expected[n]
    BY <1>10 DEF DiskRight, RightView
  <2> QED BY <2>2, <2>3, <2>4, <2>5
<1>11. JobInv(p)'
  <2>1. Begins(first[p], journal)
    BY <1>3, <1>4, <1>5 DEF Begins, a, f, l
  <2>2. RightView(Replay(m, journal, f + 1 .. l))
    BY <1>10 DEF RightView
  <2>3. (RightView(Replay(merged[p], journal, Len(first[p])+1 .. Len(journal))))'
    BY <1>1, <2>2 DEF RightView, Certain, Expected, m, f, l
  <2> QED BY <1>1, <2>1, <2>3 DEF JobInv
<1>12. ASSUME NEW q \in Writer, q # p PROVE JobInv(q)'
  BY <1>1, <1>12 DEF DiskRight, JobInv, Begins, ExposedFrom, RightView, Certain, Expected
<1>13. RightView(DiskView)'
  BY <1>1 DEF DiskRight, RightView, Certain, Expected, DiskView
<1> QED BY <1>1, <1>11, <1>12, <1>13 DEF DiskRight

\* The merged model replaces the snapshot: the journal's records it stands for are skipped.
LEMMA DiskWriteSnapshot ==
    ASSUME CompactionInv, Calm, DiskRight, NEW p \in Writer, CompactWriteSnapshot(p)
    PROVE  DiskRight'
<1>t. TypeOK
  BY DEF CompactionInv
<1>1. /\ UNCHANGED <<journal, written, exposed, first, again, rest>>
      /\ writer[p] = "writeSnapshot"
      /\ \A q \in Writer : writer'[q] = IF q = p THEN "readTail" ELSE writer[q]
      /\ snapshot'.model = merged[p] /\ snapshot'.consumed = Len(first[p])
      /\ snapshot'.prefix = PrefixOf(first[p], Len(first[p]))
  BY <1>t DEF CompactWriteSnapshot, TypeOK, Process, WriterGoes, history
<1>2. /\ Begins(first[p], journal)
      /\ RightView(Replay(merged[p], journal, Len(first[p])+1 .. Len(journal)))
  BY <1>1 DEF DiskRight, JobInv
<1>3. /\ journal \in Seq(Record) /\ first[p] \in Seq(Record) /\ Len(first[p]) \in Nat
      /\ Len(first[p]) <= Len(first[p]) /\ Len(first[p]) <= Len(journal)
      /\ \A k \in 1..Len(first[p]) : first[p][k] = journal[k]
  BY <1>t, <1>2, DiskTypes DEF Begins
<1>4. StillThere(journal, snapshot)'
  <2>1. PrefixOf(first[p], Len(first[p])) = PrefixOf(journal, Len(first[p]))
    BY <1>3, PrefixSame
  <2> QED BY <1>1, <1>3, <2>1 DEF StillThere
<1>5. RightView(DiskView)'
  <2>1. DiskView' = Replay(merged[p], journal, Len(first[p])+1 .. Len(journal))
    BY <1>1, <1>4 DEF DiskView, LoadAll
  <2> QED BY <1>1, <1>2, <2>1 DEF RightView, Certain, Expected
<1>6. ASSUME NEW q \in Writer PROVE JobInv(q)'
  <2>1. CASE q = p
    BY <1>1, <1>2, <1>4, <2>1 DEF JobInv
  <2>2. CASE q # p
    <3>1. writer[q] \notin Compacting
      BY <1>1, <2>2 DEF Calm, Alone, CompactionInv, OneCompactor, Process, Compacting
    <3> QED BY <1>1, <2>2, <3>1 DEF JobInv, Compacting
  <2> QED BY <2>1, <2>2
<1> QED BY <1>4, <1>5, <1>6 DEF DiskRight

\* The records after the first read become the new journal.
LEMMA DiskReadTail ==
    ASSUME CompactionInv, Calm, DiskRight, NEW p \in Writer, CompactReadTail(p)
    PROVE  DiskRight'
<1>t. TypeOK
  BY DEF CompactionInv
<1>1. /\ UNCHANGED <<journal, snapshot, written, exposed, again, merged>>
      /\ writer[p] = "readTail"
      /\ \A q \in Writer : writer'[q] = IF q = p THEN "writeJournal" ELSE writer[q]
      /\ rest'[p] = SubSeq(journal, Len(first[p]) + 1, Len(journal))
      /\ \A q \in Writer : q # p => first'[q] = first[q] /\ rest'[q] = rest[q]
  BY <1>t DEF CompactReadTail, TypeOK, Process, WriterGoes, disk, history
<1>2. /\ Begins(first[p], journal) /\ StillThere(journal, snapshot)
      /\ snapshot.consumed = Len(first[p])
  BY <1>1 DEF DiskRight, JobInv
<1> DEFINE f == Len(first[p])
           l == Len(journal)
           t == SubSeq(journal, f + 1, l)
<1>3. f \in Nat /\ l \in Nat /\ f <= l /\ journal \in Seq(Record)
  BY <1>t, <1>2, DiskTypes DEF Begins
<1>4. f + Len(t) = l /\ \A k \in 1..Len(t) : t[k] = journal[f + k]
  <2> HIDE DEF f, l
  <2>1. f + 1 \in Int /\ l \in Int /\ \A i \in f + 1 .. l : i \in 1..Len(journal)
    BY <1>3 DEF l
  <2>2. \A i \in f + 1 .. l : journal[i] \in Record
    BY <1>3, <2>1
  <2>3. /\ Len(t) = IF f + 1 <= l THEN l - (f + 1) + 1 ELSE 0
        /\ \A i \in 1 .. l - (f + 1) + 1 : t[i] = journal[f + 1 + i - 1]
    BY <2>1, <2>2, SubSeqProperties
  <2> HIDE DEF t
  <2> QED BY <1>3, <2>3
<1>5. JobInv(p)'
  <2>1. writer'[p] = "writeJournal" /\ rest'[p] = t /\ journal' = journal /\ snapshot' = snapshot
    BY <1>1
  <2>2. StillThere(journal, snapshot) /\ snapshot.consumed = f
    BY <1>2
  <2>3. snapshot.consumed + Len(t) <= Len(journal) /\ \A k \in 1..Len(journal) : ~(k > snapshot.consumed + Len(t))
    <3>1. snapshot.consumed + Len(t) = Len(journal) /\ Len(journal) \in Nat
      BY <1>3, <1>4, <2>2
    <3> HIDE DEF f, l, t
    <3> QED BY <3>1
  <2>5. \A k \in 1..Len(t) : t[k] = journal[snapshot.consumed + k]
    BY <1>4, <2>2
  <2> HIDE DEF f, l, t
  <2> QED BY <2>1, <2>2, <2>3, <2>5 DEF JobInv, ExposedFrom
<1>6. ASSUME NEW q \in Writer, q # p PROVE JobInv(q)'
  <2>1. writer[q] \notin Compacting
    BY <1>1, <1>6 DEF Calm, Alone, CompactionInv, OneCompactor, Process, Compacting
  <2> QED BY <1>1, <1>6, <2>1 DEF JobInv, Compacting
<1>7. RightView(DiskView)'
  BY <1>1 DEF DiskRight, RightView, Certain, Expected, DiskView
<1> QED BY <1>1, <1>5, <1>6, <1>7 DEF DiskRight

\* The new journal replaces the old one: the snapshot no longer fits it, unless it is empty.
LEMMA DiskWriteJournal ==
    ASSUME CompactionInv, Calm, IdInv, DiskRight, NEW p \in Writer, CompactWriteJournal(p)
    PROVE  DiskRight'
<1>t. TypeOK
  BY DEF CompactionInv
<1>1. /\ UNCHANGED <<snapshot, written, exposed>> /\ journal' = rest[p]
      /\ writer[p] = "writeJournal"
      /\ \A q \in Writer : writer'[q] = IF q = p THEN "unlock" ELSE writer[q]
  BY <1>t DEF CompactWriteJournal, TypeOK, Process, WriterGoes, history
<1> DEFINE c == snapshot.consumed
           b == Len(rest[p])
           l == Len(journal)
           m == snapshot.model
<1>2. /\ StillThere(journal, snapshot) /\ c + b <= l
      /\ \A k \in 1..b : rest[p][k] = journal[c + k]
      /\ ExposedFrom(journal, c + b)
  BY <1>1 DEF DiskRight, JobInv
<1>3. /\ journal \in Seq(Record) /\ l \in Nat /\ rest[p] \in Seq(Record) /\ b \in Nat
      /\ snapshot \in SnapshotType /\ m \in Model /\ c \in Nat /\ c + b \in Nat
  BY <1>t, DiskTypes
<1>4. Skipped(rest[p], snapshot) = 0
      /\ (StillThere(rest[p], snapshot) \/ Passed(rest[p], snapshot))
  <2>1. CASE c = 0
    BY <1>2, <1>3, <2>1, StillThereNothing DEF Skipped
  <2>2. CASE c > 0
    <3>1. 1 \in 1..Len(snapshot.prefix) /\ 1 \in 1..l /\ snapshot.prefix[1] = journal[1]
      BY <1>2, <1>3, <2>2, StillThereFirst
    <3>2. \A k \in 1..b : c + k \in 1..l /\ c + k # 1
      BY <1>2, <1>3, <2>2
    <3>3. \A j, k \in 1..l : journal[j].id = journal[k].id => j = k
      BY DEF IdInv, Piece
    <3>4. \A k \in 1..b : rest[p][k] # snapshot.prefix[1]
      BY <1>2, <3>1, <3>2, <3>3
    <3>5. Passed(rest[p], snapshot)
      BY <2>2, <3>1, <3>4 DEF Passed
    <3> QED BY <1>3, <3>5, PassedIsGone DEF Skipped
  <2> QED BY <1>3, <2>1, <2>2
<1>5. DiskView' = Replay(m, journal, c + 1 .. c + b)
  <2>1. DiskView' = Replay(m, rest[p], 1 .. b)
    <3>1. DiskView' = Replay(m, rest[p], Skipped(rest[p], snapshot) + 1 .. b)
      BY <1>1 DEF DiskView, LoadAll, Skipped
    <3>2. 0 + 1 = 1
      OBVIOUS
    <3> QED BY <1>4, <3>1, <3>2
  <2>2. Replay(m, rest[p], 1 .. b) = Replay(m, journal, c + 1 .. c + b)
    <3> HIDE DEF m, c, b, l
    <3>1. m \in Model /\ c \in Nat /\ b \in Nat /\ \A k \in 1..b : rest[p][k] = journal[c + k]
      BY <1>2, <1>3
    <3>2. \A s, t : \A k \in Nat : (\A i \in 1..k : t[i] = s[c + i]) =>
              Replay(m, t, 1..k) = Replay(m, s, c+1..c+k)
      BY <3>1, ReplayShift
    <3> QED BY <3>1, <3>2
  <2> QED BY <2>1, <2>2
<1>6. DiskView = Replay(m, journal, c + 1 .. l)
  BY <1>2 DEF DiskView, LoadAll
<1> HIDE DEF b, c, l, m
<1>7. ASSUME NEW n \in Id, Certain(n) PROVE Replay(m, journal, c + 1 .. c + b)[n] = Expected[n]
  <2>1. Replay(Replay(m, journal, c + 1 .. c + b), journal, c + b + 1 .. l) = Replay(m, journal, c + 1 .. l)
    <3>1. \A i, j, k \in Int : i <= j + 1 /\ j <= k =>
              Replay(Replay(m, journal, i..j), journal, j+1..k) = Replay(m, journal, i..k)
      BY <1>3, ReplaySplit
    <3>2. c + 1 \in Int /\ c + b \in Int /\ l \in Int /\ c + 1 <= (c + b) + 1 /\ c + b <= l
      BY <1>2, <1>3
    <3> QED BY <3>1, <3>2
  <2>2. Replay(m, journal, c + 1 .. c + b) \in Model
    <3>1. c + 1 \in Int /\ c + b \in Int
      BY <1>3
    <3> QED BY <1>3, <3>1, ReplayIsModel
  <2>3. Replay(Replay(m, journal, c + 1 .. c + b), journal, c + b + 1 .. l)[n]
            = Replay(m, journal, c + 1 .. c + b)[n]
    <3>1. l <= Len(journal)
      BY <1>3 DEF l
    <3> QED BY <1>2, <1>3, <1>7, <2>2, <3>1, ExposedChangeNothing DEF Calm
  <2>4. DiskView[n] = Expected[n]
    BY <1>7 DEF DiskRight, RightView
  <2> QED BY <1>6, <2>1, <2>3, <2>4
<1>8. RightView(DiskView)'
  BY <1>1, <1>5, <1>7 DEF RightView, Certain, Expected
<1>9. ASSUME NEW q \in Writer PROVE JobInv(q)'
  <2>1. CASE q = p
    BY <1>1, <2>1 DEF JobInv
  <2>2. CASE q # p
    <3>1. writer[q] \notin Compacting
      BY <1>1, <2>2 DEF Calm, Alone, CompactionInv, OneCompactor, Process, Compacting
    <3> QED BY <1>1, <2>2, <3>1 DEF JobInv, Compacting
  <2> QED BY <2>1, <2>2
<1> QED BY <1>1, <1>4, <1>8, <1>9 DEF DiskRight

DiskInv == Calm => DiskRight

\* What is exposed was written, and one writer exposes nothing.
ExposedInv == exposed \subseteq Range(written) /\ (Alone => exposed = {})

StoreInv == CompactionInv /\ IdInv /\ ExposedInv /\ DiskInv

\* The snapshot and the history change with an append, a broken lock and a new snapshot only.
LEMMA WhatChangesThem ==
    ASSUME [Next]_vars
    PROVE  \/ UNCHANGED <<snapshot, written, exposed, broken>>
           \/ \E p \in Writer : AppendRecord(p) \/ BreakLock(p) \/ CompactWriteSnapshot(p)
<1> DEFINE Same == UNCHANGED <<snapshot, written, exposed, broken>>
<1>1. ASSUME NEW p \in Process, Open(p) \/ Loading(p) \/ Crash(p) PROVE Same
  BY <1>1 DEF Loading, Open, LoadJournal, LoadSnapshot, Crash, disk, history
<1>2. ASSUME NEW p \in Composer, Sync(p) PROVE Same
  BY <1>2 DEF Sync, SyncReload, SyncGrown, SyncTail, disk, history
<1>3. ASSUME NEW p \in Writer, NEW kinds \in Calls, Record_(p, kinds) PROVE Same
  BY <1>3 DEF Record_, disk, history
<1>4. ASSUME NEW p \in Writer,
             Receive(p) \/ WaitOver(p) \/ AppendFails(p) \/ PushOwn(p) \/ PositionUnknown(p)
      PROVE  Same
  BY <1>4 DEF Receive, WaitOver, AppendFails, PushOwn, PositionUnknown, disk, history
<1>5. ASSUME NEW p \in Writer, Acquire(p) \/ AcquireFails(p) \/ FindStale(p) \/ Unlock(p) PROVE Same
  BY <1>5 DEF Acquire, AcquireFails, FindStale, Unlock, disk, history
<1>6. ASSUME NEW p \in Writer,
             \/ CompactRead(p) \/ CompactMergeJournal(p) \/ CompactMergeSnapshot(p)
             \/ CompactReadTail(p) \/ CompactWriteJournal(p) \/ ReplaceFails(p)
      PROVE  Same
  BY <1>6 DEF CompactRead, CompactMergeJournal, CompactMergeSnapshot, CompactReadTail,
              CompactWriteJournal, ReplaceFails, disk, history
<1>7. CASE AgeLock \/ UNCHANGED vars
  BY <1>7 DEF AgeLock, vars, disk, history
<1>8. ASSUME NEW p \in Writer, WriterThread(p)
      PROVE  Same \/ AppendRecord(p) \/ BreakLock(p) \/ CompactWriteSnapshot(p)
  BY <1>4, <1>5, <1>6, <1>8 DEF WriterThread, Compact
<1>9. CASE Next
  BY <1>1, <1>2, <1>3, <1>4, <1>6, <1>7, <1>8, <1>9 DEF Next
<1> QED BY <1>7, <1>9

\* A step that is not calm afterwards may have been anything; a calm one was calm before.
LEMMA CalmBefore == TypeOK /\ [Next]_vars /\ Calm' => Calm
<1> SUFFICES ASSUME TypeOK, [Next]_vars, Calm' PROVE Calm
  OBVIOUS
<1>1. (broken => broken') /\ exposed \subseteq exposed'
  <2>1. CASE UNCHANGED <<broken, exposed>>
    BY <2>1
  <2>2. ASSUME NEW p \in Writer, AppendRecord(p) PROVE broken' = broken /\ exposed \subseteq exposed'
    BY <2>2 DEF AppendRecord
  <2>3. ASSUME NEW p \in Writer, BreakLock(p) PROVE broken' /\ exposed' = exposed
    BY <2>3 DEF BreakLock
  <2>4. ASSUME NEW p \in Writer, CompactWriteSnapshot(p) PROVE UNCHANGED <<broken, exposed>>
    BY <2>4 DEF CompactWriteSnapshot, history
  <2> QED BY <2>1, <2>2, <2>3, <2>4, WhatChangesThem
<1> QED BY <1>1 DEF Calm, Alone

\* Steps other than the append and those of a running compaction leave disk and jobs alone.
LEMMA DiskUntouched ==
    ASSUME TypeOK, DiskRight,
           \/ UNCHANGED vars \/ AgeLock
           \/ \E p \in Process : Open(p) \/ Loading(p) \/ Sync(p) \/ Crash(p)
           \/ \E p \in Writer : \/ \E kinds \in Calls : Record_(p, kinds)
                                \/ Receive(p) \/ WaitOver(p) \/ AppendFails(p) \/ PushOwn(p)
                                \/ PositionUnknown(p) \/ Acquire(p) \/ AcquireFails(p) \/ FindStale(p) \/ BreakLock(p) \/ Unlock(p)
                                \/ ReplaceFails(p)
    PROVE  DiskRight'
<1>1. CASE UNCHANGED vars \/ AgeLock
  BY <1>1, DiskIdle DEF vars, AgeLock, disk, writerVars, job, history
<1>2. ASSUME NEW p \in Process, Open(p) \/ Loading(p) \/ Sync(p) PROVE DiskRight'
  BY <1>2, DiskIdle DEF Loading, Sync, Open, LoadJournal, LoadSnapshot, SyncReload, SyncGrown,
                        SyncTail, disk, writerVars, job, history
<1>3. ASSUME NEW p \in Process, Crash(p) PROVE DiskRight'
  <2>1. UNCHANGED <<journal, snapshot, written, exposed>>
    BY <1>3 DEF Crash, disk, history
  <2>2. \A q \in Writer : writer'[q] \in JobStep =>
            /\ writer'[q] = writer[q] /\ first'[q] = first[q] /\ again'[q] = again[q]
            /\ merged'[q] = merged[q] /\ rest'[q] = rest[q]
    BY <1>3 DEF Crash, DropJob, TypeOK, Process, JobStep
  <2> QED BY <2>1, <2>2, DiskIdle
<1>4. ASSUME NEW p \in Writer, NEW kinds \in Calls, Record_(p, kinds) PROVE DiskRight'
  BY <1>4, DiskIdle DEF Record_, disk, writerVars, job, history
<1>5. ASSUME NEW p \in Writer,
             \/ Receive(p) \/ WaitOver(p) \/ AppendFails(p) \/ PushOwn(p) \/ PositionUnknown(p)
             \/ Acquire(p) \/ AcquireFails(p) \/ FindStale(p) \/ BreakLock(p) \/ Unlock(p)
      PROVE  DiskRight'
  <2>1. UNCHANGED <<journal, snapshot, written, exposed, first, again, merged, rest>>
    BY <1>5 DEF Receive, WaitOver, AppendFails, PushOwn, PositionUnknown, Acquire, AcquireFails,
                FindStale, BreakLock, Unlock,
                disk, job, history
  <2>2. \A q \in Writer : writer'[q] \in JobStep => writer'[q] = writer[q]
    BY <1>5 DEF Receive, WaitOver, AppendFails, PushOwn, PositionUnknown, Acquire, AcquireFails,
                FindStale, BreakLock, Unlock,
                WriterGoes, TypeOK, Process, JobStep
  <2> QED BY <2>1, <2>2, DiskIdle
<1>6. ASSUME NEW p \in Writer, ReplaceFails(p) PROVE DiskRight'
  <2>1. UNCHANGED <<journal, snapshot, written, exposed>>
    BY <1>6 DEF ReplaceFails, disk, history
  <2>2. \A q \in Writer : writer'[q] \in JobStep =>
            /\ writer'[q] = writer[q] /\ first'[q] = first[q] /\ again'[q] = again[q]
            /\ merged'[q] = merged[q] /\ rest'[q] = rest[q]
    BY <1>6 DEF ReplaceFails, DropJob, TypeOK, Process, JobStep
  <2> QED BY <2>1, <2>2, DiskIdle
<1> QED BY <1>1, <1>2, <1>3, <1>4, <1>5, <1>6

\* What is exposed was written, and only by one of several writers.
LEMMA ExposedStep == TypeOK /\ IdInv /\ ExposedInv /\ [Next]_vars => ExposedInv'
<1> SUFFICES ASSUME TypeOK, IdInv, ExposedInv, [Next]_vars PROVE ExposedInv'
  OBVIOUS
<1>1. CASE UNCHANGED <<written, exposed>>
  BY <1>1 DEF ExposedInv, Alone
<1>2. ASSUME NEW p \in Writer, AppendRecord(p) PROVE ExposedInv'
  <2>1. PICK x \in Record : rec[p] = <<x>> /\ written' = written \o <<x>>
    BY <1>2, TakenIsFresh
  <2>2. Range(written \o <<x>>) = Range(written) \union {x}
    <3>1. written \in Seq(Record)
      BY DEF TypeOK
    <3>2. /\ \A k \in 1..Len(written) : k \in 1..Len(written \o <<x>>) /\ (written \o <<x>>)[k] = written[k]
          /\ Len(written) + 1 \in 1..Len(written \o <<x>>) /\ (written \o <<x>>)[Len(written) + 1] = x
          /\ \A k \in 1..Len(written \o <<x>>) : k \in 1..Len(written) \/ k = Len(written) + 1
      BY <3>1
    <3>3. DOMAIN written = 1..Len(written) /\ DOMAIN (written \o <<x>>) = 1..Len(written \o <<x>>)
      BY <3>1
    <3> QED BY <3>2, <3>3 DEF Range
  <2>3. Range(rec[p]) = {x}
    BY <2>1 DEF Range
  <2>4. exposed' \subseteq Range(written')
    BY <1>2, <2>1, <2>2, <2>3 DEF AppendRecord, ExposedInv
  <2>5. Alone => exposed' = {}
    BY <1>2 DEF AppendRecord, WriterGoes, ExposedInv, Alone
  <2> QED BY <2>4, <2>5 DEF ExposedInv, Alone
<1>3. ASSUME NEW p \in Writer, BreakLock(p) \/ CompactWriteSnapshot(p)
      PROVE  UNCHANGED <<written, exposed>>
  BY <1>3 DEF BreakLock, CompactWriteSnapshot, history
<1> QED BY <1>1, <1>2, <1>3, WhatChangesThem

\* Every step keeps the store's invariant.
LEMMA StoreStep == StoreInv /\ [Next]_vars => StoreInv'
<1> SUFFICES ASSUME StoreInv, [Next]_vars PROVE StoreInv'
  OBVIOUS
<1>1. CompactionInv /\ TypeOK /\ IdInv /\ ExposedInv
  BY DEF StoreInv, CompactionInv
<1>2. CompactionInv' /\ IdInv' /\ ExposedInv'
  BY <1>1, CompactionStep, IdStep, ExposedStep
<1>3. ASSUME Calm' PROVE DiskRight'
  <2>1. Calm /\ DiskRight
    BY <1>1, <1>3, CalmBefore DEF StoreInv, DiskInv
  <2>2. ASSUME NEW p \in Writer, AppendRecord(p) PROVE DiskRight'
    BY <1>1, <2>1, <2>2, DiskAppend
  <2>3. ASSUME NEW p \in Writer,
               \/ CompactRead(p) \/ CompactMergeJournal(p) \/ CompactMergeSnapshot(p)
               \/ CompactWriteSnapshot(p) \/ CompactReadTail(p) \/ CompactWriteJournal(p)
        PROVE  DiskRight'
    BY <1>1, <2>1, <2>3, DiskReads, DiskMerge, DiskWriteSnapshot, DiskReadTail, DiskWriteJournal
  <2> QED BY <1>1, <2>1, <2>2, <2>3, DiskUntouched, StoreAssumption DEF Next, WriterThread, Compact, Process
<1> QED BY <1>2, <1>3 DEF StoreInv, DiskInv

\* The store's invariant holds at first.
LEMMA StoreInit == Init => StoreInv
<1> SUFFICES ASSUME Init PROVE StoreInv
  OBVIOUS
<1>1. CompactionInv
  BY TypeInit DEF CompactionInv, OneCompactor, HolderHasLock, Init, Compacting
<1>2. ExposedInv
  BY DEF Init, ExposedInv
<1>3. StillThere(journal, snapshot)
  <2>1. PrefixOf(<<>>, 0) = <<>>
    <3>1. PrefixCap \in Nat /\ Len(<<>>) = 0
      BY StoreAssumption
    <3>2. MinOf(0, MinOf(0, PrefixCap)) = 0
      BY <3>1 DEF MinOf
    <3>3. SubSeq(<<>>, 1, 0) = <<>>
      OBVIOUS
    <3> QED BY <3>1, <3>2, <3>3 DEF PrefixOf
  <2> QED BY <2>1 DEF Init, NoSnapshot, StillThere
<1>4. DiskView = Expected
  <2>1. Len(<<>>) = 0 /\ 0 + 1 = 1
    OBVIOUS
  <2> QED BY <1>3, <2>1, ReplaySame DEF Init, NoSnapshot, DiskView, LoadAll, Expected
<1>5. \A q \in Writer : JobInv(q)
  BY DEF Init, JobInv, Process
<1> QED BY <1>1, <1>2, <1>3, <1>4, <1>5, IdInit DEF StoreInv, DiskInv, DiskRight, RightView

\* What a process that starts now would load of a record is what was written of it,
\* unless its append fell into a blind spot of a running compaction.
THEOREM DiskKeepsTheRest == Spec => []BlindSpotsOnly
<1>1. StoreInv => BlindSpotsOnly
  <2> SUFFICES ASSUME StoreInv, ~broken, \A r \in exposed : Choice(r), NEW r \in Range(written) \ exposed
               PROVE  DiskView[r.id] = Replay(EmptyModel, written, DOMAIN written)[r.id]
    BY DEF BlindSpotsOnly
  <2>1. RightView(DiskView)
    BY DEF StoreInv, DiskInv, DiskRight, Calm
  <2>2. written \in Seq(Record) /\ DOMAIN written = 1..Len(written)
    BY DEF StoreInv, CompactionInv, TypeOK
  <2>3. PICK k \in 1..Len(written) : r = written[k]
    BY <2>2 DEF Range
  <2>4. r.id \in Id
    <3>1. r \in Record
      BY <2>2, <2>3
    <3> QED BY <3>1 DEF Record
  <2>5. Certain(r.id)
    <3> SUFFICES ASSUME NEW e \in exposed, e.id = r.id PROVE FALSE
      BY DEF Certain
    <3>1. e \in Range(written)
      BY DEF StoreInv, ExposedInv
    <3>2. PICK j \in 1..Len(written) : e = written[j]
      BY <2>2, <3>1 DEF Range
    <3>3. j = k
      BY <2>3, <3>2, UniqueFacts DEF StoreInv, IdInv
    <3> QED BY <2>3, <3>2, <3>3
  <2> QED BY <2>1, <2>2, <2>4, <2>5 DEF RightView, Expected
<1> QED BY <1>1, StoreInit, StoreStep, PTL DEF Spec

\* A record that is new to what was written does not count before it is written.
LEMMA FreshCountsNothing ==
    ASSUME TypeOK, NEW n \in Id, \A k \in 1..Len(written) : written[k].id # n
    PROVE  Expected[n] = 0
<1>1. Len(written) \in Nat
  BY DEF TypeOK
<1>2. Counted(written, 1..Len(written), n) = {}
  BY DEF Counted
<1>3. Cardinality(Counted(written, 1..Len(written), n)) = 0
  BY <1>2, FS_EmptySet
<1>4. EmptyModel[n] = 0
  BY DEF EmptyModel
<1> QED BY <1>3, <1>4, ReplayAt DEF Expected

\* Where nothing is exposed the disk shows exactly what was written.
LEMMA ViewIsExpected ==
    ASSUME StoreInv, Alone
    PROVE  DiskView = Expected
<1>1. exposed = {}
  BY DEF StoreInv, ExposedInv
<1>2. \A n \in Id : DiskView[n] = Expected[n]
  BY <1>1 DEF StoreInv, DiskInv, Calm, DiskRight, RightView, Certain
<1>3. DiskView = [n \in Id |-> DiskView[n]] /\ Expected = [n \in Id |-> Expected[n]]
  BY DEF DiskView, LoadAll, Expected, Replay
<1> QED BY <1>2, <1>3

\* The written records change with an append only.
LEMMA OnlyAppendsWrite ==
    ASSUME [Next]_vars
    PROVE  written' = written \/ \E p \in Writer : AppendRecord(p)
<1>1. ASSUME NEW p \in Writer, BreakLock(p) \/ CompactWriteSnapshot(p) PROVE written' = written
  BY <1>1 DEF BreakLock, CompactWriteSnapshot, history
<1> QED BY <1>1, WhatChangesThem

\* With at most one writing process the disk implements the abstract log: whatever
\* crashes, compactions, failed replacements and broken locks do, a process that
\* starts now would load exactly what was written since the last wipe.
THEOREM DiskRefinesLog ==
    ASSUME Alone PROVE Spec => DiskImplementsLog
<1> DEFINE learned == DiskView
           seen == {r.id : r \in Range(written)}
<1>1. Init => Disk!Init
  <2> SUFFICES ASSUME Init PROVE Disk!Init
    OBVIOUS
  <2>1. StoreInv
    BY StoreInit
  <2>2. written = <<>> /\ TypeOK
    BY <2>1 DEF Init, StoreInv, CompactionInv
  <2>3. \A n \in Id : Expected[n] = 0
    BY <2>2, FreshCountsNothing
  <2>4. Expected = [n \in Id |-> Expected[n]]
    BY DEF Expected, Replay
  <2>5. DiskView = [n \in Id |-> 0]
    BY <2>1, <2>3, <2>4, ViewIsExpected
  <2>6. seen = {}
    BY <2>2 DEF Range
  <2> QED BY <2>5, <2>6 DEF Disk!Init, Disk!Nothing
<1>2. StoreInv /\ StoreInv' /\ [Next]_vars => [Disk!Next]_<<learned, seen>>
  <2> SUFFICES ASSUME StoreInv, StoreInv', [Next]_vars PROVE [Disk!Next]_<<learned, seen>>
    OBVIOUS
  <2>1. DiskView = Expected /\ DiskView' = Expected'
    <3>1. DiskView = Expected
      BY ViewIsExpected
    <3>2. exposed' = {}
      BY DEF StoreInv, ExposedInv, Alone
    <3>3. \A n \in Id : DiskView'[n] = Expected'[n]
      BY <3>2 DEF StoreInv, DiskInv, Calm, Alone, DiskRight, RightView, Certain
    <3>4. DiskView' = [n \in Id |-> DiskView'[n]] /\ Expected' = [n \in Id |-> Expected'[n]]
      BY DEF DiskView, LoadAll, Expected, Replay
    <3> QED BY <3>1, <3>3, <3>4
  <2>2. TypeOK /\ IdInv
    BY DEF StoreInv, CompactionInv
  <2>3. CASE written' = written
    <3>1. Expected' = Expected
      BY <2>3 DEF Expected
    <3> QED BY <2>1, <2>3, <3>1
  <2>4. ASSUME NEW p \in Writer, AppendRecord(p) PROVE Disk!Next
    <3>1. PICK x \in Record : /\ written' = written \o <<x>>
                              /\ \A k \in 1..Len(written) : written[k].id # x.id
      BY <2>2, <2>4, TakenIsFresh
    <3>2. x.id \in Id
      BY DEF Record
    <3>3. written \in Seq(Record) /\ DOMAIN written = 1..Len(written)
      BY <2>2 DEF TypeOK
    <3>4. x.id \notin seen
      BY <3>1, <3>3 DEF Range
    <3>5. seen' = seen \union {x.id}
      <4>1. /\ \A k \in 1..Len(written) : k \in 1..Len(written \o <<x>>) /\ (written \o <<x>>)[k] = written[k]
            /\ Len(written) + 1 \in 1..Len(written \o <<x>>) /\ (written \o <<x>>)[Len(written) + 1] = x
            /\ \A k \in 1..Len(written \o <<x>>) : k \in 1..Len(written) \/ k = Len(written) + 1
            /\ DOMAIN (written \o <<x>>) = 1..Len(written \o <<x>>)
        BY <3>3
      <4>2. Range(written \o <<x>>) = Range(written) \union {x}
        BY <3>3, <4>1 DEF Range
      <4> QED BY <3>1, <4>2
    <3>6. DiskView' = After(DiskView, x)
      <4>1. 0 \in Nat /\ 0 <= Len(written) /\ EmptyModel \in Model
        BY <3>3, EmptyModelType
      <4>2. Replay(EmptyModel, written \o <<x>>, 0 + 1 .. Len(written \o <<x>>))
                = After(Replay(EmptyModel, written, 0 + 1 .. Len(written)), x)
        BY <3>3, <4>1, ReplayLast
      <4> QED BY <2>1, <3>1, <4>2 DEF Expected
    <3>7. DiskView[x.id] = 0
      BY <2>1, <2>2, <3>1, <3>2, FreshCountsNothing
    <3>8. DiskView = [n \in Id |-> DiskView[n]]
      BY DEF DiskView, LoadAll, Replay
    <3>9. CASE IsWipe(x)
      <4>1. DiskView' = [n \in Id |-> 0]
        BY <3>6, <3>9 DEF After, EmptyModel
      <4> QED BY <3>2, <3>4, <3>5, <4>1 DEF Disk!Next, Disk!Forget, Disk!Nothing
    <3>10. CASE ~IsWipe(x)
      <4>1. DiskView' = [n \in Id |-> IF n = x.id THEN 1 ELSE DiskView[n]]
        BY <3>6, <3>7, <3>10 DEF After
      <4>2. DiskView' = [DiskView EXCEPT ![x.id] = 1]
        BY <3>8, <4>1
      <4> QED BY <3>2, <3>4, <3>5, <4>2 DEF Disk!Next, Disk!Learn
    <3> QED BY <3>9, <3>10
  <2> QED BY <2>2, <2>3, <2>4, OnlyAppendsWrite
<1> QED BY <1>1, <1>2, StoreInit, StoreStep, PTL DEF Spec, DiskImplementsLog, Disk!Spec

-----------------------------------------------------------------------------
(* Before the first compaction: nothing was ever taken from the journal,   *)
(* so a place in it means the same for every process.                      *)

\* No wipe was written or lost to a failed append, and none of p's own waits.  (A wipe
\* that waits has reset the memory of its own process only, and dies with it.)
Clean(p) ==
    /\ \A k \in 1..Len(written) : Choice(written[k])
    /\ \A r \in dropped : Choice(r)
    /\ p \in Writer => \A i \in 1..Len(Waiting(p)) : Choice(Waiting(p)[i])

PlacesRight(p) ==
    /\ Begins(look[p].journal, journal) /\ offset[p] <= Len(journal)
    /\ \A k \in Id : own[p][k] > 0 => k \in 1..Len(journal) /\ journal[k].by = p
    /\ writer[p] = "pushing" => end[p] \in 1..Len(journal) /\ journal[end[p]].by = p

\* m counts what p should have seen of the others' records up to place o.
CountsOf(p, m, o) ==
    /\ \A n \in Id : n > ids => m[n] = 0
    /\ \A w \in Writer : w # p => \A i \in 1..Len(Waiting(w)) : m[Waiting(w)[i].id] = 0
    /\ \A k \in 1..Len(journal) : journal[k].by # p /\ Choice(journal[k]) =>
           /\ m[journal[k].id] <= (IF k <= o THEN 1 ELSE 0)
           /\ Clean(p) /\ k <= o => m[journal[k].id] = 1

CountsRight(p) == CountsOf(p, model[p], offset[p])

NothingTaken ==
    /\ journal = written /\ snapshot.model = EmptyModel /\ snapshot.consumed = 0
    /\ \A q \in Writer : writer[q] \notin {"readTail", "writeJournal"}

FreshInv ==
    snapshot.stamp = 0 => NothingTaken /\ \A p \in Process : PlacesRight(p) /\ CountsRight(p)

\* Replaying places with no record numbered n keeps what n counts, or resets it.
LEMMA ReplayOthers ==
    ASSUME NEW m \in Model, NEW s, NEW K, NEW n \in Id, \A k \in K : s[k].id # n
    PROVE  Replay(m, s, K)[n] = IF \E k \in K : IsWipe(s[k]) THEN 0 ELSE m[n]
<1>1. Counted(s, K, n) = {}
  BY DEF Counted
<1>2. m[n] \in Nat
  BY DEF Model
<1>3. Cardinality(Counted(s, K, n)) = 0
  BY <1>1, FS_EmptySet
<1> QED BY <1>2, <1>3, ReplayAt

\* A record that stands at one of the replayed places only counts once more, unless
\* a wipe is replayed too.
LEMMA ReplayOneOf ==
    ASSUME NEW m \in Model, NEW s, NEW K, NEW n \in Id, NEW c \in K,
           s[c].id = n, \A k \in K : s[k].id = n => k = c
    PROVE  /\ Replay(m, s, K)[n] <= m[n] + 1
           /\ (\A k \in K : ~IsWipe(s[k])) => Replay(m, s, K)[n] = m[n] + 1
<1>1. Counted(s, K, n) = {} \/ Counted(s, K, n) = {c}
  BY DEF Counted
<1>2. m[n] \in Nat
  BY DEF Model
<1>3. Counted(s, K, n) = {} => Cardinality(Counted(s, K, n)) = 0
  BY FS_EmptySet
<1>4. Counted(s, K, n) = {c} => Cardinality(Counted(s, K, n)) = 1
  BY FS_Singleton
<1>5. (\A k \in K : ~IsWipe(s[k])) => Counted(s, K, n) = {c}
  BY DEF Counted
<1> QED BY <1>1, <1>2, <1>3, <1>4, <1>5, ReplayAt

\* There is room for one record of each identity.
LEMMA JournalFits ==
    ASSUME TypeOK, IdInv
    PROVE  Len(journal) <= MaxRecords
<1>1. journal \in Seq(Record) /\ Len(journal) \in Nat /\ MaxRecords \in Nat
  BY StoreAssumption DEF TypeOK
<1> DEFINE f == [k \in 1..Len(journal) |-> journal[k].id]
<1>2. \A k \in 1..Len(journal) : journal[k].id \in 1..MaxRecords
  <2>1. \A k \in 1..Len(journal) : journal[k] \in Record
    BY <1>1
  <2> QED BY <2>1 DEF Record, Id
<1>3. \A j, k \in 1..Len(journal) : journal[j].id = journal[k].id => j = k
  BY DEF IdInv, Piece
<1>4. f \in Injection(1..Len(journal), 1..MaxRecords)
  BY <1>2, <1>3, Fun_IsInj
<1>5. IsFiniteSet(1..MaxRecords) /\ Cardinality(1..MaxRecords) = MaxRecords
  BY <1>1, FS_Interval, SMTT(20)
<1>6. IsFiniteSet(1..Len(journal)) /\ Cardinality(1..Len(journal)) = Len(journal)
  BY <1>1, FS_Interval
<1>7. Cardinality(1..Len(journal)) <= Cardinality(1..MaxRecords)
  BY <1>4, <1>5, FS_Injection DEF ExistsInjection
<1> QED BY <1>5, <1>6, <1>7

\* The types of what the UI thread keeps.
LEMMA UiFacts ==
    ASSUME TypeOK, NEW p \in Process
    PROVE  /\ look[p].journal \in Seq(Record) /\ offset[p] \in Nat /\ model[p] \in Model
           /\ own[p] \in [Id -> Nat] /\ \A n \in Id : model[p][n] \in Nat /\ own[p][n] \in Nat
<1>1. model[p] \in Model /\ own[p] \in [Id -> Nat]
  BY DEF TypeOK
<1>2. \A n \in Id : model[p][n] \in Nat /\ own[p][n] \in Nat
  BY <1>1 DEF Model
<1> QED BY <1>1, <1>2 DEF TypeOK

\* What is known of the records that wait.
LEMMA WaitingFacts ==
    ASSUME TypeOK, IdInv, NEW w \in Writer
    PROVE  /\ Waiting(w) \in Seq(Record) /\ Len(Waiting(w)) \in Nat
           /\ \A i \in 1..Len(Waiting(w)) :
                  /\ Waiting(w)[i] \in Record /\ Waiting(w)[i].id \in Id
                  /\ Waiting(w)[i].id <= ids /\ Waiting(w)[i].by = w
                  /\ \A k \in 1..Len(written) : written[k].id # Waiting(w)[i].id
<1>1. WaitingOf[w] = Waiting(w)
  BY DEF WaitingOf
<1>2. Waiting(w) \in Seq(Record) /\ Len(Waiting(w)) \in Nat
  BY <1>1, WaitingType
<1>3. \A i \in 1..Len(Waiting(w)) : Waiting(w)[i] \in Record
  BY <1>2
<1>4. \A i \in 1..Len(Waiting(w)) : Waiting(w)[i].id \in Id
  BY <1>3 DEF Record
<1>5. \A i \in 1..Len(Waiting(w)) :
          /\ Waiting(w)[i].id <= ids /\ Waiting(w)[i].by = w
          /\ \A k \in 1..Len(written) : Waiting(w)[i].id # written[k].id
  BY <1>1, UniqueFacts DEF IdInv
<1> QED BY <1>2, <1>3, <1>4, <1>5

\* What is known of the records of the journal before anything is taken from it.
LEMMA JournalFacts ==
    ASSUME TypeOK, IdInv, NothingTaken
    PROVE  /\ Len(journal) \in Nat /\ journal \in Seq(Record)
           /\ \A k \in 1..Len(journal) :
                  journal[k] \in Record /\ journal[k].id \in Id /\ journal[k].id <= ids
           /\ \A j, k \in 1..Len(journal) : journal[j].id = journal[k].id => j = k
<1>1. journal \in Seq(Record) /\ Len(journal) \in Nat
  BY DEF TypeOK
<1>2. \A k \in 1..Len(journal) : journal[k] \in Record
  BY <1>1
<1>3. \A k \in 1..Len(journal) : journal[k].id \in Id
  BY <1>2 DEF Record
<1>4. \A k \in 1..Len(journal) : journal[k].id <= ids
  BY UniqueFacts DEF IdInv, NothingTaken
<1>5. \A j, k \in 1..Len(journal) : journal[j].id = journal[k].id => j = k
  BY DEF IdInv, Piece
<1> QED BY <1>1, <1>2, <1>3, <1>4, <1>5

\* Applying the others' records between two places, each once, keeps the counts right.
LEMMA AppliedRight ==
    ASSUME TypeOK, IdInv, NothingTaken, NEW p, NEW m \in Model, NEW o \in Nat, NEW u \in Nat,
           NEW K \in SUBSET (1..Len(journal)), CountsOf(p, m, o), o <= u,
           \A k \in K : o < k /\ k <= u,
           \A k \in 1..Len(journal) : o < k /\ k <= u /\ journal[k].by # p => k \in K
    PROVE  CountsOf(p, Replay(m, journal, K), u)
<1>r. ASSUME NEW n \in Id, \A j \in K : journal[j].id # n
      PROVE  /\ (\E j \in K : IsWipe(journal[j])) => Replay(m, journal, K)[n] = 0
             /\ (\A j \in K : ~IsWipe(journal[j])) => Replay(m, journal, K)[n] = m[n]
  <2>1. Replay(m, journal, K)[n] = IF \E j \in K : IsWipe(journal[j]) THEN 0 ELSE m[n]
    BY <1>r, ReplayOthers
  <2> QED BY <2>1
<1> DEFINE r == Replay(m, journal, K)
<1>1. \A n \in Id : m[n] \in Nat
  BY DEF Model
<1>2. \A n \in Id : (\A k \in K : journal[k].id # n) => r[n] = 0 \/ r[n] = m[n]
  BY <1>r
<1>3. ASSUME NEW n \in Id, n > ids PROVE r[n] = 0
  <2>1. \A k \in K : journal[k].id # n
    <3> SUFFICES ASSUME NEW k \in K, journal[k].id = n PROVE FALSE
      OBVIOUS
    <3>1. n <= ids
      BY JournalFacts
    <3>2. n \in Int /\ ids \in Int
      BY StoreAssumption DEF Id, TypeOK
    <3> QED BY <1>3, <3>1, <3>2
  <2>2. m[n] = 0
    BY <1>3 DEF CountsOf
  <2> QED BY <1>2, <2>1, <2>2
<1>4. ASSUME NEW w \in Writer, w # p, NEW i \in 1..Len(Waiting(w)) PROVE r[Waiting(w)[i].id] = 0
  <2>1. Waiting(w)[i].id \in Id /\ \A k \in K : journal[k].id # Waiting(w)[i].id
    BY WaitingFacts DEF NothingTaken
  <2>2. m[Waiting(w)[i].id] = 0
    BY <1>4 DEF CountsOf
  <2> QED BY <1>2, <2>1, <2>2
<1>5. ASSUME NEW k \in 1..Len(journal), journal[k].by # p, Choice(journal[k])
      PROVE  /\ r[journal[k].id] <= (IF k <= u THEN 1 ELSE 0)
             /\ Clean(p) /\ k <= u => r[journal[k].id] = 1
  <2> DEFINE n == journal[k].id
  <2>1. n \in Id /\ \A j \in K : journal[j].id = n => j = k
    BY JournalFacts
  <2>2. m[n] \in Nat /\ m[n] <= (IF k <= o THEN 1 ELSE 0) /\ (Clean(p) /\ k <= o => m[n] = 1)
    BY <1>1, <1>5, <2>1 DEF CountsOf
  <2>3. Clean(p) => \A j \in K : ~IsWipe(journal[j])
    BY DEF Clean, NothingTaken, Choice
  <2> HIDE DEF n
  <2>4. CASE k \in K
    <3>1. k > o /\ k <= u /\ m[n] = 0
      BY <2>2, <2>4, JournalFacts
    <3>2. /\ Replay(m, journal, K)[n] <= m[n] + 1
          /\ (\A j \in K : ~IsWipe(journal[j])) => Replay(m, journal, K)[n] = m[n] + 1
      BY <2>1, <2>4, ReplayOneOf DEF n
    <3> QED BY <2>3, <3>1, <3>2 DEF n
  <2>5. CASE k \notin K
    <3>1. /\ (\E j \in K : IsWipe(journal[j])) => Replay(m, journal, K)[n] = 0
          /\ (\A j \in K : ~IsWipe(journal[j])) => Replay(m, journal, K)[n] = m[n]
      <4>1. \A j \in K : journal[j].id # n
        BY <2>1, <2>5
      <4>2. n \in Id
        BY <2>1
      <4> QED BY <1>r, <4>1, <4>2
    <3>2. ~(o < k /\ k <= u)
      BY <1>5, <2>5
    <3>3. k \in Nat /\ (k <= o \/ k > u)
      BY <3>2, JournalFacts
    <3>4. CASE k <= o
      BY <2>2, <2>3, <3>1, <3>3, <3>4 DEF n
    <3>5. CASE k > u
      BY <2>2, <3>1, <3>3, <3>5 DEF n
    <3> QED BY <3>3, <3>4, <3>5
  <2> QED BY <2>4, <2>5
<1> HIDE DEF r
<1>6. CountsOf(p, r, u)
  BY <1>3, <1>4, <1>5 DEF CountsOf
<1> QED BY <1>6 DEF r

\* A fresh memory has seen nothing.
LEMMA EmptyCounts ==
    ASSUME TypeOK, IdInv, NothingTaken, NEW p
    PROVE  CountsOf(p, EmptyModel, 0)
<1>1. \A n \in Id : EmptyModel[n] = 0
  BY DEF EmptyModel
<1>2. \A w \in Writer : \A i \in 1..Len(Waiting(w)) : Waiting(w)[i].id \in Id
  BY WaitingFacts
<1>3. \A k \in 1..Len(journal) : journal[k].id \in Id /\ ~(k <= 0)
  BY JournalFacts
<1> QED BY <1>1, <1>2, <1>3 DEF CountsOf

\* What a step leaves alone stays right.
LEMMA CountsKept ==
    ASSUME NEW p, CountsRight(p), UNCHANGED <<journal, written, dropped, rec, queue, ids>>,
           model'[p] = model[p], offset'[p] = offset[p]
    PROVE  CountsRight(p)'
BY DEF CountsRight, CountsOf, Clean, Waiting

\* Nor does the place of anything change.
LEMMA PlacesKept ==
    ASSUME NEW p, PlacesRight(p), UNCHANGED journal, look'[p] = look[p], offset'[p] = offset[p],
           own'[p] = own[p], writer'[p] = "pushing" => writer[p] = "pushing" /\ end'[p] = end[p]
    PROVE  PlacesRight(p)'
BY DEF PlacesRight

AllRight == NothingTaken /\ \A p \in Process : PlacesRight(p) /\ CountsRight(p)

\* Steps of a writer thread that touch neither the journal nor what waits, and the ageing lock.
LEMMA FreshIdle ==
    ASSUME AllRight,
           UNCHANGED <<journal, written, dropped, snapshot, look, model, offset, own, rec, queue, ids>>,
           \A q \in Process : /\ writer'[q] = "pushing" => writer[q] = "pushing" /\ end'[q] = end[q]
                              /\ writer'[q] \in {"readTail", "writeJournal"} => writer'[q] = writer[q]
    PROVE  AllRight'
<1>1. NothingTaken'
  BY DEF AllRight, NothingTaken, Process
<1>2. ASSUME NEW p \in Process PROVE PlacesRight(p)' /\ CountsRight(p)'
  BY CountsKept, PlacesKept DEF AllRight
<1> QED BY <1>1, <1>2 DEF AllRight

\* The UI thread looks at the files.
LEMMA FreshLook ==
    ASSUME TypeOK, AllRight, NEW p \in Process,
           Open(p) \/ LoadJournal(p) \/ SyncReload(p) \/ SyncGrown(p)
    PROVE  AllRight'
<1>1. UNCHANGED <<journal, written, dropped, snapshot, model, offset, own, rec, queue, ids, writer, end>>
  BY DEF Open, LoadJournal, SyncReload, SyncGrown, disk, writerVars, bounds, history
<1>2. \A q \in Process : q # p => look'[q] = look[q]
  BY DEF Open, LoadJournal, SyncReload, SyncGrown, TypeOK
<1>3. NothingTaken'
  BY <1>1 DEF AllRight, NothingTaken
<1>4. Begins(look'[p].journal, journal)
  <2>1. look'[p].journal = <<>> \/ look'[p].journal = journal \/ look'[p] = look[p]
    BY SMTT(20) DEF Open, LoadJournal, SyncReload, SyncGrown, TypeOK
  <2>2. Begins(<<>>, journal) /\ Begins(journal, journal)
    BY DEF Begins, TypeOK
  <2> QED BY <2>1, <2>2 DEF AllRight, PlacesRight
<1>5. ASSUME NEW q \in Process PROVE CountsRight(q)'
  BY <1>1, CountsKept DEF AllRight
<1>6. ASSUME NEW q \in Process PROVE PlacesRight(q)'
  BY <1>1, <1>2, <1>4 DEF AllRight, PlacesRight
<1> QED BY <1>3, <1>5, <1>6 DEF AllRight

\* load_all before the first compaction applies every record it read once.
LEMMA FreshLoad ==
    ASSUME TypeOK, IdInv, AllRight, NEW p \in Process, LoadSnapshot(p)
    PROVE  AllRight'
<1> DEFINE s == look[p].journal
           l == Len(s)
<1>1. /\ UNCHANGED <<journal, written, dropped, snapshot, rec, queue, ids, writer, end>>
      /\ model' = [model EXCEPT ![p] = LoadAll(s, snapshot)]
      /\ offset' = [offset EXCEPT ![p] = l]
      /\ own' = [own EXCEPT ![p] = [k \in Id |-> IF k > l THEN own[p][k] ELSE 0]]
      /\ look' = [look EXCEPT ![p] = NoLook]
  BY DEF LoadSnapshot, disk, writerVars, bounds, history
<1>2. NothingTaken /\ NothingTaken'
  BY <1>1 DEF AllRight, NothingTaken
<1>3. /\ s \in Seq(Record) /\ l \in Nat /\ journal \in Seq(Record) /\ Len(journal) \in Nat
      /\ l <= Len(journal) /\ \A k \in 1..l : s[k] = journal[k]
  <2>1. s \in Seq(Record) /\ journal \in Seq(Record)
    BY UiFacts DEF TypeOK
  <2>2. l \in Nat /\ Len(journal) \in Nat
    BY <2>1
  <2> QED BY <2>1, <2>2 DEF AllRight, PlacesRight, Begins
<1>4. LoadAll(s, snapshot) = Replay(EmptyModel, journal, 1..l)
  <2>1. LoadAll(s, snapshot) = Replay(EmptyModel, s, 0 + 1 .. l)
    BY <1>2 DEF LoadAll, NothingTaken
  <2>2. 0 + 1 = 1
    OBVIOUS
  <2>3. Replay(EmptyModel, s, 1..l) = Replay(EmptyModel, journal, 1..l)
    BY <1>3, ReplaySame
  <2> QED BY <2>1, <2>2, <2>3
<1>5. CountsOf(p, Replay(EmptyModel, journal, 1..l), l)
  <2>1. 1..l \in SUBSET (1..Len(journal)) /\ 0 \in Nat /\ 0 <= l /\ EmptyModel \in Model
    BY <1>3, EmptyModelType
  <2>2. (\A k \in 1..l : 0 < k /\ k <= l) /\ \A k \in 1..Len(journal) : k <= l => k \in 1..l
    BY <1>3
  <2>3. CountsOf(p, EmptyModel, 0)
    BY <1>2, EmptyCounts
  <2> HIDE DEF l
  <2> QED BY <1>2, <1>3, <2>1, <2>2, <2>3, AppliedRight
<1>6. model'[p] = Replay(EmptyModel, journal, 1..l) /\ offset'[p] = l
      /\ look'[p].journal = <<>> /\ own'[p] = [k \in Id |-> IF k > l THEN own[p][k] ELSE 0]
  BY <1>1, <1>4 DEF TypeOK, NoLook
<1> HIDE DEF l, s
<1>7. CountsRight(p)'
  <2> DEFINE r == Replay(EmptyModel, journal, 1..l)
  <2>1. CountsOf(p, r, l) /\ model'[p] = r /\ offset'[p] = l
    BY <1>5, <1>6
  <2> HIDE DEF r
  <2>2. UNCHANGED <<journal, written, dropped, rec, queue, ids>>
    BY <1>1
  <2> QED BY <2>1, <2>2 DEF CountsRight, CountsOf, Clean, Waiting
<1>8. PlacesRight(p)'
  <2>1. Begins(<<>>, journal)
    BY <1>3 DEF Begins
  <2>2. PlacesRight(p)
    BY DEF AllRight
  <2>3. \A k \in Id : own'[p][k] > 0 => own[p][k] > 0
    BY <1>6
  <2> QED BY <1>1, <1>3, <1>6, <2>1, <2>2, <2>3 DEF PlacesRight
<1>9. ASSUME NEW q \in Process, q # p PROVE PlacesRight(q)' /\ CountsRight(q)'
  <2>1. model'[q] = model[q] /\ offset'[q] = offset[q] /\ own'[q] = own[q] /\ look'[q] = look[q]
    BY <1>1, <1>9 DEF TypeOK
  <2> QED BY <1>1, <2>1, CountsKept, PlacesKept DEF AllRight
<1> QED BY <1>2, <1>7, <1>8, <1>9 DEF AllRight

\* sync applies the others' records past the offset once each.
LEMMA FreshTail ==
    ASSUME TypeOK, IdInv, AllRight, NEW p \in Process, SyncTail(p)
    PROVE  AllRight'
<1> DEFINE l == Len(journal)
           K == Foreign(p)
<1>1. /\ UNCHANGED <<journal, written, dropped, snapshot, look, rec, queue, ids, writer, end>>
      /\ model' = [model EXCEPT ![p] = Replay(model[p], journal, K)]
      /\ offset' = [offset EXCEPT ![p] = IF l > offset[p] THEN l ELSE offset[p]]
      /\ own' = [own EXCEPT ![p] = [k \in Id |->
                    IF k \in offset[p]+1 .. l /\ own[p][k] > 0 THEN own[p][k] - 1 ELSE own[p][k]]]
  BY DEF SyncTail, disk, writerVars, bounds, history
<1>2. NothingTaken /\ NothingTaken'
  BY <1>1 DEF AllRight, NothingTaken
<1>3. /\ model[p] \in Model /\ offset[p] \in Nat /\ l \in Nat /\ offset[p] <= l
      /\ \A n \in Id : own[p][n] \in Nat
      /\ \A k \in Id : own[p][k] > 0 => k \in 1..l /\ journal[k].by = p
  <2>1. /\ model[p] \in Model /\ offset[p] \in Nat /\ \A n \in Id : own[p][n] \in Nat
    BY UiFacts
  <2>2. l \in Nat
    BY DEF TypeOK
  <2> QED BY <2>1, <2>2 DEF AllRight, PlacesRight
<1>4. \A k \in 1..l : k \in Id
  BY JournalFits, StoreAssumption, <1>3 DEF Id
<1>5. K \in SUBSET (1..l) /\ \A k \in K : offset[p] < k /\ k <= l
  BY <1>3 DEF Foreign
<1>6. ASSUME NEW k \in 1..l, offset[p] < k, journal[k].by # p PROVE k \in K
  <2>1. own[p][k] = 0
    BY <1>3, <1>4, <1>6
  <2> QED BY <1>3, <1>6, <2>1 DEF Foreign
<1>7. CountsOf(p, Replay(model[p], journal, K), l)
  <2>1. CountsOf(p, model[p], offset[p])
    BY DEF AllRight, CountsRight
  <2> HIDE DEF K
  <2> QED BY <1>2, <1>3, <1>5, <1>6, <2>1, AppliedRight
<1>8. /\ model'[p] = Replay(model[p], journal, K) /\ offset'[p] = l
      /\ \A k \in Id : own'[p][k] > 0 => own[p][k] > 0
  BY <1>1, <1>3, SMTT(20) DEF TypeOK
<1> HIDE DEF l, K
<1>9. CountsRight(p)'
  <2> DEFINE r == Replay(model[p], journal, K)
  <2>1. CountsOf(p, r, l) /\ model'[p] = r /\ offset'[p] = l
    BY <1>7, <1>8
  <2> HIDE DEF r
  <2>2. UNCHANGED <<journal, written, dropped, rec, queue, ids>>
    BY <1>1
  <2> QED BY <2>1, <2>2 DEF CountsRight, CountsOf, Clean, Waiting
<1>10. PlacesRight(p)'
  <2>1. PlacesRight(p)
    BY DEF AllRight
  <2> QED BY <1>1, <1>3, <1>8, <2>1 DEF PlacesRight, l
<1>11. ASSUME NEW q \in Process, q # p PROVE PlacesRight(q)' /\ CountsRight(q)'
  <2>1. model'[q] = model[q] /\ offset'[q] = offset[q] /\ own'[q] = own[q] /\ look'[q] = look[q]
    BY <1>1, <1>11 DEF TypeOK
  <2> QED BY <1>1, <2>1, CountsKept, PlacesKept DEF AllRight
<1> QED BY <1>2, <1>9, <1>10, <1>11 DEF AllRight

\* A process dies and forgets.
LEMMA FreshCrash ==
    ASSUME TypeOK, IdInv, AllRight, NEW p \in Process, Crash(p)
    PROVE  AllRight'
<1>1. /\ UNCHANGED <<journal, written, dropped, snapshot, ids>>
      /\ look' = [look EXCEPT ![p] = NoLook] /\ model' = [model EXCEPT ![p] = EmptyModel]
      /\ offset' = [offset EXCEPT ![p] = 0] /\ own' = [own EXCEPT ![p] = NoEntries]
      /\ queue' = [queue EXCEPT ![p] = <<>>] /\ rec' = [rec EXCEPT ![p] = <<>>]
      /\ writer' = [writer EXCEPT ![p] = "idle"] /\ end' = [end EXCEPT ![p] = 0]
  BY DEF Crash, disk, history
<1>2. NothingTaken /\ NothingTaken'
  BY <1>1 DEF AllRight, NothingTaken, TypeOK, Process
<1>3. \A q \in Process : Waiting(q)' = IF q = p THEN <<>> ELSE Waiting(q)
  <2>1. <<>> \o <<>> = <<>>
    OBVIOUS
  <2>2. \A q \in Process : /\ rec'[q] = IF q = p THEN <<>> ELSE rec[q]
                           /\ queue'[q] = IF q = p THEN <<>> ELSE queue[q]
    BY <1>1 DEF TypeOK
  <2> QED BY <2>1, <2>2 DEF Waiting
<1>5. ASSUME NEW q \in Process, q # p PROVE PlacesRight(q)' /\ CountsRight(q)'
  <2>1. /\ model'[q] = model[q] /\ offset'[q] = offset[q] /\ own'[q] = own[q] /\ look'[q] = look[q]
        /\ writer'[q] = writer[q] /\ end'[q] = end[q]
    BY <1>1, <1>5 DEF TypeOK
  <2>2. CountsOf(q, model[q], offset[q])'
    BY <1>5, <2>1, <1>1, <1>3 DEF AllRight, CountsRight, CountsOf, Clean, Process
  <2> QED BY <1>1, <2>1, <2>2, PlacesKept DEF AllRight, CountsRight
<1>6. /\ model'[p] = EmptyModel /\ offset'[p] = 0 /\ own'[p] = NoEntries /\ look'[p].journal = <<>>
      /\ writer'[p] = "idle"
  BY <1>1 DEF TypeOK, NoLook
<1>7. CountsRight(p)'
  <2>1. CountsOf(p, EmptyModel, 0)
    BY <1>2, EmptyCounts
  <2>2. \A k \in 1..Len(journal) : ~(k <= 0)
    OBVIOUS
  <2> QED BY <1>1, <1>3, <1>6, <2>1, <2>2 DEF CountsRight, CountsOf, Process
<1>8. PlacesRight(p)'
  <2>1. Len(journal) \in Nat /\ Len(<<>>) = 0 /\ end'[p] = 0
    BY <1>1 DEF TypeOK
  <2> QED BY <1>1, <1>6, <2>1 DEF PlacesRight, NoEntries, Begins
<1> QED BY <1>2, <1>5, <1>7, <1>8 DEF AllRight

\* A call's records are new: nobody has counted them, and nobody else's are touched.
LEMMA FreshRequest ==
    ASSUME TypeOK, IdInv, AllRight, NEW p \in Writer, NEW kinds \in Calls, Record_(p, kinds)
    PROVE  AllRight'
<1> DEFINE new == [i \in DOMAIN kinds |-> [id |-> ids + i, by |-> p, kind |-> kinds[i]]]
<1>1. kinds \in Seq(Kind) /\ DOMAIN kinds = 1..Len(kinds) /\ Len(kinds) \in Nat
  <2>1. CASE kinds = <<"choose">>
    BY <2>1 DEF Kind
  <2>2. CASE kinds = <<"choose", "negative">>
    BY <2>2 DEF Kind
  <2>3. CASE kinds = <<"wipe">>
    BY <2>3 DEF Kind
  <2> QED BY <2>1, <2>2, <2>3 DEF Calls
<1>2. ids \in Nat /\ ids + Len(kinds) <= MaxRecords
  BY <1>1, StoreAssumption DEF Record_, TypeOK
<1>3. \A i \in 1..Len(kinds) : new[i] \in Record
  BY <1>1, <1>2, StoreAssumption DEF Record, Id
<1>4. new \in Seq(Record) /\ Len(new) = Len(kinds) /\ DOMAIN new = 1..Len(new) /\ Len(new) \in Nat
  BY <1>1, <1>3
<1>5. \A i \in 1..Len(new) : new[i].id = ids + i /\ new[i].by = p
  BY <1>1, <1>4
<1>6. /\ queue' = [queue EXCEPT ![p] = queue[p] \o new] /\ ids' = ids + Len(new)
      /\ model' = [model EXCEPT ![p] = Replay(model[p], new, DOMAIN new)]
      /\ UNCHANGED <<journal, written, dropped, snapshot, look, offset, own, rec, writer, end>>
  BY <1>4 DEF Record_, disk, writerVars, history
<1> HIDE DEF new
<1>7. NothingTaken /\ NothingTaken' /\ p \in Process
  BY <1>6 DEF AllRight, NothingTaken, Process
<1>8. /\ \A q \in Writer : q # p => Waiting(q)' = Waiting(q)
      /\ Waiting(p)' = Waiting(p) \o new
  <2>1. /\ rec[p] \in Seq(Record) /\ queue[p] \in Seq(Record)
        /\ \A q \in Writer : q # p => queue'[q] = queue[q]
        /\ queue'[p] = queue[p] \o new
    BY <1>6 DEF TypeOK, Process
  <2>2. rec[p] \o (queue[p] \o new) = (rec[p] \o queue[p]) \o new
    BY <1>4, <2>1, RecordsAssociate
  <2> QED BY <1>6, <2>1, <2>2 DEF Waiting
<1>w. Waiting(p) \in Seq(Record) /\ Len(Waiting(p)) \in Nat
  BY WaitingFacts
<1>9. /\ \A i \in 1..Len(Waiting(p)) : i \in 1..Len(Waiting(p) \o new) /\ (Waiting(p) \o new)[i] = Waiting(p)[i]
      /\ \A i \in 1..Len(Waiting(p) \o new) :
             \/ i \in 1..Len(Waiting(p)) /\ (Waiting(p) \o new)[i] = Waiting(p)[i]
             \/ \E j \in 1..Len(new) : (Waiting(p) \o new)[i] = new[j]
  <2> DEFINE v == Waiting(p)
             z == v \o new
  <2>1. Len(z) = Len(v) + Len(new) /\ \A i \in 1..Len(v) + Len(new) : z[i] = IF i <= Len(v) THEN v[i] ELSE new[i - Len(v)]
    BY <1>4, <1>w, ConcatProperties
  <2> HIDE DEF v, z
  <2>2. Len(v) \in Nat /\ Len(new) \in Nat
    BY <1>4, <1>w DEF v
  <2>3. \A i \in 1..Len(v) : i \in 1..Len(z) /\ z[i] = v[i]
    BY <2>1, <2>2
  <2>4. ASSUME NEW i \in 1..Len(z) PROVE (i \in 1..Len(v) /\ z[i] = v[i]) \/ \E j \in 1..Len(new) : z[i] = new[j]
    <3>1. CASE i <= Len(v)
      BY <2>1, <2>2, <3>1
    <3>2. CASE i > Len(v)
      <4>1. i - Len(v) \in 1..Len(new) /\ z[i] = new[i - Len(v)]
        BY <2>1, <2>2, <3>2
      <4> QED BY <4>1
    <3> QED BY <2>1, <2>2, <3>1, <3>2
  <2> QED BY <2>3, <2>4 DEF v, z
<1>10. ASSUME NEW q \in Process, q # p PROVE CountsRight(q)'
  <2>1. model'[q] = model[q] /\ offset' = offset
    BY <1>6, <1>10 DEF TypeOK
  <2>2. CountsOf(q, model[q], offset[q])
    BY DEF AllRight, CountsRight
  <2>3. ASSUME NEW n \in Id, n > ids' PROVE model[q][n] = 0
    <3>1. n > ids
      BY <1>2, <1>4, <1>6, <2>3, StoreAssumption DEF Id
    <3> QED BY <2>2, <3>1 DEF CountsOf
  <2>4. ASSUME NEW w \in Writer, w # q, NEW i \in 1..Len(Waiting(w)')
        PROVE  model[q][Waiting(w)'[i].id] = 0
    <3>1. CASE w # p
      BY <1>8, <2>2, <2>4, <3>1 DEF CountsOf
    <3>2. CASE w = p /\ i \in 1..Len(Waiting(p)) /\ Waiting(p)'[i] = Waiting(p)[i]
      BY <2>2, <2>4, <3>2 DEF CountsOf
    <3>3. ASSUME w = p, NEW j \in 1..Len(new), Waiting(p)'[i] = new[j]
          PROVE  model[q][Waiting(w)'[i].id] = 0
      <4>1. new[j] \in Record
        BY <1>4
      <4>2. new[j].id \in Id /\ new[j].id > ids
        BY <1>2, <1>4, <1>5, <4>1 DEF Record
      <4> QED BY <2>2, <3>3, <4>2 DEF CountsOf
    <3> QED BY <1>8, <1>9, <2>4, <3>1, <3>2, <3>3
  <2>5. Clean(q)' => Clean(q)
    BY <1>6, <1>8, <1>10 DEF Clean
  <2> QED BY <1>6, <2>1, <2>2, <2>3, <2>4, <2>5 DEF CountsRight, CountsOf
<1>11. CountsRight(p)'
  <2> DEFINE r == Replay(model[p], new, DOMAIN new)
  <2>1. model'[p] = r /\ offset' = offset
    BY <1>6, <1>7 DEF TypeOK
  <2>2. CountsOf(p, model[p], offset[p])
    BY <1>7 DEF AllRight, CountsRight
  <2>3. model[p] \in Model /\ \A n \in Id : model[p][n] \in Nat
    BY <1>7, UiFacts
  <2>4. \A n \in Id : (\A i \in DOMAIN new : new[i].id # n) =>
            r[n] = IF \E i \in DOMAIN new : IsWipe(new[i]) THEN 0 ELSE model[p][n]
    BY <2>3, ReplayOthers
  <2>5. ASSUME NEW n \in Id, n > ids' \/ n <= ids PROVE \A i \in DOMAIN new : new[i].id # n
    BY <1>2, <1>4, <1>5, <1>6, <2>5, StoreAssumption DEF Id
  <2>6. ASSUME NEW n \in Id, n > ids' PROVE r[n] = 0
    <3>1. n > ids
      BY <1>2, <1>4, <1>6, <2>6, StoreAssumption DEF Id
    <3>2. model[p][n] = 0
      BY <2>2, <3>1 DEF CountsOf
    <3> QED BY <2>4, <2>5, <2>6, <3>2
  <2>7. ASSUME NEW w \in Writer, w # p, NEW i \in 1..Len(Waiting(w)) PROVE r[Waiting(w)[i].id] = 0
    <3>1. Waiting(w)[i].id \in Id /\ Waiting(w)[i].id <= ids
      BY WaitingFacts
    <3>2. model[p][Waiting(w)[i].id] = 0
      BY <2>2, <2>7 DEF CountsOf
    <3> QED BY <2>4, <2>5, <3>1, <3>2
  <2>8. Clean(p)' => Clean(p) /\ \A i \in DOMAIN new : ~IsWipe(new[i])
    <3> SUFFICES ASSUME Clean(p)' PROVE Clean(p) /\ \A i \in DOMAIN new : ~IsWipe(new[i])
      OBVIOUS
    <3>1. \A i \in 1..Len(Waiting(p) \o new) : Choice((Waiting(p) \o new)[i])
      BY <1>8 DEF Clean
    <3>2. \A i \in 1..Len(Waiting(p)) : Choice(Waiting(p)[i])
      BY <1>9, <3>1
    <3>3. ASSUME NEW j \in 1..Len(new) PROVE ~IsWipe(new[j])
      <4>1. Len(Waiting(p)) + j \in 1..Len(Waiting(p) \o new) /\ (Waiting(p) \o new)[Len(Waiting(p)) + j] = new[j]
        BY <1>4, <1>w
      <4> QED BY <3>1, <4>1 DEF Choice
    <3> QED BY <1>4, <1>6, <3>2, <3>3 DEF Clean
  <2>9. ASSUME NEW k \in 1..Len(journal), journal[k].by # p, Choice(journal[k])
        PROVE  /\ r[journal[k].id] <= (IF k <= offset[p] THEN 1 ELSE 0)
               /\ Clean(p)' /\ k <= offset[p] => r[journal[k].id] = 1
    <3>1. journal[k].id \in Id /\ journal[k].id <= ids
      BY <1>7, JournalFacts
    <3>2. /\ model[p][journal[k].id] <= (IF k <= offset[p] THEN 1 ELSE 0)
          /\ Clean(p) /\ k <= offset[p] => model[p][journal[k].id] = 1
      BY <2>2, <2>9 DEF CountsOf
    <3>3. r[journal[k].id] = IF \E i \in DOMAIN new : IsWipe(new[i]) THEN 0 ELSE model[p][journal[k].id]
      BY <2>4, <2>5, <3>1
    <3> HIDE DEF r
    <3> QED BY <2>8, <3>2, <3>3
  <2> HIDE DEF r
  <2> QED BY <1>6, <1>8, <2>1, <2>6, <2>7, <2>9 DEF CountsRight, CountsOf
<1>12. ASSUME NEW q \in Process PROVE PlacesRight(q)'
  BY <1>6, PlacesKept DEF AllRight
<1> QED BY <1>7, <1>10, <1>11, <1>12 DEF AllRight

\* recv moves a record from the channel to the thread's hands.
LEMMA FreshReceive ==
    ASSUME TypeOK, IdInv, AllRight, NEW p \in Writer, Receive(p)
    PROVE  AllRight'
<1>1. /\ queue[p] # <<>> /\ writer[p] = "idle" /\ writer' = [writer EXCEPT ![p] = "waiting"]
      /\ rec' = [rec EXCEPT ![p] = <<Head(queue[p])>>]
      /\ queue' = [queue EXCEPT ![p] = Tail(queue[p])]
      /\ UNCHANGED <<journal, snapshot, written, dropped, ids, look, offset, own, model, end>>
  BY DEF Receive, WriterGoes, disk, uiVars, bounds, history
<1>2. rec[p] = <<>>
  BY <1>1 DEF IdInv, OneTaken
<1>3. /\ queue[p] \in Seq(Record) /\ rec \in [Process -> Seq(Record)]
      /\ queue \in [Process -> Seq(Record)] /\ writer \in [Process -> WriterStep] /\ p \in Process
  BY DEF TypeOK, Process
<1>4. <<Head(queue[p])>> \o Tail(queue[p]) = <<>> \o queue[p]
  BY <1>1, <1>3
<1>5. \A q \in Writer : Waiting(q)' = Waiting(q)
  BY <1>1, <1>2, <1>3, <1>4 DEF Waiting, Process
<1>6. NothingTaken'
  BY <1>1, <1>3 DEF AllRight, NothingTaken, Process
<1>7. ASSUME NEW q \in Process PROVE CountsRight(q)'
  BY <1>1, <1>5 DEF AllRight, CountsRight, CountsOf, Clean
<1>8. ASSUME NEW q \in Process PROVE PlacesRight(q)'
  <2>1. writer'[q] = "pushing" => writer[q] = "pushing"
    BY <1>1, <1>3
  <2> QED BY <1>1, <2>1, PlacesKept DEF AllRight
<1> QED BY <1>6, <1>7, <1>8 DEF AllRight

\* The append: a place past every other process's offset.
LEMMA FreshAppend ==
    ASSUME TypeOK, IdInv, AllRight, NEW p \in Writer, AppendRecord(p)
    PROVE  AllRight'
<1>1. PICK x \in Record : /\ rec[p] = <<x>> /\ WaitingOf[p] = <<x>> \o queue[p]
                          /\ journal' = journal \o <<x>> /\ written' = written \o <<x>>
                          /\ \A k \in 1..Len(written) : written[k].id # x.id
  BY TakenIsFresh
<1>2. /\ rec' = [rec EXCEPT ![p] = <<>>] /\ writer' = [writer EXCEPT ![p] = "pushing"]
      /\ end' = [end EXCEPT ![p] = Len(journal) + 1]
      /\ UNCHANGED <<snapshot, queue, ids, dropped, look, offset, own, model>>
  BY DEF AppendRecord, WriterGoes, uiVars, bounds
<1>3. /\ journal \in Seq(Record) /\ Len(journal) \in Nat /\ p \in Process
      /\ rec \in [Process -> Seq(Record)] /\ queue[p] \in Seq(Record)
      /\ writer \in [Process -> WriterStep] /\ end \in [Process -> Nat]
  BY SMTT(20) DEF TypeOK, Process
<1>4. NothingTaken /\ NothingTaken'
  BY <1>1, <1>2, <1>3 DEF AllRight, NothingTaken, Process
<1>5. /\ Len(journal') = Len(journal) + 1 /\ journal'[Len(journal) + 1] = x
      /\ \A k \in 1..Len(journal) : k \in 1..Len(journal') /\ journal'[k] = journal[k]
      /\ \A k \in 1..Len(journal') : k \in 1..Len(journal) \/ k = Len(journal) + 1
  <2>1. Len(journal') = Len(journal) + 1 /\ journal'[Len(journal) + 1] = x
    BY <1>1, <1>3
  <2>2. \A k \in 1..Len(journal) : k \in 1..Len(journal') /\ journal'[k] = journal[k]
    BY <1>1, <1>3
  <2> QED BY <1>3, <2>1, <2>2
<1>6. Waiting(p) = <<x>> \o queue[p] /\ Waiting(p)' = queue[p]
      /\ \A q \in Writer : q # p => Waiting(q)' = Waiting(q)
  <2>1. <<>> \o queue[p] = queue[p]
    BY <1>3
  <2> QED BY <1>1, <1>2, <1>3, <2>1 DEF Waiting, WaitingOf, Process
<1>7. /\ 1 \in 1..Len(Waiting(p)) /\ Waiting(p)[1] = x
      /\ \A i \in 1..Len(queue[p]) : i + 1 \in 1..Len(Waiting(p)) /\ Waiting(p)[i + 1] = queue[p][i]
  BY <1>3, <1>6
<1>8. x.by = p /\ x.id \in Id
  BY <1>7, WaitingFacts
<1>9. ASSUME NEW q \in Process PROVE CountsRight(q)'
  <2>1. CountsOf(q, model[q], offset[q]) /\ offset[q] <= Len(journal) /\ offset[q] \in Nat
    BY UiFacts DEF AllRight, CountsRight, PlacesRight
  <2>2. ASSUME NEW w \in Writer, w # q, NEW i \in 1..Len(Waiting(w)')
        PROVE  model[q][Waiting(w)'[i].id] = 0
    <3>1. CASE w # p
      BY <1>6, <2>1, <2>2, <3>1 DEF CountsOf
    <3>2. CASE w = p
      <4>1. i + 1 \in 1..Len(Waiting(p)) /\ Waiting(p)[i + 1] = Waiting(w)'[i]
        BY <1>6, <1>7, <2>2, <3>2
      <4> QED BY <2>1, <2>2, <3>2, <4>1 DEF CountsOf
    <3> QED BY <3>1, <3>2
  <2>3. Clean(q)' => Clean(q)
    <3> SUFFICES ASSUME Clean(q)' PROVE Clean(q)
      OBVIOUS
    <3>1. \A k \in 1..Len(journal') : Choice(journal'[k])
      BY <1>4 DEF Clean, NothingTaken
    <3>2. \A k \in 1..Len(written) : Choice(written[k])
      BY <1>4, <1>5, <3>1 DEF NothingTaken
    <3>3. ASSUME q \in Writer, NEW i \in 1..Len(Waiting(q)) PROVE Choice(Waiting(q)[i])
      <4>1. CASE q # p
        BY <1>6, <3>3, <4>1 DEF Clean
      <4>2. CASE q = p
        <5>1. Choice(x)
          BY <1>3, <1>5, <3>1
        <5>2. \A j \in 1..Len(queue[p]) : Choice(queue[p][j])
          BY <1>6, <4>2 DEF Clean
        <5>3. i = 1 \/ (i - 1 \in 1..Len(queue[p]) /\ Waiting(p)[i] = queue[p][i - 1])
          BY <1>3, <1>6, <3>3, <4>2
        <5> QED BY <1>7, <4>2, <5>1, <5>2, <5>3
      <4> QED BY <4>1, <4>2
    <3> QED BY <1>2, <3>2, <3>3 DEF Clean
  <2>4. ASSUME NEW k \in 1..Len(journal'), journal'[k].by # q, Choice(journal'[k])
        PROVE  /\ model[q][journal'[k].id] <= (IF k <= offset[q] THEN 1 ELSE 0)
               /\ Clean(q)' /\ k <= offset[q] => model[q][journal'[k].id] = 1
    <3>1. CASE k \in 1..Len(journal)
      BY <1>5, <2>1, <2>3, <2>4, <3>1 DEF CountsOf
    <3>2. CASE k = Len(journal) + 1
      <4>1. ~(k <= offset[q]) /\ q # p
        BY <1>3, <1>5, <1>8, <2>1, <2>4, <3>2
      <4>2. model[q][x.id] = 0
        BY <1>7, <2>1, <4>1 DEF CountsOf
      <4> QED BY <1>5, <3>2, <4>1, <4>2
    <3> QED BY <1>5, <3>1, <3>2
  <2> QED BY <1>2, <2>1, <2>2, <2>4 DEF CountsRight, CountsOf
<1>10. ASSUME NEW q \in Process PROVE PlacesRight(q)'
  <2>1. PlacesRight(q) /\ offset[q] \in Nat /\ look[q].journal \in Seq(Record)
    BY UiFacts DEF AllRight
  <2>2. Begins(look[q].journal, journal')
    <3>1. Begins(look[q].journal, journal) /\ Len(look[q].journal) \in Nat
      BY <2>1 DEF PlacesRight
    <3>2. \A k \in 1..Len(look[q].journal) : k \in 1..Len(journal) /\ look[q].journal[k] = journal[k]
      BY <1>3, <3>1 DEF Begins
    <3>3. Len(look[q].journal) <= Len(journal')
      BY <1>3, <1>5, <3>1 DEF Begins
    <3> QED BY <1>5, <3>2, <3>3 DEF Begins
  <2>3. offset[q] <= Len(journal')
    BY <1>3, <1>5, <2>1 DEF PlacesRight
  <2>4. \A k \in Id : own[q][k] > 0 => k \in 1..Len(journal') /\ journal'[k].by = q
    BY <1>5, <2>1 DEF PlacesRight
  <2>5. writer'[q] = "pushing" => end'[q] \in 1..Len(journal') /\ journal'[end'[q]].by = q
    <3>1. CASE q = p
      BY <1>2, <1>3, <1>5, <1>8, <3>1
    <3>2. CASE q # p
      BY <1>2, <1>3, <1>5, <2>1, <3>2 DEF PlacesRight
    <3> QED BY <3>1, <3>2
  <2> QED BY <1>2, <2>2, <2>3, <2>4, <2>5 DEF PlacesRight
<1> QED BY <1>4, <1>9, <1>10 DEF AllRight

\* A failed append: what waits is one record less, and if that was a wipe it is not
\* forgotten that one was lost.
LEMMA FreshAppendFails ==
    ASSUME TypeOK, IdInv, AllRight, NEW p \in Writer, AppendFails(p)
    PROVE  AllRight'
<1>1. /\ writer[p] = "appending" /\ writer' = [writer EXCEPT ![p] = "idle"]
      /\ rec' = [rec EXCEPT ![p] = <<>>] /\ dropped' = dropped \union Range(rec[p])
      /\ UNCHANGED <<journal, snapshot, written, queue, ids, look, offset, own, model, end>>
  BY DEF AppendFails, WriterGoes, disk, uiVars
<1>2. PICK x \in Record : rec[p] = <<x>> /\ WaitingOf[p] = <<x>> \o queue[p]
  BY <1>1, TakenRecord
<1>3. /\ p \in Process /\ rec \in [Process -> Seq(Record)] /\ queue[p] \in Seq(Record)
      /\ writer \in [Process -> WriterStep]
  BY SMTT(20) DEF TypeOK, Process
<1>4. Waiting(p) = <<x>> \o queue[p] /\ Waiting(p)' = queue[p]
      /\ \A q \in Writer : q # p => Waiting(q)' = Waiting(q)
  <2>1. <<>> \o queue[p] = queue[p]
    BY <1>3
  <2> QED BY <1>1, <1>2, <1>3, <2>1 DEF Waiting, WaitingOf, Process
<1>5. \A i \in 1..Len(queue[p]) : i + 1 \in 1..Len(Waiting(p)) /\ Waiting(p)[i + 1] = queue[p][i]
  BY <1>3, <1>4
<1>6. \A i \in 1..Len(Waiting(p)) :
          Waiting(p)[i] = x \/ (i - 1 \in 1..Len(queue[p]) /\ Waiting(p)[i] = queue[p][i - 1])
  BY <1>3, <1>4
<1>7. x \in dropped'
  BY <1>1, <1>2 DEF Range
<1>8. NothingTaken'
  BY <1>1, <1>3 DEF AllRight, NothingTaken, Process
<1>9. ASSUME NEW q \in Process PROVE CountsRight(q)'
  <2>1. CountsOf(q, model[q], offset[q])
    BY DEF AllRight, CountsRight
  <2>2. Clean(q)' => Clean(q)
    <3> SUFFICES ASSUME Clean(q)' PROVE Clean(q)
      OBVIOUS
    <3>1. /\ \A k \in 1..Len(written) : Choice(written[k])
          /\ \A r \in dropped : Choice(r)
          /\ Choice(x)
      BY <1>1, <1>7 DEF Clean
    <3>2. ASSUME q \in Writer, NEW i \in 1..Len(Waiting(q)) PROVE Choice(Waiting(q)[i])
      <4>1. CASE q # p
        BY <1>4, <3>2, <4>1 DEF Clean
      <4>2. CASE q = p
        <5>1. \A j \in 1..Len(queue[p]) : Choice(queue[p][j])
          BY <1>4, <4>2 DEF Clean
        <5> QED BY <1>6, <3>1, <3>2, <4>2, <5>1
      <4> QED BY <4>1, <4>2
    <3> QED BY <3>1, <3>2 DEF Clean
  <2>3. ASSUME NEW w \in Writer, w # q, NEW i \in 1..Len(Waiting(w)')
        PROVE  model[q][Waiting(w)'[i].id] = 0
    <3>1. CASE w # p
      BY <1>4, <2>1, <2>3, <3>1 DEF CountsOf
    <3>2. CASE w = p
      <4>1. i + 1 \in 1..Len(Waiting(p)) /\ Waiting(p)[i + 1] = Waiting(w)'[i]
        BY <1>4, <1>5, <2>3, <3>2
      <4> QED BY <2>1, <2>3, <3>2, <4>1 DEF CountsOf
    <3> QED BY <3>1, <3>2
  <2> QED BY <1>1, <2>1, <2>2, <2>3 DEF CountsRight, CountsOf
<1>10. ASSUME NEW q \in Process PROVE PlacesRight(q)'
  <2>1. writer'[q] = "pushing" => writer[q] = "pushing"
    BY <1>1, <1>3
  <2> QED BY <1>1, <2>1, PlacesKept DEF AllRight
<1> QED BY <1>8, <1>9, <1>10 DEF AllRight

\* The place a thread notes is its own record's.
LEMMA FreshPush ==
    ASSUME TypeOK, AllRight, NEW p \in Writer, PushOwn(p)
    PROVE  AllRight'
<1> DEFINE e == end[p]
           f == [own[p] EXCEPT ![e] = own[p][e] + 1]
<1>1. /\ writer[p] = "pushing"
      /\ writer' = [writer EXCEPT ![p] = IF e > CompactAt THEN "acquire" ELSE "idle"]
      /\ own' = [own EXCEPT ![p] = f]
      /\ UNCHANGED <<journal, written, dropped, snapshot, look, model, offset, rec, queue, ids>>
      /\ end' = [end EXCEPT ![p] = 0]
  BY DEF PushOwn, WriterGoes, disk, uiVars, bounds, history
<1>2. /\ own \in [Process -> [Id -> Nat]] /\ own[p] \in [Id -> Nat] /\ p \in Process
      /\ writer \in [Process -> WriterStep] /\ end \in [Process -> Nat]
  BY DEF TypeOK, Process
<1>3. NothingTaken'
  BY <1>1, <1>2 DEF AllRight, NothingTaken, Process
<1>4. ASSUME NEW q \in Process PROVE CountsRight(q)'
  BY <1>1, CountsKept DEF AllRight
<1>5. ASSUME NEW q \in Process, q # p PROVE PlacesRight(q)'
  BY <1>1, <1>2, <1>5, PlacesKept DEF AllRight
<1>6. PlacesRight(p)'
  <2>1. PlacesRight(p) /\ e \in 1..Len(journal) /\ journal[e].by = p
    BY <1>1, <1>2 DEF AllRight, PlacesRight
  <2>2. \A k \in Id : f[k] = IF k = e THEN own[p][e] + 1 ELSE own[p][k]
    BY <1>2
  <2>3. own'[p] = f /\ writer'[p] # "pushing"
    BY <1>1, <1>2
  <2> HIDE DEF e, f
  <2>4. \A k \in Id : own'[p][k] > 0 => k \in 1..Len(journal) /\ journal[k].by = p
    BY <2>1, <2>2, <2>3 DEF PlacesRight
  <2> QED BY <1>1, <2>1, <2>3, <2>4 DEF PlacesRight
<1> QED BY <1>3, <1>4, <1>5, <1>6 DEF AllRight

\* Every step before the first compaction keeps places and counts right.
LEMMA FreshStep == TypeOK /\ IdInv /\ FreshInv /\ [Next]_vars => FreshInv'
<1> SUFFICES ASSUME TypeOK, IdInv, FreshInv, [Next]_vars, snapshot'.stamp = 0 PROVE AllRight'
  BY DEF FreshInv, AllRight
<1>1. ASSUME NEW p \in Writer PROVE ~CompactWriteSnapshot(p)
  <2> SUFFICES ASSUME CompactWriteSnapshot(p) PROVE FALSE
    OBVIOUS
  <2>1. snapshot'.stamp = snapshot.stamp + 1 /\ snapshot.stamp \in Nat
    BY DEF CompactWriteSnapshot, TypeOK
  <2> QED BY <2>1
<1>2. AllRight
  <2>1. snapshot.stamp = 0
    <3>1. ASSUME NEW p \in Writer, AppendRecord(p) \/ BreakLock(p) PROVE snapshot' = snapshot
      BY <3>1 DEF AppendRecord, BreakLock
    <3>2. snapshot' = snapshot
      BY <1>1, <3>1, WhatChangesThem
    <3> QED BY <3>2
  <2> QED BY <2>1 DEF FreshInv, AllRight
<1>3. ASSUME NEW p \in Writer PROVE ~CompactReadTail(p) /\ ~CompactWriteJournal(p)
  BY <1>2 DEF AllRight, NothingTaken, CompactReadTail, CompactWriteJournal, WriterGoes
<1>4. CASE UNCHANGED vars \/ AgeLock
  BY <1>2, <1>4, FreshIdle DEF vars, AgeLock, disk, uiVars, writerVars, bounds, history
<1>5. ASSUME NEW p \in Process, Open(p) \/ Loading(p) \/ Sync(p) \/ Crash(p) PROVE AllRight'
  BY <1>2, <1>5, FreshLook, FreshLoad, FreshTail, FreshCrash DEF Loading, Sync
<1>6. ASSUME NEW p \in Writer, (\E kinds \in Calls : Record_(p, kinds)) \/ Receive(p) \/ AppendRecord(p)
                               \/ AppendFails(p) \/ PushOwn(p)
      PROVE  AllRight'
  BY <1>2, <1>6, FreshRequest, FreshReceive, FreshAppend, FreshAppendFails, FreshPush
<1>7. ASSUME NEW p \in Writer,
             \/ WaitOver(p) \/ Acquire(p) \/ AcquireFails(p) \/ FindStale(p) \/ BreakLock(p)
             \/ CompactRead(p) \/ CompactMergeJournal(p) \/ CompactMergeSnapshot(p)
             \/ ReplaceFails(p) \/ Unlock(p)
      PROVE  AllRight'
  <2>1. UNCHANGED <<journal, written, dropped, snapshot, look, model, offset, own, rec, queue, ids, end>>
    BY <1>7 DEF WaitOver, Acquire, AcquireFails, FindStale, BreakLock, CompactRead, CompactMergeJournal,
                CompactMergeSnapshot, ReplaceFails, Unlock, disk, uiVars, bounds, history
  <2>2. \A q \in Process : /\ writer'[q] = "pushing" => writer[q] = "pushing"
                           /\ writer'[q] \in {"readTail", "writeJournal"} => writer'[q] = writer[q]
    BY <1>7 DEF WaitOver, Acquire, AcquireFails, FindStale, BreakLock, CompactRead, CompactMergeJournal,
                CompactMergeSnapshot, ReplaceFails, Unlock, WriterGoes, TypeOK, Process
  <2> QED BY <1>2, <2>1, <2>2, FreshIdle
<1>8. ASSUME NEW p \in Writer, PositionUnknown(p) PROVE AllRight'
  <2>1. UNCHANGED <<journal, written, dropped, snapshot, look, model, offset, own, rec, queue, ids>>
    BY <1>8 DEF PositionUnknown, disk, uiVars, history
  <2>2. \A q \in Process : /\ writer'[q] = "pushing" => writer[q] = "pushing" /\ end'[q] = end[q]
                           /\ writer'[q] \in {"readTail", "writeJournal"} => writer'[q] = writer[q]
    BY <1>8 DEF PositionUnknown, WriterGoes, TypeOK, Process
  <2> QED BY <1>2, <2>1, <2>2, FreshIdle
<1> QED BY <1>1, <1>3, <1>4, <1>5, <1>6, <1>7, <1>8, StoreAssumption DEF Next, WriterThread, Compact, Process

\* At first nothing is there to count.
LEMMA FreshInit == Init => FreshInv
<1> SUFFICES ASSUME Init PROVE FreshInv
  OBVIOUS
<1>1. NothingTaken
  BY DEF Init, NothingTaken, NoSnapshot, Process
<1>2. TypeOK /\ IdInv
  BY TypeInit, IdInit
<1>3. ASSUME NEW p \in Process PROVE CountsRight(p)
  BY <1>1, <1>2, EmptyCounts DEF Init, CountsRight
<1>4. ASSUME NEW p \in Process PROVE PlacesRight(p)
  BY DEF Init, PlacesRight, NoLook, NoEntries, Begins
<1> QED BY <1>1, <1>3, <1>4 DEF FreshInv

\* Before the first compaction every other process's record up to a process's offset
\* is in its memory exactly once, however appends, syncs, reloads and crashes interleave.
THEOREM OthersCountOnce == Spec => []OthersOnce
<1>1. TypeOK /\ IdInv /\ FreshInv => OthersOnce
  <2> SUFFICES ASSUME TypeOK, IdInv, FreshInv, snapshot.stamp = 0,
                      NEW p \in Process, NEW k \in DOMAIN journal,
                      journal[k].by # p, Choice(journal[k])
               PROVE  /\ model[p][journal[k].id] <= (IF k <= offset[p] THEN 1 ELSE 0)
                      /\ NoWipe /\ k <= offset[p] => model[p][journal[k].id] = 1
    BY DEF OthersOnce
  <2>1. k \in 1..Len(journal) /\ CountsRight(p)
    BY SMTT(20) DEF FreshInv, TypeOK
  <2>2. NoWipe => Clean(p)
    <3> SUFFICES ASSUME NoWipe PROVE Clean(p)
      OBVIOUS
    <3>1. \A i \in 1..Len(written) : written[i] \in Range(written)
      <4>1. DOMAIN written = 1..Len(written)
        BY DEF TypeOK
      <4> QED BY <4>1 DEF Range
    <3>2. ASSUME p \in Writer, NEW i \in 1..Len(Waiting(p)) PROVE Choice(Waiting(p)[i])
      <4>1. rec[p] \in Seq(Record) /\ queue[p] \in Seq(Record)
        BY DEF TypeOK
      <4>2. Waiting(p)[i] \in Range(rec[p] \o queue[p])
        <5>1. DOMAIN (rec[p] \o queue[p]) = 1..Len(rec[p] \o queue[p])
          BY <4>1
        <5> QED BY <3>2, <5>1 DEF Waiting, Range
      <4>3. Waiting(p)[i] \in Range(queue[p] \o rec[p])
        <5>1. /\ Range(queue[p] \o rec[p]) = Range(queue[p]) \union Range(rec[p])
              /\ Range(rec[p] \o queue[p]) = Range(rec[p]) \union Range(queue[p])
          BY <4>1, RangeConcatenation
        <5> QED BY <4>2, <5>1
      <4> QED BY <3>2, <4>3 DEF NoWipe, Committed
    <3>3. \A r \in dropped : Choice(r)
      BY DEF NoWipe, Committed
    <3> QED BY <3>1, <3>2, <3>3 DEF Clean, NoWipe, Committed
  <2> QED BY <2>1, <2>2 DEF CountsRight, CountsOf
<1>2. TypeOK /\ IdInv /\ FreshInv /\ [Next]_vars => (TypeOK /\ IdInv /\ FreshInv)'
  BY TypeStep, IdStep, FreshStep
<1>3. Init => TypeOK /\ IdInv /\ FreshInv
  BY TypeInit, IdInit, FreshInit
<1> QED BY <1>1, <1>2, <1>3, PTL DEF Spec
=============================================================================
