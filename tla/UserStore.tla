----------------------------- MODULE UserStore -----------------------------
(***************************************************************************)
(* The persistent user store (crates/t3a-engine/src/store.rs): every       *)
(* process that loads the keyboard has its own UserStore over the same     *)
(* journal.t3j, snapshot.t3u and compact.lock.  A process is two threads:  *)
(* the UI thread (record, wipe, sync, open) and the writer thread, which   *)
(* appends what the UI thread sends it and compacts a long journal.        *)
(*                                                                         *)
(* A record stands for 128 bytes of the journal; offsets, lengths and      *)
(* COMPACT_AT_BYTES count whole records, places in the journal start at 1. *)
(* A MemoryUser is how often each record has been applied to it since it   *)
(* was last reset.  Eviction (MAX_KEYS) and torn records are left out.     *)
(* Each file operation is one step.                                        *)
(***************************************************************************)
EXTENDS Naturals, Sequences, FiniteSets, Functions

CONSTANTS
    Writer,      \* processes that may write (UserStore::open, read_only = false)
    Reader,      \* read-only processes (AppContainer, secure desktop)
    Composer,    \* the ones that compose words and so call sync; Settings never does
    CompactAt,   \* COMPACT_AT_BYTES, in records
    PrefixCap,   \* records in the 4096 bytes SnapshotMark::prefix_of hashes
    SlowHolder,  \* TRUE: a live compaction may outlast LOCK_WAIT and LOCK_STALE
    MaxRecords,  \* bound: records committed in a behaviour
    MaxCrashes,  \* bound: process deaths in a behaviour
    MaxFailures  \* bound: writes of a file that return an error

ASSUME StoreAssumption ==
    /\ Writer \intersect Reader = {} /\ Composer \subseteq Writer \union Reader
    /\ CompactAt \in Nat /\ PrefixCap \in Nat \ {0}
    /\ SlowHolder \in BOOLEAN
    /\ MaxRecords \in Nat /\ MaxCrashes \in Nat /\ MaxFailures \in Nat

Process == Writer \union Reader
Kind == {"choose", "negative", "wipe"}
Id == 1..MaxRecords
Record == [id : Id, by : Writer, kind : Kind]
Model == [Id -> Nat]
IsWipe(r) == r.kind = "wipe"

Compacting ==   \* the writer thread is between LockFile::acquire and its drop
    {"readJournal", "mergeJournal", "mergeSnapshot", "writeSnapshot",
     "readTail", "writeJournal", "unlock"}
WriterStep ==
    {"idle", "waiting", "appending", "pushing", "acquire", "breaking"} \union Compacting
UiStep == {"down", "loadJournal", "loadSnapshot", "idle", "tail"}

VARIABLES
    journal,    \* journal.t3j
    snapshot,   \* snapshot.t3u: the model, SnapshotMark, and its (length, mtime)
    lock,       \* compact.lock: "none", "fresh" or "stale" (older than LOCK_STALE)
    ui,         \* step of each UI thread
    look,       \* what the UI thread's load has read so far
    model,      \* UserStore::model
    offset,     \* UserStore::last_journal_offset
    stamp,      \* UserStore::snapshot_stamp
    own,        \* UserStore::own: how many entries it holds for each journal place
    queue,      \* the channel to the writer thread
    writer,     \* step of each writer thread
    rec,        \* the record (or nothing) the writer thread took
    end,        \* journal length after its append (stream_position)
    tries,      \* attempts of LockFile::acquire already made
    first,      \* the journal as the running compaction read it first
    again,      \* the journal as its load_all read it
    merged,     \* the model its load_all returned
    rest,       \* the records for the new journal
    ids, crashes, failures, \* bound counters
    written,    \* history: records in the order of their appends
    exposed,    \* history: records appended inside a compaction's blind spots
    dropped,    \* history: records whose append returned an error
    broken      \* history: a lock file was removed as stale

disk == <<journal, snapshot, lock>>
uiVars == <<ui, look, model, offset, stamp>>
job == <<first, again, merged, rest>>
writerVars == <<writer, rec, end, tries, job>>
bounds == <<ids, crashes, failures>>
history == <<written, exposed, dropped, broken>>
vars == <<disk, uiVars, own, queue, writerVars, bounds, history>>

-----------------------------------------------------------------------------
(* Replay: apply, replay_bytes, load_all, SnapshotMark::prefix_of.         *)

MinOf(a, b) == IF a < b THEN a ELSE b

EmptyModel == [n \in Id |-> 0]   \* MemoryUser::new

\* m after applying, in order, the records at the places K of s: a wipe resets
\* the model, any other record counts once more.
Replay(m, s, K) ==
    [n \in Id |->
        (IF \E k \in K : IsWipe(s[k]) THEN 0 ELSE m[n])
        + Cardinality({k \in K : s[k].id = n /\ \A j \in K : j >= k => ~IsWipe(s[j])})]

PrefixOf(j, consumed) == SubSeq(j, 1, MinOf(Len(j), MinOf(consumed, PrefixCap)))

StillThereByLength(j, snap) == snap.consumed <= Len(j)   \* mutant: no prefix_hash

StillThere(j, snap) ==
    /\ snap.consumed <= Len(j)
    /\ PrefixOf(j, snap.consumed) = snap.prefix

\* load_all: the records that the snapshot does not contain are replayed on it.
LoadAll(j, snap) ==
    Replay(snap.model, j,
           (IF StillThere(j, snap) THEN snap.consumed ELSE 0) + 1 .. Len(j))

NoEntries == [k \in Id |-> 0]
NoLook == [stamp |-> 0, journal |-> <<>>]
NoSnapshot == [model |-> EmptyModel, consumed |-> 0, prefix |-> <<>>, stamp |-> 0]

Init ==
    /\ journal = <<>> /\ snapshot = NoSnapshot /\ lock = "none"
    /\ ui = [p \in Process |-> "down"]
    /\ look = [p \in Process |-> NoLook]
    /\ model = [p \in Process |-> EmptyModel]
    /\ offset = [p \in Process |-> 0]
    /\ stamp = [p \in Process |-> 0]
    /\ own = [p \in Process |-> NoEntries]
    /\ queue = [p \in Process |-> <<>>]
    /\ writer = [p \in Process |-> "idle"]
    /\ rec = [p \in Process |-> <<>>]
    /\ end = [p \in Process |-> 0]
    /\ tries = [p \in Process |-> 0]
    /\ first = [p \in Process |-> <<>>]
    /\ again = [p \in Process |-> <<>>]
    /\ merged = [p \in Process |-> EmptyModel]
    /\ rest = [p \in Process |-> <<>>]
    /\ ids = 0 /\ crashes = 0 /\ failures = 0
    /\ written = <<>> /\ exposed = {} /\ dropped = {} /\ broken = FALSE

-----------------------------------------------------------------------------
(* The UI thread: open, record, wipe, sync.                                *)

UiGoes(p, from, to) == ui[p] = from /\ ui' = [ui EXCEPT ![p] = to]

\* UserStore::open notes the snapshot's stamp before it loads anything.
Open(p) ==
    /\ UiGoes(p, "down", "loadJournal")
    /\ look' = [look EXCEPT ![p] = [stamp |-> snapshot.stamp, journal |-> <<>>]]
    /\ UNCHANGED <<disk, model, offset, stamp, own, queue, writerVars, bounds, history>>

\* load_all reads the journal first and the snapshot after it.
LoadJournal(p) ==
    /\ UiGoes(p, "loadJournal", "loadSnapshot")
    /\ look' = [look EXCEPT ![p] = [stamp |-> look[p].stamp, journal |-> journal]]
    /\ UNCHANGED <<disk, model, offset, stamp, own, queue, writerVars, bounds, history>>

\* The second half of load_all, and what open or sync do with its result.
LoadSnapshot(p) ==
    /\ UiGoes(p, "loadSnapshot", "idle")
    /\ model' = [model EXCEPT ![p] = LoadAll(look[p].journal, snapshot)]
    /\ offset' = [offset EXCEPT ![p] = Len(look[p].journal)]
    /\ stamp' = [stamp EXCEPT ![p] = look[p].stamp]
    /\ own' = [own EXCEPT ![p] =
                  [k \in Id |-> IF k > Len(look[p].journal) THEN @[k] ELSE 0]]
    /\ look' = [look EXCEPT ![p] = NoLook]
    /\ UNCHANGED <<disk, queue, writerVars, bounds, history>>

SyncReloadIfShorter(p) ==   \* mutant: sync does not look at the snapshot
    /\ Len(journal) < offset[p]
    /\ UiGoes(p, "idle", "loadJournal")
    /\ look' = [look EXCEPT ![p] = [stamp |-> snapshot.stamp, journal |-> <<>>]]
    /\ UNCHANGED <<disk, model, offset, stamp, own, queue, writerVars, bounds, history>>

\* sync compares the stamp and the length with what it knows.
SyncReload(p) ==
    /\ snapshot.stamp # stamp[p] \/ Len(journal) < offset[p]
    /\ UiGoes(p, "idle", "loadJournal")
    /\ look' = [look EXCEPT ![p] = [stamp |-> snapshot.stamp, journal |-> <<>>]]
    /\ UNCHANGED <<disk, model, offset, stamp, own, queue, writerVars, bounds, history>>

SyncGrown(p) ==
    /\ snapshot.stamp = stamp[p] /\ Len(journal) > offset[p]
    /\ UiGoes(p, "idle", "tail")
    /\ UNCHANGED <<disk, look, model, offset, stamp, own, queue, writerVars, bounds, history>>

ForeignByCount(p) ==   \* mutant: own records are taken to sit at the read offset
    offset[p] + 1 + Cardinality({k \in Id : own[p][k] > 0}) .. Len(journal)

\* The places past the offset whose records sync applies: not those in `own`.
Foreign(p) == {k \in offset[p]+1 .. Len(journal) : own[p][k] = 0}

\* sync reads to the end of the journal as it is by then, skips its own
\* records (one entry of `own` each) and applies the others.
SyncTail(p) ==
    /\ UiGoes(p, "tail", "idle")
    /\ model' = [model EXCEPT ![p] = Replay(@, journal, Foreign(p))]
    /\ own' = [own EXCEPT ![p] = [k \in Id |->
                  IF k \in offset[p]+1 .. Len(journal) /\ @[k] > 0 THEN @[k] - 1 ELSE @[k]]]
    /\ offset' = [offset EXCEPT ![p] = IF Len(journal) > @ THEN Len(journal) ELSE @]
    /\ UNCHANGED <<disk, look, stamp, queue, writerVars, bounds, history>>

\* The records one call sends: a choice, a choice with negative evidence, a wipe.
Calls == {<<"choose">>, <<"choose", "negative">>, <<"wipe">>}

\* record, wipe (and each record of import): memory first, then the channel.
Record_(p, kinds) ==
    LET new == [i \in DOMAIN kinds |-> [id |-> ids + i, by |-> p, kind |-> kinds[i]]]
    IN  /\ ui[p] = "idle" /\ ids + Len(kinds) <= MaxRecords
        /\ ids' = ids + Len(kinds)
        /\ model' = [model EXCEPT ![p] = Replay(@, new, DOMAIN new)]
        /\ queue' = [queue EXCEPT ![p] = @ \o new]
        /\ UNCHANGED <<disk, ui, look, offset, stamp, own, writerVars, crashes, failures, history>>

-----------------------------------------------------------------------------
(* The writer thread: recv, wait_for_compaction, append, compact.          *)

WriterGoes(p, from, to) == writer[p] = from /\ writer' = [writer EXCEPT ![p] = to]

ReceiveAll(p) ==   \* mutant: takes everything in the channel at once
    /\ queue[p] # <<>>
    /\ WriterGoes(p, "idle", "waiting")
    /\ rec' = [rec EXCEPT ![p] = queue[p]]
    /\ queue' = [queue EXCEPT ![p] = <<>>]
    /\ UNCHANGED <<disk, uiVars, own, end, tries, job, bounds, history>>

\* recv: the thread sleeps until the channel has a record.
Receive(p) ==
    /\ queue[p] # <<>>
    /\ WriterGoes(p, "idle", "waiting")
    /\ rec' = [rec EXCEPT ![p] = <<Head(queue[p])>>]
    /\ queue' = [queue EXCEPT ![p] = Tail(@)]
    /\ UNCHANGED <<disk, uiVars, own, end, tries, job, bounds, history>>

HolderAlive == \E q \in Writer : writer[q] \in Compacting

WaitForNoLock(p) ==   \* mutant: a stale lock file is waited for too
    /\ lock = "none"
    /\ WriterGoes(p, "waiting", "appending")
    /\ UNCHANGED <<disk, uiVars, own, queue, rec, end, tries, job, bounds, history>>

\* wait_for_compaction returns: no lock, a stale one, or LOCK_WAIT is over.
WaitOver(p) ==
    /\ lock # "fresh" \/ SlowHolder \/ ~HolderAlive
    /\ WriterGoes(p, "waiting", "appending")
    /\ UNCHANGED <<disk, uiVars, own, queue, rec, end, tries, job, bounds, history>>

\* Open for append, write, flush, stream_position.  A journal replaced between
\* the open and the write loses the record exactly as one replaced after it.
AppendRecord(p) ==
    /\ WriterGoes(p, "appending", "pushing")
    /\ journal' = journal \o rec[p]
    /\ end' = [end EXCEPT ![p] = Len(journal) + 1]
    /\ written' = written \o rec[p]
    /\ exposed' = IF \E q \in Writer : writer[q] \in {"mergeJournal", "writeJournal"}
                  THEN exposed \union Range(rec[p]) ELSE exposed
    /\ rec' = [rec EXCEPT ![p] = <<>>]
    /\ UNCHANGED <<snapshot, lock, uiVars, own, queue, tries, job, bounds, dropped, broken>>

\* The journal cannot be opened, or write_all returns an error: the thread goes on
\* with the next record and this one is in no file.
AppendFails(p) ==
    /\ failures < MaxFailures
    /\ WriterGoes(p, "appending", "idle")
    /\ dropped' = dropped \union Range(rec[p])
    /\ rec' = [rec EXCEPT ![p] = <<>>]
    /\ failures' = failures + 1
    /\ UNCHANGED <<disk, uiVars, own, queue, end, tries, job, ids, crashes,
                   written, exposed, broken>>

\* The place goes to `own` only now: the UI thread may have synced in between.
PushOwn(p) ==
    /\ WriterGoes(p, "pushing", IF end[p] > CompactAt THEN "acquire" ELSE "idle")
    /\ own' = [own EXCEPT ![p][end[p]] = @ + 1]
    /\ end' = [end EXCEPT ![p] = 0]
    /\ UNCHANGED <<disk, uiVars, queue, rec, tries, job, bounds, history>>

\* stream_position returns an error: the record is in the journal, but `own` does
\* not learn of it (sync will take it for a foreign one) and nothing is compacted.
PositionUnknown(p) ==
    /\ failures < MaxFailures
    /\ WriterGoes(p, "pushing", "idle")
    /\ end' = [end EXCEPT ![p] = 0]
    /\ failures' = failures + 1
    /\ UNCHANGED <<disk, uiVars, own, queue, rec, tries, job, ids, crashes, history>>

AcquireWithoutCreateNew(p) ==   \* mutant: the lock file is opened with create
    /\ lock # "stale"
    /\ WriterGoes(p, "acquire", "readJournal")
    /\ lock' = "fresh"
    /\ tries' = [tries EXCEPT ![p] = 0]
    /\ UNCHANGED <<journal, snapshot, uiVars, own, queue, rec, end, job, bounds, history>>

\* LockFile::acquire: create_new, else look whether the lock is stale.
Acquire(p) ==
    /\ lock = "none"
    /\ WriterGoes(p, "acquire", "readJournal")
    /\ lock' = "fresh"
    /\ tries' = [tries EXCEPT ![p] = 0]
    /\ UNCHANGED <<journal, snapshot, uiVars, own, queue, rec, end, job, bounds, history>>

AcquireFails(p) ==
    /\ lock = "fresh"
    /\ WriterGoes(p, "acquire", "idle")
    /\ tries' = [tries EXCEPT ![p] = 0]
    /\ UNCHANGED <<disk, uiVars, own, queue, rec, end, job, bounds, history>>

FindStale(p) ==
    /\ lock = "stale"
    /\ WriterGoes(p, "acquire", "breaking")
    /\ UNCHANGED <<disk, uiVars, own, queue, rec, end, tries, job, bounds, history>>

\* remove_file by name, whatever the file is by now; two attempts in all.
BreakLock(p) ==
    /\ WriterGoes(p, "breaking", IF tries[p] = 0 THEN "acquire" ELSE "idle")
    /\ tries' = [tries EXCEPT ![p] = IF @ = 0 THEN 1 ELSE 0]
    /\ lock' = "none"
    /\ broken' = TRUE
    /\ UNCHANGED <<journal, snapshot, uiVars, own, queue, rec, end, job, bounds, written, exposed, dropped>>

\* compact reads the journal and remembers where it ended.
CompactRead(p) ==
    /\ WriterGoes(p, "readJournal", "mergeJournal")
    /\ first' = [first EXCEPT ![p] = journal]
    /\ UNCHANGED <<disk, uiVars, own, queue, rec, end, tries, again, merged, rest, bounds, history>>

\* compact calls load_all, which reads the journal again, then the snapshot.
CompactMergeJournal(p) ==
    /\ WriterGoes(p, "mergeJournal", "mergeSnapshot")
    /\ again' = [again EXCEPT ![p] = journal]
    /\ UNCHANGED <<disk, uiVars, own, queue, rec, end, tries, first, merged, rest, bounds, history>>

CompactMergeSnapshot(p) ==
    /\ WriterGoes(p, "mergeSnapshot", "writeSnapshot")
    /\ merged' = [merged EXCEPT ![p] = LoadAll(again[p], snapshot)]
    /\ again' = [again EXCEPT ![p] = <<>>]
    /\ UNCHANGED <<disk, uiVars, own, queue, rec, end, tries, first, rest, bounds, history>>

CompactWriteSnapshot(p) ==
    /\ WriterGoes(p, "writeSnapshot", "readTail")
    /\ snapshot' = [model    |-> merged[p],
                    consumed |-> Len(first[p]),
                    prefix   |-> PrefixOf(first[p], Len(first[p])),
                    stamp    |-> snapshot.stamp + 1]
    /\ merged' = [merged EXCEPT ![p] = EmptyModel]
    /\ UNCHANGED <<journal, lock, uiVars, own, queue, rec, end, tries, first, again, rest, bounds, history>>

CompactDropTail(p) ==   \* mutant: the journal is truncated to nothing
    /\ WriterGoes(p, "readTail", "writeJournal")
    /\ rest' = [rest EXCEPT ![p] = <<>>]
    /\ first' = [first EXCEPT ![p] = <<>>]
    /\ UNCHANGED <<disk, uiVars, own, queue, rec, end, tries, again, merged, bounds, history>>

\* The records appended since the first read are the new journal.
CompactReadTail(p) ==
    /\ WriterGoes(p, "readTail", "writeJournal")
    /\ rest' = [rest EXCEPT ![p] = SubSeq(journal, Len(first[p]) + 1, Len(journal))]
    /\ first' = [first EXCEPT ![p] = <<>>]
    /\ UNCHANGED <<disk, uiVars, own, queue, rec, end, tries, again, merged, bounds, history>>

CompactWriteJournal(p) ==
    /\ WriterGoes(p, "writeJournal", "unlock")
    /\ journal' = rest[p]
    /\ rest' = [rest EXCEPT ![p] = <<>>]
    /\ UNCHANGED <<snapshot, lock, uiVars, own, queue, rec, end, tries, first, again, merged, bounds, history>>

DropJob(p) ==
    /\ first' = [first EXCEPT ![p] = <<>>]
    /\ again' = [again EXCEPT ![p] = <<>>]
    /\ merged' = [merged EXCEPT ![p] = EmptyModel]
    /\ rest' = [rest EXCEPT ![p] = <<>>]

\* replace_file returns an error: the target stays as it was, `?` leaves compact.
ReplaceFails(p) ==
    /\ failures < MaxFailures
    /\ writer[p] \in {"writeSnapshot", "writeJournal"}
    /\ writer' = [writer EXCEPT ![p] = "unlock"]
    /\ DropJob(p)
    /\ failures' = failures + 1
    /\ UNCHANGED <<disk, uiVars, own, queue, rec, end, tries, ids, crashes, history>>

\* Drop for LockFile removes compact.lock by name.
Unlock(p) ==
    /\ WriterGoes(p, "unlock", "idle")
    /\ lock' = "none"
    /\ UNCHANGED <<journal, snapshot, uiVars, own, queue, rec, end, tries, job, bounds, history>>

-----------------------------------------------------------------------------
(* The environment: processes die at any step, time passes.                *)

\* The host process ends: memory, channel and both threads are gone, files stay.
Crash(p) ==
    /\ crashes < MaxCrashes
    /\ ui[p] # "down"
    /\ crashes' = crashes + 1
    /\ ui' = [ui EXCEPT ![p] = "down"]
    /\ look' = [look EXCEPT ![p] = NoLook]
    /\ model' = [model EXCEPT ![p] = EmptyModel]
    /\ offset' = [offset EXCEPT ![p] = 0]
    /\ stamp' = [stamp EXCEPT ![p] = 0]
    /\ own' = [own EXCEPT ![p] = NoEntries]
    /\ queue' = [queue EXCEPT ![p] = <<>>]
    /\ writer' = [writer EXCEPT ![p] = "idle"]
    /\ rec' = [rec EXCEPT ![p] = <<>>]
    /\ end' = [end EXCEPT ![p] = 0]
    /\ tries' = [tries EXCEPT ![p] = 0]
    /\ DropJob(p)
    /\ UNCHANGED <<disk, ids, failures, history>>

\* Thirty seconds pass.  A live holder is done long before, unless SlowHolder.
AgeLock ==
    /\ lock = "fresh" /\ (SlowHolder \/ ~HolderAlive)
    /\ lock' = "stale"
    /\ UNCHANGED <<journal, snapshot, uiVars, own, queue, writerVars, bounds, history>>

-----------------------------------------------------------------------------
Loading(p) == LoadJournal(p) \/ LoadSnapshot(p)
Sync(p) == SyncReload(p) \/ SyncGrown(p) \/ SyncTail(p)

Compact(p) ==
    \/ Acquire(p) \/ AcquireFails(p) \/ FindStale(p) \/ BreakLock(p)
    \/ CompactRead(p) \/ CompactMergeJournal(p) \/ CompactMergeSnapshot(p)
    \/ CompactWriteSnapshot(p) \/ CompactReadTail(p) \/ CompactWriteJournal(p)
    \/ Unlock(p)

WriterThread(p) ==
    Receive(p) \/ WaitOver(p) \/ AppendRecord(p) \/ PushOwn(p) \/ Compact(p)

Next ==
    \/ \E p \in Process : Open(p) \/ Loading(p) \/ Crash(p)
    \/ \E p \in Composer : Sync(p)
    \/ \E p \in Writer : (\E kinds \in Calls : Record_(p, kinds))
                         \/ WriterThread(p)
                         \/ AppendFails(p) \/ PositionUnknown(p) \/ ReplaceFails(p)
    \/ AgeLock

Spec == Init /\ [][Next]_vars

\* The writer threads run, loads finish, the lock file ages, and the user keeps
\* composing words: sync is called at the start of each.
Fairness ==
    /\ \A p \in Writer : WF_vars(WriterThread(p))
    /\ \A p \in Process : WF_vars(Loading(p))
    /\ \A p \in Composer : WF_vars(Sync(p))
    /\ WF_vars(AgeLock)

FairSpec == Spec /\ Fairness

-----------------------------------------------------------------------------
(* Properties.                                                             *)

TypeOK ==
    /\ journal \in Seq(Record)
    /\ snapshot \in [model : Model, consumed : Nat, prefix : Seq(Record), stamp : Nat]
    /\ lock \in {"none", "fresh", "stale"}
    /\ ui \in [Process -> UiStep]
    /\ look \in [Process -> [stamp : Nat, journal : Seq(Record)]]
    /\ model \in [Process -> Model]
    /\ offset \in [Process -> Nat]
    /\ stamp \in [Process -> Nat]
    /\ own \in [Process -> [Id -> Nat]]
    /\ queue \in [Process -> Seq(Record)]
    /\ writer \in [Process -> WriterStep]
    /\ rec \in [Process -> Seq(Record)] /\ \A p \in Process : Len(rec[p]) <= 1
    /\ end \in [Process -> Nat]
    /\ tries \in [Process -> 0..1]
    /\ first \in [Process -> Seq(Record)] /\ again \in [Process -> Seq(Record)]
    /\ merged \in [Process -> Model] /\ rest \in [Process -> Seq(Record)]
    /\ ids \in 0..MaxRecords /\ crashes \in 0..MaxCrashes /\ failures \in 0..MaxFailures
    /\ written \in Seq(Record)
    /\ exposed \in SUBSET Record /\ dropped \in SUBSET Record
    /\ broken \in BOOLEAN

\* The learning a process that starts now would load.
DiskView == LoadAll(journal, snapshot)

Choice(r) == ~IsWipe(r)
Committed == Range(written) \union dropped
             \union UNION {Range(queue[p] \o rec[p]) : p \in Writer}
NoWipe == \A r \in Committed : Choice(r)

\* The disk implements the abstract log: a compaction, whole or cut short by a
\* crash or a failed replace_file, never shows, and every append is one learned
\* record or one wipe.  (One writing process; for more: BlindSpotsOnly.)
Disk == INSTANCE LearningLog WITH
            learned <- DiskView, seen <- {r.id : r \in Range(written)}
DiskImplementsLog == Disk!Spec

\* compact runs in one process at a time as long as no lock file was ever
\* removed as stale (create_new is the only way in, drop the only way out).
OneCompactor ==
    ~broken => \A p, q \in Process :
                  writer[p] \in Compacting /\ writer[q] \in Compacting => p = q

\* With several writers, a record counts on disk as it should unless its append
\* fell into one of the two blind spots of a running compaction: between its two
\* reads of the journal, or between its reading the tail and replacing the file.
BlindSpotsOnly ==
    ~broken /\ (\A r \in exposed : Choice(r)) =>
        \A r \in Range(written) \ exposed :
            DiskView[r.id] = Replay(EmptyModel, written, DOMAIN written)[r.id]

\* Before the first compaction a process has applied every other process's
\* record up to its offset exactly once, whatever the order of their appends,
\* and none past it (wipes aside, which may remove it again).
OthersOnce ==
    snapshot.stamp = 0 =>
        \A p \in Process : \A k \in DOMAIN journal :
            LET r == journal[k] IN
            r.by # p /\ Choice(r) =>
                /\ model[p][r.id] <= (IF k <= offset[p] THEN 1 ELSE 0)
                /\ NoWipe /\ k <= offset[p] => model[p][r.id] = 1

\* What the comments say of a process that is up to date with both files while
\* nobody writes: no record of the journal, its own or another process's, is
\* missing from its memory or counted twice there.
UpToDate(p) ==
    /\ ui[p] = "idle" /\ stamp[p] = snapshot.stamp /\ offset[p] = Len(journal)
    /\ Len(journal) <= CompactAt /\ \A q \in Process : writer[q] = "idle"
MemoryExact ==
    NoWipe => \A p \in Process : UpToDate(p) =>
                 \A r \in Range(journal) : model[p][r.id] = 1

\* What the comments say of the disk: nothing is applied twice or lost, even if a
\* compaction is interrupted.
DiskExact == NoWipe => \A r \in Range(written) : DiskView[r.id] = 1

\* A committed record reaches the journal unless its process dies first or its own
\* append returns an error: neither a compaction, nor a lock file left by a dead
\* process, nor the failed append of an earlier record stops the writer thread.
Pending(p, n) == \E r \in Range(queue[p] \o rec[p]) : r.id = n
CommitsAreWritten ==
    \A p \in Writer, n \in Id :
        Pending(p, n) ~> \/ \E r \in Range(written) \union dropped : r.id = n
                         \/ ui[p] = "down"

\* A read-only process that keeps composing words ends up with what is on disk,
\* whatever appends fail (a compactor that dies, or cannot replace a file, can leave
\* it a journal that has grown again to the length it knows).
ReadersConverge ==
    \A p \in Reader :
        <>[](crashes = 0 /\ failures = Cardinality(dropped) /\ ui[p] = "idle"
                => model[p] = DiskView)
=============================================================================
