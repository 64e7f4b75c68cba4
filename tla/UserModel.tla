----------------------------- MODULE UserModel -----------------------------
(***************************************************************************)
(* What one process learns and what its disk holds of it: MemoryUser       *)
(* (user.rs), its journal records, its snapshot with the eviction of old   *)
(* keys, and the .t3learn file (learning_file.rs).  UserStore.tla has the  *)
(* processes, the file operations and the crashes between them but counts  *)
(* records only; here the records have their contents, and a call of the   *)
(* store with all its writes is one step.                                  *)
(*                                                                         *)
(* Keys and words are model values; the words fit a record (84 bytes).     *)
(* Timestamps, CRCs and the byte layouts are left out: a record read back  *)
(* is the record written, unless the journal has gone off its grid.        *)
(***************************************************************************)
EXTENDS Naturals, SequencesExt, FiniteSetsExt

CONSTANTS
    LatinKey,    \* latin keys
    LongKey,     \* the keys of more than 32 bytes
    Word,        \* base words, RAW_LATIN among them
    MaxChoices,  \* choices kept for a key (4)
    MaxKeys,     \* MAX_KEYS
    MaxRepeat,   \* EXPORT_MAX_REPEAT
    MaxFile,     \* learning_file::MAX_RECORDS
    MaxCalls     \* bound: commits, wipes, imports and torn writes in a behaviour

ASSUME UserModelAssumption ==
    /\ LongKey \subseteq LatinKey
    /\ MaxChoices \in Nat \ {0} /\ MaxKeys \in Nat \ {0} /\ MaxRepeat \in Nat \ {0}
    /\ MaxFile \in Nat /\ MaxCalls \in Nat

Choice == [word : Word, count : Nat, last : Nat]
Model == [choices : [LatinKey -> Seq(Choice)], neg : [LatinKey \X Word -> Nat],
          words : [Word -> Nat], clock : Nat]
Pick == [key : LatinKey, word : Word]

VARIABLES
    memory,    \* the MemoryUser of the process
    snapshot,  \* snapshot.t3u: the entries EncodeSnapshot writes
    compacted, \* snapshot.t3u exists
    journal,   \* the readable records of journal.t3j
    offGrid,   \* a torn record at the journal's end: what follows is unreadable
    file,      \* the last .t3learn file exported: its records, and their history
    calls,     \* bound counter
    picked,    \* history: last choice for each key as the user of this process made it,
               \* most recently used key first
    kept,      \* history: the same for what the disk should hold
    behind     \* history: the memory holds something that is known not to be on disk

vars == <<memory, snapshot, compacted, journal, offGrid, file, calls, picked, kept, behind>>

-----------------------------------------------------------------------------
(* MemoryUser.                                                             *)

None == [word |-> "none"]
EmptyModel == [choices |-> [k \in LatinKey |-> <<>>], neg |-> [p \in LatinKey \X Word |-> 0],
               words |-> [w \in Word |-> 0], clock |-> 0]

ByLast(choices) == SetToSortSeq(choices, LAMBDA a, b : a.last > b.last)

\* MemoryUser::record without its negative half.
Choose(m, k, w) ==
    IF k \in LongKey THEN m ELSE
    LET old == ToSet(m.choices[k])
        new == [word |-> w, last |-> m.clock + 1,
                count |-> 1 + SumSet({c.count : c \in {c \in old : c.word = w}})]
        list == ByLast({c \in old : c.word # w} \union {new})
    IN  [choices |-> [m.choices EXCEPT ![k] = SubSeq(list, 1, Min({MaxChoices, Len(list)}))],
         neg |-> [m.neg EXCEPT ![<<k, w>>] = 0],
         words |-> [m.words EXCEPT ![w] = @ + 1],
         clock |-> m.clock + 1]

\* MemoryUser::record_negative.
Negate(m, k, w) == IF k \in LongKey THEN m ELSE [m EXCEPT !.neg[<<k, w>>] = @ + 1]

PassedOverUnseen(w, rank, navigated, top) == rank > 0 /\ top # w   \* mutant

\* The rank-1 word was passed over: what the journal says of it.
PassedOver(w, rank, navigated, top) == rank > 0 /\ navigated /\ top # w

\* MemoryUser::record.
Record(m, k, w, rank, navigated, top) ==
    IF rank > 0 /\ navigated /\ top # w THEN Negate(Choose(m, k, w), k, top)
                                        ELSE Choose(m, k, w)

\* MemoryUser::sticky.
Sticky(m, k) ==
    IF m.choices[k] = <<>> \/ m.neg[k, Head(m.choices[k]).word] > 0
    THEN None ELSE [word |-> Head(m.choices[k]).word]

LastUse(m, k) == Max({0} \union {c.last : c \in ToSet(m.choices[k])})
Keys(m) == {k \in LatinKey : m.choices[k] # <<>>}

Retain(m, kept_) ==
    [m EXCEPT !.choices = [k \in LatinKey |-> IF k \in kept_ THEN @[k] ELSE <<>>],
              !.neg = [p \in LatinKey \X Word |-> IF p[1] \in kept_ THEN @[p] ELSE 0]]

EvictNewest(m) ==   \* mutant: the cut-off is taken from the wrong end
    LET lasts == SetToSortSeq({LastUse(m, k) : k \in Keys(m)}, <)
    IN  IF Cardinality(Keys(m)) <= MaxKeys THEN m
        ELSE Retain(m, {k \in Keys(m) : LastUse(m, k) <= lasts[MaxKeys]})

\* MemoryUser::evict.
Evict(m) ==
    LET lasts == SetToSortSeq({LastUse(m, k) : k \in Keys(m)}, >)
    IN  IF Cardinality(Keys(m)) <= MaxKeys THEN m
        ELSE Retain(m, {k \in Keys(m) : LastUse(m, k) >= lasts[MaxKeys]})

\* MemoryUser::encode_snapshot: the entries there are, and the clock.
EncodeSnapshot(m) ==
    [keys |-> {<<k, m.choices[k]>> : k \in Keys(m)},
     neg |-> {<<p, m.neg[p]>> : p \in {p \in LatinKey \X Word : m.neg[p] > 0}},
     words |-> {<<w, m.words[w]>> : w \in {w \in Word : m.words[w] > 0}},
     clock |-> m.clock]

\* The value a set of entries gives to x.
Entry(entries, x, default) ==
    IF \E e \in entries : e[1] = x THEN (CHOOSE e \in entries : e[1] = x)[2] ELSE default

\* MemoryUser::decode_snapshot.
DecodeSnapshot(s) ==
    [choices |-> [k \in LatinKey |-> Entry(s.keys, k, <<>>)],
     neg |-> [p \in LatinKey \X Word |-> Entry(s.neg, p, 0)],
     words |-> [w \in Word |-> Entry(s.words, w, 0)],
     clock |-> s.clock]

-----------------------------------------------------------------------------
(* Journal records and the learning file.                                  *)

Rec(kind, k, w) == [kind |-> kind, key |-> k, word |-> w]
WipeRec == [kind |-> "wipe"]

\* JournalRecord::new refuses what does not fit.
Storable(recs) == SelectSeq(recs, LAMBDA r : r.kind = "wipe" \/ r.key \notin LongKey)

\* What of recs is read back from the journal: the appended records fill whole
\* slots of 128 bytes, or every slot holds parts of two and fails its CRC.
ReadBack(recs, off) == IF off THEN <<>> ELSE Storable(recs)

\* store::apply, and the loop of import.
Apply(m, r) ==
    CASE r.kind = "choose"   -> Choose(m, r.key, r.word)
      [] r.kind = "negative" -> Negate(m, r.key, r.word)
      [] r.kind = "wipe"     -> EmptyModel

Replayed(m, recs) == FoldLeft(Apply, m, recs)

\* load_all: the snapshot (or nothing), and the journal's records after it.
Load == Replayed(DecodeSnapshot(snapshot), journal)

\* The records UserStore::record sends.
CommitRecords(k, w, rank, navigated, top) ==
    <<Rec("choose", k, w)>>
    \o (IF PassedOver(w, rank, navigated, top) THEN <<Rec("negative", k, top)>> ELSE <<>>)

Repeated(r, n) == [i \in 1..Min({Max({n, 1}), MaxRepeat}) |-> r]

ToRecordsByKey(m) ==   \* mutant: choices are written key by key as they are listed
    FlattenSeq([i \in 1..Cardinality(Keys(m)) |->
        LET k == SetToSeq(Keys(m))[i]
        IN  FlattenSeq([j \in DOMAIN m.choices[k] |->
                Repeated(Rec("choose", k, m.choices[k][j].word), m.choices[k][j].count)])])

\* MemoryUser::to_records: the choices oldest first, then the negative evidence.
ToRecords(m) ==
    LET picks == SetToSortSeq({<<p[2].last, p[1], p[2]>> : p \in
                     UNION {{k} \X ToSet(m.choices[k]) : k \in LatinKey}},
                     LAMBDA a, b : a[1] < b[1])
        negs == SetToSeq({p \in LatinKey \X Word : m.neg[p] > 0})
    IN  FlattenSeq([i \in DOMAIN picks |->
            Repeated(Rec("choose", picks[i][2], picks[i][3].word), picks[i][3].count)])
        \o FlattenSeq([i \in DOMAIN negs |->
            Repeated(Rec("negative", negs[i][1], negs[i][2]), m.neg[negs[i]])])

\* effective_records: what the journal holds after the last wipe.
EffectiveRecords(recs) ==
    FoldLeft(LAMBDA out, r : IF r.kind = "wipe" THEN <<>> ELSE Append(out, r), <<>>, recs)

\* learning_file::decode: whether it accepts the file, and what it keeps of it.
Accepted(f) == Len(f.records) <= MaxFile
Decoded(f) == SelectSeq(f.records, LAMBDA r : r.kind \in {"choose", "negative"})

-----------------------------------------------------------------------------
(* The two histories are what the promise is about: for each key the last  *)
(* choice, and which keys were used last.                                  *)

Remember(h, k, w) ==
    IF k \in LongKey THEN h
    ELSE <<[key |-> k, word |-> w]>> \o SelectSeq(h, LAMBDA p : p.key # k)

\* `newer` was learned on top of h.
RememberAll(h, newer) == FoldRight(LAMBDA p, acc : Remember(acc, p.key, p.word), newer, h)

NoFile == [records |-> <<>>, last |-> <<>>]

Init ==
    /\ memory = EmptyModel /\ snapshot = EncodeSnapshot(EmptyModel) /\ compacted = FALSE
    /\ journal = <<>> /\ offGrid = FALSE /\ file = NoFile
    /\ calls = 0 /\ picked = <<>> /\ kept = <<>> /\ behind = FALSE

Counted == calls < MaxCalls /\ calls' = calls + 1

\* The writer thread appends recs: nobody can read them off the grid.
Append_(recs) ==
    /\ journal' = journal \o ReadBack(recs, offGrid)
    /\ behind' = (behind \/ offGrid)

\* UserStore::record.
Commit(k, w, rank, navigated, top) ==
    /\ Counted /\ (rank = 0 => top = w)
    /\ memory' = Record(memory, k, w, rank, navigated, top)
    /\ Append_(CommitRecords(k, w, rank, navigated, top))
    /\ picked' = Remember(picked, k, w)
    /\ kept' = IF offGrid THEN kept ELSE Remember(kept, k, w)
    /\ UNCHANGED <<snapshot, compacted, offGrid, file>>

\* UserStore::wipe.
Wipe ==
    /\ Counted
    /\ memory' = EmptyModel
    /\ Append_(<<WipeRec>>)
    /\ picked' = <<>>
    /\ kept' = IF offGrid THEN kept ELSE <<>>
    /\ UNCHANGED <<snapshot, compacted, offGrid, file>>

\* The process starts again, or sync reloads because the snapshot is a new one.
Reload ==
    /\ memory' = Load
    /\ picked' = kept /\ behind' = FALSE
    /\ UNCHANGED <<snapshot, compacted, journal, offGrid, file, calls, kept>>

\* The process dies in the middle of an append and starts again.
TornWrite ==
    /\ Counted /\ offGrid' = TRUE
    /\ memory' = Load
    /\ picked' = kept /\ behind' = FALSE
    /\ UNCHANGED <<snapshot, compacted, journal, file, kept>>

\* store::compact: the new journal is cut to whole records.
Compact ==
    /\ snapshot' = EncodeSnapshot(Evict(Load)) /\ compacted' = TRUE
    /\ journal' = <<>> /\ offGrid' = FALSE
    /\ kept' = SubSeq(kept, 1, Min({Len(kept), MaxKeys}))
    /\ behind' = (behind \/ Len(kept) > MaxKeys)
    /\ UNCHANGED <<memory, file, calls, picked>>

\* UserStore::export, from the disk.
Export ==
    /\ file' = [records |-> IF compacted THEN ToRecords(Load) ELSE EffectiveRecords(journal),
                last |-> kept]
    /\ UNCHANGED <<memory, snapshot, compacted, journal, offGrid, calls, picked, kept, behind>>

\* UserStore::import of a file that learning_file::decode accepts.
Import(replace) ==
    LET old == IF replace THEN <<>> ELSE picked
        oldKept == IF replace THEN <<>> ELSE kept
    IN  /\ Counted /\ Accepted(file)
        /\ memory' = Replayed(IF replace THEN EmptyModel ELSE memory, Decoded(file))
        /\ Append_((IF replace THEN <<WipeRec>> ELSE <<>>) \o Decoded(file))
        /\ picked' = RememberAll(old, file.last)
        /\ kept' = IF offGrid THEN kept ELSE RememberAll(oldKept, file.last)
        /\ UNCHANGED <<snapshot, compacted, offGrid, file>>

Next ==
    \/ \E k \in LatinKey, w, top \in Word, rank \in {0, 1}, navigated \in BOOLEAN :
           Commit(k, w, rank, navigated, top)
    \/ Wipe
    \/ Reload
    \/ TornWrite
    \/ Compact
    \/ Export
    \/ \E replace \in BOOLEAN : Import(replace)

Spec == Init /\ [][Next]_vars

-----------------------------------------------------------------------------
(* Properties.                                                             *)

\* What a model recalls: its keys, most recently used first, with the word
\* each of them pins.
Recall(m) ==
    LET order == SetToSortSeq(Keys(m), LAMBDA a, b : LastUse(m, a) > LastUse(m, b))
    IN  [i \in DOMAIN order |-> [key |-> order[i], word |-> Sticky(m, order[i]).word]]

\* The memory pins, for every key, the last word chosen for it and knows which
\* keys were used last: through reloads, wipes and imports, whatever else was
\* chosen or passed over in between.
MemoryRecalls == Recall(memory) = picked

\* The disk holds the same for a process that starts now: a compaction gives up
\* exactly the keys used longest ago beyond MAX_KEYS, and a torn record costs
\* only what is written before the next compaction.
DiskRecalls == Recall(Load) = kept

\* Unless a key was evicted or records went off the grid since the last reload,
\* the disk gives back the very model in memory: every count, every negative
\* evidence and the clock.
ReloadChangesNothing == ~behind => Load = memory
=============================================================================
