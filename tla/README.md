# Verification of type3arabi

type3arabi is a Windows input method (a TSF text service written in Rust): the user types Arabic in
Latin letters, a candidate list shows the Arabic, Space commits a word. This directory holds TLA+
models of its stateful parts, the TLC configurations that check them, and TLAPS proofs.

1 Inventory · 2 Modules · 3 User store · 4 Text service · 5 The other parts · 6 Proofs ·
7 Not modelled · 8 Running and reading · 9 Divergences without a run

## 1. Inventory

Sources are under `src/`; "state" is what survives from one operation to the next.

| Component | State | Operations | Hard behaviour | Must hold |
|---|---|---|---|---|
| Persistent user store (`crates/t3a-engine/src/store.rs`) | `journal.t3j`, `snapshot.t3u`, `compact.lock`; per process the model, offset, stamp, `own`, channel | open, record, import, wipe, sync; writer thread: append, compact | many processes share the files; two threads per process; crash between any two file operations; failed renames; stale locks | a record counts once until a wipe; one compaction at a time; commits get written; readers catch up |
| Journal records, user model, learning file (`journal.rs`, `user.rs`, `learning_file.rs`) | `MemoryUser`: choices, counts, last use, negative evidence | record, negative, evict, encode/decode, export/import | what is in memory must equal what replay gives; torn records; eviction at the cap | replay, snapshot and export preserve what is preferred |
| Text service (`crates/t3a-tip/src/win/service.rs`) | `State`: session, tashkeel, composition, comp_ctx, anchor, context, mode; `pending`, `terminated` | key handlers, popup events, TSF sinks, edit sessions (`apply`) | the engine changes at once, the document later: sessions are granted, queued, refused or discarded; the host ends compositions; several fields | the field shows the word; commits land once and in order; nothing is left behind; edits never freeze |
| Layout following, text anchor (`service.rs`, `anchor.rs`) | `relayout_queued`, `layout_settled`, `relayout_budget`, `text_rect` | OnLayoutChange, Relayout, Preview, Pumped | notifications that feed themselves | no endless loop, and a real move is followed |
| Key router and key sink (`keyrouter.rs`, `keys.rs`, `service.rs`) | `shift_down`, `eaten`, `scope` | classify, OnTestKeyDown .. OnKeyUp, shift_tap | lost key-ups, auto-repeat, focus slipping; 32-bit time wraps | a key-up goes where its key-down went; scopes are respected; only a tap toggles |
| Typing session (`session.rs`) | `LatinBuffer`, the ranked list, the highlighted item | push, pop, restore, commit, settings | the list is restyled, relaxed, cut and reordered in a row of steps | the last choice comes first; no two rows look alike |
| Tashkeel editor (`tashkeel.rs`) | letters, marks, selection, quick picks | load, mark commands, selection | long command sequences; derived, dictionary and hand-set marks on one word | what is committed is what is shown; nothing is marked that must not be |
| Configuration (`config.rs`), Settings app (`apps/settings`) | the configuration file | parse, validate, load-modify-save, wipe, import | replaced while others read it | changes apply to the next word; a shortcut never breaks typing |
| Hotkey companion (`crates/t3a-hotkey`) | registered hotkeys, tidy timers, layouts seen last | reload, toggle, tidy, enable | events while a timer is pending; the user and Windows change keyboards meanwhile | it follows the file; no chosen keyboard is lost, no stray is kept |
| Popup window (`crates/t3a-ui`) | model, targets, owner, drag, capture | show, hide, paint, mouse | the service's state, the window and what was painted differ | it stands beside the word; a click takes what it shows; the mouse is released |
| DLL lifetime, panic guard (`win/dll.rs`, `factory.rs`, `guard.rs`) | object count, sinks and their cookies, DISABLED | activate, deactivate, guard, passthrough | a panic in the middle of a word; sessions still queued at the end | nothing is left in the host |
| Search and scoring (`search.rs`, `oov.rs`, `charlm.rs`, `seed.rs`, `params.rs`) | none | beam search | floating-point scores | - |
| Orthography (`normalize.rs`, `arabic.rs`, `display.rs`, `dialect.rs`) | none | pure functions on characters | - | - |
| Model files (`crates/t3a-data`), paths, CLI, web demo, pipeline | read-only data, offline tools | - | - | - |

They interact as follows. TSF calls the text service on the application's UI thread, with keys, focus
changes, ended edits and layout changes. The service asks the key router what a key means, changes the
typing session (which calls the search and asks the user store for the ranking), and requests an edit
session from TSF that later changes the document and shows the popup. Clicks on the popup come back as
events of the service. A commit is recorded in the process's one `UserStore`, in memory at once and on
disk by the writer thread. At the start of each word the service calls `UserStore::sync` to pick up what
other processes learned, and re-reads the configuration when its time changed. Settings replaces that
file, tells the companion, and uses the user store as one more process.

`PROJECT.json` lists the hazards of this code, each at its line, with the properties that cover it.

## 2. Modules

| Module | Models | Checked by | Proved |
|---|---|---|---|
| `LearningLog` | what the store promises: records seen, how often each counts | refined by `UserStore` in `store_live` | |
| `UserStore` | processes, files, lock, crashes | `store_*` (`MC_UserStore`) | `UserStore_proofs` |
| `UserModel` | the contents of the records, the model they add up to, eviction, learning files | `parts` | |
| `TextService` | words, documents, edit sessions | `text_*` (`MC_TextService`) | `TextService_proofs` |
| `Keyboard` | routing of keys, key-ups, Shift taps, input scopes | `parts` (twice) | `Keyboard_proofs` |
| `Session` | the buffer, the list, commit, re-edit | `parts`, `session_reedit` | `Parts_proofs` |
| `TashkeelEditor`, `Vocalisation` | marks on letters; harakat derived from the typed vowels | `parts` | |
| `Relayout` | following the word | `parts` | `Relayout_proofs` |
| `Popup` | the window, its mouse, its place | `parts` | `Popup_proofs` |
| `Settings` | the configuration file, the keyboards and the companion that read it | `parts` | `Settings_proofs` |
| `Layouts` | the user's keyboards and the ones loaded | `parts` | `Layouts_proofs` |
| `Shortcuts` | shortcuts as Settings, the file, the router and the companion read them | `parts` | `Parts_proofs` |
| `Lifecycle` | activation, sinks, passthrough, unloading | `parts` | `Parts_proofs` |

`TextService` composes the word with the document and TSF's queue. The other modules each take one part of
the same service apart at a finer grain and abstract the rest: `Keyboard` keeps of the word its length,
`Popup` its length and whether a session is due, `Lifecycle` whether there is one, `Relayout` whether it
is shown. `UserModel` does for the records' contents what `UserStore` does for their order.

Not modelled of these parts: failed reads of the journal; the order of the companion's hotkey toggles.

## 3. The user store

`UserStore` has one action per file operation. Variables of a process are functions from processes.

| Code | Model |
|---|---|
| `open`, `load_all` | `Open`, `LoadJournal`, `LoadSnapshot`: the stamp, the journal and the snapshot are read in three steps |
| `sync` | `SyncReload` (then the loading steps), `SyncGrown`, `SyncTail` |
| `record`, `import`, `wipe` | `Record_` with the kinds of the records the call sends |
| writer thread | `Receive`, `WaitOver`, `AppendRecord`, `PushOwn`; `AppendFails` when the journal cannot be opened or written (the record is dropped), `PositionUnknown` when `stream_position` fails (no entry in `own`, no compaction); and at the threshold `Acquire`, `AcquireFails`, `FindStale`, `BreakLock` |
| `compact` | `CompactRead`, `CompactMergeJournal`, `CompactMergeSnapshot`, `CompactWriteSnapshot`, `CompactReadTail`, `CompactWriteJournal`, `Unlock`; `ReplaceFails` for an error of `replace_file` |
| process death, time | `Crash`, `AgeLock` |

A record is an identity, its process and its kind and stands for 128 bytes, so offsets count records. A
model counts how often each record has been applied; wipes reset it. `SnapshotMark::prefix_hash` is
modelled by the records it covers (no hash collisions). History variables (`written`, `exposed`,
`dropped`, `broken`) are only read by properties.

Abstractions: opening the journal for append and writing to it are one step (a replacement in between
loses the record exactly as one just after it), and a failed write leaves nothing behind (half a record is
`TornWrite` in `UserModel`); the two metadata reads of `sync` are one; reads do not
fail, the writer thread is spawned and no mutex is poisoned, eviction is left out; a process has one UI thread that uses the store.
`WaitOver` may pass while a dead process's lock is still fresh, since `LOCK_WAIT` (2 s) is shorter than
`LOCK_STALE` (30 s). A live compaction takes milliseconds, so its lock ages only with `SlowHolder`.

`LearningLog` is the promise: a set of records seen and how often each counts, with two actions, `Learn`
and `Forget`. `Disk` in `UserStore` maps it to what a process that starts now would load.

| Run | Shows |
|---|---|
| `store_fleet` | two writing processes: `OneCompactor`, and `BlindSpotsOnly`, which delimits which appends a compaction can miscount |
| `store_tail` | two processes that write and tail, one failed write: `OthersOnce` |
| `store_live` | one writing and one reading process, a compaction after every record, a crash and a failed write or rename at any step: the disk implements `LearningLog`; types; every committed record is written unless its process dies or its own append fails (`CommitsAreWritten`), also past a lock file left by a dead process and a failed append before it; the reader converges to the disk (`ReadersConverge`) |
| `store_disk_exact` | violated: "nothing is applied twice or lost" (user.rs:145) fails for an append inside a compaction's blind spots |
| `store_memory_exact` | violated: a process's own record is counted twice when `sync` comes between the append and the push to `own` |

Bounds: 2 or 3 records with a threshold of 0 or 1 let two compactions happen and an append fall anywhere
in them; two processes are enough for every race between a compactor and an appender, and for both sides
of the lock; one crash and one failure hit each step. `PrefixCap = 1` makes the prefix as weak as it can
be. Fairness: writer threads, loads and time go on by themselves; `sync` is called at the start of every
word, so a reader that keeps composing (`Composer`) calls it again and again. Nothing is assumed of
crashes, failures or commits.

A failed append loses its record for good: the code does not try again, and the model of the process keeps
what the disk never gets. `CommitsAreWritten` names that exception; a record whose place stays unknown is on
disk, and its own process counts it a second time at its next `sync`.

Limit: `ReadersConverge` claims nothing after a crash or an error other than a failed append. A compactor that dies right after
its append and restarts, or cannot replace the snapshot, can leave a reader with a journal that was truncated and
has grown to the length it knows.

## 4. The text service

`TextService` is one thread's service. Handlers are atomic: they run on the thread TSF calls and hold no
borrow of the state across a call into TSF. The document of a field is a sequence of pieces of text with a
caret between them; a piece may be the range of a live composition. A word is its number, its letters and
the highlighted candidate; the engine is a function of these, and candidate texts are not spelled out (section 5,
`Session`, has the lists).

| Code | Model |
|---|---|
| `run` | `Run`: the requested sessions run at once, or (from some point on) are queued or refused; with `pending > 0` none runs at once |
| `apply` | `Apply`: `Preview`, `Commit`, `Finalize`, `InsertAtCaret`, `ReEdit` on a record of the state they read and write (`World`) |
| `OnTestKeyDown`, `OnKeyDown`, `execute` | `DropDeadState` and one action per kind of key: `AppendChar`, `Backspace`, `MoveHighlight`, `SwitchEditor`, `CommitKey`, `CommitThenType`, `InsertKey`, `ReEditKey`, `ToggleKey`, `PassKey` |
| `OnPreservedKey`, popup, focus | `PreservedKey`, `ClickRow`, `SetFocus`, `ThreadFocus` |
| `OnEndEdit`, `OnCompositionTerminated` | `MoveCaret`, `CompositionTerminated`; `CompositionLost` when the host says nothing |
| the queue of TSF, `PendingToken` | `RunQueued`, `Discard` |

`DropDeadState` is the first thing a key does; as an action of its own, with the other key actions
disabled until it has run, it only adds interleavings. TSF's queue is one FIFO, as the comment on `run`
says. `SetText` and `EndComposition` with the edit cookie of another context fail. After a key that
commits and goes on to the host, what the host does with it is `MoveCaret`. Deactivation does to this
state what a focus change does. In other modules: learning and the raw-Latin candidate (`Session`), input
scopes (`Keyboard`), layout (`Relayout`), panics (`Lifecycle`). Left out: characters the engine refuses, a
host that refuses any composition, `inline_preview = "latin"`.

| Run | Shows |
|---|---|
| `text_sync` | two fields of a host that grants every session, 5 keys, a click, an ended composition: nothing orphaned (`NoOrphan`), popup only with a word, re-edited and finalized words stay, the word being typed is in one field |
| `text_deferred` | a host that queues, refuses and discards: order and uniqueness of commits, committed words stay, the field shows the word, Latin mode composes nothing; `pending` returns to 0 (`Thaws`) |
| `text_finalized_lost` | violated: a finalized word is overwritten by the next one when a preview was queued before the Finalize |
| `text_toggle_elsewhere` | violated: Ctrl+Space from another field leaves the composition behind in the first |
| `text_reedit_editor` | violated: a queued `ReEdit` that finds other text takes the word back but not the editor that was opened over it (`EditorOverAWord`) |

Properties about what must be visible hold in quiet states (`Quiet`): the queue is empty, nothing was lost
on the way, and no ended composition waits for the next key. `Once` leaves out behaviours in which a
composition ended without a commit, since the text that stays is then no longer the service's. `ShowsTheWord` speaks of fields with a word to show: after a queued re-edit a
composition can stay behind with no word (`text_reedit_editor`). `NoOrphan`,
`TypedOnce` and `PopupWhileComposing` are checked in the host that grants every session only: section 9 has
what a queue adds.

Bounds: `MaxKeys` counts keys, clicks on the popup and focus changes. Five are enough for two words and
a re-edit, or a toggle in between, in the host that never queues; four with a queue, where each key
multiplies the orders. Two fields are enough for "another field". Fairness: TSF grants a queued session when the host's
lock is free (`WF(RunQueued)`); nothing is assumed of the user or the host.

## 5. The other parts

The run `parts` checks the machines of this section side by side: a variable `part`, chosen at the start,
says which of them a behaviour belongs to, and the others stand still; a property of a machine is stated
for its part (`MemoryRemembers`, for example, is `MemoryRecalls` of `UserModel`). They share no state, so nothing is
lost by it, and one run reads the same instances the properties are stated for. `Parts` in `parts.cfg`
selects machines; `{"popup"}` alone is a run of the popup. The constants of the machines with theorems are
in the cfg, as in any run; the others have theirs in `MC_Parts`. `PartsSpec` has no fairness: all properties of
this section are safety properties, those that sound like "in the end" being stated in states where nothing
is on its way any more (`EchoesEnd`, `FollowsTheWord`, `CompanionCatchesUp`).

### What is learned: `UserModel`

`memory`, `snapshot`, `journal` and `file` are a process's `MemoryUser`, its two files and the last
`.t3learn` file. A call of the store with all its writes is one action: `Commit` (`Choose`, `Negate` and the
records of both), `Wipe`, `Reload`, `Compact` (`Evict`, `EncodeSnapshot`), `Export` (`EffectiveRecords`),
`Import` with or without replacement; `TornWrite` leaves half a record at the end of the journal, so that
nothing after it can be read (`ReadBack`) until the next compaction. `MemoryRemembers` and `DiskRemembers`
compare the models with what the user did (`picked`, `kept`: the last choice for each key, most recent
first); `MemoryIsOnDisk` compares memory and disk exactly.
Bounds: two keys and one too long to be learned at all, two words and both kept for a key (what is cut off a
longer list is never its head), a cap of one key, so that every compaction with two evicts one, three calls
(exports, reloads and compactions are not counted). Three calls are enough for a choice that replaces, one that
outranks, and one after an import.

### Lists and commits: `Session`

`buf`, `list`, `selected`, `page` are the session's and the service's. `Rebuilt` is `Session::rebuild`
step by step: specials, readings, phrases, sacred style, hamza relaxing, duplicate removal, the learned
word, the cut and the raw item. Actions: `Type`, `Backspace`, `Navigate`, `OpenTashkeel`, `CloseTashkeel`,
`Commit`, `CommitRaw`, `Finalize`, `DropAnchor`, `Reedit`. What the user store answers is the word learned
last for the key, which is `MemoryRemembers`. `ChosenComesFirst`: the last choice heads the list although
restyling and hamza relaxing may have changed its looks. `NoTwins`: no two rows look alike, and the raw
letters can always be chosen. `session_reedit` is violated: a word chosen below the first row is re-opened
with another one highlighted.
Bounds: words of two characters out of five that between them reach every branch of the list (letters,
emphatic, laughter, digits, numeric pad), lists of four in pages of two so that the cut and the pages
matter, three settings, one commit, which is what it takes to learn and to re-open.

### Marks: `TashkeelEditor`, `Vocalisation`

`Vocalisation` walks an alignment as `vowel_harakat` does (`Walk`: article, vowels, long vowels, doubled
consonants, tanween, sukun) and lists the vocalisations of the session. `TashkeelEditor` has the letters with
their marks, the focused letter and the selection; `slots'` is given by the mark commands, `Render` and
`SlotsOf` are its output and `load`. `CommitsWhatItShows`: the text it commits reads back as the marks it
shows. `VocalisesTheReading`, about both: a vocalisation derived from the typed vowels is the reading with
marks and nothing else, and the letters in `Spared` carry none but the fathatan of the ending: alif, alif maqsura, ta
marbuta, the letters of long vowels (not a consonantal waw), and the alif and lam of an article written so. The run
has the articles of `mappings.tsv` that are written otherwise too, lam alone and with a hamza; their letters take marks
in the code, which docs/03 10.6 denies (section 9), so `Spared` leaves them out and the first two conjuncts cover them.
Bounds: alignments of up to three of seventeen chunks, in every order the positions allow, with every style and
four forms of a sacred word; words of up to three letters with every kind of mark.

### Keys: `Keyboard`, `Shortcuts`

`Keyboard` is `classify` as operators over all router states, and the key sink around it: `Press`
(OnTestKeyDown and OnKeyDown, which see the same state, so they are one action; auto-repeat is the same
action again), `Release`, `PreservedKey`, `ClickRow`, focus changes, and what nobody tells the service:
`LoseUp`, `SlipTo` and hosts that leave out OnKeyDown for a refused key. The history is in `held`, `lost`,
`sinceShift`, `otherKey` and `wordScope`; nothing but the properties, the guards of the environment and the
history itself reads it. `UpsMatchDowns`, `OnlyTapsToggle` and `ScopesRespected` are the properties. It runs
twice: `keys` has a letter and Shift, lost key-ups and a clock of three ticks; `fields` has four
fields in two contexts (one without learning, one Latin, one without input method) and the keys that begin,
end and re-open words. One lost key-up and one held key are what it takes to leave a flag behind; a clock of three
ticks with a limit of one wraps between any two presses.

`Shortcuts` has the four readers of a shortcut: `Valid` (Settings), `Parsed` (the file), `KeyMap` and
`Classify` (the router), `HotkeySpec` (the companion). `Save`, `EditFile`, `ReadConfig`, `Register` and
`Press` are its actions. `TypingGoesOn`: whatever is in the file, ordinary keys still type. `ReservedStayFree`: no
chord of others (`Taken`) is registered, however its modifiers are spelled: none with the Windows key, no Alt+Tab with
anything added, and none of those that are reserved with Alt, Ctrl or Ctrl+Shift alone. `Taken` is written from the
keys as pressed and `ReservedShortcut` from the names in the file, so what one spelling would let through shows.
Two changes are enough for two chords that meet; the spellings cover both names of Ctrl, every modifier, the
Windows key, and Tab with Ctrl+Alt and Ctrl+Shift. `ListKey` leaves out the hyphen after an article, which the router
takes (keyrouter.rs:334): no shortcut is involved.

### Following the word: `Relayout`

One thread: TSF runs queued sessions and reports layout changes (`note`) before the application's message
loop turns (`Turn`). Reading a position (`Ask`) may be reported as a layout change itself, the echo. The four
brakes are `queued`, `settled`, `budget` and the marker in `inbox` (`Pumped`); `Discard` is `ClearOnDrop`.
`EchoesEnd`: between two turns at most one re-read finds the word in place. `FollowsTheWord`: when nothing is
on its way, the popup is where the word is, unless the move was one that the code rightly did not see (`blind`).
Bounds: a budget of three, two sessions, two messages: a re-read can echo twice before the budget stops it,
and an echo, a real move and a marker can cross.

### The configuration and its readers: `Settings`

The app writes a temporary file, renames it and tells the companion in three steps (`WriteTmp`, `Rename`,
`NotifyCompanion`); a keyboard reads the time, the text, and goes on (`StartWord`, `LoadConfig`, `Reading`)
with the other steps in between; the companion starts, reloads, checks, reschedules and quits. Time stamps
count replacements: two replacements do not get the same one. Reads may fail. `SavedBeforeTheWord`: a word
is typed with what had been saved before it. `CompanionCatchesUp`: when no message is left, the companion
has the hotkey, the state and the timer of the file. Bounds: two replacements, so that one can fall between
the steps of reading the other; keyboards do not affect one another.

### Keyboards of the user: `Layouts`

The companion's check and `enable` look at the list and at the loaded layouts several times (`Begin`,
`ListSaved`, `Enumerate`, `Drop`, `Remember`), while the user adds and removes keyboards and Windows loads
layouts. `ChosenStay`: no chosen keyboard leaves the list, unless it was chosen while one of the two was at
work. `SkippedChecksMissNothing`: a check left out because nothing changed leaves no stray. One Arabic and
one other layout; the theorems hold for any number.

### The window: `Popup`

The service's state changes at once, the window when the session runs (`RunSession`, `due`), the targets of
the mouse when it is painted (`Paint`). Owners are destroyed with the window (`OwnerGone`). `HiddenLetsGo`:
a window that is not shown does not hold the mouse. `PlacedWell`: it stands on the work area, beside the
word where there is room. `ClicksTakeWhatTheyShow`: a click commits what the row shows, once the last change
has been painted. Two owners, two places of the word (in a corner; where the list fits above only and the
editor nowhere), pages of two rows.

### Coming and going: `Lifecycle`

Activation advises sinks (`advised`: what TSF calls, `cookies`: what the service knows), `Watch` moves the
sink of the document, `Panic` disables the process, `Cleanup` is `passthrough_cleanup`, and the object is
counted until nothing keeps it (`KeptAlive`, `Counted`). `NothingLeftBehind`: after Deactivate there is no
sink and no window, and when the last reference is gone the DLL can be unloaded. Two documents, a queue of
two, two activations.

## 6. Proofs

TLAPS proves the following for every value of the constants that satisfies the assumption. The assumptions
are named in the modules; the ones of `UserStore`, `UserModel` and `TextService`, and `ShortcutKeys`, `WordData` and
`EditorData` of `MC_Parts`, are evaluated in every run of their modules.

| Theorem | Property | Assumes |
|---|---|---|
| `UserStore_proofs!TypeCorrect` | `TypeOK` | `StoreAssumption` |
| `UserStore_proofs!CompactionsExclusive` | `OneCompactor` | `StoreAssumption` |
| `UserStore_proofs!DiskKeepsTheRest` | `BlindSpotsOnly` | `StoreAssumption` |
| `UserStore_proofs!DiskRefinesLog` | `DiskImplementsLog`: the disk implements `LearningLog` | `StoreAssumption`, `Alone`: one process writes |
| `UserStore_proofs!OthersCountOnce` | `OthersOnce` | `StoreAssumption` |
| `TextService_proofs!CommitsLandInOrder` | `LandInOrder` | - |
| `TextService_proofs!PendingCountsTheQueue` | `pending = Len(queue)` | - |
| `TextService_proofs!LatinComposesNothing` | `ArabicWhileComposing` | - |
| `TextService_proofs!CommittedWordsAlwaysStay` | `CommittedWordsStay` | `ServiceAssumption` |
| `TextService_proofs!PopupOnlyWhileComposing` | `PopupWhileComposing` | `ServiceAssumption`, `~Deferred` |
| `TextService_proofs!NoWordLeftBehind` | `NoOrphan` | `ServiceAssumption`, `~Deferred` |
| `TextService_proofs!CommittedWordsAreKept` | `ReopenedWordsStay` | `ServiceAssumption`, `~Deferred` |
| `TextService_proofs!FinalizedWordsAreKept` | `FinalizedStay` | `ServiceAssumption`, `~Deferred` |
| `TextService_proofs!TheWordIsTypedOnce` | `TypedOnce` | `ServiceAssumption`, `~Deferred` |
| `TextService_proofs!TheFieldShowsTheWord` | `~crossed => ShowsTheWord` | `ServiceAssumption`, `~Deferred` |
| `TextService_proofs!CommittedWordsStandOnce` | `~crossed => Once` | `ServiceAssumption`, `~Deferred` |
| `TextService_proofs!OneFieldShowsItOnce` | `ShowsTheWord`, `Once` | `ServiceAssumption`, `~Deferred`, one field |
| `Keyboard_proofs!UpsFollowDowns` | `UpsMatchDowns` | - |
| `Keyboard_proofs!WordsRespectScopes` | `ScopesRespected` | - |
| `Keyboard_proofs!ShiftTogglesWhenTapped` | `OnlyTapsToggle` | a clock of at least one tick |
| `Relayout_proofs!EchoesNeverFeed` | `EchoesEnd` | - |
| `Relayout_proofs!PopupFollowsTheWord` | `FollowsTheWord` | a budget that is a number |
| `Settings_proofs!SettingsApplyToTheNextWord` | `SavedBeforeTheWord` | - |
| `Settings_proofs!CompanionFollowsTheFile` | `CompanionCatchesUp` | `Hotkeys`: the default is a hotkey, and "off" and the refused ones are none |
| `Layouts_proofs!ChosenNeverDropped` | `ChosenStay` | the keyboard itself is no layout |
| `Layouts_proofs!SkippedChecksAreDone` | `SkippedChecksMissNothing` | "none" is no layout |
| `Popup_proofs!TheMouseIsReleased` | `HiddenLetsGo` | - |
| `Popup_proofs!PopupStandsWell` | `PlacedWell` | `Geometry`: rectangles are not upside down |
| `Popup_proofs!ClicksTakeTheRow` | `ClicksTakeWhatTheyShow` | pages of at least one row |
| `Parts_proofs!ChordsOfOthersStayFree` | `ReservedStayFree` | `ShortcutKeys`: letters and digits are no other keys |
| `Parts_proofs!ShortcutsLeaveTyping` | `TypingGoesOn` | `ShortcutKeys` |
| `Parts_proofs!NothingStaysInTheHost` | `NothingLeftBehind` | - |
| `Parts_proofs!TheChoiceComesFirst` | `ChosenComesFirst` | `WordData` |
| `Parts_proofs!TheListHasNoTwins` | `NoTwins` | `WordData`: what the engine may offer |
| `Parts_proofs!TheEditorWritesWhatItShows` | `CommitsWhatItShows` | `EditorData`: words are sequences of strings, "none" and "blank" are no marks |
| `Parts_proofs`, one theorem for each property of the machines above from `UpsMatchDowns` on | the property as `parts` checks it | as above |

Each proof has an inductive invariant that implies the property, a lemma that every step keeps it with one
case per action, and a temporal step. What the invariants add, and why:

- **`OneCompactor`**: a second process gets in through `Acquire` unless the lock file is there while somebody
  compacts. `HolderHasLock`: as long as no lock was broken, a compacting process implies that the file exists.
  A crash removes a holder but not the file; `AgeLock` keeps it; `BreakLock` sets `broken`, and then nothing is
  claimed. `TypeOK` is needed for `lock` and `writer`. Lemmas about `Replay`, `LoadAll` and `PrefixOf`
  give their types.
- **`BlindSpotsOnly`, `DiskImplementsLog`**: `StoreInv` says of every step of the writer thread what is still to be
  done and that doing it leaves the disk right: what `load_all` would make of the journal and the snapshot, or of
  the two that the compaction is about to write, counts every record that was not exposed as `written` does
  (`DiskInv`). Records are told apart by their number, and a number is in one place only: in a channel, or once
  in `written` (`IdInv`). With one writer no append falls into a compaction of another, so nothing is exposed
  (`ExposedInv`), and then each step of the store is a step of `LearningLog` or leaves the disk's view as it is.
- **`OthersOnce`**: until the first compaction (`FreshInv`) the journal is what was written, offsets stand inside it,
  and `own` holds places of own records only (`PlacesRight`); in what a process has read so far a record of
  another one counts once up to the offset and not after it (`CountsOf`), as long as no wipe was written or dropped
  (`Clean`): a wipe that could not be appended has cleared the memory of its process all the same.
- **`LandInOrder`** says nothing of the queue. `QueueInv`: the commits in the queue are in order, none is older
  than a commit that has landed, none is newer than the last one made, and `pending` is the length of the queue. The
  argument is the one in the comment on `run`: a new commit is the newest, and it may run at once only when
  `pending` is 0, that is, when nothing older waits; a discarded session leaves the order of the others alone.
  `OrderedConcat`, `OrderedHead` and `OrderedSubsequence` are about sequences only (a request comes in, the
  oldest runs, one is discarded); `ApplyLanded` says that a session lands only its own commit and never starts
  a word; `RunStep` puts these together for any handler.
- **`ArabicWhileComposing`** uses the same lemmas: a session that runs late shows the engine's word and cannot
  make one, so only a handler could, and only `AppendChar` and `ReEditKey`, in Arabic mode, do.
- **`CommittedWordsStay`** holds for every host: granting, queueing, refusing. `StayInv` reads the documents and the queue
  together. A committed word is `Safe`: it stands outside every composition (`Written`), the commit that writes it is still
  queued (`Coming`), or the user erased or reopened it. What a late session finds is not what its handler left, so the
  claim is about any session on any document: it leaves what is written alone, except for the word that a `ReEdit` names,
  which is a reopened one (`Lasts`, by op: `CommitLasts`, `ReEditLasts`, ...). `Counted` keeps a number free
  for the composition that a queued `Preview` or `ReEdit` may start: those that live and those that may still come are no more than
  the keys. `RunSplits` says of any handler that the sessions it requests run at once from the first on and the
  others are queued behind what waits, so one lemma (`Handled`) serves all actions. A discarded session may be the commit
  of a word; that is why the claim ends at the first loss, as in the code.
- **`PopupWhileComposing`**: `PopupInv` has that the queue is empty, that an open editor has a word, and the types
  of word and anchor. A preview shows the popup only for a word, and the session that can take a word away, a
  `ReEdit` that finds other text, hides it; that the editor is closed by then is why it is not provable, and
  not true, in a host that queues (`text_reedit_editor`).
- **What the fields show** (`NoOrphan` to `Once`) rests on one invariant, `SyncInv`. A document is read as the
  pieces that stand in it, and every edit session as an `Edit`: at most one piece goes, at most one comes, in one
  field, blanks aside, and what stood in one place still does. `Fine` says that a composition number is one
  piece and there are no more of them than keys, so a fresh one exists (`Docs`); a piece of the composition the
  state knows shows the word, in the field of the last key (`Shows`); it knows every composition, unless `crossed`
  (`Lonely`); words typed, committed or finalized stand somewhere or were erased (`Owe`); until the host ends a composition,
  the word is on screen, and it and the committed words stand once (`OnScreen`, `WrittenOnce`). First the sessions
  are shown to be such edits (`CommitOp`, `PreviewOp`, `FinalizeOp`, `DeleteOp`), then each kind of edit
  keeps `Fine` (`PreviewFine`, `CommitFine`, `FinalizeFine`, `CancelFine`, `ReEditFine`, ...), then each handler is
  one or two of them. A new word has the number of its key, and no piece is newer than the last key: that is why it
  cannot be in the document yet. `Ctrl+Space` from another field is the one step that breaks `Lonely`; it
  needs two fields. A commit by a click on the popup goes where the last key came from, which by `Shows` is where the
  composition is.
- **`Parts_proofs`**: a behaviour of `PartsSpec` belongs to one machine for good (`PartStays`) and is a behaviour of that
  machine (`KeyedBehaves`, `FollowBehaves`, ...), so what `Keyboard_proofs` and the others show of the machine carries over
  to the property as the run states it. The machine is instantiated with its theorems there, and the two instances
  are shown to have the same steps.
- **`UpsMatchDowns`** says nothing of keys that are up; `EatenInv` adds that they have a flag only when a key-up
  was lost, which is what a new press of them starts from.
- **`ScopesRespected`** says nothing once the word is committed, but Backspace can open it again: `ScopeInv` claims
  the same as long as there is an anchor. The lemmas are about the routes by which a word begins: only keys whose
  scope `decide` has just read, or an anchor.
- **`OnlyTapsToggle`**: `TapInv` has `now` equal to `shiftDown + sinceShift` modulo the clock with
  `sinceShift` less than a turn (`Tick` stops short of one); the remainder then is the time that has passed.
- **`EchoesEnd`**: the mark `queued` stands for the one `Relayout` in the queue, there is none once a re-read has
  settled, and only that one was counted. **`FollowsTheWord`**: where the place shown is not the word's, a report of the move,
  the re-read the mark stands for, or the preview that starts the composition is still to come (`OnItsWay`).
- **`SavedBeforeTheWord`**: no time a keyboard holds is ahead of the file's, and the text it keeps between reads is the
  file's as long as the times agree (`Fresh`). This is why the time must be taken before the text.
- **`CompanionCatchesUp`**: from the moment the companion reads the file until it is renamed, it follows it or
  has a message to come (`CompanionInv`); it has decided to quit only where the file does not need it.
- **`ChosenStay`**: what a process holds is no danger (`Harmless`): it keeps the chosen layouts until it knows its
  strays, and none of these is chosen. **`SkippedChecksMissNothing`**: in every step of a check, what is
  loaded and Arabic is in the list, still to be dropped, or failed (`Knows`).
- **`HiddenLetsGo`** is inductive. **`PlacedWell`**: a window that is shown stands where its model and its rectangle put
  it; `PlacedIsWell` is the arithmetic of that place. **`ClicksTakeWhatTheyShow`**: with no session due the window shows
  the service's model, with no paint due its targets are the rows of what it shows (`RowsInv`), and the page is one
  that the list has (`PageInv`).
- **`TypingGoesOn`**: what a keyboard runs with is a chord by `is_chord`, whatever the file says (`KeymapChords`), because
  `Parsed` keeps a default for anything else; such a chord has Ctrl or Alt for a letter and some modifier for a key that
  ends or shortens a word. **`ReservedStayFree`**: what is registered or saved is not reserved, and `Meant` maps every spelling
  to the modifiers that are registered (`RegisteredAreFree`, `TypedAreFree`).
- **`NothingLeftBehind`**: the service knows all it is advised on, nothing starts a word or shows the popup without a
  sink or after the cleanup (`Quiet`), and an object that nothing keeps is not counted (`Freed`).

- **`ChosenComesFirst`, `NoTwins`**: `SessionInv` says that the list is one that `rebuild` made for the word (`Shows`) and that
  what was learned for a key is a word of that key: unmarked, or what a marked phrase writes that must be
  asked for (`OwnWord`). Every item keeps `Offered` through styling, relaxing, duplicate removal and cut, one lemma for each:
  its text is its base, or a text that cannot be learned for the key. So where no base is the learned word, no text is
  either, and the word put in front has no twin. `OnlyKeeps` and `FlattenKeeps` say what the two folds return;
  they rest on `Induction`, which is induction over numbers for a set, from the well-founded `<` of the library, and so needs no
  theorem with an operator for a parameter. `WordData` is what the engine gives: the base of a reading is its
  text without marks, and nothing else of a key writes what a marked phrase that must be asked for writes. Of the
  phrases shipped (`data/seed/phrases.tsv`) only `thx` is such a phrase and `jzk` another. TLC evaluates `WordData` for the run's data.

- **`CommitsWhatItShows`**: `EditorInv` has that the slots are letters with marks (`Slot`) and that there is one at least; each
  command keeps it, the picks and the opened words because `load_word` makes nothing else (`LoadsSlots`). Reading back
  is an induction over the letters: `LoadsLetter` has that what is rendered of one letter, the letter and its marks
  in `render`'s order, adds that letter to what was read before, because a mark goes to the letter before it
  (`LoadsMark`); `RenderSteps` and `LoadSteps` unfold the two folds, by `Induction`. The marks, the letters and the words
  are any strings; "a vowel is none of the other marks" is all that is used of them.

Only model-checked: `ShowsTheWord` and `Once` in a host that queues (`text_deferred`); several of the other properties
fail there (section 9). `Vocalisation` and `UserModel`: what a whole alignment or a whole
journal folds to. `CommitsAreWritten`, `ReadersConverge` and
`Thaws` are liveness. TLAPS 1.4 has no proof rules for ENABLED, and its library's induction theorems take operators that
its provers cannot instantiate; RECURSIVE operators, which it cannot reason about, are used nowhere.

## 7. Not modelled

- **Search and scores** (`search.rs`, `charlm.rs`, `oov.rs`, `seed.rs`, weights in `user.rs`): floating-point
  arithmetic over model data. `Session` takes the readings as a parameter and `Vocalisation` takes alignments.
- **Orthography**: letter tables. What the list does with texts (hamza, sacred words, numerals) is in `Session`.
- **Model files, paths, logs, command line, training tools, web demo, pipeline**: read-only data, plain I/O, offline
  tools; nothing that changes state while a word is typed.
- **Windows calls without state of their own**: ToUnicodeEx, keyboard layouts of the physical keys, display
  attributes, the language bar item, DPI conversion, drawing.
- **Failed reads of the journal** (store.rs:178): `compact` goes on with an empty journal, so the properties of the
  disk would all need "no read failed" as a condition.
- **Time**: the 150 ms that Settings waits after a wipe, `LOCK_WAIT` and the tidy timers are orders of steps, not lengths.
- **DllCanUnloadNow** reads the lock count and the object count one after the other (dll.rs:138); COM asks its
  caller to allow for that. Server locks and enumerators are left out of the count.
- **Hotkey toggles** of the companion switch keyboards through Windows, with one remembered keyboard for all windows.
- **Several Settings windows** at once; its history list and the names of exports.

## 8. Running and reading

    tlc -config parts.cfg MC_Parts.tla            (all machines of section 5, about 2 minutes)
    tlc -config store_live.cfg MC_UserStore.tla   (store_*.cfg likewise)
    tlc -config text_sync.cfg MC_TextService.tla  (text_*.cfg likewise)
    tlc -config session_reedit.cfg MC_Parts.tla   (a violation, like the others that section 3 and 4 call violated)
    tlapm TextService_proofs.tla                  (about 15 minutes; and the other *_proofs.tla)

CHECK_DEADLOCK is off where the system may stop: bounds on keys, records and calls end every behaviour.

Operators marked `mutant` are not part of a specification: each is a plausible bug in the definition that
follows it, and replacing that definition by it must violate the property `PROJECT.json` names.
`map` in `PROJECT.json` gives the source lines of every definition.

## 9. Divergences without a run

Each was seen as a TLC counterexample, or while translating the code; none is claimed by a run.

User store and learning

- A lock file broken as stale can be the fresh one of another process that broke the same stale lock
  (store.rs:126-128, against "serialized by a lock *file*", store.rs:8): hence `~broken` in `OneCompactor`.
- A reload drops a record that is still in the process's channel (store.rs:276), and `sync` later skips it
  as its own: this process forgets the choice, the disk does not.
- `own` keeps offsets past the new length after a truncation (store.rs:284): another process's record that
  comes to lie there is skipped.
- An export of a full model can hold more records than an import accepts (`MAX_RECORDS`, learning_file.rs).
- Words of more than 84 bytes are learned in memory and never journaled; a wipe written after a torn record is
  lost with the other records up to the next compaction.

Text service

- A `ReEdit` queued before a focus change deletes the committed word and shows nothing, since the session
  it restored is gone (service.rs:1929-1935): `ReopenedWordsStay` fails in a host that queues.
- `comp_ctx` is known only once the first preview has run: with a queue, a key from another field before
  that continues the word there and both fields show it (`TypedOnce` fails).
- `OnEndEdit` never drops the re-edit anchor (docs/02-tsf-integration.md:101 and 311 say it does); the
  comparison with the text before the caret makes up for it.
- `OnCompositionTerminated` does not look at which composition ended; when the host ends one whose commit
  is queued, the commit inserts the word again and the word typed since is dropped.
- The setting `commit_on_focus_loss` (docs/02-tsf-integration.md:310, docs/13-config-schema.md:23) is
  parsed by `config.rs` and read by nothing.
- A field whose input scopes cannot be read counts as a normal one (service.rs:1087-1089).
- After a panic with the popup's state elsewhere, the cleanup is not tried again; OnTestKeyUp, OnKeyUp,
  OnPreservedKey and OnCompositionTerminated do not try it at all. A Finalize that the host refuses leaves
  the composition in `State`.

Keys

- A quick Shift+click toggles, although "Shift+click or a long hold never toggles" (keyrouter.rs:101): only
  keys disarm the tap.
- In a host that leaves OnKeyDown out for refused keys, a flag left by a lost key-up swallows the key-up of
  a later press that was refused (`UpsMatchDowns` leaves this out).

Lists and marks

- The raw item is not always the last one (session.rs:166, docs/05): the learned choice may be the raw item, and
  then it comes first.
- The plain spelling of a sacred word, once chosen, is pinned as the styled one.
- Docs/03 section 10.6 never marks the article's letters: an alignment that writes the article as lam alone or
  that does not begin with alif and lam leaves its lam markable, and tanween on the letter before an alif is
  put there whatever the letter is; a consonantal و or ي gets a sukun.

Following the word

- A move whose message was posted before the marker is reported while re-reads are settled, and ignored
  until the next one (the comment at service.rs:349-350 says otherwise): `blind` in `Relayout`.
- OnSetThreadFocus shows the popup at the old rectangle without reading it again (service.rs:654).

Configuration, companion, keyboards

- A companion that has posted its quit message and then handles a reload leaves although it is needed:
  `stranded` in `Settings`.
- A configuration that cannot be read counts as the defaults; the next save then writes defaults over the keys
  the Settings window does not show. Two Settings windows share one temporary file.
- Shortcuts are compared as text: "Ctrl+Shift+K" and "Shift+Ctrl+K" are two. They are compared neither with
  `mode_toggle` nor with the global hotkey, so Shift+Space as the toggle makes the default `commit_latin` dead.
- `drop_layouts_except` reads the list twice: a keyboard chosen in between is dropped: `crossed` in `Layouts`.
- The hotkey goes back to one remembered keyboard for all windows, taken at hotkey presses only ("Last non-Arabic
  keyboard of the foreground window").

Popup

- Clicks act on the rows of the last paint: one that comes before the next paint commits what the row would show
  now (`settled` in `Popup`).
- For a word above the work area the popup may stand above it too (`PlacedWell` asks that the word is on it).
