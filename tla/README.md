# Scrigno in TLA+

Scrigno keeps encrypted documents: a Rust server stores opaque records and
blobs in PostgreSQL and an object store; client devices hold the keys, edit
offline in SQLite, and synchronise; an Android app runs the client behind a
vault that locks itself. This directory models the parts where several actors
touch the same state or where something may be cut short, checks them with TLC
on small instances, and proves their safety with TLAPS for instances of any
size: document routes, change feed, sync engine, blob store and collector, file
format, blob cache, keys, and app session.

All paths below are relative to the repository. `PROJECT.json` maps every
definition to the lines it stands for.

## 1. The system

| Part | Code | State | Operations | Hard part | What makes it correct |
|---|---|---|---|---|---|
| Document routes | `crates/scrigno-server/src/routes/docs.rs` | `document` rows, `document_change_seq` | PUT, DELETE with `If-Match` | concurrent transactions, row locks, lost commits | compare-and-set per document; versions step by one; a 412 shows something newer |
| Change feed | `routes/changes.rs` | (reads `document`) | page after `since` | numbers are drawn before commits | a cursor misses nothing |
| Blob upload | `routes/blobs.rs` | `blob` rows, objects | `put_blob` | object store and table are two stores; cancelled handlers | a row's object is there and is what the row says |
| Range requests | `routes/blobs.rs` | none | `parse_range`, `get_blob` | numbers at the object's end and past 64 bits | exactly the bytes asked for |
| Blob collector | `gc.rs` | row locks | `sweep` every hour | races with uploads and document writes | referenced blobs stay; orphans go |
| Keyslot routes | `routes/vault.rs` | `vault`, `keyslot` rows | create, add, delete | check and act in two statements | one vault; never without a keyslot |
| Bootstrap | `crates/scrigno-client/src/vault.rs` | `kv` rows, key in memory | create, join, unlock, recovery slot | lost answers, torn writes | one master key; everyone gets in |
| Local edits | `vault.rs`, `store.rs` | SQLite rows, cached blobs | add, update_meta, delete, open | versions guessed ahead of the server | metadata opens under its version |
| Sync engine | `sync.rs`, `http.rs` | cursor, in-memory progress | pull, conflict copy, push, rounds | interruption, stale pages, late requests | no edit lost, agreement |
| Blob cache | `vault.rs`, `store.rs` | files, `blob_cache` rows, index in memory | download, evict by LRU, `keep_offline`, prefetch | kills and power losses between file and row | the only copy survives; damage is noticed; kept documents stay |
| Blob stream | `crates/scrigno-core/src/blob.rs` | none | `Encryptor`, `Decryptor` | the last chunk; files cut short or put together anew | only the original decrypts to its end |
| App session | `apps/mobile/src-tauri/src` (`state.rs`, `commands.rs`, `lifecycle.rs`, `config.rs`) | vault slot, idle and background marks | commands, auto-lock, focus events | timers and callbacks in any order | the vault comes back to its slot and is locked in the end |
| Quick unlock | `quick_unlock.rs` | device secret, Stronghold snapshot, bookkeeping | enable, forget, prompt | three files under no lock | prompts are counted; forgotten is forgotten |
| Shared copies | `commands.rs` | plaintext files in the cache directory | `doc_share`, timers, sweep at the start | timers of several shares of one file | every copy has a deletion to come |

The parts meet in four places. A client pushes blobs to the blob routes and
then rows to the document routes; a foreign key ties a live row to its blob
row, and the collector respects it. A client pulls through the change feed,
which reads the rows the document routes commit. The vault's mutex on a
device keeps its commands and its sync apart, so one device is sequential and
the concurrency is between devices, server handlers and the sweep. And what a
sync does to rows is done to files and cache rows too, where a kill may come
between the two.

## 2. Modules

| Module | Models | Notes |
|---|---|---|
| `DocRecords` | the `document` row and how a PUT or DELETE derives a new one | shared vocabulary; `NoRow` has version 0, the sentinel of `version_mismatch` |
| `DocRegister` | what the routes promise | abstract: a call takes effect at one instant or not at all |
| `DocServer` | the routes over READ COMMITTED PostgreSQL | one action per round trip; implements `DocRegister` |
| `FeedPage` | the query of `GET /v1/changes` | a pure operator, used by the next two |
| `ChangeFeed` | `DocServer` with a reader of the feed | composition |
| `SyncEngine` | devices, their SQLite and cache, `sync()`, and the server | composition: the server is an instance of `DocRegister` |
| `RangeRequest` | `parse_range` and the answer of `get_blob` | pure; extended by `BlobServer` |
| `BlobServer` | blob rows, objects, `put_blob`, `put_doc`, `delete_doc`, `sweep` | |
| `VaultKeys` | keyslot routes and device bootstrap | |
| `BlobStream` | `Encryptor` and `Decryptor` | pure, on sequences of marked bytes; extended by `BlobCache` |
| `BlobCache` | files, cache table, limit and index of one device | with kills and power losses |
| `QuickUnlock` | the three files of quick unlock | operators on a record; extended by `AppSession` |
| `AppSession` | the app's tasks, slot, marks, timers and files | |
| `DocServer_proofs`, `FeedPage_proofs`, `SyncEngine_proofs`, `BlobServer_proofs`, `BlobStream_proofs`, `BlobCache_proofs`, `VaultKeys_proofs`, `AppSession_proofs` | | theorems about the module of that name; `DocServer_proofs` has those about `ChangeFeed` too |
| `MC_DocServer`, `MC_SyncEngine`, `MC_BlobCache` | | symmetry sets and document lengths for TLC |

Operators such as `NeverLocked` or `LastWriterWins` that stand just before a
definition are faulty variants of it, with the same parameters. No
specification uses them; each shows that some property notices the fault.

### How state and actions correspond to the code

**DocServer.** `req[r]` is a handler task: `blob` (before the blob lookup),
`stmt` (before its INSERT or UPDATE), `hold` (the statement wrote a row, the
transaction is open, the row lock is held), `miss` (no row touched, the row
must be read again for the answer), `done`. `DrawSeq` is apart from `Insert`
and `Update` because PostgreSQL evaluates `nextval` before it looks for a
conflict or locks the row: a waiting statement already has its number. After
the wait an UPDATE's condition is evaluated again on the committed row, so
`Update` and `Miss` look at `doc` as it is then. `Commit` may be followed by
an error for the caller. `Abort` is a database error or a hang-up at any point.

**ChangeFeed.** `Poll` reads one page in one snapshot and moves the cursor to
its `next_since`. `Covered(d)` says of one record what the reader relies on: it
has the committed row if the cursor has passed it.

**SyncEngine.** A document keeps the blob it was created with for life, so a
blob is named by its document. Metadata is abstracted to the number of the
edit that wrote it and the version it is sealed for. One action is one
committed SQLite write, one request, or one answer; memory (`task`) is lost by
`Interrupt`, a request already sent is not. A push sends the metadata of the
row and keeps it; a pull replaces the row. `apply_pulled_record` is two steps:
`DropBlob` takes away the cached blob the server's record no longer names, and
`ApplyItem` replaces the row (`Overwrite`) once the blob is gone; an interruption
may come between them. A device that has lost a new document's blob that way
uploads nothing, and the sync ends there (`Upload`). `Cache` is
`evict_cache_over_limit`: blob sizes and the limit are left open, so any set
of blobs may go that the query of `cache_evictable_by_lru` may return;
`CopyEvicted` is the conflict copy whose download is evicted before it is read
(`sync.rs:194`), which needs a limit that blobs in use alone fill, `TightCache`.
The server commits one write at a time here, so its numbers become visible in
order. `ChangeFeed` shows what a reader suffers when they do not, and its proofs
that it suffers nothing else; assuming the order in `SyncEngine` keeps that fault
from hiding others.

**BlobServer.** One action per SQL statement or object-store call. `put_doc` is
reduced to the blob lookup, the write with its foreign key check, and the
commit. The sweep's snapshot (`ScanBlobs`) and its row locks (`LockBlobs`) are
two steps of one statement: `SKIP LOCKED` skips rows that writers hold, but a
document committed in between does not change the blob row, and only the
foreign key stops the `DELETE`. `raced` is a history variable: the ids whose
upload overlapped another upload of the same id or a sweep that had committed.

**RangeRequest.** A header is a record of what its text says. `ParseRange`
follows `parse_range` check by check, `Answer` is what `get_blob` makes of it,
and `Selected` is what the header means. `ExactSizes` is the set of object
sizes for which the two agree on every header; the invariant `RangesAreExact`
says it holds all sizes. `MaxU64` stands for the largest 64-bit number:
headers go two beyond it, objects stay below it.

**VaultKeys.** A vault id also stands for its master key, a keyslot for the key
it wraps. `BindVault` and `SaveKeyslot` are the two writes of
`persist_bootstrap` that matter, each a transaction of its own.

**BlobStream.** A byte of ciphertext is a record that says which byte of which
segment of which blob it is; a segment opens only whole, in its place, and with
the marker it was sealed with. `WriteByte` and `Finish` are the encryptor;
`FillNextSegment`, with the one byte it reads ahead, is the decryptor. `Sound`
is the set of blobs for which every content of up to three chunks comes back,
and which no file but their own is decrypted to the end of: the files tried are
all truncations of all arrangements of up to four headers and segments of the
blobs (`Damaged`). A run computes `Sound` for two blobs; `BlobStream_proofs` shows
that it is all of them, and that the files need not be of that kind.

**BlobCache.** One operation runs at a time, because commands and syncs hold the
slot; `op` is where it is. `file[d]` is the number of bytes of the blob's
ciphertext on the disk, and `BlobStream` says what can be read from that many.
Files appear before their rows (`Write`, `Record`; `Fetch`, `Enter`) and go
after them (`EvictRow`, `Unlink`). `EvictRow`, `Unlink` and `Evicted` are
`evict_cache_over_limit`, which reads the total once; `Ensure`, `Fetch` and
`Enter` are `ensure_cached`; `Read` and `Opened` are the end of `open` and the
reading half of `create_conflict_copy`. `Push`, `Pull`, `PullTombstone` and
`Overwrite` are what a sync does to rows and blobs, with any answer the server
may give: another device's tombstone may come for any live row the server has,
a "new" one whose push was never answered (`stored`) too, and takes its blob and
file before its row. `Kill` loses memory. `PowerLoss` also cuts files whose bytes
were not flushed: an encrypted new document is (`sync_all`), a download is not.
And it may take a file's name, of the new documents too, because nothing flushes
the directory after the rename (`vault.rs:703`). `named` are the files whose
name has lasted, `lost` those in the table whose name has not; what is said of
the only copy on the disk is said of documents outside `lost`. Assumed of the
platform: a committed SQLite transaction survives, and the clock behind
`last_access` does not go back. An unlinked file that a power loss brings back
is left out (nothing looks at it before the next download replaces it), and so
are temporary files.

**QuickUnlock, AppSession.** A task is a Tauri command or a window event, and
`pc` is where it awaits or touches the disk. The slot's mutex is held from
`TakeVault` to `GivesBack`; `SlotKept` ties `holder` and the empty slot to those
places. The kind `use` stands for every command on documents, for a new
recovery code and for `sync_now`. A window event is spawned as a task of its
own, so `Blurred` and `Focused` come in any order. The auto-lock loop reads
the marks and then waits for the mutex: two steps. The three files of quick
unlock are read and written one per step under no lock. A write of the
bookkeeping that fails half way, or dies there, leaves what reads like no file;
one that fails at once leaves the old file; and either error is dropped
(`commands.rs:280`), so that the prompt goes uncounted. A failure after the vault
was used up asks `reopen_locked` for a new one, which may have none to give: the
slot then stays empty until the next start (`Reopened`). `Crash`
is the death of the process; the next start sweeps the shared copies. Idle
tasks are alike, so the next one to run is `CHOOSE`n. Six history variables
state the properties: `tries` (prompts failed since the passphrase was last
entered, whenever the bookkeeping learns of it), `uncounted` (those of them the
bookkeeping does not count), `stuck` (the slot is empty for want of a vault),
`forgotten`, `mixed` (forgetting and enabling overlapped, or forgetting was
cut short; `QuickUnlockIsWhole` claims nothing of the files then), `leftover`
(a copy whose write failed, which waits for the next start or share).

## 3. Runs

| Run | Instance | Shows |
|---|---|---|
| `DocServer` | 2 documents, 2 handlers, 4 numbers; a reader of the feed with pages of 1 record (`FeedSpec`) | uncommitted rows are the next version, numbers never collide, a 412 is newer, versions step by one, the refinement of `DocRegister`, and a record escapes the reader only when it is committed after a greater number |
| `ChangeFeed` | the same with 2 numbers and pages of 2 | **violated**: the cursor passes a number that is committed later |
| `SyncSafety` | 2 devices, 3 documents, 2 additions, 2 edits, 2 interruptions, 1 collected blob, pages of 1 record, deletion before the first push and a tight cache allowed | rows readable under their version, clean rows are the server's, the cursor covers the feed, blobs exist where rows need them until another device deletes the document, nothing rewinds |
| `SyncLive` | the same with 1 addition and 3 edits, documents opened and the cache limit moved; no interruption, collection, early deletion or tight cache | no edit lost, devices agree in the end, every sync returns |
| `SyncInterrupted` | 2 documents, 1 interruption | **violated**: the edit of an interrupted conflict is lost, and no later sync redoes its copy |
| `SyncUnpushedDelete` | 2 documents, 2 edits, deletion before the first push | **violated**: the device never synchronises again |
| `BlobServer` | 2 blobs, 2 contents, 2 uploads, 1 write; objects up to 4 bytes, numbers up to 8 | referenced blobs keep their row, damage only through a named race, referenced objects immutable, orphan rows collected, ranges exact |
| `BlobGcRace` | 1 of each | **violated**: a live document's object is deleted |
| `VaultKeys` | 2 devices, 2 vault ids, 3 slots, 1 deletion at a time | one master key, a slot is left, everyone gets in |
| `KeyslotRace` | 1 device, 2 slots, 2 deletions | **violated**: no slot is left |
| `BlobCache` | 2 documents of 4 and 3 bytes (chunks of 2), one of them made elsewhere, limits 0 and 9, cuts at 0, 4 and 7, 2 crashes | files match the table, the only copy is whole while its file keeps its name, `open` fails for a named reason only and never reads anything wrong, the index tells the truth, the format is sound, kept documents get in and stay |
| `AppSession` | 2 tasks, 3 commands or events, 1 crash, 2 prompts allowed | the vault comes back unless it cannot be reopened, prompts bounded but for uncounted ones, quick unlock whole or gone, copies have a deadline, the vault is locked in the end |

### Bounds, and why they are enough

*DocServer*: the races are between two handlers of one document or of two;
with 4 numbers each handler can win, lose and win again. The proofs remove
the bound. For the reader, two numbers are the fewest that can be committed in
the wrong order; with more, a row is replaced after the cursor has passed it, and
with pages of one record every page but the last ends before the feed does. The
reader changes nothing in the server, so the runs' properties of the routes are
those of `Spec` (`ReaderDisturbsNothing`).
*SyncEngine*: in `SyncLive` one addition and three edits let both devices edit a
shared document, delete it, and edit the conflict copy; in `SyncSafety` a lost
answer, a deletion elsewhere and a kill can meet in one document, which takes two
interruptions, and a second document can be added and deleted before its push (its
proofs hold for any number of each); pages of one record
and two documents make a pull take several pages; three document ids never
run out in `SyncLive` (a copy that found none would wait, against
`SyncReturns`). `MaxSeq` and, in `SyncSafety`, `MaxRounds` do not
bind on these instances. `MaxEdits` bounds the users, not the conflict copies.
`Browsing` switches `open` and `set_cache_limit_mb` on: they multiply the
states and reach the cache only, so `SyncSafety` leaves them out (its cache is
still evicted from by additions and conflict copies) and `SyncLive` has them.
*BlobServer*: two uploads of one id, or of two, against one sweep and one
document write are the overlaps the code can see; the proofs remove the bound.
For ranges the boundaries are 0, the size, the size plus one and the largest
number, and all of them lie within the instance. *VaultKeys*: two first
devices, a slot for each creation and one for recovery; proved for any number.
*BlobCache*: one document fills its last chunk exactly and the other does not;
a limit of 9 holds either file but not both, 0 none; the cuts leave an empty
file and files that end with a whole segment that is not the last, which are
the hardest to tell from whole ones (`FormatIsSound` tries every other cut, and
the proofs all of them). The second crash can meet what the first one left. *AppSession*:
the two tasks give every pair of commands every interleaving, and the third
start lets one more command meet what they left behind; two prompts are the
least at which a lost count differs from a reached limit. The invariants are
proved without these bounds.

`CHECK_DEADLOCK FALSE` stands in the two keyslot configurations only: a data
directory with a torn bootstrap accepts no command, so the system may stop.

### Fairness

`SyncEngine`: a started sync goes on, the server answers, and every device
starts a sync again and again (the app does on foreground, on pull-to-refresh
and after changes). Users, interruptions and the collector are never forced.
`BlobServer`: the sweep is a timer loop that survives its own errors, and
blobs grow old. That handlers end is not assumed; `OrphanRowsCollected`
asks that the server stop restarting and writers stop interfering.
`VaultKeys`: a device that wants in tries again; nobody is forced to add or
delete keyslots, and `EveryoneGetsIn` assumes that faults stop in the end.
`BlobCache`: an operation goes on, the user unlocks and synchronises again and
again, and of the downloads a sync tries for a document not all fail (strong
fairness on `Fetch`, because a failure ends the sync's attempt and the next
sync tries again). That includes requests that end: a download has no timeout of
its own (`http.rs`), and one that never returned would keep the slot. And it
leaves out a document whose download always fails: `prefetch` ends at the first
failure, so such a document keeps those after it from ever being fetched.
`AppSession`: the runtime goes on with its tasks, requests and prompts return,
time passes; weak fairness on the tasks' steps together (some task that can go on
does, and each has finitely many steps to its end) and on the auto-lock loop,
none on deletion timers or on the background threshold.

## 4. Where code and documents disagree

1. `ARCHITECTURE.md:117`, the cursor is the "last server_seq applied": numbers
   are drawn before commits, so a page can skip one (`ChangeFeed`).
2. `ARCHITECTURE.md:156`, "No data is ever lost silently": the server's record
   is committed before the conflict copy exists (`SyncInterrupted`).
3. `ARCHITECTURE.md:148` and `ROADMAP.md:76`, sync is always safe and converges:
   a document deleted before its first push is answered 404 for ever
   (`SyncUnpushedDelete`).
4. `ARCHITECTURE.md:110`, "a document never points at a missing blob", and the
   comment in `gc.rs`: objects are deleted after the commit, when the id may
   have been uploaded anew (`BlobGcRace`).
5. `routes/vault.rs:134`, "Never deletes the last slot": count and delete are
   not atomic (`KeyslotRace`).
6. `sync.rs:5-8`, what a crash cuts short "either fully commits ... or doesn't
   happen at all", and the next sync redoes it: the trace of item 2 refutes this
   too. The server's row is committed and its clean copy on the device tells no
   later sync that a conflict copy is owed (`SyncInterrupted`). The comment on
   `apply_pulled_record`, that the conflict's copy comes before it
   (`sync.rs:124-125`), describes an order that would not lose the edit; its
   caller has the other.

Others, noted and not counted:
- The edit of item 2 is also lost without an interruption, when it conflicts
  with a deletion whose blob the server has collected: the pull removes the
  cached blob before the copy reads it. `SyncInterrupted.cfg` with
  `MaxInterrupts = 0` and `MaxCollects = 1` shows it; it is the same promise.
- The same comment of `sync.rs` leaves out that the cached blob and its file go
  before the row (`sync.rs:138-156`). When a push is accepted, its answer lost, the
  document deleted by another device and the device killed between the two, the
  row stays live and never confirmed, without content; if the server has collected
  its copy, nobody has it. The next pull replaces the row by the tombstone.
  `UnpushedBlobKept` and `UnsentIsWhole` except this case by name.
- A power loss may take the name of a new document's file and leave its row
  (`vault.rs:703`, no flush of the directory). It stays listed as cached, and its
  push ends every sync (`lost` in `BlobCache`).
- `CRYPTO.md` 5.2 asks for the passphrase after 5 failed prompts. That holds as far
  as they are counted: `record_failed_biometric_attempt` is best effort, and the
  bookkeeping of a passphrase entered earlier, written late, forgives prompts
  that failed since (`PromptsBounded`).
- `ARCHITECTURE.md` and `gc.rs:4` have the collector take orphaned objects; it
  goes by rows, and an object that never had one, or lost its row to a sweep that
  was cut short, stays (`OrphanRowsCollected` is about rows).
- A torn bootstrap leaves a data directory that refuses `create`, `join` and
  `unlock` (`Stuck` in `VaultKeys`).
- A tombstone's kept `enc_meta` is sealed for the version before the one in its
  row, which is why `Readable` speaks of live rows.
- When `config.json` could not be saved, `vault_unlock` refuses for want of a
  saved server, although `commands.rs:111` expects that the user may unlock
  manually again (`TakeVault`, the guard on `config`).
- A downloaded file is not flushed, so a power loss may leave it torn and in the
  table; `ensure_cached` takes a file that is there as it is, so `open` of that
  document fails until the blob is evicted (`OpenFailsForAReason`). It fails
  rather than give back wrong content (`OpenIsNeverWrong`).

## 5. Proofs

The theorems hold for every value of the constants that satisfies the named
assumptions: any number of documents, devices, handlers, uploads, tasks, and
any bounds. The arguments about the state machines share one form: an
inductive invariant, stated as a conjunction of named parts; one lemma per group
of actions that keeps it; and a temporal step that puts them together. The
inductive invariants of `SyncEngine`, `BlobCache` and `ChangeFeed` were checked
with TLC on small instances first.

The feed's order (`SortedBy`) and the cache's total (`TotalSize`) are defined by
what they are, the sorted sequence and the number of bytes of the files, and not
by a recursion, which the prover could not reason about.

### `DocServer_proofs`

From the assumptions of `DocRecords` (NULLs are no ids; `MaxSeq` is a natural
number):

| Theorem | Statement |
|---|---|
| `TypeCorrect` | `Spec => []TypeOK` |
| `Invariant` | `Spec => []IInv` |
| `NoLostUpdate` | `Spec => [](OneWriter /\ PendingIsNext)` |
| `SeqsNeverCollide` | `Spec => []SeqsDistinct` |
| `MismatchShowsNewer` | `Spec => []MismatchIsNewer` |
| `StepByOne` | `Spec => VersionsStepByOne` |
| `Refinement` | `Spec => ImplementsRegister` |
| `TombstonesHaveNoBlob` | `Spec => []BlobIffLive` |

No safety property is inductive alone. That a held row is the next version
(`PendingIsNext`) survives another handler's commit because that handler
cannot hold the same document (`OneWriter`, from the row lock). That its number
is greater than the committed one needs `DrawnIsNewer`: a number drawn while
the row matched `If-Match` is greater as long as it still matches, because a
commit moves the version past every caller (`CallersKnown`). That a 412 is
newer needs `MissIsBehind`, what a handler knows between its two statements.
`SeqsDrawn` ties numbers to the sequence. Every action but `Commit` changes one
handler and leaves the table alone, so one lemma (`LocalStep`) covers them: the
new handler state is consistent with the table and holds no number but its own
or a new one. `Commit` has its own lemma. For the refinement `Commit` is the
instant a call takes effect, `Fetch`, `Abort` and the failed blob lookup are
the register's other answers, and drawing numbers or writing uncommitted rows
are stutters. `BlobIffLive` needs two more facts: only a PUT looks a blob up
(`BlobLookupIsPut`), and a deletion holds a row only over one that exists
(`TombstonesReplace`).

### `FeedPage_proofs`

`PageIsComplete`: for any table whose numbers are distinct, any cursor and any
limit above 0, a page holds rows after the cursor only, each once, and every
row whose number lies between the cursor and `next_since`; if
`has_more` is false it holds all that are left. The library's induction theorems
cannot be instantiated, so that finite sets can be sorted at all is proved by a
smallest counterexample, with the fact that `<` on the naturals is well-founded.

### The reader of the feed, in `DocServer_proofs`

From `LimitIsPositive` (the route refuses other limits) and `DocsAreFinite`,
with the invariant of `DocServer` and `PageIsComplete`:

- `ReaderDisturbsNothing`: `FeedSpec => Spec`;
- `EscapesAreLateCommits`: `FeedSpec => OnlyLateCommitsEscape`;
- `CoversInOrder`: `FeedSpec => ([]InOrder => []CursorCoversFeed)`.

`CursorCoversFeed` is false (section 4); these say what is true instead. A poll
takes no record away from the reader, because a page is complete up to its next
cursor (`PollEffect`). A commit does only if its number is not greater than the
cursor. The cursor was the number of a committed row, which may since have been
replaced by a row of a greater number (`CursorIsKnown`), so some committed row
has at least that number, and not the same one (`SeqsDistinct`). If commits come
in the order of their numbers (`InOrder`) there is no such row, and the cursor
covers the feed: serialising the writers, or reading no further than the
smallest number in use, would be enough.

### `SyncEngine_proofs`

From `LimitsArePositive`, `BoundsAreNat`, `SwitchesAreBoolean`, `DocsAreFinite`
and `NullsAreNoValues`, with `PageIsComplete`:

| Theorem | Statement |
|---|---|
| `Invariant` | `Spec => []IInv` |
| `TypesHold` | `Spec => []TypeOK` |
| `AlwaysReadable` | `Spec => []Readable` |
| `CleanRowsAreCommitted` | `Spec => []CleanIsCommitted` |
| `CursorNeverSkips` | `Spec => []CursorCovers` |
| `UnpushedStaysCached` | `Spec => []UnpushedBlobKept` |
| `ServerKeepsBlobs` | `Spec => []ServerBlobKept` |
| `ConfirmedNeverRewinds` | `Spec => NeverRewinds` |
| `EditsAreKept` | no tight cache: `Spec => [](Calm => NoEditLost)` |
| `NoEditIsLost` | no tight cache, interruptions or collections: `Spec => []NoEditLost` |

What makes the properties hold is what a device may believe while others write.
`IInv` says it of every row a device holds, has sent or waits for. A row of a
page was the server's at some time, and is still if its version is (`Past`). A
local row is clean at the version the server confirmed, or dirty at the next one
(`RowOK`). A page being applied, with the rows already applied, covers all
numbers up to its next cursor that have not moved past it (`PageOK`); that is
where `PageIsComplete` enters, and what `CursorOK` rests on. A queue holds dirty
documents once each (`QueueOK`), a request names a version the device was told
of (`RequestOK`), an accepted one made its row (`AcceptedOK`), and an answer goes
to the device that asked (`OneSender`). Server steps move a row to a later
version under a greater number (`Forward`), which keeps all of this for every
device at once; so each action of a device needs only what it changes of that
device.

For `UnpushedStaysCached`: a document's row of a page names the blob the document
was created with or is a deletion (`Past`), and so does the local row (`RowOK`). So
`DropBlob` takes the blob of a tombstone's document only, which the server has
deleted (`DropBlobStep`).

For the edits `EInv` is added. Whoever holds an edit based on the server's row
has seen that row, so a user who pushes it has written over what it held
(`KnownRow`, `RowKnown`, `CallKnown`); a copy being made is of a document the
server has, and its blob is there (`CopyKnown`, `BlobThere`); and every edit that
nobody has written over is in a live row of the server, in a dirty row, or in a
copy being made (`Somewhere`). The hypotheses of `EditsAreKept` are real:
`Calm` says that no sync was cut short and no blob collected so far, and
`SyncInterrupted` loses an edit as soon as one is; a tight cache evicts the
download of a conflict copy before it is read. Up to the first interruption the
theorem holds for any number of conflicts, devices and edits.

### `BlobServer_proofs`

From `NoneIsNew` (NULL is no blob and no content):

| Theorem | Statement |
|---|---|
| `TypeCorrect` | `Spec => []TypeOK` |
| `ReferencesHold` | `Spec => []ReferencedHasRow` |
| `ObjectsMatchRows` | `Spec => []DamageOnlyByRace` |
| `ReferencedStay` | `Spec => ReferencedIsImmutable` |
| `RangesAlwaysExact` | `Spec => []RangesAreExact` |

`ReferencedHasRow` is inductive with `TypeOK` and `LocksExclude`: the rows a
sweep has locked are such as no open document write has locked, so neither can
commit what the other has checked (`RowInv`). A stored object is what its row
says because an upload outside `raced` is alone: no row yet, no other upload of
the id, no pending deletion, and its object is its own by the time it inserts
the row (`AloneUnlessRaced`); and a sweep deletes only objects whose rows are
gone and stay away (`SweepInv`). `ReferencedStay` combines the two invariants. `RangesAlwaysExact` is a fact of
arithmetic, proved for every size up to the largest number (`SizesFit`) and every
kind of header.

### `BlobStream_proofs`

From `SizesArePositive` and `LengthsAreNaturals`, for all sizes of chunks, tags and
headers:

| Theorem | Statement |
|---|---|
| `RoundTrip` | decrypting what was encrypted gives it back and ends well, for contents over any set, of any length |
| `LengthIsSize` | `Len(Ciphertext[b]) = Size(b)` |
| `OnlyTheFileOpens` | from any sequence of bytes of any blobs' files and bytes nobody sealed, a beginning of the content is read, and the reading ends well exactly for the blob's own file |
| `EveryBlobIsSound` | `Sound = Blobs` |

`Encrypt` and `Decrypt` are recursive functions of the number of bytes or steps, and
the library's induction theorems are out of reach. What is used instead
(`Induction`): a set of naturals that holds 0, and with each number the next, holds
all, because `<` on the naturals is well-founded and a smallest number outside
would follow one inside. The recursive functions are shown to exist by the same
lemma (`EncryptingExists`, `DecryptingExists`), because what `CHOOSE` finds is
known only if there is something to find. Then:

- after i bytes the encryptor has written the full segments of these bytes and
  buffers the rest, less than a chunk (`Encoding`, `WriteByteEncodes`), so a file has
  n full segments and a last one (`IsFile`, `EncryptLayout`);
- before segment t the decryptor has read the file's own first t segments and put
  out their chunks, holds no more than the one byte it read ahead, and has lost
  nothing of what follows (`AtSegment`, `Cut`);
- a byte of blob b, in whatever file it is found, is one that b's encryptor sealed
  there (`Genuine`), so a run of bytes that opens as segment t is segment t
  (`OnlyTheSegmentOpens`), and it is taken for the last one exactly if it was sealed
  as the last one. A step therefore goes on to the next segment, ends well behind
  its last segment with nothing left over, or fails (`OpensStep`, `BreaksStep`);
- a segment has bytes, so the steps that `Decrypt` allows are enough
  (`DecryptGives`).

That a full last chunk, an empty content and a file cut between two segments are
told apart rests on the comparison with `ChunkSize + TagLen` and on the byte read
ahead (`IsLast`); nothing is assumed of the lengths.

### `BlobCache_proofs`

From `DocsAreBlobs`, `DocsAreFinite`, `BoundsAreNaturals`, `SizesArePositive`
and `LengthsAreNaturals`:

| Theorem | Statement |
|---|---|
| `Invariant` | `Spec => []IInv` |
| `TypesHold` | `Spec => []TypeOK` |
| `TableMatchesFiles` | `Spec => []FilesMatchTable` |
| `OnlyCopyIsSafe` | `Spec => []UnsentIsWhole` |
| `IndexIsTrue` | `Spec => []IndexTellsTruth` |
| `OpenFailsOnlyForAReason` | `Spec => []OpenFailsForAReason` |
| `FormatHolds` | `Spec => []FormatIsSound` |
| `OpenNeverWrong` | `Spec => []OpenIsNeverWrong` |

`OpOK` says what an operation knows of its document at each step. A file without
a row in the table is the operation's own (`FilesOK`); the file of a document
the server does not have is flushed before its row exists, no download or
tombstone comes for it, and a power loss can take its name only (`UnsentOK`); the index is behind within an operation only, and by one
document (`IndexOK`). `OpenFailsForAReason` is about eviction. The total that is
counted down is what the table still adds up to (`TotalOK`), and the blob just
downloaded is the last of the table, so that when it goes, all others that may
go have gone: the rest and its own size are over the limit (`RoomOK`). The
lemmas on the table (`TableWithout`, `TablePut`) say that a blob is listed once
and that the last stays last, those on sizes that a document adds its own. The last
two rest on `BlobStream_proofs`: a file on the disk is a beginning of the blob's
ciphertext, whatever has cut it (`TypeOK`), so `OnlyTheFileOpens` applies to it
(`PartOfFile`).

### `VaultKeys_proofs`

From `NoneIsNoVault`:

| Theorem | Statement |
|---|---|
| `TypeCorrect` | `Spec => []TypeOK` |
| `AllHoldOneKey` | `Spec => []OneMasterKey` |
| `LastSlotStays` | at most one deletion at a time: `Spec => []LastSlotKept` |

`KeyInv` adds to `OneMasterKey` that what a device has persisted between its
two writes, and works with in a session, is the vault's (`KvFollows`). For the
last slot `SlotInv` says that a deletion that has counted leaves another slot,
by the library's facts about finite sets. Its hypothesis is what `KeyslotRace`
drops.

### `AppSession_proofs`

From `NobodyIsNoTask`, `BoundsAreNaturals` and `MaxFailedIsPositive`:

| Theorem | Statement |
|---|---|
| `TypeCorrect` | `Spec => []TypeOK`, which holds `SlotKept` |
| `PromptsAreBounded` | `Spec => []PromptsBounded` |
| `FilesStayWhole` | `Spec => []QuickUnlockIsWhole` |
| `CopiesGetDeleted` | `Spec => []PlaintextHasDeadline` |

`SlotKept` makes every task that holds the mutex unique, and all the rest leans
on it. Prompts (`PromptInv`): the bookkeeping counts every failed prompt since the
passphrase was entered but one that is being recorded (`Slack`; there is one at
most, the holder's) and those in `uncounted`, whose write failed or whose process
died, or which a late bookkeeping forgave; a recording that has read the
bookkeeping knows all others (`Recorded`); whoever is about to prompt has seen
that prompts are left. Entering the passphrase starts both counts anew
(`PromptEntered`), and only those who entered one write that bookkeeping
(`EntriesByPassphrase`). Files (`WholeInv`): a forgetting that was alone stays
alone until it ends (`AloneStays`), because an enabling that starts marks it;
what is forgotten stays so (`ForgottenStays`); and as long as nothing is
`mixed`, the snapshot belongs to the secret except between the removals, one
enabling runs at a time, and the secret it has found or made is not replaced
(`Unmixed`). `PlaintextHasDeadline` is inductive with `TypeOK`.

### Left to TLC

Liveness and anything about `ENABLED`, which this prover does not handle
(`EventuallyAgree`, `SyncReturns`, `OrphanRowsCollected`, `EveryoneGetsIn`,
`KeptStays`, `EventuallyLocked`). No module declares a RECURSIVE operator. The
five properties of section 4 are false. The other way round, `BlobIffLive` and
`CoversInOrder` are proved and no run checks them.

## 6. Not modelled, and why

- Cryptography is perfect: wrapped keys are keys, sealed metadata opens under
  its version only, a segment opens whole and in its place or not at all.
- Authentication, limits and server configuration change no state. The command
  line calls the client library; the React screens show the state of the
  commands; thumbnails are decoding; the search index has no code yet; the
  Android project and containers are deployment.
- Of the app's configuration only whether it can be read is kept.
- In the app: deletions of files that fail (`forget` ignores them and reports
  success, `quick_unlock.rs:234-236`; so do the timers of shared copies), a device
  secret that was written in part (`is_enabled` looks for the file only), and
  shares of several documents, which are files of their own. A quick unlock
  that finds no secret makes one in one step, unlike `enable`; `enable` takes
  whatever passphrase it is given, which a later quick unlock finds wrong.
- In the cache: temporary files that a kill leaves behind, which nothing looks
  at again.
- Version numbers are naturals; the code's are 32 bits wide, two billion writes
  of one document away from their end.
- An object that a crash leaves without a row is never collected; it wastes
  storage only.

## 7. Plan

Done, in this order: the document register and its routes with their proofs,
because every other part relies on the compare-and-set; the feed, and the sync
engine over the abstract register; the blob store with its collector, and the
keys; the blob stream and the cache; the app session; ranges; the proofs of blob
store, keys and session; those of feed, its reader, sync engine and cache; and those
of the file format. Every safety property of the passing runs is now a theorem.

Left: the liveness properties, for which the prover has no rules, and whatever a
change of the code calls for. Of the hazards without a property, that a tombstone
can be written over and deleted again is covered by `TombstonesHaveNoBlob`; the
32-bit versions are out of a small instance's reach; and of objects without a row
and of recovery slots whose answer was lost (`vault.rs:554`) the code promises
nothing that could fail, beyond what section 4 says.
