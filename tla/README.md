# A verification of abstraction-storage

TLA+ models of the storage service in `src/go`, checked with TLC on small
instances and, for the writer, the journal, the reader, the inventory and the
host, proved with TLAPS for every value of the constants. Line numbers are those of the Go sources; `PROJECT.json` maps every definition to the
lines it stands for.

## The system

Content is named by its SHA-256 digest. A service component owns a provider (a
store addressed by digest) and answers framed calls from authenticated
programs, one goroutine per call, at most 32 at a time.

| Part | Code | State | Operations | What is hard | What makes it correct |
| --- | --- | --- | --- | --- | --- |
| Content store | `content.go` | `blobs/<hex>`, `incoming/<hex>` | Find, Place, Path, Commit, Remove | the staging path is a function of the digest alone, so two uploads of one digest share a file; other programs own the directory too | a findable object is whole |
| Content writer | `service/writer.go`, `records.go`, `write_call.go` | `uploads`, `digests`, `records` under `w.mu`; each upload under `u.mu`; the record file; possession files | Begin, Append, Commit, Abort, sweep, close, load | provider calls and policy decisions outside `w.mu`; Commit holds `u.mu` throughout; two lock orders; saves that fail; a crash at any point; expiry racing everything | the three indexes agree; an identity is not rebound; a recorded result is true and stays; staging is released; limits hold; every call returns |
| Change journal | `service/changes.go`, `listing.go` | `known`, ring, `last`, snapshots, notification channel, waiters, epoch | committed, poll, Observe, List, sweep, close | the listing is read outside the mutex; a call waits on a channel it read earlier; the ring is trimmed and snapshots expire under a client that pages | a client that lists and observes has exactly the journal at its cursor; no wakeup is lost; no slot leaks |
| Reader resources | `service/resources.go`, `composition.go`, `open_*.go` | `resources`, `pending` per scope; each resource's file | Open, Read, Close, sweep, close | Open counts, leaves the mutex, and comes back; Read uses a resource it looked up before a policy decision | counts at their limits; no read of changed content; no file left open |
| Composed inventory | `service/inventory.go` | frozen snapshots | List, ListStore, Holders, Unheld, Find, sweep, close | sources are read outside the mutex; a cursor is taken from the journal meanwhile | pages of one snapshot; the limit of snapshots |
| Stores and routing | `storage.go`, `stores.go`, `foreign.go` | an ordered list of stores | Find, FindAll, Place, Path, Commit | none concurrent | the first store that knows answers; a commit goes to the store that placed |
| Component, host | `service/service.go`, `Enable*` | profiles, lifecycle, the once of each Close, workers, slots | Enable*, Start, Serve, a connection, Close | profiles are configured, read by Start, offered and closed in four critical sections; deferred calls, context functions and Closes run in any order | a Close that returned is final; Serve leaves nothing behind; what is offered is swept |
| Go client | `client/*.go` | a call | Begin … Write, Observe, List, Snapshot | retries of calls whose reply was lost | replies that contradict the request are refused |
| Outcome words | `service/outcomes.go` | none | parsing tables | a word outside a vocabulary | every word is a member, or the call is an error |
| Generated codecs | `abstraction/storage/{content,lend,api}/rec.go` | none | encode, strict decode, frame, dispatch, stub | the same reader written out a hundred times; integers, timestamps and base64 at their edges; a result that cannot be encoded after its effect | what is sent arrives; what is not of the schema is refused, and runs no handler |
| Python, C++ | `py/`, `cpp/` | a call | the same service | – | – |
| Interfaces, tools | `*.thrift`, `tools/` | none | generated or build-time | – | – |

How they interact: the writer calls the provider's Find, Place, Path and
Commit, writes the staging file itself, and keeps its identities in a record
file of its own. A commit calls `onCommitted`, which is the journal's
`committed`; the journal also polls the provider's listing, and this is how
publishes and removals of other programs are seen. Clients combine `List` and
`Observe`. The inventory takes a cursor of the journal for each composition. A
ticker of one second sweeps the reader, the writer and the inventory; another
goroutine polls and sweeps the journal. A host accepts a connection, takes a slot,
reads one frame, and hands it to the dispatchers of the receivers that are
configured. `Close` cancels the component's context, and then closes the reader,
the writer, the journal and the inventory in this order; `Serve` waits for its
connections after it has closed.

## The modules

| Module | What it is |
| --- | --- |
| `ContentStore` | the provider and its files: paths name inodes, bytes belong to inodes |
| `Writer` | the writer over it: one action for each critical section and for each operation outside `w.mu`; its properties |
| `WriterInvariant`, `WriterProofs` | the inductive invariant `WriterInv`; `Spec => []WriterInv` and what follows from it |
| `WriterRecordsProofs` | what the record file has of the records in memory, and from it the retention of identities and results; the limits |
| `WriterStagingProofs` | who holds each upload's mutex, who will remove each staging file and what is in it; lock order, release, and that a findable object is whole |
| `Changes` | the journal, the poller, the writers' callbacks and the clients; its properties |
| `ChangeFeed` | what observation promises, with no ring, cursor, page or channel in it; `Changes` implements it |
| `NaturalFacts`, `ChangesProofs` | two facts about natural numbers; the journal's inductive invariant, and the proof that `Changes` implements `ChangeFeed` |
| `Reader`, `ReaderProofs` | handles on opened files, and the theorems about them |
| `Inventory` | composed listings over sources that change and fail; its properties |
| `InventoryInvariant`, `InventoryProofs` | the inductive invariants `InventoryInv` and `ComposedInv`; the theorems about them and the bound on snapshots |
| `Host`, `HostProofs` | profiles, Start, Serve, connections and every way to close; the theorems about them |
| `Schemas` | the records, vocabularies and services of the three generated packages, as data |
| `Wire` | the generated reader, writer, frames, dispatchers and stubs, over any schema |
| `WireExact` | what encoding, decoding and calling promise: reference definitions, compared with `Wire` |
| `StoreRouting` | a list of stores as one store, and what it promises |
| `MCWriter`, `MCChanges`, `MCReader`, `MCInventory`, `MCHost` | small instances, with the constants of the `.cfg` files |

`Writer` uses `ContentStore`; `Changes` implements `ChangeFeed` under a refinement
mapping, which TLC checks and `ChangesProofs` proves; `MCHost` evaluates `WireExact` and `StoreRouting` for the host that
serves. The writer, the journal, the reader and the inventory meet in the program
only through calls that each model has as steps of its own: the journal's
`Committed` is the writer's `onCommitted`, and the `ComponentCloses` or `Close` of each is
`CloseRegistry` or `CloseProfile` of `Host`.

### The store

`blob[d]` and `incoming[d]` are the inodes the two paths of digest `d` name and
`data[i]` the bytes of inode `i`. `OpenStaging` truncates whatever inode the path
names and keeps it, `Rename` moves the path, `RemoveStaged` removes a path and
leaves an open file alone: a POSIX directory as far as the writer can tell, which
is what makes sharing a path dangerous. `Publish` and `Collect` are the other
programs that share the directory.

### The writer

Each goroutine in `Callers` serves one call at a time; `call[p]` holds its
program counter and locals. A call starts with the sweep that `Begin`,
`Append`, `Commit` and `Abort` make first (`Start`), leaves the expired uploads
to be discarded (`todo`), discards them one at a time (`Discard`, which waits
for `u.mu`), and goes on:

| Call | Program counters | Code |
| --- | --- | --- |
| Begin | begin → (await) or find → place → open → check → settle → (cleanup) | `writer.go:262-458` |
| Append | admit → write → (unlink) | `:477-539` |
| Commit | lookup → verify → decide → intent → publish → confirm, failing into demote → drop → unlink | `:541-660` |
| Abort | abort, then its discard | `:662-683` |

`u.mu` is not a variable: who holds it can be read off the program counters
(`Locked`), because only Commit, and an Append whose write failed, hold it over
several actions. The record file `disk` is replaced as a whole by `Save`, or not
at all. `Crash` loses everything but the files; `Startup` is `load` with its
demotions, its cleaning of staging and its rewrite. `Close` hands the uploads
to be discarded to the ticker's goroutine, which has nothing else to do then.

Abstractions. SHA-256 is collision free: `Content[d]` is the only object of
digest `d`. A chunk is the unit of bytes. Every handle drawn is new. Each provider
operation, and each save, is atomic; `Stat` and `Rename` of the provider's
Commit are one step. `os.Remove` succeeds; a write that fails writes nothing. The
process may crash, the machine does not lose power. A policy refusal where nothing
was changed yet, and request validation, are left out; a refusal
later in a call is an event (`"refusal"`). Of the replies, only those that carry a
stored result are kept. Two looks at the index by one call with nothing but a
policy decision between them (`Append`, `Abort`) are one step, at the second
look.

### The journal

`committed` is two steps, because the provider publishes before the callback runs
(`Published`, `Committed`). A poll is three: read the directory (`PollReads`),
each entry's Info, when what is gone is skipped (`PollInfo`), and the critical
section that compares (`PollDiff`). `Observe` is the first `collect`, the slot, the
wait, and the second `collect`; `List` freezes the known objects at the
current sequence and pages them. A page that a reader's policy filters is the
entries after the cursor up to `PageEnd`, where the loop of the code stops: at the
first entry at which as many as a page holds are readable, or at the last. It is a
set of changes, whose sequence numbers are its order. Clients do what
`client.Snapshot` and the loop of the repository's README do: gather pages, then
apply the changes in order, so that of each digest the latest one decides
(`Applied`); a refusal or a gap makes them start again.

`log`, `history` and `seen` are history the code does not keep: every change of the
lifetime, what was known at its start and after each of them, and the journaled
objects that have been there since. They appear in properties only.

Abstractions. Sizes and subjects are dropped: another's continuation, or an invalid cursor,
changes nothing. A page is built from what one critical section copied, so that
it belongs to that action. `newChangeJournal` lists once, in the initial state and at
`Restart`. A snapshot token nobody holds may be drawn again.

`ImplementsFeed` maps the state to `ChangeFeed`: the abstract history is `history`,
and the replica of a client is what it gathered, filtered by its policy, together
with the place in the history it stands for. A client in the middle of a
snapshot's pages is `Gathering`: it already knows which state it will have.

### The reader

`call[w]` is where a call, the ticker or the closing component is (`pc`), what it
has taken from the table and closes next (`todo`), and its locals. `Sweep` is the
critical section with which each operation begins.

| Call | Program counters | Code |
| --- | --- | --- |
| Open | open → lstat → opening → insert → release | `resources.go:128-216` |
| Read | read → admit → lock → data → check → reply, or drop | `:219-304` |
| Close | close → ending | `:306-319` |

The lock of one resource, `v.mu`, is read off the program counters (`Locked`): a Read
holds it over two looks at the file's metadata and the `ReadAt` between them. A
file is a number of versions, and its metadata is the version. That every write
shows in size or modification time is what CONTRACT.md (STO-R10) itself assumes.
`resource` remembers the file that was opened after `file` is closed, so that a
late use can be told.

### The inventory

A listing goes sweep → enter → drain → insert → page → gate; Find and Holders go enter
→ read → page → reply. `Compose` is the first critical section, `DrainPage` one
page of one source, `Freeze` the second critical section, `Continue` that of a
continuation, `Fill` the page that the read policy filters, and `Listed` the gate's
second decision with the reply. A source freezes what it has at its first page
(`Begun`), which is what its interface says; between two sources the contents
change. `heard` is a history of what the sources froze, `whole` one of what the snapshot
froze. Records keep what the code decides by: the reporting store, the digests the
policy asks about, and the holds. The loops that keep some of the records are
`ItemsAt`: the items at a set of positions, in their order. It is written with
cardinalities because the provers know nothing of `SelectSeq`; `InventoryProofs`
shows that it is what such a loop appends: each item that is kept once (`Ranked`,
`ItemAt`), in the order of the list (`RankGrows`), and that keeping from two lists that
are joined, or twice from one, is what it should be (`ItemsJoin`, `ItemsKeptTwice`).

### The host

`at[p]` is where each call that closes is: the goroutine of `Serve`, the functions
that `Start` and `Serve` leave with `context.AfterFunc` (`armed` while they would
run), and any callers of `Host.Close` and `Component.Close`. A `sync.Once` is
"new", "running" or "done"; who comes second waits. `taken` is what a
`Component.Close` read under the lifecycle mutex, `swept` what `Start` read. A
connection goes receiving → answering → close → free → leave, the three
deferred calls at the end in the order Go runs them.

### The wire and the routing

`Schemas` is the list of records of `rec.go`, read off the generated readers:
each field's key, type and whether it is optional, each vocabulary's words,
each service's methods. The generated Go code repeats one pattern per record;
`Wire` has the pattern once (`Read`, `Write`, `Request`, `ServeEndpoint`, `Call`). A
document is what a strict reader can tell apart: texts, numbers by their
spelling, lists and objects whose members may repeat, and documents that are
cut. `WireExact` says independently what should come out: `Conforms` is
membership of a document in a type, `Stands` the integer a spelling stands for,
`Instant` the minute a timestamp names, `TextOf` the base64 of bits. Its properties
quantify over every record the services use.

`StoreRouting` has each store of `storage.go`, `content.go` and `foreign.go` as a
function from the set of files that exist to the answer and the files after it.
It assumes what a host sees to: a store that takes bytes shares its name
with no other store of the list.

## The properties

Of the writer:

- `WriterInv` (inductive): types, what a call names by the time it is at a program
  counter, that an upload in preparation belongs to one Begin, how records and
  commits correspond, and `IndexCoherent`.
- `IndexCoherent`: `uploads`, `digests` and `records` name each other, however
  calls, sweeps and failures interleave.
- `LockOrderSafe`: Begin takes `u.mu` under `w.mu` (`writer.go:408`), everybody
  else takes `w.mu` under `u.mu`; the two orders never meet, because nobody else
  can know the upload yet.
- `StagingReleased`: a staging file has an owner, and an owner that left the
  indexes is being discarded.
- `Limits`: uploads, uploads of a subject, identities in memory and in the file.
- `RetainedIdentity`: an identity is never bound to another object within its
  retention, across crashes and restarts. `HashedResultStands`: a result
  that was recorded and published stays on record until it expires.
- `PublishedWholeUnlessShared`: a findable object is whole, as long as no two
  uploads used its staging path at once. See the findings for the case where they did.
- `CallsReturn`, `ExpiredDiscarded`: every call returns; an expired upload is
  refreshed or discarded.

Of the journal: `ImplementsFeed` (the journal is a history of states one change
apart, and each client's replica is always one of them as far as it may see,
later and later ones, over pages, trims, expiry and lifetimes), `ViewsExact` (types;
what a client has gathered, and what it will have gathered at the end of its pages, is
the known set as of one sequence number, in the lifetime of its cursor; frozen
snapshots stay what was known then), `JournalExact` (known objects, history, log and
ring agree, every change was one), `NoLostWakeup` (a waiting call has
examined everything or its channel is closed), `SlotsHeld` (the waiting slots in
use are the calls that wait), `ClientsCatchUp` (once the store is quiet, clients
know what they may read of it).

Of the reader: `ReaderInv` (inductive), `WithinLimits` (handles within both
limits, no place leaks, though Open leaves the mutex between counting and
inserting), `FilesOwned` (every open file is in the table or about to be
closed, and none enters the table after close), `ReadsOpenFile` (a Read between its
locks has an open file to itself), `ChunkOfOpened` (a chunk is of the version
Open saw, whenever the file is written).

Of the inventory: `RetainedBound`, `ComposedWhole` (a composition is everything
that every source asked for reported of the stores it was given, source after source,
in its order and nothing twice, however it was paged),
`PagesGuarded` (a page is for its own subject and store, shows nothing the policy
refuses and no hold of another program), `PagesExact` (the pages a client
followed are a prefix of the frozen composition, none twice, none left out),
`ClientAccepts` (the client's own checks refuse no page).

Of the host: `HostInv` (inductive), `ServeJoins` (nothing is left when Serve has
returned), `ClosedForGood` (nothing is configured, running or unclosed once
any Close returned), `ConnectionsBounded`, `OfferedIsSwept`, `HostStops` (Serve and
every Close return).

Of values: `EncodesExactly`, `ReadsOnlyTheSchema`, `IntegersExact`, `TextsExact`,
`CallsExact` (the named handler runs with the arguments passed, and the
caller hears its answer, a failure to encode it or a panic included), `RunsOnlyTyped` (no
handler runs for a frame that is not of its type), `RoutesExactly`. These are about
values and not about states: `MCHost` states each of the step with which a host
begins to serve, and TLC evaluates it over all the values `WireExact` and
`StoreRouting` enumerate.

## The runs

| Run | Instance | What it shows |
| --- | --- | --- |
| `writer_calls` | 2 goroutines, 2 requests for one object, 2 handles, one tick | every failure, cancellation, abort and close against Begins, Appends and Commits, with uploads that go idle under the calls: 606 thousand states |
| `writer_shared_store` | 2 objects (one empty), one upload per subject | other programs publish and remove at any point; limits: 484 thousand states |
| `writer_restarts` | one identity begun with two sizes, retention 2 | crashes between any two steps, failing saves, startup: 428 thousand states |
| `writer_progress` | 2 goroutines, 1 handle, one tick | liveness, with abort, commit and sweep at one mutex |
| `journal_pages` | 2 clients with different policies, 2 objects, pages, ring and waiting slot of one, 2 tokens | the refinement, with paging, trims, snapshot expiry, waits, cancellation, failing and stale listings, close and restart: 420 thousand states |
| `journal_progress` | 1 client, 3 steps, one restart | liveness: 64 thousand states |
| `reader` | 3 callers of 2 subjects, 2 handles, 1 file | opens, reads and closes against rewrites, replacements, expiry, failures and close: 1.1 million states |
| `inventory` | 2 sources that share a store, 2 callers of 2 subjects, 2 tokens, 1 snapshot | compositions and pages against changes, failures, expiry, outages of both policies and close: 1.1 million states |
| `host` | 2 connections, 1 slot, one profile, one caller of Host.Close | every order of Enable, Start, Serve, connections, the context's end and the Closes, with liveness: 119 thousand states; and the seven properties of values |
| `writer_published_whole`, `writer_committed_is_published`, `journal_removals_happened` | – | the findings below |

Why these bounds. Every race of the writer that the code guards against is
between two calls, or a call and the sweep; two goroutines and the ticker are
three parties. Two handles let one upload take over from another,
one of each is enough for a resume. The idle lifetime is one tick and the retention two,
so that an upload can expire before, and with, its identity. One chunk
distinguishes "nothing received", "complete" and, with an ask of
size two, "partial"; the empty object commits without an Append. A ring and a page
of one make every second change a trim and every second object a second page.
The three callers of the reader are two of one subject and one of another, which
both of its limits need; its one file is read by one handle while another is
opened, and a second version is enough to tell two. Two sources that share a
store are what the accepting rules tell apart; one snapshot with two callers is the
race at its limit. Two connections and one slot make the second find the host full.
The poller and the ticker share their code in `Host`, and one profile makes both
run; several profiles are closed in an order that is fixed, and the theorems are
for any of them.

Some instances are narrowed by a constraint, where two independent parts would
multiply. `OneKeyOnceTimePasses`: the second of two requests is made before the clock
moves. `Together` and `Apart`: the two clients of the journal are active
at the same time in its first lifetime only, and with one object; time, close and failing
listings are not combined with each other or with a restart, and a restart with
two objects leaves out the last publish or removal. `LookupsAlone`: Find and Holders, which retain
nothing, run before any listing.

The values of `WireExact` are narrowed too. A word has 8 bits (`int64` and its
tests of overflow become 8 bits, `int32` 4) and a byte 4; every spelling of up to four
symbols is read. At these widths the tests before each digit meet the same
cases: the last factor of ten, the last digit, the least integer. The depth
limit is 9 and not 128. Every record is taken at its base value and with each
field varied alone, and every document with each of its parts replaced, dropped,
repeated or cut; timestamps are every day at the edges of each month in years of
each kind. Lists are of up to three stores over two roots, with every set of files.
`MaxTime`, `MaxSteps`, `MaxEpoch`, `Handles` and `Tokens` bound runs;
the program has no such bounds, except that the clock and the
handles are never exhausted there. Deadlock is not checked because the bounded clock,
handles and steps let these instances come to rest; that nobody waits for ever is
`CallsReturn` and `LockOrderSafe` instead.

Symmetry is used over goroutines, handles, files, tokens and writers in runs that
check invariants, action properties and the refinement, never in those that check liveness.

Fairness. Goroutines that can run do run: `WF(Work(p))`. A step that waits for
`u.mu` has strong fairness, since Go's mutex hands itself to a waiter that has
waited for a millisecond and so cannot be overtaken for ever. `time.Ticker` keeps
firing (`service.go`, `Start`), and the ticker's goroutine is not starved:
`SF(SweepTick)`, strong since the sweep waits for the discards of the one before.
Of the journal, the poller's ticker, commit callbacks, the timers of waiting calls and a client that keeps
calling are weakly fair; nothing obliges the environment, nor a caller of the
writer. Of the host, `WF(Progress)`: while some connection, Serve or Close can go
on, something does, since Go runs its goroutines and a receive gives up after 35
seconds; `WF(EnableEnds)` and `WF(Ticked)`, since an Enable and a sweep return; `SF(LoopEnds)`,
since a `select` with the context and the ticker both ready picks at random. Nothing
makes a peer connect, the context end or anybody close.

## The proofs

`WriterProofs` proves, for any sets of goroutines, handles, digests, keys and
scopes and any limits, from `NamesAssumption`, `ContentAssumption` and
`WriterAssumption` alone:

- `WriterInvariantHolds`: `Spec => []WriterInv`;
- `TypeCorrect`: `Spec => []WriterTypeOK`;
- `IndexesCohere`: `Spec => []IndexCoherent`.

`IndexCoherent` is not inductive. A Commit clears its record's handle at the end, so
one must know that its upload is still the one of its digest; a Begin replaces
its own record at `settle`, so one must know that nobody else holds that handle. Hence
`Named` (what a call names at each program counter), `Prepared` (an upload in
preparation is known to one Begin and stays indexed unless the component closes) and
`Recorded` (a record with both a result and a live upload belongs to a commit
past its intent). The type invariant needs `Named` too.

The argument has two halves. The first half shows `TypeInv` (`WriterTypeOK`
with `Named`) action by action. The second shows that each action changes the
indexes in one of few ways: not at all (`QuietStep`), by removing uploads together with
what names them (`MemoryStep`, used for the sweep, every unlink and the
present answer), by a new upload (`BeginStartCoherent`), or by a result set or
taken back (`ResultStep`). `NextInv` gathers them, one case for each action, and the
theorems follow by temporal reasoning. The prover does no reasoning about
fairness and `ENABLED`, so the liveness properties are checked by TLC only.

`WriterRecordsProofs` builds on `WriterInv`, with no further assumption:

- `RecordsSavedHolds`: `Spec => []RecordsSaved`;
- `IdentityIsRetained`: `Spec => RetainedIdentity`; `ResultStands`: `Spec =>
  HashedResultStands`;
- `LimitsHold`: `Spec => []Limits`.

Both action properties speak of the file, and a step writes the file from memory. So
one must know what memory and file have in common at every moment, failed saves
included: `RecordsSaved` says that an identity in memory is in the file with the
same object, and a hashed result with the same expiry. The converse does not hold,
since a save that fails leaves in the file what memory has forgotten. Steps are
sorted by what they do to the records (`StepKinds`): most only let records shrink
and perhaps save (`Modest`); the others are `BeginStart`, `CommitIntent`, `Close`,
`Crash` and `Startup`. `Limits` needs `Counted`, the same bounds with the finiteness of
the sets they count: only `BeginStart` enlarges one, in the critical section that
compared it with its limit.

`WriterStagingProofs` proves, again from `WriterInv`:

- `StagedHolds`: `Spec => []Staged`, across crashes too;
- `LockOrderHolds`: `Spec => []LockOrderSafe`;
- `StagingReleasedHolds`: `Spec => []StagingReleased` when `Events` has no crash. After
  a crash the property is false: reservations outlive their owners until `Startup` or the
  next upload of the digest, which is what `writer_restarts` leaves it out for.

`Staged` says that one goroutine holds an upload's mutex, that whoever waits for it,
or has it to discard, knows an upload that is ready or out of the index, and that an
upload that is ready and not done is in the index or in somebody's `todo`. With
`Prepared` the lock order follows: at `settle` the upload is neither. `Reserved` adds that the
inode a reservation names belongs to an upload not done or to a Begin, which keeps
it until its cleanup. A commit that finds its object must have lost its reservation by
then (`CallStaged`, at `confirm`), or the file would stay when the upload is done. A step is
summed up by what it does to each upload (`Effect`), to the calls (`CallsStaged`) and to
the reservations (`ReservedStep`); `StagedKept` and `ReservedKept` show once that such
a step keeps the two, and the lemmas after them, one for each group of actions, that
every step is one.

And from `WriterInv` and `Staged`:

- `WholeHolds`: `Spec => []Whole`, across crashes and other owners of the store;
- `PublishedWholeHolds`: `Spec => []PublishedWholeUnlessShared`.

That a findable object is whole depends on every upload there is, since any of them may
write the inode that is published next. `Whole` has four parts. `FilesApart`: no inode
is ever of two objects, and a published object is not its own staging file, shared or
not, so that what is written for one object reaches no other. `OneUser`: a staging path
that was never shared has one user at a time, an upload or a Begin that prepares one;
only an open of the path adds one, and `PrepareOpen` records in `shared` when it meets
another. `Staged` adds that one goroutine at a time is at work on an upload, so that what a
commit compared is what it publishes. `UploadWhole` and `CallWhole`: the file of an
unshared upload holds exactly its accepted chunks, an upload that is in doubt or about
to be published has none open, and a commit past its comparison has the whole content
under the staging path. Most steps only take away what these speak of, calls, files
and users (`Recedes`, `WholeRecedes`); those that open a file, write, publish, find out
what was published, or crash are taken one by one (`WorkWhole`). `shared` names the objects
whose staging path two uploads used at a time, or whose upload was placed at the
published object: for those only the first part holds, which is the finding below.

TLC checks `RecordsSaved`, `Staged`, `Whole` and, without crashes, `Reserved` on the instances of
the writer's runs as invariants too; they are not listed as properties of the runs,
because what the system promises is what follows from them.

`ReaderProofs` proves, from `ReaderAssumption`, `Spec => []ReaderInv`
(`ReaderInvHolds`) and with it `LimitsHold`, `FilesOwnedHolds`,
`ReadsOpenFileHolds` and `ChunkOfOpenedHolds`. None of the four is inductive. The
limits need `Bounded` and `PendingExact`: an Open that left the mutex is counted
until it inserts, so the sum of both never grows past the limit. A Read has its
file open because whoever closes it waits for `v.mu`, which needs `OneHolder` and `TodoKnown`
(only workers between a sweep and an operation have something to close, and none of
them is inside a lock). `ChunkOfOpened` needs `VersionsOrdered`: what Open saw,
what `ReadAt` read and what the file has now are in this order, so that equal ends
leave nothing between them.

`InventoryProofs` proves `RetainedBoundHolds` from `InventoryAssumption`: snapshots
and calls that are composing together stay below the limit plus the number of
callers, because the first of them found room and each caller composes once at a time.

It also proves `InventoryInvHolds` (`Spec => []InventoryInv`) and with it
`PagesExactHolds`, `PagesGuardedHolds` and `ClientAcceptsHolds`. `InventoryAssumption`
says that a source's records are its own, which is what `of` means. The heart is
`FrozenOnce`: what a token stands for is kept in up to three places, the snapshot, the
calls that serve it and the views of the clients that follow it, and all of them agree
on subject, store and records (`Frozen`), because a token is drawn once and every
step but `Freeze` only copies or drops (`Quiet`). So a continuation that passes `Bound` is
of the same composition its client has the first pages of, even when the snapshot
lapsed meanwhile. `Pages` says that a page is what its reader may see between the
offset asked for and the one it answers; two such pages join (`PermittedJoin`, from
`ItemsJoin`), and every page moves on or is the last (`StopsWithin`). What `Observed`
leaves of the holds is in `Knows`, from the first page of a source on. TLC checks
`InventoryInv` on the instance of `MCInventory.cfg` when it is added to its invariants.

On top of it are `ComposedInvHolds` (`Spec => []ComposedInv`) and `ComposedWholeHolds`.
`ComposedWhole` speaks of a call that has read all of its sources; `Composes` is what
it has at each page before that: what is left of the sources is the end of those asked
for, what is left of the source being read is the end of what it froze, and the
records taken of each source are, up to their holds, those it gave so far
(`GivenOf`). A page extends the last source by what it gives of the next stretch
(`PageGiven`, from `GivenGrows` and `BareJoined`) and no other, because sources follow one
another in their order (`SelectedGrows`); a source that begins has given nothing
(`FirstComposes`). At the end nothing is left, and what Find keeps of the composition
is what it would have kept of each source (`CarryingOf`, `DueGiven`). A source that
changes in between plays no part: the call has what it froze, which is in `heard`. TLC
checks `ComposedInv` in the same way.

`ChangesProofs` proves, for any sets of digests, clients, tokens and writers (the
first two finite), any policies, and any ring, page and limits, from
`ChangesAssumption` and the fact that the `None` of the constants is no cursor,
snapshot or replica (`NoneAssumption`):

- `ChangesInvHolds`: `Spec => []ChangesInv`, the inductive invariant;
- `ViewsExactHolds`, `JournalExactHolds`, `NoLostWakeupHolds`, `SlotsHeldHolds`;
- `ImplementsFeedHolds`: `Spec => ImplementsFeed`, the refinement.

`ChangesInv` is types, `JournalExact`, `SnapshotsFrozen`, `SlotsHeld`, and for each
client `ClientExact`: what it has is the known set of one sequence number as its
policy filters it, and while it gathers pages of a snapshot, what it has together with
what is still to come is. The steps that write the journal all go through
`JournalKeeps`: a block of removals and then of additions extends log, history and
ring by one change each. `PageAdvances` is the heart of what a client sees: a
page applied to the known set of where the cursor was gives the known set of where
it is now, though the page has only the changes up to `PageEnd` and only
what the client may read. It rests on `Replays`, that applying the changes between two
sequence numbers leads from one state of `history` to the other, proved by induction
over sequence numbers in its first-order form: `NaturalFacts` has the least element of a
set of naturals and `Climbs`, that a set with a number and the successor of every
member from there on has all that follow, proved there once, because the prover takes no induction theorem with an operator parameter. For the refinement, each
kind of step is mapped to one of `ChangeFeed` or to a stutter:
journal steps to `Changes`, a client's to `ClientsMove`, `Restart` to `StartsAgain`.

`HostProofs` proves, from `HostAssumption`, `Spec => []HostInv` (`HostInvHolds`) and
`ServeJoinsHolds`, `ClosedForGoodHolds`, `ConnectionsBoundedHolds` and
`OfferedIsSweptHolds`. The heart is `ComponentCloses`: what one Close read under the
mutex is all that will ever be configured, because it cancelled the context
first, so that what it closed before `once` is done covers `configured` for good;
`Configuration` gives the same for what Start read.

Every invariant and every action property of the runs of the writer, the journal, the
reader, the inventory and the host is proved. Only model-checked are liveness
(`CallsReturn`, `ExpiredDiscarded`, `ClientsCatchUp`, `HostStops`), since the prover does
no reasoning about `ENABLED`, and the properties of values (those of `WireExact` and
`StoreRouting`), whose definitions recurse over data.

## What the models found

- **An object that is not whole** (`PublishedWhole`). The sweep and Abort remove
  an upload from `w.digests` before discarding its staging file
  (`writer.go:186,203`, `:677,681`). A Begin of the same digest in between opens
  the same path, truncates it, and from then on two uploads write, remove or
  publish one file. The contract (STO-W5) says a reader sees no object or the
  whole one.
- **Committed before it is published** (`CommittedIsPublished`). Commit records its
  result before the provider publishes (`writer.go:617-632`). When the upload
  goes idle in that window, a sweep detaches it from its record, and a repeated Begin is
  answered `committed` (`:296`) though nothing is published yet, and may never be.
- **A removal that did not happen** (`RemovalsHappened`). An object whose commit is
  journaled between a poll's listing and its critical section is missing from the
  listing and is journaled as removed (`changes.go:118`), and as added by the next poll. STO-O1
  says `removed` is appended once per removal. Clients recover (`ClientsCatchUp`).

Also seen, and no findings, since the code says so or nothing in the repository
says otherwise, or it is outside the models:

- Listings that race can retain more snapshots than the eight of STO-I2: the limit
  is looked at before the sources are read (`inventory.go:414`). `RetainedBound`
  states what holds.
- The gate decides a second time after composing for listings only (STO-I3); Find and
  Holders answer after one decision. The cursor is taken after composing.
- `Serve` returns nil only if the host's or the parent's context is done when Accept
  fails: a `Host.Close` has closed the listener before it cancels, so `Serve` can
  return the listener's error.
- `Host.Close` does not wait for connections; `Serve` does. A `Component.Close` alone
  leaves the listener open, and `Serve` goes on to accept until its own context ends.
- Enabling a profile twice replaces the first without closing it.
- A Begin that waited for `u.mu` answers the result its record carries by then as
  committed (`writer.go:317`), with named evidence too; the client refuses that, and its
  next attempt is answered `present`.

## Not modelled

- `ReadAuthorized` (`composition.go`): one sequential caller of Open and Read on a
  registry of its own.
- `Discover`, which looks for caches of other tools: configuration.
- The write loop of the Go client and its checks of the writer's replies.
- `Unheld`, which always answers unavailable, and the order of records in a page.
- Peers and their subjects, which the endpoint is given; framing bytes on a socket.
- Of the codecs: white space, escapes, trailing bytes, the display facts of
  `Describe`, and the backends for other languages.
- The Python and C++ parts, second implementations of a caller and of the store; the
  build tools. The lending interface is in `Schemas`, and has no implementation here.

## Plan

What comes next is the write loop of the client (`client/writer.go`, `Write`) as the
caller of `Writer`, with lost replies and restarts, and the writer composed with the
journal through `onCommitted`.
