# A TLA+ model of the Kathryn feed synchroniser

The repository is a small feed service. A server keeps feeds (uuid, author,
message, likes, an optional image) for *senders*, who POST, PUT and DELETE them
over HTTP. A *synchronising client* (`client/client.py`) keeps a replica and
polls the server for what changed. Between the two sits a *journal*: one row
per changed uuid, holding the sum of the updates the client has not been sent.

Everything below is about that path: how an update gets into the journal, how
the journal is cached, pooled and stored, and how several threads move it
through two buffers into HTTP responses.

## 1. The system

| part | code | state | operations |
|---|---|---|---|
| controller | `server/controller.cpp` | none | `postHandler`, `putHandler`, `deleteHandler`, `getMethod`; each runs between `lockAll` and `unlockAll` |
| data pool | `server/dataPool/` | `storage` (per uuid: feed, image, their coherence states, `isDelete`), `consistent`, `amountKey`, `amountSize` | `addData` (feed, image), `deleteData`, `deleteImage`, `getFeedData`, `getImageData`, `notifyToFree*`, eviction |
| feed database | `server/persistIo/ioCtrlFeed.cpp` | `transactionPool`, `isCleanerinitiate`, `feed_tb` | `pushDataToDb`, `areThereKey`, `flush`, `getDataFromDb`, `cronJob` |
| journal database | `server/persistIo/ioCtrlJor.cpp` | `transactionPool`, `isCleanerinitiate`, `jor_tb` | `pushDataToDb`, `flush`, `cronJob`, `notifyToClearDb`, `getBatchData`, `getData` |
| disk | `server/persistIo/diskCtrl.cpp` | one image file per uuid | set, get, size, delete, exists |
| synchroniser: journal | `server/synchronizer/client.cpp` | `pendingList`, `isConsistent`, `reqNewJournalVersion` | `update`, `recruit`, `tryReMakePendingList`, `trySaveToCache`, `tryToEvict` |
| synchroniser: buffers | same | `A_`/`B_` buffer, state and flag, `nextToStream`, `reqRunAhead` | `dispatch`, `runAhead` |
| replica | `client/client.py` | `jor.csv`, images, iterators | `getReq`, `merge`, `tryFlush` |

How they interact:

* Crow runs the handlers on several threads. Every handler takes the mutexes of
  the data pool, the disk and the feed database, in that order, before it looks
  at anything, so handlers are serial. `update` and `recruit` then take
  `PENDING_MUTEX` and the journal database's mutex.
* One detached `runAhead` thread waits for `reqRunAhead`, reads `nextToStream`,
  then takes the same mutexes as a handler, the buffer's mutex, and recruits
  the next batch while the previous response is on its way.
* Each database connection starts a cron thread when a row is pooled and none
  is asleep. It sleeps 300 s, takes that connection's mutex alone, and flushes.
* Nothing of the pools, the pending list or the buffers survives a crash.

What is hard here: the choice of a buffer is read before a lock and used after
it; the same row lives in a cache, a pool and a table that are written at
different times; a batch is deleted from the journal before the client has it;
limits (pool, pending list, batch, image bytes, data pool) change which path an
update takes; a failed statement is logged and the code goes on.

What makes each part correct:

* journal: the cached rows are the smallest uuids of the journal, unchanged
  (a recruit deletes every stored row up to the last it hands over);
  `isConsistent` only when the cache is all of it; a pooled row always has a
  thread coming to flush it; the three stores together are one map.
* buffers: a row handed over is in one buffer or in one response; no buffer is
  overwritten or sent twice; batches leave in the order they were recruited;
  no deadlock; every GET is answered.
* data pool: `amountSize` is the size of what is cached and at most the limit;
  `consistent` only while every live uuid is in the pool; the states agree with
  the disk, so that no getter throws while the mutexes are held.
* controller: POST is accepted iff the uuid is not live, PUT and DELETE iff it
  is, wherever the uuid is kept.
* replica: after draining, the replica is what the server holds.

## 2. Modules

| module | models | uses |
|---|---|---|
| `UuidMaps` | maps, pools and tables keyed by uuid | |
| `PoolDb` | what the two database connections share: `pushDataToDb`, `flush`, `cronJob` | `UuidMaps` |
| `JournalRows` | `REQ_DATA` and the sum of updates | `UuidMaps` |
| `JournalDb` | `DB_CONNECT_JOR`, one operator per method | `PoolDb`, `JournalRows` |
| `JournalPromise` | abstract: one journal, part of it durable | `JournalRows` |
| `Journal` | `CLIENT::update`, `recruit` and the pending list, the journal's cron thread, restarts | `JournalDb`, instantiates `JournalPromise` |
| `JournalProofs`, `JournalRefinement` | theorems about `Journal` | `Journal` |
| `Dispatch` | the threads and mutexes around the double buffer: `getMethod`, `dispatch`, `update`'s callers, `runAhead`, both cron threads | `JournalRows` |
| `DispatchProofs` | theorems about `Dispatch` | `Dispatch` |
| `FeedDb` | `DB_CONNECT_FEED`, what it adds to `PoolDb` | `PoolDb` |
| `FeedRetrieve` | the loop of `getDataFromDb` over 16-bit indexes | |
| `FeedRetrieveProofs` | theorems about `FeedRetrieve` | `FeedRetrieve` |
| `DataPool` | `DATAPOOL`, one operator per method, on a record | `UuidMaps` |
| `FeedStore` | abstract: a store of feeds and a journal of what changed | `JournalRows` |
| `Server` | the controller's handlers and recruit's reads over data pool, feed database, image files and journal; cron threads, restarts | `FeedDb`, `DataPool`, instantiates `JournalPromise` and `FeedStore` |
| `ServerProofs`, `ServerSpaceProofs`, `ServerRefinement` | theorems about `Server` | `Server` |
| `Replica` | `client.py`: loading, `merge`, `tryFlush`, on a record | |
| `Sync` | sessions of `client.py` beside the server: senders, the double buffer with its run-ahead, clients that die | `Replica`, instantiates `FeedStore` |
| `SyncProofs` | theorems about `Sync` and the walk of `merge` in `Replica` | `Sync` |
| `MCJournal`, `MCDispatch`, `MCServer` | values for the model checker | |

The modules cut the system where its locks do. Handlers and recruits hold the
mutexes of the data pool, the disk and the feed database from start to end, so
in `Journal` and `Server` each is one action. `Dispatch` has every blocking
lock as a step of its own, and shows (`Exclusive`) that the cut is right. What
`Dispatch` and `Server` need of the journal is that it is one map;
`JournalRefinement` proves that. What `Sync` needs of the server is that it is a
store of feeds with a journal; `ServerRefinement` proves that. What `FeedDb`
needs of the loop in `getDataFromDb` is that it reads a first part of what it
was asked for, and all of it if no statement fails; `FeedRetrieveProofs` proves
that.

### State and actions

`Journal`: `pendingList`, `isConsistent`, `reqNewJournalVersion` are the
members of `CLIENT`; `db` is the `DB_CONNECT_JOR` (`pool` is `transactionPool`,
`table` is `jor_tb`, `cleaner` is `isCleanerinitiate`); `batch` is what the
recruit just done took. `Update` is `CLIENT::update`, `Recruit` is
`CLIENT::recruit` without what it reads of feeds and images, `Cron` is
`cronJob` after its sleep, `Restart` a crash and a start. The sizes of image
files are an input of `Recruit`.

`Dispatch`: `owner` maps each mutex to its holder; `pc` is where each thread
is; `bucket` is the local `currentBucket`; `buf[b]` is a buffer's string, state
and `REQ_NEW_JN`. A journal row is only the number of the update that wrote it
last. `posted` and `delivered` record what was journalled and sent. A label
that was never written (`nextToStream`, `A_REQ_NEW_JN`, `B_REQ_NEW_JN` have no
initialiser) starts with any value.

`Server`: `dp` is the `DATAPOOL`, `feedDb` the `DB_CONNECT_FEED`, `disk` the
files, `journal`/`durable`/`batch` the state of `JournalPromise`. `Post`, `Put`,
`Delete` are the handlers with both outcomes of their integrity check, `Recruit`
is `CLIENT::recruit` with its reads, `RecruitFails` one that throws under the
locks or reads past the rows it got. `answer` is the code of the last request
or the batch last put into a buffer.

`FeedRetrieve`: `size` is `uuids.size()`, `absIter` the start of the next
statement, both of `WORD` values; `read` are the positions whose rows were
appended. `Select` is one turn of the loop, `SelectFails` one whose statement
throws, `SelectNothing` one whose end is not beyond its start, which sends a
statement without a `SELECT` and throws.

`Replica`: `jor` is `jorData`, `iter` is `currentJorIter`, `out` every row that
was put into `writeBuffer`, of which `Written` are in the file. `MergeMessage`
is `merge` for one message: copy the smaller rows, then add to the row of that
uuid (`AddToRow`) or make one (`AddNew`). `Loaded` has `np.loadtxt`'s array
without a dimension for a file of one row, which the client takes for an empty
replica.

`Sync`: `store` and `journal` are those of `FeedStore`; `buf`, `nextToStream`,
`reqRunAhead` the buffers, `ahead` the label `runAhead` has copied before it
waits for its locks. `Start` is the top of `client.py`, `Get` one turn of
`getReq`'s loop with the merge of its answer, or the end of the session when it
is empty, `Die` a session that ends anywhere and leaves what `tryFlush` wrote or
a part of it, `DieUnanswered` one that ends after the server has handed over a
batch that is never merged. `inOrder` and `lost` are history: whether every
session was sent uuids in order, and the uuids a session has lost. A uuid is
lost with its row (not written by a session that died, or the one row of a file
that is not read back), with the batch that was not merged, or when a session
dies while the next buffer has an older message of a uuid it is already past
(`Late`): a newer one may have been merged before, and what told of that is gone
with the session. `ReplicaAgrees` needs `inOrder` and asks nothing of `lost`
uuids, `EveryFeedHasARow` only the second, `ImageFileIsThere` neither. So a
death excuses these uuids and no others: of every other one the replica must
still agree, however many sessions died.

An operator whose code can end in several ways (a statement that fails, an
eviction that may pick any element) returns the set of its outcomes.

### Abstractions

* A uuid is a number: the code compares uuids and nothing else. A feed and an
  image are model values with a size.
* The text of SQL, JSON and protobuf is left out. A `REPLACE` overlays rows, a
  `DELETE ... where uuid <= last` drops them, a `SELECT ... LIMIT` gives the
  first rows.
* In `Journal` and `Dispatch` a feed's content is not represented; in `Server`
  the batch size is any prefix of the journal, since the limits are `Journal`'s
  subject.
* `GetDataFromDb` takes the rows of a `UNION ALL` to come in the order of its
  parts, as MySQL returns them; the code relies on it.
* Memory (who deletes which `FEED_DATA`) is not modelled.

## 3. Runs

| run | question | bounds |
|---|---|---|
| `Journal` | is the cached part of the journal always right, and are cache, pool and table one map? `CacheIsPrefix`, `ConsistentMeansWhole`, `CleanerArmed`, `CronKeepsRows`, `EmptyMeansDone`, `PromiseSpec`. Is every pooled row stored in the end by the cron thread alone, and does polling empty the journal? `PoolIsFlushed`, `Drains` | 3 uuids; pool 2, pending list 1, batch 2, LIMIT 2, image bytes 2 with images of 1 or 2 |
| `Dispatch` | do threads lose, repeat or block? `OnePlace`, `NeverWaits`, `Exclusive`, no deadlock | 2 GET workers, 1 writer, runAhead, 2 cron threads; 2 uuids, batch of 1; no update starts after the second |
| `DispatchLive` | is every request answered and every update sent? `Answered`, `EveryUpdateSent` | 1 GET worker, 1 writer |
| `Server` | is the data pool transparent? `StoreSpec`, `SpaceIsCounted`, `CacheIsCurrent`, `NeedFeedIsLive`, `NeverWedged` | 2 uuids, 2 feeds of size 2 and 4, an image of size 1, space 3, 2 entries, database pool 2, RETRIEVE_LIMIT 1 |
| `ServerRestart` | does the pool agree with what a restart finds, and does a full one stop being trusted? `CacheIsCurrent`, `ConsistentKnowsAll` | 2 uuids, 1 feed, 1 entry |
| `FeedRetrieve` | is a long read ever read with a gap, twice, or for ever? `ReadIsFirstPart`, `WholeRead`, `OnlyForward`, `Ends` | every size below WORD 64, RETRIEVE_LIMIT 5; any statement may fail |
| `Sync` | what does a replica keep of the server? `ImageFileIsThere`, `ReplicaInOrder`, `ReplicaAgrees`, `EveryFeedHasARow` | 3 uuids of which the store first has 1 and 3, feeds f1 (at first) and f2, 1 image, write buffer 2, batch of 1, 3 requests of senders or deaths of sessions |

Why these bounds are enough to be interesting: each limit is below what the
uuids need, so that every one is hit (a third row is refused by a pending list
of one, a second one flushes a pool of two, a full `SELECT` leaves rows behind,
a second image does not fit a batch, a feed of size 2 evicts an image or a sent
feed and may still not fit, one of size 4 never does and is read from the
database, so that a batch can ask for two of them). With one feed, the restart
run tells a feed that is lost from one that is not. Three uuids give a row
below, at and above the end of the cache, and in `Sync` a uuid between two rows
of the replica. Two GET workers are what it takes for one to wait while the other turns the buffers; a
second update is what makes a stale buffer visible. The
code treats uuids, feeds and workers alike. A pending list of one is what the
code's `> MAX_PENDING_LIST_SIZE` allows to stay. Five does not divide 64, as
1000 does not divide 65536: the index wraps in the middle of a statement. Three
events and a batch of one are what it takes to change a uuid that was already
sent in the session, or to drop an image and then change its feed; `Sync` has
one client, for the code has one set of buffers and loses what it gives to
another. A session may start while a `runAhead` that the one before has woken
still waits with the label of the buffer that session has since turned away
from: with an update that it puts there, one of the same uuid that is sent
before it, and a death, three events also reach a uuid that is `Late`. Without
`Late` in `lost`, `ReplicaAgrees` and `EveryFeedHasARow` fail in this run.

Deadlock is checked in every run but those of `FeedRetrieve`, whose loop ends,
and of `Sync`, where every state has a next step only as long as events are left
or a session runs.

### Disagreements the runs show

| run | property | what happens |
|---|---|---|
| `JournalLargeImage` | `Drains` | an image above `MAX_BUFFER_IMAGE_SIZE` at the head of the journal empties every batch for ever: recruit adds its size before it counts the row |
| `JournalSqlFails` | `CronKeepsRows` | `flush` erases its pool while it builds the statement; if `executeUpdate` throws, the rows are gone |
| `DispatchOrder` | `RunAheadFillsNext` | `runAhead` reads `nextToStream`, waits for locks, and fills the buffer that a GET has just turned away from |
| `ServerImageMissing` | `NeededImageIsThere` | files change at once, journal rows later: after a crash a row asks for an image that is gone, and the getter will throw with the mutexes held |
| `SyncImageDrop` | `DroppedImagesGo` | a PUT drops the image, a later PUT says nothing of it: the sum forgets the drop, and the replica keeps the image. A DELETE and a POST without image, before the client polls, end the same way |

`EveryUpdateSent` holds in spite of `DispatchOrder`: the batch is late, not
lost. The trace of `ServerImageMissing` needs rows of the journal flushed and later ones not; the
journal's cron thread does that, 300 s after the first row it was given. (The
feed connection has a cron thread of its own with another start, so that after
a crash a journal row may also ask for a feed whose row was never stored or is
marked as deleted; `RecruitFails` and `Message` say what recruit does then.)

Seen while modelling and not given a run, since few lines show it: `dispatch`
sets `reqNewJor` to the truth value of a pointer (`client.cpp:171`), so every
GET is answered 201. A batch that was recruited early may be empty when it is
answered although the journal no longer is, and ends the session; what is left
is there for the next one (`EveryUpdateSent`, `ReplicaAgrees`). A replica of one
feed is not read back (`client.py:220`).

## 4. Fairness

* A cron thread's sleep ends: `WF_vars(Cron)`. It runs without any request.
* A thread that holds what it needs goes on: `WF` of each worker, of
  `runAhead`, of each cron thread. Weak fairness only: a `std::mutex` may let
  others overtake, so `Answered` excepts a worker whose fellows' requests never
  end (that a worker may starve so is a fact of the mutexes, and no property
  speaks of it), and nothing makes a client send a request.
* The loop of `getDataFromDb` goes on: `WF_vars(Next)` in `FeedRetrieve`.
* `Server` and `Sync` assume no fairness and state only safety.
* `Drains` is about a client that goes on polling (`WF_vars(RecruitAny)` is its
  premise) and says nothing of a server whose updates never stop.

## 5. Proofs

`JournalProofs` and `JournalRefinement` prove, for every set of uuids and every
value of the limits:

* `TypeCorrect`: `Spec => []TypeOK`, also when statements fail. With it goes
  the shape of journal rows: no row asks for a feed of a deleted uuid.
* `CacheIsPrefixCorrect`, `ConsistentMeansWholeCorrect`, `CleanerArmedCorrect`,
  `CronKeepsRowsCorrect`, when no statement fails.
* `EmptyMeansDoneCorrect`, when no statement fails and no image is larger than
  `MAX_BUFFER_IMAGE_SIZE` (`ImagesFit`; `JournalLargeImage` is the
  counterexample without it): the first row of a list always fits a batch
  (`FirstRowFits`), and a list that is empty after a refill is the whole journal.
* `JournalRefines`: when no statement fails, `Spec => PromiseSpec`.

The assumption `Reliable == ~SqlMayFail` is needed: `JournalSqlFails` is the
counterexample without it. The constants are assumed to be what
`JournalRows`, `PoolDb`, `JournalDb` and `Journal` declare: uuids form a finite
set of numbers, limits that count rows are positive.

The argument: that the cache is right is not inductive alone. The invariant
`CacheInv` joins `TypeOK`, `CacheIsPrefix` and `ConsistentMeansWhole`, and each
needs the others. An update of a row that is not cached may enter a partial
cache below its greatest uuid, because the cache is a prefix of the journal;
a prefix with nothing beyond is the whole; eviction of the greatest uuid keeps
a prefix and gives up `isConsistent` in the same step. Recruit takes a prefix of
the cache, which is a prefix of the journal, so that "every stored row up to the
last" is exactly what it handed over. Each lemma is about one operator (`Flush`
keeps the content, `GetBatchData` returns a prefix, ...), each step lemma about
one action. The refinement follows from the same step lemmas, which give
`Content(db)` after each action.

`DispatchProofs` proves, for every number of workers, every set of uuids, every
batch size and any number of updates: `TypeCorrect`, `ExclusiveCorrect`,
`NeverWaitsCorrect` and `OnePlaceCorrect`, without an assumption on the SQL
statements (`Dispatch` has none) and whatever the labels without initialiser
hold at first. The constants: `NoRow` is no number (`VersionAssumption`).
`Exclusive` says what the program counters exclude, and they exclude it because
of the mutexes: `LocksInv` says what each thread holds at each step (`HeldOK`),
which steps a thread has (`StepsOK`), what `bucket` has been set to (`ChosenOK`)
and which states a buffer has while nobody holds its mutex (`StatesOK`: no
PROCESSING, which is why `NeverWaits` holds). `PlacesInv` adds that no row
anywhere is newer than what was posted (`NoneAbove`) and that the newest one of
a uuid is in one of the journal, a buffer and what was sent (`LatestInOne`).

`FeedRetrieveProofs` proves, for every `WORD` and `RETRIEVE_LIMIT` below it
(`WordAssumption`): `TypeCorrect`, `ReadIsFirstPartCorrect`, `WholeReadCorrect`,
`OnlyForwardCorrect`. What was read ends where the index stands (`Progress`),
and a statement is empty only if the vector is longer than any number of
whole statements whose ends fit the word (`TooLong`), since the index stands at
whole statements as long as the end is not reached (`InStatements`) and there is
none between two (`NextStatement`). In the code that is 65 statements: a vector
of up to 65000 uuids is read whole, and a longer one wraps the index.

`ServerProofs` proves, for every set of uuids, feeds and images, every size and
every limit, while no statement fails:

* `CacheIsCurrentCorrect` and `ConsistentKnowsAllCorrect`, also for a server
  that dies and is started again at any point. The invariant is `CurrentInv`:
  each entry agrees with the row a reader of the feed connection sees
  (`FeedAgrees`) and with its file (`ImageAgrees`), and a consistent pool knows
  what is live (`Knows`). It says more than `CacheIsCurrent` does: an entry in I
  or U has no data, else a later PUT could take stale data for the feed that is
  stored and skip the database (`SameFeedIsStored`). How large the data is
  counted to be matters to none of it, so that eviction may choose as it likes
  (`EvictedAgrees`). There is one lemma per method of the pool, and one per
  method of the connection.
* `NeedFeedIsLiveCorrect` and `NeverWedgedCorrect`, for a server that does not
  restart (`~MayRestart`; `ServerImageMissing` is the counterexample if it may).
  `RunInv` adds to `CurrentInv` that the journal asks for what is there
  (`Wanted`): live feeds, images that are on disk. Then no getter throws
  (`NothingThrows`), all rows recruit asks for are in the table
  (`AskedAreThere`), and the k-th row is that of the k-th uuid (`TakenIsOwn`, by
  the rank of a uuid among those asked for).

`ServerRefinement` proves `StoreRefines`: under the same two assumptions
`Spec => StoreSpec`. The store is what the feed connection's rows and the files
hold (`StoredFeeds`); each handler changes rows, files, journal and answer of
one uuid (`PostEffect`, `PutEffect`, `DeleteEffect`), its integrity check tells
what is live (`ChecksTell`), and a message is the store's
(`MessageIsOfStore`). The constants: `NoRow` is none of the rows, entries and
requests (`RowAssumption`, `EntryAssumption`, `ReqAssumption`), feeds and images
are disjoint and have sizes (`DataAssumption`).

`ServerSpaceProofs` proves, for every size and limit, *with* failing statements
and restarts, `TypeCorrect` and `SpaceIsCountedCorrect`. The space is a fold over
a set (`MapThenSumSet`), which unfolds to a recursive function on the parts of
the set. The first part of the module is a theory of such sums: there is exactly
one function of that shape (`SumPartsUnique`, `SumPartsExist`), so that any
element may be taken out (`SumOne`), a part may be summed apart (`SumSplit`), and
one entry that changes, comes or goes changes the sum by its own size
(`SumChanged`). The invariant is `SpaceInv`: the pool is of its shape
(`PoolRecord`), an entry has the data its states say (`AllFilled`: without that a
size that is given back need not be the one that was counted), `amountSize` is
the sum (`IsCounted`), both limits hold, and connection, files and journal are of
their types. Again there is one lemma per method; `EvictedSpace` and
`WrittenSpace` carry the arithmetic. That `amountSize`, which is unsigned in the
code, is never taken below zero is part of `TypeOK`.

`SyncProofs` proves, for every set of uuids, feeds and images, every size of a
batch and of `writeBuffer`, any number of requests, sessions and deaths:
`TypeCorrect`, `ImageFileIsThereCorrect`, `ReplicaInOrderCorrect`,
`ReplicaAgreesCorrect`, `EveryFeedHasARowCorrect`. None of these properties says
anything while messages are under way, so none is inductive. `IInv` says what
holds meanwhile:

* `JournalInv`: a row of the journal tells of a deletion iff the store has no
  such feed.
* `ImageInv`: rows that say they have an image have the file, in `jor.csv`, in
  what a session still has to read and in what it has written (`Pictured`).
* `OrderInv`: while uuids come in order, the rows before and after the walk are
  sorted and parted by the last uuid that was sent (`InStep`).
* `AgreeInv`: take the entry the replica has of a uuid that is not `lost`, apply
  to it the messages the two buffers have of it and then the message that recruit
  would make of its journal row: the result is the entry of the store (`UpToDate`). It holds for
  one of the two orders of the buffers, because `runAhead` may fill the buffer a
  GET has just turned away from (`DispatchOrder`); where the wrong one comes
  first, or a uuid comes after greater ones, this session is sent uuids out of
  order (`Overtaken`) and `inOrder` will be false when the message arrives.
  `Agrees` asks nothing of the image of a feed without one: a dropped image may
  stay (`SyncImageDrop`).
* `RowInv`: a live feed that is not `lost` has a journal row, a message that adds
  it, or a row that no message on its way deletes (`RowComes`). It does not need
  the order.

A death takes the walk to a part of what it had written (`KilledSession`): rows
that stay are unchanged, those that do not are `lost`. What is left to show is
that no other uuid depended on the session: `DieSound` uses that an `Overtaken`
uuid is `Late`, `DieUnansweredSound` that a batch handed over concerns only its
own uuids.

`merge` is a recursive function over the messages of a batch, and each message
walks over the rows of the replica. `SyncProofs` first proves what one message
does (`MergeMessage`: where the walk stops, which rows are kept, which entry
changes), then what a batch does, message by message. The constants:
`NoRow`, `NoData` and `NotReady` are none of the rows, data and batches
(`NoneAssumption`).

Induction. The library's induction rules take an operator as a parameter and
cannot be used; where a fold or a recursive function is concerned (the sums of
the space, the steps of `merge`) the proofs take a smallest counterexample
instead: a least number (`Least`), or a smallest set (`LeastSet`, from
`FS_StrictSubsetOrderingWellFounded` and `WFMin`), and show that there is a
smaller one.

Left to the model checker: all liveness (`PoolIsFlushed`, `Drains`, `Answered`,
`EveryUpdateSent`, `Ends`), for fairness and `ENABLED` are beyond the prover;
and the five disagreements of section 3, which are counterexamples. Every
invariant and every action property of a passing run is stated by a theorem.

## 6. Not modelled

* What the server promises when statements fail, beyond the journal: every
  operator of `PoolDb` and `FeedDb` has the failing outcomes, but the code only
  logs them and goes on with whatever it has, and states nothing that could be
  checked of what follows. The runs and proofs of `Server` assume that
  statements succeed.
* Several clients at once: they share one journal and each gets a part of it.
* An operator who starts the server with the wrong word for a consistent pool
  (`dataPool.cpp:13`): the code cannot tell, and promises nothing of what
  follows. `Started` of `Server` gives the right word only, or the cautious one.
* Reads, writes and removals of image files that fail: `diskCtrl.cpp` does not
  look at their outcome.
* The text of requests, statements, messages and of the replica's files, JSON
  parsing, generated protobuf code; the client's result file, which repeats its
  rows with their images.
* `/api/stop/`, which ends `main` with the run-ahead thread still joinable;
  sockets (Crow); the build; the test programs.
