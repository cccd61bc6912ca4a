# Chronicle-AsyncLog in TLA+

The repository holds two programs.  **Chronicle** is an asynchronous logging
library: callers format a line, a worker with two buffers hands it to sinks, and
ERROR and FATAL lines are also sent to a backup server by a thread pool.  The
**storage system** is an HTTP file store on libevent that logs through Chronicle.
This directory models the logging library, the backup server and the storage
system, checks them with TLC, and proves their safety properties with TLAPS for every
value of the constants; the last sections say what stays with TLC.

Run the checks in this directory: `tlc -config worker_safe.cfg MCAsyncWorker` and
so on (the configurations are listed below), and `tlapm AsyncWorkerProofs.tla` for each of
`AsyncWorkerProofs`, `ThreadPoolProofs`, `AsyncLoggerProofs`, `LogFlushProofs`,
`LogRollProofs`, `BackupServerProofs` and `StorageServiceProofs`.

## Inventory

| Component | State | Operations | Interacts with | What is hard | What makes it correct |
|---|---|---|---|---|---|
| `Buffer` (AsyncBuffer.hpp) | byte array, write and read position | Push, CheckAndReserve, Reset, Swap | owned by AsyncWorker | its limit: free room against capacity, one enlargement | no write passes the end; emptiness and contents agree |
| `AsyncWorker` | stop flag, mutex, two buffers, two condition variables, a thread | constructor, Push, Stop, ConsumerThreadEntry | producers' threads, the flush callback | interleavings of producers, consumer and Stop; lost and stolen notifications; the gap between a predicate's test and the sleep | nothing lost, repeated or reordered; nobody asleep for ever; Stop drains and returns |
| `ThreadPool` | stop flag, mutex, queue of tasks, workers, futures | enqueue, worker loop, destructor | AsyncLogger, `start_backup` | notification after the unlock; destruction with work queued | each task once, in queue order; every future becomes ready |
| `AsyncLogger`, `LoggerBuilder` | name, sinks, worker | Debug, Info, Warn, Error, Fatal, serialize, RealFlush | ThreadPool, AsyncWorker, LogFlush | the caller waits for the backup before the local push; exceptions of a stopping pool | the local log is complete and ordered whatever the backups do |
| Backup client (Client.hpp) | retry counter, socket | start_backup | the backup server | reconnecting with back-off; a write that fails unseen | no message sent twice; given up only after all attempts |
| Backup server (Server.hpp, Server.cpp) | a thread per connection, one file | accept loop, service, the writing callback | clients | threads that append to one file without a lock, messages longer than the read buffer, calls whose failure is not looked at | the pieces of a message are in the file once and in order; what arrives is in the file |
| `LogFlush` sinks | file, current size, file counter | FileFlush, RollFileFlush, StdoutFlush | AsyncLogger | rolling, three durability levels, crash and restart | what a level promises survives a crash; files are bounded |
| `LoggerManager` | map of loggers | GetInstance, AddLogger, GetLogger | AsyncLogger | test and insert in two critical sections; both mains insert once, alone | one logger per name |
| `DataManager` | table of file metadata, file on disk | InitLoad, Insert, Update, Storage, queries | Service, FileUtil | rewriting in place, crash, a reload that takes what it can parse | table, metadata file and stored files agree |
| File utilities (StorageSystem Util.hpp) | - | SetContent, GetPosLen, Compress, UnCompress, UrlDecode | DataManager, Service | failures that are not reported | |
| `Service` | one event loop | Upload, Download, ListShow, GetETag | DataManager, files | low and deep files of one name, ranges, resumed downloads, two replies | a reply of 200 means stored; a resumed download is of one version |
| Message, Level, macros, configuration, Config.hpp, mains | values read once | formatting, forwarding | all | - | - |
| basic.cpp; bundle.h, base64.cpp | - | - | - | a demonstration; third-party code | not modelled |

PROJECT.json lists, under `hazards`, the places where each of these can go wrong,
line by line, with the property that covers each or the reason none does yet.

## Modules

| Module | Role |
|---|---|
| `AsyncBuffer` | the buffer as a value, with the arithmetic of its limit |
| `LogChannel` | abstract: a first-in first-out channel flushed in batches |
| `AsyncWorker` | producers, consumer and Stop; EXTENDS `AsyncBuffer`; shown to implement `LogChannel` |
| `ThreadPool` | callers, workers, destructor |
| `AsyncLogger` | EXTENDS `ThreadPool`, adds serialize, `start_backup`, the server, and INSTANCEs `LogChannel` for the local log |
| `LogFlush` | the two file sinks, from the user buffer to the disk, through crashes and restarts |
| `BackupStore` | abstract: a store of whole messages, what `AsyncLogger` takes the backup server for |
| `BackupServer` | the backup server's threads and its file; shown to implement `BackupStore` |
| `DataManager` | the metadata table, its file, InitLoad and Storage |
| `StorageService` | EXTENDS `DataManager`, adds the stored files, Upload, Download and the HTTP clients |
| `MCAsyncWorker`, `MCThreadPool`, `MCAsyncLogger`, `MCLogFlush`, `MCBackupServer`, `MCStorageService` | constants for TLC |
| `AsyncWorkerProofs`, `ThreadPoolProofs`, `AsyncLoggerProofs`, `LogFlushProofs`, `LogRollProofs`, `BackupServerProofs`, `StorageServiceProofs` | theorems and proofs |

The operators commented "Faulty variant" are mutations of the definition that
follows them.  Nothing uses them; they exist so that each property can be seen to
fail on a plausible mistake (PROJECT.json, `mutants`).

### AsyncWorker

`isStop`, `productor` and `consumer` are `_m_isStop` and the two buffers.  `mtx`
says who holds `_m_mtx` from one step to the next.  `pcP[p]` places a producer in
Push: `idle`, `lock` (about to take the mutex), `block` (predicate found false,
mutex held), `sleep`, `woken`.  `pcC` does the same for the consumer, `owner` for
the thread that constructs and stops the worker.  `accepted` and `flushed` are
history.

| Code (AsyncWorker.hpp) | Actions |
|---|---|
| constructor, 25-29 | `Init`, `ConstructDone`: the thread starts before the callback is constructed |
| Push, 35-47 | `PushCall`, then `PushWait` and `PushSleep` as often as needed, then `PushWrite` or `PushReturn` |
| ConsumerThreadEntry, 59-84 | `ConsumerWait`, `ConsumerSleep`, `ConsumerSwap`, `ConsumerFlush`, `ConsumerExit` |
| Stop, 48-56 | `StopSet`, `StopNotify`, `StopJoin` |
| spurious wake-ups of `wait` | `SpuriousProducer`, `SpuriousConsumer` |

A critical section is one step, with one exception.  `wait` tests its predicate
with the mutex held and releases the mutex when it sleeps, and these are two steps
because Stop writes the flag and notifies without the mutex: both can happen in
between, and the notification then finds nobody.  The flush callback and Reset are
one step outside the mutex: no other thread touches the consumer's buffer, as
`ConsumerSwap` needs the consumer.

A line is a record of its producer, the number of its call and its length in bytes.
Buffers count bytes, as the code does, and keep the lines next to the count.
`size_t` subtraction wraps when the write position has passed the end; it is not
modelled because `WithinCapacity` fails in the step that makes it possible.

`StopWhileBusy` chooses between Stop called at any time (it is public) and Stop
called by the destructor only, after the last Push.  UNSAFE mode is checked under
the second regime alone, as the program uses it.

### ThreadPool

`tasks`, `isStop` are the members; `pcW` and `task` place each worker and say what
it runs; `pcK` places each caller: `notify` between the unlock and `notify_one`,
`get` in `future::get`.  Here the predicate's test and the sleep are one step: every
write of what the predicate reads holds the mutex, so nothing it depends on can
change in between.  The notifications come after the unlock and are separate steps.

| Code (ThreadPool.hpp) | Actions |
|---|---|
| enqueue, 46-74 | `Enqueue` or `EnqueueThrows`, `EnqueueNotify`; `Get` is the caller's wait |
| worker loop, 21-41 | `WorkerSleep`, `WorkerTake`, `WorkerRun`, `WorkerExit`, `Spurious` |
| destructor, 76-86 | `DtorStop`, `DtorNotify`, `DtorJoin` |

Nobody calls enqueue on a deleted pool.  A call may still stand between its unlock
and its `notify_one` when the destructor returns; the code then touches a destroyed
condition variable, and the model takes it for a notification that wakes nobody.
The repository's programs delete the pool after the logging threads were joined, so
no property is claimed for that case.

### AsyncLogger

A message carries the number of the pool task that backs it up, 0 for the levels
that have none.  `LogRemote` is `Enqueue` and more, `BackupEnded` is `Get` and more,
`StartBackup` is `WorkerTake`, and `GiveUp`, `SendBackup` and `SendFails` are
`WorkerRun`: the pool's actions are conjoined with what the logger and
`start_backup` add.  The server (`ServerAppend`, `ServerCrash`, `ServerStart`) appends messages in flight in
any order, one connection being served by one thread, and loses those in flight when
it crashes: it is `BackupStore`, which `BackupServer` implements.  The local log is `LogChannel`, which `AsyncWorker` implements.

| Code | Actions |
|---|---|
| Debug .. Fatal, serialize, PushToBuffer (AsyncLogger.hpp 36-150) | `LogLocal`, `LogRemote`, `LogRemoteRefused`, `NotifyPool`, `BackupEnded`, `PushToBuffer` |
| RealFlush, destruction | `RealFlush`, `CloseLogger` |
| start_backup (Client.hpp 14-53) | `StartBackup`, `Connect`, `Reconnect`, `GiveUp`, `SendBackup`, `SendFails` |
| service and its callback (Server.hpp 107-125) | `ServerAppend` |

`sock[w]` is the descriptor of the backup that `w` runs.  socket() may return -1,
which is only printed: every connect on it then fails and the backup is given up after
all its reconnections, with the server up or not.  write() may return -1, which is
printed as well, and the message is gone.  A connection that the server's death has
reset takes the write and delivers nothing.  `faults` counts the failed calls, and
`hindered` holds the messages that something stood in the way of: their own socket()
or write() failed, or the server was down, or went down, while their backup ran or
before it had read them.  `BackedUpUnlessHindered` says that no other message is lost:
a failure costs the message it happened to and no other, although the backups share
the pool's threads.  A connect to a running server succeeds; an unreachable server is
one that is down.  A message is one write, which is not partial.

`seconds` adds up the sleeps of the current backup.  The pool may be deleted at any
time; the local log closes after it, when nobody is logging, as in the mains of the
repository.  There is one sink here; `LogFlush` has two.

### LogFlush

A batch is the content of one worker buffer, which RealFlush hands to a FileFlush and
then to a RollFileFlush.  `ubuf` is the user buffer of each stream, `kern` a file as
the kernel has it, `disk` how much of it would survive a power loss.  `stream`, `cnt`
and `curSize` are `_m_fs`, `_m_cnt` and `_m_cur_size`; `pc` is the next library call
of the Flush in progress.  `returned`, `failed`, `crashed` and `powerLost` are history.

| Code | Actions |
|---|---|
| FileFlush constructor, LogFlush.hpp 37-47 | `Start` |
| RealFlush, AsyncLogger.hpp 154-162 | `RealFlush`, `FlushReturns` |
| InitLogFile and CreateFilename, 110-142 | `KeepFile`, `NewFile` |
| both Flush methods, 48-70 and 87-106 | `Write`, `Fflush`, `Fsync` and their failures |
| exit, death of the process, power loss, write-back, time | `Exit`, `Crash`, `PowerLoss`, `WriteBack`, `Tick` |

Each library call is one step, so a crash can fall between any two.  A stream that
fopen could not open leaves only `Crash`, as fwrite dereferences a null pointer.  A
file name is the digits of the calendar fields, not padded, and the counter.  A batch
stays in one piece in a buffer, and a new directory entry is taken to be as durable
as its file, which is more than the code ensures: it never syncs the directory.

### BackupServer

A message is known by its connection; the file is a sequence of pieces, each the
bytes one `read` returned.  `client[c]` is the client's place in `start_backup`,
`stage[c]` the place of the connection's thread in `service`, `got[c]` and `buf[c]`
what it has read so far and last.  `lost` and `holed` are history: connections of
which the server lost something with the process or a thread, and those of which a
flush failed.

| Code | Actions |
|---|---|
| start_backup, Client.hpp 14-54 | `Connect`, `SendMessage`, `Close`; the retries are in `AsyncLogger` |
| init_service and start_service, Server.hpp 46-105 | `InitService`, `Accept`, `AcceptWithoutThread` |
| service, 107-125 | `Read` of any size up to the buffer, `ReadOverrun`, `ReadEnd`, `ReadFails` |
| backup_log, Server.cpp 30-44 | `WriteFile`, `OpenFileFails` (its assertion), `WriteFileFails` |
| death of the process | `Crash` |

A full read puts the terminating zero behind the buffer; the model lets that pass or
kill the process.  `backup_log` opens, writes and closes in one step: a piece and the
address before it are shorter than the stream's buffer, so everything is one write in
append mode.  `fwrite` therefore never fails there and the assertion behind it is
never reached; `fflush` may fail, and is not looked at.  A failed `bind` leaves a
server that listens where no client looks (`deaf`).

The refinement: a message is in flight in `BackupStore` from its sending until its
last piece is written, unless the server has lost some of it.  A prefix of a message
that was lost may stay in the file; the abstract store does not show it.
`AsyncLogger` lets its server lose messages by a crash only; the failures of a thread
or a flush, which lose one message, are here.

### DataManager and StorageService

`table` is `_m_table`, `saved` what parsing storage.data yields, `dm` the place
inside `Storage`.  A URL is the download prefix and the file's base name, and stands
for that name.  `files` maps the paths that exist (directory and name) to a content,
which is the number of the upload it comes from and a size, with number 0 for a file
that was truncated and not, or not wholly, written.  `pc` is the place of the event
loop in its handler, `req` the request; `reply[c]` the reply on its way to a client
and `client[c]` what that client has.

| Code | Actions |
|---|---|
| main and Run (Test.cpp 10-38, Service.hpp 37-79), DataManager's constructor | `Start`, `InitLoad` |
| GenHandler, 89-112 | `GenHandler`: the actions that begin a request |
| Upload, 115-206 | `Upload` or `UploadRefused`, `WriteFile` or `WriteFileFails`, `RecordInfo`, `UploadReplies` |
| Insert and Storage (DataManager.hpp 105-155), over SetContent | `Insert`, then `OpenSaved`, `WriteSaved` or their failures |
| Download, 407-574: lookup and decompression | `Download`, `Resume`, `UnCompress` or `UnCompressFails` |
| Download: the reply | `ServeUnknown`, `ServeMissing`, `ServeOpenFails`, `ServeWhole`, `ServeRange`, `ServeEmpty`, `RangeRefused` |
| UrlDecode's assertions | `MalformedLink` |
| sending, clients, death, time | `ReceiveByte`, `Disconnect`, `Crash`, `Tick` |

The service has one thread, so requests do not interleave and `_m_rwlock` is always
free; a handler is several steps because the process may die between them and calls
may fail one by one.  What does overlap with later requests is the sending: a reply's
body is a mapping of the file, and its bytes are read as they are sent, by the loop,
after the handler has returned.  `SetContent` keeps the inode, so a reply that is
being sent goes on with the new content; a removed file's inode lives until the reply
has gone.  A deep file is decompressed to the low path of its name at each download
and removed after it, but not when the file cannot be opened or the range is refused.

`stored`, `acked`, `lost` and `suspect` are history: uploads recorded, answered 200,
forgotten because the process died while storage.data was truncated or after it had
not been written, and the paths whose content does not go with an entry after a
failed write or a crash in the middle of an upload.  What the code does to `lost`
uploads and `suspect` paths is in the model; the properties make their claims of the
others.  When evbuffer_add_file fails, Download only logs it and sends the same 200 or
206 with the ETag and no bytes (`ServeEmpty`); a client takes an empty 200 for a whole
file.  A reply is `excused` if

* its file was suspect when it was sent,
* its decompression failed (Download does not look at the result),
* it is such an empty 200 of a file that is not empty, or
* its file was rewritten under it while it was being sent,

and a client's copy is excused if a reply it was begun or continued with was.
`TagMatchesBody` makes no claim of excused replies, `CompleteIsVersion` none of excused
copies, and `ServesLatest` none of requests for a suspect file, of requests whose
decompression failed, or of steps in which a call fails.  An empty 206 needs no
exemption: its client has the bytes it had, under the tag it had, and may resume again.

Left out: request bodies and headers that are answered 400 before anything is
touched, the list page (it reads the table and keeps nothing), access times, Range
headers other than `bytes=n-` and `bytes=n-m` within the file, and reading
uninitialised members of the empty `StorageInfo` of an unknown URL, whose tag equals
no client's.

## What is checked

| Run | Instance | Question |
|---|---|---|
| `worker_safe` | SAFE, 2 producers, 2 lines each of 1 or 2 bytes, buffer of 2, Stop any time, 1 spurious wake-up | conservation, per-thread order, no lost wake-up of the consumer, no stranded producer; Push returns, Stop returns unless raced, refinement of `LogChannel` with its liveness |
| `worker_unsafe` | UNSAFE, the same sizes, stopped by the destructor | drained at the end, capacity with doubling and linear growth, callback ready |
| `stop_returns` | SAFE, 1 line each, stopped by the destructor | does Stop return?  Violated |
| `stop_blocked` | SAFE, 2 lines each, Stop any time | are blocked producers released?  Violated |
| `unsafe_capacity` | UNSAFE, a line that one enlargement does not hold | is capacity guaranteed?  Violated |
| `thread_pool` | 2 workers, 3 callers with one task each, destructor any time | each started task run once and by one worker, no idle worker while tasks wait, drained when deleted; callers, workers and destructor never all wait for one another; every wait ends |
| `async_logger` | 2 pool threads, 2 callers, 2 log calls in all, 2 retries, 1 failing socket() or write(), crashing server, pool deleted any time | local log complete and ordered, backup before local push, backups lost only to what befell that very backup, never sent twice, given up after all attempts; every message is written in the end; the logger drives the pool as `ThreadPool` says |
| `log_flush` | 3 batches, files of 2, 2 runs of the process, 1 power loss, all levels | what `flush_log` promises survives, no holes after a crash, the same batches in both sinks, files rolled in time |
| `roll_restart` | 2 batches, 2 runs | are files bounded across restarts?  Violated |
| `storage` | 2 names, both directories, 2 clients, 2 uploads of 2 bytes in 2 seconds, 1 failing call, 1 crash | acknowledged uploads survive, entries and files agree, a download gets the newest upload answered before it or a later one, and 416 only if it has it whole, a reply's body is of its tag's version, a complete download is one version |
| `unknown_url` | 2 names, 1 client, 1 upload | is an unknown URL answered 404?  Violated |
| `backup_server` | 2 connections with messages of 4 and 3 bytes, buffer of 2, 1 place to wait for accept, 1 failing call, 1 crash | pieces in order and once, no connection forgotten, every message delivered, refinement of `BackupStore` |

**Bounds.**  A buffer of two bytes with lines of one and two bytes is the smallest in
which a producer blocks on a partly filled buffer, a woken producer finds its room
taken by the other, and an enlargement is needed; two lines per producer let a
producer overtake one that sleeps and make both buffers go round.  With threshold 4
the UNSAFE buffer grows by doubling and then linearly.  Three callers for two
workers queue a task while both are busy; a worker serves a second task.  In the
logger two calls in all are enough for one message to be backed up while another is
not, for two pool threads to back up at once, and for a call to be refused by a
stopping pool; retries are 2 instead of 5, and `GivesUpPatiently` is stated for any
number; one failing call lets one backup fail while the other must get through.  Three batches
of one byte and files of two fill a file and roll once more, so that a batch of the
old file can be lost or kept while the new one is written; two runs meet each other's
files.  The two instants of `MCLogFlush` have the same digits.  Two uploads let a low
and a deep file of one name meet, in both orders, or a new version replace one that is
half downloaded, in the same second or the next; two clients let a deep download
rewrite and remove the file that another reply is sent from; a failing call and a
crash together bring back an older table; two names let part of a table be saved.
Contents of two bytes can be interrupted in the middle.  The run is symmetric in
names and in clients and states no liveness.  (Sizes 1 and 2 together, four times the
states, pass as well.)  Messages of 4 and 3 bytes need two to four reads of at most
two.  Deadlock is checked in `storage`
only, whose loop always has a request to take; in the others, after the destructor, or when everybody
is idle and has used up its calls, the system legitimately stops; that nobody is
stuck earlier is what the liveness properties say.

**Fairness.**  Weak fairness of each thread's steps: the operating system runs every
runnable thread, and a step enabled for ever is taken.  No fairness is assumed for
calls (to log, to stop, to delete), for spurious wake-ups, or for the server, which
may stay down for ever.  In `BackupServer` the accepting loop and the threads run, and
a client that has connected sends and closes, as `start_backup` does without a wait;
nothing is assumed of connecting or of a restart.  Tasks and flush callbacks are assumed to return;
`async_logger` shows this of `start_backup`.  Spurious wake-ups of the worker are
bounded because a thread that is woken for no reason for ever would need more
than weak fairness of the mutex for the others.

**Assumptions of the properties.**  `NoStrandedProducer` and `PushReturns` hold for
lines that fit an empty buffer (a longer one waits for ever in SAFE mode, and can
consume a notification another producer needs).  `StopDrained` holds in SAFE mode, or
when only the destructor stops the worker.  Pools have at least one worker.
`CompleteIsVersion`, and the 416 clause of `ServesLatest`, make no claim when two
uploads of a name have the same tag (the same recorded size within one second); see
the findings for what happens then.  What excused replies and copies are, of which
`TagMatchesBody`, `CompleteIsVersion` and that clause make no claim, is listed under
`StorageService` above.  `AckedSurvives` makes none of an upload that
was in the table when the process died with storage.data truncated or unwritten: the
code rewrites it in place.

### Findings

* `stop_returns` (AsyncWorker.hpp:49): Stop writes the flag and notifies without the
  mutex.  Between the consumer's test and its sleep both are missed, the consumer
  sleeps for ever and Stop never returns.  `StopReturnsUnlessRaced` shows that this
  is the only way.
* `stop_blocked` (AsyncWorker.hpp:52): the notification of the producers is commented
  out, so of several blocked producers at most one is released by Stop.
* `unsafe_capacity` (AsyncBuffer.hpp:86): one enlargement need not be enough for a
  long line, although the comment at line 23 says the capacity is guaranteed.
* `roll_restart` (LogFlush.hpp:119): a restarted process can make the name of an old
  file, by restarting within a second or because `111` is January 11 and November 1;
  it appends to that file and counts from zero, so the file outgrows its limit.
  `RolledInTime` is the limit that does hold: of what one process writes.
* `unknown_url` (Service.hpp:413): Download ignores that the URL was not found and
  serves the low directory itself, which exists and can be opened: 200 and no body,
  where the comment at line 462 says 404.
* Not a run: a producer that Stop's last swap wakes sees the flag and returns without
  writing its line (AsyncWorker.hpp:43), where the comment at line 50 says that the
  producers write and wake the consumer.
* Not a run: the ETag counts whole seconds (Service.hpp:307), so two uploads of one name
  and size within a second have one tag, and a download of the first is resumed with the
  second.  The comment at line 448 says that the version is verified first.
* Not a run: the comment at the top of Client.hpp says that all levels above debug
  are backed up; AsyncLogger.hpp:130 backs up ERROR and FATAL only.

## What is proved

Every safety invariant and every action property that a passing run checks is a
theorem: for any sets of producers, workers, callers, connections, clients and names,
any lengths and sizes, and any bounds.  `StartedInOrder` (tasks start in queue order)
and `WithinCapacity` in SAFE mode are proved and not run: TLC found nothing against
them, and a proof leaves nothing to look for.  The
assumptions on constants are those of the modules: `BufferConfig`, `Threads` and
`WorkerConfig` (`AsyncWorker`), `PoolConfig`, `LoggerConfig`, `FlushConfig`, `BackupConfig`,
`DataConfig` and `ServiceConfig`.  A theorem that needs more says so: `DrainedAtEnd`,
`CapacityKept` and `NobodyStranded` the mode and the lines it speaks of,
`DeletedPoolDrained` and `PoolNeverDeadlocks` a pool with a worker,
`LoggerTypeCorrect` and `PatientlyGivenUp` at most the 5 reconnections that the code has.

**AsyncWorker.**  The invariant is built in layers, each inductive relative to those
before it:

1. `TypeInv`: `TypeOK`, and the line of a producer that stands in Push is its own
   current line.
2. `MutexInv`: a thread between its test and its sleep holds the mutex.  Needed
   because a thread in that gap must exclude the swap and the writes of others.
3. `BufferInv`: positions and contents agree on emptiness; the consumer's buffer
   holds lines exactly while they are being flushed (so the swap hands an empty
   buffer to the producers); `Conservation`; `NoLostWakeup`.  `Conservation` alone is
   not inductive: the swap preserves it only when the consumer's buffer is empty.
4. `StopInv`: the flag belongs to Stop; nobody logs before construction or after the
   destructor; a consumer that has ended left an empty buffer that stays empty.

From these: `TypeCorrect`, `NothingLost`, `ConsumerWoken`, `CallbackConstructed`,
`DrainedAtEnd` (for SAFE mode or a stopping destructor).  Three further invariants
rest on them: `OrderInv` (accepted lines of one producer have increasing call
numbers, all below the line it is about to write) for `OrderKept`; `CapacityInv` for
`CapacityKept` (SAFE mode, or one enlargement makes room for any line);
`BlockedInv` (a producer about to sleep found lines in the buffer) for
`NobodyStranded` (SAFE mode, lines that fit).  `WorkerIsChannel` is the
refinement of the safety part of `LogChannel`: PushWrite is Accept, ConsumerFlush
is Flush of a prefix that ends at the seam of the two buffers, ConsumerExit is Close
by `DrainedAtEnd`'s argument, everything else stutters.

**ThreadPool.**  `QueueInv` adds to `StartedInOrder` that every call makes a task of
its own, so that the head of the queue has not started (`HeadIsNew`); `RunInv` adds
that whoever runs a task took it from the queue; `DtorInv` that a worker ends on an
empty queue under the flag.  Theorems: `PoolTypeCorrect`, `StartedInQueueOrder`,
`EachTaskOneWorker`, `DeletedPoolDrained` (for a pool with a worker).
`WorkersComeForTasks` is `NoIdleWorker`, which is inductive as it stands; its proof
counts the workers on their way and the callers about to notify, with the library's
facts on cardinalities: a task and its notifier come together, a notification turns
a notifier into a worker on its way, and a worker that takes a task leaves the count
with it.  `PoolNeverDeadlocks` is the safety core of `GetReturns` and `DtorReturns`:
with `WaitInv` (a caller waits for a task that was queued, and after the destructor's
notification nobody sleeps) the task somebody waits for is queued or being run
(`WhereTasksAre`), and a queued task has a worker or a notifier by `NoIdleWorker`.

**AsyncLogger.**  `LoggerUsesPool`: each step is a pool step or leaves the pool alone,
so the pool's theorems hold of the logger.  `LoggerUsesChannel` and `LoggerUsesStore`
say the same of the local log and of the server, which the logger takes for a
`LogChannel` and a `BackupStore`; `WorkerIsChannel` and `ServerIsStore` show that the
worker and the server are these.  The fit has a price that the models name: the logger
lets the server lose messages by a crash only, the server loses some with a thread or
a flush as well.  On `LoggerUsesPool` rest

1. `BackedUpFirst`, with `BackupInv`: a message that may enter the local log has no
   backup, or one that has been run, or one the pool never accepted, and stays so
   (`ReadyStable`).
2. `BackedUpAtMostOnce`, with `SentInv` (what is in flight or in the file belongs to a
   `start_backup` that has returned) and the pool's `FreshInv` (a task that is being
   run has not finished): a pool thread sends in the step in which it returns, so
   nothing that it sends was there.
   `NoBackupLost`, with `UnhinderedInv`: a backup that is being made and that nothing
   has hindered has a descriptor, its server runs, and once it is connected its
   connection is not reset.  So it cannot give up, and what it writes is in flight.
3. `NoCallLost`, with `CompleteInv`: a caller that stands in a log call has all the
   earlier ones in the local log and not this one.  `LocalLogComplete` compares
   positions in the log instead of filtering it, which is the same claim in a form
   that can be reasoned about.
4. `LoggerTypeCorrect` and `PatientlyGivenUp`.  The seconds slept are 2^k - 1 after
   k reconnections.  The provers have no law of `^`, so the powers up to the code's 5
   retries are evaluated one by one.

**LogFlush.**  The layers, each inductive relative to those before it:

1. `ControlInv`: where Flush stands, and that a file is begun at most once a batch.
2. `StreamInv`: a sink writes its own files, and what is buffered belongs to the
   present run.  `FileInv`: the disk holds the beginning of a file.
3. `HistoryInv`: what has returned is of batches and runs there have been.
4. `AgreeInv` for `SinksGetTheSame`: a batch of the present run is with both sinks or
   is the one being flushed.
5. `OrderInv`: what is buffered is younger than what the kernel has of the same run
   and lies in order.
6. `KeptInv` for `FlushedIsDurable`: between fwrite and the return, the batch has got
   as far as the calls that were made, or one of them failed.  `Durable` alone is not
   inductive, since it speaks of batches whose Flush has returned.
7. `HolesEach` for `NoHoleInALog`.  While the process runs, 5 and 6 leave a batch that
   is not with the kernel in the buffer, and nothing younger has passed it
   (`NoHoleYet`).  When it dies the buffer is lost and the claim is about the past, so
   it is carried over: nothing of an earlier run comes to the kernel any more
   (`OthersStay`).

`Effects` sorts the steps by what they do to a sink's stream, and is where the actions
are gone through once for 5 to 7.

`LogRollProofs` adds the sizes.  `Bytes` is a recursive function over the places of a
sequence, and what it returns is shown by the least place where a claim about it would
fail (`WFMin`, which takes a set where the induction theorems take an operator).
`RollInv` has three parts: `SizeInv`, the counted size covers what the run has put into
the open file, and is below the limit when a batch is about to be written; `FreshInv`,
a file the run has still to name has nothing of it; `InTimeInv`, `RolledInTime` in a
form that a beginning of a file inherits.  From them `RolledBeforeFull`, and
`FlushTypes`, whose clause on the counted size is the first part.

**BackupServer.**  `PiecesKeptInOrder`, for any connections, message lengths, buffer
size, failures and restarts.  `PiecesInOrder` speaks of the file only; the invariant
adds where each thread stands.  `Front` is the first byte its thread has not yet
tried to write: what the file holds of its message is before the front and reaches
it, or a flush failed (`FrontInv`), and the piece in the buffer begins there
(`BufferInv`).  `QueueInv` keeps a connection from being accepted twice.
`ServerIsStore` is the refinement of `BackupStore`.  A step maps to a send, an append,
a loss or a stutter (`StoreStep`); `SentInv` says that nothing is read, written or
lost of a message before it is sent, and that what is served or waits is not lost.
`Completed` numbers the last pieces by counting those before them, so that a new one
takes the next place and the others keep theirs (`OneMoreStored`), and `Listed` that
the numbers have no gap.
`ConnectionsServed` is the safety core of `Delivered`: a thread that has read its
message to the end has written it to the end, or a flush failed (`WholeAtEnd`, from
`FrontInv`), so it may close the connection.

**StorageService.**  Six theorems from one invariant, in layers:

1. `TypeInv`: the shapes of the variables, and which request goes with which step;
   `StorageTypeCorrect`.
2. `StoredInv`, `SavedInv`: an upload that was answered is covered, in the table and
   in storage.data as far as it is `Intact`, by its entry or a later one of its name;
   `AcknowledgedKept`.
3. `BackedInv`: the file of an entry has the content that the entry records, in the
   table and in storage.data, unless its path is suspect or it is being uploaded.
   storage.data has to be in it because the next process takes its table from there;
   `EntriesBacked`.
4. `CopyInv`, `ReplyInv`: a deep file is served from a copy with its content, and what
   is on its way to a client is the body of an upload with the reply's tag, although
   the file may be rewritten or removed meanwhile, or the reply is excused;
   `BodyHasTag`.  `Delivered` says once what sending a reply does to all the clients,
   for the whole file, a range and the empty bodies of `ServeEmpty` alike.
5. `CopiesInv`, `ResumeInv`: a client that is not excused, and whose tag belongs to one
   upload, has bytes of that upload, no more than there are; the reply on its way goes
   on where they end; and a request resumes there.  `CopiesAreVersions`.
6. `CurrentInv`: the file of an entry, in the table and in storage.data, is no older
   than any answered upload of its name, and what is being recorded is the newest;
   `UploadsAreSeen`.  `TableBacked` is not enough for it: an entry and a file that
   agree may both be old.  Its 416 clause rests on 5: a resuming client has a part of
   the upload that is served, so a range that begins at or after the end of the file
   means that the part is the whole.

The proofs of 2 and 3 are by what a step does to the table, to storage.data and to
the files, so that each handler is gone through once.

**Only model-checked.**

* Liveness: `PushReturns`, `StopReturnsUnlessRaced`, `GetReturns`, `DtorReturns`,
  `LoggedIsWritten`, `Delivered`, the fairness part of `ImplementsChannel` and
  `ImplementsPool` (their safety is `WorkerIsChannel` and `LoggerUsesPool`), and
  anything with ENABLED.  It is beyond the prover.  What of it is safety is proved:
  that nobody sleeps whom nobody will wake (`NoLostWakeup`, `NoStrandedProducer`,
  `NoIdleWorker`), that not all wait (`NeverAllWait`) and that nothing is forgotten
  (`NothingForgotten`).
* `GivesUpPatiently` and `LoggerTypeOK` for more than the 5 retries of the code: the
  provers know nothing of `^` with a variable exponent.
* `FileBounded` and the other properties of the runs that find a violation, which are
  false.

## Not modelled

Formatting (Message, Level, the macros), configuration parsing, the list page,
libevent itself, compression and base64 (used as inverse pairs), `LoggerManager` (both
mains insert one logger, before any thread logs), `Download_bak`, `Update` and
`GetOneByStoragePath` (nobody calls them), and the demonstration in
basic_sync_log_system.
