# A TLA+ model of hcom4db

hcom4db is a C++ library that gives a database an RPC interface (`OckRpc...`) on top of
libhcom, a transport it loads at run time.  Nearly all of its own logic is in
`src/src/hcom4db.cpp` (file names below are relative to `src/src/`).  It has no threads of its
own: it runs on the threads of its users and, in callbacks, on those of libhcom, and its state
is a dozen global variables which all of them share.  That is what this project is about.

## 1. The system

| Component | State | Operations | What is hard |
|---|---|---|---|
| Scatter-gather call | scatter list and blocks of a call, its callback record `AsyncCbInfo` | `OckRpcClientCallWithParam`, `PackReqInfo`, `SetReqInfo`, `OckRpcCallSyncSgl`, `OckRpcCallAsyncSgl`, `OckRpcCallbackFunc` | frees on the error paths, callback before return, a copy limit that is a global variable |
| Message dispatch | `g_handleMap`, `g_rndvHandleMap` with a `shared_mutex` each | `OckRpcReceiveHandle`, `OckRpcRndvReceiveHandler`, `OckRpcServerAddService`, `OckRpcServerAddRndvService` | user handlers run under the lock; `unlock` after `lock_shared` |
| Server registry | `g_serviceMap` with `serviceMutex`; `g_options`, `g_tlsFunc` without a lock | `OckRpcServerCreateWithCfg`, `...Start`, `...Destroy`, `OckRpcGetCurService` | options of one server overwritten by another, an iterator used after the unlock, failures half way |
| Client memory | `g_memoryAllocator`, `g_memoryRegion`, no lock | `OckRpcClientConnectWithCfg`, `OckRpcPrepareMemAllocator`, `OckRpcMemAlloc`, `OckRpcMemFree`, `OckRpcClientDisconnect` | `operator[]` inserts; late callbacks; handles used again |
| Plain and rendezvous calls | callback record per call | `OckRpcClientCall`, `OckRpcClientCallRndv`, `OckRpcClientCallRndvIov` | callback before return |
| Replies, contexts | callback record per reply | `OckRpcServerReply`, `OckRpcServerReplyRndv`, `OckRpcCloneCtx`, ... | a reply without `done` is asynchronous all the same |
| One-sided operations | callback record per operation | `OckRpcRead`, `OckRpcWrite`, `...Sgl` | uninitialised fields of the record |
| Timeouts | `g_timeoutTime`, the two timeouts of each channel | `OckRpcClientSetTimeout` | one value for all clients, truncations |
| Configuration | the config map of one call | `OckRpcInitConfigMap`, `OckRpcString2Num`, `OckRpcSetAllocatorOption`, `...OptionInit` | 32-bit products, narrowing |
| TLS callbacks | `g_tlsFunc` | `OckRpcSetTlsConfigs`, `OckRpcTlsGetCertCb`, `...GetPrivateKeyCb`, `...GetCACb`, `...KeypassEraseCb` | one set of functions for all servers, the eraser looked up late |
| Loader | `g_hcomDl`, `g_hcomFunc` | `InitOckRpcDl`, `HcomDlsym`, wrappers | partial loads, no lock |
| Forwarding routines | none | `OckRpcMemoryAllocator...`, `...MemoryRegion`, `OckRpcGetClient`, ... | a null entry behind them |
| Logging | `gLogger`, `logLevel`, `mLogFunc`, `g_logFunc` | `Hcom4dbLog::Instance`, `SetLogLevel`, `OckRpcSetExternalLogger` | double-checked creation, a handler kept twice |

Interactions.  A client is connected through a server found by name (registry to client memory);
its calls take blocks from the client's allocator (scatter-gather call to client memory) and
check sizes against the options of the last created server (registry to scatter-gather call);
a request arrives at a worker of the peer, which dispatches it (dispatch); `AddService` accepts
only servers that are listed (registry to dispatch).  The first creation of a server loads libhcom
and makes the logger (loader and logging to registry); every later call goes through the loaded
table.  Towards libhcom everything is a function
call; from libhcom come the receive handlers, the call callbacks and the channel callbacks.

What makes each component correct, in a line: a call gives the transport what the user passed,
answers once, and gives every block back once; what libhcom offers is reachable once a creation
has returned, and what it lacks is noticed; a message is handled by the registered handler,
and registration gets through; a server is listed exactly while it exists and runs with its own
options; a connected client has one set of memory that outlives its calls.

## 2. The modules

    SharedMutex          std::shared_mutex as a value
      MsgDispatch          message dispatch            MsgDispatch_proofs  (theorems)
      ServerRegistry       server registry             ServerRegistry_proofs  (theorems)
    CallCompletion       what a call promises (abstract)
      SglCall              the scatter-gather call     SglCallProps  (properties, refinement)
                                                       SglCall_proofs, SglBlocks_proofs  (theorems)
      AsyncCall            the other operations        AsyncCall_proofs  (theorems)
    ClientMemory         client memory                 ClientMemory_proofs  (theorems)
    Logger               the threads of the process, the logger and its handlers
      HcomLoader           the loader of libhcom and its wrappers
        Startup              the two in a creation of a server, and the forwarding routines
                                                       Startup_proofs  (theorems)
    Timeouts             timeouts                   \
    TlsCallbacks         certificate callbacks       }   Settings_proofs  (theorems)
    MemorySizing         a client's memory          /
    MC<Module>           the instance TLC checks

Definitions named `X_variant` and marked "Variant:" are deliberately wrong versions of an action
or operator X, used to confirm that a property notices a mistake; no specification uses them.

**SglCall.**  One invocation is a small machine `pc`: head block, then per message allocate and
copy (`SetReqInfo`), then append what does not fit into four entries (`PackReqInfo`), post, and
free.  The callback is a second machine `cb`.  `left` and `cbLeft` are the addresses that are
still going to be passed to `OckRpcMemFree`, in order, with the repetitions the error loops of
`SetReqInfo` produce: a failing copy of message i frees `addrArr[i]` i + 1 times.  `holder`,
`cap` and `mem` are the allocator and the memory: who allocated a block, how large, and what has
been copied into it, as tags.  A step is one call to the allocator, one copy or one exchange
with the transport.  `segSize` is `g_options.mrSendReceiveSegSize`, which other servers of the
process change at any time (`OtherServer`); a copy whose limit has become smaller than the data
fails as `memcpy_s` does, which clears as much as its limit says when it refuses (`Clears`): the
segment size, more than a block of `msg.len` holds, so that blocks behind it may lose what other
calls have put there.

**CallCompletion** is the promise of every call routine, with and without `done`; SglCall
implements it under the mapping at the end of SglCallProps (`KeepsPromise`, `Completes`).
AsyncCall implements it for all other operations.  `KeepsPromise` is proved for both.

**AsyncCall.**  Plain calls, rendezvous calls, one-sided operations and replies differ in who
allocates the callback record, which of its fields are assigned, and whether the callback frees
it before or after `done`.  An operation is the routine (`pc`: record, post, wait or return), the
transport (`op`) and the callback (`cb`), which may overtake the routine.  `rec` is the record's
life, `filled` the fields that have a value; `malloc` leaves the others as they are.  `loaded` and
`used` are the fields that the callback has read and those it has acted on.  The two differ in
`client`: only the scatter-gather call assigns it, and `OckRpcCallbackFunc` copies it from the record
of a plain or rendezvous call all the same (hcom4db.cpp:1236), but has no use for it when `reqAddr` is
null.  A reply
without `done` has a record all the same, as `OckRpcServerReply` always passes a callback.

**MsgDispatch** has the two planes as two instances of the same tables and locks.  A handler is
the interval in which a worker's `wpc` is "run"; during it the worker may call `AddService`
itself, for either plane.

**ServerRegistry** models `g_options` and `g_tlsFunc` in four parts, by the configuration each
part was last written from, since creations write some always and some only if configured, and
stop anywhere when an option is invalid.

**HcomLoader** has `g_hcomDl` as a flag and `g_hcomFunc` as the set of entries that are not null.
Every read and write of either is a step, so that creations on two threads load side by side, or
one goes on while the other is half way.  The ten groups stand in the order of `g_dlSymFuncsArr` and
of their loaders; `missing` is what the library at hand lacks.  `Answer` is what each of the wrappers
says when its entry is null: an error, a value that means nothing, or nothing.
A lookup with a handle that another thread's failing `dlopen` has cleared searches the whole program,
where `dlsym` may find hcom4db's own wrapper of the same name; `OwnWrappers` says for which entries.

**Logger** keeps the object behind `Hcom4dbLog::Instance()` from "published" to "constructed" apart,
as a thread that does not take the mutex may see one without the other, and the handler of the user
in its three places: in the object, in `g_logFunc` and in libhcom.  The allocation may fail: the
thread sets the level and unlocks without an object and reads `gLogger` once more, which another thread
may have filled; if not, only a message that the level filters out lets the process go on.

**Startup** puts the two together: `OckRpcServerCreateWithCfg` loads, tests and passes the logger,
creates the service, equips it without looking at any result, and logs.  `Forwards` lists the
routines of hcom4db that do nothing but forward, with the entry each goes through; a user calls them
on a created server.  `gaps` collects the calls that found a null entry and got no error for it.

**Timeouts**: the write of `g_timeoutTime`, each of its two loads and each of the two calls of libhcom
with what was loaded (`carried`) is a step of its own; the conversions to 32 and 16 bits are there with
their widths as parameters.  `asked`, `last` and `crossed` are history.

**TlsCallbacks** names a function by the server it came with and records whose answer each server
was given; the user's function for the private key is an interval, in which it writes the eraser.

**MemorySizing** is `OckRpcString2Num`, `OckRpcSetAllocatorOption` and `Calculate2PowerTimes` with
their widths, over every setting of size and count: absent, not a number, negative, 0, at the
limits and beyond.  What is absent means the code's defaults, 65536 bytes and 1024 of them,
which are not the documented ones (section 5).  ClientMemory has what is done with the outcome.  The loop of
`Calculate2PowerTimes` is the recursive function `Shifts`, and `Tier`, another one, is the size of
libhcom's blocks by tier.

**ClientMemory** has a set of memory (buffer, allocator, registration) per connection and the
two maps.  As nothing locks the maps, a step is a lookup or change of one client's entry in one of
them; the `find` and the `insert` of a connect on one map are one step, as no other thread has that
client's handle at that time.  `given` is what a connect has made and not entered yet.  Disconnect
goes on when libhcom refuses to destroy the allocator (`DestroyFails`).

**External behaviour**, taken from `hcom4db_hcom.h` and from how the code uses it:
the allocator refuses addresses that are not allocated (the code logs the refusal and goes on),
a failing post does not invoke the callback, `Service_Destroy` and every other call may fail
where the code looks at its result, if only to log it, and handles are addresses that libhcom may hand out again
once the object behind them is gone: not while another thread is still about to destroy the
same server, and not before the callbacks of the old connection have run.  `shared_mutex` is
glibc's rwlock: readers are preferred, and a release gives back whatever the thread holds.

**Simplifications.**  Each access to a global map or option is atomic; the races inside
`std::map` (insertion under the shared lock, the maps without a lock, `AddService` searching
`g_serviceMap` under another mutex) are undefined behaviour that the model does not follow
further than to the interleaving.  Three groups of accesses are one step: the reads of the segment size
in the argument check of a scatter-gather call, the unlocked writes of one part of the options
(overlapping ones are recorded as `mixed`, of which nothing is promised), and the two statements that
clear the options.  The contents of messages, ids other than for lookup, log
output and the values of options are left out.  A `done` is assumed to have a `cb`.

## 3. What TLC checks

| Run | Instance | Result |
|---|---|---|
| `sgl_concurrent` | two threads, five blocks, requests of 2, 4 and 5 messages, one segment size | holds |
| `sgl_serial` | one thread making two calls, messages without data, segment size cleared at any time | holds |
| `sgl_foreign_free` | two threads, segment size cleared at any time | `NoForeignFree` fails |
| `sgl_orphans` | two threads, asynchronous calls | `NoOrphanBlocks` fails |
| `dispatch` | two workers, one user, two planes, two handlers, ids 0 and 1 with limit 1 | holds |
| `registry` | two threads, two names, two handles, a full and a minimal configuration | holds |
| `registry_connect` | the same | `ConnectsToLive` fails |
| `client_memory` | two handles, three sets of memory, two calls, quiescent users | holds |
| `client_memory_reuse` | the same, users that disconnect during calls | `ConnectedUsable` fails |
| `async` | two operations of every kind, with and without `done` and response, results that cannot be read | holds |
| `async_reply` | replies with and without `done` | `ResultIsReal` fails |
| `process` | two threads, six followed entries of which one may be missing, one log handler; two channels; two servers with TLS and one without; one client, 143 settings | holds |

*Scatter-gather call.*  `InFlightIntact`: whatever the transport may read is the header and the
user's messages, each once, in order, with the right lengths, in blocks that still belong to the
call.  `NoForeignFree`: no free hits a block of another call.  Both hold for well-formed requests
with a constant segment size, and for a single thread in general; with two threads the error
loop breaks the second one.  `OrphansExplained` says exactly which calls leave which blocks
allocated, `NoOrphanBlocks` that none do, which is what fails.  `BlockFits`: appended messages stay
inside their block, although the limit of each copy is the global segment size and not the block's.

*Dispatch.*  `RunsRegistered` is what a user relies on when a handler is replaced and its data
released.  `SelfAddBlocks` states the deadlock of a handler that adds to its own plane as a law.
`Dispatched` and `AddReturns` are the liveness that remains when no handler does that.

*Registry.*  `ListedIsLive` and `DestroyedOnce` relate `g_serviceMap` to libhcom's
servers through failing creations, failing destructions and reused handles. `NothingInherited`
and `OwnOptionsWhenAlone` say what the global options still guarantee: a server that was alone
from creation to start has its own; with a second server in the process it may be started with
the other's, or with none. `mixed` is a history variable for that premise only. A
server created under a name that is taken is not listed and can never be destroyed.

*Client memory.*  `CallsAreBacked`, `MapsAgree`, `LeftoversExplained` and `ConnectedUsable`
hold for users who wait for their calls before they disconnect, which the code does not ask for.
`LeftoversExplained` is an exact account: nothing of a set remains after a disconnect, but for an
allocator whose destruction libhcom refused, which keeps existing without its buffer and with no entry
that leads to it; and a failed connect leaves all it had made.

*The process* (`MCProcess`).  Startup, Timeouts, TlsCallbacks and MemorySizing share no variable; a
behaviour of the run follows one of them, chosen at the start.  `NullsExplained`: once the library was
opened, an entry is null only because the library withholds it or somebody is still loading it, also
when two threads load at once; the premise `~disturbed` leaves out a failing `dlopen` that overwrites
the handle another thread is loading from.  `CreatedWhole`: a creation that succeeded has made a
server, and whatever it skipped without an error is withheld by the library or was being loaded by
another thread at that time, which the check of `g_hcomDl` does not wait for.  `MadeOnce` and
`LibhcomLogsToUser` are about the logger: one object, and libhcom's messages with the handler the user
has set, through a default that forwards to the object; a setting that meets a creation, another
setting or an object not yet constructed may be lost (`torn`, `clean`, `settled`).  `TimeoutKept`: a
channel whose last setting met no other, of the same channel or another, keeps what was asked, rounded
down to seconds, for both kinds of operations.  Settings that meet are promised nothing, also on one
channel: one thread may load g_timeoutTime, another set both timeouts to a newer value, and the first
then store the older one for the one-sided operations and load the newer one for the two-sided ones.
`TlsIsOwn`: a server that no other one has disturbed identifies itself with its own functions.  To
disturb it takes another creation or destruction, but also a private key that an earlier server's
function is still giving: the eraser it names replaces the newer one, and then the passphrase of one
server is erased by the function of another.  `MemoryAsAsked`: as long as size times count fits in
32 bits, a client has the memory it asked for, where a key that is absent asks for the code's default.
The documented default is another one, 16384 for both keys, so that the property says nothing of what
a reader of hcom4db.h expects there (section 5).

*Other operations.*  `RecordReadable` and `RecordsFreed` are the life of the callback record:
allocated whenever a callback may read it, freed in the end, and no field acted on that was never
assigned; the only unassigned field that is read at all is `client`.  `BuffersKept` is the promise about the user's memory, with the exception of replies
without `done`, whose buffer the transport still reads after OK was returned.  `ToldTruth` says
that a reported result is the real one, `ResultIsReal` that a returned one is, which those
replies break.  `Answered` is the liveness: the routine returns, and `done` follows OK unless
`OckRpcCallbackFunc` cannot read its result.  Two operations suffice, as operations share nothing:
the second one is there to show just that.

**Bounds.**  Two threads or calls are what the interleavings need: every hazard is a pair (caller
and callback, freeing and allocating call, writer and reader, creator and destroyer).  Five
blocks let one call of five messages proceed while the other waits, fails or is given a block
that was just freed.  A segment of two cells and messages of one cell make a list of four
fit and a list of five overflow the last block.  Two configurations are enough to tell "written"
from "left in place".  `process` has the five entries a creation uses and one of a routine its user
calls later, in three groups, of which two have several followed entries, so that a
missing symbol takes others with it; two successful `dlopen`s let the library be loaded twice.
Its numbers are scaled down: 2 milliseconds to the second, 16 and 8 values for the integers of 32 and
16 bits, a segment size of at least 4 and at most 40, 256 values for the sizes, so that every wrap and every
limit is met by small arguments; the definitions take the real values as well.  The timeouts -1, 3, 11
and 17 become for ever, 1, 5, which a call's field cannot hold, and 8, which `g_timeoutTime` cannot.  Two client handles over
three sets of memory force handles to be reused.

**Fairness.**  `SglCall`: weak fairness of each caller's and each callback's steps, that is,
threads are scheduled and the transport answers every posted request or fails it.
`MsgDispatch`: weak fairness of each worker and each adder, so handlers return; strong fairness
of entering the shared side, as glibc's rwlock wakes the waiting readers when a writer releases
it. Writers are promised nothing: `AddReturns` needs the workers to become idle.
`AsyncCall`: as for SglCall, per operation.
ServerRegistry, ClientMemory and the modules of `process` are checked for safety only.

Deadlock checking is off everywhere: calls are finite in number, users may stop calling, a
handler that adds to its own plane really blocks (`SelfAddBlocks`), and a call through a null
function ends the process (`crashed` of TlsCallbacks).

## 4. What is proved

**MsgDispatch_proofs**, for all planes, workers, users, servers, handlers and ids, from
`ConstantsOK` alone (finitely many workers, disjoint from the users; null values outside the
sets).  The invariant `IInv` adds to the properties what makes them inductive: `Arguments`
(whoever is on the way has its message or request), `Counted` (the shared count of a mutex is the
number of workers inside the plane) and `Owned` (its owner is the thread that is writing, and
excludes readers).  `Counted` is why `TypeOK` holds at all: an `unlock` by a worker decrements the
count, and is never mistaken for the release of an owner.  One lemma per action shows that `IInv`
is kept; the theorems are `TypeCorrect`, `ReadersExcludeWriters`, `OnlyRegisteredRun`,
`IdsBelowLimit` and `SelfAddDeadlocks`.

**AsyncCall_proofs**, for all sets of calls and requests, from `ConstantsOK` alone.  The properties
speak of single states of the callback or of the return, and none is inductive; `Stage` says what
the routine, the transport, the record and the callback are at each control point, with `Posted`
as the part that survives the return of the routine.  One lemma per action shows that `Stage` is
kept for the operation that moves, and `SameStage` that the others do not notice.  From it follow
`TypeCorrect`, `RecordsReadable`, `NoRecordLeaks`, `BuffersSafe`, `OnlyTruthTold`, and `Implements`:
`Spec => KeepsPromise`, the refinement of CallCompletion, step by step.

**SglCall_proofs**, for all calls, threads, requests, blocks and segment sizes, from `ConstantsOK`:
`Implements`, that is `Spec => KeepsPromise`.  Its invariant (`Stage`) says that a callback exists only
for an asynchronous call on which nothing has failed and whose routine has nothing left but to
return, and that `done` is counted exactly when the callback is over.

The second part of the module adds `Shape`, the length of the scatter list and of the lists of addresses
to free at each point of the routine, from which `TypeCorrect` follows: the entry `iov[3]` that long
lists append to exists, and no error path runs past the end of its list.

**SglBlocks_proofs** is about the blocks: who holds which, what is in them and how full they are.  The
premise is `Tame`: calls do not overlap (`Serial`), or every message has data (`Filled`) and the
segment size is one positive constant (`Steady`).  In the first case the error loops of `SetReqInfo`
may free an address again, but nobody has been given the block in between; in the second a copy cannot
fail where such a loop follows.  Neither half can be dropped: `sgl_foreign_free` has two threads and a
segment size that changes, and finds a foreign free.

- `Hold` is invariant (`HoldInvariance`): up to the post, a call owns exactly the blocks of its scatter
  list, each listed once, and the block in its hand; after that what it is still going to free and what
  it is going to leave behind.  `OwnFreesOnly` (`NoForeignFree`) and `OrphansAreExplained`
  (`OrphansExplained`) follow: nothing else gets lost, on any of the error paths.
- `Roomy` (`RoomInvariance`): a block in hand has the size the copies into it assume, and the one that
  is appended to has the segment size.  `BlocksFit` (`BlockFits`) follows.  Both have `Steady` as a
  premise on top, for the copies are limited by the segment size of the moment.
- `Laid` (`LayInvariance`): the k-th block of the list holds the k-th piece of the request, and the last
  one everything that has been packed since, each behind the other.  As by `Hold` no other call has the
  block, no copy of another call can be there: `InFlightStaysIntact` (`InFlightIntact`).  The premise is
  `Filled` and `Steady`: then the only copies that are refused are those into a full block of a whole
  segment (`Roomy`), which clear nothing (`RefusedClearsNothing`).  One thread alone is no premise here:
  while its asynchronous request is in flight, it may make a call with a message without data, whose
  refused copy clears a segment behind a smaller block.

**Startup_proofs**, for all threads, followed entries, numbers of missing symbols and of opens, from
`LoaderConstantsOK`, `LoggerConstantsOK`, `StartupConstantsOK` and `ThreadsExist`.  `Invariance` is
`Spec => []SInv`, and each theorem a consequence.  For the loader (`LInv`), each group has its
length and each entry its place, so the order of loading is total (`EarlierTotal`): whoever meets
a missing symbol has loaded all that comes before it in its group, and drops what comes after it,
which is what the library withholds.  For the logger (`GInv`), `Making` says that the mutex is held
exactly while an object is
made and that nobody sets a level or a handler before there is one; `Agreeing` says that the two
places of the handler agree but while one setting, and one only, is under way.  A creation (`Stages`,
`GapsExplained`) makes a call only once the library is open, and what it skips then follows from
`NullsExplained` at that moment; as the library does not change, it stays explained.  The theorems
are `TypeCorrect`, `OnlyWithheldIsNull`, `OneLogger`, `HandlerReachesLibhcom` and `CreationsWhole`.

**Settings_proofs** has three parts that share nothing, as their modules do.

For TlsCallbacks, for all sets of servers with and without TLS, from `TlsConstantsOK`: `OwnIdentity`, that
is `TlsSpec => []TlsIsOwn`, and `TlsTypeCorrect`.  The property speaks of what was given; `Own` adds
whose functions are in `g_tlsFunc`: at each point of its creation an undisturbed server has the
fields it has written, and between the passphrase and its erasure the eraser.  `Silent` says that
nothing is asked for a server without TLS.  `Undisturbed` is why a step of one server keeps `Own`
for the others: whoever had begun and was touched is in `changed`.

For Timeouts, for all threads, channels, arguments and widths, from `TimeoutConstantsOK`: `TimeoutStays`
(`TimeoutKept`) and `TimeoutsTypeCorrect`.  `TimeoutInv` says that the variable holds what was asked for
the channel it was last written for, that whoever is going to read it, or carries what it has read,
sets that channel or one that has met another, and that each timeout of an undisturbed channel is right
or about to be (`InPlace`).
`SignedFits` and `SecondsHonour` are the arithmetic: a conversion keeps what fits, and seconds
that fit are the milliseconds rounded down.

For MemorySizing, for all sizes, counts, limits and widths, from `SizingConstantsOK`: `MemoryIsAsAsked`
(`MemoryAsAsked`).  The state hardly matters here; the work is in `OptionFulfils`, and in it the number
of tiers.  The prover has no induction, so that `RecursiveFunction` first shows, by least
counterexamples, that a definition by recursion over the natural numbers has a solution.  `Shifts` and
`Tier` are two of them, and `TiersReach` relates the two, by a least counterexample again:
`Tier[Shifts[n]]` is more than n units and the tier before it is not.

**ServerRegistry_proofs**, for all threads, names, servers and configurations, whatever parts of the
options each writes, from `ConstantsOK` (finitely many threads).  `Counted` and `Owned` say who holds
`serviceMutex`, as in MsgDispatch_proofs.  `Private` is why a creation is safe: its server has no
options yet, so that no user has its handle, and libhcom gives the handle to nobody else.
`OptionsOwned`: options that are not the default belong to a server, or are being cleared.  `Alone`
describes a history without mixture: at most one server, one thread at work on it, default options
while it is being created and its own ones afterwards.  The theorems are `TypeCorrect`,
`ListedAreLive`, `NeverDestroyedTwice`, `NothingRemains` and `StartsWithItsOwn`.

**ClientMemory_proofs**, for all clients, sets of memory and calls, from `ConstantsOK` and `Quiescent`.
`Shape` says how the two maps look at each point of a client's life, `Unshared` that no two clients
have the same set, `Orphans` what a set nobody has registered consists of, and `InProgress` that
calls belong to connected clients.  The theorems are `TypeCorrect`, `CallsBacked`, `MapsTogether`,
`LeftBehind` and `UsableOnceConnected`; for the last one `client_memory_reuse` finds the violation
without the premise.

The type invariants of Timeouts and TlsCallbacks are proved and in no run. Every invariant and every
action property of the passing runs is the subject of a theorem, under the premises given above.  Only
model-checked is the liveness (`Completes`, `Dispatched`, `AddReturns`, `Answered`), since fairness and
ENABLED are outside the prover, and the five violations.  The theorems about Timeouts, TlsCallbacks,
MemorySizing and Startup are about each module's own specification, of which `process` checks a
composition without interaction.

## 5. Not modelled, and the plan

Next, in this order:

1. Compositions: MsgDispatch with ServerRegistry (services of destroyed servers), ClientMemory
   with ServerRegistry (a server destroyed before its clients disconnect) and with SglCall.
2. Theorems about these compositions; and of SglCall with a segment size that changes while calls overlap,
   where a weaker form of `InFlightIntact` is left to state.

Differences between code and documentation that the modules show but no run is spent on:

- `OckRpcCallbackFunc` returns without invoking `done` if it cannot read its result (hcom4db.cpp:1220),
  although hcom4db.h:717 promises the call of `done`; `Completes` and `Answered` have this as a premise.
- `hcom4db.h:929` promises timeouts "Millisecond precision" and a default of -1; the code keeps
  whole seconds, so that 999 becomes 0, "return immediately", and the default is 1000 seconds.
- `hcom4db.h:94` and `:102` document 16384 as the default of the segment size and of the segment count;
  the code has 65536 and 1024 (hcom4db.cpp:45-46, for clients at 178 and 188, for servers at 627-628).
  A client that configures neither gets 64 MiB of registered memory where the documentation
  makes 256 MiB, in larger and fewer segments.
- A call carries its timeout in 16 bits, so that more than 32767 seconds become another number.
  Rendezvous lists carry timeout 0 whatever was set.
- `g_connectionType` is never read, `OckRpcServerCleanupCtx` and the thread-local builders do nothing.

Not modelled: messages other than a creation's (text, levels, output), the values of the options that go
to libhcom
unread, the contents of raw messages (a message shorter than its header), argument copying in the
allocator and memory-region routines, the lifetime of request contexts, which libhcom owns, and the
build files.  libhcom itself is external; it appears through its answers.
