# Verification of oatpp

A TLA+ development kept beside the oatpp web framework. It models the parts of
oatpp whose correctness depends on the order in which threads, coroutines and
callbacks act, and the pure parts whose correctness depends on how data is cut
into pieces; it checks them with TLC on small instances, and proves the most
important facts with TLAPS for every instance.

All source paths are relative to the repository; the framework lives in
`src/oatpp` there (`src/src/oatpp` as seen from this project's parent).

## 1. Inventory of the system

| Component | State | Operations | Interacts with | What makes it correct |
|---|---|---|---|---|
| `async::Lock`, `LockGuard` | mutex, counter, wait list, `m_ownsLock` | lock, unlock, try_lock, lockAsync, onNewItem | processor (sleep/wake), wait list | mutual exclusion between coroutines and threads; exact counter; no lost wakeup; everybody is served |
| `async::Processor`, `CoroutineWaitList` | run queue, push list, submissions, sleep sets, three kinds of lock, the sleep-checker thread | execute, iterate, pushTasks, put to sleep, wake, time out, stop | workers, wait lists of Lock / ConditionVariable / Pool / Pipe | a coroutine has one owner at a time, none is lost, no deadlock, stop returns |
| `async::ConditionVariable` | notified flag, wait list | wait, waitUntil, waitFor, notifyFirst, notifyAll | Lock, Processor | a notification under the lock is never lost; a timeout always ends the wait |
| coroutine stack (`Coroutine.cpp`) | `_CP`, `_FP`, parent chain, scheduled action | iterate, takeAction, CoroutineStarter::next | Processor | every coroutine and error is freed once, the caller continues where it said |
| `async::Executor` and workers | worker threads, queues, backlog, epoll registrations | execute, stop, join, timer/IO/IO-event runs | Processor | a coroutine is held in one place; no event is missed; stop returns |
| `provider::Pool` | bench, counter, running flag, wait list | get, getAsync, release, cleanup, stop | provider, Processor | never more than the maximum; a free slot or object reaches a waiter |
| `data::buffer::FIFOBuffer` | read/write positions, can-read flag | read, peek, write, commit, flush, stream variants | streams, virtual pipe | a bounded FIFO sequence of bytes |
| `network::virtual_` pipe, interface, socket | FIFO, open flag, condition variables, wait lists; listener and pending submissions | read, write, close; bind, connect, accept | Processor, FIFOBuffer | bytes in order, no lost wakeup, end of stream seen; every connect is answered |
| `network::Server` | status | run, stop | connection provider, handler | one loop; the status only moves forward; stop ends run |
| connection handlers (`HttpConnectionHandler`, async twin) | connection registry, continue flag, counter | handleConnection, task start/end, stop | HttpProcessor, Executor | no connection outlives stop; the registry is exact |
| `network::monitor::ConnectionMonitor` | proxies, stats, checkers, thread | get, monitor task, stop | connection provider | an overdue connection is invalidated, a dead proxy is never touched |
| `network::tcp` | descriptors, `m_closed`, I/O mode | get, stop, connect, set mode | the kernel's table of descriptors | one holder closes a descriptor, once |
| `web::server::HttpProcessor` | per-connection state | processNextRequest, coroutine twin | router, body decoder, interceptors | one response per request, keep-alive obeyed |
| `RequestExecutor`, retry policy, connection handle | attempts, invalidation | execute, getConnection, retry | Pool or provider | an answer to one's own request; a dead connection is not reused |
| HTTP text (`Http.cpp`, headers readers) | caret, buffer | read and parse heads, ranges, parameters | streams | heads arrive as written, over every split |
| buffer processors, chunked coding, body decoding | inline read/write data, state | iterate, suggestInputStreamReadSize | streams | decode(encode(x)) = x for every split; the next message is left alone |
| streams (`Stream.cpp`, buffered proxy, memory streams) | inline buffers | read/write exact size, transfer | callbacks, processors | every byte transferred once |
| URL mapping (`Pattern`, `Router`), `ApiClient`'s paths | list of patterns | parse, match, route; format | HttpProcessor | first matching endpoint, exact segments; a call's parameters arrive |
| multipart parser and readers | state, boundary index | parseNext | HTTP body readers | any split of the input gives the same parts |
| `Environment`, components | registry of components, object counters | registerComponent, unregister, get | everything | lookups find living components; counters agree |
| content mappers, header maps, encodings | registries, lazily copied labels | register, select; put, get; encode, decode | HTTP, streams | the preferred type; every pair kept in memory of its own; round trips |
| object trees, mapping, JSON | nodes with owned data; configs | map, serialise, parse, escape | ObjectMapper | round trips; one owner of each node |
| DTO macros, ORM, API glue, logging | none over time | - | - | - |

Hard behaviours, in the order in which the models take them up: interleavings
between a processor thread, its sleep checker and notifying threads (lock order,
double scheduling, lost wakeups); stop racing everything else; timeouts racing
notifications; failures of one step of several (a provider's `get`, a
coroutine's error path, a body that breaks off); a pooled connection that has
died; data cut at any byte; ring buffers and counters at their limits.

## 2. Files

| Module | Models | Proofs | Runs |
|---|---|---|---|
| `AsyncLock` | `async::Lock`, `LockGuard`, the wait list of a lock | `AsyncLockProofs` | `MCOwnership` |
| `CriticalSection` | what the lock promises (abstract) | refined by `AsyncLock` | `MCOwnership` |
| `AsyncProcessor` | `async::Processor`, `CoroutineWaitList`, `SubmissionProcessor::run`, workers as one action | `AsyncProcessorProofs` | `MCProcessorUntimed`, `MCProcessorTimed`, `MCProcessorLockOrder`, `MCProcessorDoubleSchedule`, `MCProcessorStop` |
| `ConditionVariable` | `async::ConditionVariable` | `HandoverProofs` | `MCWaiting` |
| `ResourcePool` | `provider::Pool` | `HandoverProofs` | `MCWaiting` |
| `VirtualPipe` | `network::virtual_::Pipe`, the exact-size transfers of `data::stream` | `NetworkProofs` | `MCWaiting` |
| `VirtualInterface` | `network::virtual_::Interface` and its two connection providers | in the module | `MCWaiting` |
| `FIFOBuffer`, `BoundedFIFO` | `data::buffer::FIFOBuffer`; what it promises (abstract) | `HandoverProofs` | `MCParts` |
| `HttpServer` | `network::Server`, `HttpConnectionHandler`, `AsyncHttpConnectionHandler` | in the module | `MCRuntime` |
| `CoroutineStack`, `CallStack` | `Coroutine.cpp`; a call stack (abstract) | `LifetimeProofs` | `MCParts`, `MCCoroutineError` |
| `AsyncWorkers` | the timer, naive and epoll workers, `Executor`'s linking, stop and join | `AsyncProcessorProofs` | `MCRuntime` |
| `FastQueue`, `EntryQueues` | `utils/FastQueue.hpp`; queues of entries (abstract) | `AsyncLockProofs` | `MCParts` |
| `ConnectionMonitor` | the monitor, its proxies and checkers | `NetworkProofs` | `MCRuntime` |
| `HttpWire`, `HttpProcessor`, `HttpRequestExecutor`, `HttpConversation` | a connection's contents, the server's task, the client's executor, and both composed | `HttpConversationProofs` | `MCHttpConversation` |
| `Caret`, `UrlPatterns`, `HttpText` | the caret of the parsers; URL patterns, routers and `ApiClient`'s paths; heads and header values | - | `MCParts` |
| `StreamTransfer` | transfer, the buffered proxy, processors and chunked coding, body decoding | - | `MCParts` |
| `MemoryStreams` | `BufferOutputStream`, `BufferInputStream`, `FIFOInputStream` and how they grow | `NetworkProofs` | `MCParts` |
| `ContentMappers`, `LazyStringMap` | the registry of object mappers; the maps of headers and parameters | `NetworkProofs` | `MCParts` |
| `Encodings` | Base64, Hex, Url, the Basic header | - | `MCParts` |
| `Multipart` | the multipart body, parser, part readers | - | `MCParts` |
| `Environment` | components and object counters | `LifetimeProofs` | `MCParts` |
| `TcpConnections` | TCP providers and connections over a table of descriptors | `NetworkProofs` | `MCParts` |
| `TreeNodes` | `data::mapping::Tree` as memory | `LifetimeProofs` | `MCOwnership` |
| `ObjectMapping`, `JsonMapper` | types, values, objects to trees; trees to JSON, the paths without a tree, the whole mapper | - | `MCParts`, `MCJsonNulls` |
| `JsonStrings` | escaping and finding strings, Unicode | - | `MCParts` |

Each model is a module with its constants, one action per operation or per step
between two accesses to shared state, a next-state relation, and fairness where
liveness is claimed. An `MC...` module gives the constants small values;
`AsyncProcessor` needs none, its configurations say it all. `MCWaiting`, `MCRuntime` and
`MCHttpConversation` extend the modules whose parts they run, so that what they check is the
very definition that the proofs state; names are therefore told apart by the component
(`PoolInit`, `ConditionNext`, `InterfaceSpec`). `PROJECT.json` maps every
definition to the lines that it translates.

How the modules rely on each other: `ConditionVariable` takes from `AsyncLock`
that the lock is exclusive and serves everybody (`Exclusion`, `AllServed`);
`VirtualPipe` takes its `m_fifo` as the bounded queue that
`HandoverProofs!Refinement` shows the buffer to be; `AsyncLock`,
`ConditionVariable`, `ResourcePool` and `VirtualPipe` take from
`AsyncProcessor` that a sleeping coroutine comes back once for each wakeup (which
holds for untimed waits; timed waits have the finding of section 6);
`AsyncWorkers` takes the processor as its environment and `AsyncProcessor` the
workers (`WorkerReturns`). `HttpConversation` composes client and server over
connections that may break; it takes a body as one, two or three pieces, which
`StreamTransfer` justifies, and a head as one token, which `HttpText` justifies.
`UrlPatterns` and `HttpText` extend `Caret`; `JsonMapper` extends `ObjectMapping`.

## 3. The models and the code

**AsyncLock.** State: `mutex`, `counter` (`m_counter`), `list`, and for each
processor the coroutine it iterates and the point it has reached. A processor's
`try_lock`, the counting, `waitAsync`, the insertion in the sleep set, the
insertion in the list and the listener's `onNewItem` are separate actions, so a
thread's `unlock` can fall between any two of them; `unlock` itself is three
steps (release, decrement, notify), because the code releases the mutex first.

**AsyncProcessor.** Five kinds of actor: the processor thread
(`SubmissionProcessor::run`: `waitForTasks`, `pushQueues`, `iterate`), the sleep
checker, notifying threads, the clients that `execute`, and the thread that
stops the executor. `m_taskLock` guards short leaf sections that are single
actions. `m_sleepMutex` and the list's `m_lock` are explicit because
they nest in both orders. What a coroutine does in an iteration is any element of
`Outcomes`: go on, finish, go to a worker, or wait. `WorkerReturns` is whatever a
worker does with what it was given.

**ConditionVariable.** The clients are those of the repository's own test: items
are added under the lock and waiters wait for an item. `WaitCoroutine::act`,
`onLocked` with its two outcomes, insertion, listener, time-out (which locks again
before it reports) and the notifier's two steps (set `m_notified`, notify) are
actions.

**ResourcePool.** `m_lock` covers each step, notifications come after it in
actions of their own. Blocking `get` and `getAsync` share the counter and the bench;
the cleanup task's scan, its clearing when the pool stops and its final
notification are separate. The provider may fail (`MayFail`), a wait may end
with its time (`HasTimeout`). `unannounced` records that a slot was given back
by a failed `get`, which tells nobody: what is promised about waiters
holds as long as that has not happened (section 7).

**FIFOBuffer.** The ring with its two positions and `canRead`; every public
operation with any argument, and streams that take or give any part of what they
are offered, or an error. `call`, `data` and `result` record the last call, and
the abstract queue is the cyclic piece of memory between the positions.

**VirtualPipe.** A reader and a writer run the exact-size loops of
`Stream.cpp`, each as a thread (condition variable) or a coroutine (wait list); `mode`
covers all four combinations. What happens under `m_mutex` is one action; the
notification of the condition and of the list follow in one action each.
Anybody may `close()`, in five steps, several times.

**VirtualInterface.** Clients connect from threads (`getSocket` blocks) and from
coroutines (`connectNonBlocking`, then polling); the server's main loop accepts;
`stop()` unbinds, drops and invalidates one submission after another; a new
provider may bind afterwards. The history variable `arrived` is the order of the
submissions.

**HttpServer.** `run()` in its three ways, both main loops step by step (they
change `m_status` without the mutex, and so the model does), `stop()`, and the
task registry of both connection handlers: `handleConnection` looks at `m_continue`
without a lock, the task registers itself later, `stop()` goes over the
connections once and then waits until there are none.

**CoroutineStack.** `takeAction` turn by turn over one handle. The coroutines' code
is the environment: it returns any action that its class lets it build, starts one
coroutine or a chain, calls for a result, throws. An action owns the coroutine or
error it points to; `freed` and `disposed` count the deletions. A function pointer
carries its coroutine, as if every coroutine were of a class of its own. The
refinement of `CallStack` maps the parent chain to frames and "an error is in hand" to
`failing`. `HandlerRepeats` says whether a handler may answer an error with `repeat()` or
a wait: where it may, the finding of section 6 appears, so the passing run excludes it.

**AsyncWorkers.** One coroutine hands itself from the processor to the timer, the
naive worker or the event workers and back by the actions it returns. Backlogs and
queues are explicit; an event worker takes its backlog, changes its registrations
(`epoll_ctl`), waits, and goes over the events, and a new event may arrive between any
two of these. `epoll` holds what is registered, armed (one-shot) and triggered. Stop
wakes and joins worker by worker.

**FastQueue.** The three members `first`, `last`, `count` and the `_ref` of each entry,
with old links left behind as the code leaves them. `EntryQueues` is the abstract
specification. An entry that is pushed is in no other list (`Detached`): the code's callers
take a coroutine out of one list before they give it to the next, and an entry has
only one `_ref`.

**ConnectionMonitor.** A proxy is constructed, registers, reads and writes (which
collects statistics under its own mutex) and is destroyed in steps; the monitor's
thread runs rounds over raw addresses under the monitor's mutex. Ages and silence are
abstracted to membership in `aged` and `quiet`.

**TcpConnections.** The process's descriptor table is a variable: a closed number is
given out again, so a stale number is a different connection. The server's `get` looks
at `m_closed`, selects, accepts and sets the mode in separate steps; any number of
callers of `stop()` (the destructor is one) test `m_closed`, set it and close the handle in
three. Two that test before either sets do close twice, and the second takes whatever has
the number by then: `stopsRaced` remembers that it happened, and `DescriptorsOwned` speaks of
behaviours in which it has not (section 7). The run does not go on from such states, in which
a connection may hold a number that is not open. The client walks the addresses of a host, blocking or as a coroutine
whose descriptor is a member while it waits.

**HttpWire, HttpProcessor, HttpRequestExecutor, HttpConversation.** A connection is two
queues of tokens: heads, pieces of bodies, last chunks. The server's blocking task and its
coroutine are two variants of one state machine (`Variants` picks one for each side); request
interceptors, endpoint, response interceptors and errors are user code that may
do anything. The client's executor takes a connection from the pool or a new one, sends,
reads, retries and puts the connection back. Connections break at any time. A head
carries the request and the attempt it belongs to, which only properties look at. What
nobody has read of a body stays on the connection. `readHeadersSectionIterative` takes
everything up to an empty line for a head, so pieces that were left come before the next head
and spoil its first line, while the last chunk, `0` and an empty line, ends a head of its own
(`HeadAt`): the rest of a chunked body that an endpoint did not read is answered like a
request. `strayed` remembers the connections where it was, `littered` those that the
executor gave back with an exchange unfinished; `AnswersOwnRequest` leaves both out, since on
both the executor takes somebody else's answer for its own (section 7). The heads of this
module are within the size limits, which are `HttpText`'s.

**StreamTransfer.** A body goes through two transfers (sender and receiver), each a
blocking loop or a coroutine, each with short reads and writes; the receiver reads through
the proxy that took the head. Bodies are chunked, counted, closed or piped. The wire
carries the next message behind the body.

**Multipart.** The body's stream in pieces of any size, the parser state by state, the
readers of the parts with a limit of size. The parser throws when the headers of a part are
longer than it takes, in both places where it looks. A part without a name goes to the reader
of the part before; a first part has none then, which the blocking parser passes over and
the coroutine calls all the same (`CallsNoReader`, status `"crashed"`).

**Caret, UrlPatterns, HttpText.** Texts are sequences of characters; every operator returns
the caret as the method leaves it. A request's URL grows one character at a time, and is
routed at each length. A client's call (`Call`) takes a registered pattern as its template,
with a query of its own or without (`Extras`), fills it in as `StringTemplate::format` does,
adds the query parameters, and the path is routed and its query parsed again
(`CallArrives`, a conjunct of `UrlsRouted`): the templates of `API_CALL` and the patterns of
`ENDPOINT` are parsed by different code and have to mean the same. A message is written, cut and read at every place; values with a
grammar (ranges, content ranges, lists) are written and read. Only the reader of requests
refuses a head that is too long: the other tests a `progress` that is never advanced.

**MemoryStreams.** A text is composed, handed over as a whole and passed on through the
FIFO stream, with initial sizes below and above the stack buffer and with sizes that
overflow a number of `Width` bits, where a write throws and leaves the text alone. The
bytes are numbered, so a stale one is told from a fresh one.

**ContentMappers.** The two maps and the default, changed in any order, and the choice for
any header of up to two elements as the header's parser splits them. What an unordered map
gives first is any of its members. `latest` remembers the last mapper of each type.

**LazyStringMap.** Two maps, plain or multi, of labels that are a part of a text or own
their memory, through puts, captures, copies and moves.

**Encodings.** Data are encoded, may lose their end or gain separators, and are decoded;
an escape at the end of the text reads the string's NUL.

**ObjectMapping, JsonMapper.** A typed object is mapped
to a tree, the tree to tokens and back, with and without the paths that bypass the
tree, under the combinations of the options; `damage` cuts or changes a token on the
way. `JsonStrings` does the same for the bytes of strings: the size computed, the
escapes written, the closing quote found, the text unescaped.

**TreeNodes.** A heap of containers by address: a node keeps its type and a word, which is
the address of the container it owns; a place is a variable or a child by container and
index. Copies take any free addresses, deletion takes a container with all below it (the
least set of containers closed under ownership, so that no recursion is needed), the order
of a map is a list of addresses into it. Two trees say the same when a renaming of addresses
leads from one to the other. A copy or move between nodes of which one is in the other
is left out: the code deletes the old value first.

**Environment.** Components register in their constructors and leave in their
destructors from any thread; counters of objects are moved in the two steps of the
code.

## 4. Runs

Every run is exhaustive. Times are for two TLC workers.

| Run | Instance | Distinct states | What it shows |
|---|---|---|---|
| `MCOwnership` | 3 coroutines on 2 processors, 1 thread, 2 rounds each (71,312); 2 trees, 2 containers of 1 child (10,620) | 81,931 | exact counter, no lost wakeup, critical section implemented, everybody served; one owner for each container, copies and moves that say what their source said |
| `MCProcessorUntimed` | 2 coroutines, 2 notifiers, stop, `numIterations` 2 | 871,028 | one owner for each coroutine, tasks counted, sleepers reachable |
| `MCProcessorTimed` | 2 coroutines, 1 of them timed, no notifier | 67,239 | timed waits end, work is taken up |
| `MCWaiting` | pipe (12,500), condition variable (12,800), pool (9,300), interface (28,100) | 62,739 | order, no lost wakeup, an exact pool, both ends of a virtual connection agree; transfers, waits, clients and stops end |
| `MCParts` | fifteen parts, one at a time (below) | 822,883 | eleven safety properties, three of them refinements |
| `MCHttpConversation` | 2 connections, up to 2 requests, 1 retry, seven variants of the two sides | 357,191 | answers go to their own request, dead connections are not reused, one answer for each head and each rest of an unread chunked body, what is announced is done, exchanges end |
| `MCRuntime` | server (30,600), workers, monitor | 85,348 | one loop, no valid connection after stop, one holder for each coroutine, no dead proxy visited; events are seen, overdue connections invalidated, stops return |
| `MCProcessorLockOrder`, `MCProcessorDoubleSchedule`, `MCProcessorStop`, `MCCoroutineError`, `MCJsonNulls` | 1 coroutine; one coroutine stack; the JSON objects | - | the findings of section 6 |

The parts of `MCParts`: ring buffer 2,350 states, coroutine stack 8,528, queues 142,
JSON 31,342, strings 6,789, transfers 290,288, multipart 16,258,
environment 15,671, TCP 203,859, URLs 14,222, heads 1,184, memory streams 23,027, content mappers
74,447, string maps 12,588, encodings 122,188.

**One part at a time.** `MCParts`, `MCWaiting` and `MCRuntime` hold components that do not
interact. A behaviour is one part's, chosen by `which` in the first state, so that a run
explores the sum and not the product of the state spaces. In `MCParts` the parts whose
properties are not proved take turns in the slots `v1`, `v2`, ... (the `WITH` of an instance says
which variable is in which slot), unused slots are 0, and an invariant `which = "x" => X!P` speaks
of its part alone; the proved ones have variables of their own. In `MCOwnership` the trees
come after the lock: they begin when everybody has been served, where none of the lock's
fair steps is enabled. Runs
with liveness do so for every part, and a part that is not chosen rests
in a state in which none of its fair steps is enabled (`PipeRests`, `WorkersRest`, ...), so that
the fairness of one part says nothing about the behaviours of another.

Why these bounds are enough to be worth running: two coroutines and two
notifiers are the least for one to overtake the other in a list, in a queue and
between a look and an insertion; a third coroutine in `MCOwnership` gives two
sleepers while a third client holds the lock. A ring of three bytes has every
relation of the two positions (equal, apart, wrapped, at the end of the memory),
and arguments of four are longer than what it holds. Seven bytes through a pipe of two
go around its buffer, and the writer has more than reader and pipe together take, so that
only a close ends it. One pooled resource makes every second request
wait. Two callers of `run` allow a second loop to start while the first ends, and one
connection (`Arrivals`) a task to be registered before, while or after the handler stops.
Two callers of the TCP provider's `stop()` let one come in between the steps of the other.
The messages of `Multipart` have a part that is too long for the parser's limit of headers
and a first part without a name. Three coroutines
are a caller, its callee and one chained behind it. Bodies of up to five bytes contain the
end of a chunked body as data and are cut at every place by buffers of four and two;
parts contain every prefix of the boundary. Two descriptors let a closed number come back
while an old copy of it is about. Two proxies let one be destroyed while a round is at
the other. The monitor of `MCRuntime` has one proxy while checkers and collectors are still being
added, or two once they are there (`MonitorStarts`). One retry on a second connection is the least for an answer that goes to an attempt already given up. URLs
of five characters are longer than any pattern's constant part. With two variables and two containers there are trees side by side, a container in
another, and copies that take an address just given back; a map of two keys is left to the
proof. Where a proof exists
the bound matters no longer for the property proved.

`CHECK_DEADLOCK FALSE` is set where the system may rest: a transfer, a call or a
client's requests have come to their end (`MCWaiting`, `MCParts`, `MCRuntime`,
`MCHttpConversation`), and in two of the runs that show a finding. Everywhere else a
deadlock is reported. Where clients get through with their work, `Finished`
(`AsyncLock`) and `Quiescent` (`AsyncProcessor`) name the states in which nothing is
left to do.

No passing run has a timeout that races a notification: with both, `AsyncProcessor` goes
wrong in the ways of `MCProcessorLockOrder` and `MCProcessorDoubleSchedule`, so the passing
runs have timed waits without notifiers or notifiers without timed waits.

Every property of a passing run has a mutant in `PROJECT.json`: a definition of
the model changed the way a slip in the code would change it, under which the
run fails.

### Fairness

- *Threads run* (`WF` on each thread's step). The operating system schedules them.
- *A mutex that is released again and again is got* (`SF` on the locking steps of
  `AsyncProcessor`, `ConditionVariable` and `ConnectionMonitor`). `std::mutex` promises
  no order; without this a notifier, the checker or the monitor may starve, which is no
  statement about oatpp.
- *A backlog's `try_lock` succeeds once in a while* (`SF(NaiveLooks)` of `AsyncWorkers`):
  the naive worker looks at it at fixed intervals and others hold it for a moment.
- *A queued coroutine is run* (`SF_vars(Dispatch(c))` of `AsyncLock`): the
  processor's queue is first in, first out.
- *The clock advances*, time passes for a timer's coroutine, and holders give back what
  they hold (`Release` of the pool; the test's clients unlock).
- *An invalidated connection ends its task* (`HttpServer`): reads and writes on it
  fail, so the loop of the task ends. Nothing is assumed of a task whose
  connection is valid, of an open provider that has no connection, of an event of
  the network, or of anybody who might call, stop, close or notify but need not.
- *Both sides of an exchange run when they can* (`HttpConversation`); a caller that has
  made its requests may rest, and nobody has to make one.

## 5. Proofs

All proofs hold for every value of the constants within the stated assumptions
and are checked by tlapm down to the leaves.

| Module | Theorems | Assumptions |
|---|---|---|
| `AsyncLockProofs` | `TypeCorrect`, `Exclusion`, `SleepersAreListed`, `CounterIsExact`, `WakeupsNotLost`, `Refinement` | clients, processors and the `NoOne` value are distinct; finitely many clients |
| | of the lists `QueuesKept` | `QueueConstants`: the null pointer `NoEntry` is no entry |
| `AsyncProcessorProofs` | of the processor `TypeCorrect`, `OneOwner`, `TaskCountExact`, `SleepersNotLost`, `ListedAreAsleep` | no timed waits (`Timed = {}`): with them `SingleOwner` is false, as section 6 shows |
| | of the workers `HeldByOne` | - |
| `HandoverProofs` | of the pool `TypeCorrect`, `CountsResources`, `KeepsNothing`, `SlotsReachWaiters`, `PoolIsSound` | `PoolConstants`: finitely many clients, threads and coroutines distinct, limits natural |
| | of the condition variable `NoWakeupIsLost` | `ConditionConstants`: finitely many waiters and notifiers, distinct, `NoOne` is neither |
| | of the ring buffer `BufferTypes`, `NothingLost`, `SizesAreExact`, `Refinement` | size positive; arguments are byte sequences |
| `LifetimeProofs` | of coroutines `StackIsSound`, `OwnedAlways`, `CallsNestAlways`, `HandleIsCallStack` | `StackConstants`: at least one coroutine, natural bounds |
| | of components `EnvironmentIsSound` | `EnvironmentConstants`: finitely many threads |
| | of trees `TreesAreSound` | `TreeConstants`: natural bounds, a leaf type has no container, the kinds that are set are those of containers |
| `NetworkProofs` | of the pipe `TypeCorrect`, `Order`, `WakeupsNotLost`, `EndOfStream`, `PipeKeepsItsPromise`, `ClosedForGood` | sizes and limits positive, the reader wants no more than is sent |
| | of the monitor `NoDeadProxy`, `StatsMutex`, `NoMetricLeaks`, `ProxiesKept` | - |
| | of TCP `DescriptorsAreOwned` | `TcpConstants`: descriptors are positive numbers, coroutines are among the clients, who are neither provider nor server |
| | of streams in memory `StreamsAreSound` | `MemoryConstants`: sizes are natural numbers, and the sums of sizes are at most the first power of two that overflows a number of `Width` bits (beyond it the sum itself would) |
| | of the maps of headers `HeaderMapsAreSound` | - |
| | of mappers `MappersAreChosen` | `ContentConstants`: `NoMapper` is no mapper, qualities are in 0..1000 |
| `HttpServer` | `TypeCorrect`, `SingleLoop`, `NoValidTaskLeft`, `TasksWaitedFor`, `ThreadJoined` | the server's own thread is not a caller of `run` |
| `HttpConversationProofs` | `ConversationTypes`, `AnswersAreOwn`, `ClosedAreLeft`, `HeadsAreAnswered`, `AnnouncedIsKept` | `ConversationConstants`, below |
| `VirtualInterface` | `SubmissionsAreKept`, `BothEnds`, `ServedInOrder`, `InterfaceIsSound` | `InterfaceConstants`: `"none"` is no client, `Restarts` is a natural number |

`ConversationConstants` says, beside types, three things about user code. A response that
throws while it is sent is encoded in chunks: a body of known size is in memory
(`BufferBody`), only one that reads from a callback can throw. A response of user code is not
the very record `ErrorResponse`: the properties have to tell the error handler's answer from
an endpoint's, and user code may still make responses that differ from it in any field. And
the values that stand for no request, no tag and no connection are nothing else.

The inductive invariants:

- *AsyncLock*, `IInv`. Exclusion does not follow from itself: one has to know that a
  processor iterates a coroutine of its own (`RunningOwn`), that `m_ownsLock` is
  what the point in the code says (`OwnsByPc`), that nobody but the holder is
  between lock and unlock (`HolderInside`) and that a coroutine is in one
  place only (`OnePlace`), since a sleeping coroutine that were also queued
  could lock twice. Counter and wakeups are preserved on top of `IInv`, by
  lemmas of their own. `Refinement` maps the section to `Inside`; the release of
  the mutex is the abstract `Leave`, the last round the abstract `Withdraw`.
- *AsyncProcessor*, `IInv`. The places where a coroutine can be (queues, push list,
  submissions, sleep set, wait list, worker, the hands of a notifier or of the
  processor) are counted, and the count is one for a coroutine that lives
  (`OwnedOnce`). That is inductive only with `Placement`: what each actor holds at each
  point, who has which of the two mutexes, and that a listed coroutine sleeps or is about
  to. The task counter is the number of the living.
- *ResourcePool*, `IInv`. The counter is the number of clients that hold or make a
  resource plus the bench (`Exact`). For the waiters two balances: while a thread is
  blocked, each free slot is matched by a thread that will look or by a notification
  still due (`ThreadsOffered`), and the same for the wait list, where a woken coroutine may
  owe a call of `onNewItem` to those behind it (`CoroutinesOffered`). Both need that
  no failed `get` has given back a slot in silence (`unannounced`).
- *ConnectionMonitor*, `MonitorInv`. The addresses that the monitor has collected are of
  proxies that are still registered, because a proxy's destructor needs the mutex that
  the round holds (`AddressesLive`), and every metric datum belongs to a collector
  (`DataOwned`).
- *VirtualInterface*, `IInv`. The queue is the end of the sequence of those who arrived,
  and whoever is before it is decided, except for the last one while `accept()` holds it
  (`QueueInv`): from this the order follows, and that nobody is in two places. A client
  in the hands of `accept()` is valid and waits (`ClientInv`), because `accept()` and
  `dropAllConnection()` exclude each other by `m_mutex` (`MutexInv`); without that a client
  could be invalidated between `setSocket()` and the server's socket.
- *FIFOBuffer*, `Inv`. Types and "`canRead` is false only when the positions are
  equal". From it the size lemmas (`ReadBounds`, `WriteBounds`), and from these
  that each operation takes bytes from the front or appends them at the back of the
  cyclic content (`TakeFront`, `AppendBack`), which is what the abstract queue does.
- *VirtualPipe*, `Inv`. Type, order, "a side that was told BROKEN_PIPE met a closed
  pipe" and the wakeup condition: a side that waits although it could go on has a
  notification of the condition or the list still due.
- *HttpServer*, `Inv`. Who may be where for each value of `m_status` (`LoopInv`),
  that `m_threaded` tells the truth about the server's thread (`ThreadInv`), and
  that every serving task is registered and invalid once `stop()` has passed
  (`HandlerInv`).

- *ConditionVariable*, `ConditionInv`. While there are items, either somebody is on the way
  for each of them (about to look, to tell, or with a listener about to), or the flag is up
  and whoever is listed has a listener that will see it (`SomebodyComes`). A waiter clears
  the flag under the lock when it looks, a notifier raises it before it notifies
  (`FlagTellsOfItems`); without that the item added between a look and an insertion would
  find neither. `NotificationKept` counts only those who are listed and follows by
  arithmetic on the three cardinalities.
- *FastQueue*, `QueueInv`. Each list is linked from `first` to `last` as the sequence of its
  entries says and ends there (`Linked`), and no entry is at two places (`Apart`), so that a
  link written for one list changes no other. The sequence is the walk itself: that a walk
  along the links of a sequence gives the sequence (`WalkMeets`) is the one induction over
  data that was needed, and is proved by the least number at which the two would differ.
  `Operated` then has one lemma per operation, and `QueuesKept` is the refinement of
  `EntryQueues` together with what the ends and the count have to agree with.
- *CoroutineStack*, `StackInv`. The calls are a sequence `s` without repetition, each
  entry's `_parent` the next one (`Called`); the recursive walk `Stack` is that sequence
  (`CallsAre`). Every coroutine has one owner: `s`, the action in hand, or the return action
  of another coroutine (`Owned`), and whoever has none is unborn or was freed once. "Freed
  exactly when nothing reaches it" is not inductive by itself: one has to know that return
  actions share no coroutine, that only who is called or in hand has another behind
  it, so that a chain has two members at most (`ChainIs`), and that who was started for a
  result runs under the one who asked and has nobody behind it (`Answering`). Lemmas over
  constants say what each operation does to these (`Started`, `CallTaken`, `Returned`,
  `HandFreed` ...) and to the frames (`FramePushed`, `FramePopped`, `FrameGoes`); one
  lemma per action combines them.
- *Environment*, `EnvironmentInv`. The registry has each registered component under its
  label and no other one, so a destructor that runs takes away its own entry only, and a
  constructor that throws takes away none (`RegistryKept`). `init()` sets counters to
  zero, and that loses nothing because nobody has made anything before (`NewIsFresh`). The
  counters are sums over the threads, which the community modules define by a fold: that the
  sum over a finite set is that of one element and of the rest, whichever it is, is
  proved first, again by a smallest counterexample.
- *TreeNodes*, `TreesSound`. "One owner in reach" is not inductive: deletion and copying
  speak of all that is below a node. `Held` is the function from the places that own a
  container to that container, and `Shaped` says that it is injective, never leads to the
  variables, and that a set of containers that has the variables and is closed under it has
  all. From this, without recursion: what is below a node is a tree of its own (`Rooted`) that
  only its root leads into (`OneWayIn`); two places apart have nothing in common below
  them; to cut such a tree off leaves a `Shaped` heap, and to put one on makes one. Each
  operation is a cut, a tree that comes from somewhere (new, copied, or cut off elsewhere),
  and a place to put it. That a copy says the same is the renaming of addresses read
  backwards (`CopySays`), that the others say what they said is a frame lemma (`SaysByFrame`).
- *TcpConnections*, `TcpInv`, as long as not `stopsRaced`. Who holds a descriptor is one of
  provider or `stop()`, call or connection (`HeldOnceOnly`), and every number a holder
  remembers is one in the table (`HandlesKnown`), since the kernel gives out the lowest number
  that is free: a stale copy is that of a stranger. At most one `stop()` is between its test
  and the end, and `m_closed` says on which side of setting it; any others may come before,
  between the later steps, or after, and do nothing.
- *MemoryStreams*, `OutputInv` and `InputInv`. The memory before the position is the text,
  byte for byte, and memory is on the heap exactly when it is longer than the stack buffer.
  A reservation throws before anything changes, also when `nextP2` overflows, or gives at
  least what is needed and no less than there was (`ReserveFits`). What came out, what the ring has and
  what is left of the input stay the same sequence when bytes pass from one to the next.
- *LazyStringMap*, `LazyInv`. The pairs of a map are those that were put, told apart by the
  number of their put (`MapHolds`): a capture replaces a pair by one of the same number and
  texts, so the count, which `PairsKept` is about, cannot change. The flag says that no pair
  is a part of a message; `get` captures one value and leaves it as it is, which is sound
  because it only ever adds owners.
- *ContentMappers*, `RegistryInv` and `AnswerInv`. Whatever is registered is under its own
  type, and the map by content types is a part of the index. Then the index offers
  something for a range exactly if something that is registered serves it (`IndexServes`),
  also where the default is taken for a range of a whole type, and the choice follows from
  the order in which tokens and parameters are looked at (`BestChosen`). That qualities are
  at most 1000 is needed: a range without a quality is taken at once, and would be before
  one with a quality above 1.
- *AsyncWorkers*, `WorkersInv`. A coroutine occurs once in all backlogs, queues,
  registrations and hands together. That each worker finds it where it looks needs that a
  registration is enabled only while its event is not yet reported (`OneShot`, EPOLLONESHOT), and
  that whoever is pushed to an event worker, or popped from one, carries the action of the
  worker it is going to (`ComeForTheirEvent`). The case distinction of the worker an
  action is for was at first a `CASE` with guards that overlap, of which the proof
  can know only one; it is the `if`-chain of the code now.
- *HttpConversation*, `ServerInv` and `WireInv`. What a task of the server knows at each of its
  points: a request with its own tag until it is answered (`Asked`), a response that comes of
  it (`Formed`), a connection state that agrees with what was announced (`Settled`, `Kept`).
  This gives `HeadsAreAnswered` and `AnnouncedIsKept` for any client, the one that sends
  ahead included; a head there is what the server takes for one, the rest of a chunked body
  included. `AnswersAreOwn` needs the wire: a connection on which no exchange was left
  unfinished and no such rest was answered carries one request at a time, the heads that may come back on it are those of
  the attempt at hand, and whatever the provider keeps is quiet (`WireInv`). A step of
  either side either takes tokens from the front and begins nothing (`Calm`), or is
  one of the few that write; for the first kind one lemma shows that the invariant of the
  connection is carried over.

The conjunctions that the runs check (`PipeIsSound`, `ProxiesAccountedFor`, `PoolKeepsCount`,
`InterfaceAgrees`, `WakeupsKept`, `HeldOnce`, `DescriptorsOwned`, `ListsAreQueues`,
`CoroutinesOwned`, `ComponentsFound`, `TreesOwnValues`) are proved as they stand, `CallsNest` too and as the refinement
`HandleIsCallStack`.
A least number (the lowest descriptor, the first place where a walk goes astray) is found
by the well-foundedness of strict inclusion on finite sets, since the installed induction
theorems cannot be used.

Of `BodiesArrive`, `HeadsArrive` and `UrlsRouted` the parts about memory, the maps of headers
and the mappers are proved (`TextKept` and `PassedOn`, `OwnMemory` and `PairsKept`,
`BestIsServed` and `ContentIsRead`).

Only model-checked: everything about liveness; `AsyncProcessor` with timed waits; and the
round trips (`JsonAgrees`, `PartsArrive` and the rest of `BodiesArrive`, `UrlsRouted` and
`HeadsArrive`), which are recursions over data. Liveness
under fairness, `ENABLED` and induction over data are outside the provers installed.

## 6. Findings

Five runs show a disagreement between the code and what its documentation says.

1. `MCProcessorLockOrder`: `checkCoroutinesSleep` holds `m_sleepMutex` and takes
   the list's `m_lock` (`Processor.cpp:215`); `notifyAll` and `notifyFirst` hold
   `m_lock` and take `m_sleepMutex` (`CoroutineWaitList.cpp:60-72`,
   `Processor.cpp:195`). A timed wait that ends while its list is being notified
   can stop both threads for ever.
2. `MCProcessorDoubleSchedule`: a timed coroutine is visible to the checker
   before it is in the list (`Processor.cpp:263-264`). If it is timed out in
   between it is queued, then listed, and a later notification queues it again.
3. `MCProcessorStop`: `stop()` notifies the checker without its mutex
   (`Processor.cpp:288`); a checker that has read `m_running` and is about to wait
   misses it, and `join` does not return.
4. `MCCoroutineError`: an error goes up to the caller without restoring the function
   the caller continues with (`Coroutine.cpp:299-302`; the finish case does, 266-275). A
   caller whose `handleError` answers with `repeat()` or a wait is continued in the
   failed coroutine's function, against `Coroutine.hpp:514-515`.
5. `MCJsonNulls`: the writer puts a separator before every element but the one of index
   0 and leaves out null elements by an option (`Serializer.cpp:66, 104, 144`), so
   that a container that begins with nulls is written with a comma at its start, which
   the reader refuses.

The passing runs separate these: without timed waits nothing is lost
or duplicated (`MCProcessorUntimed`), without notifiers every timed wait ends once
(`MCProcessorTimed`), handlers that hand errors on leave every function its own
(`MCParts`), and texts that begin with no null are read back.

## 7. Observations

Behaviour met while modelling that no line of the repository contradicts, or that no run
shows, kept here because a reader of the models will ask. Where a model excludes one of
these, it says so.

Coroutines, workers, locks:

- `Coroutine.cpp:219-232`: a dropped `CoroutineStarter` that holds a chain of two or more
  frees a coroutine twice. `~CoroutineHandle` frees only `_CP`: the parents of a coroutine
  that is destroyed unfinished leak.
- `IOEventWorker_epoll.cpp:200, 220`: two I/O actions in a row with different handles
  make `epoll_ctl` fail, and the worker throws. `IOWorker.hpp:43`: `m_running` is a plain bool.
- `ConditionVariable.cpp:65, 107`: waiters with different conditions share
  `m_notified`, and one can clear what was meant for another.
- `LazyStringMap.hpp:84-114`: an assignment locks its own map and then the other's, so two
  maps assigned to each other at once stop both threads; `getAll` (292-308) returns a
  reference into the map after it unlocks.
- `ContentMappers.cpp:163-180`: `selectMapperForContent` holds the shared lock and
  `getMapper` takes it again, which a waiting writer may not allow.

Pools, connections, servers:

- `Pool.hpp:383`: `stop()` clears the bench, so the loop at 190 that would invalidate
  the pooled resources finds none.
- `Pool.hpp:272-276, 340-347`: a failed `get` gives its slot back and notifies nobody,
  so a waiter may sleep until the next release (`unannounced`). Line 297: a waiter
  that is late takes a notification with it.
- `FIFOBuffer.cpp:115, 296`: after `readAndWriteToStream` has emptied the buffer at
  the end of the memory a position equals the size; `read()` then returns 0 rather
  than `RETRY_READ`. Line 283 ignores `count` there.
- `Interface.cpp:114-117`: `invalidate()` changes `m_valid` without the submission's
  mutex; a client between its look and its wait is not woken.
  `Interface.cpp:183-194`: a submission made after the drop waits for the next bind.
- `Pipe.cpp:194-197`: `close()` wakes one blocked thread of each side; a pipe has
  one reader and one writer wherever the framework uses it.
- `Server.cpp:147-163`: `stop()` may store STOPPING over the DONE of a loop that has
  just ended. `run(true)` again on a stopped server whose thread has not been
  joined would assign to a joinable thread; the model leaves that call out.
- `HttpConnectionHandler.cpp:129`: a task can still start after `stop()` has returned;
  its connection is invalid by then.
- `ConnectionMonitor.cpp:349`: `stop()` does not stop the provider it wraps, and the
  destructor does not stop the thread; a connection between the provider's `get` and
  `addConnection` survives `invalidateAll`; nothing calls `removeStatCollector`.
- `tcp/server/ConnectionProvider.cpp:415-448`: `get()` after `stop()` accepts on a
  descriptor that is closed and may have been given out again. Lines 145-154 test `m_closed`
  and then set it: two calls of `stop()` at once both close the handle, and the second may
  close a connection that has got its number in between (`DescriptorsOwned` without its
  condition is violated by this). A `ConnectCoroutine` that is destroyed while it connects leaks its
  descriptor (client, 188-192).

HTTP:

- `ApiClient.cpp:81-107` escapes nothing: a query value with a '/' is taken for a part of the
  path when the pattern has more parts (`Pattern.cpp`, 163-171), and a call can be answered by
  an earlier pattern that its path fits (`CallArrives` speaks of texts without delimiters).
- `Url.cpp:84-91`: with user information and no port the host is taken too long by the
  length of the user information.
- `RequestHeadersReader.cpp:96-105`, `ResponseHeadersReader.cpp:96-104` drop the parser's
  `status`, so that `HttpProcessor.cpp:142-146` and `HttpRequestExecutor.cpp:221-225` are
  never reached; the blocking task handles a request line that was not parsed, the
  coroutine refuses it; the blocking client returns an unparsed response.
- `HttpRequestExecutor.cpp:227`: `ioStatus < 0` leaves out 0, what TCP returns at the end
  of a connection: the caller gets a response of status 0 and no retry.
- `RequestExecutor.cpp:93-114`: the blocking `execute` returns a null pointer after the last
  failed attempt, the coroutine an error. `SimpleRetryPolicy(n)` makes n + 1 attempts.
- `HttpProcessor.cpp:424-471`: after an error the coroutine keeps the connection, says
  "close" and goes on, and answers with the request of the exchange before; a body that
  throws while it is sent is followed by a second response.
- `SimpleBodyDecoder.cpp`: a body without a length on a connection that stays open makes
  the blocking side throw and the coroutine read nothing. A body that
  nobody reads is taken for the next head.
- `RequestHeadersReader.cpp:50-57`, `Chunked.cpp:96`: the last chunk of a body that an
  endpoint did not read ends with the empty line at which the next head is taken to end, so
  the rest of the body gets an answer of its own, 404 or 500, on a connection that was said
  to be kept. An executor that has the connection pooled takes it for the answer to its next
  request (`AnswersOwnRequest` without `strayed` is violated by this).
- `ResponseHeadersReader.cpp:38-44` tests `iteration.progress`, which nothing advances: the
  head of a response has no limit of size, `maxHeadersSize` bounds single reads only.
- `Stream.cpp:90`: `writeExactSizeDataAsyncInline` takes a write of no bytes for the end of
  its work; the blocking form goes on after any other negative result. A body whose
  source fails is closed by the chunk encoder like a whole one, and a chunked body cut
  between two chunks is taken for complete. Chunk headers over 12 bytes are refused.
- `BufferStream.cpp:194-198`: the coroutine that flushes keeps a pointer into memory that a
  write in between may replace. `m_maxCapacity` of both memory streams cannot be set.
- `PartReader.cpp:148-175`: the coroutine's part reader does not add to the part's
  size, so its limit never applies. `Reader.cpp:177-181`: a blocking reader stops at the
  last boundary and leaves what follows on the connection. A part without a name goes to
  the reader of the part before (45-52); when there was none, `AsyncPartsParser::onPartDone`
  calls a reader that is null (131-133), which the blocking `onPartData` looks at.
- `Pattern.cpp`: `{` or `*` behind a constant text drops that text; `/x/?q` does not match
  `/x`; `/?q` matches `/{a}` with an empty variable.
- `Http.cpp`: a range "the last N bytes" is printed in a form that is not parsed; a header
  value with an unclosed quote gives a null label (448-458); numbers are read by `strtoll`
  from data that need not end.
- `ContentMappers.cpp:215-219`: `clear()` leaves `m_index`, so `selectMapper` goes on
  choosing mappers that were cleared. `Accept: a/b; q=0.1`, with a space, is taken for the
  token `a/b;` of quality 1, since the parser ends a token at a space; ranges of quality 0
  are served; `a/b;charset=utf-8` is no acceptable type; `*/*` is the default mapper even
  when there is none.

Data:

- `encoding/Url.cpp:93`: an escape of one digit at the end of the text is decoded with the
  byte behind it, which is a string's NUL and refused, but any byte of a larger buffer.
- `AuthorizationHandler.cpp:67`: a Basic header that is no Base64 ends in a
  `DecodingError`, not in a 401.
- `FastDeserializer.hpp:36-44` promises that `Any`, polymorphic fields and short documents
  take the way over the tree, which the code does not; it also accepts a cut object, keeps
  values of another type and leaves a null's slot typed `Void`. Required fields are checked
  by the fast reader only; missing and surplus commas are accepted.
- Pairs with equal keys are lost when they are read. `FastSerializer.cpp:119-139` fills a
  static table without a lock. `json/Utils.cpp:556-577, 633-637`: a low surrogate is looked
  for without its `\u`; the `+` of an escape is written over.
- `Tree.cpp:276-363`: copies and moves between a node and what it contains destroy the
  target before they read the source (`Apart` excludes them).
- `Environment.cpp`: a copied component unregisters twice and throws from its destructor; a
  component found by a lookup may be destroyed before it is used; `init()` resets the
  counters of the calling thread alone.

## 8. Not modelled

`PROJECT.json` lists every part with its reason. Left out altogether are the glue of
`web::server::api` (templates that call user code), the ORM (an interface to drivers
elsewhere), spin locks, logging and string helpers, and the macros that generate DTOs
and controllers, which have no behaviour over time. In what is modelled the limits are:

- *async*: an executor's processors are one processor and its environment; kqueue and
  Windows workers are left out; memory order is sequentially consistent.
- *network*: one condition for each condition variable, one reader and one writer for
  each pipe, one server bound to an interface at a time; the registry of interfaces and
  socket options left out.
- *streams*: the output's buffered proxy and file streams; allocation failure.
- *HTTP*: status texts, `ApiClient`'s conversions of values to text, absolute URLs (`parseUrl`, which
  the library itself does not call), `Expect: 100-continue`, the resource files behind part
  readers.
- *data*: the printing and parsing of floating-point numbers, enum interpretations, and
  user-defined type interpretations; the error texts of parsers. `fastFields` refuses every
  text that is cut behind a `{` or a comma, the code only one that has white space there;
  that concerns damaged texts alone. `escapeUtf8Char` leaves out characters of more than
  four bytes.
- *base*: the logger, command line and version checks.

## 9. Plan

Done: the locks, the processor, the condition variable, the pool, buffers, pipes and
interfaces, the server (first); then the coroutine stack, workers, monitor, HTTP
exchange and its composition, URL patterns, heads, streams, multipart, JSON, trees,
environment, TCP, memory streams, content mappers, string maps, encodings; proofs of the
lock, the lists, the coroutine stack, the buffer, the pipe, the server, the processor without timed waits, the pool, the
condition variable, the monitor, TCP, the virtual interface, the workers and the HTTP
conversation, the environment and the trees.

What would add most next:

1. `AsyncProcessor` composed with `AsyncWorkers` instead of each being the other's
   environment.
2. The output proxy and the request's body on one connection with the next head, byte by
   byte, in place of the tokens of `HttpWire`.
3. `ApiController`'s reading of typed parameters and bodies behind the routes of `UrlPatterns`.
