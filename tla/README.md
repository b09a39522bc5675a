# Verification of the gxh fiber server

`gxh` is a C++ HTTP server on a coroutine runtime: fibers (`ucontext`) are
scheduled on a pool of threads, blocking system calls are replaced by
"register with epoll, yield, be resumed", and timers are served by the same
idle loop. On it run a TCP and HTTP server and client, a pool of database
connections, a configuration that is loaded while the program runs, and a web
application. This directory holds TLA+ modules of these parts, TLC configurations
for small instances of them, and TLAPS proofs for all instances.

Paths such as `scheduler.cc:174` are relative to `src/gxh/`.

## 1. The system and its parts

| Part | State | Operations | Module |
| --- | --- | --- | --- |
| Fiber, Scheduler (`fiber.*`, `scheduler.*`) | task list, active and idle counters, `m_stopping`, thread vector; per fiber state and saved context | `schedule`, `run`, `idle`, `resume`, `yield`, `MainFunc`, `start`, `stop` | `Scheduler`, `TaskPool` |
| Timer, TimerManager (`timer.*`) | ordered timer set, `m_tickled`, `m_previouseTime` | `addTimer`, `cancel`, `refresh`, `reset`, `getNextTimer`, `listExpiredCb` | `TimerManager` |
| IOManager, idle protocol (`iomanager.*`) | `m_pendingEventCount`, tickle pipe | `tickle`, `stopping`, `idle` | `IOManager`, `TaskPool` |
| IOManager, descriptor events (`iomanager.*`) | one `FdContext` per descriptor, the epoll set | `addEvent`, `delEvent`, `cancelEvent`, `cancelAll`, the event loop of `idle` | `FdEvents` |
| Hooked calls (`hook.*`) | per call a `timer_info`; `FdCtx` flags | `do_io`, `connect_with_timeout`, `sleep`, `close`, `fcntl`, ... | `HookIO` (calls and `close`) |
| FdManager (`fd_manager.*`) | vector of `FdCtx` | `get`, `del` | not modelled |
| http-parser and its wrappers (`http/http-parser/*`, `http/http_parser.*`) | `struct http_parser`, the marks of one call, the message being filled | `http_parser_execute`, its callbacks, `http_parser_parse_url` | `HttpParser`, `HttpUrl` |
| HttpSession, `handleClient`, streams | read buffer and its offset | `recvRequest`, `recvResponse`, `sendResponse` | `HttpSession` |
| Socket (`socket.*`) | listening sockets, connections | `listen`, `accept`, `connect`, `send`, `recv`, `close` | `Socket` |
| TcpServer, HttpServer | `m_socks`, `m_isStop`, one fiber per listener and per client | `bind`, `start`, `startAccept`, `stop`, `handleClient` | `TcpServer` |
| HttpConnectionPool, HttpConnection | idle connections, `m_total`, uses of each | `getConnection`, `ReleasePtr`, `doRequest`, `DoRequest` | `HttpConnectionPool` |
| Mysql_pool (`db/*`) | connection list, semaphore, two counters | `init`, `DestroyPool`, `GetConnection`, `ReleaseConnection`, the statements | `MysqlPool` |
| ServletDispatch | exact routes, globs, default | `addServlet`, `addGlobServlet`, `getMatchedServlet` | `Servlet` |
| TinyWebserver (`web/*`) | `m_userpass` and the timers that empty it | pages, registration, login | `TinyWebserver` |
| ByteArray | list of nodes, `m_cur`, position, size, capacity, byte order | reads, writes, seeks, codings, buffers, files | `ByteArray`, `ByteLoops`, `ByteSeq` |
| ConfigVar, Config, and LogIniter of the loggers | values, listeners, reader-writer locks, file times; levels and appenders | `setValue`, `addListener`, `fromString`, `LoadFromConfDir` | `Config` |
| Log output, Env, Util, Address, Uri, HTTP messages | formatting, parsing | | only what the modules above use |
| Thread, Mutex | pthread wrappers | | a critical section is one action |
| Daemon, `http_cgi` | a restart loop; an older copy of the web application | | not modelled |

How the parts interact. A user fiber calls a hooked function; it registers its
fiber with `IOManager::addEvent` or `addTimer` and yields to `Scheduler::run`.
A thread without work is inside its idle fiber, in `epoll_wait`; it turns ready
events and expired timers into `schedule()` calls. `schedule()` wakes a sleeper
through the tickle pipe. `stop()` asks the threads to leave, which each of them
decides alone in `stopping()`.

What makes this hard: fibers may be put into the queue before they have
yielded, by any thread; the decision to leave is made on state that is read
piecemeal; reports from epoll are used after the lock-free wait, when they may
be stale; the descriptor may be closed and reused meanwhile; tickles are
suppressed in two places; clock readings are taken outside the lock. Above the
runtime: bytes arrive in reads of any length; a fiber is suspended in the middle
of a handler, and a semaphore that is not hooked blocks the whole thread;
statements fail half-way; files change while they are loaded; callers give up
waiting and connections are used again. `PROJECT.json`
lists these hazards line by line, with the property that covers each.

## 2. The modules

### TaskPool

What a user of the scheduler may rely on: tasks that are new, open or done; those
that are due (scheduled, and not begun since); the task each thread executes; and
whether `stop()` has returned. One beginning for each `schedule()`, by one thread
at a time, and none before the thread that executed the task last has let go of
it. `stop()` returns when nothing is due or executed; afterwards nothing is
scheduled or begun. `Scheduler` implements it when fibers are rescheduled on their
own thread, and `IOManager` when no thread takes a fiber that is READY and not saved
yet (`ImplementsTaskPool`; the finding of section 4 is that the code ensures neither).
In both, a thread executes a task from `resume` until it is
back in `run()`, the `swapcontext` that saves the context included. In `Scheduler` a
task is due until it is resumed, also while the thread that took it holds it; in
`IOManager`, where taking and resuming is one step, while it is queued. A fiber that
waits for an event or a timer is open and not due, and so is a callback that is
collected and not scheduled yet: `TaskPool` says nothing of them when `stop()`
returns, because in `IOManager` that promise is broken (section 4).

### Scheduler

State: `m_tasks`, the two counters, `m_stopping`, `m_threads` under their names;
per thread the position in `run()` (`pc`), the task in hand (`cur`) and whether
its idle fiber is TERM; per fiber `m_state`, whether its context is `saved`, and
whether a waker holds it (`wake`); per client the position in `stop()`.

| Action | Code |
| --- | --- |
| `schedule`, `Wake` | `schedule()` by a client or a fiber; by whoever was handed a fiber (event, timer) |
| `Take`, `TakeNothing` | the critical section of `run()` with and without a task |
| `resume`, `HandOver`, `yield`, `Return`, `swapcontext`, `Drop` | one execution of a fiber, split where other threads can see a difference: READY is stored before `swapcontext` saves |
| `idle` | one round of `Scheduler::idle` |
| `start`, `StopCheck`, `StopSet`, `StopRoot`, `StopSwap`, `StopJoin` | `start()` and the stages of `stop()` |

User code is arbitrary within the rules the code asserts: it may schedule, hand
its fiber to one waker, yield when somebody holds it, and return. After the
first failed assertion or undefined step (`fault`) the behaviour is followed no
further. The constant `Pinned` restricts wakers to the thread the fiber ran on;
the hooked calls do not have that restriction (`schedule(fiber, -1)`). `stop()` may
be called before `start()`, as in the code; `StartFirst` forbids it. With `use_caller`
the calling thread then runs the tasks itself; without it nobody does, and `stop()`
returns with the queue as it is.

### TimerManager

State: the timer set and the fields of each timer under their names; the clock;
`owed` for inserters that have released the lock and not yet tickled; the idle
threads with the instant they will wake (`until`), the clock reading they carry
(`now`) and the callbacks they have collected. `uint64_t` arithmetic is modulo
`Word`, the conversion to `int` is `ToInt`. Ties in `m_next` are broken by
address in the code, and by a choice in the model. `epoll_wait` (`Sleep` and `Wake`) may return at
any time: on its timeout, with the pipe, or with an event.

### IOManager

Composes the idle protocol with `run()` and `stop()`: a fiber is in one of
`new, queue, run, event, timer, held, done`, and a thread walks through
`pick, run, yield, back, enter` and the stages of `idle()`: `next, pend, sched` are
the three reads of `stopping()`, `wait` is `epoll_wait`, `due` and `dec` are the
loops over callbacks and events. `held` is a callback that `listExpiredCb` has
taken and nobody has scheduled yet. A `tickle()` that is due is a debt (`owes`)
of its caller, paid before the caller's next step. In `yield` the fiber has been
handed over, is RUNNING for a while and then READY without being saved; a look at the
queue may see either (`Looks`), and a thread that takes a fiber before the
`swapcontext` of the other resumes a context that is not there (`fault`, after which
nothing is followed). `SwitchInTime` forbids that early look. Counters that `Scheduler`
shows exact are derived here; the details of a fiber switch, of the timer set
and of descriptors are left to the other modules.

### FdEvents

State: `events`, the filled `EventContext`s and the fibers that wait, for each
descriptor; the epoll set (`interest`), the state of the file (`cond`) and the
edge-triggered ready list (`armed`); the reports each idle thread holds. One
operation is one action, because each holds the mutex of the `FdContext`
throughout; `Handle` is one report in `idle()`, which may be stale. The kernel
(`epoll_ctl`, `Edge`) is external and modelled from epoll(7). `Exclusive` says
that nobody registers on a descriptor while `close()` is inside it.

### HookIO

One descriptor number and the hooked calls made on it. A call goes through
`out, call, armed, wait, woken, done`: `armed` is between `addConditionTimer` and
`addEvent`, where its timer may already expire; `woken` is scheduled and not yet
resumed. A timer goes from `m_timers` to `cbs` (collected by `listExpiredCb`) to
`late` (the callback has set `t->cancelled` and is about to call `cancelEvent`);
between any two of these the call may return, another call may register, or the
number may be closed and used for another file. `Callback` does nothing when the
call has returned: that is the `weak_ptr` condition. `timer_info` is one per
call, not per try, as in `do_io`. `close()` is two steps, `cancelAll` and the real
close, and the calls on other threads run between them: they are woken, try again,
register, or begin. `addEvent` aborts when the direction has a registration.
`Exclusive` says only that the calls on a closed file return before the number is
used again; section 4 shows what happens otherwise.

Four weaknesses of the protocol are in the model, and its properties are worded
around them. A call that registers between the `cancelAll` and the `close_f` of
`hook.cc:343-347` waits for ever: the kernel reports nothing of a closed descriptor,
and its timeout cannot cancel an event there (`inside`; `CloseReleases` speaks of the
other calls). A `connect` that this `cancelAll` wakes and that asks for `SO_ERROR`
before the `close_f` returns 0 without a connection (`shut`). A callback that runs between `addConditionTimer` and `addEvent`
notes the timeout and cancels nothing, and the call then waits without one
(`TimeoutStillComes` speaks of the other calls). A late callback may wake
another call on the number; `do_io` just tries again, while `connect` takes a
`SO_ERROR` of 0 for a connection (`ConnectIsReal` says that nothing but these two
can mislead it).

### HttpUrl, HttpParser, HttpSession

`HttpParser` is the state machine of `http_parser_execute`, state by state under
the names of the source, with the callbacks of `HttpRequestParser` and
`HttpResponseParser`. One call is `Enter`, then for every unit of the buffer
`NextByte` and one or more steps (a step that re-executes leaves the unit in
place), then `BufferEnd`, which hands over the texts that are marked. A unit is a
byte, or a run of letters that no state tells apart inside; where the code splits
a word (the first letter of a method, the prefix by which a header name is
recognised) so do the units. `LenMax` is `ULLONG_MAX` and `HeaderMax`
`max_header_size`, scaled down; lengths are added up digit by digit with the
overflow tests of the source. `HttpUrl` has `parse_url_char` and
`http_parser_parse_url` as functions over the units, with the host and port rules.

`HttpSession` is one connection: `recvRequest` (or `recvResponse`: the same
loop), the handler, and a peer that sends the messages of a script and may close
at any time. A read takes any prefix of what has arrived; `cut` counts the reads of
a message that ended inside a text, and after `MaxCuts` of them the rest is read as it
comes (a bound of the run; the theorem is for any). The scripts are in
`MCHttpSession`: each well-formed message carries what must be handed on (`want`),
written down independently of the parser. The module itself asks of a script only
that it is made of units (`ScriptsAssumption`): the theorem about the parser is about
every sequence of units, well-formed or not.

### MysqlPool, Servlet, TinyWebserver

`MysqlPool` has the steps of `GetConnection` that another thread can come
between: the look at the list without the lock, `sem_wait`, the locked pop; then
the statement and `ReleaseConnection`. Threads are part of the state (`runs`):
`sem_wait` keeps the thread, while a statement suspends only the fiber, because
the client library reads its socket through the hooks. A failed statement returns
without giving the connection back, as in the code; `lost` records it. The
database is external: the table `user` as a set of pairs, and statements that
succeed or fail. `PoolSpec` is the pool with callers that call at any time and give
their thread up when they are in no call (`Yield`).

`Servlet` is the route table, and `TinyWebserver` the application on top of both:
a handler goes through `recv`, the statements of its page and `send`. `main()`
runs it on an IOManager of one thread, and so does the model: handlers interleave
only where they are suspended. A request is a path, a name and a password, where a
missing parameter is `Empty`.

The parameters go into the text of the statements as they came, between quotes and
not escaped (`tiny_webserver.cc:189, 197, 260`). `Quoting` are the texts that have a
quote or a backslash: a statement made with one goes on as its author likes, so that
the select answers with any rows and the insert adds any (`Spliced`). The properties
say what this does to the others: nothing of a plain name is answered without its row,
but the row may have been added by anyone; and of a name in `Quoting` nothing is
claimed. The table has no key, since nothing in the repository says so.

### ByteSeq and ByteArray

`ByteSeq` is what a caller may rely on: a sequence of bytes and a position; put,
get, seek, clear. `ByteArray` is the list of nodes with `m_cur`; every operation
visits the nodes as the loops of the code do (`Walk`), and a read through the null
node is a `fault`. The loops are in it by what they compute: byte `i` of a walk is
`npos + i - 1` bytes from the beginning of its first node. `ByteLoops` has the loops
as they are written, iteration by iteration, and assumptions that TLC evaluates for
every start and size: the walks, the loop of `setPosition` and the varint loop compute
what `ByteArray` says, and `FileIsRight` says exactly when `writeToFile` does. The mapping is `data <- Data` (the bytes of the nodes up to `m_size`),
`pos <- m_position`. A byte of the model has two payload bits and the
continuation bit, a word three bits, so that zigzag and varint meet a
last byte with bits to spare as 32-bit words do. `ValuesAssumption` says that a caller
writes bytes, and values in the range of their type. (The names `ByteSpec`, `ByteNext`,
... here and `FdSpec`, `FdNext`, ... in `FdEvents` let one proof module extend two
components.)

### Config

Two variables, `logs` and `db`, with their listeners: `LogIniter`, which sets the
loggers up (with the comparison for an assignment in `log.cpp:705`: the model
reaches `fault`), and `MysqlInit`, which reads its own variable. `setValue` is
compare and notify under the read lock, then assign under the write lock, in
steps. A loader walks the files: `lstat` and record, then read, convert and set.
Another thread sets `db` from code and adds and removes a listener; files are
edited at any time, also into a text that cannot be converted. Two histories say what
the program should have: `came` is the definition with which each logger came into
the value, and `was` the value of `db` before the last assignment.

`EditsApplied` says what the code does with an edit, which is less than applying it.
A file whose time is recorded has been read as it is (`NothingMissed`; of `db` only
while no code sets it too). A logger of the value has its level, and the appenders of
the definition it came with, not those of a later edit, because two definitions that
differ in their appenders are equal (`log.cpp:603`); one that has left is off; `root`
is no exception once it has been named (`LoggersMatch`, `DaemonIsQuiet`). A logger that
was never named stays as the program made it, although the comment at `log.cpp:733`
says it is switched off. A changed level ends in the null pointer, and nothing else
does (`FaultIsALevel`). The pool of connections is built with the value before the
last change, because the listener reads its variable, and listeners run before the
assignment (`PoolIsBehind`; `mysql_pool.cc:16`, `config.h:395-400`).

### Socket, TcpServer, HttpConnectionPool, HttpService

`Socket` is TCP with whole messages: listeners with a backlog, connections with
two ends and what is under way in each direction. `TcpServer` has `bind` with any
subset of addresses failing, also on a running server, `start`, the accept fibers,
`stop` with the task it schedules, and the handler of each connection. The task goes
through the list socket by socket, `cancelAll()`, the `cancelAll` of the hooked
`close()`, and `close_f`, and the accept fibers run on other threads between any two of
these: one that is woken finds EAGAIN and registers again, and if it does so after the
second `cancelAll` it waits for ever (`inside`). `bind()` looks at the vector of
failures it is given, which `OneVector` says is the same in every call: a second call
fails for the first one's address, and a `bind()` that fails on a running server clears
the list that `stop()` would have closed. `dead` is the end of the process: SIGPIPE,
which nothing ignores, on a send to a peer that is gone; two accept fibers that
register for one socket; a list that `bind()` or a second task changes under the task
that iterates over it. `HttpConnectionPool` has callers
that share connections and callers that make their own; a caller may give up at
any time (`TIMEOUT`), which closes the connection. `HttpService` composes them.
`disturbed` is set when `start()` or `bind()` is called before the task and the
fibers of an earlier round have ended, or after `stop()`.

### MC modules

`MCScheduler`, `MCTimerManager` and `MCFdEvents` add symmetry sets and the
directions in use; `MCHookIO`, `MCHttpSession`, `MCMysqlPool`, `MCTinyWebserver`,
`MCByteArray`, `MCConfig` and `MCHttpService` the calls, scripts, requests, values
and texts of the instance. `MCMysqlPool` also has the callers, a few calls each.
`IOManager` needs none. Definitions commented "Mutant" are wrong versions of the
definition that follows: each property is known to fail when one of them takes
its place.

## 3. The runs

| Run | Instance | Shows |
| --- | --- | --- |
| `sched_pinned` | 2 workers + caller thread, 3 fibers, `Pinned`, `stop()` with or without `start()`, fair | exact counters; no failed assertion or unsaved resume; every fiber in one place; the scheduler implements `TaskPool`, so that `stop()` returns only when all is done; it does return; no task starves |
| `sched_unsaved` (violation) | 2 workers, 2 fibers, not `Pinned` | a context is resumed before it is saved |
| `timer_safe` | 2 idle threads, 2 timers, up for longer than `Hour` | `cancel()` and the fate of a timer agree; no early fire; no timer without a sleeper that will wake for it in bounded time |
| `io_threads` | a worker and the caller thread (`IOManager(2)`), 2 fibers, no pins, fibers may be seen READY before they are saved, fair | until that happens: types; all queued and collected tasks run before `stop()` returns; `stop()` returns; lost wakeups are repaired |
| `fd_events` | 2 descriptors, one used in both directions, 2 idle threads, `Exclusive` | exact count, waiters watched, no missed edge |
| `hook_io` | a receive without, a send and a connect with a timeout; 2 tries each; 2 files on the number, one after the other; calls run inside `close()`; `Exclusive`, fair | timeouts are real and still come, timers end with their call, no waiter is lost or woken twice, `connect` is misled by nothing but a stray callback or `close()`, `close()` releases every call but one that registers inside it |
| `http_session` | some seventy scripts of requests and responses, every division into reads until 2 of a message have ended inside a text, a peer that may leave, fair | a message is handed on exactly as sent (`ServedExact`, except after a read inside a text); malformed and doubly framed messages never; the parser's assertions hold; lengths neither wrap nor become "none"; a whole message is answered |
| `mysql_pool` | 3 callers on 2 threads, 1 connection, 2 initialisations, failing statements, fair | list, semaphore and counters agree; a connection is with one caller; `pop_front` finds one; a blocked thread is woken unless failed statements have lost every connection |
| `web_users` | 2 clients on 1 thread, 2 connections, a plain name with 2 passwords and a name with a quote, 4 requests, fair | welcome and registration of the plain name are earned, whatever the other name adds to the table; routes; logins expire; the only thread never blocks in `sem_wait`; every request is answered |
| `byte_array` | nodes of 2 bytes, arrays to 5 bytes, 3 writes | the nodes implement `ByteSeq`; `m_cur` is the node of the position; values are read back as written; where the read-only walks are right; the loops as written compute what the model says |
| `config_log` | 2 edits, 3 calls from code, under `-d`, fair | no edit is missed; loggers have the level of the value and the appenders they came with, no terminal output as a daemon, until a changed level ends the program; the pool is one change behind; listeners see a stable value; loading ends |
| `http_service` | 2 callers of the pool and a direct one, 2 connections, 2 listeners, one start and stop, `bind` at any time with one vector, accept fibers beside the steps of the closing task, a process that may die, fair | no response goes to another caller; the pool lends and counts right; a failed `bind` empties the list and no listener is forgotten; `stop()` leaves no listener and no accept fiber but one that registered inside `close()`; a handler ends with its client |

Bounds. Two scheduler threads are enough for every race of one thread against
another, and the caller thread is a third with its own role. Two fibers suffice
for one to keep another from running, three for a queue in which a task is
passed over with one before and one behind it. Two timers make "front" and
"not front" differ; the clock has two instants around the constants that matter,
because only the order of `now`, `m_next` and `m_previouseTime` counts, and
`Hour`, `MAX_TIMEOUT`, `IntHalf` are scaled down together. `MaxOwed` bounds the
inserters between unlock and tickle to one. In `hook_io` two tries (`MaxTries`)
make a retry with an old callback still on its way, and a second file
(`MaxFiles`, the files after the first) a callback that outlives its descriptor. In `timer_safe` all periods are below
`IntHalf`; a longer one makes `(int)next_timeout` negative (`iomanager.cc:383`),
and `Watched` fails with it. One connection and two threads make
`sem_wait` block while the fiber that has to answer needs a thread; two
initialisations make a pool after a pool. Nodes of two bytes put every value of
two bytes into one node or across two, and five bytes are three nodes. Two edits
are one before and one after the reading of a file. Two requests on two
connections make a connection be used again, closed by the peer, and given up by
a caller. Two reads inside texts (`MaxCuts`) cut one text twice, or two texts. The units of the HTTP scripts include every class of byte that the
parser tells apart, and `HeaderMax` and `BufferSize` are just above the longest
well-formed message, so that the limits are met. Deadlock is checked except in
`timer_safe`, `fd_events` and `hook_io`, where a run may end by its bound on the
clock, when all descriptors are quiet, or when all calls have returned; the other
models have an explicit step for their end (`Terminated`, `Done`, `Quiet`, and
`Stuck` for the pool that failed statements have emptied).

Fairness. Threads are weakly fair: the kernel schedules them, `epoll_wait` has a
timeout, and user code does not loop without yielding. `StopReturns` of
`Scheduler` only speaks of behaviours in which fibers stop rescheduling
themselves, and nobody has to wake a fiber or call `stop()`. In `IOManager` a
fiber that runs again and again returns some time, and what it waits for comes
due: strong fairness of `RunReturn`, `triggerEvent` and `listExpiredCb`. Without
that, `stop()` rightly waits. In `HookIO` scheduled fibers run, due timers expire,
their callbacks run, and a thread inside `close()` goes on; nothing is assumed of
the peer. In `HttpSession` the server's thread runs, and the peer either goes on or
closes. In `MysqlPool` and `TinyWebserver` a thread runs the fiber it has, free
threads take fibers with work, and the database answers or fails. In `Config` the
threads run, and a reader-writer lock is granted when it can be. In `HttpService`
only the server's fibers and tasks are fair; callers may stop anywhere. `Spec` is
the specification without fairness, about which the theorems are; the runs with
liveness properties use `FairSpec`, which adds `Fairness`. (`MCMysqlPool` has it in
`Spec`.)

## 4. Known counterexamples

`sched_unsaved` is a finding in `PROJECT.json`: the fix described in
`scheduler.cc:171` skips fibers that are RUNNING, but a fiber is READY some
instructions before its context is saved. The hooked calls wake fibers on any
thread, so the program is exposed to it. `IOManager` has the same early look
(`SwitchInTime = FALSE`), and reaches `fault` by it.

The other disagreements with comments and assertions of the code follow from the
same modules by a change of constants or a stronger property. Each is a run of
less than a minute:

| Statement of the code | Instance and property | What happens |
| --- | --- | --- |
| `timer.cc:152`: the clock cannot go back | `timer_safe` with `Boot = 0`, `MaxClock = 2`: `NoRollover` | within the first hour after boot `m_previouseTime - 60*60*1000` wraps; two clock readings in the wrong order make every timer fire |
| `iomanager.cc:348`: all events and timers are waited for before exit | `io_threads` with one worker and `UseCaller = FALSE`: `StopDrains` | `stopping()` is three reads; a timer added between them is left when `stop()` returns |
| `scheduler.h:82`: `stop()` waits for all tasks and returns | `io_threads` with `Workers = {w1, w2}`, `UseCaller = FALSE`, `PinsUsed` with `w1`, `w2`: `StopReturns` | a thread leaves while another holds a callback that pins a task to it; `stop()` never returns |
| `iomanager.cc:83`: a triggered event is registered | `fd_events`: `TriggerAssertion` | `idle()` tests that one reported event is registered and triggers all of them |
| `iomanager.cc:165`: an event is added once | `fd_events` with `Exclusive = FALSE`: `AddAssertions` | `close()` wakes the waiters before it closes; one registers again, and the registration meets the next owner of the number |
| `http_parser.cc:128, 159, 170`: callbacks of a complete url, name, value | `http_session`: `ServedExactAnyRead` | a read that ends inside a text: the second part replaces the first |

Other weaknesses are in the models, and the properties are worded around them
(each is a hazard in `PROJECT.json`): a failed statement loses its connection
(`mysql_pool.cc:129`); two registrations of one name may both be confirmed
(`tiny_webserver.cc:190`); a changed logger is a null pointer (`log.cpp:705`), and
a change of appenders alone is not seen (`log.cpp:603`); `read(0)` at the end of
the capacity goes through the null node (`bytearray.cc:387`), and `writeToFile`,
`read` at a position and `getReadBuffers` are right only in the cases that
`FileIsRight` and `PeeksRight` state; no pooled connection ever expires by age
(`http_connection.cc:297`); a response that ends with the connection is lost; a call or an accept fiber that
registers inside `close()` waits for ever (`hook.cc:343-347`); without `use_caller` a
`stop()` before `start()` leaves the queue (`scheduler.cc:98`); names and passwords are
spliced into SQL (`tiny_webserver.cc:189, 197, 260`); the pool of connections is rebuilt with the
value before the change (`mysql_pool.cc:16`); two setters may notify in one order and
assign in the other (`config.h:389`); loggers that were never configured stay on
(`log.cpp:733` says otherwise); `bind()` judges by its caller's vector and clears the
list of a running server (`tcp_server.cc:62`); SIGPIPE ends the process
(`socket.cc:256`).

## 5. What is proved

The theorems hold for any number of threads, clients, fibers, timers,
descriptors, calls, callers, connections, requests and files, for every byte stream
and every node size. The assumptions are
the named ASSUMEs of the modules, which TLC evaluates in the runs, and the
hypotheses named below. The ASSUMEs say that finite things are finite
(`ThreadsAssumption`, `FdsAssumption`, `IOAssumption`, both `PoolAssumption`s),
that placeholders such as `NoFiber`, `Nil`, `NoCall` and connection 0 are none of the things
they stand beside (`FibersAssumption`, `CallsAssumption`, `SocketAssumption`),
that numbers are numbers and an IOManager has a thread (`ClockAssumption`,
`scheduler.cc` asserts `threads > 0`), and what shape the inputs have
(`UsesAssumption`, `WebAssumption`, `ConfigAssumption`: a text of the variable
`logs` defines loggers, or an entry without a name; `ScriptsAssumption`: messages
are sequences of units; `BaseSizeAssumption`, `ValuesAssumption`: a node has a byte, and
values fit their type).

`SchedulerProofs`
* `TypeCorrect`, `CountersCorrect`. Types alone are not inductive: that a
  counter stays a natural number needs the counter to be exact, and exactness
  needs the thread positions. `TypeCount` is their conjunction; the cardinality
  steps come from lemmas on adding and removing one thread.
* `StoppingIsStable`, `ExitIsSafe`, `StopIsComplete` assume one client
  (`OneClient`): two clients may schedule while the other stops. `StopIsComplete` also
  assumes that somebody runs the tasks (`SomebodyRuns`): the calling thread, or the
  workers of a `start()` that came first. The invariant
  (`Launch`, `StopInv`) relates the stages of `stop()` to the threads:
  nobody is inside `run()` before `start()`, a stopping client can no longer
  schedule, a thread with a TERM idle fiber implies `Stopping`, and the threads
  taken over for joining are all the workers. Stability follows because with the
  flag set, the queue empty and no thread active nobody is left who can call
  `schedule()`.
* `PinnedIsSafe`, `NoFiberLost` assume `Pinned`. `PlaceInv` gives every fiber one
  owner by state and ties a fiber that is READY but not saved to the thread that
  is between the two halves of its `yield`: the only thread that may take it is
  busy.
* `SchedulerIsATaskPool` (`ImplementsTaskPool`) assumes `OneClient`, `SomebodyRuns` and
  `Pinned`. There is one lemma for
  each group of actions, from `TaskInv`, the conjunction of `TypeCount`, `StopInv`,
  `PlaceInv` and `RunningOnThread` (a RUNNING fiber is in the hands of a thread). A
  `Begin` of the pool needs that nobody else executes the fiber, which is `PlaceInv`;
  that nothing happens after `stop()` has returned is `StopInv`: every thread is out of
  `run()` by then and the client makes no further call.

`EventProofs`, timers
* `TimerTypes`, `CancelFindsTimer`, `OneFate`, `CancelCorrect` (the two
  together), `OneShotFiresOnce` from `LifeInv`:
  a timer has its callback exactly while it is in the set, a one-shot timer that
  was collected or cancelled has none, and one that is not added yet is in no set.
* `NeverEarly` assumes `LongUp`: the manager was constructed at least
  `Hour` after boot and the run is shorter than that, so that the subtraction
  does not wrap.
* `NoTimerOverlooked` (`Watched`) assumes `ShortPeriods`: periods fit an `int`.
  Every timer of the set is `Covered`: somebody is awake or will be woken
  (`Roused`), or a sleeper has seen a time that is not after the timer's. That a
  new front timer needs no tickle when `m_tickled` is set is `TickleComes`; that
  `refresh()` may do without one is `Started`: it only moves a timer back.

`EventProofs`, descriptors (all assume `Exclusive`)
* `WaitersAreWatched`, `AddIsSafe`, `FdTypes` from `WatchInv`: `events`, the
  filled contexts, the waiting fibers and epoll's interest agree, and a
  descriptor that is being closed or is closed has none.
* `PendingIsExact`: the count against the cardinality of the registrations, by
  lemmas on adding and removing pairs; it gives `FdTypes` the lower bound of the
  counter.
* `TriggerIsSafe` assumes `OneDirection`: `ReportShapes` bounds what reports can
  say, so that a report that meets a registered event meets only that one.
* `NoEdgeMissed` (`ReadyIsSeen`): the edge is armed again by every `epoll_ctl`
  that keeps an event (`CtlSees`), and a report that an idle thread has taken
  is handled before it is forgotten.

`HookProofs`
* `WaitersAreWoken` from `WaiterInv` (types, registrations and waiting calls agree,
  timers belong to the present try), `TimeoutsAreNotLost`, and `TimeoutsAreReal`:
  none needs `Exclusive`.
* `ResultsAreReal` assumes `Exclusive`, and allows for the calls inside `close()`. What `connect` returns depends on why it
  was woken: `ConnectInv` says that calls in progress are on the present file, one
  for each direction, that a socket which is not connected is not ready, and that a
  `connect` woken without a connection was woken by a timer, by `close()` or
  by a stray callback, and the property names the last two. That `addEvent` meets no
  registration follows from one call for each direction.

`IOProofs`
* `TasksRunBeforeStop` (`StopRunsTasks`) and `PendingIsExact` from `IOInv`: the
  queue, the threads and the callbacks in hand say the same as `place`; the count
  of pending events is exact; and `Leaving`, whose core is `Settled`: once
  the last thread has decided to leave, the queue is empty and nobody is left to
  submit. A single thread's decision is stable only in this sense:
  the others may still queue tasks, and then run them.
* `ManagerIsATaskPool` (`ImplementsTaskPool`) assumes `SwitchInTime`: without it two
  threads may execute one fiber. It follows from `IOInv` and
  `OnThread` (a fiber that is executed is in the hands of exactly one thread): an event
  that is triggered and a timer callback are `Reschedule`, the registration of a new
  one is `Register`, and `Settled` gives `Return` its guard.

`ServiceProofs`
* `ResponsesAreMine`, `PoolIsExact`, `NoListenerForgotten` from `ServiceInv`: a
  connection waits in one backlog and has a handler only after it was accepted; a
  connection in the list is `Clean` (nothing under way in either direction); one
  that is in use has at most the request or the response of its caller under way
  (`Underway`). That is why no response can meet another caller: who gives
  up has closed the connection. `TotalInv` counts the list and the callers.

`WebProofs`
* `CountersAreExact`, `ConnectionsAreLentOnce` for `PoolSpec`, the MySQL pool
  under arbitrary callers, from `PoolInv`: the length of the list is the value of
  the semaphore, plus those who have passed it and not yet popped, plus those who
  have pushed and not yet posted.
* `WebUsesPool`: `TinyWebserver` implements `PoolSpec`, so that both results hold
  in it. The run `mysql_pool` checks the same pool under other callers.
* `LoginsExpire`, `AnswersEarned` from `WebInv`, which adds, for the handler of each fiber,
  what the statement it waits for will show (`RegSelect`, `RegInsert`, `LogSelect`),
  that rows are never deleted (`Growing`), and that who is logged in has a timer and,
  under a name without a quote, a row (`Logged`). Both hold with requests whose texts
  have quotes among the others; what the property says is of the plain ones. The route of each path is computed once, from lemmas on
  `addServlet` and `addGlobServlet`.

`HttpProofs`
* `ParserIsSafe` (`ParserAssertions`) from `SessionInv`: for whatever units a peer
  sends, in whatever reads, and whatever `LenMax`, `HeaderMax` and `BufferSize`, the
  assertions of `http_parser_execute` hold whenever they are evaluated. The property is
  not inductive. That a chunk is read only in a message flagged as chunked needs the
  decision of `s_headers_done` to reach every state of a chunk; that a length is never
  `ULLONG_MAX` needs the overflow test to hold from the first digit on (`Sound` relates
  the state to the flags, the length and `nread`); that `nread` is 1 where a chunk size
  starts needs it to have been reset where the chunk before ended; and that at most one text is open
  needs the text that may be open in each state (`May`). There is one lemma per state
  function of the parser, and one on how each way to end a step (`Break`, `Reexecute`,
  an error, a callback) keeps the invariant.

`BaseProofs`, ByteArray
* `ArrayIsSound`: `Inv` is inductive. `ArrayInv`: the nodes are exactly the capacity,
  and `m_cur` is the node of the position, null exactly at the end of the capacity.
  `ItemsInv`: the encoding of the value written last lies, byte by byte, where it was
  written, however the nodes divide it. The proof rests on the arithmetic of division
  by a node size that is not fixed (`DivMod`, `DivUnique`, `SpotInjective`), and on one
  lemma on what any walk visits.
* `PeeksAreRight` (`PeeksRight`) follows from `ArrayInv` alone.
* `ValuesReadBack` (`ReadsBack`): each decoder is followed part by part over bytes that
  lie at the position, from lemmas on the inverse of zigzag, varint and fixed encodings.
* `ArrayIsASequence` (`ImplementsByteSeq`): every operation is, through the mapping, its
  counterpart on the sequence or a stutter. A write is the interesting case: the bytes
  it puts into old and new nodes are the sequence with its middle replaced, and it never
  writes one place twice.

`BaseProofs`, configuration
* `EditsAreApplied` from `ConfigInv`: the lock is held by those inside (`Locked`);
  while the recorded time of a file is the file's, what was read is what the file
  holds (`Fresh`, and `DbFresh` while no code sets `db`); the loggers match the old value
  until the listener has run and the new one after it (`Shaped`); and the pool has the
  present value between the listener and the assignment, the one before it otherwise
  (`Behind`).
* `OldStaysCurrent`, an action property, from `Locked`: a setter that notifies
  holds the read lock, and an assignment or a change of listeners takes the write
  lock.

Only model-checked, and why:
* Liveness (`StopReturns`, `TaskRuns`, `CloseReleases`, `Answered`,
  `WaiterServed`, `EveryRequestAnswered`, `LoadReturns`, `NothingLeft`): it rests
  on fairness, which is out of the prover's reach.
* `ServedExact` and `MalformedRefused` of `HttpSession`: what the parser makes of a
  message is computed from its units one by one, and compared with what the script says
  the message means. For all messages that would need a grammar and an induction over
  its derivations; the provers have no induction over data.
* That the loops of `ByteArray` compute their closed forms (the assumptions of
  `ByteLoops`): they are RECURSIVE operators.

Only proved, and in no run as such: `ExitMeansStopped` and `StopDrains` of
`Scheduler` (`TaskPool` has of the second that nothing is due or executed), `ImplementsTaskPool` of `IOManager`, `AddAssertions`,
`FiresOnce`, `TimeoutIsReal` (a part of `ResultIsReal`), the exact count of pending
events of `IOManager`, `WebUsesPool`, and the inductive invariant of `ByteArray`
(`ArrayIsSound`). The types of a module are part of the
invariants of its proofs.

## 6. Not modelled

* Out-of-memory, failing `pthread` calls, and signals: the code asserts or ignores.
  SIGPIPE, which it does not ignore, ends the process in `HttpService`; in the other
  modules the process lives.
* `epoll_ctl` failures other than those of a closed or absent descriptor. With one, a
  request to another server may be sent in part and its connection put back
  (`http_connection.cc:344`).
* The growth of `m_fdContexts` and of `FdManager::m_datas`, the flags and
  timeouts of `FdCtx`, and the arithmetic of the sleep family.
* A fiber that yields with nobody holding it (destroyed with an assertion), and
  the exceptions of user code.
* Formatting, log output, parsing of addresses and URIs: no state and no
  concurrency. `Daemon` is one loop of `fork`, `waitpid` and `sleep`; `http_cgi`
  is an older copy of `TinyWebserver` that `main()` does not use.
* Of the HTTP parser: `HTTP_BOTH`, `CONNECT`, pausing and lenient headers, which
  no caller turns on.
* The text of SQL statements and of requests: names and passwords are atoms, with or
  without a quote, and what a statement does that a quote has changed is any select or
  any insert.
* `init` of the MySQL pool while callers are inside it. `main()` loads the
  configuration before it starts the server; a reload later would be exposed.

## 7. Plan

* `FdTable`: `m_fdContexts` and `m_datas` with their unlocked checks and
   `fd * 1.5` growth (a late grower may shrink the table), the `FdCtx` flags and
   timeouts behind `fcntl`, `ioctl`, `setsockopt`.
