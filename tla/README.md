# TLA+ models of fcgipp

fcgipp is a small FastCGI application server: one process (forked by a
spawn-fcgi of its own) takes requests from a web server over a Unix or TCP
socket, hands them to a pool of worker threads, and answers from MySQL and Redis.
These modules model the parts in which threads, signals, partial reads and
writes, retries and failures meet, and the decoders, whose boundaries are easy to
miss; TLC checks them on small instances and TLAPS proves most of the safety results
for every instance.

Run `tlc -config <cfg> <MC module>` for a check (the table below) and
`tlapm <module>` on each `*Proofs` module for the proofs. `PROJECT.json` maps every definition to
the lines it models, lists the hazards and, for each property, a deviation of the
code that breaks it (the operators marked *deviation* in the modules; nothing else
uses them).

## The system

```
web server --- socket --- FcgiPoll (epoll, m_recvThread) --- fcgiapp input
                              |  GetRequest()                (records -> params, stdin)
                              v
                      Manager::m_requestList + m_semaphore
                              |  one pop per worker
                              v
                      RequestHandler in m_workThreads --- fcgiapp output --- socket
                        |  HttpEnv: ParseHeader, ParseBody    (stdout, stderr -> records)
                        |    (Multipart*, Helper, jsoncpp)
                        +--- MySQL, Redis, other servers over HTTP (HttpSender)
signals: SIGTERM -> Manager::Stop() (any thread)   SIGUSR1 -> reopen the log (any thread)
every thread -> logger queue -> log writer thread -> g_log_fd
```

| Component | State | Operations | What is hard | What makes it correct |
|---|---|---|---|---|
| Manager (Server/Manager.cpp) | m_stop, m_requestList, m_semaphore, threads | Start, Join, Stop, Receiver, Handler, SignalHandler | Stop() in a signal handler of any thread; interrupted sem_wait; a null request at shutdown | no request lost, duplicated, stranded; the null request never handled; SIGTERM ends the process |
| FcgiPoll (libFcgi/FcgiPoll.cpp) | three atomics, m_waking, m_block, epoll set, sockets | Listen, Start, Stop, Wake, PollRequest, CreateSocket, FinishRequest | lost wake-ups; a handler on top of the thread that holds the mutex | stopping ends a blocked call; null exactly when stopped |
| Connections (FcgiPoll, FinishRequest, OS_Close) | descriptor numbers, epoll set, queue of requests | accept, poll, read, handle, finish, close | numbers are reused while another thread still means the old connection; level-triggered polling of a connection a worker owns | a response reaches its own connection; no open connection falls out of sight; everyone is served |
| FastCGI output (fcgiapp.cpp) | per-stream buffers, raw mode, nWriters, error flags; buffers of a conversion | PutStr, FFlush, FClose, Finish_r, VFPrintF | buffer limits, nested calls, writes that fail half-way, order of closes, buffer sizes worked out before formatting | the peer receives exactly the response, its end last; no reuse of a broken connection; what is formatted fits |
| FastCGI input (fcgiapp.cpp) | record position (contentLen, paddingLen, skip), buffer, stream type | FillBuffProc, ProcessHeader, GetStr, ReadParams, ReadRequest | arbitrary splits of the byte stream, EAGAIN, EOF inside a record | the same request for every split, or an error FCGX_GetError tells of |
| Logger (libCommon/logging.cpp) | two queues, mu_, two condition variables, stopped_, g_log_fd; the directory, g_log_set, sizes | Log, Flush, AsyncWriter, Start, destructor, reopen; rotation, removal, RecoverHistory, setters | two queues drained with and without the lock; Flush's broadcast; exit() under running threads; close/assign of the descriptor; removal by name, and by which name; a hand-kept total | no line lost or reordered, Flush and exit come back after what they promise, no line to a client, only the oldest files go |
| Request, HttpEnv (Server/Request.cpp, HttpEnv.cpp) | params, cookies, languages, query, form | ParseHeader, ParseBody | pairs cut by look-ahead; a body that is no C string | the fields as they were sent |
| Multipart form (Server/Multipart*) | parser state and lookbehind, reader's header, handler's part, temporary files | feed, onHeader.. onEnd, DoParse, destructor | chunk boundaries; data that looks like the boundary; failing write and mkstemp | the same form for every chunking; no file or descriptor left |
| Handler's clients (Server/BaseHandler.cpp) | a Redis and a MySQL connection | constructor, any member, destructor | both fail independently | the pair is connected, used and let go |
| Redis client (libCommon/RedisHelp.cpp) | context | every command of the client, pipeline, reconnect | a command issued twice; a new connection in another database; replies left behind | how often a command may be applied; results tell; each reply goes to its command |
| MySQL access (libCache) | connection, a static prepared statement | Connect, Reconnect, statements | a connection lost before or after an update | results tell what was applied |
| Spawning (Server/main.cpp, SpawnFcgi.cpp, fcgios.cpp) | socket paths and ports, processes | bind_socket, bind_unix_socket, spawn, OS_CreateLocalIpcFd, OS_SpawnChild | launches at the same path; kill at any step | the path of a server that is up is kept |
| OS layer (fcgios.cpp, fcgiapp.cpp) | shutdown flags, async table, post sets | FCGX_Accept_r, OS_Accept, signal handlers, OS_DoIo, OS_AsyncRead/Write, OS_Close | a signal between two tests; callbacks that close descriptors already posted | shutdown ends accept; every asked operation calls back |
| Configuration (Server/ServerConfig.cpp) | eight settings | Load | a file cut off anywhere | settings as written, or the defaults |
| Helpers (Helper.cpp, HttpSender.cpp) | - | codecs, calendar, search and replace; HTTP requests | edges of the calendar and of int; self-overlapping patterns | conversions invert each other |
| jsoncpp (vendored, used by all JSON code) | a Value; a Reader's errors | parse, write, get, set, resize, remove, Path | integer limits, nesting limit, arrays with holes | a document means the same to the reader as to the writer |

## Modules

RECURSIVE operators are kept out of the modules that are proved about (Manager,
FcgiPoll, Connections, FcgiWriter, FcgiPrintf, FcgiReader, AsyncLogger, RedisHelp,
MySQLBase, BaseHandler, OsAsync, Launch). The theorems about a module M and its
companions are in `*Proofs` modules of their own.

### Requests and threads

**RequestSource** is what a FcgiPoll promises its owner: a call returns a request only
if the source is not stopped at that moment, null only if it is, and does not stay
blocked on a stopped source. Manager is written against it; FcgiPoll implements it.

**Manager** (`m_stop`=`stop`, `m_requestList`=`queue`, `m_semaphore`=`sem`) has a
program counter per thread: `main` (Start, Join, destructor), `recv` (Receiver),
`work[w]` (Handler) and `term[t]`, the SIGTERM handler, which may start in any live
thread - the log writer `Other` included - and suspends it. What is done under
m_requestMutex is one action, since the list is accessed nowhere else; each read of
m_stop, each sem_wait, each iteration of the post loop is its own step. A wait may be
ended by a signal (`InterruptWait`), whose result the code ignores. The request built
from PollRequest's null pointer is `Phantom`. Handle() is the time between taking a
request and finishing it.

**FcgiPoll** has the atomics one access per step, the wake-up pipe as a byte count, the
epoll set as `polled`, and the polling thread's place in PollRequest as `pc`.
`CallStop(t)` starts Stop() on top of any thread. A connection is `new`, in the
`backlog`, `open`, `busy` (with a worker), `dropped` (read but not returned because the
source was stopped) or `closed`; a client sends a whole request or one that ReadRequest
fails on, and only while no request of its own is under way.

**Connections** forgets the threads' flags and keeps the numbers. `accept()` gives a
connection the lowest free number, m_sockets and the epoll set hold numbers, and a
worker's Request holds the number it was read from; what a thread does to a number
happens to the connection that has it at that moment. A web server may keep its
connection (FCGI_KEEP_CONN), hang up early (`Rude`) or send the rest of a request
later. `disturbed` is a history variable: the connections that were read or closed by
the receiver while a worker had a request of theirs, and the kept ones that have
something to read when FCGX_Finish_r closes them after a failed write, while they are
still polled (`ClosingPolled`).

### FastCGI records

**FcgiResponse** is the promise about one response; **FcgiWriter** implements it. The
worker's nested calls are an explicit stack `todo`; a socket write passes everything
on to the peer's record parser, or fails after a prefix. Sizes are scaled: headers of
2 for 8, buffers of 6 for 512 and 8192. **FcgiPrintf** is FCGX_VFPrintF: for each piece
of a format the buffer it takes (the one of 100 bytes or one it allocates) and the
length sprintf then makes, in real lengths. A long double has two exponents: its own,
which sprintf prints, and that of the double it is cast to before the buffer is
reckoned.

**FcgiInput** is the promise about reading one request; **FcgiReader** implements it. The
byte stream is `wire`, positions in it stand for the pointers into the buffer, and a
read returns any number of bytes up to the buffer's size or fails. FillBuffProc,
ProcessHeader, GetStr and ReadParams call each other recursively, so again the stack is
explicit (`todo`) and `ret` is what the last call returned; each iteration of
FillBuffProc's loop is one action, named for what it does. Bytes are symbols: part i of
a header, a length, padding, or data told apart by where it was sent. Reading other
bytes as a header yields any of the constant `Misread`; what happens then is explored
but nothing is promised. The history variable `mixedUp` marks how the code gets there
without an error: padding forgotten by SetReaderType, `skip` left set by a record
without content, and the content of an unknown management record.

### Logger

**AsyncLogger** has both queues, the writer's place in AsyncWriter, each thread's place
in Log()/Flush()/exit(), the process's descriptor table, and the SIGUSR1 handler's
open, close and assignment as separate steps. The histories `order` and `handled` are
what was pushed and what the writer took, `astray` what was written to something that is no
log. `raced`, `overlap` and `unasked` are
history variables that mark the executions in which the code makes no promise: a
handler closing the descriptor under a write, two handlers at once, a spurious
wake-up of Flush().

**LogFiles** is the directory behind it: GetNewLog, RecoverHistory, the setters, the
daily file, rotation by size, removal by count and total size, the symbolic link, and
restarts. A file is a number in the order of the names. The log's name is given bare or
with its directory ("./name"); RecoverHistory stores what it finds as "./name" whatever
was given, so that g_log_set holds paths, two for each file, and not files: `twice`
marks that one stands there under both. Another process may remove a
file between two calls. `stuck` marks RecoverHistory's loop that finds nothing left to
remove, `unnamed` a limit set before there is a name, `elsewhere` a file removed by
somebody else. What the program writes
is run together: **MCOutput** runs streams, formats or log files.

### What a handler learns and does

**MultipartHandler**, **MultipartParser** and **HttpEnv** extend each other: the
callbacks on a form (with temporary files, descriptors and failing calls), the parser's
states one byte per action with its lookbehind and write-back of locals, and
ParseHeader, ParseBody and DoParse around them. Bytes are symbols, words the code never
takes apart are one symbol. What follows a buffer in memory is any of `Garbage`.

**Json** is the Reader of jsoncpp (tokens, numbers with limits `MaxInt`,
`MaxLargestInt`, the nesting limit `StackLimit`, error recovery) as operators over
symbols; **JsonWriter** the four writers (fast, styled with its `RightMargin`, stream,
and the builder's); **JsonValue** a state machine of calls on a Value and a Path, next
to what json.h's comments say the calls mean (`want`). **Helper** has the codecs, the
calendar and the search functions, one call per behaviour; **HttpSender** the requests
this program sends, which HttpEnv then reads as another instance of it would;
**ServerConfig** is Load().

**RedisHelp**, **MySQLBase** and **BaseHandler** are a handler's two clients and the
handler that owns them. The client's functions are rows of tables (how a function
sends, its command, what replies it takes for success); redisCommandMy's second
attempt, Reconnect and the pipeline's two loops are actions. A reply may be lost before
or after the server applied the command. `astray` marks a connection that was made
again after another database had been selected. **MCHandler** runs one of all these
parts per behaviour, told apart by the variable `scene`.

### Launching and the OS layer

**Launch** has main()'s options, SpawnFcgi's system calls, and a gateway's
OS_CreateLocalIpcFd, OS_SpawnChild and OS_FcgiConnect, of launches that run at the same
time; each system call is a step and a process may be killed before any. A launch that
was started without a standard input gets descriptor 0 for its socket, which is what
the child's close(0) and dup2 then meet; listen() on a port fails once another socket
bound to it listens. **OsAccept** is
FCGX_Accept_r over OS_Accept for connections of eight kinds, with SIGUSR1 between any two
steps; read() blocks on a client that is silent, and nothing obliges one to speak or
leave; `stale` marks a retry that left the number of a closed connection in `socket`.
**OsAsync** is the asynchronous table, the posting of ready operations by OS_DoIo and
callbacks that ask for more or close; `closedPosted` marks a posted operation closed
before it was called back, and a signal during select() ends in `exited`. **MCOsLayer**
runs one of the three per behaviour.

## Runs

| Run | Bounds | Shows |
|---|---|---|
| manager | 2 workers, 2 requests, 1 SIGTERM, fair | TypeOK, NoStrandedRequest, PhantomNeverHandled, RequestConserved, TakenInOrder, TermEndsProcess, DeliveredIsFinished |
| fcgi_poll | 1 client sending once, 2 Stop() calls, 1 stray signal, fair | NoLostWakeup, StopReturns, ImplementsSource, StopEndsCall |
| connections | 3 connections (kept, rude, plain) over 2 descriptors, 1 worker, 2 requests each, fair | OwnAnswers, Watched, Served |
| fcgi_writer | streams over buffers of 6 with headers of 2, 6 bytes of output and 1 of errors, writes of 1 and 5, failures after 0 and 3 bytes; or one of 20,000 formats; or 3 days of log files, the log named bare or with "./", 3 setter calls, 2 lines | TypeOK, ConversionsFit, FlushMakesRoom, ImplementsResponse, OnlyOldLogsGo |
| write_after_error | the streams above | the comment of SetError is refuted (see Findings) |
| fcgi_reader | 10 requests of up to 12 records, reads of 1 to 4 bytes, headers of 2, fair | HeadersAreHeaders, ImplementsInput, CallsReturn |
| params_until_eof | one request whose parameter is cut in two records | ReadParams' comment is refuted (see Findings) |
| padding_skipped | one request with a padded BEGIN record | FillBuffProc's comment is refuted (see Findings) |
| async_logger | 2 threads with 1 line each, 1 SIGUSR1, 2 descriptors, 1 client, a spurious wake-up in one thread, fair | LinesConserved, LinesWritten, LinesReachLog, CallsEnd |
| handler | buffers of 1, 2, 3, 7, 25 and 1000 bytes, one failing system call; JSON with integers up to 7 and 31, nesting 4, margin 14; 4 calls of Value; every day from 1970 to the overflow in 2038; every function of both clients, 2 databases, loops over up to 2 values, failures anywhere; one client is used at a time | FormAsSent, NothingLeft, UrlFieldsAsSent, JsonAsMeant, ContainersAsMeant, CodecsInvert, AppliedOnce, ResultsTell, RightDatabase, RepliesInStep |
| os_layer | 2 launches with up to 2 forks, with and without a standard input; or 3 callers of eight kinds and 2 SIGUSR1; or 2 descriptors in an asynchronous table of 2, fair | PathKept, ShutdownEndsAccept, PostedIsDue, AsyncCompletes |
| listen_socket | the launches above | OS_SpawnChild's comment is refuted (see Findings) |

Some runs check parts that share no state: a variable `scene` (in MCOutput,
MCHandler and MCOsLayer) picks one part in the initial state and the
others stay still. Each property speaks of one part and holds of the others because
they do not move; the deviations in `PROJECT.json` show that every part is explored.

### What the properties say

- *Requests* (Manager). A queued request has a token or an awake worker
  (NoStrandedRequest); it is in one place only, from the receiver to its Deleter
  (RequestConserved), is taken in order and finished; the null request is never handled;
  SIGTERM ends the process however it falls (outside Start()).
- *Wake-ups* (FcgiPoll). While a stopped source has its thread in epoll_wait there is a
  byte in the pipe or somebody about to write one; Stop() comes back also when it
  interrupts the thread that holds m_wakingMutex.
- *Connections.* OwnAnswers: a response reaches the connection its request came from,
  unless a connection has something to read, or hangs up, while a worker has its
  request (`disturbed`). Watched: every open descriptor is polled,
  owned by a worker, or on its way between the two, disturbed or not. Served: as long as
  nothing is disturbed every request sent in one piece is answered, however often the
  descriptors run out.
- *Output.* ImplementsResponse is the refinement: the peer's records are those of an
  abstract response until the first failed write, and after it the connection is not
  kept. FlushMakesRoom: EmptyBuffProc never leaves a full buffer behind without an
  error. ConversionsFit: no sprintf writes past its buffer, except in the two cases the
  property names: a field at least as wide as all that
  was reckoned with has no room for the terminating zero (`wide`), and a long double
  beyond double's range is taken for one without digits (`narrowed`).
- *Input.* ImplementsInput is the refinement: the handler reads a prefix of what was
  sent, all of it unless there was an error; HeadersAreHeaders: what is parsed as a
  header is one, unless `mixedUp`; CallsReturn.
- *Logger.* Lines keep their order and none is lost between Log() and write();
  Flush() and exit() return only after what came before is written, and do return; a
  line goes to the log and never to a client that was given its descriptor; trimming removes logs only, the oldest
  first, and under a limit of their number not the one in use (unless a file whose name
  goes on after the log's counts as a newer one, or, when the log is named bare, as an
  older one). None of that holds once a file stands in g_log_set under two names
  (`twice`), as it does when the log is named without "./" and its directory is read
  after it was opened: the log in use may then go.
- *Clients.* AppliedOnce: how often a command may take effect: once, or up to three
  times if the client connected again meanwhile; ResultsTell: a function that looks at
  its reply reports success only for what was applied, in Redis and MySQL; RightDatabase: commands go to the database selected
  (`astray` excepted: Reconnect authenticates and does not select); RepliesInStep: a
  command gets the reply of its own, also after a pipeline that failed half-way.
- *Bodies.* FormAsSent compares the form with the fields sent, for every chunking, with
  data made of boundary prefixes, truncation and failing calls; NothingLeft: after the
  destructor no temporary file is left unless a write failed, and no descriptor after a
  complete form.
  UrlFieldsAsSent, JsonAsMeant, ContainersAsMeant and CodecsInvert compare decoders with
  the encoders on the other side, this program's (HttpSender, the JSON writers, Helper)
  or the client's. Their exceptions: an empty value at the very end of a query; fields without a name;
  documents that are neither object nor array, after which the reader runs on into
  whatever follows the buffer; doubles of 2^63 and 2^64 in conversions to integers;
  arrays with holes (`strayed`); a replacement pattern that overlaps itself; days
  after the overflow of 2038.
- *OS layer.* PathKept: a server that is up keeps its path and its port, who serves has
  its launch's socket as descriptor 0, and a gateway reaches the socket it made or
  nobody - whether somebody accepts there is another matter: the application a gateway starts
  without a standard input has lost its socket (ClosesItself, ListenSocketIsSet). Gateways,
  which do not ask who is there, and launches that overlap (`raced`) are excepted.
  ShutdownEndsAccept: after SIGUSR1 FCGX_Accept_r comes back, but for a kept connection,
  the window before accept() (`missed`), a closed number in `socket` (`stale`), and a
  silent client, in whose first read the call may be or end up (read() has no time limit).
  PostedIsDue: the counters agree with the post sets until a posted operation is closed;
  AsyncCompletes: what was asked for and is ready calls back, unless that happened or a
  signal found select() waiting, which ends the process.

### Why the bounds are enough

Two workers and two requests give a queue that empties and refills while one worker is
interrupted and another takes (more workers are the proofs' concern); two
Stop() calls are the fewest that overlap, which the self-deadlock of Wake() needs; three
connections over two numbers give a number to a second connection while the first is
still meant, and leave accept() without one. A buffer of 6 with headers of 2 can be
empty, partly filled, padded and full, in raw mode and out of it; reads of up to four
bytes end anywhere in a header, content or padding and also hold two of them, and the
requests have each kind of record in each phase, padded, empty and cut in the middle of
a pair. Two lines of two threads fill both logger queues at once; one SIGUSR1 and a
spare descriptor let a client take the number of the closed log; three days, a limit of
one and another name in the directory let trimming remove, meet a missing file and run
out. Buffers of 1 to 25 bytes cut a form at every byte, between lookbehind and boundary
included, and 1000 not at all. Four calls build an array with a hole and shrink it. Two
launches are the fewest that meet, and two descriptors the fewest whose callbacks can
close one another. Bounds that only limit how long a run goes on are named `Max...` in
the modules.

CHECK_DEADLOCK is FALSE where a server with no more requests, clients, signals or lines
rightly waits for ever (manager, fcgi_poll, connections, async_logger, os_layer, listen_socket); the
other runs check deadlock.

### Fairness

Every thread that can run does (weak fairness of each thread's own steps) and a signal
handler returns to its end. No new request, client, signal, exit() or spurious wake-up
is ever owed. The writer's FairSpec adds strong fairness of the handler's last call,
FCGX_Finish_r, since a handler calls PutStr a bounded number of times. Connections has
strong fairness of the receiver's choice of a ready descriptor: epoll_wait reports what
is ready in rotation, so none is passed over for ever; and a web server does ask on a
connection it opened and leaves once it is satisfied. OsAccept is fair to the library
alone, and a read of a silent client is no step of the library's that could be taken;
OsAsync to OS_DoIo, which a program calls in a loop. RequestSource's liveness
(StopEndsCall), assumed by Manager as weak fairness of GetPhantom, is what the fcgi_poll
run checks of FcgiPoll.

## Findings

*SetError's comment* ("writes have no effect", fcgiapp.cpp:910-912) does not describe
the code: after a failed write FCGX_FClose writes the whole buffer again, including
what had been sent (run write_after_error).

*ReadParams' comment* ("until EOF", fcgiapp.cpp:1107-1108, with EOF meaning that "the end
of input has been reached", line 62): a failed read looks the same, so a request whose
next segment has not arrived yet is handed over with the parameters read so far (run
params_until_eof). Sockets are non-blocking, and FCGX_GetError is not asked before the
response is finished.

*FillBuffProc's comment* ("if the current record was padded, skip over the padding",
fcgiapp.cpp:1645-1648) does not hold for the BEGIN record and for the record that ends
the parameters: SetReaderType clears paddingLen first (run padding_skipped).

*OS_SpawnChild's comment* ("If the listenFd is already the value of FCGI_LISTENSOCK_FILENO
we're set", fcgios.cpp:473-477): line 471 has just closed that descriptor. Started without
a standard input, a gateway runs an application that has no listening socket (run
listen_socket).

Three more comments promise what the code does not keep; no run is about them, but a property
names each as an exception, and without the exception TLC finds it violated:

- "compute an upper bound on the amount of buffering that sprintf will require"
  (FCGX_VFPrintF, fcgiapp.cpp:446-449): the bound lacks the terminating zero for a field
  as wide as the buffer (`wide`), and takes the exponent of a long double after a cast to
  double (585), which beyond double's range leaves an infinity, whose exponent is 0
  (`narrowed`). See ConversionsFit.
- "If there were no completed events from a prior call, see if there's any work to do"
  (OS_DoIo, fcgios.cpp:792-795): it asks the counters, which OS_Close and OS_CloseRead
  leave as they are when they drop a posted operation; select() is then never called again
  (`closedPosted`). See AsyncCompletes.
- "Resize the array to size elements" (json.h:839-840): shrinking an array to a size whose
  last element was never set gives a smaller one and throws (`strayed`). See
  ContainersAsMeant.

Windows in which the code keeps less than one might hope are marked by history
variables and excluded by name: SIGTERM inside Start() (`early`, `overlap` of FcgiPoll),
SIGUSR1 between the writer's read of g_log_fd and its write (`raced`), two SIGUSR1
handlers at once (`overlap` of AsyncLogger), a spurious wake-up in Flush() (`unasked`),
records that put the reader out of step (`mixedUp`), a connection the receiver touches
while a worker has it (`disturbed`), a Redis database lost with its connection
(`astray`), a signal in the window before accept() (`missed`), after a retry (`stale`) or before the
read of a silent client, a signal during select() (`exited`), launches at the same path
together (`raced` of Launch), limits set before the log has a name (`unnamed`), a log under
two names (`twice`). No document of the repository promises anything there, so they are hazards
and not findings, and the properties do not catch them: the notes in PROJECT.json say so.

## Proofs

Each theorem holds for all values of the constants that satisfy the named assumptions;
TLC evaluates the assumptions in the runs.

| Module | Theorems | Assumptions |
|---|---|---|
| ManagerProofs | TypeCorrect, NoRequestIsStranded, PhantomIsNeverHandled, RequestsAreConserved (RequestConserved), RequestsAreTakenInOrder (TakenInOrder) | ThreadsAssumption, BoundsAssumption |
| FcgiPollProofs | NoWakeupIsLost (NoLostWakeup), NoSelfDeadlock, PollsAsPromised (ImplementsSource) | DistinctAssumption |
| ConnectionsProofs | NoDescriptorIsLost (Watched), ResponsesReachTheirOwn (OwnAnswers) | ConnsAssumption |
| OutputProofs | BuffersNeverOverflow (TypeOK of FcgiWriter), FlushAlwaysMakesRoom (FlushMakesRoom), BuffersSuffice (ConversionsFit), ResponseIsDelivered (ImplementsResponse) | LengthsAssumption, FormatsAssumption |
| FcgiReaderProofs | HeadersAreFound (HeadersAreHeaders) | LengthsAssumption, RequestsAssumption |
| AsyncLoggerProofs | NothingLoggedIsLost (LinesConserved), FlushWaitsLongEnough (LinesWritten), ReopenKeepsOneLog (LinesReachLog), HandlersSpareClients, OldLogsGoFirst (OnlyOldLogsGo) | LoggerAssumption, FilesAssumption |
| BaseHandlerProofs | CommandsAreSentOnce (AppliedOnce), ResultsAreTrue (ResultsTell), CommandsGoWhereSelected (RightDatabase), RepliesStayInStep (RepliesInStep) | RedisAssumption |
| OsLayerProofs | CountersAgree (PostedIsDue), PathIsKept (PathKept), StrangersAreNotServed (the safety part of ShutdownEndsAccept) | FdsAssumption, CommandsAssumption |

The arguments, by inductive invariant:

- *Manager.* `TypeOK /\ BootOrder /\ StopOrder /\ NoStrandedRequest /\
  PhantomNeverHandled`. BootOrder says what the receiver can have done by when: nothing
  is queued or fetched before Start() spawned it, and when it is about to push it has
  fetched something. StopOrder ties the two flags to the SIGTERM handlers: once Start()
  has cleared them fcgiStop implies stop, since Stop() sets m_stop first. A phantom
  fetched or queued therefore implies stop, and that keeps it from PopRequest, which
  re-reads m_stop under the lock. NoStrandedRequest counts a finite set that one action
  changes by one element. Conservation and order need more: requests are numbered as
  they are delivered, so whoever holds one holds a smaller number than the queue, which
  is sorted, and the receiver's is the largest (OnePlace).
- *Wake-ups.* `WakeComes` names who still has to write a byte. m_accept is set once, by
  Start(); the Stop() that clears it is then bound to write, and any other may leave
  that to it (AcceptGone, StopKept). OneByte (the pipe holds a byte just when m_waking is
  set) and MutexHeld give that no handler waits for the thread it interrupts. The
  refinement of RequestSource follows from Answered.
- *Connections.* A number that is open and not polled is in the hands of the thread that
  closes it or polls it again next (PolledOrClosed), and no connection
  has two numbers, nor one after it is closed (OneNumber): that is Watched. Responses need that what somebody holds has
  one holder and stays what it was (Owned: in the queue, in a job, with the receiver),
  which is true while no connection is disturbed. The attempt to prove it showed that a
  kept connection whose stream failed is closed while still polled, and that the model
  had to count it among the disturbed.
- *Output.* The buffers hold because they are multiples of what records are padded to
  (lemmas about AlignInt8), as long as the buffer is whole, and because of how the calls
  nest: nothing encapsulates or ends a stream after its end (Stack, ClosesOnce). For
  FCGX_VFPrintF each conversion's length is bounded by what was reckoned for it.
  The response is right because a buffer holds just what the server's parser does not
  have yet, as plain bytes or as one record (Settled), or, once a stream has written its
  close records, because what the buffer holds and what is still to be put is heard as
  the end of the stream and of the request (Ending), whatever part of it a failing
  write gets through (Heard); and FCGX_Finish_r frees the streams only after both are
  closed (Freed). What the parser makes of a sequence of records is found by induction
  on its length.
- *Input.* What is sent is framed (lemma WireIsFramed). The invariant is that the
  reader's position and what it has counted of the present record always make the end
  of a record - where a header may be partly taken, or ProcessHeader reading a body
  through FCGX_GetStr on the very buffer that is being filled - until an error or one
  of the mix-ups (`Sound`). It rests on which calls can be under way, and under which
  (Stack, Under), and on what a call is told when the one it waits for returns (Told,
  Counted).
- *Logger.* Both queues and what the writer holds make up everything pushed and not
  handled, in order; when the writer broadcasts or stops they are empty (Told, Stopping). The
  descriptor of the log is followed through a handler's open, close and assignment
  (LogsNow, InLog). Of the files: the loop removes the first of the remembered names,
  and a limit of their number, being positive, leaves one (Trims); as no log is newer
  than the one that is open (NoneNewer), the one left is either it or Stray. As g_log_set
  holds paths, that needs each file to have one place in their order: only logs that were
  opened stand there bare, and until one of them is found a second time those found come
  before all of them (Spellings).
- *Clients.* Of the functions' tables the proof needs a few facts about each row (Row).
  What a call reports rests on what its last reply implies while it is there (Replied,
  Hit) and, for functions that test the key first, on what the test showed (Tested); a
  command's count on where in redisCommandMy it is (Sent); the database on how many
  times it was selected since the connection was made (InDatabase).
- *OS layer.* The counters agree with the sets because a descriptor is posted out of
  those asked for and its entry stays in use until worked off (Asked, Counted). A path
  is kept because one launch at a time is on its way to it unless `raced` (Path), so
  what it found when it asked who listens there still holds when it unlinks. A client
  is served because OS_Accept returns only what passed its test; a number it closed
  itself stays in `socket` and would fail the test again (InHand, Served).

Functions over sequences (FlattenSeq, the logger's queues) are dealt with by induction
on their length, through a lemma that a set of numbers with 0 and all successors is Nat;
it is proved from the well-foundedness of < by a least counterexample.

Only model-checked:

- all liveness (TermEndsProcess, DeliveredIsFinished, StopReturns, StopEndsCall, Served,
  CallsEnd, CallsReturn, AsyncCompletes) and ShutdownEndsAccept's part of it: fairness
  and ENABLED are beyond these provers;
- ImplementsInput, which says what parameters and body the reader makes of all the
  records of a request: ReadParams would have to be followed through every cut;
- what the decoders compute (FormAsSent, NothingLeft, UrlFieldsAsSent, JsonAsMeant,
  ContainersAsMeant, CodecsInvert): their modules are RECURSIVE, and what a recursive
  function computes for every input would take induction over data.

## Not modelled

- RequestHandler::Handle: application code; what it can call is modelled.
- Code conversion (libiconv), the profiler, Helper's random strings, MakeDir, CopyFile
  and vform, md5: sequential calls into libraries without state of their own.
- FCGX_PutChar, GetLine, UnGetChar, StartFilterData and HasSeenEOF, which are variants
  of modelled calls or have no caller.
- jsoncpp's OurReader and CharReader, iterators and comments; the text of a Path
  (makePath), whose parsed arguments are what the model takes.
- The headers of hiredis and of the MySQL connector, precompiled-header listings,
  Makefiles.
- Windows and locking variants of the OS layer, which the build leaves out.

Behaviour that is seen and not modelled, because it lies below what these modules tell
apart: malloc and other calls that are not async-signal-safe inside the handlers
(Manager.cpp:119); the FCGX_Request PollRequest allocates and nobody deletes
(FcgiPoll.cpp:125), a leak without effect on what is sent; static destructors that run
under other threads when a handler's constructor calls exit() (BaseHandler.cpp:17); a
SIGTERM handler still inside Stop() on the log writer's thread after Join() returned
(Manager.cpp:62); a second SIGUSR1 inside the handler of a first, which leaks a
descriptor (logging.cpp:69; AsyncLogger marks it `overlap` when more than one signal is
allowed).

## Plan

Done: the modules above, their runs, and the theorems of the Proofs section.

To prove next: ImplementsInput's parameters and body on top of HeadersAreFound.
