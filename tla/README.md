# A verification project for restful-webserver

TLA+ models of the web server in `src/src`, TLC runs that check them on small
instances, and TLAPS proofs of the properties of its shared-state core. Paths below
are relative to `src/src/` unless they begin with `docs/` or `tests/`.

The modules follow the code at the commit in this repository: each definition that
models code is listed with its source lines in `PROJECT.json` ("map").

## 1. The system

A configuration file is parsed, a server is built from it, and a number of worker
threads run one `io_service`. Each connection is a `session` object that deletes
itself; each request gets a handler object of its own, made by the factory its
location names. Only the entity handler keeps state: files under the location's root,
and a static pool of mutexes, one for each root in use.

```
 config file -> NginxConfigParser -> parse_config -> routes
                                                       |
 main -> init_threads -> N x io_service.run()          v
            ^ SIGINT, SIGTERM        server -> session -> routing -> factory -> handler
                                     accept    read, write                     |
                                                            MutexPool <- EntityHandler -> files
```

| component | state | operations | talks to |
|---|---|---|---|
| mutex pool (`server/mutex_pool.h`) | `mutex_pool_`, `mutex_count_` under `map_mutex_` | `insert`, `request`, `erase` | called by entity handlers |
| entity handler (`server/request_handlers/entity_handler.cc`) | `base_dir_`, the static pool, a `shared_ptr` to the mutex of its root | constructor, `handle_request` (POST, GET, PUT, DELETE), destructor | pool, entity files, session |
| entity files (`server/filesystem/`) | `<root>/<name>/<id>` | `exists`, `read`, `write`, `remove`, `list_ids`, `next_id`, `check_id` | entity handler |
| session (`server/session.cc`) | `data_`, `request_buffer_`, `current_response_`, `already_deleted_`, the socket | `start`, `handle_read`, `handle_write`, `safe_delete` | io_service callbacks, routing, handlers |
| server (`server/server.cc`) | the acceptor | `start_accept`, `handle_accept` | sessions, io_service |
| main, worker threads and shutdown (`server/startup_utils.cc`, `server_main.cc`) | threads, promises and futures, the signal wait | `main`, `parse_arguments`, `init_threads` | startup, server, io_service |
| config parser (`config/config_parser.cc`) | the tree, `config_stack`, `last_token_type` | `ParseToken`, `Parse`, `ToString` | startup |
| startup configuration (`server/startup_utils.cc`) | port, route map, set of serving paths | `parse_config` | config parser, server |
| routing and registry (`server/session.cc`, `handler_registry.cc`) | the routes, the factories (both constant after startup) | longest prefix, factory lookup | session |
| request and response framing (`session.cc`, `request_handler.cc`) | `request_buffer_`, `data_` | the loop of `handle_read`, `ParseRequest`, `ToString` | session |
| static file handler (`static_file_handler.cc`) | none; reads files other processes change | `handle_request`, `is_path_safe`, `read_file` | session |
| echo, health, sleep, not-found handlers | none | `handle_request` | session |
| mock file system (`mock_filesystem.cc`) | `data_` | as the entity files | unit tests |
| logger, exception types | none that the server shares | | |

### What is hard about it

* **Interleaving.** The workers run entity handlers at the same time. The mutex of a
  root comes and goes with the handlers that use it, and the pool must never hand out
  two for one root, nor have none when one is asked for (`mutex_pool.h:36`, `:49`).
  `next_id` and the file it leads to are two steps (`entity_handler.cc:74`); so are the
  truncation of a file and its flush (`real_filesystem.cc:50`).
* **Callbacks on shared objects.** There are several threads and no strand. A session
  is safe only as long as one operation of it is pending at a time; it is freed by
  `delete this` in whichever handler sees an error.
* **Streams.** A read brings part of a request, or several; two limits in different units
  of the protocol apply to what is buffered (`session.cc:106`, `:142`).
* **Other processes.** A static file is looked up by name up to seven times in one request
  (`static_file_handler.cc:72-237`).
* **Failure in the middle.** Constructors, `create_directories`, handlers and
  `std::stoul` throw past `handle_read`, which ends the worker. The `std::filesystem` calls
  of the handlers throw on every error but "not found": under the lock of an entity handler
  that is caught and answered, in the static file handler it is not caught.
* **Crashes.** Entity files are written in place.
* **Ordering at shutdown.** Threads end by a signal or by an exception, main joins in
  one order and asks futures in the same one.
* **Numbers.** `max_id + 1` overflows; the port goes through a `short`.
* **Ownership in the parser.** A stack of raw pointers into a tree of `unique_ptr`s.

What makes each component correct is listed with its module below; all hazards, with
the line where each bites and the properties that would catch it, are in
`PROJECT.json`.

## 2. The modules

### Entity handlers: `MutexPool`, `RealFilesystem`, `EntityHandler`, `EntityStore`

`MutexPool` and `RealFilesystem` are the operators of their classes; `EntityHandler`
composes them. A worker's `pc` names the statement it executes next, and there is one
action per statement another thread or a crash can come between:

| code | actions |
|---|---|
| constructor, its exception | `Construct`, `ConstructThrows` |
| `handle_request` before its `try` block | `OpenFilesystem`, `RequestMutex`, `Lock` |
| POST, PUT | `NextIdForPost` or `PutId`, then `CheckId`, `OpenForWriting` or `OpenForWritingFails`, `FlushData` or `FlushCutShort` |
| GET | `List`, or `ReadExists` and then `ReadData` or `ReadCutShort` |
| DELETE, other methods | `RemoveFile`, `UnsupportedMethod` |
| the last catch clause, of any of these calls that throws `filesystem_error` | `FilesystemError`, a way out of `NextIdForPost`, `List`, `ReadExists`, `RemoveFile`; `OpenForWritingFails` |
| the end of the scope | `Unlock` |
| destructor, after a return and while an exception unwinds | `Destroy` |
| kill and restart | `Crash` |

Every member function of the pool runs under `map_mutex_` and is one step. Mutexes have
addresses, and `make_shared` may return any address that nobody refers to, so that a new
mutex can have the address of an old one. Ids are model strings with a table `StoiOf` of
what `std::stoi` makes of them ("x" throws) and a small `IntMax`, so that `max_id + 1` wraps
in the runs. A file's content is absent, a body, or `Torn` between truncation and flush.

With `DiskFaults` every call on the file system can fail at any time, for any reason a real
one fails: a full or broken disk, a file that may not be used, a path that is too long. A
call that throws or cannot open its file changes nothing, and there is no bound on how often
that happens. What spoils data, a crash and a write or a read whose stream goes bad
unnoticed, is counted in `faults`, up to `MaxFaults`.

Two constructs of the code need a remark. The paths of requests are already split into
root, name and id. A root is never empty, because no configuration token is, so the
destructor's test of `base_dir_` always succeeds once the constructor has returned.

`EntityStore` is the abstract specification: calls that take effect one at a time, or fail
and have none (`Fail`), or are refused because nothing could make them succeed (`Refuse`). A
fault may end all calls and tear one entity of a root that was being written (`Crash`),
spoil a write that has taken effect and not returned (`LoseWrite`), or give a reader a part
(`GetPart`); nothing else can happen to an entity. The refinement mapping of `EntityHandler`
says when a call takes effect: a write when it truncates the file, the others at the one
step that touches the files.

Properties: `PoolCountsHandlers`, `NoMutexMissing`, `MutualExclusion`, `ReadsAreWhole`,
`PostNeverOverwrites`, `TornFilesBounded`, `LockIsReleased`, `PoolDrains`, and
`Linearizable` (the refinement).

### Connections: `Asio`, `Session`, `Server`

`Asio` is the table of asynchronous operations the code has started: pending, ready (its
handler is queued) or running. `Session` has the handlers of one connection, split where
two threads can get in each other's way; `Server` has the accept chain, all sessions, the
clients and the threads, and composes them. Session objects have addresses that are used
again after `delete`. The contents of `request_buffer_` are requests, by what the loop of
`handle_read` does with them: incomplete, a bad or too large `Content-Length`, malformed,
answered (with or without "Connection: close"), or throwing. A write is "sent" when the
kernel has taken it, "stored" while it points at `current_response_`, "overwritten" when
that string was assigned meanwhile, and "dangling" when it points at a dead local.
`StoredResponseAlive` says that no write is "overwritten". It is about the responses stored in
`current_response_`; the 413 of the size check is not stored there, and its "dangling" write
is what the code does each time (see the observations).

Undefined behaviour is a choice of outcomes: a handler that runs on a freed session does
nothing or ends the process (`Undefined`); bytes of `data_` that no read has written are
arbitrary (`FirstBytes`); two threads in one `request_buffer_` may end the process, and
otherwise leave it as one order of the two would (`Race`). The size check and the append
of `handle_read` are one step, `AppendData`.

`handle_write` tests `socket_.is_open()`; only the destructor closes the socket, so for a
live session the test succeeds and its else branch is not modelled.

Properties: `OneChain`, `StoredResponseAlive`, `NoSessionForgotten`, `ClosedIsFreed`,
`OneAccept`, `NoUseAfterFree`.

### Framing: `RequestFraming`

`Session` takes what a read delivers as whole requests. `RequestFraming` is the other half
of `handle_read`: one connection, whose bytes the network delivers in pieces of any size,
and the loop that finds the requests in `request_buffer_`. The unit is the line: a request
line, a blank line, `Connection: close`, a `Content-Length` with a number or with none, and
any of them may also stand in a body. Requests have a method and a handler, so that the
status that is written is the one of `EchoHandler`, `SleepHandler`, `HealthHandler` and the
404s, put through the `switch` of `ToString`.

| code | actions |
|---|---|
| the size check, and the append | `RequestTooLarge`, `AppendData` |
| the loop: nothing complete; a refused length | `WaitForMore`, `RefuseContentLength` |
| the loop: a request is taken | `BadRequest`, `HandlerThrows`, `RespondAndReturn`, `RespondAndContinue` |
| `handle_write` | `HandleWrite` |
| the network and the queue of the io_service | `Receive`, `Sent` |

Properties: `RequestsAreMessages`, `NoneOverlooked`, `SmallRequestsFit`, `EverythingIsRead`.

### Static files: `StaticFileHandler`

One request, with one action for each of the system calls that look the file up, and other
processes between them: they rename a file into its place, remove it, make a directory of
it, write it in place, change the symbolic links of the path, or remove the base directory.
Files have numbers, so that an open file stays the one that was opened. The ghost variables
`seen`, `written` and `moved` remember what the path has led to since the request came. Any
of the handler's calls can fail although the path is as it should be (`Fails`: no
permission, a name that is too long, no descriptor left, an I/O error): the ones of
`std::filesystem` then throw, as does the vector without a size, and a failed open or read
is a 404. `failed` remembers that one did. Opening a directory succeeds on Linux; its size
is what the file system says, so the model has both a 200 with nothing and a 404.

Properties: `ServedVersion`, `ServedFromBase`, `FailuresJustified`.

### Mock file system: `MockFilesystem`

The member functions of `mock_filesystem.cc` as operators on its map, which return a value
or throw an exception, compared with those of `RealFilesystem` in every state of the entity
files and on every map with the same entities, in which a name without entities may be there
or not (`MockAgrees`). The mock cannot fail as a disk can, so the comparison is with a disk
that does not.

### main, threads and shutdown: `ThreadPool`

`main` from its argument to its return: every step may fail into one of the catch clauses,
or succeed. `init_threads` with its three loops (spawn, join, ask the futures), a thread
that cannot be created, the workers, the one `async_wait` on the signals, and the exit code.
The port goes through the `short` of `server::server`, and for port 0 the system chooses
one. Properties: `WorkersEndFirst`, `ExitCodeIsRight`, `ListensAsConfigured`,
`SignalEndsServer`.

### Configuration: `ConfigParser`, `ConfigGrammar`, `Startup`

`ConfigParser` is `ParseToken` as an operator on positions of the text and `Parse` as a
state machine, one action per accepted transition. The tree is kept by address, as the
code does, so that dangling pointers could be seen. `ConfigGrammar` is the reference: the
grammar of configurations over token sequences (from each position, a recursive function
gives every position where a config can end), and the tokens of a tree, which are those of
`ToString`. `Startup` is `parse_config` on a parsed file, one
action per round of its loop.

Properties: `StackIsPath`, `EveryBlockHasOneParent`, `AcceptsTheGrammar`, `NothingIsLost`.

### From the file to the answer: `Routing`

`Routing` extends `Startup`: when `parse_config` has returned a payload, a request comes,
and the loop of `handle_read` tries the routes, in any order, then calls the factory. The
factory may be missing and the constructor may miss its argument; both throw. Strings are
sequences of characters. `RelativePath` is the prefix arithmetic of `StaticFileHandler`. A
location is usable when its handler is registered and has the argument it needs.
`ServedAsConfigured` says that every usable location keeps its own handler and arguments;
what the tests say of the others, that they default to the EchoHandler, is `DefaultsToEcho`,
and it is violated. The other properties allow such a location to be served by either, and
to throw. Properties: `ServedAsConfigured`, `LongestMatch`, `FileIsRestOfPath`, and
`AnsweredAsConfigured`, which compares the answer with the file, not with the route map: a
path is a set of segments with their places, and the location that serves it is the one with
the most of them.

Operators whose comment begins "Mutant of" are not part of the models. Each is a
plausible mistake in the definition after it, and the property it is listed with in
`PROJECT.json` fails when it takes that definition's place.

## 3. The runs

| run | instance | shows |
|---|---|---|
| `entity` | 2 workers, 1 root, 4 ids, 2 bodies, 2 mutex addresses, `IntMax` 2, calls that fail, 1 crash or read or write cut short | the handlers implement `EntityStore`; no torn reads; POST creates; torn files bounded by faults; pool counts, no missing mutex, mutual exclusion; the mock agrees; locks given back; the pool drains |
| `session_closing` | 2 sessions, 2 threads, 3 operations; clients that end connections | one chain per session, no stored response replaced, no session forgotten, closed ones freed |
| `session_any` | the same with kept connections and throwing requests | one accept in flight |
| `framing` | streams of up to 2 of 11 messages, reads of up to 3 lines, a buffer of 6, contents of 8 | the requests found are the messages sent; none waits; small ones fit; the connection goes on |
| `static` | 3 places, files of up to 3 bytes, limit 2, 2 changes | one version, of a file in the base; failures have reasons, or a call has failed |
| `threads` | 4 workers, 2 signals, ports 0, 80, 40000, 70000 | main outlives workers, exit code, port, a signal ends the server |
| `config` | all texts of up to 5 characters of 9, and up to 8 of `a ; { }` | pointers, grammar, tree |
| `serving` | all files of up to 4 locations of 12, paths of up to 4 characters | usable locations keep their routes; longest match; the answer is the file's |
| `safe_delete` | as `session_any`, kept connections only | **violated**: `NoUseAfterFree` |
| `pipelined` | two requests in one read | **violated**: `StoredResponseAlive` |
| `unusable_location` | files of one location | **violated**: `DefaultsToEcho` |
| `config_last_word` | texts of up to 3 characters | **violated**: `AcceptedIsTerminated` |

Why the bounds are enough:

* A conflict on a root needs two threads, one that waits and one that works. As many
  addresses as workers is what the threads can refer to at once. A third worker and a second
  root are covered by the proofs, which are for any number of both.
* Two ids that are ints, with `IntMax` 2, reach the overflow of `next_id` with one PUT.
  "-3", the int it overflows to, is one `check_id` refuses, "x" is no int. POST and PUT send
  different bodies, so a stale read differs from a fresh one.
* The requests take every way out of a handler: an id that is new, known, unknown, refused or
  missing, a method it does not know, a location without a root, and every call that fails.
* One fault comes at every step of either thread, with the other at every step of its own. That
  the torn files of several faults add up, and no faster, is proved.
* A request of two to five lines fits a buffer of six and one of seven does not; reads of
  three lines cut every message, and join the end of one with the beginning of the next. Two
  messages are the least with something behind a request.
* Files of 0, 2 and 3 bytes are below, at and above the limit. The first change
  comes between two steps of the handler and the second undoes or repeats it later; the base,
  a path within it and a neighbour `/b2` are what `is_path_safe` tells apart.
* Two session addresses are one served connection and the accept for the next, the
  least number at which the accept chain goes on; a second connection's chain would share
  only the threads. Three operations are the accept, and two of one session, the least
  number that breaks `OneChain`. `MaxRequestSize` of 2 lets one read fit, and a
  second overflow. In `session_any` a handler that finds the operation table full waits; this
  only leaves out states with still more operations of one session.
* The threads' positions depend on their number only through the loops of main: four is
  two more than the first and last.
* Nine characters tell apart all branches of `ParseToken` (`"\t"` behaves as a space and
  the double quote as the single one), and five of them put every token next to every
  other; eight marks open three blocks, so that a block is closed into one which is not
  the root.
* Duplicates, bad signatures, trailing slashes, quotes and missing ports each need at
  most two statements; four let them come in every order with a good one in between. Prefixes
  of up to four characters give two nested locations and a neighbour ("/ab" of "/a").
* The ports are 0, one below 2^15, one between it and 2^16, and one above.

`CHECK_DEADLOCK FALSE` is set where the system may stop: all workers dead after exceptions
(entity handlers, `session_any`, `framing`), a client with nothing left to send (`framing`),
main at its exit (`threads`), and the sequential programs at their end. `session_closing`
checks for deadlock.

### Fairness

* `EntityHandler`: weak fairness of each thread's statements. A thread that can run does.
  The mutex is not assumed fair: `LockIsReleased` is about its owner, and `PoolDrains` about
  clients that stop, so that the waiting threads become fewer. Building a handler has no
  fairness: clients need not send anything.
* `Server`: weak fairness of each thread; strong fairness of the dispatch of a queued
  handler, because the queue of the `io_service` is first in, first out; weak fairness of
  the kernel's reports on closed connections. None of the clients: one that neither reads
  nor closes keeps its write pending.
* `RequestFraming`: weak fairness of the client, which sends all its lines, of the kernel's
  writes, and of the handlers.
* `ThreadPool`: weak fairness of main and of each worker's handler; strong fairness of
  taking the signal's handler, which waits in the same queue.

### What the violated runs show

* `safe_delete`: on a kept connection both `handle_read` (`session.cc:318`) and
  `handle_write` (`:340`) start a read. When the client closes, both operations fail; the
  first handler deletes the session and the second calls `safe_delete` on it. The flag that
  is there "to prevent freeing the same memory twice" (`:42`) is a member of the freed
  object.
* `pipelined`: the loop of `handle_read` assigns `current_response_` for the second request
  while the write of the first points at it (`:287`, `:309`), although the member is there
  to keep "response data alive during async operations" (`session.h:43`).
* `unusable_location`: `startup_utils_test.cc` says three times, of a StaticHandler without
  a root, of one with a malformed root and of a handler nobody registered, "this is not an
  error, so it defaults to EchoHandler" (`tests/server/startup_utils_test.cc:164`, `:178`,
  `:192`), and that it "cannot check handler name". The route keeps the name in the file
  (`startup_utils.cc:106`); only a file without a well-formed location gets the EchoHandler.
  The first request to such a location throws, out of the empty factory or the constructor,
  and ends a thread (`session.cc:259`).
* `config_last_word`: `ParseToken` returns EOF for a word that ends with the file, so
  `port 80; a` is accepted without its last word, which the comment at
  `config_parser.cc:239` excludes. A newline at the end makes the same file invalid.

### Observations without a run of their own

* The 413 of the size check is written from a local string (`session.cc:116`), which is gone
  before the write is over; in the model its buffer is "dangling", in the passing runs too.
  It does not empty `request_buffer_`, nor does the 413 for a large `Content-Length` trim
  it, so each stays: the connection goes on, and every further read is refused or finds the
  same header again.
* The other 413 goes through `ToString`, whose `switch` has no case for it, and is written
  as "500 Internal Server Error" (`request_handler.cc:35`, `session.cc:146`).
* A blank line before a request ends the header loop of `handle_read` at once, so a
  `Content-Length` after it is not looked at (`session.cc:137`), although `ParseRequest` then
  finds the request line. Of several `Content-Length` lines the last counts (`:141`).
* On a kept connection several reads may be pending on one `data_` (`session.cc:318`, `:340`,
  `session.h:30`): bytes whose handler has not run are overwritten, and requests are lost or
  joined. `RequestsAreMessages` is about clients that wait, or connections that are closed.
* After a request with `Connection: close`, complete requests left in the buffer wait for
  the next bytes of the client, and are answered then.
* Whether a request near the 8 KB limit is refused depends on how the bytes arrive
  (`SmallRequestsFit` leaves `max_length` of room); with a body between 8 KB and the 1 MB of
  `max_content_length_` it always is.
* "Don't read anymore" (`session.cc:313`) is not what happens: `handle_write` reads again
  (`:340`). It is also why `session_closing` has one chain per session: after a
  response with `Connection: close` the next read comes from `handle_write` alone.
* An exception out of `handle_read` leaves its session without an operation; it is
  never deleted (`Throw` in `Session`).
* The exception a worker stores "allows main to know about a thread error"
  (`startup_utils.cc:172`) once all workers have been joined, so after a signal or
  when every worker has died.
* Port 70000 listens on 4464, while main logs 70000: `server::server` takes a `short`
  (`server.cc:14`, `server_main.cc:83`).
* A write cut short by a full disk is answered with 200 (`real_filesystem.cc:59`).
* So is a read whose stream goes bad (`:38`): the client gets the beginning of the entity.
* A request for a static file throws, and ends its thread, when a call of `std::filesystem`
  fails for another reason than that there is no such file (`static_file_handler.cc:85`,
  `:96`, `:106`, `:175`, `:176`): a name that is too long, a directory that may not be
  searched.
* For a path that does not begin with "/", such as `a`, the prefixes "/" and "a" match with
  the same length, and the order of the map decides. `LongestMatch` says so with `Absolute`.
  Of the path "//b" the prefix "/" leaves "/b".

## 4. The proofs

| module | theorem | says |
|---|---|---|
| `EntityHandler_proofs` | `TypeCorrect` | `Spec => []TypeOK` |
| | `PoolCorrect` | `Spec => []PoolCountsHandlers` |
| | `MutexNeverMissing` | `Spec => []NoMutexMissing` |
| | `MutualExclusionHolds` | `Spec => []MutualExclusion` |
| `EntityFiles_proofs` | `PostCreates` | `Spec => PostNeverOverwrites` |
| | `ReadsWhole` | `Spec => []ReadsAreWhole` |
| | `TornFilesAreFew` | `Spec => []TornFilesBounded` |
| | `HandlersImplementStore` | `Spec => Linearizable` |
| | `MockIsFaithful` | `Spec => []MockAgrees` |
| `Server_proofs` | `TypeCorrect` | `Spec => []TypeOK` |
| | `OneAcceptAlways` | `Spec => []OneAccept` |
| | `OneHandlerAtATime` | when no client keeps its connection: `Spec => []OneChain` |
| | `DeletedOnce` | for the same clients: `Spec => []NoUseAfterFree` |
| | `ResponsesStayAlive` | for the same clients: `Spec => []StoredResponseAlive` |
| | `NoneForgotten` | when, besides, no handler throws: `Spec => []NoSessionForgotten` |
| `ThreadPool_proofs` | `TypeCorrect` | `Spec => []TypeOK` |
| | `WorkersEnd` | `Spec => []WorkersEndFirst` |
| | `ExitCode` | `Spec => []ExitCodeIsRight` |
| | `PortIsRight` | `Spec => []ListensAsConfigured` |
| `ConfigParser_proofs` | `TypeCorrect` | `Spec => []TypeOK` |
| | `PointersAreRight` | `Spec => []StackIsPath` |
| | `OneParent` | `Spec => []EveryBlockHasOneParent` |
| | `AcceptsGrammar` | `Spec => []AcceptsTheGrammar` |
| | `TreeIsFile` | `Spec => []NothingIsLost` |
| `RequestFraming_proofs` | `TypeCorrect` | `Spec => []TypeOK` |
| | `NoneWaits` | `Spec => []NoneOverlooked` |
| | `SmallOnesFit` | `Spec => []SmallRequestsFit` |
| | `MessagesArePassedOn` | `Spec => []RequestsAreMessages` |
| `StaticFileHandler_proofs` | `TypeCorrect` | `Spec => []TypeOK` |
| | `ServesOneVersion` | `Spec => []ServedVersion` |
| | `ServesFromBase` | `Spec => []ServedFromBase` |
| | `FailsForAReason` | `Spec => []FailuresJustified` |
| `Routing_proofs` | `RoutesAreConfigured` | `Spec => []ServedAsConfigured` |
| | `AnswersAsConfigured` | `Spec => []AnsweredAsConfigured` |
| | `RoutesToLongestMatch` | `Spec => []LongestMatch` |
| | `FilesAreRestOfPath` | `Spec => []FileIsRestOfPath` |

They hold for every value of the constants that satisfies the named assumptions of the
modules: finitely many threads, any roots, names, ids, bodies and mutex addresses, any
`IntMax`, any table `StoiOf` in which `to_string` is undone by `stoi`, any number of faults,
with and without a failing disk; any threads, sessions, operations and requests; any number
of workers and signals, and any ports; any directory tree, files, limit and number of
changes by other processes; any configurations and paths, any registry that has the
EchoHandler, which needs no argument (it serves "/" of a file without locations); any texts;
any streams of lines made of messages, split in any way, and any limits. Four have an
assumption of their own, in the statement: those about sessions hold for clients that send
no `keepalive` request, the last for those that send no `badlength` and no `throws` either.
These assumptions are needed: the violated runs show pipelined requests breaking
`NoUseAfterFree` and `StoredResponseAlive`, and an exception leaves the session it came from
without an operation.

**Entity handlers.** `TypeOK` and mutual exclusion are not inductive. `IInv` adds:
handlers work on requests of their root (`HandlersHaveRequests`), ids have their types
where they are used (`IdsAreIds`), the count of a root is the number of its handlers
(`CountsAreRight`), a thread between `request` and the end of its lock holds
the mutex that is in the pool now (`HeldIsPooled`), and a thread inside the lock owns that
mutex (`LockedIsOwned`). The count is the heart of it: a thread that holds a mutex is a
handler, so the count of its root is at least one after any other thread's `erase`, so the
mutex stays in the pool, so the next thread gets the same. `ConstructInv` and `DestroyInv`
are the two steps where sets of handlers change, and use the cardinality theorems; the
other steps leave the counts alone (`SameHandlers`, `CrudActionInv`).

**Entity files.** With `IInv`, the files of a root change only under a thread inside its
lock (`OnlyOwnFiles`, `FilesStand`). For POST, the id is fresh when `next_id` returns
(`NextIdIsFresh`: it is the largest id plus one, or the sum wrapped, and then `check_id`
refuses it) and stays so (`PostIdNext`). For GET, a torn file without a crash is one a
thread is flushing (`TornNext`), which is not the reader. The torn files that nobody is
writing (`Leftover`) grow by one with each fault, because at most one thread is flushing in
a root (`OneFlusher`).

**The mock.** A map of the mock has the entities of a root when, for every name, its row is
that of the files (`Holds`); `MockHas` turns this into what `exists` and `list_ids` ask. A
write or an erase replaces one row of the map (`Assigned`) and leaves the rows of the other
names (`OtherRows`), as the file it writes or removes leaves the other files, so the
entities agree again afterwards (`MockWrites`, `MockRemoves`). This holds of any files with
the types of `TypeOK`, which is the invariant.

**The refinement.** The abstract store holds what the files hold, except for a file that is
being flushed, where it holds the new content already (`DbView`). So a write takes effect at
its truncation (`OpenStep`), and its flush changes nothing (`FlushStep`) unless it is cut
short (`WriteEnds`); a thread inside the lock sees the store of its root in the files
(`OwnView`), so its reads, lists and deletes answer as the store does (`ReadStep`,
`OtherStep`), and its calls that fail are the store's (`FailStep`). Everything outside the
lock is an invocation, a return or a stutter (`OutsideRefines`). A crash ends the calls and
tears the files that were being flushed, at most one of a root (`CrashRefines`). `CallInv`
adds what a thread has done of its request, and `FoundIsThere` that the file a reader has
found stays there until it has opened it, so that it never answers 500 for a file that has
gone.

**Server.** The invariant says that each busy thread runs an operation of its own
(`RunOnce`) and is in the handler of that operation's kind (`HandlersMatch`), and that one
entry of the table is an accept (`AcceptIs`). Every statement of a handler is a `BusyStep`:
it leaves other entries as they are, as far as accepts go, and replaces its own only when it
returns. So a session's handler cannot start or lose an accept, whatever the session's
state, and `handle_accept` starts the next in the place of the last.

**Sessions.** `ChainInv` adds that the operations and handlers that serve a session are one,
and that it exists. A handler then finds no pending operation of its own session
(`OwnIsOnly`), so neither a response nor the closing of the socket touches another entry of
the table, and each step starts, goes on, leaves one operation of the session, or abandons
or deletes it (`HandlerStepKinds`); a new session gets an address nobody serves
(`StartAcceptKeepsChain`). What could break the chain is the one statement that leaves two
operations, `RespondAndContinue`, and only a `keepalive` request leads to it. For
`NoSessionForgotten`, `OrderlyInv` adds that only the handler about to delete a session has set
its flag (`FlagIsSet`), so `safe_delete` never returns early, and that each session is served
(`Served`).

**Threads.** The invariant of `ThreadPool_proofs` follows main's loops: the workers below `i`
are spawned, joined, or have been asked, in the loop main is in; before the loops there are
none, and after a failed first spawn there are none either.

**The parser.** `StackIsPath` is not inductive by itself. `IInv` adds that blocks lie on the
stack in the order they were made, and that a child of a statement is a block made after its
own; so no block below the top is the one that a token changes (`SameChildren`), and the
block a `{` makes is nobody's child before (`OneMoreBlock`).

**The parser and the grammar.** `ParseInv` says three things while Parse runs. The tokens
not yet read are those `TokensFrom` gives at `pos` (`RestIsLeft`), so what has been read is
the first `Count` tokens of the file, whatever comments lay between. If the file is one of
the grammar, it can be completed from here (`Completable`): each open block has a place
where it may close (`Closing`), and the rest of the innermost leads there; every accepted
token keeps this (`CompletableNext`), and at a refused token, or at an end of file that is
refused, there is no such completion (`NotRefused`). So no file of the grammar is refused.
And there are places in the file for all statements of the tree (`Laid`): each statement's
tokens, its mark and its block lie between its place and the next, those of a closed block
up to its "}" (one lemma for each transition, from `LaidNewStatement` to `LaidEndBlock`).
When Parse accepts, the places cover the file (`AcceptedIsComplete`). Then each block is a
config of the grammar at its places (`CompleteIsGrammatical`), so what is accepted is in the
grammar, and its `ToString` is the part of the file between its places
(`CompleteIsTheTree`), so that of the first block is the file. Both go from the last block
made down to the first (`Downward`), because a child is made after its parent. The recursive
functions (`TokensFrom`, `ConfigEnds`, `BlockTokens`, `FlattenSeq`) are first shown to
exist, by sets on whose members they are defined, as those on messages are.

**Framing.** Whether a request is complete depends on its own lines only: a prefix of the
stream that is long enough is complete when the stream is (`PrefixComplete`). Before the first
answer the buffer is such a prefix (`BeforeFirstAnswer`), so a 413 means that the request, or
what came with its last read, passed the limit (`TooLargeIsLarge`).

**Requests and messages.** `MInv` says where the session is in the sequence of messages: as
long as the premise of `RequestsAreMessages` holds, there are messages whose joined lines
are the stream, the requests passed on so far are the first of them (`Passed`), and the
lines that have arrived and not been passed on are the buffer (`Arrived`), with one
operation pending unless the client is patient (`OnePending`). The step that matters is
`TakesMessage`: the message at the front of the buffer ends where `handle_read` cuts it
(`MessageAtFront`, from the `Layout` lemmas), whatever follows it. That a sequence of
messages has a joined stream at all is an induction over its length, done with sets
(`SetInduction`), because the theorems for induction take an operator.

**Static files.** What the path leads to now has been seen (`NowSeen`), and so has what the
open file contains, unless it was written in place (`OpenedSeen`); the pieces read so far are
the beginning of that content (`ReadSoFar`). The steps of other processes keep these because
a file they rename into place has a new number (`ChangeInv`); the handler's steps
are of four kinds: go on, respond, fail, read (`GoInv`, `RespondInv`, `FailsInv`).

**Configuration and routing.** `StartupInv` says that the route map has exactly the
well-formed locations the loop is through with, usable or not, each with its own handler
(`RoutesAreOwn`): the set of serving paths is its domain, so a location that is not refused
is not dropped by `insert`. `LoopInv` says that `best_prefix` is a longest match of those
tried; `MatchIsUnique` that two matches of one length are equal, so that the order does not
matter. For `AnsweredAsConfigured`, a serving path matches a path that begins with "/"
exactly when its segments, with their places, are among the path's (`MatchHasSegments`,
`SegmentsMatch`), and of two that match the longer has strictly more of them
(`LongerMatch`), so the longest match is the location of most segments.
`UsableIsConstructed` says that the block of a location gives its handler the argument it
needs when `Constructs` finds it in the route. The prefix and the rest of a path are joined
again by the theorems on subsequences.

Only model-checked: the liveness properties (`LockIsReleased`, `PoolDrains`, `ClosedIsFreed`,
`SignalEndsServer`, `EverythingIsRead`), since fairness is out of the prover's reach.

## 5. What is not modelled, and why

* The values of headers other than `Content-Length` and `Connection`, the text of
  responses, `get_mime_type` and the headers it chooses: tables and formatting.
* Threads and framing at once: `Session` has the threads and takes what a read delivers as
  requests, `RequestFraming` has the bytes and one thread. Requests cut by one thread while
  another runs are in neither; the threads would have to be in one session at once, which
  `OneChain` excludes and the race in `Session` already counts as undefined.
* How long a sleeping handler keeps its thread: any handler may keep it for any finite time.
* Two roots that name one directory (`./data`, `data`), which get two mutexes.
* Data races on `already_deleted_` and `current_response_` beyond the interleavings of
  their reads and writes.
* The reuse of the id of a deleted entity: clients and their retries are outside the
  handler, and no document promises that ids are not used again.
* The logger, the exception types.

## 6. Plan

Every component that keeps state or makes a decision is modelled and checked, and every
safety property of the passing runs is proved, apart from those section 4 leaves to TLC.

What could be added: sessions whose reads are cut while another thread runs, that is
`RequestFraming` with the threads of `Server`.
