# A verification of wtk

wtk is a toolkit of Lua modules with C drivers around one idea: everything that
could block yields its coroutine to a small epoll loop, and the loop resumes it
when its descriptor is ready.  This directory holds TLA+ models of the parts
whose correctness depends on order, on sharing and on failure, the TLC runs that
check them on small instances, and proofs that hold for instances of every size.

Paths below are relative to `src/`; `wtk.c` stands for `wtk/wtk.c`, and so on.

## Inventory

### What is shared between the parts

There is one process and one thread.  Concurrency comes from coroutines that
yield, from coroutines that resume one another (`loop:job` steps the new
coroutine inside the running one), from the Lua collector (`__gc` closes
descriptors), from child processes, and from peers.  Descriptor *numbers* tie
the parts together: epoll and `loop.fds` are keyed by them, streams are waited
for by number, sockets by a userdata that holds one, and the kernel reuses the
lowest free one.

### The components

| component | state | operations | what is hard |
|---|---|---|---|
| **Event loop** (`wtk.c` 152-295) | `epollfd`, `fds` (number to callback), `deferred` | `new`, `add`, `rm`, `run` | the deferred list is swapped while it grows; events are dispatched by number after numbers were reused |
| **Jobs** (`wtk.c` 484-509, 592) | coroutine, `job.waiting` | `job`, `job_step` | `rm` resolves the object it was given when the *next* yield comes; nested coroutines; descriptor limit |
| **Promises, await, try** (`wtk.c` 593-657) | `resolved`, `rejected`, handler lists | `on`, `resolve`, `reject`, `all`, `await`, `try` | a settled promise that settles again; a signal written before the waiter yields; handlers that fail |
| **Streams** (`wtk.c` 25-150, 510-591) | two descriptors, `buffer` | `write`, `read`, `seek`, `close`, `yield` | partial reads and writes, end of file, a buffer left behind |
| **HTTP server** (`server.lua`, `server.c`) | per client: `buffer`, `closed`; per request: `length_read`, `_body`, `responded` | `accept`, `parse_headers`, `body`, `respond`, `error_handler`, websocket | pipelined requests, an unread body, a peer that closes anywhere, partial writes |
| **HTTP client** (`client.c` from 11190) | the state of a socket (INIT to READY), the pool `connections` | `open`, `request`, response reader | a non-blocking connect spread over many yields; a pool shared by coroutines |
| **dbix** (`dbix.lua`, `dbd/*.c`) | transaction of a connection, `_dirty` columns, result sets | `txn`, `insert`, `update`, `each`, prefetch | a transaction whose parts fail; coroutines on one connection |
| **Processes** (`proc.c`) | pid, status, three pipes | `new`, `join`, `run`, `status`, `term` | pipes with a capacity, exit status that can be read once |
| **Compression** (`z.c` from 9420) | stream, pending input | `send`, `flush` | output buffer full, remaining input |
| **Packer, signals, pargs** (`wtk.c` 663-843) | registry of C signals | `run`, option parsing | none of order |
| **JSON, XML** (`json.c`, `xml.lua`) | pure | encode, decode | recursion, limits |
| **Utilities** (`utilities/`) | command line programs | - | none of their own |
| Lua, miniz, dns | vendored | - | - |

How they interact: `Server:add` registers the listening socket with a callback
(`Server:accept`), which creates a job for each client; a job's reads and
writes yield `{ socket = ... }`, database drivers, HTTP clients and streams
yield `{ fd = ... }`, a number asks for a timer, and anything else for the next
iteration.  `await` waits with a pipe that a promise's handler writes to;
`loop:job` returns the job, which is a promise itself.

### What would make each part correct

- Event loop and jobs: a suspended job is registered for the object it waits
  for, under its own callback, and nothing a job does removes the registration
  of another; no registration outlives its object; adding one never fails; a
  deferred job is stepped exactly once and epoll never blocks in front of it;
  a ready job is resumed, and only by its own event.
- Promises: `await` returns once all promises have settled, with their results,
  and is not left asleep; a job settles once.
- Server: every byte of the connection belongs to exactly one request; each
  request is answered at most once; a closed client's job ends.
- Client: a request is written only on a connection whose handshake is over, a
  response goes to the coroutine that asked for it.
- dbix: what `txn` reports is what the database did; dirty columns are those
  that differ from the database.
- Result sets: a record is given once, whole, with the parts that are related to it.
- Processes: `run` returns the child's complete output and its status.

The full list of hazards, with lines, is in `PROJECT.json`.

## Plan

Modules, in the order in which they are written; the most important behaviour
comes first.

| # | module | composes | state |
|---|---|---|---|
| 1 | `EventLoop` (loop, jobs, descriptors), `JobScheduler` (what the loop promises a job), `EventLoopRefinement`, `EventLoopProofs` | `EventLoopRefinement` shows that `EventLoop` implements `JobScheduler` | written, checked, proved |
| 2 | `Promises` (promises, `await`, the promise of a job), `PromisesProofs` | takes a job's turns from `JobScheduler`; `Positions` | written, checked, proved |
| 3 | `Transactions`, `TransactionsProofs` (`txn` and the drivers' transactions), `Records`, `RecordsProofs` (dirty tracking) | - | written, checked, proved |
| 4 | `ServerConnection` (a connection of the HTTP server and its peer), `HttpExchange` (what a connection promises), `ServerConnectionProofs` | `ServerConnection` implements `HttpExchange`; the peer; turns from `JobScheduler`; `Positions` | written, checked, proved |
| 5 | `Processes` (children, pipes, `run`, `join`, `term`, collection), `Streams` (the buffering of reads), `ProcessesProofs` | `Processes` reads through `Streams`; the children | written, checked, proved |
| 6 | `HttpClient` (the state machine of a socket, the pool, redirects, reading of responses), `HttpClientProofs` | servers, names and TLS, which are external | written, checked, proved |
| 7 | `ResultSets` (joined rows to records with prefetched parts), `ResultSetsProofs` | the database's join; `Positions` | written, checked, proved |
| 8 | the query and fetch continuations of the drivers; two statements on one connection | `ResultSets` | open |
| 9 | the loops of `z.c`, websocket framing | - | open |

Theorems: for 1 to 7, all the invariants that the runs check and the two refinements as
far as their steps go (done).  Next: abstract specifications of `await` and of
the iteration of a result set, as `JobScheduler` is one of the loop, with their
step simulations.

## The modules

### EventLoop (`wtk.c` 25-150, 152-295, 484-509; `server.c` 270-340; `server.lua` 376-395)

`fds` is `loop.fds` (descriptor to the object whose callback it holds), `interest`
the epoll set, `deferred` the list of the same name and `batch` what
`epoll_wait` has returned and `f_loop_run` has not dispatched yet; `waiting`
holds for each coroutine what `job.waiting` holds. `Wait`, `Yield`, `YieldTimer` and `Finish`
are the ends of a turn and contain the whole of `job_step` after the resume;
`Enter` is its beginning.  `RunDeferred`, `Poll`, `Dispatch` and `EndBatch` are
the steps of `f_loop_run`.  `JobRaises` is a coroutine that dies with an error: since
`Loop:job` runs its function in `try`, only a `fail` handler of its own promise that raises
can do that; the job's registration stays, and the loop ends.  Descriptors are numbers from the least free one up,
so a closed number comes back.  The kernel and the peers (`Arrive`) are external.

Five constants say which use of the loop is considered: `Shared` (a job waits
for or closes another's descriptor), `CloseSock` (a job closes its own socket
while it is still `job.waiting.obj`), `SpawnAfterClose` (a job starts another one
between closing what it waited for and yielding), `Console` (fd 0 is in the
loop), `HandlersRaise` (those `fail` handlers).  `SafeUsage` is the use for which registrations are safe.  It excludes
exactly what breaks them: two jobs with one descriptor meet `EEXIST`; a job
started after a close takes the closed number, and `rm` by number removes its
registration; and with a console, the `rm` of a closed socket is `rm(0)`.

`JobScheduler` is what a job may rely on: it is resumed only when deferred or
when its descriptor is ready, and, fairly, it is.

### Promises (`wtk.c` 592-657)

`settled[p]` tells which of `promise.resolved` and `rejected` are set,
`handlers[p]` the order of `doneh`/`failh`, with throwing handlers of the program
(`DoneBoom`, `FailBoom`) among them; `total`, `outcome` and `signal` are the locals
`total` of `Promise.all` and `status`, `signal` of `await`.  `Await` is the call
up to its yield, `Wake` the return from it, `Resolve` and `Reject` the end of a
job with all the handlers it runs.  Handlers kept by an `await` that has returned
write to variables nobody reads, and are dropped.  `Positions` is the set of the
positions of a list at which something stands, with which the order of handlers and
the counts are told (`ServerConnection` uses it as well).  `AwaitReturns` leaves out a job
that is `Entangled`: one that awaits itself through others, or a job that does.

### Transactions (`dbix.lua` 136-148, `dbd/*.c`)

`calls[j]` is the stack of `txn` frames of a coroutine, `open`/`pending`/`committed`
the database's side.  `Start`, `Return` and `Raise` contain `txn_start`,
`txn_commit` and `txn_rollback` with what the drivers do with a refusal: they
answer `nil` and a message, which nobody reads: a refused BEGIN leaves the function
in autocommit, a refused COMMIT or ROLLBACK leaves the transaction open (`Refuses`) or, for
COMMIT, may end it.  `StartRaises` is the postgres driver.  `Shares` lets functions yield
inside `txn`.  `ended` keeps how each call ended; its field `refused` is history.
A call whose own COMMIT was refused returns as if it had been accepted, and one whose
ROLLBACK was refused leaves its writes to the next BEGIN (MySQL commits them) or COMMIT.
`Atomic` cannot say which way these calls go; it says that their writes go together, and
that the calls before and after them are not disturbed.

### Records (`dbix.lua` 436-529, 542)

`key`, `row` and `dirty` are `_row` and `_dirty` of a record, `stored` and `table` the
database.  Three history variables (`home`, `unsaved`, `writer`) carry what the
properties compare; no action depends on them.  `update(params)` is `Assign` for each
parameter, then `Update`, as in the code; that is sound because nothing yields
in between.  `Insert` chooses whether the driver answers with `last_insert_id`; a
record that does not learn its key looks for a row without one.  `Rekey` is the
assignment of the primary key, after which the statement looks for the new one.
`Saved` leaves out what the code leaves out (see Disagreements): a column that is
false, and an update that finds no row.

### ServerConnection and HttpExchange (`server.lua` 40-200, 280-400; `server.c` 299-400)

One connection: `inflight` is what the kernel holds of what the peer has sent,
`buffer` is `client.buffer`, `partial` the header that is being collected, `req` the
request and its `length_read`, `out` what `write_block` has still to send, `wire` what
the peer has got.  A step is one call of `recv` or `send`, so the peer sends, and
goes, between any two of them.  `ReadHeader`, `ParseRequest`, `ParseFails` and
`NoMoreRequests` are `parse_headers`; `ReadBody` is `Request:read`, called by the
handler or by the loop that drains what the handler has left (`DrainReads`);
`Respond` writes a header with a body of known size, a stream, raw data or nothing,
and `Send`, `SendFails`, `Chunk` and `Finish` bring it out; `HandleError` is the error
handler.  `try` runs it as the message handler of `xpcall` (`wtk.c` 635-643), where a
coroutine cannot yield: an error response that meets a full socket buffer is given up
(`SendRaises`), and an error whose code `codes` does not name is not answered.  What happens
after that, the draining, is outside of `try`, and its errors end the job (`DrainReads`,
`DrainFails`).  A peer may be `"gone"` (closed or reset) or `"lost"` (any other errno, which
`recv` and `send` report and the code raises); an `"unsized"` request is a POST or PUT whose
content-length is missing or no number.  Pieces stand for bytes: a header is a head and a tail, whose border is
the middle of CR LF CR LF, since that is where the code tells a difference.

`HttpExchange` counts: the k-th answer is to the k-th request, none comes before
its request or twice, and as long as the connection is open every request is
answered.  Where the server loses count of where requests begin (`Missed`, and a body
which it does not drain) or of which were answered (a response that is cut, twice, or never
made: `cut` and `miscounted`), the two sides `FallOut`, after which nothing is promised
but that answers go out one by one.

### Streams and Processes (`wtk.c` 25-150, 510-591; `proc.c`)

`Streams` has the buffering of `Stream:read` as operators over a record, `Processes` the
children, their pipes of `Room` pieces, and the jobs that start, feed, join, end and
read them.  `state`, `pid` and `code` are the kernel's, `status` of an object the
program's; a pid is given again once it is reaped.  `New` is fork with all the pipe
ends that a child inherits and what `print` makes of `options.stdin` (`Printed`,
`PrintRaises`), `Feed` one write of `Stream:write`, `Join` one round of its loop, which
ends the loop when another coroutine waits for the same stderr (`WaitsForStderr`), `Read` one read, `Collected` the collector.  Children are deaf, filters or
talkers; they may write to stderr, crash, or leave a process behind (`Task.may`).
A job in `Main` runs outside of every coroutine and blocks the process instead of
yielding.  An error raised in a job is caught there by the program; that of `WaitsForStderr`
is raised in `job_step`, where nobody can.

### HttpClient (`client.c` 11240-11905)

`conn` holds for each connection the state of `client_socket_t` with its two flags
(`blocking`, which is the field, and `nonblock`, which is the descriptor's), what
both sides have sent, and `retained`, the string that is read first; `pool` is
`client.connections`, `link` the connection of a job's call.  The actions follow a call:
`FromPool` or `Open`, `Resolve`, `Handshake`; `Send`; `ReceiveWaits` and `Retain`, which are
`recv` and the read into `retained`; `Answer` for the header, with `Redirect`; `Read` for a
body of a given size, in chunks, or up to the end.  Jobs in `use.main` call from
outside of every coroutine.  The two flags begin in disagreement, and `ForSend` brings
them together: a send always blocks, a receive of a coroutine never does (`NeverBlocks`).
A body is one piece; one that is given as a function is not modelled.  `excuse` is history: it names what a connection has
been through that the code does not survive (see Disagreements), and the
properties say exactly which of these they exclude.

### ResultSets (`dbix.lua` 278-427)

A row is a sequence of columns, because the merging counts columns.  `left` is what
the statement has not given yet (the database chooses among the rows it may give
next), `results` and `last` are `results` and `a.last_result` of
`each_multirow_iteration`, `given` what the caller's loop has got.  `Offset`, `One`, `Many`
and `Merged` are `offset_of_prefetch` and `merge_results`, with the column too many
that is read for a single record.  `Sound` names the lists of relationships for which
the code keeps what it promises.  `FetchFails` answers `nil` as the end does, and the
statement may start again, as `sqlite3_step` does after an error.

## Runs

| run | question | bounds |
|---|---|---|
| `loop_server` | registrations and the refinement when jobs close their sockets | 1 client, 1 task, 5 descriptors |
| `loop_shared` | what holds in every use: types, callbacks can run, the deferred list | 1 client, 1 task, 4 descriptors, a console |
| `loop_fair` | every ready or deferred job gets its turn | 1 client, 1 task |
| `promises` | await decides rightly, is never left asleep, and returns | 3 jobs, lists of 2, cycles, handlers that throw |
| `txn_serial` | all or nothing, SQLite and MySQL, COMMIT and ROLLBACK refused now and then | 2 jobs, 4 writes |
| `txn_shared` | nesting and overlapping, three drivers, BEGIN, COMMIT and ROLLBACK refused | 2 jobs, depth 2, 2 writes |
| `records` | what is written is what the record holds; no assigned column is forgotten | 2 records, 2 rows, a text and a boolean column, keys assigned, with and without `last_insert_id` |
| `server` | nothing of the input is lost or read as something else; responses are whole; a gone peer is noticed; `HttpExchange` is implemented | 2 requests of four kinds, bodies of 2 pieces, packets of 4 |
| `processes` | what is read and written is complete and once; `run` tells the truth; calls return | 2 processes, 2 jobs, 2 pids, pipes of 2 pieces, six programs |
| `client` | a call returns its own response, without garbage, sends its body once, lets others run while it receives, and ends | 2 jobs, 2 hosts, 2 calls, 4 connections, seven ways of use |
| `resultsets` | records are given once, whole and with their own parts | 3 records, 3 related ones, nine lists of prefetched relationships, 1 failing fetch |

Two jobs and one listener already share every structure the loop has, and a job
that starts another is already a chain of nested coroutines.  A number is reused
as soon as one more descriptor is opened after a close, which `MaxOpen = 1` allows;
`loop_shared` has one descriptor fewer than its jobs can ask for, so `accept` and
timers meet the limit.  Two promises in a list are enough for `total` to be neither 0
nor full; three jobs for a job that awaits while it is awaited.  `Depth = 2` is
the first nesting there is, and two writes one inside and one outside of the inner
call.  Two records of one row are the least that can overwrite each other, and the
second row is the one a key can be changed to.  `records` uses the symmetry of its
records, which nothing tells apart.

`server`: two requests are one that is handled and one that is in the buffer behind it or
arrives late; a packet of 4 pieces holds a whole request of the first kind with the header of
the next, or a body's end and a header, and any shorter read cuts CR LF CR LF in two; a body
of 2 is read in parts.  Each of the four kinds is drained in its own way.  A handler
responds at most twice, and only once in a connection (a bound in `HandlerResponds`).  `processes`: a pipe of 2 with an
input of 3 is written in two turns; each of the six programs (`MCProcesses`) shows
one thing: lines and rests of them, two filters that inherit each other's pipes, a
`run` beside a child that is joined, ended or collected, a child that complains, crashes or leaves a process
behind, one that is given `stdin = false`, talkers that fill the pipe.  `client`: the seven
ways of use are one job with redirects (to the same host, plain or secure, with and
without a body, from a coroutine or not), and two jobs that call one host together, two
coroutines with a body among them;
a redirect and a second call need three connections, a spare one shows that none is
taken in vain.  A body of one piece still makes a chunk, its end, and the last
chunk.  `resultsets`: three records are the least for which the row that was
read too many is handed on twice, and three related ones for a has_many that is
split over records or whole in one.

### Disagreements between the code and what is said of it

The run `console_lost` ends in a counterexample: after one request whose job closes
its client, `rm` of the closed socket removes fd 0, the console.  `PROJECT.json` quotes
what is said of it.

The following are in the models too, as what an action does, and can be seen by
asking TLC for the property named, or for one without its exception; no run is kept
for them.

| where | what the code does | what is said, or what a caller would expect |
|---|---|---|
| `dbix.lua:140` | a call of `txn` inside another makes the outer one's writes permanent (`Atomic` with `Depth = 2`) | `README-dbix.md:171` |
| `dbix.lua:146` | a refused COMMIT is reported as success (`CommitRefused`; `Atomic` without its case `c.refused`) | `README-dbix.md:171` |
| `dbix.lua:143` | after a refused ROLLBACK the transaction stays open, and a later call makes the writes of the one that raised permanent (`Raise`; `Atomic` without its case `c.refused`, `LeavesNothingOpen` without its exception) | `README-dbix.md:171` |
| `dbix.lua:141` | after a refused BEGIN the function runs outside a transaction (`Begin`; `Atomic` with `Faults = {"BEGIN"}`) | `README-dbix.md:171` |
| `postgres.c:401` | `txn` raises before it calls its function (`StartRaises`) | `README-dbix.md:240` has a check mark |
| `dbix.lua:510` | an update writes columns of earlier updates again, over other records' writes, because it resets `dirty` and not `_dirty` (`NoLostUpdate`, with `Assignable <- Texts`) | `README-dbix.md:220` |
| `dbix.lua:522` | an assigned primary key makes `update` miss its row, without an error (`Write`) | `README-dbix.md:218` |
| `dbix.lua:491` | without `last_insert_id` a new record's updates reach no row (`Insert`) | `README-dbix.md:220` |
| `dbix.lua:479` | `insert` leaves out columns that are false (`Image`; `Saved` without its exception) | `README-dbix.md:219` |
| `dbix.lua:353` | a might_belong that is not there is given as a record of NULLs if another relationship is prefetched after it (`One`; `OwnParts` without `Sound`) | its key should read as nil (358) |
| `dbix.lua:375` | with two has_many, related records come several times (`Many`; `OwnParts` without `Sound`) | each should come once (373-381) |
| `dbix.lua:307` | the error of a failing fetch is dropped: records are cut, repeated or missing (`FetchFails`; `EachWholeOnce` without `failed = 0`) | the caller takes what it got for all |
| `dbix.lua:420` | `take(0)` with a has_many gives one record (`Counts` has no 0) | - |
| `dbix.lua:653` | prefetching a has_one, or a belongs_to whose record is missing, hides the record itself (`Joined`; `Relations` has them all there) | `README-dbix.md:204` |
| `server.c:283-286` | `accept` at the descriptor limit raises and ends the loop (`AcceptFails`) | `server.lua:388` logs it and goes on |
| `server.lua:146` | the end of a header that is cut by a packet is not seen, so that the next request goes into this header (`Missed`) | - |
| `server.lua:173` | the body of anything but POST and PUT is not drained, and parsed as a request (`Drained`) | - |
| `server.lua:76` | a header `connection` or `date` of the response's own makes `write_header` raise after the request was marked as responded to (`RespondRaises`) | - |
| `server.lua:289` | an error response that the kernel does not take at once is cut, because the error handler runs where a coroutine cannot yield, and the connection goes on (`SendRaises`; `ResponsesWhole` without `cut`) | `README-server.md:3`: "coroutine-yielding"; `write_block` is written to wait (288) |
| `server.lua:350` | an error with a number for a code that `codes` does not name (405) and no message makes the error handler raise: the request is never answered (`HandleError`) | - |
| `server.lua:164` | only a POST must have a content-length, and it need not be a number; a PUT without one raises outside of `try` when it is drained (383), which ends the job with its connection open, and so does a peer that is lost there (`DrainFails`; `EndsClosed` without its exceptions) | - |
| `server.lua:193` | a handler may respond twice, and the peer takes the second response for that to its next request (`HandlerResponds`) | - |
| `server.lua:98` | a body function that raises leaves a response that is not whole (`ResponsesWhole` says what else does not) | - |
| `server.lua:290` | a write to a peer that is gone ends the process by SIGPIPE, unless the HTTP client has connected before or the program handles signals (`wtk.c:835`), which ignore it (`PipeIgnored`) | the code waits for the error "pipe" |
| `proc.c:122` | the status of a child that a signal ended is 0, and `run` returns what it has (`Answer`) | - |
| `proc.c:120` | the status of a child that another call has reaped is what was on the stack (`Status`) | - |
| `proc.c:96` | the collector kills a pid that may have been given again (`Collected`) | - |
| `proc.c:39` | a child keeps the pipe ends of the others open, so that those do not see the end of their input (`Inherited`; `Stuck`) | - |
| `proc.c:175` | `run` joins before it reads: a child that fills its pipe, and one whose stderr stays open, are waited for for ever (`Stuck`) | - |
| `wtk.c:566` | the last read of a stream returns its buffer twice (`EndRead`; `ReadOnce` says when) | - |
| `wtk.c:514` | a write that meets an error drops the rest, or its SIGPIPE ends the process, and half an input is the whole of it for the other children (`FeedBreaks`; `InputWhole` says when) | - |
| `proc.c:161` | two coroutines that `join` one process wait for the same descriptor, and the second ends the loop with EEXIST (`Taken`; `CallsReturn` without its exception) | - |
| `proc.c:168` | `options.stdin` is the format of a `string.format`: `%%` arrives as `%`, and any other directive raises and leaves a child that waits for its input (`Printed`, `PrintRaises`) | - |
| `wtk.c:486` | a `fail` handler of a job's promise that raises ends the loop, with everybody in it (`JobRaises`) | - |
| `wtk.c:492` | `coroutine.yield({ timeout = t })` does not wait (it is `Pause`) | `README.md:65-66` |
| `wtk.c:301` | a timer of 0 never fires (time is not modelled) | - |
| `client.c:11361` | `sendk` leaves `__c` on the stack and takes it for its third argument, so every send blocks the whole process until the kernel has taken it, whoever calls (`ForSend`) | `README.md:3`: "These are a bunch of non-blocking modules" |
| `client.c:11862` | a connection of the pool that was closed stays there: later calls for its host raise (`Closed`) | - |
| `client.c:11435` | a name that is not resolved in time gives a socket that counts as connected (`ConnectNowhere`) | - |
| `client.c:11482` | `https` from the main program always raises, since the handshake has to yield (`HandshakeWaits`) | - |
| `client.c:11874` | an error status, a redirect and `nonblocking` leave the body on the connection, and the next call reads it as its response (`OwnResponse` without `clean`) | - |
| `client.c:11790` | a body up to the end of the connection always raises (`Remaining`, `ReceiveEnds`) | - |
| `client.c:11806` | a partial write (over TLS, of more than a record) is not continued (`SendSome`, "torn") | - |
| `client.c:11850` | a content-length of one call goes out with the next (`ClaimsBody`, "misled") | - |
| `client.c:11863` | two coroutines on one connection of the pool end the loop, or read each other's response ("shared") | - |

### Fairness

`loop_fair` assumes weak fairness of each step of `f_loop_run`, which is a loop
that never stops by itself, and that a job which has the processor ends its turn,
which coroutines must do for the loop to go on at all.  Nothing is assumed of
peers: a descriptor that never gets ready never wakes its job.  The others take
the turns of `JobScheduler` as fair, because `loop_fair` shows that they are:

- `promises` assumes moreover that a job which runs again and again ends at some
  time; without that `await` promises nothing.
- `server` assumes that the job goes on while it has a step to take, and that a peer
  finishes a request it has begun, but neither that it reads nor that it stays:
  `GoneIsNoticed` is about the one that goes.
- `processes` assumes strong fairness of each job that can go on, since the loop takes
  them in turns, weak fairness of children that can run, and that a SIGKILL
  arrives.  Children that wait for input or for room in a pipe are not helped.
- `client` assumes that the loop as a whole goes on (not that a certain job does),
  and that a server answers a request that it has got whole.

## Proofs

All theorems hold for every value of the constants that satisfies the stated
assumptions.

`EventLoopProofs`: `TypeCorrect` (in every use), and under `SafeUsage`
`RegistrationsSafe`, `CallbacksSafe` and `AddsSafe` (`Registered`, `NoStrayCallback`,
`AddNeverFails`).  `Registered` is far from inductive.  The invariant `IInv` adds:
which job resumed which (`Chain`: a job in the middle of its turn is either the
one the loop stepped or was created by the one below it), which descriptors
belong to which job (`Ownership`: no two jobs hold one number, an open number is
held by someone, `job.waiting` names something the job holds or a number nobody
holds), what kind of object is behind a number (`Objects`), and that `epoll` and
`fds` agree on open numbers (`NoStrayCallback`).  Ownership is where `SafeUsage`
enters: `rm` of what a job waited for touches only what that job holds.  There is
one lemma for each way a turn ends (`Wait`, `Yield`, `Finish`, timer), one
for the operations on descriptors, and one for each step of the loop.

Its second half, in every use: `TurnsExactlyOnce`, `SleepsOnlyWhenIdle` and
`StepsCanRun` (`DeferredExactlyOnce`, `NeverBlocksOnDeferred`, `CallbackCanRun`).  The
second is in no run, because `loop_fair` fails without it.  They share the invariant
`TurnsInv`: the chain of resumed jobs has one lower end (`Bottom`), so the loop does not go on before all of them have yielded; the deferred lists hold each
job that paused once, and nobody else (`Queued`); `epoll_wait` is
only told to block with both lists empty and nobody running (`Phases`); and a job's callback is only registered under what the job waits
for, with at most one event of it in a batch (`Watched`), so a coroutine is never
resumed twice by one iteration.

Its last part: `SchedulerImplemented`, that under `SafeUsage` every behaviour
of the loop is one of `JobScheduler`.  `Batched` is what the simulation needs besides
`IInv` and `TurnsInv`: an event of the batch is still pending and its job still
registered when it is dispatched, whatever ran in between.  Each action is mapped to
a step of the scheduler or to a stutter in a lemma of its own.

`ServerConnectionProofs`: `ConnectionTyped`, `NothingIsLost`, `EndedIsClosed`,
`ResponsesAreWhole`, `BodiesOwned` (`BodiesTheirOwn`) and `ExchangeKept` (`HttpExchange!Safety`),
for every number of requests, length of bodies and packet size, with the exceptions that
the comments of these properties name (a response that was cut, a body that could not be
drained, and the other ways to fall out of step).
`Flow` makes `NothingLost` inductive: `client.buffer` never holds more than a packet, so
the read that completes a header has emptied it, and what has been read of a header has
no terminator in it, so what follows the header fits in the last packet.  Without
either, `parse_headers` could overwrite a `client.buffer` that was not used up.  `Whole` does so
for `ResponsesWhole`: what is written and what is still to be written alternate together,
and their number is even between responses of an open connection, because a response
without a body closes it.  `BodiesOwned` needs that all that is read of a connection that
has not fallen out, in order, is the beginning of what was sent, and that the pieces
between the last header and `length_read` are those of its request.  `ExchangeKept` counts
the heads read and the answers begun by their positions, and maps every step to a
step of `HttpExchange` or a stutter.

`TransactionsProofs`: `TransactionsTyped`, `NothingLeftOpen` and `NothingLost` for
every nesting and overlap and whatever is refused, and `SerialAtomic` for calls that
neither nest nor overlap over a database that refuses no BEGIN.  `Bounds` makes the
type invariant inductive: a write is new because all that is known is below
`next`.  `OpenInside` ties an open transaction to a running call or to a COMMIT or
ROLLBACK that was refused; `OneCall` says that the running call is inside a transaction
which holds all it has written, and that what an ended call wrote is there for good,
still in the transaction, or gone, never divided (`Settled`).

`RecordsProofs`: `RecordsTyped`, `NoColumnForgotten` and `RecordsSaved`, in every use.
`NothingForgotten` is inductive with the types; `Saved` needs it (an update
writes an assigned column only because it is still flagged) and that a record
that has not been made stands for no row (`Unmade`).  `WriteEffect` and
`InsertEffect` say what the two statements do, column by column.

`PromisesProofs`: `TypesKept`, `OutcomesRight` and `NoneForgotten` (`OutcomeRight`,
`NeverForgotten`), for every number of jobs, lists in which a promise may stand several
times, and handlers that throw.  `PromiseInv` counts: a promise has an entry for a
blocked job for each time it stands in its list, and none for another (`Entered`);
`total` is the number of the list's promises that resolved, exactly until one was
rejected (`Exact`), and a count that is full, or a rejection whose handlers were
all run, has signalled (`Signalled`).  That a settling promise removes its entries one by
one, each of which counts, is shown by ranking the entries and comparing sets of ranks, in
place of an induction over the list.

`ProcessesProofs`: `ProcessesTyped`, `ReadsOnce`, `InputsWhole` and `RunsRight` (`ReadOnce`,
`InputWhole`, `RunRight`).  `Flow`: of a stream that is not stale, what was returned, what
is kept and what is in the pipe are together what the child wrote, in this order; it needs that
only one job reads a stream (`Alone`) and that only collecting reads leave chunks
(`Collects`).  `FedWhole` does the same for the input, with numbers.  `RunSafe` follows a
`run` from place to place: nobody but its own job has its process (`Owned`), so until that
job joins nothing reaps the child, unless the collector struck a reused pid.

`HttpClientProofs`: `TypesKept`, `OwnResponses`, `HeadsFirst`, `BodiesOnce` and
`LetsOthersRun` (`OwnResponse`, `NoGarbage`, `BodyOnce`, `NeverBlocks`), for every number of
jobs, hosts, calls and connections, and all ways of use.  The invariant `ClientInv` is about
streams.  A connection without an excuse is in step with the one call that uses it
(`Sync`): before the request it is quiet, and after it `retained` and what is still to be
received continue that call's response at exactly the place the call has got to
(`Ahead`, `Offset`), whether it is sized, in chunks, or up to the end.  A connection
that is in the pool and in nobody's hands is quiet.  Two calls on one connection have
excused it (`Shared`), and one that is being opened is known to its job only
(`Opening`).  The proof showed that `NoCall` needs a host to name, hence
`HostAssumption`, and that a spare connection exists because those are finite.
`SentInv` is about what goes out: calls have numbers of their own (`Distinct`), a call
that has yet to write its body is nowhere written (`Unsent`), between head and body
nobody else runs (`HeadLast`), and the flags of a connection somebody reads are in order
(`Flags`), which another job's step cannot undo.  `Advances` gathers the steps that
write nothing, so each of the three parts is shown once for all of them.

`ResultSetsProofs`: `ResultsTyped`, `PartsTheirOwn` and `RecordsWholeOnce` (`OwnParts`,
`EachWholeOnce`), for all finite tables, relationships, counts and sound lists of
prefetched relationships.  `Divided` makes the last inductive: the rows of a record are used up
once it has been given, and before that each is still to come or held; with
`Ordered` (what is held comes before what is left), the first row of another record shows that
none of this one is left.  `Apart` says that no row is there twice, and `ManyRows`
that two rows of a record differ in its has_many: so comparing neighbours is
enough, and the parts are as many as the rows.

Only model-checked: the fairness part of `JobScheduler` and of `HttpExchange`; the properties that something happens in the end
(`AwaitReturns`, `GoneIsNoticed` and their like), since liveness under fairness
is out of the prover's reach; and `console_lost`, which is a counterexample.

## Not modelled

- Descriptors that a child process has inherited: fork keeps them open (`proc.c:27` sets no
  CLOEXEC), and the kernel removes an epoll registration only with the last of them, so in a
  program with children a closed number may go on to give events.  `EventLoop!Close`
  removes the registration with the number; what is shown of the loop holds for
  descriptors that no living child has inherited.
- Time: a timer may fire at any moment after it was set, so a timer of 0 seconds,
  which never fires, is not told apart.
- The drivers' continuations (`mysql.c` 53-190 and 270-345, `postgres.c` 60-135 and
  300-390): what they keep between two yields depends on the client libraries, and
  on one connection two statements at once are an error of those.  Open.
- Websockets (`server.lua` 36-66), hot reload, templates, static files and routing of the
  server: translations of one string into another, or of one call.
- `Stream:seek` and files: a file is always ready, so nothing of it waits.
- Cookies, the other headers, URLs and certificates of the client; DNS and TLS, which
  are vendored or external.
- The text of SQL statements, cached result sets, `inflate`, and the statements for
  many rows: no state, and no order but that of the string.
- Compression (`z.c` 9420-9596): loops over a buffer around a vendored algorithm.
  Reading them shows three things no model is needed for: `send` stops at the first
  round that gives no output and drops the rest of its packet (9474), `close`
  returns the message of a failing `flush` as if it were data (9541), and `compress`
  yields its chunks exactly when it is not told to.
- XML, the packer, signals and argument parsing: straight-line code, or recursion over
  a string, with no state beyond one call.
- Lua, miniz, lua-cjson and the DNS library are vendored; `packed.lua.c` is generated.

`PROJECT.json` says for each component what is left.
