------------------------------ MODULE EventLoop ------------------------------
(***************************************************************************)
(* The event loop of src/wtk/wtk.c (f_loop_add, f_loop_rm, f_loop_run) and *)
(* the scheduler of coroutines on top of it (Loop:job and Loop:job_step,   *)
(* the Lua block embedded in the same file), together with the operations  *)
(* of a running job that matter to them: opening, closing and losing       *)
(* descriptors, starting another job, yielding and returning.              *)
(*                                                                         *)
(* One process, one thread: the only interleaving is that of the loop, of  *)
(* coroutines that resume one another, of the garbage collector and of the *)
(* outside world (Arrive).  Descriptor numbers are real numbers, because   *)
(* the kernel hands out the lowest free one and the code keys its tables   *)
(* by number.  Read and write interest are not told apart: a descriptor is *)
(* "ready" when an event of the mask it was added with is pending.         *)
(***************************************************************************)
EXTENDS Naturals, Sequences, FiniteSets

CONSTANTS
  Clients,          \* jobs started by Server:accept, each with its socket
  Tasks,            \* jobs started by a call of loop:job
  MaxFd,            \* the highest descriptor number the process may open
  MaxOpen,          \* bound: streams one job has open or uncollected; a timer
                    \* may come on top of them
  Stdin,            \* the owner of fd 0, and the callback of the console
  Listener,         \* the server's listening socket, and its callback
  Nobody,           \* no owner, no callback, no coroutine
  Console,          \* fd 0 is added to the loop (README.md:75)
  CloseSock,        \* jobs call Client:close before they are done
  SpawnAfterClose,  \* a job may start another one while the stream it
                    \* waited for last is already closed or unreachable
  Shared,           \* jobs wait for, and close, each other's descriptors
  HandlersRaise     \* a fail handler of a job's own promise may raise

Jobs == Clients \cup Tasks
Fds == 0..MaxFd
StdinFd == 0
ListenFd == 1
Callbacks == Jobs \cup {Stdin, Listener, Nobody}

ASSUME JobsAssumption == Clients \cap Tasks = {}
ASSUME FdAssumption == MaxFd \in Nat /\ MaxFd >= 1 /\ MaxOpen \in Nat
ASSUME CallbackAssumption ==
  /\ Stdin \notin Jobs /\ Listener \notin Jobs /\ Nobody \notin Jobs
  /\ Stdin # Listener /\ Stdin # Nobody /\ Listener # Nobody
ASSUME UsageAssumption ==
  {Console, CloseSock, SpawnAfterClose, Shared, HandlersRaise} \subseteq BOOLEAN

\* The use of the loop under which its guarantees hold: jobs keep to their own
\* descriptors, the stream a job waited for outlives any job it starts, and no
\* socket is closed by hand in a process whose loop also watches fd 0.
SafeUsage == /\ ~Shared
             /\ ~SpawnAfterClose
             /\ Console => ~CloseSock

VARIABLES
  owner,     \* kernel: who opened the descriptor with this number
  interest,  \* kernel: descriptors in the epoll set
  ready,     \* kernel: descriptors with a pending event (level-triggered)
  sock,      \* the fd field of a client's socket userdata, 0 once closed
  garbage,   \* descriptors whose Lua object is unreachable
  fds,       \* loop.fds: the callback of a descriptor number
  deferred,  \* loop.deferred: jobs to step in the next iteration
  todo,      \* the list f_loop_run took from loop.deferred, from i on
  block,     \* the timeout of the coming epoll_wait is -1
  batch,     \* events of the last epoll_wait not yet dispatched
  phase,     \* where f_loop_run stands
  loop,      \* "alive", or the error that ended the process
  status,    \* of a job's coroutine
  waiting,   \* job.waiting
  current,   \* the running coroutine, Nobody for the main program
  resumer    \* who resumed a coroutine that has not yielded yet

kernel == <<owner, interest, ready, sock, garbage>>
lists == <<deferred, todo, block, batch, phase>>
vars == <<owner, interest, ready, sock, garbage, fds, deferred, todo, block,
          batch, phase, loop, status, waiting, current, resumer>>

-----------------------------------------------------------------------------
\* job.waiting: an object and how it names its descriptor.  A stream or a
\* pipe is waited for by number, a socket by its userdata, a sleep by the
\* number of a timer that job.waiting.result keeps alive.
NotWaiting == [kind |-> "none", fd |-> 0]
Waits == [kind : {"none", "int", "sock", "time"}, fd : Fds]

\* lua_tofd: a number is itself, a userdata is its fd field at this moment.
ToFd(j) == IF waiting[j].kind = "sock" THEN sock[j] ELSE waiting[j].fd

IsWaiting(j) == waiting[j].kind # "none"

\* f is the timer that job.waiting.result keeps alive for j.
IsTimer(j, f) == waiting[j].kind = "time" /\ waiting[j].fd = f

Free == {f \in Fds : owner[f] = Nobody}
IsLowestFree(n) == n \in Free /\ \A f \in Free : n <= f

\* The stream descriptors that job j owns and Lua code can still name: not
\* its socket, and not the timer hidden in job.waiting.result.
StreamsOf(j) == {f \in Fds : /\ owner[f] = j
                             /\ f \notin garbage
                             /\ f # sock[j]
                             /\ ~IsTimer(j, f)}

\* What j opened and the collector has not closed, its socket aside.
Opened(j) == {f \in Fds : owner[f] = j /\ f # sock[j]}

\* The streams the code of job j can reach.
Reach(j) == UNION {StreamsOf(k) : k \in IF Shared THEN Jobs ELSE {j}}

\* No other coroutine holds f on its stack: it is not suspended on it.
OnlyFor(j, f) == \A k \in Jobs \ {j} : IsWaiting(k) => ToFd(k) # f

Init ==
  /\ owner = [f \in Fds |-> IF f = StdinFd THEN Stdin
                            ELSE IF f = ListenFd THEN Listener ELSE Nobody]
  /\ interest = {ListenFd} \cup (IF Console THEN {StdinFd} ELSE {})
  /\ fds = [f \in Fds |-> IF f = StdinFd /\ Console THEN Stdin
                          ELSE IF f = ListenFd THEN Listener ELSE Nobody]
  /\ ready = {} /\ garbage = {} /\ batch = {}
  /\ sock = [j \in Jobs |-> 0]
  /\ deferred = <<>> /\ todo = <<>> /\ block = FALSE
  /\ phase = "main"
  /\ loop = "alive"
  /\ status = [j \in Jobs |-> "new"]
  /\ waiting = [j \in Jobs |-> NotWaiting]
  /\ current = Nobody
  /\ resumer = [j \in Jobs |-> Nobody]

-----------------------------------------------------------------------------
(* f_loop_run *)

\* loop:run() after the main program has set everything up.
Run == /\ loop = "alive" /\ phase = "main" /\ current = Nobody
       /\ phase' = "top"
       /\ UNCHANGED <<kernel, fds, deferred, todo, block, batch, loop, status,
                      waiting, current, resumer>>

\* Mutant of TakeDeferred: loop.deferred is not replaced.
TakeDeferredKeepsList ==
  /\ loop = "alive" /\ phase = "top"
  /\ todo' = deferred
  /\ block' = (deferred = <<>>)
  /\ phase' = "deferred"
  /\ UNCHANGED <<kernel, fds, deferred, batch, loop, status, waiting, current,
                 resumer>>

\* Mutant of TakeDeferred: the timeout is chosen from the table that replaces
\* loop.deferred, whose length is still 0.
TakeDeferredBlocks ==
  /\ loop = "alive" /\ phase = "top"
  /\ todo' = deferred
  /\ deferred' = <<>>
  /\ block' = TRUE
  /\ phase' = "deferred"
  /\ UNCHANGED <<kernel, fds, batch, loop, status, waiting, current, resumer>>

\* An iteration begins: loop.deferred is replaced by an empty table and its
\* length decides whether the epoll_wait of this iteration may block.
TakeDeferred ==
  /\ loop = "alive" /\ phase = "top"
  /\ todo' = deferred
  /\ deferred' = <<>>
  /\ block' = (deferred = <<>>)
  /\ phase' = "deferred"
  /\ UNCHANGED <<kernel, fds, batch, loop, status, waiting, current, resumer>>

\* job_step enters coroutine.resume: j runs, for the loop.
Enter(j) == /\ status' = [status EXCEPT ![j] = "active"]
            /\ resumer' = [resumer EXCEPT ![j] = current]
            /\ current' = j

RunDeferred ==
  /\ loop = "alive" /\ phase = "deferred" /\ current = Nobody
  /\ todo # <<>> /\ status[Head(todo)] = "suspended"
  /\ todo' = Tail(todo)
  /\ Enter(Head(todo))
  /\ UNCHANGED <<kernel, fds, deferred, block, batch, phase, loop, waiting>>

\* epoll_wait: level-triggered, so every watched descriptor that is ready is
\* reported.  With nothing deferred it waits for the first one.
Poll ==
  /\ loop = "alive" /\ phase = "deferred" /\ current = Nobody
  /\ todo = <<>>
  /\ block => interest \cap ready # {}
  /\ batch' = interest \cap ready
  /\ phase' = "dispatch"
  /\ UNCHANGED <<kernel, fds, deferred, todo, block, loop, status, waiting,
                 current, resumer>>

\* The dispatch loop takes the event of f; the kernel fixes the order.
Take(f) == /\ loop = "alive" /\ phase = "dispatch" /\ current = Nobody
           /\ f \in batch
           /\ batch' = batch \ {f}

EndBatch ==
  /\ loop = "alive" /\ phase = "dispatch" /\ current = Nobody
  /\ batch = {}
  /\ phase' = "top"
  /\ UNCHANGED <<kernel, fds, deferred, todo, block, batch, loop, status,
                 waiting, current, resumer>>

\* The callback was removed after the event had been collected.
DispatchNone(f) ==
  /\ Take(f) /\ fds[f] = Nobody
  /\ UNCHANGED <<kernel, fds, deferred, todo, block, phase, loop, status,
                 waiting, current, resumer>>

\* Server:console reads a line.
DispatchConsole(f) ==
  /\ Take(f) /\ fds[f] = Stdin
  /\ ready' = ready \ {StdinFd}
  /\ UNCHANGED <<owner, interest, sock, garbage, fds, deferred, todo, block,
                 phase, loop, status, waiting, current, resumer>>

\* The job's callback: job_step on a coroutine that can run.
DispatchJob(f) ==
  /\ Take(f) /\ fds[f] \in Jobs /\ status[fds[f]] = "suspended"
  /\ Enter(fds[f])
  /\ UNCHANGED <<kernel, fds, deferred, todo, block, phase, loop, waiting>>

\* Server:accept: a socket for the next client, and a job that runs at once.
\* Another connection may be in the backlog already.
Accept(f, j) ==
  /\ Take(f) /\ fds[f] = Listener
  /\ status[j] = "new"
  /\ \E n \in Fds : /\ IsLowestFree(n)
                    /\ owner' = [owner EXCEPT ![n] = j]
                    /\ sock' = [sock EXCEPT ![j] = n]
  /\ \/ ready' = ready \ {f}
     \/ /\ \E k \in Clients \ {j} : status[k] = "new"
        /\ ready' = ready
  /\ Enter(j)
  /\ UNCHANGED <<interest, garbage, fds, deferred, todo, block, phase, loop,
                 waiting>>

\* accept answers -1 at the descriptor limit: f_server_socket_accept raises an
\* error (fcntl on -1), and f_loop_run passes it on.
AcceptFails(f) ==
  /\ Take(f) /\ fds[f] = Listener /\ Free = {}
  /\ loop' = "accept error"
  /\ UNCHANGED <<kernel, fds, deferred, todo, block, phase, status, waiting,
                 current, resumer>>

-----------------------------------------------------------------------------
(* job_step, from the coroutine's yield or return to its end *)

\* Mutant of InterestWithout: EPOLL_CTL_DEL is forgotten.
InterestKept(j) == interest

\* loop:rm(job.waiting.obj): ignores what epoll_ctl answers.
InterestWithout(j) == IF IsWaiting(j) THEN interest \ {ToFd(j)} ELSE interest
FdsWithout(j) == IF IsWaiting(j) THEN [fds EXCEPT ![ToFd(j)] = Nobody] ELSE fds

\* The timer of a sleep that is over is referenced by nothing any more.
GarbageAfter(j) ==
  garbage \cup {f \in Fds : IsTimer(j, f)}

\* job_step returns to whoever resumed the coroutine.
Leave(j, s) == /\ status' = [status EXCEPT ![j] = s]
               /\ current' = resumer[j]
               /\ resumer' = [resumer EXCEPT ![j] = Nobody]

\* An error escapes job_step.  The coroutine of a caller that is a job gets it
\* as an error of loop:job; the main program and f_loop_run end with it.
Raise(j, why) ==
  /\ Leave(j, "stranded")
  /\ loop' = IF resumer[j] = Nobody THEN why ELSE loop

\* Mutant of Wait: the new registration is made before the old one goes.
WaitAddsFirst(j, kind, f) ==
  /\ waiting' = [waiting EXCEPT ![j] = [kind |-> kind, fd |-> IF kind = "sock" THEN 0 ELSE f]]
  /\ garbage' = GarbageAfter(j)
  /\ interest' = (interest \cup {f}) \ (IF IsWaiting(j) THEN {ToFd(j)} ELSE {})
  /\ fds' = [f2 \in Fds |-> IF IsWaiting(j) /\ f2 = ToFd(j) THEN Nobody
                           ELSE IF f2 = f THEN j ELSE fds[f2]]
  /\ Leave(j, "suspended")
  /\ UNCHANGED loop

\* j yields an object that names descriptor f: the old registration goes,
\* the new one comes, or EPOLL_CTL_ADD finds f registered (EEXIST).
Wait(j, kind, f) ==
  /\ waiting' = [waiting EXCEPT ![j] = [kind |-> kind, fd |-> IF kind = "sock" THEN 0 ELSE f]]
  /\ garbage' = GarbageAfter(j)
  /\ IF f \in InterestWithout(j)
     THEN /\ interest' = InterestWithout(j)
          /\ fds' = FdsWithout(j)
          /\ Raise(j, "add error")
     ELSE /\ interest' = InterestWithout(j) \cup {f}
          /\ fds' = [FdsWithout(j) EXCEPT ![f] = j]
          /\ Leave(j, "suspended")
          /\ UNCHANGED loop

Running(j) == loop = "alive" /\ current = j

\* Stream:yield, await, the drivers' and the client's yields: { fd = f }.
YieldStream(j, f) ==
  /\ Running(j) /\ f \in Reach(j)
  /\ Wait(j, "int", f)
  /\ UNCHANGED <<owner, ready, sock, lists>>

\* Client:yield: { socket = self.socket }.
YieldSocket(j) ==
  /\ Running(j) /\ sock[j] # 0
  /\ Wait(j, "sock", sock[j])
  /\ UNCHANGED <<owner, ready, sock, lists>>

\* A number is yielded: job_step makes a timer of it and waits for that.
YieldTime(j) ==
  /\ Running(j) /\ Cardinality(Opened(j)) <= MaxOpen
  /\ \E n \in Fds : /\ IsLowestFree(n)
                    /\ owner' = [owner EXCEPT ![n] = j]
                    /\ Wait(j, "time", n)
  /\ UNCHANGED <<ready, sock, lists>>

\* At the descriptor limit wtk.io.countdown answers nil, and job_step indexes
\* it before it has touched any registration.
YieldTimeFails(j) ==
  /\ Running(j) /\ Free = {} /\ Cardinality(Opened(j)) <= MaxOpen
  /\ Raise(j, "timer error")
  /\ UNCHANGED <<kernel, fds, lists, waiting>>

\* Anything else is yielded: the job runs again in the next iteration.
Pause(j) ==
  /\ Running(j)
  /\ interest' = InterestWithout(j)
  /\ fds' = FdsWithout(j)
  /\ garbage' = GarbageAfter(j)
  /\ waiting' = [waiting EXCEPT ![j] = NotWaiting]
  /\ deferred' = Append(deferred, j)
  /\ Leave(j, "suspended")
  /\ UNCHANGED <<owner, ready, sock, todo, block, batch, phase, loop>>

\* Mutant of Finish: the registration outlives the job.
FinishKeepsCallback(j) ==
  /\ Running(j)
  /\ garbage' = garbage \cup {f \in Fds : owner[f] = j /\ OnlyFor(j, f)}
  /\ Leave(j, "dead")
  /\ UNCHANGED <<owner, interest, ready, sock, fds, lists, loop, waiting>>

\* The coroutine returns: job.waiting.obj is removed, and what only this job
\* referred to is unreachable.
Finish(j) ==
  /\ Running(j)
  /\ interest' = InterestWithout(j)
  /\ fds' = FdsWithout(j)
  /\ garbage' = garbage \cup {f \in Fds : owner[f] = j /\ OnlyFor(j, f)}
  /\ Leave(j, "dead")
  /\ UNCHANGED <<owner, ready, sock, lists, loop, waiting>>

\* The coroutine dies with an error: job:reject meets a fail handler that
\* raises, and try passes it on.  The assert of job_step raises before
\* job.waiting.obj is removed.
JobRaises(j) ==
  /\ HandlersRaise /\ Running(j)
  /\ garbage' = garbage \cup {f \in Fds : owner[f] = j /\ OnlyFor(j, f)}
  /\ Raise(j, "job error")
  /\ UNCHANGED <<owner, interest, ready, sock, fds, lists, waiting>>

-----------------------------------------------------------------------------
(* What Lua code does: the main program, a running job, the collector *)

\* The stream that j waited for last is still open and still its own.
HoldsLastStream(j) ==
  waiting[j].kind = "int" => waiting[j].fd \in Reach(j)

\* loop:job: a coroutine is created and stepped at once, inside the caller.
Spawn(j) ==
  /\ loop = "alive" /\ status[j] = "new"
  /\ \/ current = Nobody /\ phase = "main"
     \/ current \in Jobs /\ (SpawnAfterClose \/ HoldsLastStream(current))
  /\ Enter(j)
  /\ UNCHANGED <<kernel, fds, lists, loop, waiting>>

\* wtk.io.pipe, wtk.io.file, socket:open, driver.connect: the lowest number.
Open(j) ==
  /\ Running(j) /\ Cardinality(Opened(j)) < MaxOpen
  /\ \E n \in Fds : IsLowestFree(n) /\ owner' = [owner EXCEPT ![n] = j]
  /\ UNCHANGED <<interest, ready, sock, garbage, fds, lists, loop, status,
                 waiting, current, resumer>>

\* close(2): the kernel forgets the number, its events and its registration.
\* The callback stays in loop.fds.
Close(f) == /\ owner' = [owner EXCEPT ![f] = Nobody]
            /\ interest' = interest \ {f}
            /\ ready' = ready \ {f}

CloseStream(j, f) ==
  /\ Running(j) /\ f \in Reach(j)
  /\ Close(f)
  /\ UNCHANGED <<sock, garbage, fds, lists, loop, status, waiting, current,
                 resumer>>

\* Mutant of CloseSocket: the userdata keeps the number of what it closed.
CloseSocketKeepsFd(j, k) ==
  /\ CloseSock /\ Running(j) /\ (j = k \/ Shared)
  /\ sock[k] \notin garbage \cup {0} /\ owner[sock[k]] = k
  /\ Close(sock[k])
  /\ UNCHANGED <<sock, garbage, fds, lists, loop, status, waiting, current,
                 resumer>>

\* Client:close: the userdata forgets its number too.
CloseSocket(j, k) ==
  /\ CloseSock /\ Running(j) /\ (j = k \/ Shared)
  /\ sock[k] \notin garbage \cup {0}
  /\ Close(sock[k])
  /\ sock' = [sock EXCEPT ![k] = 0]
  /\ UNCHANGED <<garbage, fds, lists, loop, status, waiting, current, resumer>>

\* j reads a descriptor until it would block.
Drain(j, f) ==
  /\ Running(j) /\ f \in ready
  /\ f \in Reach(j) \/ (f = sock[j] /\ sock[j] # 0)
  /\ ready' = ready \ {f}
  /\ UNCHANGED <<owner, interest, sock, garbage, fds, lists, loop, status,
                 waiting, current, resumer>>

\* The last reference to a stream goes away (the pipe of an await that is
\* over, a response that was read).
Drop(j, f) ==
  /\ Running(j) /\ f \in StreamsOf(j) /\ OnlyFor(j, f)
  /\ garbage' = garbage \cup {f}
  /\ UNCHANGED <<owner, interest, ready, sock, fds, lists, loop, status,
                 waiting, current, resumer>>

\* Mutant of Collect: a closed socket is marked with an invalid number instead
\* of the 0 that the code tests for.
CollectMarksInvalid(f) ==
  /\ loop = "alive" /\ current # Nobody /\ f \in garbage
  /\ Close(f)
  /\ garbage' = garbage \ {f}
  /\ sock' = [j \in Jobs |-> IF sock[j] = f THEN MaxFd + 1 ELSE sock[j]]
  /\ UNCHANGED <<fds, lists, loop, status, waiting, current, resumer>>

\* The collector, which runs while Lua code runs, calls a __gc.
Collect(f) ==
  /\ loop = "alive" /\ current # Nobody /\ f \in garbage
  /\ Close(f)
  /\ garbage' = garbage \ {f}
  /\ sock' = [j \in Jobs |-> IF sock[j] = f THEN 0 ELSE sock[j]]
  /\ UNCHANGED <<fds, lists, loop, status, waiting, current, resumer>>

\* The outside world: data, a peer that hangs up, a timer that expires, a
\* connection (as long as there are clients left in the model).
Arrive(f) ==
  /\ loop = "alive" /\ owner[f] # Nobody /\ f \notin ready
  /\ f = ListenFd => \E j \in Clients : status[j] = "new"
  /\ ready' = ready \cup {f}
  /\ UNCHANGED <<owner, interest, sock, garbage, fds, lists, loop, status,
                 waiting, current, resumer>>

-----------------------------------------------------------------------------
Dispatch(f) == \/ DispatchNone(f)
               \/ DispatchConsole(f)
               \/ DispatchJob(f)
               \/ \E j \in Clients : Accept(f, j)
               \/ AcceptFails(f)

\* The end of a job's turn.
EndTurn(j) == \/ \E f \in Fds : YieldStream(j, f)
              \/ YieldSocket(j)
              \/ YieldTime(j)
              \/ YieldTimeFails(j)
              \/ Pause(j)
              \/ Finish(j)
              \/ JobRaises(j)

\* What a job does during its turn.
Act(j) == \/ Open(j)
          \/ \E f \in Fds : CloseStream(j, f) \/ Drain(j, f) \/ Drop(j, f)
          \/ \E k \in Clients : CloseSocket(j, k)

Next == \/ Run
        \/ TakeDeferred
        \/ RunDeferred
        \/ Poll
        \/ EndBatch
        \/ \E f \in Fds : Dispatch(f) \/ Collect(f) \/ Arrive(f)
        \/ \E j \in Tasks : Spawn(j)
        \/ \E j \in Jobs : EndTurn(j) \/ Act(j)

\* f_loop_run never stops of its own accord, and jobs are cooperative: each of
\* them yields or returns after finitely many operations.
Fairness == /\ WF_vars(Run \/ TakeDeferred \/ RunDeferred \/ Poll \/ EndBatch)
            /\ WF_vars(\E f \in Fds : Dispatch(f))
            /\ \A j \in Jobs : WF_vars(EndTurn(j))

Spec == Init /\ [][Next]_vars
FairSpec == Spec /\ Fairness

-----------------------------------------------------------------------------
KernelTypeOK ==
  /\ owner \in [Fds -> Callbacks]
  /\ interest \subseteq Fds /\ ready \subseteq Fds /\ garbage \subseteq Fds
  /\ sock \in [Jobs -> Fds]

LoopTypeOK ==
  /\ fds \in [Fds -> Callbacks]
  /\ deferred \in Seq(Jobs) /\ todo \in Seq(Jobs)
  /\ block \in BOOLEAN
  /\ batch \subseteq Fds
  /\ phase \in {"main", "top", "deferred", "dispatch"}
  /\ loop \in {"alive", "add error", "accept error", "timer error", "job error"}

JobTypeOK ==
  /\ status \in [Jobs -> {"new", "active", "suspended", "dead", "stranded"}]
  /\ waiting \in [Jobs -> Waits]
  /\ current \in Jobs \cup {Nobody}
  /\ resumer \in [Jobs -> Jobs \cup {Nobody}]

TypeOK == KernelTypeOK /\ LoopTypeOK /\ JobTypeOK

Suspended(j) == status[j] = "suspended"

\* No lost wakeup: the descriptor of every suspended job is in the epoll set
\* under its own callback, and nothing a job does ever takes away the
\* listener's registration or the console's (job_step's rm before add, by
\* number, wtk.c:493-506).
Registered ==
  /\ \A j \in Jobs : Suspended(j) /\ IsWaiting(j) =>
       ToFd(j) \in interest /\ fds[ToFd(j)] = j
  /\ ListenFd \in interest /\ fds[ListenFd] = Listener
  /\ Console => StdinFd \in interest /\ fds[StdinFd] = Stdin

\* No stray wakeup: a descriptor in the epoll set leads to the callback of the
\* very object it was opened for, and a job's callback is there only while the
\* job has that descriptor as its job.waiting.
NoStrayCallback ==
  loop = "alive" => \A f \in interest :
    /\ fds[f] = owner[f] /\ owner[f] # Nobody
    /\ \A j \in Jobs : fds[f] = j =>
         /\ status[j] \in {"suspended", "active"}
         /\ IsWaiting(j) /\ ToFd(j) = f

\* Because job_step always removes the old registration first, EPOLL_CTL_ADD
\* never meets a descriptor that is registered, which would end the process
\* (wtk.c:223, 493-499).
AddNeverFails == loop # "add error"

\* Whatever the loop is about to step is a coroutine that can be resumed:
\* coroutine.resume never fails its assert (wtk.c:486).
CallbackCanRun ==
  loop = "alive" =>
    /\ todo # <<>> => Suspended(Head(todo))
    /\ \A f \in batch : fds[f] \in Jobs /\ current = Nobody => Suspended(fds[f])

Occurrences(j) == Cardinality({i \in DOMAIN deferred : deferred[i] = j})
                  + Cardinality({i \in DOMAIN todo : todo[i] = j})

\* A job that yielded nothing to wait for is in the two lists exactly once,
\* any other job is in neither: no turn is lost when f_loop_run swaps the
\* lists, and none is taken twice.
DeferredExactlyOnce ==
  \A j \in Jobs :
    Occurrences(j) = IF Suspended(j) /\ ~IsWaiting(j) THEN 1 ELSE 0

\* epoll_wait may only block when no job is deferred (wtk.c:264).
NeverBlocksOnDeferred ==
  phase = "deferred" /\ todo = <<>> /\ block => deferred = <<>>
\* README.md:75-76 and server.lua:473: the loop gives a basic console on fd 0;
\* nobody removes it, so it stays.
ConsoleAttached == Console => StdinFd \in interest /\ fds[StdinFd] = Stdin
=============================================================================
