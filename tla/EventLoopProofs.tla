--------------------------- MODULE EventLoopProofs ---------------------------
(***************************************************************************)
(* For every set of jobs, every descriptor limit and every number of open  *)
(* streams: the registrations of EventLoop are right as long as the loop   *)
(* is used as SafeUsage says; and in every use of it, also when jobs close *)
(* each other's descriptors, descriptor 0 is removed or a call ends the    *)
(* process, a job that pauses gets its turn exactly once, the loop does    *)
(* not sleep on it, and whatever is stepped can be resumed.  From both     *)
(* follows that EventLoop implements the safety part of JobScheduler.      *)
(***************************************************************************)
EXTENDS EventLoopRefinement, FiniteSetTheorems, TLAPS

-----------------------------------------------------------------------------
(* Registrations *)

Live(j) == status[j] \in {"active", "suspended"}

\* The coroutines that have been resumed and have not yielded form a chain from
\* the running one down; all but the first were started by loop:job and have
\* never waited.
Chain ==
  /\ current # Nobody => status[current] = "active"
  /\ \A i \in Jobs : resumer[i] # Nobody =>
       /\ status[i] = "active" /\ status[resumer[i]] = "active"
       /\ resumer[i] # i /\ resumer[i] # current
       /\ ~IsWaiting(i)
  /\ \A i, k \in Jobs : resumer[i] = resumer[k] /\ resumer[i] # Nobody => i = k

\* Who owns which number.
Ownership ==
  /\ owner[StdinFd] = Stdin /\ owner[ListenFd] = Listener
  /\ \A f \in garbage : owner[f] \in Jobs
  /\ \A j \in Jobs : sock[j] # 0 => owner[sock[j]] = j
  /\ \A j \in Jobs : status[j] = "new" => ~IsWaiting(j) /\ sock[j] = 0

\* What job.waiting.obj of a live job can have become.  Only the running job
\* may have closed the stream it waited for, and nobody else has opened that
\* number since; timers stay; a closed socket names fd 0, which is then
\* nobody's business.
Objects ==
  \A j \in Jobs : Live(j) =>
    /\ sock[j] \notin garbage
    /\ waiting[j].kind = "int" =>
         \/ owner[waiting[j].fd] = j /\ (j # current => waiting[j].fd \notin garbage)
         \/ owner[waiting[j].fd] = Nobody /\ j = current
    /\ waiting[j].kind = "time" =>
         owner[waiting[j].fd] = j /\ waiting[j].fd \notin garbage \cup {sock[j]}
    /\ waiting[j].kind = "sock" /\ Console => sock[j] # 0

Safe == /\ Chain
        /\ Ownership
        /\ Objects
        /\ NoStrayCallback
        /\ Registered
        /\ AddNeverFails

IInv == TypeOK /\ Safe

-----------------------------------------------------------------------------
(* Types *)

LEMMA InitTypeOK == Init => TypeOK
<1> SUFFICES ASSUME Init PROVE TypeOK
  OBVIOUS
<1>1. StdinFd \in Fds /\ ListenFd \in Fds /\ 0 \in Fds
  BY FdAssumption DEF StdinFd, ListenFd, Fds
<1>2. NotWaiting \in Waits
  BY <1>1 DEF NotWaiting, Waits
<1>3. KernelTypeOK
  BY <1>1 DEF Init, KernelTypeOK, Callbacks
<1>4. LoopTypeOK
  <2>1. fds \in [Fds -> Callbacks]
    BY <1>1 DEF Init, Callbacks
  <2>2. deferred \in Seq(Jobs) /\ todo \in Seq(Jobs)
    BY DEF Init
  <2> QED
    BY <2>1, <2>2 DEF Init, LoopTypeOK
<1>5. JobTypeOK
  BY <1>2 DEF Init, JobTypeOK
<1> QED
  BY <1>3, <1>4, <1>5 DEF TypeOK

\* The small sets the types are made of.
LEMMA Constants ==
  /\ 0 \in Fds /\ StdinFd \in Fds /\ ListenFd \in Fds
  /\ StdinFd = 0 /\ ListenFd # 0
  /\ Nobody \in Callbacks /\ Nobody \notin Jobs
  /\ \A j \in Jobs : j \in Callbacks /\ j # Nobody /\ j # Stdin /\ j # Listener
  /\ \A j \in Clients \cup Tasks : j \in Jobs
  /\ Stdin # Nobody /\ Listener # Nobody /\ Stdin # Listener
  /\ NotWaiting \in Waits /\ NotWaiting.kind = "none"
BY FdAssumption, CallbackAssumption
DEF Fds, StdinFd, ListenFd, Callbacks, Jobs, NotWaiting, Waits

\* What epoll_ctl DEL and the callback table leave behind is well typed.
LEMMA WithoutTypes ==
  ASSUME TypeOK, NEW j \in Jobs
  PROVE  /\ InterestWithout(j) \subseteq Fds
         /\ FdsWithout(j) \in [Fds -> Callbacks]
         /\ GarbageAfter(j) \subseteq Fds
         /\ ToFd(j) \in Fds
<1>1. ToFd(j) \in Fds
  BY DEF TypeOK, KernelTypeOK, JobTypeOK, ToFd, Waits
<1>2. FdsWithout(j) \in [Fds -> Callbacks]
  BY <1>1, Constants DEF TypeOK, LoopTypeOK, FdsWithout
<1> QED
  BY <1>1, <1>2 DEF TypeOK, KernelTypeOK, InterestWithout, GarbageAfter

LEMMA EnterTypes ==
  ASSUME JobTypeOK, NEW j \in Jobs, Enter(j), waiting' = waiting
  PROVE  JobTypeOK'
BY DEF JobTypeOK, Enter

LEMMA LeaveTypes ==
  ASSUME JobTypeOK, NEW j \in Jobs, NEW s \in {"suspended", "dead", "stranded"},
         Leave(j, s), waiting' \in [Jobs -> Waits]
  PROVE  JobTypeOK'
BY DEF JobTypeOK, Leave

LEMMA WaitTypes ==
  ASSUME TypeOK, NEW j \in Jobs, NEW f \in Fds,
         NEW kind \in {"int", "sock", "time"}, Wait(j, kind, f),
         owner' \in [Fds -> Callbacks], UNCHANGED <<ready, sock, lists>>
  PROVE  TypeOK'
<1>1. /\ InterestWithout(j) \subseteq Fds /\ GarbageAfter(j) \subseteq Fds
      /\ FdsWithout(j) \in [Fds -> Callbacks] /\ j \in Callbacks
  BY WithoutTypes, Constants
<1>2. JobTypeOK'
  <2>1. [kind |-> kind, fd |-> IF kind = "sock" THEN 0 ELSE f] \in Waits
    BY Constants DEF Waits
  <2>2. waiting' \in [Jobs -> Waits]
    BY <2>1 DEF Wait, TypeOK, JobTypeOK
  <2> QED
    BY <2>2, LeaveTypes DEF Wait, Raise, TypeOK
<1>3. KernelTypeOK'
  BY <1>1 DEF Wait, KernelTypeOK, TypeOK
<1>4. LoopTypeOK'
  BY <1>1 DEF Wait, Raise, Leave, LoopTypeOK, TypeOK, lists
<1> QED
  BY <1>2, <1>3, <1>4 DEF TypeOK

LEMMA LoopStepTypes ==
  ASSUME TypeOK,
         Run \/ TakeDeferred \/ RunDeferred \/ Poll \/ EndBatch
  PROVE  TypeOK'
<1>1. KernelTypeOK'
  BY DEF TypeOK, KernelTypeOK, Run, TakeDeferred, RunDeferred, Poll, EndBatch,
         kernel
<1>2. LoopTypeOK'
  <2>1. CASE TakeDeferred
    <3>1. deferred' \in Seq(Jobs)
      BY <2>1 DEF TakeDeferred
    <3> QED
      BY <2>1, <3>1 DEF TakeDeferred, TypeOK, LoopTypeOK
  <2>2. CASE RunDeferred
    BY <2>2 DEF RunDeferred, TypeOK, LoopTypeOK
  <2>3. CASE Run \/ Poll \/ EndBatch
    BY <2>3 DEF Run, Poll, EndBatch, TypeOK, KernelTypeOK, LoopTypeOK
  <2> QED
    BY <2>1, <2>2, <2>3
<1>3. JobTypeOK'
  <2>1. CASE RunDeferred
    <3>1. Head(todo) \in Jobs
      BY <2>1 DEF RunDeferred, TypeOK, LoopTypeOK
    <3> QED
      BY <2>1, <3>1, EnterTypes DEF RunDeferred, TypeOK
  <2> QED
    BY <2>1 DEF TypeOK, JobTypeOK, Run, TakeDeferred, Poll, EndBatch
<1> QED
  BY <1>1, <1>2, <1>3 DEF TypeOK

LEMMA DispatchTypes ==
  ASSUME TypeOK, NEW f \in Fds, Dispatch(f)
  PROVE  TypeOK'
<1>1. CASE DispatchNone(f) \/ DispatchConsole(f) \/ AcceptFails(f)
  BY <1>1 DEF DispatchNone, DispatchConsole, AcceptFails, Take, kernel,
              TypeOK, KernelTypeOK, LoopTypeOK, JobTypeOK
<1>2. CASE DispatchJob(f)
  <2>1. JobTypeOK'
    BY <1>2, EnterTypes DEF DispatchJob, TypeOK
  <2> QED
    BY <1>2, <2>1 DEF DispatchJob, Take, kernel, TypeOK, KernelTypeOK, LoopTypeOK
<1>3. ASSUME NEW j \in Clients, Accept(f, j) PROVE TypeOK'
  <2>1. j \in Jobs /\ j \in Callbacks
    BY Constants
  <2>2. JobTypeOK'
    BY <1>3, <2>1, EnterTypes DEF Accept, TypeOK
  <2>3. KernelTypeOK'
    BY <1>3, <2>1 DEF Accept, TypeOK, KernelTypeOK
  <2>4. LoopTypeOK'
    BY <1>3 DEF Accept, Take, TypeOK, LoopTypeOK
  <2> QED
    BY <2>2, <2>3, <2>4 DEF TypeOK
<1> QED
  BY <1>1, <1>2, <1>3 DEF Dispatch

LEMMA AppendType ==
  ASSUME NEW q \in Seq(Jobs), NEW j \in Jobs
  PROVE  Append(q, j) \in Seq(Jobs)
OBVIOUS

LEMMA EndTurnTypes ==
  ASSUME TypeOK, NEW j \in Jobs, EndTurn(j)
  PROVE  TypeOK'
<1>1. ASSUME NEW f \in Fds, YieldStream(j, f) PROVE TypeOK'
  BY <1>1, WaitTypes DEF YieldStream, TypeOK, KernelTypeOK
<1>2. CASE YieldSocket(j)
  <2>1. sock[j] \in Fds
    BY DEF TypeOK, KernelTypeOK
  <2> QED
    BY <1>2, <2>1, WaitTypes DEF YieldSocket, TypeOK, KernelTypeOK
<1>3. CASE YieldTime(j)
  <2>1. PICK n \in Fds : owner' = [owner EXCEPT ![n] = j] /\ Wait(j, "time", n)
    BY <1>3 DEF YieldTime
  <2>2. owner' \in [Fds -> Callbacks]
    BY <2>1, Constants DEF TypeOK, KernelTypeOK
  <2> QED
    BY <1>3, <2>1, <2>2, WaitTypes DEF YieldTime
<1>4. CASE YieldTimeFails(j)
  <2>1. JobTypeOK'
    BY <1>4, LeaveTypes DEF YieldTimeFails, Raise, TypeOK, JobTypeOK
  <2> QED
    BY <1>4, <2>1 DEF YieldTimeFails, Raise, Leave, kernel, lists, TypeOK,
                      KernelTypeOK, LoopTypeOK
<1>5. CASE Pause(j)
  <2>1. JobTypeOK'
    <3>1. waiting' \in [Jobs -> Waits]
      BY <1>5, Constants DEF Pause, TypeOK, JobTypeOK
    <3> QED
      BY <1>5, <3>1, LeaveTypes DEF Pause, TypeOK
  <2>2. KernelTypeOK'
    BY <1>5, WithoutTypes DEF Pause, TypeOK, KernelTypeOK
  <2>3. LoopTypeOK'
    <3>1. deferred' \in Seq(Jobs)
      <4>1. deferred \in Seq(Jobs) /\ deferred' = Append(deferred, j)
        BY <1>5 DEF Pause, TypeOK, LoopTypeOK
      <4> QED
        BY <4>1, AppendType
    <3> QED
      BY <1>5, <3>1, WithoutTypes DEF Pause, TypeOK, LoopTypeOK
  <2> QED
    BY <2>1, <2>2, <2>3 DEF TypeOK
<1>6. CASE Finish(j)
  <2>1. JobTypeOK'
    BY <1>6, LeaveTypes DEF Finish, TypeOK, JobTypeOK
  <2>2. KernelTypeOK'
    BY <1>6, WithoutTypes DEF Finish, TypeOK, KernelTypeOK
  <2>3. LoopTypeOK'
    BY <1>6, WithoutTypes DEF Finish, lists, TypeOK, LoopTypeOK
  <2> QED
    BY <2>1, <2>2, <2>3 DEF TypeOK
<1>7. CASE JobRaises(j)
  <2>1. JobTypeOK'
    BY <1>7, LeaveTypes DEF JobRaises, Raise, TypeOK, JobTypeOK
  <2> QED
    BY <1>7, <2>1 DEF JobRaises, Raise, Leave, lists, TypeOK, KernelTypeOK, LoopTypeOK
<1> QED
  BY <1>1, <1>2, <1>3, <1>4, <1>5, <1>6, <1>7 DEF EndTurn

LEMMA ActTypes ==
  ASSUME TypeOK, NEW j \in Jobs, Act(j)
  PROVE  TypeOK'
<1>1. LoopTypeOK' /\ JobTypeOK'
  BY DEF Act, Open, CloseStream, CloseSocket, Drain, Drop, lists, TypeOK,
         LoopTypeOK, JobTypeOK
<1>2. CASE Open(j)
  BY <1>1, <1>2, Constants DEF Open, TypeOK, KernelTypeOK
<1>3. ASSUME NEW f \in Fds, CloseStream(j, f) \/ Drain(j, f) \/ Drop(j, f)
      PROVE TypeOK'
  <2>1. CASE CloseStream(j, f)
    BY <1>1, <2>1, Constants DEF CloseStream, Close, TypeOK, KernelTypeOK
  <2>2. CASE Drain(j, f) \/ Drop(j, f)
    BY <1>1, <2>2 DEF Drain, Drop, TypeOK, KernelTypeOK
  <2> QED
    BY <1>3, <2>1, <2>2
<1>4. ASSUME NEW k \in Clients, CloseSocket(j, k) PROVE TypeOK'
  BY <1>1, <1>4, Constants DEF CloseSocket, Close, TypeOK, KernelTypeOK
<1> QED
  BY <1>2, <1>3, <1>4 DEF Act

LEMMA NextTypeOK == TypeOK /\ [Next]_vars => TypeOK'
<1> SUFFICES ASSUME TypeOK, [Next]_vars PROVE TypeOK'
  OBVIOUS
<1>1. CASE UNCHANGED vars
  BY <1>1 DEF vars, TypeOK, KernelTypeOK, LoopTypeOK, JobTypeOK
<1>2. ASSUME NEW f \in Fds, Collect(f) PROVE TypeOK'
  <2>1. KernelTypeOK'
    BY <1>2, Constants DEF Collect, Close, TypeOK, KernelTypeOK
  <2> QED
    BY <1>2, <2>1 DEF Collect, lists, TypeOK, LoopTypeOK, JobTypeOK
<1>3. ASSUME NEW f \in Fds, Arrive(f) PROVE TypeOK'
  BY <1>3 DEF Arrive, lists, TypeOK, KernelTypeOK, LoopTypeOK, JobTypeOK
<1>4. ASSUME NEW j \in Tasks, Spawn(j) PROVE TypeOK'
  <2>1. JobTypeOK'
    BY <1>4, Constants, EnterTypes DEF Spawn, TypeOK
  <2> QED
    BY <1>4, <2>1 DEF Spawn, kernel, lists, TypeOK, KernelTypeOK, LoopTypeOK
<1> QED
  BY <1>1, <1>2, <1>3, <1>4, LoopStepTypes, DispatchTypes, EndTurnTypes, ActTypes
  DEF Next

\* Every variable of the loop keeps the type its C or Lua counterpart has, in
\* every use of the loop (wtk.c:159-280, 484-509).
THEOREM TypeCorrect == Spec => []TypeOK
<1>1. Init => TypeOK
  BY InitTypeOK
<1>2. TypeOK /\ [Next]_vars => TypeOK'
  BY NextTypeOK
<1> QED
  BY <1>1, <1>2, PTL DEF Spec
-----------------------------------------------------------------------------
(* The inductive invariant *)

LEMMA InitSafe == Init => Safe
<1> SUFFICES ASSUME Init PROVE Safe
  OBVIOUS
<1>1. \A j \in Jobs : status[j] = "new" /\ ~IsWaiting(j) /\ resumer[j] = Nobody
  BY Constants DEF Init, IsWaiting
<1>2. Chain
  BY <1>1 DEF Chain, Init
<1>3. Ownership
  BY <1>1, Constants DEF Ownership, Init
<1>4. Objects
  BY <1>1 DEF Objects, Live
<1>5. NoStrayCallback
  BY Constants DEF NoStrayCallback, Init
<1>6. Registered
  BY <1>1, Constants DEF Registered, Suspended, Init
<1>7. AddNeverFails
  BY DEF AddNeverFails, Init
<1> QED
  BY <1>2, <1>3, <1>4, <1>5, <1>6, <1>7 DEF Safe

\* A coroutine that yields or ends hands over to the one that resumed it.
LEMMA ChainLeave ==
  ASSUME TypeOK, Chain, NEW j \in Jobs, current = j,
         NEW s \in {"suspended", "dead", "stranded"}, Leave(j, s),
         \A i \in Jobs \ {j} : waiting'[i] = waiting[i]
  PROVE  Chain' /\ current' # j
<1>1. status \in [Jobs -> {"new", "active", "suspended", "dead", "stranded"}]
      /\ resumer \in [Jobs -> Jobs \cup {Nobody}] /\ j # Nobody
  BY Constants DEF TypeOK, JobTypeOK
<1>2. current' # j
  BY <1>1 DEF Chain, Leave
<1>3. current' # Nobody => status'[current'] = "active"
  BY <1>1 DEF Chain, Leave
<1>4. ASSUME NEW i \in Jobs, resumer'[i] # Nobody
      PROVE  /\ status'[i] = "active" /\ status'[resumer'[i]] = "active"
             /\ resumer'[i] # i /\ resumer'[i] # current'
             /\ ~IsWaiting(i)'
  <2>1. i # j /\ resumer'[i] = resumer[i]
    BY <1>1, <1>4 DEF Leave
  <2> QED
    BY <1>1, <1>4, <2>1 DEF Chain, Leave, IsWaiting
<1>5. ASSUME NEW i \in Jobs, NEW k \in Jobs,
             resumer'[i] = resumer'[k], resumer'[i] # Nobody
      PROVE  i = k
  BY <1>1, <1>5 DEF Chain, Leave
<1> QED
  BY <1>2, <1>3, <1>4, <1>5 DEF Chain

\* A coroutine is resumed by the loop, or a new one by the running one.
LEMMA ChainEnter ==
  ASSUME TypeOK, Chain, NEW j \in Jobs, Enter(j), waiting' = waiting,
         status[j] # "active", current = Nobody \/ ~IsWaiting(j)
  PROVE  Chain'
<1>1. status \in [Jobs -> {"new", "active", "suspended", "dead", "stranded"}]
      /\ resumer \in [Jobs -> Jobs \cup {Nobody}] /\ j # Nobody
      /\ current \in Jobs \cup {Nobody}
  BY Constants DEF TypeOK, JobTypeOK
<1>2. current' # Nobody => status'[current'] = "active"
  BY <1>1 DEF Chain, Enter
<1>3. ASSUME NEW i \in Jobs, resumer'[i] # Nobody
      PROVE  /\ status'[i] = "active" /\ status'[resumer'[i]] = "active"
             /\ resumer'[i] # i /\ resumer'[i] # current'
             /\ ~IsWaiting(i)'
  BY <1>1, <1>3 DEF Chain, Enter, IsWaiting
<1>4. ASSUME NEW i \in Jobs, NEW k \in Jobs,
             resumer'[i] = resumer'[k], resumer'[i] # Nobody
      PROVE  i = k
  BY <1>1, <1>4 DEF Chain, Enter
<1> QED
  BY <1>2, <1>3, <1>4 DEF Chain

\* What the running job's rm(job.waiting.obj) leaves registered.
LEMMA Unregister ==
  ASSUME SafeUsage, IInv, NEW j \in Jobs, Running(j)
  PROVE  /\ current = j /\ status[j] = "active" /\ Live(j)
         /\ \A g \in interest : g \in Fds /\ fds[g] = owner[g] /\ owner[g] # Nobody
         /\ \A g \in InterestWithout(j) :
              g \in interest /\ fds[g] # j /\ FdsWithout(j)[g] = fds[g]
         /\ \A k \in Jobs \ {j} : Suspended(k) /\ IsWaiting(k) =>
              ToFd(k) \in InterestWithout(j)
         /\ ListenFd \in InterestWithout(j)
         /\ Console => StdinFd \in InterestWithout(j)
         /\ \A g \in Fds : IsTimer(j, g) =>
              owner[g] = j /\ g # sock[j] /\ g \notin garbage
<1>1. current = j /\ status[j] = "active" /\ Live(j)
  BY Constants DEF IInv, Safe, Chain, Running, Live
<1>2. \A g \in interest : /\ g \in Fds /\ fds[g] = owner[g] /\ owner[g] # Nobody
                          /\ fds[g] = j => IsWaiting(j) /\ ToFd(j) = g
  BY DEF IInv, TypeOK, KernelTypeOK, Safe, NoStrayCallback, Running
<1>3. waiting[j].kind \in {"none", "int", "sock", "time"} /\ waiting[j].fd \in Fds
  BY DEF IInv, TypeOK, JobTypeOK, Waits
<1>4. IsWaiting(j) => \/ owner[ToFd(j)] \in {j, Nobody}
                      \/ ToFd(j) = 0 /\ ~Console
  BY <1>1, <1>3 DEF IInv, Safe, Objects, Ownership, IsWaiting, ToFd
<1>5. ASSUME NEW g \in interest, fds[g] # j, g # StdinFd \/ Console
      PROVE  g \in InterestWithout(j)
  BY <1>2, <1>4, <1>5, Constants DEF InterestWithout
<1>6. \A g \in InterestWithout(j) :
        g \in interest /\ fds[g] # j /\ FdsWithout(j)[g] = fds[g]
  BY <1>2, WithoutTypes DEF InterestWithout, FdsWithout, IInv, TypeOK, LoopTypeOK
<1>7. ASSUME NEW k \in Jobs \ {j}, Suspended(k), IsWaiting(k)
      PROVE  ToFd(k) \in InterestWithout(j)
  <2>1. ToFd(k) \in interest /\ fds[ToFd(k)] = k
    BY <1>7 DEF IInv, Safe, Registered
  <2>2. ToFd(k) # StdinFd
    BY <1>2, <2>1, Constants DEF IInv, Safe, Ownership
  <2> QED
    BY <1>5, <2>1, <2>2
<1>8. ListenFd \in InterestWithout(j) /\ (Console => StdinFd \in InterestWithout(j))
  BY <1>5, Constants DEF IInv, Safe, Registered
<1>9. \A g \in Fds : IsTimer(j, g) => owner[g] = j /\ g # sock[j] /\ g \notin garbage
  BY <1>1 DEF IInv, Safe, Objects, IsTimer
<1> QED
  BY <1>1, <1>2, <1>6, <1>7, <1>8, <1>9
\* Steps that leave coroutines and what they wait for alone, and take nothing
\* away from a live job but what the running one closes.
LEMMA QuietStep ==
  ASSUME IInv, UNCHANGED <<status, waiting, current, resumer, interest, fds, sock>>,
         loop' \in {loop, "accept error"}, loop = "alive",
         \A f \in Fds : \/ owner'[f] = owner[f]
                        \/ /\ owner[f] = Nobody
                           /\ owner'[f] = current /\ current # Nobody,
         garbage' \subseteq Fds,
         \A f \in garbage' \ garbage :
           /\ owner[f] \in Jobs /\ f # StdinFd
           /\ \A j \in Jobs : /\ f # sock[j]
                              /\ Live(j) /\ waiting[j].kind = "time" => f # waiting[j].fd
                              /\ Live(j) /\ waiting[j].kind = "int" /\ j # current
                                 => f # waiting[j].fd
  PROVE  Safe'
<1> USE DEF IInv, Safe
<1>0. /\ \A j \in Jobs : sock[j] \in Fds /\ waiting[j].fd \in Fds
      /\ interest \subseteq Fds /\ garbage \subseteq Fds
      /\ current \in Jobs \cup {Nobody}
  BY DEF TypeOK, KernelTypeOK, JobTypeOK, Waits
<1>a. \A f \in Fds : owner[f] # Nobody => owner'[f] = owner[f]
  OBVIOUS
<1>b. \A f \in garbage' : f \in Fds /\ owner[f] \in Jobs
  BY <1>0 DEF Ownership
<1>1. Chain'
  BY DEF Chain, IsWaiting
<1>2. Ownership'
  <2>1. owner'[StdinFd] = Stdin /\ owner'[ListenFd] = Listener
    BY Constants DEF Ownership
  <2>2. \A f \in garbage' : owner'[f] \in Jobs
    <3> SUFFICES ASSUME NEW f \in garbage' PROVE owner'[f] \in Jobs
      OBVIOUS
    <3>1. f \in Fds /\ owner[f] \in Jobs /\ owner[f] # Nobody
      BY <1>b, Constants
    <3> QED
      BY <1>a, <3>1
  <2>3. ASSUME NEW j \in Jobs, sock[j] # 0 PROVE owner'[sock[j]] = j
    <3>1. sock[j] \in Fds /\ owner[sock[j]] = j /\ j # Nobody
      BY <1>0, <2>3, Constants DEF Ownership
    <3> QED
      BY <1>a, <3>1
  <2> QED
    BY <2>1, <2>2, <2>3 DEF Ownership, IsWaiting
<1>3. Objects'
  <2> SUFFICES ASSUME NEW j \in Jobs, Live(j)'
      PROVE  /\ sock'[j] \notin garbage'
             /\ waiting'[j].kind = "int" =>
                  \/ owner'[waiting'[j].fd] = j
                     /\ (j # current' => waiting'[j].fd \notin garbage')
                  \/ owner'[waiting'[j].fd] = Nobody /\ j = current'
             /\ waiting'[j].kind = "time" =>
                  owner'[waiting'[j].fd] = j
                  /\ waiting'[j].fd \notin garbage' \cup {sock'[j]}
             /\ waiting'[j].kind = "sock" /\ Console => sock'[j] # 0
    BY DEF Objects
  <2>1. Live(j)
    BY DEF Live
  <2>2. sock[j] \in Fds /\ waiting[j].fd \in Fds
    BY <1>0
  <2>3. sock'[j] \notin garbage'
    BY <2>1 DEF Objects
  <2>4. ASSUME waiting[j].kind = "int", j # current
        PROVE  owner'[waiting[j].fd] = j /\ waiting[j].fd \notin garbage'
    <3>1. owner[waiting[j].fd] = j /\ waiting[j].fd \notin garbage
      BY <2>1, <2>4 DEF Objects
    <3>2. waiting[j].fd \notin garbage'
      BY <2>1, <2>4, <3>1
    <3> QED
      BY <1>a, <2>2, <3>1, <3>2, Constants
  <2>5. ASSUME waiting[j].kind = "int", j = current
        PROVE  owner'[waiting[j].fd] \in {j, Nobody}
    BY <2>1, <2>2, <2>5, Constants DEF Objects
  <2>6. ASSUME waiting[j].kind = "time"
        PROVE  owner'[waiting[j].fd] = j
               /\ waiting[j].fd \notin garbage' \cup {sock[j]}
    <3>1. owner[waiting[j].fd] = j /\ waiting[j].fd \notin garbage \cup {sock[j]}
      BY <2>1, <2>6 DEF Objects
    <3>2. waiting[j].fd \notin garbage'
      BY <2>1, <2>6, <3>1
    <3> QED
      BY <1>a, <2>2, <3>1, <3>2, Constants
  <2>7. waiting[j].kind = "sock" /\ Console => sock[j] # 0
    BY <2>1 DEF Objects
  <2> QED
    BY <2>3, <2>4, <2>5, <2>6, <2>7
<1>4. NoStrayCallback'
  BY <1>0 DEF NoStrayCallback, IsWaiting, ToFd
<1>5. Registered'
  BY DEF Registered, Suspended, IsWaiting, ToFd
<1>6. AddNeverFails'
  BY DEF AddNeverFails
<1> QED
  BY <1>1, <1>2, <1>3, <1>4, <1>5, <1>6

\* A coroutine that can run is resumed by the loop.
LEMMA ResumeStep ==
  ASSUME IInv, NEW j \in Jobs, Enter(j), UNCHANGED <<kernel, fds, loop, waiting>>,
         status[j] = "suspended", current = Nobody, loop = "alive"
  PROVE  Safe'
<1> USE DEF IInv, Safe, kernel
<1>1. status' = [status EXCEPT ![j] = "active"] /\ current' = j
      /\ status \in [Jobs -> {"new", "active", "suspended", "dead", "stranded"}]
      /\ \A k \in Jobs : k # Nobody
  BY Constants DEF Enter, TypeOK, JobTypeOK
<1>2. Chain'
  BY ChainEnter
<1>3. Ownership'
  BY <1>1 DEF Ownership, IsWaiting
<1>4. Objects'
  BY <1>1 DEF Objects, Live
<1>5. NoStrayCallback'
  BY <1>1 DEF NoStrayCallback, IsWaiting, ToFd
<1>6. Registered'
  BY <1>1 DEF Registered, Suspended, IsWaiting, ToFd
<1>7. AddNeverFails'
  BY DEF AddNeverFails
<1> QED
  BY <1>2, <1>3, <1>4, <1>5, <1>6, <1>7

\* A new coroutine is started inside the running one, or by the main program.
LEMMA SpawnStep ==
  ASSUME SafeUsage, IInv, NEW j \in Tasks, Spawn(j)
  PROVE  Safe'
<1> USE DEF IInv, Safe, kernel
<1>1. /\ j \in Jobs /\ status[j] = "new" /\ ~IsWaiting(j) /\ loop = "alive"
      /\ status' = [status EXCEPT ![j] = "active"] /\ current' = j
      /\ status \in [Jobs -> {"new", "active", "suspended", "dead", "stranded"}]
      /\ \A k \in Jobs : k # Nobody
      /\ UNCHANGED <<owner, interest, ready, sock, garbage, fds, loop, waiting>>
  BY Constants DEF Spawn, Enter, TypeOK, JobTypeOK, Ownership
<1>2. current \in Jobs /\ waiting[current].kind = "int" =>
        /\ owner[waiting[current].fd] = current
        /\ waiting[current].fd \notin garbage
  BY <1>1, Constants DEF Spawn, HoldsLastStream, Reach, StreamsOf, SafeUsage
<1>3. Chain'
  BY <1>1, ChainEnter DEF Spawn
<1>4. Ownership'
  BY <1>1 DEF Ownership, IsWaiting
<1>5. Objects'
  <2> SUFFICES ASSUME NEW k \in Jobs, Live(k)'
      PROVE  /\ sock'[k] \notin garbage'
             /\ waiting'[k].kind = "int" =>
                  \/ owner'[waiting'[k].fd] = k
                     /\ (k # current' => waiting'[k].fd \notin garbage')
                  \/ owner'[waiting'[k].fd] = Nobody /\ k = current'
             /\ waiting'[k].kind = "time" =>
                  owner'[waiting'[k].fd] = k
                  /\ waiting'[k].fd \notin garbage' \cup {sock'[k]}
             /\ waiting'[k].kind = "sock" /\ Console => sock'[k] # 0
    BY DEF Objects
  <2>1. CASE k = j
    <3>1. sock[j] \notin garbage
      BY <1>1, Constants DEF Ownership
    <3> QED
      BY <1>1, <2>1, <3>1 DEF IsWaiting
  <2>2. CASE k # j
    <3>1. Live(k)
      BY <1>1, <2>2 DEF Live
    <3> QED
      BY <1>1, <1>2, <2>2, <3>1 DEF Objects
  <2> QED
    BY <2>1, <2>2
<1>6. NoStrayCallback'
  BY <1>1 DEF NoStrayCallback, IsWaiting, ToFd
<1>7. Registered'
  BY <1>1 DEF Registered, Suspended, IsWaiting, ToFd
<1>8. AddNeverFails'
  BY <1>1 DEF AddNeverFails
<1> QED
  BY <1>3, <1>4, <1>5, <1>6, <1>7, <1>8

\* A new coroutine is started for a client the listener accepted.
LEMMA AcceptStep ==
  ASSUME SafeUsage, IInv, NEW f \in Fds, NEW j \in Clients, Accept(f, j)
  PROVE  Safe'
<1> USE DEF IInv, Safe
<1>1. /\ j \in Jobs /\ status[j] = "new" /\ ~IsWaiting(j) /\ loop = "alive"
      /\ current = Nobody
      /\ status' = [status EXCEPT ![j] = "active"] /\ current' = j
      /\ status \in [Jobs -> {"new", "active", "suspended", "dead", "stranded"}]
      /\ \A k \in Jobs : k # Nobody
      /\ UNCHANGED <<interest, garbage, fds, loop, waiting>>
  BY Constants DEF Accept, Take, Enter, TypeOK, JobTypeOK, Ownership
<1>2. PICK n \in Fds : /\ owner[n] = Nobody
                       /\ owner' = [owner EXCEPT ![n] = j]
                       /\ sock' = [sock EXCEPT ![j] = n]
  BY DEF Accept, IsLowestFree, Free
<1>3. owner \in [Fds -> Callbacks] /\ sock \in [Jobs -> Fds]
      /\ garbage \subseteq Fds /\ interest \subseteq Fds
      /\ \A k \in Jobs : waiting[k].fd \in Fds
  BY DEF TypeOK, KernelTypeOK, JobTypeOK, Waits
<1>4. Chain'
  BY <1>1, ChainEnter DEF Accept
<1>5. Ownership'
  BY <1>1, <1>2, <1>3, Constants DEF Ownership, IsWaiting
<1>6. Objects'
  BY <1>1, <1>2, <1>3, Constants DEF Objects, Live, IsWaiting, Ownership
<1>7. NoStrayCallback'
  BY <1>1, <1>2, <1>3 DEF NoStrayCallback, IsWaiting, ToFd
<1>8. Registered'
  BY <1>1, <1>2, <1>3 DEF Registered, Suspended, IsWaiting, ToFd
<1>9. AddNeverFails'
  BY <1>1 DEF AddNeverFails
<1> QED
  BY <1>4, <1>5, <1>6, <1>7, <1>8, <1>9
\* The running job waits for f, which is its own.
LEMMA WaitStep ==
  ASSUME SafeUsage, IInv, NEW j \in Jobs, Running(j),
         NEW f \in Fds, NEW kind \in {"int", "sock", "time"}, Wait(j, kind, f),
         UNCHANGED sock,
         \A g \in Fds : g # f => owner'[g] = owner[g],
         owner'[f] = j, owner[f] \in {j, Nobody},
         f \notin garbage, ~IsTimer(j, f),
         kind = "sock" => f = sock[j] /\ f # 0,
         kind # "sock" => f # sock[j]
  PROVE  Safe'
<1> DEFINE w == [kind |-> kind, fd |-> IF kind = "sock" THEN 0 ELSE f]
<1>1. /\ current = j /\ status[j] = "active" /\ Live(j)
      /\ \A g \in interest : g \in Fds /\ fds[g] = owner[g] /\ owner[g] # Nobody
      /\ \A g \in InterestWithout(j) :
           g \in interest /\ fds[g] # j /\ FdsWithout(j)[g] = fds[g]
      /\ \A k \in Jobs \ {j} : Suspended(k) /\ IsWaiting(k) =>
           ToFd(k) \in InterestWithout(j)
      /\ ListenFd \in InterestWithout(j)
      /\ Console => StdinFd \in InterestWithout(j)
      /\ \A g \in Fds : IsTimer(j, g) =>
           owner[g] = j /\ g # sock[j] /\ g \notin garbage
  BY Unregister
<1>2. f \notin InterestWithout(j)
  BY <1>1
<1>3. /\ interest' = InterestWithout(j) \cup {f}
      /\ fds' = [FdsWithout(j) EXCEPT ![f] = j]
      /\ Leave(j, "suspended") /\ loop' = loop
      /\ waiting' = [waiting EXCEPT ![j] = w]
      /\ garbage' = GarbageAfter(j)
  BY <1>2 DEF Wait
<1>4. /\ status' = [status EXCEPT ![j] = "suspended"] /\ current' = resumer[j]
      /\ status \in [Jobs -> {"new", "active", "suspended", "dead", "stranded"}]
      /\ waiting \in [Jobs -> Waits] /\ FdsWithout(j) \in [Fds -> Callbacks]
      /\ sock \in [Jobs -> Fds] /\ garbage \subseteq Fds
      /\ j # Nobody /\ loop = "alive"
      /\ \A k \in Jobs : waiting[k].fd \in Fds
  BY <1>3, Constants, WithoutTypes
  DEF Leave, IInv, TypeOK, KernelTypeOK, JobTypeOK, Running, Waits
<1>5. /\ waiting'[j] = w /\ w.kind = kind /\ w.fd = (IF kind = "sock" THEN 0 ELSE f)
      /\ \A k \in Jobs \ {j} : waiting'[k] = waiting[k] /\ status'[k] = status[k]
      /\ status'[j] = "suspended"
  BY <1>3, <1>4
<1>6. Chain' /\ current' # j
  BY <1>1, <1>3, <1>5, ChainLeave DEF IInv, Safe
<1>7. owner'[StdinFd] = Stdin /\ owner'[ListenFd] = Listener
  BY Constants DEF IInv, Safe, Ownership
<1>8. /\ \A g \in garbage' : g \in Fds /\ owner[g] \in Jobs /\ g # f
      /\ \A g \in garbage' : g \in garbage \/ (owner[g] = j /\ g # sock[j])
  <2> SUFFICES ASSUME NEW g \in garbage'
      PROVE  /\ g \in Fds /\ owner[g] \in Jobs /\ g # f
             /\ g \in garbage \/ (owner[g] = j /\ g # sock[j])
    OBVIOUS
  <2>1. CASE g \in garbage
    BY <1>4, <2>1 DEF IInv, Safe, Ownership
  <2>2. CASE g \in Fds /\ IsTimer(j, g)
    BY <1>1, <2>2
  <2> QED
    BY <1>3, <2>1, <2>2 DEF GarbageAfter
<1>9. Ownership'
  <2>1. \A g \in garbage' : owner'[g] \in Jobs
    BY <1>8
  <2>2. \A k \in Jobs : sock'[k] # 0 => owner'[sock'[k]] = k
    BY <1>4, Constants DEF IInv, Safe, Ownership
  <2>3. \A k \in Jobs : status'[k] = "new" => ~IsWaiting(k)' /\ sock'[k] = 0
    BY <1>5 DEF IInv, Safe, Ownership, IsWaiting
  <2> QED
    BY <1>7, <2>1, <2>2, <2>3 DEF Ownership
<1>10. Objects'
  <2> SUFFICES ASSUME NEW k \in Jobs, Live(k)'
      PROVE  /\ sock'[k] \notin garbage'
             /\ waiting'[k].kind = "int" =>
                  \/ owner'[waiting'[k].fd] = k
                     /\ (k # current' => waiting'[k].fd \notin garbage')
                  \/ owner'[waiting'[k].fd] = Nobody /\ k = current'
             /\ waiting'[k].kind = "time" =>
                  owner'[waiting'[k].fd] = k
                  /\ waiting'[k].fd \notin garbage' \cup {sock'[k]}
             /\ waiting'[k].kind = "sock" /\ Console => sock'[k] # 0
    BY DEF Objects
  <2>1. CASE k = j
    <3>1. sock[j] \notin garbage
      BY <1>1 DEF IInv, Safe, Objects
    <3>2. sock'[j] \notin garbage'
      BY <1>8, <3>1
    <3> QED
      BY <1>5, <1>8, <2>1, <3>2
  <2>2. CASE k # j
    <3>1. Live(k) /\ waiting'[k] = waiting[k] /\ waiting[k].fd \in Fds
          /\ k # current
      BY <1>1, <1>4, <1>5, <2>2 DEF Live
    <3>2. sock[k] \notin garbage'
      <4>1. sock[k] \notin garbage
        BY <3>1 DEF IInv, Safe, Objects
      <4>2. sock[k] # 0 => owner[sock[k]] = k
        BY DEF IInv, Safe, Ownership
      <4>3. owner[0] \notin Jobs
        BY Constants DEF IInv, Safe, Ownership
      <4> QED
        BY <1>8, <2>2, <4>1, <4>2, <4>3
    <3>3. ASSUME waiting[k].kind \in {"int", "time"}
          PROVE  /\ owner'[waiting[k].fd] = k /\ waiting[k].fd \notin garbage'
                 /\ waiting[k].kind = "time" => waiting[k].fd # sock[k]
      <4>1. /\ owner[waiting[k].fd] = k /\ waiting[k].fd \notin garbage
            /\ waiting[k].kind = "time" => waiting[k].fd # sock[k]
        BY <3>1, <3>3 DEF IInv, Safe, Objects
      <4>2. waiting[k].fd # f
        BY <2>2, <4>1, Constants
      <4> QED
        BY <1>8, <2>2, <3>1, <4>1, <4>2
    <3>4. waiting[k].kind = "sock" /\ Console => sock[k] # 0
      BY <3>1 DEF IInv, Safe, Objects
    <3> QED
      BY <3>1, <3>2, <3>3, <3>4
  <2> QED
    BY <2>1, <2>2
<1>11. NoStrayCallback'
  <2> SUFFICES ASSUME NEW g \in interest'
      PROVE  /\ fds'[g] = owner'[g] /\ owner'[g] # Nobody
             /\ \A k \in Jobs : fds'[g] = k =>
                  /\ status'[k] \in {"active", "suspended"}
                  /\ IsWaiting(k)' /\ ToFd(k)' = g
    BY DEF NoStrayCallback
  <2>1. CASE g = f
    BY <1>3, <1>4, <1>5, <2>1 DEF IsWaiting, ToFd
  <2>2. CASE g # f
    <3>1. /\ g \in interest /\ fds'[g] = fds[g] /\ fds[g] # j /\ owner'[g] = owner[g]
      BY <1>1, <1>3, <1>4, <2>2
    <3>2. \A k \in Jobs : fds[g] = k =>
            status[k] \in {"active", "suspended"} /\ IsWaiting(k) /\ ToFd(k) = g
      BY <1>4, <3>1 DEF IInv, Safe, NoStrayCallback
    <3> QED
      BY <1>1, <1>5, <3>1, <3>2 DEF IsWaiting, ToFd
  <2> QED
    BY <2>1, <2>2
<1>12. Registered'
  <2>1. ASSUME NEW k \in Jobs, Suspended(k)', IsWaiting(k)'
        PROVE  ToFd(k)' \in interest' /\ fds'[ToFd(k)'] = k
    <3>1. CASE k = j
      <4>1. ToFd(j)' = f
        BY <1>5 DEF ToFd
      <4> QED
        BY <1>3, <1>4, <3>1, <4>1
    <3>2. CASE k # j
      <4>1. Suspended(k) /\ IsWaiting(k) /\ ToFd(k)' = ToFd(k)
        BY <1>5, <2>1, <3>2 DEF Suspended, IsWaiting, ToFd
      <4>2. fds[ToFd(k)] = k
        BY <4>1 DEF IInv, Safe, Registered
      <4> QED
        BY <1>1, <1>2, <1>3, <1>4, <3>2, <4>1, <4>2
    <3> QED
      BY <3>1, <3>2
  <2>2. /\ ListenFd \in interest' /\ fds'[ListenFd] = Listener
        /\ Console => StdinFd \in interest' /\ fds'[StdinFd] = Stdin
    BY <1>1, <1>2, <1>3, <1>4, Constants DEF IInv, Safe, Registered
  <2> QED
    BY <2>1, <2>2 DEF Registered
<1>13. AddNeverFails'
  BY <1>3, <1>4 DEF AddNeverFails
<1> QED
  BY <1>6, <1>9, <1>10, <1>11, <1>12, <1>13 DEF Safe
\* The running job gives up its registration, unless the loop ends, and its turn.
LEMMA LeaveStep ==
  ASSUME SafeUsage, IInv, NEW j \in Jobs, Running(j),
         NEW s \in {"suspended", "dead", "stranded"}, Leave(j, s),
         fds' \in {fds, FdsWithout(j)},
         \/ interest' = InterestWithout(j) /\ loop' = loop
         \/ interest' = interest /\ loop' \notin {"alive", "add error"},
         UNCHANGED <<owner, sock>>,
         \A k \in Jobs \ {j} : waiting'[k] = waiting[k],
         s = "suspended" => ~IsWaiting(j)' /\ sock[j] \notin garbage',
         \A g \in garbage' : g \in garbage \/ (g \in Fds /\ owner[g] = j)
  PROVE  Safe'
<1>1. /\ current = j /\ status[j] = "active" /\ Live(j)
      /\ \A g \in interest : g \in Fds /\ fds[g] = owner[g] /\ owner[g] # Nobody
      /\ \A g \in InterestWithout(j) :
           g \in interest /\ fds[g] # j /\ FdsWithout(j)[g] = fds[g]
      /\ \A k \in Jobs \ {j} : Suspended(k) /\ IsWaiting(k) =>
           ToFd(k) \in InterestWithout(j)
      /\ ListenFd \in InterestWithout(j)
      /\ Console => StdinFd \in InterestWithout(j)
  BY Unregister
<1>2. /\ status' = [status EXCEPT ![j] = s] /\ current' = resumer[j]
      /\ status \in [Jobs -> {"new", "active", "suspended", "dead", "stranded"}]
      /\ garbage \subseteq Fds /\ loop = "alive"
      /\ status'[j] = s /\ \A k \in Jobs \ {j} : status'[k] = status[k]
  BY DEF Leave, IInv, TypeOK, KernelTypeOK, JobTypeOK, Running
<1>3. Chain' /\ current' # j
  BY <1>1, ChainLeave DEF IInv, Safe
<1>4. \A g \in InterestWithout(j) : g \in interest' /\ fds'[g] = fds[g]
  BY <1>1
<1>5. Ownership'
  <2>1. owner[StdinFd] = Stdin /\ owner[ListenFd] = Listener
    BY DEF IInv, Safe, Ownership
  <2>2. \A g \in garbage' : owner[g] \in Jobs
    BY DEF IInv, Safe, Ownership
  <2>3. \A k \in Jobs : sock[k] # 0 => owner[sock[k]] = k
    BY DEF IInv, Safe, Ownership
  <2>4. ASSUME NEW k \in Jobs, status'[k] = "new"
        PROVE  ~IsWaiting(k)' /\ sock[k] = 0
    <3>1. k # j /\ status[k] = "new"
      BY <1>2, <2>4
    <3> QED
      BY <3>1 DEF IInv, Safe, Ownership, IsWaiting
  <2> QED
    BY <2>1, <2>2, <2>3, <2>4 DEF Ownership
<1>6. Objects'
  <2> SUFFICES ASSUME NEW k \in Jobs, Live(k)'
      PROVE  /\ sock'[k] \notin garbage'
             /\ waiting'[k].kind = "int" =>
                  \/ owner'[waiting'[k].fd] = k
                     /\ (k # current' => waiting'[k].fd \notin garbage')
                  \/ owner'[waiting'[k].fd] = Nobody /\ k = current'
             /\ waiting'[k].kind = "time" =>
                  owner'[waiting'[k].fd] = k
                  /\ waiting'[k].fd \notin garbage' \cup {sock'[k]}
             /\ waiting'[k].kind = "sock" /\ Console => sock'[k] # 0
    BY DEF Objects
  <2>1. CASE k = j
    <3>1. s = "suspended"
      BY <1>2, <2>1 DEF Live
    <3> QED
      BY <2>1, <3>1 DEF IsWaiting
  <2>2. CASE k # j
    <3>1. Live(k) /\ waiting'[k] = waiting[k] /\ k # current
      BY <1>1, <1>2, <2>2 DEF Live
    <3>2. sock[k] \notin garbage'
      <4>1. sock[k] \notin garbage
        BY <3>1 DEF IInv, Safe, Objects
      <4>2. sock[k] # 0 => owner[sock[k]] = k
        BY DEF IInv, Safe, Ownership
      <4>3. owner[0] \notin Jobs
        BY Constants DEF IInv, Safe, Ownership
      <4> QED
        BY <2>2, <4>1, <4>2, <4>3
    <3>3. ASSUME waiting[k].kind \in {"int", "time"}
          PROVE  /\ owner[waiting[k].fd] = k /\ waiting[k].fd \notin garbage'
                 /\ waiting[k].kind = "time" => waiting[k].fd # sock[k]
      <4>1. /\ owner[waiting[k].fd] = k /\ waiting[k].fd \notin garbage
            /\ waiting[k].kind = "time" => waiting[k].fd # sock[k]
        BY <3>1, <3>3 DEF IInv, Safe, Objects
      <4> QED
        BY <2>2, <4>1
    <3>4. waiting[k].kind = "sock" /\ Console => sock[k] # 0
      BY <3>1 DEF IInv, Safe, Objects
    <3> QED
      BY <3>1, <3>2, <3>3, <3>4
  <2> QED
    BY <2>1, <2>2
<1>7. NoStrayCallback'
  <2> SUFFICES ASSUME loop' = "alive", NEW g \in interest'
      PROVE  /\ fds'[g] = owner'[g] /\ owner'[g] # Nobody
             /\ \A k \in Jobs : fds'[g] = k =>
                  /\ status'[k] \in {"active", "suspended"}
                  /\ IsWaiting(k)' /\ ToFd(k)' = g
    BY DEF NoStrayCallback
  <2>1. g \in interest /\ fds'[g] = fds[g] /\ fds[g] # j
    BY <1>1, <1>4
  <2>2. \A k \in Jobs : fds[g] = k =>
          status[k] \in {"active", "suspended"} /\ IsWaiting(k) /\ ToFd(k) = g
    BY <1>2, <2>1 DEF IInv, Safe, NoStrayCallback
  <2> QED
    BY <1>1, <1>2, <2>1, <2>2 DEF IsWaiting, ToFd
<1>8. Registered'
  <2>1. ASSUME NEW k \in Jobs, Suspended(k)', IsWaiting(k)'
        PROVE  ToFd(k)' \in interest' /\ fds'[ToFd(k)'] = k
    <3>1. k # j
      BY <1>2, <2>1 DEF Suspended
    <3>2. Suspended(k) /\ IsWaiting(k) /\ ToFd(k)' = ToFd(k)
      BY <1>2, <2>1, <3>1 DEF Suspended, IsWaiting, ToFd
    <3>3. fds[ToFd(k)] = k
      BY <3>2 DEF IInv, Safe, Registered
    <3> QED
      BY <1>1, <1>4, <3>1, <3>2, <3>3
  <2>2. /\ ListenFd \in interest' /\ fds'[ListenFd] = Listener
        /\ Console => StdinFd \in interest' /\ fds'[StdinFd] = Stdin
    BY <1>1, <1>4 DEF IInv, Safe, Registered
  <2> QED
    BY <2>1, <2>2 DEF Registered
<1>9. AddNeverFails'
  BY <1>2 DEF AddNeverFails
<1> QED
  BY <1>3, <1>5, <1>6, <1>7, <1>8, <1>9 DEF Safe

\* A number is closed that no live job but the running one still names.
LEMMA CloseStep ==
  ASSUME IInv, loop = "alive", NEW f \in Fds, Close(f), owner[f] \in Jobs,
         UNCHANGED <<fds, loop, status, waiting, current, resumer>>,
         sock' = [k \in Jobs |-> IF sock[k] = f THEN 0 ELSE sock[k]],
         garbage' = garbage \ {f},
         \A k \in Jobs : Live(k) =>
           /\ waiting[k].kind = "int" /\ k # current => waiting[k].fd # f
           /\ waiting[k].kind = "time" => waiting[k].fd # f
           /\ waiting[k].kind = "sock" /\ (Console \/ k # current) => sock[k] # f
  PROVE  Safe'
<1>0. /\ owner \in [Fds -> Callbacks] /\ sock \in [Jobs -> Fds]
      /\ garbage \subseteq Fds /\ interest \subseteq Fds
      /\ \A k \in Jobs : waiting[k].fd \in Fds /\ k # Nobody
      /\ \A k \in Jobs : waiting[k].kind \in {"none", "int", "sock", "time"}
  BY Constants DEF IInv, TypeOK, KernelTypeOK, JobTypeOK, Waits
<1>1. /\ owner' = [owner EXCEPT ![f] = Nobody] /\ interest' = interest \ {f}
      /\ f # StdinFd /\ f # ListenFd
  BY Constants DEF Close, IInv, Safe, Ownership
<1>2. Chain'
  BY DEF Chain, IsWaiting, IInv, Safe
<1>3. Ownership'
  BY <1>0, <1>1, Constants DEF Ownership, IsWaiting, IInv, Safe
<1>4. Objects'
  <2> SUFFICES ASSUME NEW k \in Jobs, Live(k)'
      PROVE  /\ sock'[k] \notin garbage'
             /\ waiting'[k].kind = "int" =>
                  \/ owner'[waiting'[k].fd] = k
                     /\ (k # current' => waiting'[k].fd \notin garbage')
                  \/ owner'[waiting'[k].fd] = Nobody /\ k = current'
             /\ waiting'[k].kind = "time" =>
                  owner'[waiting'[k].fd] = k
                  /\ waiting'[k].fd \notin garbage' \cup {sock'[k]}
             /\ waiting'[k].kind = "sock" /\ Console => sock'[k] # 0
    BY DEF Objects
  <2>1. Live(k)
    BY DEF Live
  <2>2. sock'[k] \notin garbage'
    <3>1. sock[k] \notin garbage
      BY <2>1 DEF IInv, Safe, Objects
    <3>2. 0 \notin garbage
      BY Constants DEF IInv, Safe, Ownership
    <3> QED
      BY <3>1, <3>2
  <2>3. waiting[k].kind = "int" =>
          \/ owner'[waiting[k].fd] = k
             /\ (k # current => waiting[k].fd \notin garbage')
          \/ owner'[waiting[k].fd] = Nobody /\ k = current
    BY <1>0, <1>1, <2>1 DEF IInv, Safe, Objects
  <2>4. ASSUME waiting[k].kind = "time"
        PROVE  owner'[waiting[k].fd] = k
               /\ waiting[k].fd \notin garbage' \cup {sock'[k]}
    <3>1. owner[waiting[k].fd] = k /\ waiting[k].fd \notin garbage \cup {sock[k]}
      BY <2>1, <2>4 DEF IInv, Safe, Objects
    <3>2. waiting[k].fd # f /\ waiting[k].fd # 0
      BY <2>1, <2>4, <3>1, Constants DEF IInv, Safe, Ownership
    <3> QED
      BY <1>0, <1>1, <3>1, <3>2
  <2>5. waiting[k].kind = "sock" /\ Console => sock'[k] # 0
    BY <2>1 DEF IInv, Safe, Objects
  <2> QED
    BY <2>2, <2>3, <2>4, <2>5
<1>5. NoStrayCallback'
  BY <1>0, <1>1 DEF IInv, Safe, NoStrayCallback, IsWaiting, ToFd
<1>6. Registered'
  <2>1. ASSUME NEW k \in Jobs, Suspended(k), IsWaiting(k)
        PROVE  ToFd(k)' \in interest' /\ fds[ToFd(k)'] = k
    <3>1. ToFd(k) \in interest /\ fds[ToFd(k)] = k
      BY <2>1 DEF IInv, Safe, Registered
    <3>2. Live(k) /\ k # current
      BY <1>0, <2>1, Constants DEF Live, Suspended, IInv, Safe, Chain
    <3>3. ToFd(k) # f
      BY <1>0, <2>1, <3>2 DEF ToFd, IsWaiting
    <3>4. ToFd(k)' = ToFd(k)
      BY <3>3 DEF ToFd
    <3> QED
      BY <1>1, <3>1, <3>3, <3>4
  <2> QED
    BY <1>1, <2>1 DEF Registered, Suspended, IsWaiting, IInv, Safe
<1>7. AddNeverFails'
  BY DEF AddNeverFails
<1> QED
  BY <1>2, <1>3, <1>4, <1>5, <1>6, <1>7 DEF Safe
\* An error escapes the running job's job_step, and its registration stays: the
\* loop ends, unless another job has started this one, which has none yet.
LEMMA StrandStep ==
  ASSUME SafeUsage, IInv, NEW j \in Jobs, YieldTimeFails(j) \/ JobRaises(j)
  PROVE  Safe'
<1>1. /\ Running(j) /\ Leave(j, "stranded")
      /\ resumer[j] = Nobody => loop' \notin {"alive", "add error"}
      /\ resumer[j] # Nobody => loop' = loop
      /\ UNCHANGED <<owner, interest, sock, fds, waiting>>
      /\ \A g \in garbage' : g \in garbage \/ (g \in Fds /\ owner[g] = j)
  BY DEF YieldTimeFails, JobRaises, Raise, kernel
<1>2. resumer[j] # Nobody => InterestWithout(j) = interest
  BY DEF InterestWithout, IInv, Safe, Chain
<1> QED
  BY <1>1, <1>2, LeaveStep

LEMMA LoopStepSafe ==
  ASSUME SafeUsage, IInv,
         \/ Run \/ TakeDeferred \/ RunDeferred \/ Poll \/ EndBatch
         \/ \E f \in Fds : Dispatch(f) \/ Arrive(f)
  PROVE  Safe'
<1>1. CASE Run \/ TakeDeferred \/ Poll \/ EndBatch
  <2>1. /\ UNCHANGED <<status, waiting, current, resumer, interest, fds, sock,
                       owner, garbage, loop>>
        /\ loop = "alive" /\ garbage \subseteq Fds
    BY <1>1 DEF Run, TakeDeferred, Poll, EndBatch, kernel, IInv, TypeOK,
                KernelTypeOK
  <2> QED
    BY <2>1, QuietStep
<1>2. CASE RunDeferred
  <2>1. Head(todo) \in Jobs
    BY <1>2 DEF RunDeferred, IInv, TypeOK, LoopTypeOK
  <2> QED
    BY <1>2, <2>1, ResumeStep DEF RunDeferred
<1>3. ASSUME NEW f \in Fds,
             DispatchNone(f) \/ DispatchConsole(f) \/ AcceptFails(f) \/ Arrive(f)
      PROVE Safe'
  <2>1. /\ UNCHANGED <<status, waiting, current, resumer, interest, fds, sock,
                       owner, garbage>>
        /\ loop' \in {loop, "accept error"}
        /\ loop = "alive" /\ garbage \subseteq Fds
    BY <1>3 DEF DispatchNone, DispatchConsole, AcceptFails, Arrive, Take, kernel,
                IInv, TypeOK, KernelTypeOK
  <2> QED
    BY <2>1, QuietStep
<1>4. ASSUME NEW f \in Fds, DispatchJob(f) PROVE Safe'
  BY <1>4, ResumeStep DEF DispatchJob, Take
<1> QED
  BY <1>1, <1>2, <1>3, <1>4, AcceptStep DEF Dispatch

LEMMA EndTurnSafe ==
  ASSUME SafeUsage, IInv, NEW j \in Jobs, EndTurn(j)
  PROVE  Safe'
<1>1. ASSUME NEW f \in Fds, YieldStream(j, f) PROVE Safe'
  <2>1. f \in StreamsOf(j)
    BY <1>1 DEF YieldStream, Reach, SafeUsage
  <2>2. owner[f] = j /\ f \notin garbage /\ f # sock[j] /\ ~IsTimer(j, f)
    BY <2>1 DEF StreamsOf
  <2> QED
    BY <1>1, <2>2, WaitStep DEF YieldStream
<1>2. CASE YieldSocket(j)
  <2>1. /\ sock[j] \in Fds /\ sock[j] # 0 /\ owner[sock[j]] = j
        /\ current = j /\ status[j] = "active"
    BY <1>2, Constants DEF YieldSocket, Running, IInv, TypeOK, KernelTypeOK, Safe, Ownership,
                Chain
  <2>2. sock[j] \notin garbage /\ ~IsTimer(j, sock[j])
    BY <2>1 DEF IInv, Safe, Objects, Live, IsTimer
  <2> QED
    BY <1>2, <2>1, <2>2, WaitStep DEF YieldSocket
<1>3. CASE YieldTime(j)
  <2>1. PICK n \in Fds : /\ owner[n] = Nobody
                         /\ owner' = [owner EXCEPT ![n] = j]
                         /\ Wait(j, "time", n)
    BY <1>3 DEF YieldTime, IsLowestFree, Free
  <2>2. /\ owner'[n] = j /\ \A g \in Fds : g # n => owner'[g] = owner[g]
        /\ current = j /\ status[j] = "active" /\ j # Nobody
    BY <1>3, <2>1, Constants DEF YieldTime, Running, IInv, TypeOK, KernelTypeOK,
                Safe, Chain
  <2>3. n \notin garbage /\ n # sock[j]
    BY <2>1, <2>2, Constants DEF IInv, Safe, Ownership
  <2>4. ~IsTimer(j, n)
    BY <2>1, <2>2 DEF IsTimer, IInv, Safe, Objects, Live
  <2> QED
    BY <1>3, <2>1, <2>2, <2>3, <2>4, WaitStep DEF YieldTime
<1>4. CASE YieldTimeFails(j) \/ JobRaises(j)
  BY <1>4, StrandStep
<1>5. ASSUME Running(j) PROVE sock[j] \notin garbage /\ 
        \A g \in Fds : IsTimer(j, g) => owner[g] = j /\ g # sock[j]
  BY <1>5, Constants DEF Running, IInv, Safe, Chain, Objects, Live, IsTimer
<1>6. CASE Pause(j)
  <2>1. waiting \in [Jobs -> Waits] /\ Running(j)
    BY <1>6 DEF Pause, IInv, TypeOK, JobTypeOK
  <2>2. /\ ~IsWaiting(j)' /\ \A k \in Jobs \ {j} : waiting'[k] = waiting[k]
    BY <1>6, <2>1, Constants DEF Pause, IsWaiting
  <2>3. /\ sock[j] \notin garbage'
        /\ \A g \in garbage' : g \in garbage \/ (g \in Fds /\ owner[g] = j)
    BY <1>5, <1>6, <2>1 DEF Pause, GarbageAfter
  <2> QED
    BY <1>6, <2>1, <2>2, <2>3, LeaveStep DEF Pause
<1>7. CASE Finish(j)
  <2>1. \A g \in garbage' : g \in garbage \/ (g \in Fds /\ owner[g] = j)
    BY <1>7 DEF Finish
  <2> QED
    BY <1>7, <2>1, LeaveStep DEF Finish
<1> QED
  BY <1>1, <1>2, <1>3, <1>4, <1>6, <1>7 DEF EndTurn

LEMMA ActSafe ==
  ASSUME SafeUsage, IInv, NEW j \in Jobs, Act(j)
  PROVE  Safe'
<1>1. /\ sock \in [Jobs -> Fds] /\ garbage \subseteq Fds
      /\ owner \in [Fds -> Callbacks] /\ j # Nobody
      /\ \A k \in Jobs : sock[k] # 0 => owner[sock[k]] = k
      /\ owner[0] \notin Jobs
      /\ \A k \in Jobs : waiting[k].fd \in Fds
  BY Constants DEF IInv, TypeOK, KernelTypeOK, JobTypeOK, Waits, Safe, Ownership
<1>2. CASE Open(j)
  <2>1. PICK n \in Fds : owner[n] = Nobody /\ owner' = [owner EXCEPT ![n] = j]
    BY <1>2 DEF Open, IsLowestFree, Free
  <2>2. \A f \in Fds : \/ owner'[f] = owner[f]
                       \/ owner[f] = Nobody /\ owner'[f] = j
    BY <1>1, <2>1
  <2> QED
    BY <1>1, <1>2, <2>2, QuietStep DEF Open, Running
<1>3. ASSUME NEW f \in Fds, CloseStream(j, f) PROVE Safe'
  <2>1. f \in StreamsOf(j) /\ Running(j) /\ Close(f)
    BY <1>3 DEF CloseStream, Reach, SafeUsage
  <2>2. owner[f] = j /\ f \notin garbage /\ f # sock[j] /\ ~IsTimer(j, f)
        /\ current = j
    BY <2>1 DEF StreamsOf, Running
  <2>3. \A k \in Jobs : sock[k] # f
    BY <1>1, <2>2
  <2>4. sock' = [k \in Jobs |-> IF sock[k] = f THEN 0 ELSE sock[k]]
        /\ garbage' = garbage \ {f}
    BY <1>1, <1>3, <2>2, <2>3 DEF CloseStream
  <2>5. ASSUME NEW k \in Jobs, Live(k)
        PROVE /\ waiting[k].kind = "int" /\ k # current => waiting[k].fd # f
              /\ waiting[k].kind = "time" => waiting[k].fd # f
              /\ waiting[k].kind = "sock" /\ (Console \/ k # current) => sock[k] # f
    BY <2>2, <2>3, <2>5 DEF IInv, Safe, Objects, IsTimer
  <2> QED
    BY <1>1, <1>3, <2>1, <2>2, <2>4, <2>5, CloseStep DEF CloseStream, Running
<1>4. ASSUME NEW f \in Fds, Drain(j, f) PROVE Safe'
  BY <1>1, <1>4, QuietStep DEF Drain, Running
<1>5. ASSUME NEW f \in Fds, Drop(j, f) PROVE Safe'
  <2>1. /\ owner[f] = j /\ f # sock[j] /\ ~IsTimer(j, f) /\ f # StdinFd
        /\ garbage' = garbage \cup {f} /\ current = j
        /\ \A k \in Jobs \ {j} : IsWaiting(k) => ToFd(k) # f
    BY <1>1, <1>5, Constants DEF Drop, StreamsOf, OnlyFor, Running
  <2>2. \A k \in Jobs :
          /\ f # sock[k]
          /\ waiting[k].kind = "time" => f # waiting[k].fd
          /\ waiting[k].kind = "int" /\ k # current => f # waiting[k].fd
    BY <1>1, <2>1 DEF IsTimer, IsWaiting, ToFd
  <2> QED
    BY <1>1, <1>5, <2>1, <2>2, QuietStep DEF Drop, Running
<1>6. ASSUME NEW k \in Clients, CloseSocket(j, k) PROVE Safe'
  <2>1. /\ j = k /\ CloseSock /\ ~Console /\ Running(j) /\ current = j
        /\ sock[j] \notin garbage /\ sock[j] # 0 /\ sock[j] \in Fds
        /\ Close(sock[j]) /\ sock' = [sock EXCEPT ![j] = 0]
    BY <1>1, <1>6 DEF CloseSocket, SafeUsage, Running
  <2>2. owner[sock[j]] = j /\ \A i \in Jobs : i # j => sock[i] # sock[j]
    BY <1>1, <2>1
  <2>3. sock' = [i \in Jobs |-> IF sock[i] = sock[j] THEN 0 ELSE sock[i]]
        /\ garbage' = garbage \ {sock[j]}
    BY <1>1, <1>6, <2>1, <2>2 DEF CloseSocket
  <2>4. ASSUME NEW i \in Jobs, Live(i)
        PROVE /\ waiting[i].kind = "int" /\ i # current => waiting[i].fd # sock[j]
              /\ waiting[i].kind = "time" => waiting[i].fd # sock[j]
              /\ waiting[i].kind = "sock" /\ (Console \/ i # current)
                 => sock[i] # sock[j]
    BY <2>1, <2>2, <2>4 DEF IInv, Safe, Objects
  <2> QED
    BY <1>1, <1>6, <2>1, <2>2, <2>3, <2>4, CloseStep DEF CloseSocket, Running
<1> QED
  BY <1>2, <1>3, <1>4, <1>5, <1>6 DEF Act

LEMMA CollectSafe ==
  ASSUME IInv, NEW f \in Fds, Collect(f)
  PROVE  Safe'
<1>1. /\ loop = "alive" /\ f \in garbage /\ owner[f] \in Jobs /\ f # 0
  BY Constants DEF Collect, IInv, Safe, Ownership
<1>2. ASSUME NEW k \in Jobs, Live(k)
      PROVE /\ waiting[k].kind = "int" /\ k # current => waiting[k].fd # f
            /\ waiting[k].kind = "time" => waiting[k].fd # f
            /\ sock[k] # f
  BY <1>1, <1>2, Constants DEF IInv, Safe, Objects
<1> QED
  BY <1>1, <1>2, CloseStep DEF Collect

LEMMA NextSafe == SafeUsage /\ IInv /\ [Next]_vars => IInv'
<1> SUFFICES ASSUME SafeUsage, IInv, [Next]_vars PROVE IInv'
  OBVIOUS
<1>1. TypeOK'
  BY NextTypeOK DEF IInv
<1>2. CASE UNCHANGED vars
  <2>1. Chain' /\ Ownership' /\ AddNeverFails'
    BY <1>2 DEF vars, IInv, Safe, Chain, Ownership, AddNeverFails, IsWaiting
  <2>2. Objects'
    BY <1>2 DEF vars, IInv, Safe, Objects, Live
  <2>3. NoStrayCallback'
    BY <1>2 DEF vars, IInv, Safe, NoStrayCallback, IsWaiting, ToFd
  <2>4. Registered'
    BY <1>2 DEF vars, IInv, Safe, Registered, Suspended, IsWaiting, ToFd
  <2> QED
    BY <1>1, <2>1, <2>2, <2>3, <2>4 DEF IInv, Safe
<1>3. CASE Next
  <2>1. Safe'
    BY <1>3, LoopStepSafe, SpawnStep, EndTurnSafe, ActSafe, CollectSafe DEF Next
  <2> QED
    BY <1>1, <2>1 DEF IInv
<1> QED
  BY <1>2, <1>3

LEMMA SafeInvariant ==
  ASSUME SafeUsage
  PROVE  Spec => []IInv
<1>1. Init => IInv
  BY InitTypeOK, InitSafe DEF IInv
<1>2. IInv /\ [Next]_vars => IInv'
  BY NextSafe
<1> QED
  BY <1>1, <1>2, PTL DEF Spec

\* In every process that keeps to SafeUsage, no suspended job, nor the listener,
\* nor the console, is ever without its registration (job_step, wtk.c:484-509,
\* f_loop_add and f_loop_rm, 179-245).
THEOREM RegistrationsSafe ==
  ASSUME SafeUsage
  PROVE  Spec => []Registered
<1>1. IInv => Registered
  BY DEF IInv, Safe
<1> QED
  BY <1>1, SafeInvariant, PTL

\* In every process that keeps to SafeUsage, a descriptor in the epoll set leads
\* to its own object's callback and to nothing else, however often its number
\* has been closed and handed out again (wtk.c:493-506).
THEOREM CallbacksSafe ==
  ASSUME SafeUsage
  PROVE  Spec => []NoStrayCallback
<1>1. IInv => NoStrayCallback
  BY DEF IInv, Safe
<1> QED
  BY <1>1, SafeInvariant, PTL

\* In every process that keeps to SafeUsage, no EPOLL_CTL_ADD meets a number
\* that is registered already (f_loop_add, wtk.c:223).
THEOREM AddsSafe ==
  ASSUME SafeUsage
  PROVE  Spec => []AddNeverFails
<1>1. IInv => AddNeverFails
  BY DEF IInv, Safe
<1> QED
  BY <1>1, SafeInvariant, PTL

-----------------------------------------------------------------------------
(* Turns *)

\* No job is twice on a list, and whether it is on it.
Distinct(q) == \A a, b \in DOMAIN q : q[a] = q[b] => a = b
Among(j, q) == \E i \in DOMAIN q : q[i] = j

\* A job that has not started waits for nothing.
Fresh == \A j \in Jobs : status[j] = "new" => ~IsWaiting(j)

\* The chain of resumed coroutines has one lower end, which the loop or the
\* main program resumed, and none when no coroutine runs.
Bottom ==
  \A i \in Jobs : status[i] = "active" /\ resumer[i] = Nobody =>
    /\ current # Nobody
    /\ \A k \in Jobs : status[k] = "active" /\ resumer[k] = Nobody => k = i

\* The two lists hold the jobs that paused, each of them once.
Queued ==
  /\ Distinct(deferred) /\ Distinct(todo)
  /\ \A j \in Jobs : ~(Among(j, deferred) /\ Among(j, todo))
  /\ \A j \in Jobs : Among(j, deferred) \/ Among(j, todo)
                     <=> Suspended(j) /\ ~IsWaiting(j)

\* Where f_loop_run stands says who may run and what the lists hold.
Phases ==
  /\ phase = "top" => current = Nobody
  /\ phase # "deferred" => todo = <<>>
  /\ phase = "deferred" /\ block =>
       todo = <<>> /\ deferred = <<>> /\ current = Nobody

\* A job's callback is in the epoll set only under what the job waits for; in
\* the batch there is at most one event of a job, which is suspended then.
Watched ==
  loop = "alive" =>
    /\ \A f \in interest : \A j \in Jobs : fds[f] = j =>
         /\ status[j] \in {"active", "suspended"}
         /\ IsWaiting(j) /\ ToFd(j) = f
    /\ \A f \in batch : \A j \in Jobs : fds[f] = j =>
         /\ Suspended(j) /\ IsWaiting(j)
         /\ \A g \in batch : fds[g] = j => g = f

TurnsInv == TypeOK /\ Chain /\ Fresh /\ Bottom /\ Queued /\ Phases /\ Watched

-----------------------------------------------------------------------------
(* Lists *)

LEMMA TailAmong ==
  ASSUME NEW q \in Seq(Jobs), q # <<>>, Distinct(q)
  PROVE  /\ Head(q) \in Jobs /\ Among(Head(q), q)
         /\ Distinct(Tail(q))
         /\ \A k : Among(k, Tail(q)) <=> Among(k, q) /\ k # Head(q)
<1>1. /\ Head(q) = q[1] /\ 1 \in DOMAIN q /\ Len(q) \in Nat /\ Len(q) >= 1
      /\ DOMAIN q = 1..Len(q)
      /\ DOMAIN Tail(q) = 1..(Len(q) - 1)
      /\ \A i \in 1..(Len(q) - 1) : Tail(q)[i] = q[i + 1]
  OBVIOUS
<1>2. Distinct(Tail(q))
  <2> SUFFICES ASSUME NEW a \in DOMAIN Tail(q), NEW b \in DOMAIN Tail(q),
                      Tail(q)[a] = Tail(q)[b]
               PROVE  a = b
    BY DEF Distinct
  <2>1. a + 1 \in DOMAIN q /\ b + 1 \in DOMAIN q /\ q[a + 1] = q[b + 1]
    BY <1>1
  <2>2. a + 1 = b + 1
    BY <2>1 DEF Distinct
  <2> QED
    BY <1>1, <2>2
<1>3. ASSUME NEW k, Among(k, Tail(q)) PROVE Among(k, q) /\ k # Head(q)
  <2>1. PICK i \in DOMAIN Tail(q) : Tail(q)[i] = k
    BY <1>3 DEF Among
  <2>2. i + 1 \in DOMAIN q /\ q[i + 1] = k /\ i + 1 # 1
    BY <1>1, <2>1
  <2> QED
    BY <1>1, <2>2 DEF Among, Distinct
<1>4. ASSUME NEW k, Among(k, q), k # Head(q) PROVE Among(k, Tail(q))
  <2>1. PICK i \in DOMAIN q : q[i] = k
    BY <1>4 DEF Among
  <2>2. i # 1
    BY <1>1, <1>4, <2>1
  <2>3. i - 1 \in DOMAIN Tail(q) /\ (i - 1) + 1 = i
    BY <1>1, <2>2
  <2>4. Tail(q)[i - 1] = k
    BY <1>1, <2>1, <2>3
  <2> QED
    BY <2>3, <2>4 DEF Among
<1>5. Head(q) \in Jobs /\ Among(Head(q), q)
  BY <1>1 DEF Among
<1> QED
  BY <1>2, <1>3, <1>4, <1>5

LEMMA AppendAmong ==
  ASSUME NEW q \in Seq(Jobs), NEW j \in Jobs, ~Among(j, q), Distinct(q)
  PROVE  /\ Distinct(Append(q, j))
         /\ \A k : Among(k, Append(q, j)) <=> Among(k, q) \/ k = j
<1>1. /\ Len(q) \in Nat /\ DOMAIN q = 1..Len(q)
      /\ DOMAIN Append(q, j) = 1..(Len(q) + 1)
      /\ \A i \in 1..Len(q) : Append(q, j)[i] = q[i]
      /\ Append(q, j)[Len(q) + 1] = j
  OBVIOUS
<1>2. \A i \in DOMAIN q : q[i] # j
  BY DEF Among
<1>3. Distinct(Append(q, j))
  <2> SUFFICES ASSUME NEW a \in 1..(Len(q) + 1), NEW b \in 1..(Len(q) + 1),
                      Append(q, j)[a] = Append(q, j)[b]
               PROVE  a = b
    BY <1>1 DEF Distinct
  <2>1. CASE a \in DOMAIN q /\ b \in DOMAIN q
    BY <1>1, <2>1 DEF Distinct
  <2>2. CASE a \notin DOMAIN q
    <3>1. a = Len(q) + 1
      BY <1>1, <2>2
    <3>2. b \notin DOMAIN q
      BY <1>1, <1>2, <3>1
    <3> QED
      BY <1>1, <3>1, <3>2
  <2>3. CASE b \notin DOMAIN q
    <3>1. b = Len(q) + 1
      BY <1>1, <2>3
    <3>2. a \notin DOMAIN q
      BY <1>1, <1>2, <3>1
    <3> QED
      BY <1>1, <3>1, <3>2
  <2> QED
    BY <2>1, <2>2, <2>3
<1>4. ASSUME NEW k, Among(k, Append(q, j)) PROVE Among(k, q) \/ k = j
  <2>1. PICK i \in 1..(Len(q) + 1) : Append(q, j)[i] = k
    BY <1>1, <1>4 DEF Among
  <2>2. CASE i = Len(q) + 1
    BY <1>1, <2>1, <2>2
  <2>3. CASE i # Len(q) + 1
    <3>1. i \in DOMAIN q
      BY <1>1, <2>3
    <3> QED
      BY <1>1, <2>1, <3>1 DEF Among
  <2> QED
    BY <2>2, <2>3
<1>5. ASSUME NEW k, Among(k, q) PROVE Among(k, Append(q, j))
  <2>1. PICK i \in DOMAIN q : q[i] = k
    BY <1>5 DEF Among
  <2>2. i \in DOMAIN Append(q, j) /\ Append(q, j)[i] = k
    BY <1>1, <2>1
  <2> QED
    BY <2>2 DEF Among
<1>6. Among(j, Append(q, j))
  <2>1. Len(q) + 1 \in DOMAIN Append(q, j)
    BY <1>1
  <2> QED
    BY <1>1, <2>1 DEF Among
<1> QED
  BY <1>3, <1>4, <1>5, <1>6

\* How often a job is on a list without repetitions.
LEMMA CountAmong ==
  ASSUME NEW q \in Seq(Jobs), NEW j, Distinct(q)
  PROVE  Cardinality({i \in DOMAIN q : q[i] = j}) = IF Among(j, q) THEN 1 ELSE 0
<1>1. CASE Among(j, q)
  <2>1. PICK a \in DOMAIN q : q[a] = j
    BY <1>1 DEF Among
  <2>2. {i \in DOMAIN q : q[i] = j} = {a}
    BY <2>1 DEF Distinct
  <2> QED
    BY <1>1, <2>2, FS_Singleton
<1>2. CASE ~Among(j, q)
  <2>1. {i \in DOMAIN q : q[i] = j} = {}
    BY <1>2 DEF Among
  <2> QED
    BY <1>2, <2>1, FS_EmptySet
<1> QED
  BY <1>1, <1>2

-----------------------------------------------------------------------------
(* Coroutines and callbacks *)

LEMMA InitTurns == Init => TurnsInv
<1> SUFFICES ASSUME Init PROVE TurnsInv
  OBVIOUS
<1>1. /\ \A j \in Jobs : /\ status[j] = "new" /\ resumer[j] = Nobody
                         /\ ~IsWaiting(j)
                         /\ \A f \in Fds : fds[f] # j
      /\ current = Nobody /\ deferred = <<>> /\ todo = <<>> /\ phase = "main"
      /\ interest \subseteq Fds /\ batch = {} /\ loop = "alive"
  BY Constants DEF Init, IsWaiting
<1>2. TypeOK
  BY InitTypeOK
<1>3. Chain /\ Fresh /\ Bottom /\ Phases
  BY <1>1 DEF Chain, Fresh, Bottom, Phases
<1>4. Queued
  BY <1>1 DEF Queued, Distinct, Among, Suspended
<1>5. Watched
  BY <1>1 DEF Watched
<1> QED
  BY <1>2, <1>3, <1>4, <1>5 DEF TurnsInv

\* A coroutine is resumed that no event left in the batch leads to.
LEMMA EnterTurns ==
  ASSUME TurnsInv, NEW j \in Jobs, Enter(j), status[j] \in {"new", "suspended"},
         current = Nobody \/ ~IsWaiting(j),
         UNCHANGED <<waiting, interest, fds, loop>>,
         \A k \in Jobs : sock'[k] = sock[k] \/ status[k] = "new",
         batch' \subseteq batch, \A f \in batch' : fds[f] # j
  PROVE  Chain' /\ Fresh' /\ Bottom' /\ Watched'
<1> USE DEF TurnsInv
<1>1. /\ status \in [Jobs -> {"new", "active", "suspended", "dead", "stranded"}]
      /\ resumer \in [Jobs -> Jobs \cup {Nobody}] /\ j # Nobody
      /\ status' = [status EXCEPT ![j] = "active"] /\ current' = j
      /\ resumer' = [resumer EXCEPT ![j] = current]
  BY Constants DEF TypeOK, JobTypeOK, Enter
<1>2. Chain'
  BY ChainEnter, <1>1
<1>3. Fresh'
  BY <1>1 DEF Fresh, IsWaiting
<1>4. Bottom'
  BY <1>1 DEF Bottom
<1>5. Watched'
  BY <1>1 DEF Watched, Suspended, IsWaiting, ToFd
<1> QED
  BY <1>2, <1>3, <1>4, <1>5

\* What the running job's registration is, and that no event leads to it.
LEMMA RunningTurns ==
  ASSUME TurnsInv, NEW j \in Jobs, Running(j)
  PROVE  /\ status[j] = "active" /\ current = j /\ j # Nobody
         /\ \A f \in batch : fds[f] # j
         /\ \A f \in InterestWithout(j) : f \in interest /\ fds[f] # j
         /\ \A f \in Fds : FdsWithout(j)[f] \in {fds[f], Nobody}
         /\ resumer[j] # Nobody => \A f \in interest : fds[f] # j
<1>1. status[j] = "active" /\ current = j /\ j # Nobody
  BY Constants DEF TurnsInv, Chain, Running
<1>2. \A f \in batch : fds[f] # j
  BY <1>1 DEF TurnsInv, Watched, Suspended, Running
<1>3. \A f \in interest : fds[f] = j => IsWaiting(j) /\ ToFd(j) = f
  BY DEF TurnsInv, Watched, Running
<1>4. \A f \in InterestWithout(j) : f \in interest /\ fds[f] # j
  BY <1>3 DEF InterestWithout
<1>5. \A f \in Fds : FdsWithout(j)[f] \in {fds[f], Nobody}
  BY WithoutTypes DEF FdsWithout, TurnsInv, TypeOK, LoopTypeOK
<1>6. resumer[j] # Nobody => \A f \in interest : fds[f] # j
  BY <1>3 DEF TurnsInv, Chain
<1> QED
  BY <1>1, <1>2, <1>4, <1>5, <1>6

\* The running job's turn ends: who is left in the chain.
LEMMA LeaveTurns ==
  ASSUME TurnsInv, NEW j \in Jobs, Running(j),
         NEW s \in {"suspended", "dead", "stranded"}, Leave(j, s),
         \A k \in Jobs \ {j} : waiting'[k] = waiting[k]
  PROVE  Chain' /\ Fresh' /\ Bottom' /\ current' # j
<1> USE DEF TurnsInv
<1>1. /\ status \in [Jobs -> {"new", "active", "suspended", "dead", "stranded"}]
      /\ resumer \in [Jobs -> Jobs \cup {Nobody}] /\ j # Nobody
      /\ status' = [status EXCEPT ![j] = s] /\ current' = resumer[j]
      /\ resumer' = [resumer EXCEPT ![j] = Nobody]
      /\ status[j] = "active" /\ current = j
  BY RunningTurns DEF TypeOK, JobTypeOK, Leave
<1>2. Chain' /\ current' # j
  BY ChainLeave, <1>1
<1>3. Fresh'
  BY <1>1 DEF Fresh, IsWaiting
<1>4. Bottom'
  BY <1>1 DEF Bottom
<1> QED
  BY <1>2, <1>3, <1>4

\* The running job's turn ends with an event registered for it, or with none.
LEMMA LeaveWatched ==
  ASSUME TurnsInv, NEW j \in Jobs, Running(j),
         \A k \in Jobs \ {j} : /\ waiting'[k] = waiting[k]
                               /\ status'[k] = status[k],
         sock' = sock, batch' = batch, interest' \subseteq Fds,
         \/ loop' # "alive"
         \/ \A f \in interest' :
              /\ fds'[f] # j
              /\ f \in interest /\ fds'[f] \in {fds[f], Nobody}
         \/ \E g \in Fds :
              /\ fds'[g] = j /\ status'[j] = "suspended"
              /\ IsWaiting(j)' /\ ToFd(j)' = g
              /\ \A f \in interest' \ {g} :
                   fds'[f] # j /\ f \in interest /\ fds'[f] \in {fds[f], Nobody}
              /\ \A f \in batch \ {g} : fds'[f] \in {fds[f], Nobody},
         \A f \in batch : fds'[f] \in {fds[f], Nobody, j},
         \A f \in batch : fds'[f] = j =>
           /\ status'[j] = "suspended" /\ IsWaiting(j)' /\ ToFd(j)' = f
  PROVE  Watched'
<1> SUFFICES ASSUME loop' = "alive" PROVE Watched'
  BY DEF Watched
<1>1. loop = "alive" /\ \A f \in batch : fds[f] # j
  BY RunningTurns DEF Running
<1>2. ASSUME NEW f \in interest', NEW k \in Jobs, fds'[f] = k
      PROVE  /\ status'[k] \in {"active", "suspended"}
             /\ IsWaiting(k)' /\ ToFd(k)' = f
  <2>1. CASE k = j
    BY <1>2, <2>1
  <2>2. CASE k # j
    <3>1. f \in interest /\ fds[f] = k
      BY <1>2, <2>2, Constants
    <3>2. status[k] \in {"active", "suspended"} /\ IsWaiting(k) /\ ToFd(k) = f
      BY <1>1, <3>1 DEF TurnsInv, Watched
    <3> QED
      BY <2>2, <3>2 DEF IsWaiting, ToFd
  <2> QED
    BY <2>1, <2>2
<1>3. ASSUME NEW f \in batch, NEW k \in Jobs, fds'[f] = k
      PROVE  /\ Suspended(k)' /\ IsWaiting(k)'
             /\ \A g \in batch : fds'[g] = k => g = f
  <2>1. CASE k = j
    BY <1>3, <2>1 DEF Suspended
  <2>2. CASE k # j
    <3>1. \A g \in batch : fds'[g] = k => fds[g] = k
      BY <2>2, Constants
    <3>2. Suspended(k) /\ IsWaiting(k) /\ \A g \in batch : fds[g] = k => g = f
      BY <1>1, <1>3, <3>1 DEF TurnsInv, Watched
    <3> QED
      BY <2>2, <3>1, <3>2 DEF Suspended, IsWaiting
  <2> QED
    BY <2>1, <2>2
<1> QED
  BY <1>2, <1>3 DEF Watched

-----------------------------------------------------------------------------
(* The steps *)

LEMMA LoopStepTurns ==
  ASSUME TurnsInv, Run \/ TakeDeferred \/ RunDeferred \/ Poll \/ EndBatch
  PROVE  TurnsInv'
<1> USE DEF TurnsInv
<1>1. TypeOK'
  BY LoopStepTypes
<1>2. CASE Run \/ EndBatch
  <2>1. UNCHANGED <<kernel, fds, deferred, todo, block, batch, loop, status,
                    waiting, current, resumer>>
        /\ phase' = "top" /\ current = Nobody /\ phase # "deferred"
    BY <1>2 DEF Run, EndBatch
  <2>2. Chain' /\ Fresh' /\ Bottom'
    BY <2>1 DEF Chain, Fresh, Bottom, IsWaiting
  <2>3. Queued' /\ Phases'
    BY <2>1 DEF Queued, Phases, Suspended, IsWaiting
  <2>4. Watched'
    BY <2>1 DEF Watched, Suspended, IsWaiting, ToFd, kernel
  <2> QED
    BY <1>1, <2>2, <2>3, <2>4
<1>3. CASE TakeDeferred
  <2>1. /\ UNCHANGED <<kernel, fds, batch, loop, status, waiting, current, resumer>>
        /\ todo' = deferred /\ deferred' = <<>> /\ block' = (deferred = <<>>)
        /\ phase = "top" /\ phase' = "deferred"
    BY <1>3 DEF TakeDeferred
  <2>2. todo = <<>> /\ current = Nobody
    BY <2>1 DEF Phases
  <2>3. Chain' /\ Fresh' /\ Bottom'
    BY <2>1 DEF Chain, Fresh, Bottom, IsWaiting
  <2>4. Queued'
    BY <2>1, <2>2 DEF Queued, Distinct, Among, Suspended, IsWaiting
  <2>5. Phases'
    BY <2>1, <2>2 DEF Phases
  <2>6. Watched'
    BY <2>1 DEF Watched, Suspended, IsWaiting, ToFd, kernel
  <2> QED
    BY <1>1, <2>3, <2>4, <2>5, <2>6
<1>4. CASE RunDeferred
  <2> DEFINE j == Head(todo)
  <2>1. /\ todo \in Seq(Jobs) /\ todo # <<>> /\ todo' = Tail(todo)
        /\ Enter(j) /\ status[j] = "suspended" /\ current = Nobody
        /\ UNCHANGED <<kernel, fds, deferred, block, batch, phase, loop, waiting>>
        /\ phase = "deferred"
    BY <1>4 DEF RunDeferred, TypeOK, LoopTypeOK
  <2>2. /\ j \in Jobs /\ Among(j, todo) /\ Distinct(todo')
        /\ \A k : Among(k, todo') <=> Among(k, todo) /\ k # j
    BY <2>1, TailAmong DEF Queued
  <2>3. ~IsWaiting(j)
    BY <2>2 DEF Queued
  <2>4. loop = "alive"
    BY <1>4 DEF RunDeferred
  <2>5. Chain' /\ Fresh' /\ Bottom' /\ Watched'
    <3>1. \A f \in batch : fds[f] # j
      BY <2>2, <2>3, <2>4 DEF Watched
    <3> HIDE DEF j
    <3> QED
      BY <2>1, <2>2, <3>1, EnterTurns DEF kernel
  <2>6. Queued'
    <3>1. status' = [status EXCEPT ![j] = "active"]
          /\ status \in [Jobs -> {"new", "active", "suspended", "dead", "stranded"}]
      BY <2>1 DEF Enter, TypeOK, JobTypeOK
    <3>2. ~Among(j, deferred)
      BY <2>2 DEF Queued
    <3> HIDE DEF j
    <3> QED
      BY <2>1, <2>2, <3>1, <3>2 DEF Queued, Suspended, IsWaiting
  <2>7. Phases'
    BY <2>1 DEF Phases
  <2> QED
    BY <1>1, <2>5, <2>6, <2>7
<1>5. CASE Poll
  <2>1. /\ UNCHANGED <<kernel, fds, deferred, todo, block, loop, status, waiting,
                       current, resumer>>
        /\ batch' = interest \cap ready /\ phase' = "dispatch"
        /\ todo = <<>> /\ current = Nobody /\ loop = "alive"
    BY <1>5 DEF Poll
  <2>2. Chain' /\ Fresh' /\ Bottom'
    BY <2>1 DEF Chain, Fresh, Bottom, IsWaiting
  <2>3. Queued' /\ Phases'
    BY <2>1 DEF Queued, Phases, Suspended, IsWaiting
  <2>4. ASSUME NEW f \in interest, NEW k \in Jobs, fds[f] = k
        PROVE  Suspended(k) /\ IsWaiting(k) /\ ToFd(k) = f
    <3>1. status[k] \in {"active", "suspended"} /\ IsWaiting(k) /\ ToFd(k) = f
      BY <2>1, <2>4 DEF Watched
    <3>2. status[k] # "active"
      BY <2>1, <3>1 DEF Bottom, Chain
    <3> QED
      BY <3>1, <3>2 DEF Suspended
  <2>5. Watched'
    BY <2>1, <2>4 DEF Watched, Suspended, IsWaiting, ToFd, kernel
  <2> QED
    BY <1>1, <2>2, <2>3, <2>5
<1> QED
  BY <1>2, <1>3, <1>4, <1>5

\* Steps that leave the coroutines and the lists alone, and close at most one
\* descriptor.
LEMMA StillTurns ==
  ASSUME TurnsInv, TypeOK',
         UNCHANGED <<fds, deferred, todo, block, phase, status, waiting, current,
                     resumer>>,
         loop' = "alive" => loop = "alive",
         batch' \subseteq batch, interest' \subseteq interest,
         \A k \in Jobs : sock'[k] = sock[k] \/ sock[k] \notin interest'
  PROVE  TurnsInv'
<1>1. Chain' /\ Fresh' /\ Bottom'
  BY DEF TurnsInv, Chain, Fresh, Bottom, IsWaiting
<1>2. Queued' /\ Phases'
  BY DEF TurnsInv, Queued, Phases, Suspended, IsWaiting
<1>3. Watched'
  BY DEF TurnsInv, Watched, Suspended, IsWaiting, ToFd
<1> QED
  BY <1>1, <1>2, <1>3 DEF TurnsInv

\* A coroutine that is on neither list is resumed.
LEMMA StartTurns ==
  ASSUME TurnsInv, TypeOK', NEW j \in Jobs, Enter(j), 
         \/ status[j] = "new"
         \/ status[j] = "suspended" /\ IsWaiting(j) /\ current = Nobody,
         phase = "top" => current # Nobody,
         phase = "deferred" => current # Nobody,
         UNCHANGED <<waiting, interest, fds, loop, deferred, todo, block, phase>>,
         \A k \in Jobs : sock'[k] = sock[k] \/ status[k] = "new",
         batch' \subseteq batch, \A f \in batch' : fds[f] # j
  PROVE  TurnsInv'
<1>1. /\ status \in [Jobs -> {"new", "active", "suspended", "dead", "stranded"}]
      /\ status' = [status EXCEPT ![j] = "active"]
  BY DEF TurnsInv, TypeOK, JobTypeOK, Enter
<1>2. Chain' /\ Fresh' /\ Bottom' /\ Watched'
  BY EnterTurns DEF TurnsInv, Fresh
<1>3. Queued'
  BY <1>1 DEF TurnsInv, Queued, Suspended, IsWaiting
<1>4. Phases'
  BY DEF TurnsInv, Phases
<1> QED
  BY <1>2, <1>3, <1>4 DEF TurnsInv

LEMMA DispatchTurns ==
  ASSUME TurnsInv, NEW f \in Fds, Dispatch(f)
  PROVE  TurnsInv'
<1>1. TypeOK'
  BY DispatchTypes DEF TurnsInv
<1>2. CASE DispatchNone(f) \/ DispatchConsole(f) \/ AcceptFails(f)
  BY <1>1, <1>2, StillTurns DEF DispatchNone, DispatchConsole, AcceptFails, Take,
                                kernel
<1>3. CASE DispatchJob(f)
  <2> DEFINE j == fds[f]
  <2>1. /\ j \in Jobs /\ status[j] = "suspended" /\ Enter(j) /\ f \in batch
        /\ batch' = batch \ {f} /\ phase = "dispatch" /\ current = Nobody
        /\ loop = "alive"
        /\ UNCHANGED <<kernel, fds, deferred, todo, block, phase, loop, waiting>>
    BY <1>3 DEF DispatchJob, Take
  <2>2. IsWaiting(j) /\ \A g \in batch' : fds[g] # j
    BY <2>1 DEF TurnsInv, Watched
  <2> HIDE DEF j
  <2> QED
    BY <1>1, <2>1, <2>2, StartTurns DEF kernel
<1>4. ASSUME NEW j \in Clients, Accept(f, j) PROVE TurnsInv'
  <2>1. /\ j \in Jobs /\ status[j] = "new" /\ Enter(j)
        /\ batch' = batch \ {f} /\ phase = "dispatch" /\ loop = "alive"
        /\ UNCHANGED <<waiting, interest, fds, loop, deferred, todo, block, phase>>
    BY <1>4, Constants DEF Accept, Take
  <2>2. \A k \in Jobs : sock'[k] = sock[k] \/ status[k] = "new"
    BY <1>4, <2>1 DEF Accept, TurnsInv, TypeOK, KernelTypeOK
  <2>3. \A g \in batch : fds[g] # j
    BY <2>1 DEF TurnsInv, Watched, Suspended
  <2> QED
    BY <1>1, <2>1, <2>2, <2>3, StartTurns
<1> QED
  BY <1>2, <1>3, <1>4 DEF Dispatch

LEMMA SpawnTurns ==
  ASSUME TurnsInv, NEW j \in Tasks, Spawn(j)
  PROVE  TurnsInv'
<1>1. /\ j \in Jobs /\ status[j] = "new" /\ Enter(j) /\ loop = "alive"
      /\ UNCHANGED <<kernel, fds, lists, loop, waiting>>
      /\ phase # "main" => current # Nobody
  BY Constants DEF Spawn
<1>2. \A g \in batch : fds[g] # j
  BY <1>1 DEF TurnsInv, Watched, Suspended
<1>3. TypeOK'
  <2>1. JobTypeOK'
    BY <1>1, EnterTypes DEF TurnsInv, TypeOK
  <2> QED
    BY <1>1, <2>1 DEF kernel, lists, TurnsInv, TypeOK, KernelTypeOK, LoopTypeOK
<1> QED
  BY <1>1, <1>2, <1>3, StartTurns DEF kernel, lists

-----------------------------------------------------------------------------
\* A turn that ends leaves the lists as they are when the job waits or is over.
LEMMA QueuedLeave ==
  ASSUME TurnsInv, NEW j \in Jobs, Running(j),
         NEW s \in {"suspended", "dead", "stranded"}, Leave(j, s),
         \A k \in Jobs \ {j} : waiting'[k] = waiting[k],
         s = "suspended" => IsWaiting(j)',
         UNCHANGED lists
  PROVE  Queued' /\ Phases'
<1>1. /\ status \in [Jobs -> {"new", "active", "suspended", "dead", "stranded"}]
      /\ status' = [status EXCEPT ![j] = s]
      /\ status[j] = "active" /\ current = j /\ j # Nobody
  BY RunningTurns DEF TurnsInv, TypeOK, JobTypeOK, Leave
<1>2. Queued'
  <2>1. ASSUME NEW k \in Jobs
        PROVE  Suspended(k)' /\ ~IsWaiting(k)' <=> Suspended(k) /\ ~IsWaiting(k)
    BY <1>1 DEF Suspended, IsWaiting
  <2> QED
    BY <2>1 DEF TurnsInv, Queued, lists
<1>3. Phases'
  BY <1>1 DEF TurnsInv, Phases, lists
<1> QED
  BY <1>2, <1>3

\* The running job waits for a descriptor, or the add fails.
LEMMA WaitTurns ==
  ASSUME TurnsInv, NEW j \in Jobs, Running(j), NEW f \in Fds,
         NEW kind \in {"int", "sock", "time"}, Wait(j, kind, f),
         kind = "sock" => f = sock[j],
         owner' \in [Fds -> Callbacks], UNCHANGED <<ready, sock, lists>>
  PROVE  TurnsInv'
<1>1. TypeOK'
  BY WaitTypes DEF TurnsInv
<1>2. /\ waiting \in [Jobs -> Waits] /\ status \in [Jobs -> {"new", "active", "suspended", "dead", "stranded"}]
      /\ fds \in [Fds -> Callbacks] /\ FdsWithout(j) \in [Fds -> Callbacks]
      /\ loop = "alive" /\ batch \subseteq Fds
  BY WithoutTypes DEF TurnsInv, TypeOK, JobTypeOK, LoopTypeOK, Running
<1>3. /\ IsWaiting(j)' /\ ToFd(j)' = f
      /\ \A k \in Jobs \ {j} : waiting'[k] = waiting[k]
  BY <1>2 DEF Wait, IsWaiting, ToFd
<1>4. /\ \A g \in batch : fds[g] # j
      /\ \A g \in InterestWithout(j) : g \in interest /\ fds[g] # j
      /\ \A g \in Fds : FdsWithout(j)[g] \in {fds[g], Nobody}
      /\ resumer[j] # Nobody => \A g \in interest : fds[g] # j
      /\ j # Nobody
  BY RunningTurns
<1>5. CASE f \in InterestWithout(j)
  <2>1. /\ Leave(j, "stranded") /\ interest' = InterestWithout(j)
        /\ fds' = FdsWithout(j)
    BY <1>5 DEF Wait, Raise
  <2>2. Chain' /\ Fresh' /\ Bottom'
    BY <1>3, <2>1, LeaveTurns
  <2>3. Queued' /\ Phases'
    BY <1>3, <2>1, QueuedLeave
  <2>4. Watched'
    <3>1. \A k \in Jobs \ {j} : waiting'[k] = waiting[k] /\ status'[k] = status[k]
      BY <1>2, <1>3, <2>1 DEF Leave
    <3>2. interest' \subseteq Fds
      BY <1>1 DEF TypeOK, KernelTypeOK
    <3>3. \A g \in interest' : fds'[g] # j /\ g \in interest /\ fds'[g] \in {fds[g], Nobody}
      BY <1>4, <2>1, <3>2
    <3>4. \A g \in batch : fds'[g] \in {fds[g], Nobody} /\ fds'[g] # j
      BY <1>2, <1>4, <2>1
    <3> QED
      BY <3>1, <3>2, <3>3, <3>4, LeaveWatched DEF lists
  <2> QED
    BY <1>1, <2>2, <2>3, <2>4 DEF TurnsInv
<1>6. CASE f \notin InterestWithout(j)
  <2>1. /\ Leave(j, "suspended") /\ interest' = InterestWithout(j) \cup {f}
        /\ fds' = [FdsWithout(j) EXCEPT ![f] = j]
    BY <1>6 DEF Wait
  <2>2. Chain' /\ Fresh' /\ Bottom'
    BY <1>3, <2>1, LeaveTurns
  <2>3. Queued' /\ Phases'
    BY <1>3, <2>1, QueuedLeave
  <2>4. Watched'
    <3>1. /\ \A k \in Jobs \ {j} : waiting'[k] = waiting[k] /\ status'[k] = status[k]
          /\ status'[j] = "suspended"
      BY <1>2, <1>3, <2>1 DEF Leave
    <3>2. interest' \subseteq Fds
      BY <1>1 DEF TypeOK, KernelTypeOK
    <3>3. fds'[f] = j /\ \A g \in Fds \ {f} : fds'[g] \in {fds[g], Nobody}
      BY <1>2, <1>4, <2>1
    <3>4. \A g \in interest' \ {f} : fds'[g] # j /\ g \in interest
      BY <1>4, <2>1, <3>2, <3>3
    <3>5. \A g \in batch \ {f} : fds'[g] # j
      BY <1>2, <1>4, <3>3
    <3> QED
      BY <1>2, <1>3, <3>1, <3>2, <3>3, <3>4, <3>5, LeaveWatched DEF lists
  <2> QED
    BY <1>1, <2>2, <2>3, <2>4 DEF TurnsInv
<1> QED
  BY <1>5, <1>6

LEMMA PauseTurns ==
  ASSUME TurnsInv, NEW j \in Jobs, Pause(j)
  PROVE  TurnsInv'
<1>1. TypeOK'
  BY EndTurnTypes DEF EndTurn, TurnsInv
<1>2. /\ Running(j) /\ Leave(j, "suspended") /\ loop = "alive"
      /\ interest' = InterestWithout(j) /\ fds' = FdsWithout(j)
      /\ waiting' = [waiting EXCEPT ![j] = NotWaiting]
      /\ deferred' = Append(deferred, j)
      /\ UNCHANGED <<owner, ready, sock, todo, block, batch, phase, loop>>
  BY DEF Pause, Running
<1>3. /\ waiting \in [Jobs -> Waits] /\ deferred \in Seq(Jobs)
      /\ status \in [Jobs -> {"new", "active", "suspended", "dead", "stranded"}]
      /\ batch \subseteq Fds /\ FdsWithout(j) \in [Fds -> Callbacks]
  BY WithoutTypes DEF TurnsInv, TypeOK, JobTypeOK, LoopTypeOK
<1>4. ~IsWaiting(j)' /\ \A k \in Jobs \ {j} : waiting'[k] = waiting[k]
  BY <1>2, <1>3, Constants DEF IsWaiting
<1>5. /\ status[j] = "active" /\ current = j /\ j # Nobody
      /\ \A g \in batch : fds[g] # j
      /\ \A g \in InterestWithout(j) : g \in interest /\ fds[g] # j
      /\ \A g \in Fds : FdsWithout(j)[g] \in {fds[g], Nobody}
  BY <1>2, RunningTurns
<1>6. Chain' /\ Fresh' /\ Bottom'
  BY <1>2, <1>4, LeaveTurns
<1>7. /\ status' = [status EXCEPT ![j] = "suspended"]
      /\ \A k \in Jobs \ {j} : waiting'[k] = waiting[k] /\ status'[k] = status[k]
  BY <1>2, <1>3, <1>4 DEF Leave
<1>8. Queued'
  <2>1. ~Among(j, deferred) /\ ~Among(j, todo) /\ Distinct(deferred)
    BY <1>5 DEF TurnsInv, Queued, Suspended
  <2>2. Distinct(deferred') /\ \A k : Among(k, deferred') <=> Among(k, deferred) \/ k = j
    BY <1>2, <1>3, <2>1, AppendAmong
  <2>3. ASSUME NEW k \in Jobs
        PROVE  Suspended(k)' /\ ~IsWaiting(k)' <=>
               (Suspended(k) /\ ~IsWaiting(k)) \/ k = j
    BY <1>3, <1>4, <1>5, <1>7 DEF Suspended, IsWaiting
  <2> QED
    BY <1>2, <2>1, <2>2, <2>3 DEF TurnsInv, Queued
<1>9. Phases'
  BY <1>2, <1>5 DEF TurnsInv, Phases
<1>10. Watched'
  <2>1. interest' \subseteq Fds
    BY <1>1 DEF TypeOK, KernelTypeOK
  <2>2. \A g \in interest' : fds'[g] # j /\ g \in interest /\ fds'[g] \in {fds[g], Nobody}
    BY <1>2, <1>5, <2>1
  <2>3. \A g \in batch : fds'[g] \in {fds[g], Nobody} /\ fds'[g] # j
    BY <1>2, <1>3, <1>5
  <2> QED
    BY <1>2, <1>7, <2>1, <2>2, <2>3, LeaveWatched
<1> QED
  BY <1>1, <1>6, <1>8, <1>9, <1>10 DEF TurnsInv

\* The job is over, or an error ends it.
LEMMA OverTurns ==
  ASSUME TurnsInv, NEW j \in Jobs, Finish(j) \/ YieldTimeFails(j) \/ JobRaises(j)
  PROVE  TurnsInv'
<1>1. TypeOK'
  BY EndTurnTypes DEF EndTurn, TurnsInv
<1>2. /\ Running(j) /\ UNCHANGED <<waiting, sock, lists>> /\ loop = "alive"
      /\ batch' = batch
      /\ \/ /\ Leave(j, "dead") /\ interest' = InterestWithout(j)
            /\ fds' = FdsWithout(j)
         \/ /\ Leave(j, "stranded") /\ UNCHANGED <<interest, fds>>
            /\ resumer[j] = Nobody => loop' \in {"timer error", "job error"}
  BY DEF Finish, YieldTimeFails, JobRaises, Running, Raise, kernel, lists
<1>3. /\ \A g \in batch : fds[g] # j
      /\ \A g \in InterestWithout(j) : g \in interest /\ fds[g] # j
      /\ \A g \in Fds : FdsWithout(j)[g] \in {fds[g], Nobody}
      /\ resumer[j] # Nobody => \A g \in interest : fds[g] # j
      /\ j # Nobody
  BY <1>2, RunningTurns
<1>4. Chain' /\ Fresh' /\ Bottom' /\ Queued' /\ Phases'
  BY <1>2, LeaveTurns, QueuedLeave
<1>5. \A k \in Jobs \ {j} : waiting'[k] = waiting[k] /\ status'[k] = status[k]
  BY <1>2 DEF Leave, TurnsInv, TypeOK, JobTypeOK
<1>6. interest' \subseteq Fds /\ batch \subseteq Fds
  BY <1>1, <1>2 DEF TypeOK, KernelTypeOK, LoopTypeOK, TurnsInv
<1>7. \A g \in batch : fds'[g] \in {fds[g], Nobody} /\ fds'[g] # j
  BY <1>2, <1>3, <1>6
<1>8. \/ loop' # "alive"
      \/ \A g \in interest' : fds'[g] # j /\ g \in interest /\ fds'[g] \in {fds[g], Nobody}
  BY <1>2, <1>3, <1>6
<1>9. Watched'
  BY <1>2, <1>5, <1>6, <1>7, <1>8, LeaveWatched
<1> QED
  BY <1>1, <1>4, <1>9 DEF TurnsInv

LEMMA EndTurnTurns ==
  ASSUME TurnsInv, NEW j \in Jobs, EndTurn(j)
  PROVE  TurnsInv'
<1>1. ASSUME NEW f \in Fds, YieldStream(j, f) PROVE TurnsInv'
  BY <1>1, WaitTurns DEF YieldStream, TurnsInv, TypeOK, KernelTypeOK
<1>2. CASE YieldSocket(j)
  <2>1. sock[j] \in Fds
    BY DEF TurnsInv, TypeOK, KernelTypeOK
  <2> QED
    BY <1>2, <2>1, WaitTurns DEF YieldSocket, TurnsInv, TypeOK, KernelTypeOK
<1>3. CASE YieldTime(j)
  <2>1. PICK n \in Fds : owner' = [owner EXCEPT ![n] = j] /\ Wait(j, "time", n)
    BY <1>3 DEF YieldTime
  <2>2. owner' \in [Fds -> Callbacks]
    BY <2>1, Constants DEF TurnsInv, TypeOK, KernelTypeOK
  <2> QED
    BY <1>3, <2>1, <2>2, WaitTurns DEF YieldTime
<1> QED
  BY <1>1, <1>2, <1>3, PauseTurns, OverTurns DEF EndTurn

LEMMA ActTurns ==
  ASSUME TurnsInv, NEW j \in Jobs, Act(j)
  PROVE  TurnsInv'
<1>1. TypeOK' /\ sock \in [Jobs -> Fds]
  BY ActTypes DEF TurnsInv, TypeOK, KernelTypeOK
<1>2. CASE Open(j)
  BY <1>1, <1>2, StillTurns DEF Open, lists
<1>3. ASSUME NEW f \in Fds, CloseStream(j, f) \/ Drain(j, f) \/ Drop(j, f)
      PROVE TurnsInv'
  BY <1>1, <1>3, StillTurns DEF CloseStream, Drain, Drop, Close, lists
<1>4. ASSUME NEW k \in Clients, CloseSocket(j, k) PROVE TurnsInv'
  BY <1>1, <1>4, StillTurns DEF CloseSocket, Close, lists
<1> QED
  BY <1>2, <1>3, <1>4 DEF Act

LEMMA NextTurns == TurnsInv /\ [Next]_vars => TurnsInv'
<1> SUFFICES ASSUME TurnsInv, [Next]_vars PROVE TurnsInv'
  OBVIOUS
<1>1. TypeOK'
  BY NextTypeOK DEF TurnsInv
<1>2. CASE UNCHANGED vars
  BY <1>1, <1>2, StillTurns DEF vars
<1>3. ASSUME NEW f \in Fds, Collect(f) PROVE TurnsInv'
  <2>1. \A k \in Jobs : sock'[k] = sock[k] \/ sock[k] \notin interest'
    BY <1>3 DEF Collect, Close
  <2> QED
    BY <1>1, <1>3, <2>1, StillTurns DEF Collect, Close, lists
<1>4. ASSUME NEW f \in Fds, Arrive(f) PROVE TurnsInv'
  BY <1>1, <1>4, StillTurns DEF Arrive, lists
<1> QED
  BY <1>2, <1>3, <1>4, LoopStepTurns, DispatchTurns, SpawnTurns, EndTurnTurns,
     ActTurns DEF Next

LEMMA TurnsInvariant == Spec => []TurnsInv
<1>1. Init => TurnsInv
  BY InitTurns
<1>2. TurnsInv /\ [Next]_vars => TurnsInv'
  BY NextTurns
<1> QED
  BY <1>1, <1>2, PTL DEF Spec

-----------------------------------------------------------------------------
(* What follows *)

\* In every use of the loop, a job that yielded nothing to wait for is in the
\* two lists of f_loop_run exactly once and every other job in neither: no turn
\* is lost or taken twice (f_loop_run, wtk.c:250-264, and job_step, 484-509).
THEOREM TurnsExactlyOnce == Spec => []DeferredExactlyOnce
<1>1. ASSUME TurnsInv PROVE DeferredExactlyOnce
  <2>1. deferred \in Seq(Jobs) /\ todo \in Seq(Jobs)
    BY <1>1 DEF TurnsInv, TypeOK, LoopTypeOK
  <2> SUFFICES ASSUME NEW j \in Jobs
               PROVE  Occurrences(j) = IF Suspended(j) /\ ~IsWaiting(j) THEN 1 ELSE 0
    BY DEF DeferredExactlyOnce
  <2>2. Occurrences(j) = (IF Among(j, deferred) THEN 1 ELSE 0)
                         + (IF Among(j, todo) THEN 1 ELSE 0)
    BY <1>1, <2>1, CountAmong DEF Occurrences, TurnsInv, Queued
  <2> QED
    BY <1>1, <2>2 DEF TurnsInv, Queued
<1> QED
  BY <1>1, TurnsInvariant, PTL

\* In every use of the loop, the epoll_wait of an iteration does not block while
\* a job is deferred, also when a job that was stepped in the same iteration
\* deferred itself or started others (f_loop_run, wtk.c:250-266).
THEOREM SleepsOnlyWhenIdle == Spec => []NeverBlocksOnDeferred
<1>1. TurnsInv => NeverBlocksOnDeferred
  BY DEF TurnsInv, Phases, NeverBlocksOnDeferred
<1> QED
  BY <1>1, TurnsInvariant, PTL

\* In every use of the loop, the coroutine that the loop is about to resume is
\* suspended: the assert on coroutine.resume cannot fail because a job was
\* resumed twice or after its end (job_step, wtk.c:486).
THEOREM StepsCanRun == Spec => []CallbackCanRun
<1>1. ASSUME TurnsInv PROVE CallbackCanRun
  <2>1. todo # <<>> => Head(todo) \in Jobs /\ Among(Head(todo), todo)
    BY <1>1, TailAmong DEF TurnsInv, TypeOK, LoopTypeOK, Queued
  <2> QED
    BY <1>1, <2>1 DEF TurnsInv, Queued, Watched, CallbackCanRun
<1> QED
  BY <1>1, TurnsInvariant, PTL

-----------------------------------------------------------------------------
(* JobScheduler is implemented                                              *)

\* The mapped variables.
MappedState == [j \in Jobs |-> AbstractState(j)]
MappedFired == {j \in Jobs : AbstractState(j) = "blocked" /\ ToFd(j) \in ready}

\* An event of the batch is still pending and registered when it is dispatched.
\* Number 0 is the console's alone, and registered only for it.
Batched ==
  /\ \A f \in Fds : owner[f] = Stdin => f = StdinFd
  /\ StdinFd \in interest => Console
  /\ loop = "alive" => \A f \in batch : f \in interest /\ f \in ready

RInv == IInv /\ TurnsInv /\ Batched

-----------------------------------------------------------------------------
(* What the batch holds *)

\* Who is behind a descriptor that is registered, and behind one of the batch.
LEMMA Behind ==
  ASSUME SafeUsage, RInv, loop = "alive"
  PROVE  /\ \A f \in interest : f \in Fds /\ fds[f] = owner[f] /\ owner[f] # Nobody
         /\ \A k \in Jobs : Suspended(k) /\ IsWaiting(k) =>
              /\ ToFd(k) \in interest /\ fds[ToFd(k)] = k /\ owner[ToFd(k)] = k
              /\ ToFd(k) \notin garbage /\ k # current
         /\ \A f \in batch : \A k \in Jobs : owner[f] = k =>
              /\ Suspended(k) /\ IsWaiting(k) /\ ToFd(k) = f
              /\ k # current /\ f \notin garbage
<1>1. \A f \in interest : f \in Fds /\ fds[f] = owner[f] /\ owner[f] # Nobody
  BY DEF RInv, IInv, Safe, NoStrayCallback, TypeOK, KernelTypeOK
<1>2. ASSUME NEW k \in Jobs, Suspended(k), IsWaiting(k)
      PROVE  /\ ToFd(k) \in interest /\ fds[ToFd(k)] = k /\ owner[ToFd(k)] = k
             /\ ToFd(k) \notin garbage /\ k # current
  <2>1. ToFd(k) \in interest /\ fds[ToFd(k)] = k
    BY <1>2 DEF RInv, IInv, Safe, Registered
  <2>2. k # current
    BY <1>2, Constants DEF RInv, IInv, Safe, Chain, Suspended
  <2>3. ToFd(k) \notin garbage
    <3>1. Live(k) /\ waiting[k].kind \in {"int", "sock", "time"}
      BY <1>2 DEF Live, Suspended, IsWaiting, RInv, IInv, TypeOK, JobTypeOK, Waits
    <3> QED
      BY <2>2, <3>1 DEF RInv, IInv, Safe, Objects, ToFd
  <2> QED
    BY <1>1, <2>1, <2>2, <2>3
<1>3. ASSUME NEW f \in batch, NEW k \in Jobs, owner[f] = k
      PROVE  Suspended(k) /\ IsWaiting(k) /\ ToFd(k) = f
  <2>1. f \in interest /\ fds[f] = k
    BY <1>1, <1>3 DEF RInv, Batched
  <2> QED
    BY <1>3, <2>1 DEF RInv, TurnsInv, Watched
<1> QED
  BY <1>1, <1>2, <1>3

LEMMA InitBatched == Init => Batched
<1> SUFFICES ASSUME Init PROVE Batched
  OBVIOUS
<1>1. \A f \in Fds : owner[f] = Stdin => f = StdinFd
  BY Constants, CallbackAssumption DEF Init
<1>2. StdinFd \in interest => Console
  BY Constants DEF Init
<1>3. batch = {}
  BY DEF Init
<1> QED
  BY <1>1, <1>2, <1>3 DEF Batched

\* Steps that take no registration and no event away, but of the descriptors in
\* gone, none of which is in the batch that is left.
LEMMA BatchedStep ==
  ASSUME RInv, NEW gone,
         \A f \in Fds : owner'[f] \in {owner[f], Nobody} \cup Jobs,
         loop' = "alive" => loop = "alive",
         batch' \subseteq batch, \A f \in batch' : f \notin gone,
         interest \ gone \subseteq interest', ready \ gone \subseteq ready',
         StdinFd \in interest' => StdinFd \in interest
  PROVE  Batched'
<1>1. ASSUME NEW f \in Fds, owner'[f] = Stdin PROVE f = StdinFd
  BY <1>1, Constants, CallbackAssumption DEF RInv, Batched
<1> QED
  BY <1>1 DEF RInv, Batched

LEMMA BatchedKept ==
  ASSUME RInv,
         \A f \in Fds : owner'[f] \in {owner[f], Nobody} \cup Jobs,
         loop' = "alive" => loop = "alive", batch' \subseteq batch,
         interest \subseteq interest', ready \subseteq ready',
         StdinFd \in interest' => StdinFd \in interest
  PROVE  Batched'
<1>1. ASSUME NEW f \in Fds, owner'[f] = Stdin PROVE f = StdinFd
  BY <1>1, Constants, CallbackAssumption DEF RInv, Batched
<1> QED
  BY <1>1 DEF RInv, Batched

LEMMA EndTurnBatched ==
  ASSUME SafeUsage, RInv, NEW j \in Jobs, EndTurn(j)
  PROVE  Batched'
<1> DEFINE gone == interest \ InterestWithout(j)
<1>1. Running(j) /\ loop = "alive" /\ current = j
  BY DEF EndTurn, YieldStream, YieldSocket, YieldTime, YieldTimeFails, Pause, Finish,
         JobRaises, Running
<1>2. batch' = batch /\ ready' = ready
  BY DEF EndTurn, YieldStream, YieldSocket, YieldTime, YieldTimeFails, Pause, Finish,
         JobRaises, lists, kernel
<1>3. interest \ gone \subseteq interest'
  BY DEF EndTurn, YieldStream, YieldSocket, YieldTime, YieldTimeFails, Pause, Finish,
         JobRaises, Wait, kernel
<1>4. \A f \in Fds : owner'[f] \in {owner[f], Nobody} \cup Jobs
  BY DEF EndTurn, YieldStream, YieldSocket, YieldTime, YieldTimeFails, Pause, Finish,
         JobRaises, kernel, RInv, IInv, TypeOK, KernelTypeOK
<1>5. ASSUME NEW f \in batch, f \in gone PROVE FALSE
  <2>1. f \in Fds /\ f \in interest /\ fds[f] = owner[f] /\ owner[f] # Nobody
    BY <1>1, <1>5, Behind DEF RInv, Batched
  <2>2. owner[f] # j
    BY <1>1, <1>5, Behind
  <2>3. ToFd(j) = f /\ IsWaiting(j)
    BY <1>5 DEF InterestWithout
  <2>4. Live(j)
    BY <1>1, Unregister DEF RInv
  <2>5. waiting[j].kind \in {"int", "sock", "time"} /\ sock[j] \in Fds
    BY <2>3 DEF IsWaiting, RInv, IInv, TypeOK, JobTypeOK, KernelTypeOK, Waits
  <2>6. f = 0 /\ ~Console
    BY <2>1, <2>2, <2>3, <2>4, <2>5 DEF ToFd, RInv, IInv, Safe, Objects, Ownership
  <2> QED
    BY <1>1, <1>5, <2>1, <2>6, Constants DEF RInv, Batched
<1>6. StdinFd \in interest' => StdinFd \in interest
  <2>1. owner[StdinFd] = Stdin /\ j # Stdin /\ Nobody # Stdin /\ StdinFd = 0
    BY Constants DEF RInv, IInv, Safe, Ownership
  <2>2. ASSUME NEW f \in Fds, NEW kind, Wait(j, kind, f), f # StdinFd
        PROVE  StdinFd \in interest' => StdinFd \in interest
    BY <2>2 DEF Wait, InterestWithout
  <2>3. ASSUME NEW f \in Fds, YieldStream(j, f) PROVE f # StdinFd
    BY <2>1, <2>3 DEF YieldStream, Reach, StreamsOf, SafeUsage
  <2>4. YieldSocket(j) => sock[j] \in Fds /\ sock[j] # StdinFd
    BY <2>1 DEF YieldSocket, RInv, IInv, TypeOK, KernelTypeOK
  <2>5. ASSUME NEW n \in Fds, IsLowestFree(n) PROVE n # StdinFd
    BY <2>1, <2>5 DEF IsLowestFree, Free
  <2>6. CASE \E f \in Fds : YieldStream(j, f)
    BY <2>2, <2>3, <2>6 DEF YieldStream
  <2>7. CASE YieldSocket(j)
    BY <2>2, <2>4, <2>7 DEF YieldSocket
  <2>8. CASE YieldTime(j)
    BY <2>2, <2>5, <2>8 DEF YieldTime
  <2>9. CASE YieldTimeFails(j) \/ Pause(j) \/ Finish(j) \/ JobRaises(j)
    BY <2>9 DEF YieldTimeFails, Pause, Finish, JobRaises, InterestWithout, kernel
  <2> QED
    BY <2>6, <2>7, <2>8, <2>9 DEF EndTurn
<1> QED
  BY <1>1, <1>2, <1>3, <1>4, <1>5, <1>6, BatchedStep

LEMMA ActBatched ==
  ASSUME SafeUsage, RInv, NEW j \in Jobs, Act(j)
  PROVE  Batched'
<1>1. /\ Running(j) /\ loop = "alive" /\ current = j
      /\ UNCHANGED <<lists, loop>>
      /\ owner \in [Fds -> Callbacks] /\ sock \in [Jobs -> Fds] /\ batch \subseteq Fds
  BY DEF Act, Open, CloseStream, CloseSocket, Drain, Drop, Running, RInv, IInv, TypeOK,
         KernelTypeOK, LoopTypeOK
<1>2. \A f \in batch : owner[f] # j
  BY <1>1, Behind
<1>3. CASE Open(j)
  <2>1. \A f \in Fds : owner'[f] \in {owner[f], Nobody} \cup Jobs
    BY <1>1, <1>3 DEF Open
  <2> QED
    BY <1>1, <1>3, <2>1, BatchedKept DEF Open, lists
<1>4. ASSUME NEW f \in Fds, owner[f] = j, interest' \in {interest, interest \ {f}},
             ready' \in {ready, ready \ {f}},
             owner' \in {owner, [owner EXCEPT ![f] = Nobody]}
      PROVE  Batched'
  <2>1. \A g \in Fds : owner'[g] \in {owner[g], Nobody} \cup Jobs
    BY <1>1, <1>4
  <2>2. \A g \in batch' : g \notin {f}
    BY <1>1, <1>2, <1>4 DEF lists
  <2> QED
    BY <1>1, <1>4, <2>1, <2>2, BatchedStep DEF lists
<1>5. \A f \in Reach(j) : f \in Fds /\ owner[f] = j
  BY DEF Reach, StreamsOf, SafeUsage
<1>6. sock[j] # 0 => owner[sock[j]] = j
  BY DEF RInv, IInv, Safe, Ownership
<1>7. ASSUME NEW f \in Fds, CloseStream(j, f) PROVE Batched'
  BY <1>4, <1>5, <1>7 DEF CloseStream, Close
<1>8. ASSUME NEW f \in Fds, Drain(j, f) PROVE Batched'
  BY <1>4, <1>5, <1>6, <1>8 DEF Drain
<1>9. ASSUME NEW f \in Fds, Drop(j, f) PROVE Batched'
  BY <1>4, <1>9 DEF Drop, StreamsOf
<1>10. ASSUME NEW k \in Clients, CloseSocket(j, k) PROVE Batched'
  <2>1. j = k /\ sock[j] # 0 /\ sock[j] \in Fds
    BY <1>1, <1>10 DEF CloseSocket, SafeUsage
  <2> QED
    BY <1>4, <1>6, <1>10, <2>1 DEF CloseSocket, Close
<1> QED
  BY <1>3, <1>7, <1>8, <1>9, <1>10 DEF Act

LEMMA LoopStepBatched ==
  ASSUME SafeUsage, RInv,
         \/ Run \/ TakeDeferred \/ RunDeferred \/ Poll \/ EndBatch
         \/ \E f \in Fds : Dispatch(f) \/ Collect(f) \/ Arrive(f)
         \/ \E j \in Tasks : Spawn(j)
  PROVE  Batched'
<1>1. /\ owner \in [Fds -> Callbacks] /\ batch \subseteq Fds /\ interest \subseteq Fds
      /\ ready \subseteq Fds /\ garbage \subseteq Fds /\ loop = "alive"
  BY DEF RInv, IInv, TypeOK, KernelTypeOK, LoopTypeOK, Run, TakeDeferred, RunDeferred,
         Poll, EndBatch, Dispatch, DispatchNone, DispatchConsole, DispatchJob, Accept,
         AcceptFails, Take, Collect, Arrive, Spawn
<1>2. ASSUME NEW f \in Fds,
             \/ interest' = interest /\ ready' \in {ready, ready \cup {f}, ready \ {f}}
             \/ interest' = interest \ {f} /\ ready' = ready \ {f},
             batch' \subseteq batch, f \in batch' => ready \subseteq ready' /\ interest' = interest,
             \A g \in Fds : owner'[g] \in {owner[g], Nobody} \cup Jobs
      PROVE  Batched'
  <2>1. CASE f \in batch'
    BY <1>1, <1>2, <2>1, BatchedKept
  <2>2. CASE f \notin batch'
    <3>1. /\ \A g \in batch' : g \notin {f}
          /\ interest \ {f} \subseteq interest' /\ ready \ {f} \subseteq ready'
          /\ StdinFd \in interest' => StdinFd \in interest
      BY <1>2, <2>2
    <3> QED
      BY <1>1, <1>2, <3>1, BatchedStep
  <2> QED
    BY <2>1, <2>2
<1>3. CASE Run \/ TakeDeferred \/ RunDeferred \/ EndBatch \/ \E j \in Tasks : Spawn(j)
  <2>1. UNCHANGED <<owner, interest, ready, batch, loop>>
    BY <1>3 DEF Run, TakeDeferred, RunDeferred, EndBatch, Spawn, kernel, lists
  <2> QED
    BY <2>1 DEF RInv, Batched
<1>4. CASE Poll
  BY <1>4 DEF Poll, kernel, RInv, Batched
<1>5. ASSUME NEW f \in Fds, DispatchNone(f) \/ DispatchJob(f) \/ AcceptFails(f)
      PROVE  Batched'
  <2>1. /\ UNCHANGED <<owner, interest, ready>> /\ batch' = batch \ {f}
    BY <1>5 DEF DispatchNone, DispatchJob, AcceptFails, Take, kernel
  <2> QED
    BY <1>2, <2>1
<1>6. ASSUME NEW f \in Fds, DispatchConsole(f) PROVE Batched'
  <2>1. f \in interest /\ fds[f] = owner[f] /\ fds[f] = Stdin
    BY <1>1, <1>6, Behind DEF DispatchConsole, Take, RInv, Batched
  <2>2. f = StdinFd
    BY <2>1 DEF RInv, Batched
  <2>3. UNCHANGED <<owner, interest>> /\ batch' = batch \ {f} /\ ready' = ready \ {f}
    BY <1>6, <2>2 DEF DispatchConsole, Take
  <2> QED
    BY <1>2, <2>3
<1>7. ASSUME NEW f \in Fds, NEW j \in Clients, Accept(f, j) PROVE Batched'
  <2>1. interest' = interest /\ batch' = batch \ {f} /\ ready' \in {ready, ready \ {f}}
    BY <1>7 DEF Accept, Take
  <2>2. \A g \in Fds : owner'[g] \in {owner[g], Nobody} \cup Jobs
    BY <1>1, <1>7, Constants DEF Accept
  <2> QED
    BY <1>2, <2>1, <2>2
<1>8. ASSUME NEW f \in Fds, Collect(f) PROVE Batched'
  <2>1. /\ interest' = interest \ {f} /\ ready' = ready \ {f} /\ batch' = batch
        /\ owner' = [owner EXCEPT ![f] = Nobody]
    BY <1>8 DEF Collect, Close, lists
  <2>2. f \notin batch
    <3>1. owner[f] \in Jobs /\ f \in garbage
      BY <1>8 DEF Collect, RInv, IInv, Safe, Ownership
    <3> QED
      BY <1>1, <3>1, Behind
  <2> QED
    BY <1>1, <1>2, <2>1, <2>2
<1>9. ASSUME NEW f \in Fds, Arrive(f) PROVE Batched'
  <2>1. /\ UNCHANGED <<owner, interest>> /\ batch' = batch /\ ready' = ready \cup {f}
    BY <1>9 DEF Arrive, lists
  <2> QED
    BY <1>2, <2>1
<1> QED
  BY <1>3, <1>4, <1>5, <1>6, <1>7, <1>8, <1>9 DEF Dispatch

LEMMA NextRInv == SafeUsage /\ RInv /\ [Next]_vars => RInv'
<1> SUFFICES ASSUME SafeUsage, RInv, [Next]_vars PROVE RInv'
  OBVIOUS
<1>1. IInv' /\ TurnsInv'
  BY NextSafe, NextTurns DEF RInv
<1>2. CASE UNCHANGED vars
  BY <1>1, <1>2 DEF vars, RInv, Batched
<1>3. CASE Next
  <2>1. Batched'
    BY <1>3, LoopStepBatched, EndTurnBatched, ActBatched DEF Next
  <2> QED
    BY <1>1, <2>1 DEF RInv
<1> QED
  BY <1>2, <1>3

-----------------------------------------------------------------------------
(* The mapping *)

LEMMA MappedValues ==
  ASSUME TypeOK, NEW j \in Jobs
  PROVE  /\ AbstractState(j) = "new" <=> status[j] = "new"
         /\ AbstractState(j) = "running" <=> status[j] = "active"
         /\ AbstractState(j) = "blocked" <=> Suspended(j) /\ IsWaiting(j)
         /\ AbstractState(j) = "paused" <=> Suspended(j) /\ ~IsWaiting(j)
         /\ AbstractState(j) = "dead" <=> status[j] \in {"dead", "stranded"}
<1>1. status[j] \in {"new", "active", "suspended", "dead", "stranded"}
  BY DEF TypeOK, JobTypeOK
<1> QED
  BY <1>1 DEF AbstractState, Suspended

\* No job's state changes, and no blocked job's event comes or goes.
LEMMA StutterStep ==
  ASSUME TypeOK, TypeOK', UNCHANGED <<status, waiting>>,
         \A k \in Jobs : Suspended(k) /\ IsWaiting(k) =>
           ToFd(k)' = ToFd(k) /\ (ToFd(k) \in ready' <=> ToFd(k) \in ready)
  PROVE  UNCHANGED <<MappedState, MappedFired>>
<1>1. ASSUME NEW k \in Jobs PROVE AbstractState(k)' = AbstractState(k)
  BY DEF AbstractState, IsWaiting
<1>2. MappedState' = MappedState
  BY <1>1 DEF MappedState
<1>3. ASSUME NEW k \in Jobs
      PROVE (AbstractState(k) = "blocked" /\ ToFd(k) \in ready)' <=>
             AbstractState(k) = "blocked" /\ ToFd(k) \in ready
  BY <1>1, MappedValues
<1>4. MappedFired' = MappedFired
  BY <1>3 DEF MappedFired
<1> QED
  BY <1>2, <1>4

\* One job's state changes, and no other blocked job's event comes or goes.
LEMMA TurnStep ==
  ASSUME TypeOK, TypeOK', NEW j \in Jobs,
         \A k \in Jobs \ {j} : status'[k] = status[k] /\ waiting'[k] = waiting[k],
         \A k \in Jobs \ {j} : Suspended(k) /\ IsWaiting(k) =>
           ToFd(k)' = ToFd(k) /\ (ToFd(k) \in ready' <=> ToFd(k) \in ready)
  PROVE  /\ MappedState' = [MappedState EXCEPT ![j] = AbstractState(j)']
         /\ MappedFired' \ {j} = MappedFired \ {j}
         /\ MappedState[j] = AbstractState(j)
         /\ j \in MappedFired <=> Suspended(j) /\ IsWaiting(j) /\ ToFd(j) \in ready
         /\ j \in MappedFired' => (Suspended(j) /\ IsWaiting(j))'
<1>1. ASSUME NEW k \in Jobs \ {j} PROVE AbstractState(k)' = AbstractState(k)
  BY DEF AbstractState, IsWaiting
<1>2. MappedState' = [MappedState EXCEPT ![j] = AbstractState(j)']
  BY <1>1 DEF MappedState
<1>3. ASSUME NEW k \in Jobs \ {j}
      PROVE (AbstractState(k) = "blocked" /\ ToFd(k) \in ready)' <=>
             AbstractState(k) = "blocked" /\ ToFd(k) \in ready
  BY <1>1, MappedValues
<1>4. MappedFired' \ {j} = MappedFired \ {j}
  BY <1>3 DEF MappedFired
<1>5. j \in MappedFired <=> Suspended(j) /\ IsWaiting(j) /\ ToFd(j) \in ready
  BY MappedValues DEF MappedFired
<1>6. j \in MappedFired' => AbstractState(j)' = "blocked"
  BY DEF MappedFired
<1>7. AbstractState(j)' = "blocked" => (Suspended(j) /\ IsWaiting(j))'
  BY DEF AbstractState, TypeOK, JobTypeOK, Suspended
<1> QED
  BY <1>2, <1>4, <1>5, <1>6, <1>7 DEF MappedState

MappedStep == \/ \E j \in Jobs : \/ Abstract!Start(j)
                                 \/ Abstract!Block(j)
                                 \/ Abstract!Pause(j)
                                 \/ Abstract!Fire(j)
                                 \/ Abstract!Wake(j)
                                 \/ Abstract!Finish(j)
              \/ UNCHANGED <<MappedState, MappedFired>>

LEMMA MappedStart ==
  ASSUME TypeOK, TypeOK', NEW j \in Jobs, status[j] = "new", Enter(j),
         waiting' = waiting,
         \A k \in Jobs \ {j} : Suspended(k) /\ IsWaiting(k) =>
           ToFd(k)' = ToFd(k) /\ (ToFd(k) \in ready' <=> ToFd(k) \in ready)
  PROVE  Abstract!Start(j)
<1>1. status'[j] = "active"
      /\ \A k \in Jobs \ {j} : status'[k] = status[k] /\ waiting'[k] = waiting[k]
  BY DEF Enter, TypeOK, JobTypeOK
<1>2. AbstractState(j) = "new" /\ AbstractState(j)' = "running"
  BY <1>1 DEF AbstractState
<1>3. j \notin MappedFired /\ j \notin MappedFired'
  BY <1>2 DEF MappedFired
<1>4. /\ MappedState' = [MappedState EXCEPT ![j] = "running"]
      /\ MappedFired' \ {j} = MappedFired \ {j} /\ MappedState[j] = "new"
  BY <1>1, <1>2, TurnStep
<1>5. MappedFired' = MappedFired
  BY <1>3, <1>4
<1> QED
  BY <1>4, <1>5 DEF Abstract!Start, MappedState, MappedFired

LEMMA MappedWake ==
  ASSUME TypeOK, TypeOK', NEW j \in Jobs, status[j] = "suspended", Enter(j),
         IsWaiting(j) => ToFd(j) \in ready,
         UNCHANGED <<waiting, ready, sock>>
  PROVE  Abstract!Wake(j)
<1>1. status'[j] = "active"
      /\ \A k \in Jobs \ {j} : status'[k] = status[k] /\ waiting'[k] = waiting[k]
  BY DEF Enter, TypeOK, JobTypeOK
<1>2. AbstractState(j) = (IF IsWaiting(j) THEN "blocked" ELSE "paused")
      /\ AbstractState(j)' = "running"
  BY <1>1 DEF AbstractState
<1>3. j \notin MappedFired' /\ (j \in MappedFired <=> IsWaiting(j))
  BY <1>2 DEF MappedFired
<1>4. /\ MappedState' = [MappedState EXCEPT ![j] = "running"]
      /\ MappedFired' \ {j} = MappedFired \ {j}
      /\ MappedState[j] = AbstractState(j)
  BY <1>1, <1>2, TurnStep DEF ToFd
<1>5. MappedFired' = MappedFired \ {j}
  BY <1>3, <1>4
<1>6. MappedState[j] = "paused" \/ (MappedState[j] = "blocked" /\ j \in MappedFired)
  BY <1>2, <1>3, <1>4
<1> QED
  BY <1>4, <1>5, <1>6 DEF Abstract!Wake, MappedState, MappedFired

\* The running job's turn ends.
LEMMA MappedLeave ==
  ASSUME TypeOK, TypeOK', NEW j \in Jobs, status[j] = "active",
         NEW s \in {"suspended", "dead", "stranded"}, Leave(j, s),
         \A k \in Jobs \ {j} : waiting'[k] = waiting[k],
         UNCHANGED <<ready, sock>>
  PROVE  MappedStep
<1>1. status'[j] = s
      /\ \A k \in Jobs \ {j} : status'[k] = status[k] /\ waiting'[k] = waiting[k]
  BY DEF Leave, TypeOK, JobTypeOK
<1>2. AbstractState(j) = "running"
      /\ AbstractState(j)' = CASE s = "suspended" /\ IsWaiting(j)' -> "blocked"
                               [] s = "suspended" /\ ~IsWaiting(j)' -> "paused"
                               [] OTHER -> "dead"
  BY <1>1 DEF AbstractState
<1>3. j \notin MappedFired
  BY <1>2 DEF MappedFired
<1>4. AbstractState(j)' # "blocked" => j \notin MappedFired'
  BY DEF MappedFired
<1>5. /\ MappedState' = [MappedState EXCEPT ![j] = AbstractState(j)']
      /\ MappedFired' \ {j} = MappedFired \ {j} /\ MappedState[j] = "running"
  BY <1>1, <1>2, TurnStep DEF ToFd
<1>6. CASE s = "suspended" /\ IsWaiting(j)'
  <2>1. MappedState' = [MappedState EXCEPT ![j] = "blocked"]
    BY <1>2, <1>5, <1>6
  <2>2. MappedFired' \in {MappedFired, MappedFired \cup {j}}
    BY <1>3, <1>5
  <2>3. Abstract!Block(j)
    BY <1>5, <2>1, <2>2 DEF Abstract!Block, MappedState, MappedFired
  <2> QED
    BY <2>3 DEF MappedStep
<1>7. CASE s = "suspended" /\ ~IsWaiting(j)'
  <2>1. MappedState' = [MappedState EXCEPT ![j] = "paused"] /\ MappedFired' = MappedFired
    BY <1>2, <1>3, <1>4, <1>5, <1>7
  <2>2. Abstract!Pause(j)
    BY <1>5, <2>1 DEF Abstract!Pause, MappedState, MappedFired
  <2> QED
    BY <2>2 DEF MappedStep
<1>8. CASE s # "suspended"
  <2>1. MappedState' = [MappedState EXCEPT ![j] = "dead"] /\ MappedFired' = MappedFired
    BY <1>2, <1>3, <1>4, <1>5, <1>8
  <2>2. Abstract!Finish(j)
    BY <1>5, <2>1 DEF Abstract!Finish, MappedState, MappedFired
  <2> QED
    BY <2>2 DEF MappedStep
<1> QED
  BY <1>6, <1>7, <1>8

\* An event arrives: at most one job waits for it.
LEMMA MappedArrive ==
  ASSUME SafeUsage, RInv, TypeOK', NEW f \in Fds, Arrive(f)
  PROVE  MappedStep
<1>1. /\ f \notin ready /\ ready' = ready \cup {f} /\ loop = "alive" /\ TypeOK
      /\ UNCHANGED <<sock, status, waiting>>
  BY DEF Arrive, RInv, IInv
<1>2. CASE \E j \in Jobs : Suspended(j) /\ IsWaiting(j) /\ ToFd(j) = f
  <2>1. PICK j \in Jobs : Suspended(j) /\ IsWaiting(j) /\ ToFd(j) = f
    BY <1>2
  <2>2. \A k \in Jobs \ {j} : Suspended(k) /\ IsWaiting(k) => ToFd(k) # f
    BY <1>1, <2>1, Behind
  <2>3. AbstractState(j) = "blocked" /\ AbstractState(j)' = "blocked"
    BY <1>1, <2>1 DEF AbstractState, Suspended, IsWaiting
  <2>4. j \notin MappedFired /\ j \in MappedFired'
    BY <1>1, <2>1, <2>3 DEF MappedFired, ToFd
  <2>5. /\ MappedState' = [MappedState EXCEPT ![j] = "blocked"]
        /\ MappedFired' \ {j} = MappedFired \ {j} /\ MappedState[j] = "blocked"
    BY <1>1, <2>2, <2>3, TurnStep DEF ToFd
  <2>6. MappedFired' = MappedFired \cup {j}
    BY <2>4, <2>5
  <2>7. MappedState' = MappedState
    BY <2>5 DEF MappedState
  <2>8. Abstract!Fire(j)
    BY <2>4, <2>5, <2>6, <2>7 DEF Abstract!Fire, MappedState, MappedFired
  <2> QED
    BY <2>8 DEF MappedStep
<1>3. CASE ~\E j \in Jobs : Suspended(j) /\ IsWaiting(j) /\ ToFd(j) = f
  <2>1. UNCHANGED <<MappedState, MappedFired>>
    BY <1>1, <1>3, StutterStep DEF ToFd
  <2> QED
    BY <2>1 DEF MappedStep
<1> QED
  BY <1>2, <1>3

-----------------------------------------------------------------------------
(* Every step is a step of the scheduler, or none *)

LEMMA LoopStepMapped ==
  ASSUME SafeUsage, RInv, TypeOK',
         \/ Run \/ TakeDeferred \/ RunDeferred \/ Poll \/ EndBatch
         \/ \E f \in Fds : Dispatch(f)
  PROVE  MappedStep
<1>0. TypeOK
  BY DEF RInv, IInv
<1>1. CASE Run \/ TakeDeferred \/ Poll \/ EndBatch
  <2>1. UNCHANGED <<status, waiting, sock, ready>>
    BY <1>1 DEF Run, TakeDeferred, Poll, EndBatch, kernel
  <2>2. UNCHANGED <<MappedState, MappedFired>>
    BY <1>0, <2>1, StutterStep DEF ToFd
  <2> QED
    BY <2>2 DEF MappedStep
<1>2. CASE RunDeferred
  <2> DEFINE j == Head(todo)
  <2>1. /\ todo \in Seq(Jobs) /\ todo # <<>> /\ status[j] = "suspended" /\ Enter(j)
        /\ UNCHANGED <<waiting, ready, sock>>
    BY <1>0, <1>2 DEF RunDeferred, kernel, TypeOK, LoopTypeOK
  <2>2. j \in Jobs /\ ~IsWaiting(j)
    BY <2>1, TailAmong DEF RInv, TurnsInv, Queued
  <2> HIDE DEF j
  <2>3. Abstract!Wake(j)
    BY <1>0, <2>1, <2>2, MappedWake
  <2> QED
    BY <2>2, <2>3 DEF MappedStep
<1>3. ASSUME NEW f \in Fds, DispatchNone(f) \/ AcceptFails(f) PROVE MappedStep
  <2>1. UNCHANGED <<status, waiting, sock, ready>>
    BY <1>3 DEF DispatchNone, AcceptFails, kernel
  <2>2. UNCHANGED <<MappedState, MappedFired>>
    BY <1>0, <2>1, StutterStep DEF ToFd
  <2> QED
    BY <2>2 DEF MappedStep
<1>4. ASSUME NEW f \in Fds, DispatchConsole(f) PROVE MappedStep
  <2>1. loop = "alive" /\ ready' = ready \ {StdinFd} /\ UNCHANGED <<status, waiting, sock>>
    BY <1>4 DEF DispatchConsole, Take
  <2>2. owner[StdinFd] = Stdin /\ \A k \in Jobs : k # Stdin
    BY Constants DEF RInv, IInv, Safe, Ownership
  <2>3. \A k \in Jobs : Suspended(k) /\ IsWaiting(k) => ToFd(k) # StdinFd
    BY <2>1, <2>2, Behind
  <2>4. UNCHANGED <<MappedState, MappedFired>>
    BY <1>0, <2>1, <2>3, StutterStep DEF ToFd
  <2> QED
    BY <2>4 DEF MappedStep
<1>5. ASSUME NEW f \in Fds, DispatchJob(f) PROVE MappedStep
  <2> DEFINE j == fds[f]
  <2>1. /\ j \in Jobs /\ status[j] = "suspended" /\ Enter(j) /\ f \in batch
        /\ loop = "alive" /\ UNCHANGED <<waiting, ready, sock>>
    BY <1>5 DEF DispatchJob, Take, kernel
  <2>2. f \in interest /\ f \in ready
    BY <2>1 DEF RInv, Batched
  <2>3. owner[f] = j
    BY <2>1, <2>2, Behind
  <2>4. ToFd(j) \in ready
    BY <2>1, <2>2, <2>3, Behind
  <2> HIDE DEF j
  <2>5. Abstract!Wake(j)
    BY <1>0, <2>1, <2>4, MappedWake
  <2> QED
    BY <2>1, <2>5 DEF MappedStep
<1>6. ASSUME NEW f \in Fds, NEW j \in Clients, Accept(f, j) PROVE MappedStep
  <2>1. /\ j \in Jobs /\ status[j] = "new" /\ Enter(j) /\ waiting' = waiting
        /\ loop = "alive" /\ fds[f] = Listener /\ ready' \in {ready, ready \ {f}}
        /\ \A k \in Jobs \ {j} : sock'[k] = sock[k]
    BY <1>0, <1>6, Constants DEF Accept, Take, TypeOK, KernelTypeOK
  <2>2. \A k \in Jobs : Suspended(k) /\ IsWaiting(k) => ToFd(k) # f
    BY <2>1, Behind, Constants
  <2>3. Abstract!Start(j)
    BY <1>0, <2>1, <2>2, MappedStart DEF ToFd
  <2> QED
    BY <2>1, <2>3 DEF MappedStep
<1> QED
  BY <1>1, <1>2, <1>3, <1>4, <1>5, <1>6 DEF Dispatch

LEMMA SpawnMapped ==
  ASSUME RInv, TypeOK', NEW j \in Tasks, Spawn(j)
  PROVE  MappedStep
<1>1. /\ j \in Jobs /\ status[j] = "new" /\ Enter(j)
      /\ UNCHANGED <<waiting, ready, sock>> /\ TypeOK
  BY Constants DEF Spawn, kernel, RInv, IInv
<1>2. Abstract!Start(j)
  BY <1>1, MappedStart DEF ToFd
<1> QED
  BY <1>1, <1>2 DEF MappedStep

LEMMA EndTurnMapped ==
  ASSUME RInv, TypeOK', NEW j \in Jobs, EndTurn(j)
  PROVE  MappedStep
<1>1. /\ Running(j) /\ status[j] = "active" /\ TypeOK
      /\ UNCHANGED <<ready, sock>>
  <2>1. Running(j) /\ UNCHANGED <<ready, sock>>
    BY DEF EndTurn, YieldStream, YieldSocket, YieldTime, YieldTimeFails, Pause, Finish,
           JobRaises, kernel
  <2> QED
    BY <2>1, RunningTurns DEF RInv, IInv
<1>2. \A k \in Jobs \ {j} : waiting'[k] = waiting[k]
  BY <1>1 DEF EndTurn, YieldStream, YieldSocket, YieldTime, YieldTimeFails, Pause, Finish,
              JobRaises, Wait, TypeOK, JobTypeOK
<1>3. \E s \in {"suspended", "dead", "stranded"} : Leave(j, s)
  BY DEF EndTurn, YieldStream, YieldSocket, YieldTime, YieldTimeFails, Pause, Finish,
         JobRaises, Wait, Raise
<1> QED
  BY <1>1, <1>2, <1>3, MappedLeave

LEMMA ActMapped ==
  ASSUME SafeUsage, RInv, TypeOK', NEW j \in Jobs, Act(j)
  PROVE  MappedStep
<1>1. /\ loop = "alive" /\ current = j /\ TypeOK /\ sock \in [Jobs -> Fds]
      /\ UNCHANGED <<status, waiting>>
  BY DEF Act, Open, CloseStream, CloseSocket, Drain, Drop, Running, RInv, IInv, TypeOK,
         KernelTypeOK
<1>2. \A k \in Jobs : Suspended(k) /\ IsWaiting(k) => k # j /\ owner[ToFd(k)] = k
  BY <1>1, Behind
<1>3. \A k \in Jobs \ {j} : sock'[k] = sock[k]
  BY <1>1 DEF Act, Open, CloseStream, CloseSocket, Drain, Drop, SafeUsage
<1>4. \E f \in Fds : /\ ready' \in {ready, ready \ {f}}
                     /\ ready' # ready => owner[f] = j
  <2>1. \A f \in Reach(j) : owner[f] = j
    BY DEF Reach, StreamsOf, SafeUsage
  <2>2. sock[j] # 0 => owner[sock[j]] = j
    BY DEF RInv, IInv, Safe, Ownership
  <2>3. CASE Open(j)
    BY <2>3, Constants DEF Open
  <2>4. ASSUME NEW f \in Fds, CloseStream(j, f) \/ Drain(j, f) \/ Drop(j, f)
        PROVE  ready' \in {ready, ready \ {f}} /\ (ready' # ready => owner[f] = j)
    BY <2>1, <2>2, <2>4 DEF CloseStream, Drain, Drop, Close
  <2>5. ASSUME NEW k \in Clients, CloseSocket(j, k)
        PROVE  /\ sock[j] \in Fds /\ ready' \in {ready, ready \ {sock[j]}}
               /\ owner[sock[j]] = j
    BY <1>1, <2>2, <2>5 DEF CloseSocket, Close, SafeUsage
  <2> QED
    BY <2>3, <2>4, <2>5 DEF Act
<1>5. UNCHANGED <<MappedState, MappedFired>>
  <2>1. \A k \in Jobs : Suspended(k) /\ IsWaiting(k) =>
          ToFd(k)' = ToFd(k) /\ (ToFd(k) \in ready' <=> ToFd(k) \in ready)
    BY <1>1, <1>2, <1>3, <1>4 DEF ToFd
  <2> QED
    BY <1>1, <2>1, StutterStep
<1> QED
  BY <1>5 DEF MappedStep

LEMMA CollectMapped ==
  ASSUME SafeUsage, RInv, TypeOK', NEW f \in Fds, Collect(f)
  PROVE  MappedStep
<1>1. /\ loop = "alive" /\ f \in garbage /\ ready' = ready \ {f} /\ TypeOK
      /\ sock' = [k \in Jobs |-> IF sock[k] = f THEN 0 ELSE sock[k]]
      /\ UNCHANGED <<status, waiting>>
  BY DEF Collect, Close, RInv, IInv
<1>2. ASSUME NEW k \in Jobs, Suspended(k), IsWaiting(k)
      PROVE  ToFd(k)' = ToFd(k) /\ (ToFd(k) \in ready' <=> ToFd(k) \in ready)
  <2>1. ToFd(k) # f
    BY <1>1, <1>2, Behind
  <2> QED
    BY <1>1, <2>1 DEF ToFd
<1>3. UNCHANGED <<MappedState, MappedFired>>
  BY <1>1, <1>2, StutterStep
<1> QED
  BY <1>3 DEF MappedStep

LEMMA NextMapped ==
  ASSUME SafeUsage, RInv, TypeOK', [Next]_vars
  PROVE  [Abstract!Next]_(Abstract!vars)
<1>1. CASE UNCHANGED vars
  BY <1>1, StutterStep DEF vars, ToFd, RInv, IInv, Abstract!vars, MappedState,
     MappedFired
<1>2. CASE Next
  <2>1. MappedStep
    BY <1>2, LoopStepMapped, SpawnMapped, EndTurnMapped, ActMapped, CollectMapped,
       MappedArrive DEF Next
  <2> QED
    BY <2>1 DEF MappedStep, Abstract!Next, Abstract!vars, MappedState, MappedFired
<1> QED
  BY <1>1, <1>2

LEMMA InitMapped == Init => Abstract!Init
<1> SUFFICES ASSUME Init PROVE Abstract!Init
  OBVIOUS
<1>1. \A j \in Jobs : AbstractState(j) = "new"
  BY DEF Init, AbstractState
<1> QED
  BY <1>1 DEF Abstract!Init

\* In every process that keeps to SafeUsage the loop does what it promises its
\* coroutines, whatever numbers are closed and handed out again: a job that
\* yielded an object is resumed by an event of that object and by nothing else,
\* one that yielded nothing is resumed once for it, and no turn is lost or
\* taken by another (f_loop_run, wtk.c:247-280, and job_step, 484-509).
THEOREM SchedulerImplemented ==
  ASSUME SafeUsage
  PROVE  Spec => ImplementsScheduler
<1>1. Init => RInv
  BY InitTypeOK, InitSafe, InitTurns, InitBatched DEF RInv, IInv
<1>2. RInv /\ [Next]_vars => RInv'
  BY NextRInv
<1>3. RInv /\ RInv' /\ [Next]_vars => [Abstract!Next]_(Abstract!vars)
  BY NextMapped DEF RInv, IInv
<1> QED
  BY <1>1, <1>2, <1>3, InitMapped, PTL DEF Spec, ImplementsScheduler, Abstract!Spec
=============================================================================
