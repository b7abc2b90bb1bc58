------------------------ MODULE EventLoopRefinement ------------------------
(***************************************************************************)
(* EventLoop implements JobScheduler in the processes that use the loop as *)
(* SafeUsage says; the fairness of JobScheduler too, in those that do not  *)
(* run out of descriptors.                                                 *)
(***************************************************************************)
EXTENDS EventLoop

\* A job is blocked on job.waiting, paused when it has none, and its event is
\* pending when its descriptor is ready.  A job whose job_step failed has had
\* its last turn.
AbstractState(j) ==
  CASE status[j] = "active" -> "running"
    [] status[j] = "suspended" /\ IsWaiting(j) -> "blocked"
    [] status[j] = "suspended" /\ ~IsWaiting(j) -> "paused"
    [] status[j] = "stranded" -> "dead"
    [] OTHER -> status[j]

Abstract == INSTANCE JobScheduler WITH
  state <- [j \in Jobs |-> AbstractState(j)],
  fired <- {j \in Jobs : AbstractState(j) = "blocked" /\ ToFd(j) \in ready}

\* Every step of the loop, of a job, of the collector or of the kernel is one
\* step of the scheduler or none: in particular a blocked job is resumed only
\* by its own event.
ImplementsScheduler == Abstract!Spec

\* Under the fairness of a cooperative program, no ready job is left behind.
ImplementsFairScheduler == Abstract!FairSpec
=============================================================================
