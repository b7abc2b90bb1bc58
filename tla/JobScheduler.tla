---------------------------- MODULE JobScheduler ----------------------------
(***************************************************************************)
(* What wtk.loop promises to the coroutines it runs, without descriptors,  *)
(* epoll or callback tables: a job that yielded an object is woken by an   *)
(* event of that object and by nothing else, a job that yielded nothing    *)
(* runs again soon, and no job's turn is lost.                             *)
(***************************************************************************)
CONSTANT Jobs

VARIABLES
  state,  \* of each job
  fired   \* the jobs whose event is pending

vars == <<state, fired>>

Init == /\ state = [j \in Jobs |-> "new"]
        /\ fired = {}

Start(j) == /\ state[j] = "new"
            /\ state' = [state EXCEPT ![j] = "running"]
            /\ fired' = fired

\* j waits for an event, which may be pending already.
Block(j) == /\ state[j] = "running"
            /\ state' = [state EXCEPT ![j] = "blocked"]
            /\ fired' \in {fired, fired \cup {j}}

\* j gives up its turn.
Pause(j) == /\ state[j] = "running"
            /\ state' = [state EXCEPT ![j] = "paused"]
            /\ fired' = fired

\* The event j waits for happens, and stays pending.
Fire(j) == /\ state[j] = "blocked" /\ j \notin fired
           /\ fired' = fired \cup {j}
           /\ state' = state

Wake(j) == /\ state[j] = "paused" \/ (state[j] = "blocked" /\ j \in fired)
           /\ state' = [state EXCEPT ![j] = "running"]
           /\ fired' = fired \ {j}

Finish(j) == /\ state[j] = "running"
             /\ state' = [state EXCEPT ![j] = "dead"]
             /\ fired' = fired

Next == \E j \in Jobs :
  Start(j) \/ Block(j) \/ Pause(j) \/ Fire(j) \/ Wake(j) \/ Finish(j)

Spec == Init /\ [][Next]_vars

\* A job that can run is not left behind, and a turn ends.
Fairness == \A j \in Jobs : /\ WF_vars(Wake(j))
                            /\ WF_vars(Block(j) \/ Pause(j) \/ Finish(j))
FairSpec == Spec /\ Fairness
=============================================================================
