------------------------------- MODULE Promises -------------------------------
(***************************************************************************)
(* wtk.Promise, Promise.all, Loop:await and the promise every job of       *)
(* loop:job is (src/wtk/wtk.c, the embedded Lua of 592-657).  What the     *)
(* loop does for a coroutine is taken from JobScheduler: a job blocked in  *)
(* await is woken by the pipe of that await and by nothing else.           *)
(*                                                                         *)
(* Jobs are numbered in the order in which they are created.  Handlers     *)
(* that are left over from an await that has returned only write to the    *)
(* dead variables of that call, and are dropped.                           *)
(***************************************************************************)
EXTENDS Naturals, Sequences, FiniteSets, Positions

CONSTANTS
  N,           \* bound: how many jobs are created
  Width,       \* bound: promises one await is given
  Throws,      \* jobs whose promise gets a done handler that throws
  FailThrows,  \* jobs whose promise gets a fail handler that throws
  Cyclic       \* a job may await itself and jobs older than itself

Jobs == 1..N

\* Handlers of the program itself that raise an error.
DoneBoom == N + 1
FailBoom == N + 2

ASSUME SizeAssumption == N \in Nat /\ Width \in Nat \ {0}
ASSUME ThrowAssumption == Throws \subseteq Jobs /\ FailThrows \subseteq Jobs
ASSUME CyclicAssumption == Cyclic \in BOOLEAN

VARIABLES
  alive,     \* no error has escaped job_step
  status,    \* of a job's coroutine
  stack,     \* jobs resumed and not yet yielded, the running one first
  settled,   \* which of promise.resolved and promise.rejected are set
  handlers,  \* promise.doneh and failh: the awaiting jobs, one entry for each
             \* time the promise is in their list
  of,        \* what a job awaits: the list given to await
  total,     \* Promise.all's count of resolved promises
  outcome,   \* await's local: nil, or which handler of prom ran last
  signal     \* the pipe of the await can be read

vars == <<alive, status, stack, settled, handlers, of, total, outcome, signal>>

Started == {j \in Jobs : status[j] # "new"}
Running(j) == alive /\ stack # <<>> /\ Head(stack) = j

Init ==
  /\ alive = TRUE
  /\ status = [j \in Jobs |-> "new"]
  /\ stack = <<>>
  /\ settled = [j \in Jobs |-> {}]
  /\ handlers = [j \in Jobs |-> <<>>]
  /\ of = [j \in Jobs |-> <<>>]
  /\ total = [j \in Jobs |-> 0]
  /\ outcome = [j \in Jobs |-> "nil"]
  /\ signal = [j \in Jobs |-> FALSE]

-----------------------------------------------------------------------------
\* loop:job, by the main program or by the running job: the coroutine runs at
\* once.
Create(j) ==
  /\ alive /\ status[j] = "new" /\ \A i \in Jobs : i < j => status[i] # "new"
  /\ status' = [status EXCEPT ![j] = "active"]
  /\ stack' = <<j>> \o stack
  /\ UNCHANGED <<alive, settled, handlers, of, total, outcome, signal>>

\* job:done(f) or job:fail(f) with an f that throws, before the job ends.
AddThrowing(p) ==
  /\ alive /\ p \in Started /\ settled[p] = {}
  /\ \E h \in (IF p \in Throws THEN {DoneBoom} ELSE {})
              \cup (IF p \in FailThrows THEN {FailBoom} ELSE {}) :
       /\ \A i \in DOMAIN handlers[p] : handlers[p][i] # h
       /\ handlers' = [handlers EXCEPT ![p] = Append(@, h)]
  /\ UNCHANGED <<alive, status, stack, settled, of, total, outcome, signal>>

\* The running job yields without waiting for anything.
Pause(j) ==
  /\ Running(j)
  /\ status' = [status EXCEPT ![j] = "paused"]
  /\ stack' = Tail(stack)
  /\ UNCHANGED <<alive, settled, handlers, of, total, outcome, signal>>

Resolved(t) == {i \in DOMAIN t : "resolved" \in settled[t[i]]}
Rejected(t) == {i \in DOMAIN t : "rejected" \in settled[t[i]]}
Times(t, p) == Cardinality({i \in DOMAIN t : t[i] = p})

\* n more entries for j.
Entries(n, j) == [i \in 1..n |-> j]

\* Mutant of Enroll: the handlers are only kept for later, as if a promise in
\* the list could not have settled already.
EnrollMissesSettled(j, t) ==
  /\ of' = [of EXCEPT ![j] = t]
  /\ total' = [total EXCEPT ![j] = 0]
  /\ outcome' = [outcome EXCEPT ![j] = "nil"]
  /\ signal' = [signal EXCEPT ![j] = FALSE]

\* Promise.all and the three handlers of await: promises that have settled
\* count, or reject, at once, and the fail handler is the later one.
Enroll(j, t) ==
  /\ of' = [of EXCEPT ![j] = t]
  /\ total' = [total EXCEPT ![j] = Cardinality(Resolved(t))]
  /\ outcome' = [outcome EXCEPT ![j] =
       IF Rejected(t) # {} THEN "error"
       ELSE IF Resolved(t) = DOMAIN t THEN "results" ELSE "nil"]
  /\ signal' = [signal EXCEPT ![j] = outcome'[j] # "nil"]

\* await(t): only a job whose await is still undecided yields.
Await(j, t) ==
  /\ Running(j)
  /\ Enroll(j, t)
  /\ IF outcome'[j] = "nil"
     THEN /\ status' = [status EXCEPT ![j] = "blocked"]
          /\ stack' = Tail(stack)
          /\ handlers' = [p \in Jobs |-> handlers[p] \o Entries(Times(t, p), j)]
     ELSE UNCHANGED <<status, stack, handlers>>
  /\ UNCHANGED <<alive, settled>>

Without(q, j) == At(q, {i \in DOMAIN q : q[i] # j})

\* The loop resumes a job that can run; one that was blocked returns from await
\* with its results, or with an error.
Wake(j) ==
  /\ alive /\ stack = <<>>
  /\ status[j] = "paused" \/ (status[j] = "blocked" /\ signal[j])
  /\ status' = [status EXCEPT ![j] = "active"]
  /\ stack' = <<j>>
  /\ handlers' = [p \in Jobs |-> Without(handlers[p], j)]
  /\ UNCHANGED <<alive, settled, of, total, outcome, signal>>

-----------------------------------------------------------------------------
\* The entries of q before the first that is h: the handlers that run.
Before(q, h) == {i \in DOMAIN q : \A k \in 1..i : q[k] # h}
Counts(q, h, j) == Cardinality({i \in Before(q, h) : q[i] = j})
Has(q, h) == \E i \in DOMAIN q : q[i] = h

\* Those whose Promise.all has its last result when p's done handlers run.
Completed(p) == {j \in Jobs : LET n == Counts(handlers[p], DoneBoom, j) IN
  /\ n > 0 /\ total[j] < Len(of[j]) /\ total[j] + n >= Len(of[j])}

\* A fail handler of j that throws: the rest is skipped, and the error escapes
\* from try, from the coroutine and from job_step, to the job that created j
\* or, from the loop's own call, to the end of the process.
Escapes(j) == Has(handlers[j], FailBoom) /\ Len(stack) = 1

\* Those whose prom is rejected when p's fail handlers run.
Failed(p) == {j \in Jobs : Counts(handlers[p], FailBoom, j) > 0}

\* Mutant of Return: the loop keeps a job whose function has returned.
ReturnKeepsJob(j) == /\ status' = [status EXCEPT ![j] = "paused"]
                     /\ stack' = Tail(stack)

\* The coroutine ends.
Return(j) == /\ status' = [status EXCEPT ![j] = "dead"]
             /\ stack' = Tail(stack)

\* Mutant of Resolve: Promise.all does not wait for the last promise.
ResolveTooEarly(j) ==
  /\ Running(j) /\ Return(j)
  /\ settled' = [settled EXCEPT ![j] = {"resolved"}]
  /\ total' = [a \in Jobs |-> total[a] + Counts(handlers[j], DoneBoom, a)]
  /\ LET done == {a \in Jobs : Counts(handlers[j], DoneBoom, a) > 0}
     IN /\ outcome' = [a \in Jobs |-> IF a \in done THEN "results" ELSE outcome[a]]
        /\ signal' = [a \in Jobs |-> signal[a] \/ a \in done]
  /\ UNCHANGED <<alive, handlers, of>>

\* job:resolve in loop:job's try: the done handlers run in order, and a failing
\* one skips the rest and makes try call job:reject as well.
Resolve(j) ==
  /\ Running(j) /\ Return(j)
  /\ total' = [a \in Jobs |-> total[a] + Counts(handlers[j], DoneBoom, a)]
  /\ LET throws == Has(handlers[j], DoneBoom)
         failed == IF throws THEN Failed(j) ELSE {}
     IN /\ settled' = [settled EXCEPT ![j] =
             {"resolved"} \cup (IF throws THEN {"rejected"} ELSE {})]
        /\ outcome' = [a \in Jobs |-> IF a \in failed THEN "error"
                                      ELSE IF a \in Completed(j) THEN "results"
                                      ELSE outcome[a]]
        /\ signal' = [a \in Jobs |-> signal[a] \/ a \in failed \cup Completed(j)]
        /\ alive' = ~(throws /\ Escapes(j))
  /\ UNCHANGED <<handlers, of>>

\* Mutant of Reject: await's signal is written by the done handler only.
RejectSilently(j) ==
  /\ Running(j) /\ Return(j)
  /\ settled' = [settled EXCEPT ![j] = {"rejected"}]
  /\ outcome' = [a \in Jobs |-> IF a \in Failed(j) THEN "error" ELSE outcome[a]]
  /\ alive' = ~Escapes(j)
  /\ UNCHANGED <<handlers, of, total, signal>>

\* The job's function raises an error (its own, or one of await): job:reject.
Reject(j) ==
  /\ Running(j) /\ Return(j)
  /\ settled' = [settled EXCEPT ![j] = {"rejected"}]
  /\ outcome' = [a \in Jobs |-> IF a \in Failed(j) THEN "error" ELSE outcome[a]]
  /\ signal' = [a \in Jobs |-> signal[a] \/ a \in Failed(j)]
  /\ alive' = ~Escapes(j)
  /\ UNCHANGED <<handlers, of, total>>

-----------------------------------------------------------------------------
\* What a job may await.
Awaitable(j) == {p \in Started : Cyclic \/ p > j}
Lists(j) == UNION {[1..n -> Awaitable(j)] : n \in 1..Width}

EndTurn(j) == \/ Pause(j)
              \/ Resolve(j)
              \/ Reject(j)
              \/ \E t \in Lists(j) : Await(j, t)

Next == \E j \in Jobs : Create(j) \/ AddThrowing(j) \/ Wake(j) \/ EndTurn(j)

Spec == Init /\ [][Next]_vars

\* The loop resumes every job that can run (JobScheduler), and jobs end: they
\* do not yield, nor await one thing after the other, for ever.
Fairness == \A j \in Jobs : /\ WF_vars(Wake(j))
                            /\ WF_vars(EndTurn(j))
                            /\ SF_vars(Resolve(j) \/ Reject(j))
FairSpec == Spec /\ Fairness

-----------------------------------------------------------------------------
TypeOK ==
  /\ alive \in BOOLEAN
  /\ status \in [Jobs -> {"new", "active", "paused", "blocked", "dead"}]
  /\ stack \in Seq(Jobs)
  /\ settled \in [Jobs -> SUBSET {"resolved", "rejected"}]
  /\ handlers \in [Jobs -> Seq(1..(N + 2))]
  /\ of \in [Jobs -> Seq(Jobs)]
  /\ total \in [Jobs -> 0..Width]
  /\ outcome \in [Jobs -> {"nil", "results", "error"}]
  /\ signal \in [Jobs -> BOOLEAN]

\* An await never returns undecided, never returns results before every promise
\* of its list has resolved, and fails only when one of them was rejected, in
\* whatever order they settle and whether they did so before or after the call
\* (wtk.c:593-601, 612-625).
OutcomeRight ==
  \A j \in Jobs : LET t == of[j] IN
    /\ signal[j] => outcome[j] # "nil"
    /\ outcome[j] = "results" => Resolved(t) = DOMAIN t
    /\ outcome[j] = "error" => Rejected(t) # {}

\* No lost signal: when the promises of a blocked job have all resolved, or one
\* was rejected, its pipe has been written to.  A done handler before await's
\* own that throws does no harm, because the job is then rejected as well; a
\* fail handler that throws does (wtk.c:592, 606-611).
NeverForgotten ==
  \A j \in Jobs :
    LET t == of[j]
        Kept == {i \in DOMAIN t : ~Has(handlers[t[i]], FailBoom)}
    IN status[j] = "blocked"
       /\ (Resolved(t) \cap Kept = DOMAIN t \/ Rejected(t) \cap Kept # {})
         => signal[j]

\* j waits, through the jobs it awaits, for jobs that await each other.
Entangled(j) ==
  \E S \in SUBSET Jobs :
    j \in S /\ \A k \in S : status[k] = "blocked" /\ \E i \in DOMAIN of[k] : of[k][i] \in S

\* Every await returns, unless it waits for jobs that await each other, or for one
\* with a throwing fail handler, which takes the handlers after it along, and the
\* process with it when the loop had resumed that job (wtk.c:593-601, 611).
AwaitReturns ==
  \A j \in Jobs :
    []<>(\/ status[j] # "blocked" \/ ~alive \/ Entangled(j)
         \/ \E i \in DOMAIN of[j] : Has(handlers[of[j][i]], FailBoom))
=============================================================================
