------------------------------- MODULE Processes -------------------------------
(***************************************************************************)
(* Child processes: wtk.proc (src/wtk/proc.c) over streams (Streams) and   *)
(* pipes of bounded capacity.  The jobs of one parent start processes,     *)
(* feed them, join and terminate them and read what they write; the        *)
(* collector takes those the program has let go of.  Children and the      *)
(* parent run in parallel, one system call at a time; jobs only take turns *)
(* where they yield, and a job outside of every coroutine blocks the rest. *)
(*                                                                         *)
(* A process has an object, named like it, and a pid, which the kernel may *)
(* give to another process once a wait has reaped the first.               *)
(***************************************************************************)
EXTENDS Streams, FiniteSets

CONSTANTS
  Procs,        \* processes that are started
  Jobs,         \* of the parent
  Main,         \* those that may be the main program, and then cannot yield
  Nobody,       \* no job, no process
  Pids,         \* what the kernel numbers processes with
  Room,         \* pieces a pipe holds
  Input,        \* pieces that are written for a whole options.stdin
  Tasks         \* what the processes may be, a set of functions to Task

\* How a process is started, if it is, with which options.stdin (see Printed), what
\* its program is like (see Wants), what that writes, and which of ChildComplains,
\* ChildCrashes and HeirEnds can happen.
Task == [by : {"run", "new", "none"},
         stdin : {"nil", "text", "doubled", "directive", "false"},
         kind : {"filter", "talker", "deaf"}, says : Seq(Pieces),
         may : SUBSET {"complain", "crash", "leave"}]

ASSUME JobsAssumption == Main \subseteq Jobs /\ Nobody \notin Jobs \cup Procs
ASSUME SizesAssumption ==
  Room \in Nat \ {0} /\ Input \in Nat \ {0} /\ Pids \subseteq Nat \ {0}
ASSUME TaskAssumption == Tasks \subseteq [Procs -> Task]

VARIABLES
  task,     \* of a process
  main,     \* the jobs outside of every coroutine
  host,     \* the parent: "up", "killed" by SIGPIPE, or its loop "raised" an error
  running,  \* the job that has the processor, or Nobody
  pc,       \* of a job: where it is
  of,       \* of a job: the process it is at
  object,   \* of a process: "none", "live", or "gone" once it was collected
  state,    \* of a process: "none", "alive", "zombie", "reaped"
  pid,      \* of a process
  code,     \* what it ended with: "0", "1" or "signal"
  signals,  \* sent to it and not yet delivered
  eof,      \* processes that have seen the end of their stdin
  stdin,    \* pieces in that pipe, those read, and those the parent has yet to write
  holders,  \* who has the writing end of its stdin: Nobody is the parent
  out,      \* its stdout: the stream of the parent
  stderr,   \* "open" with nothing to read, "ready", or "shut" by options.stderr
  heir,     \* a process of its own that has its stdout and stderr
  said,     \* history: pieces written to stdout
  got,      \* history: pieces that reads of stdout have returned, before stale
  stale,    \* history: a read has ended with the stream, and a buffer
  struck,   \* history: signalled or reaped through the object of another
  status    \* of a job: what the join of proc.run answered

parent == <<running, pc, of>>
table == <<object, state, pid, code, signals>>
pipes == <<eof, stdin, holders, out, stderr, heir>>
history == <<said, got, stale, struck>>
given == <<task, main>>
vars == <<given, host, parent, table, pipes, history, status>>

Init ==
  /\ task \in Tasks /\ main \in {{}, Main}
  /\ host = "up" /\ running = Nobody
  /\ pc = [j \in Jobs |-> "idle"] /\ of = [j \in Jobs |-> Nobody]
  /\ object = [p \in Procs |-> "none"]
  /\ state = [p \in Procs |-> "none"] /\ pid = [p \in Procs |-> 0]
  /\ code = [p \in Procs |-> "0"] /\ signals = [p \in Procs |-> {}]
  /\ eof = {}
  /\ stdin = [p \in Procs |-> [pipe |-> 0, read |-> 0, left |-> 0]]
  /\ holders = [p \in Procs |-> {}] /\ out = [p \in Procs |-> EmptyStream]
  /\ stderr = [p \in Procs |-> "open"] /\ heir = [p \in Procs |-> FALSE]
  /\ said = [p \in Procs |-> <<>>] /\ got = [p \in Procs |-> <<>>]
  /\ stale = {} /\ struck = {}
  /\ status = [j \in Jobs |-> "none"]

Alive(p) == state[p] = "alive"
Unreaped(p) == state[p] \in {"alive", "zombie"}
Written(p) == Alive(p) \/ heir[p]      \* somebody has its stdout and stderr open

Reads == {"all", "line", "some", "result"}
Places == Reads \cup {"idle", "feed", "started", "join", "message", "term1", "term2",
                     "term3", "kill1", "kill3", "kill", "status"}

-----------------------------------------------------------------------------
(* Turns *)

\* What a suspended job waits for; a yield that names no descriptor is for the
\* next iteration of the loop.
Ready(j) ==
  LET p == of[j] IN
  CASE pc[j] = "feed" -> stdin[p].pipe < Room \/ ~Alive(p)
    [] pc[j] \in {"join", "message"} -> stderr[p] # "open" \/ ~Written(p)
    [] pc[j] \in Reads -> out[p].pipe # <<>> \/ ~Written(p)
    [] OTHER -> TRUE

Turn(j, place) == /\ host = "up" /\ pc[j] = place
                  /\ running = j \/ (running = Nobody /\ Ready(j))

\* The job goes on at place; its operation is over when that is "idle".
Goto(j, place) == /\ pc' = [pc EXCEPT ![j] = place]
                  /\ running' = IF place = "idle" THEN Nobody ELSE j
                  /\ UNCHANGED of

\* A call that would block: a coroutine yields, and makes the call again.
WouldBlock(j) == j \notin main /\ running' = Nobody /\ UNCHANGED <<pc, of>>

\* Another coroutine waits in join: epoll refuses a descriptor that it has.
Taken(j) == /\ stderr[of[j]] # "shut"
            /\ \E k \in Jobs \ (main \cup {j}) : of[k] = of[j] /\ pc[k] = "join"

\* The yield for stderr; the error of a refusal is that of the loop, and ends it.
WaitsForStderr(j) == /\ WouldBlock(j)
                     /\ host' = IF Taken(j) THEN "raised" ELSE host

-----------------------------------------------------------------------------
(* proc.new *)

\* fork: the child has copies of every descriptor of the parent, and keeps those
\* that write to the stdin of other processes.
Inherited(p) ==
  [q \in Procs |-> IF Nobody \in holders[q] THEN holders[q] \cup {p} ELSE holders[q]]

Fork(p) ==
  /\ object[p] = "none" /\ task[p].by # "none"
  /\ object' = [object EXCEPT ![p] = "live"]
  /\ state' = [state EXCEPT ![p] = "alive"]
  /\ \E n \in Pids : /\ \A q \in Procs : Unreaped(q) => pid[q] # n
                     /\ pid' = [pid EXCEPT ![p] = n]

\* options.stdin goes through string.format as its format: "%%" becomes a single
\* one, and any other directive raises for want of a value.
Printed(p) == CASE task[p].stdin = "text" -> Input
                [] task[p].stdin = "doubled" -> Input - 1
                [] OTHER -> 0
PrintRaises(p) == task[p].stdin \in {"directive", "false"}

\* Without options.stdin the parent keeps the pipe; with a text it is fed; false
\* closes it and is then printed to it, which raises as well.
New(j, p) ==
  /\ Turn(j, "idle") /\ Fork(p)
  /\ holders' = [Inherited(p) EXCEPT ![p] = IF task[p].stdin = "false" THEN {} ELSE {Nobody}]
  /\ stdin' = [stdin EXCEPT ![p].left = Printed(p)]
  /\ of' = [of EXCEPT ![j] = p]
  /\ pc' = [pc EXCEPT ![j] = CASE PrintRaises(p) -> "idle"
                               [] task[p].stdin = "nil" -> "started"
                               [] OTHER -> "feed"]
  /\ running' = IF PrintRaises(p) THEN Nobody ELSE j
  /\ status' = [status EXCEPT ![j] = "none"]
  /\ UNCHANGED <<given, host, eof, code, signals, out, stderr, heir, history>>

\* Mutant of Fed: a pipe that is full ends Stream:write.
FedOnce(j) ==
  LET p == of[j] IN
  \/ stdin[p].pipe = Room /\ stdin' = [stdin EXCEPT ![p].left = 0] /\ Goto(j, "feed")
  \/ \E n \in 1..stdin[p].left :
       /\ stdin[p].pipe + n <= Room
       /\ stdin' = [stdin EXCEPT ![p].pipe = @ + n, ![p].left = @ - n]
       /\ Goto(j, "feed")

\* Mutant of Fed: after a partial write the chunk is written again as a whole.
FedAgain(j) ==
  LET p == of[j] IN
  \/ stdin[p].pipe = Room /\ WouldBlock(j) /\ UNCHANGED stdin
  \/ \E n \in 1..stdin[p].left :
       /\ stdin[p].pipe + n <= Room
       /\ stdin' = [stdin EXCEPT ![p].pipe = @ + n, ![p].left = IF n = @ THEN 0 ELSE @]
       /\ Goto(j, "feed")

\* One write of Stream:write, which takes what there is room for.
Fed(j) ==
  LET p == of[j] IN
  \/ stdin[p].pipe = Room /\ WouldBlock(j) /\ UNCHANGED stdin
  \/ \E n \in 1..stdin[p].left :
       /\ stdin[p].pipe + n <= Room
       /\ stdin' = [stdin EXCEPT ![p].pipe = @ + n, ![p].left = @ - n]
       /\ Goto(j, "feed")

\* The child is gone.  EPIPE drops the rest, and its signal ends the parent, and its
\* ends of all pipes with it, unless the program has it ignored (as the HTTP client
\* does when it connects, or wtk.signal on request).
FeedBreaks(j) ==
  /\ Goto(j, "feed")
  /\ \/ stdin' = [stdin EXCEPT ![of[j]].left = 0] /\ UNCHANGED <<host, holders>>
     \/ /\ host' = "killed" /\ UNCHANGED stdin
        /\ holders' = [p \in Procs |-> holders[p] \ {Nobody}]

Feed(j) ==
  /\ Turn(j, "feed") /\ stdin[of[j]].left > 0
  /\ \/ Alive(of[j]) /\ Fed(j) /\ UNCHANGED <<host, holders>>
     \/ ~Alive(of[j]) /\ FeedBreaks(j)
  /\ UNCHANGED <<given, table, eof, out, stderr, heir, history, status>>

EndFeed(j) ==
  /\ Turn(j, "feed") /\ stdin[of[j]].left = 0
  /\ holders' = [holders EXCEPT ![of[j]] = @ \ {Nobody}]
  /\ Goto(j, "started")
  /\ UNCHANGED <<given, host, table, eof, stdin, out, stderr, heir, history, status>>

\* options.stderr = false closes the stream.  proc.run goes on with join.
Started(j) ==
  /\ Turn(j, "started")
  /\ \/ UNCHANGED stderr
     \/ stderr' = [stderr EXCEPT ![of[j]] = "shut"]
  /\ Goto(j, IF task[of[j]].by = "run" THEN "join" ELSE "idle")
  /\ UNCHANGED <<given, host, table, eof, stdin, holders, out, heir, history, status>>

-----------------------------------------------------------------------------
(* status, join, term and kill *)

\* The child that the pid of p names, if there is one.
Named(p) == {q \in Procs : Unreaped(q) /\ pid[q] = pid[p]}

\* status answers nil: there is a child, and it has not ended.
Undecided(j) == \E t \in Named(of[j]) : Alive(t)

\* Mutant of Decided: waitpid's 0 is taken for a status.
DecidedEarly(j) ==
  /\ state' = [q \in Procs |-> IF q \in Named(of[j]) /\ ~Alive(q) THEN "reaped" ELSE state[q]]
  /\ struck' = struck \cup (Named(of[j]) \ {of[j]})
  /\ UNCHANGED <<object, pid, code, signals>>

\* Mutant of Decided: an error of waitpid is taken for its 0.
DecidedByChild(j) ==
  /\ Named(of[j]) # {} /\ \A t \in Named(of[j]) : ~Alive(t)
  /\ state' = [q \in Procs |-> IF q \in Named(of[j]) THEN "reaped" ELSE state[q]]
  /\ struck' = struck \cup (Named(of[j]) \ {of[j]})
  /\ UNCHANGED <<object, pid, code, signals>>

\* status answers something else; a child that has ended is reaped.
Decided(j) ==
  /\ \A t \in Named(of[j]) : ~Alive(t)
  /\ state' = [q \in Procs |-> IF q \in Named(of[j]) THEN "reaped" ELSE state[q]]
  /\ struck' = struck \cup (Named(of[j]) \ {of[j]})
  /\ UNCHANGED <<object, pid, code, signals>>

\* Namely what the child ended with, 0 if that was a signal; when there is no
\* child to wait for, whatever was on the stack.
Answer(j, s) == \A t \in Named(of[j]) : s = IF code[t] = "signal" THEN "0" ELSE code[t]

\* A call of status, after which the job is at one of two places.
Status(j, undecided, decided) ==
  \/ Undecided(j) /\ Goto(j, undecided) /\ UNCHANGED <<table, struck>>
  \/ Decided(j) /\ Goto(j, decided)

\* join has returned.  proc.run reads stdout, or stderr to raise an error with it.
Joined(j) ==
  IF task[of[j]].by = "new" THEN Goto(j, "idle") /\ UNCHANGED status
  ELSE \E s \in {"0", "1"} :
         /\ Answer(j, s) /\ status' = [status EXCEPT ![j] = s]
         /\ Goto(j, IF s = "0" THEN "result" ELSE "message")

\* One round of join: status, and then a yield for stderr.  Outside of every
\* coroutine waitpid waits.
Join(j) ==
  /\ Turn(j, "join")
  /\ \/ Undecided(j) /\ WaitsForStderr(j) /\ UNCHANGED <<table, struck, status>>
     \/ Decided(j) /\ Joined(j) /\ UNCHANGED host
  /\ UNCHANGED <<given, pipes, said, got, stale>>

\* The three calls of status in term.
Term1(j) == Turn(j, "term1") /\ Status(j, "kill1", "term2")
            /\ UNCHANGED <<given, host, pipes, said, got, stale, status>>
Term3(j) == Turn(j, "term3") /\ Status(j, "kill3", "join")
            /\ UNCHANGED <<given, host, pipes, said, got, stale, status>>

\* The second is followed by a yield for the timeout, an error outside of every
\* coroutine.
Term2(j) ==
  /\ Turn(j, "term2")
  /\ \/ /\ Undecided(j) /\ UNCHANGED <<table, struck, of>>
        /\ pc' = [pc EXCEPT ![j] = IF j \in main THEN "idle" ELSE "term3"]
        /\ running' = Nobody
     \/ Decided(j) /\ Goto(j, "term3")
  /\ UNCHANGED <<given, host, pipes, said, got, stale, status>>

\* status, called by the program.
StatusOnly(j) == Turn(j, "status") /\ Status(j, "idle", "idle")
                 /\ UNCHANGED <<given, host, pipes, said, got, stale, status>>

\* kill, in term or called by the program.
Kill(j) ==
  /\ \/ Turn(j, "kill1") /\ Goto(j, "term2")
     \/ Turn(j, "kill3") /\ Goto(j, "join")
     \/ Turn(j, "kill") /\ Goto(j, "idle")
  /\ \E sig \in [kill1 |-> {"TERM"}, kill3 |-> {"KILL"}, kill |-> {"TERM", "KILL"}][pc[j]] :
       signals' = [q \in Procs |-> IF q \in Named(of[j]) /\ Alive(q)
                                   THEN signals[q] \cup {sig} ELSE signals[q]]
  /\ struck' = struck \cup (Named(of[j]) \ {of[j]})
  /\ UNCHANGED <<given, host, object, state, pid, code, pipes, said, got, stale, status>>

\* proc.new has returned it.
InHand(p) == /\ object[p] = "live" /\ task[p].by = "new" /\ ~PrintRaises(p)
             /\ \A k \in Jobs : of[k] = p => pc[k] \notin {"feed", "started"}

\* The program turns to a process it has kept; only one job at a time reads, and
\* only what writes something.
Turns(j, p, place) ==
  /\ Turn(j, "idle") /\ InHand(p)
  /\ place \in Reads =>
       task[p].says # <<>> /\ \A k \in Jobs : of[k] = p => pc[k] \notin Reads
  /\ of' = [of EXCEPT ![j] = p] /\ pc' = [pc EXCEPT ![j] = place] /\ running' = j
  /\ status' = [status EXCEPT ![j] = "none"]
  /\ UNCHANGED <<given, host, table, pipes, history>>

\* __gc, between two turns, of an object no job is at.
Collected(p) ==
  /\ host = "up" /\ running = Nobody
  /\ object[p] = "live" /\ \A j \in Jobs : of[j] = p => pc[j] = "idle"
  /\ object' = [object EXCEPT ![p] = "gone"]
  /\ state' = [q \in Procs |-> IF q \in Named(p) THEN "reaped" ELSE state[q]]
  /\ code' = [q \in Procs |-> IF q \in Named(p) /\ Alive(q) THEN "signal" ELSE code[q]]
  /\ signals' = [q \in Procs |-> IF q \in Named(p) THEN {} ELSE signals[q]]
  /\ holders' = [q \in Procs |-> (holders[q] \ Named(p)) \ (IF q = p THEN {Nobody} ELSE {})]
  /\ struck' = struck \cup (Named(p) \ {p})
  /\ UNCHANGED <<given, host, parent, pid, eof, stdin, out, stderr, heir,
                 said, got, stale, status>>

-----------------------------------------------------------------------------
(* Stream:read of stdout *)

\* Nothing to take, and the pipe has not ended.
Empty(j) == ~FromBuffer(out[of[j]]) /\ out[of[j]].pipe = <<>> /\ Written(of[j])
Ended(j) == ~FromBuffer(out[of[j]]) /\ out[of[j]].pipe = <<>> /\ ~Written(of[j])

Returns(j, s, pieces) ==
  /\ out' = [out EXCEPT ![of[j]] = s]
  /\ got' = [got EXCEPT ![of[j]] = IF of[j] \in stale THEN @ ELSE @ \o pieces]
  /\ Goto(j, "idle")

\* The pipe has what one __read asks for, at most n pieces: all of it if that blocks,
\* whatever there is otherwise.
Filled(j, n) ==
  \/ ~Written(of[j])
  \/ Len(out[of[j]].pipe) >= IF j \in main THEN Least(n, Room) ELSE 1

ReadWaits(j) == Empty(j) /\ WouldBlock(j) /\ UNCHANGED <<out, got, stale>>

\* 'a' and 'l': one chunk more.  One that is read while blocking is as long as it
\* can be (16 KiB, here what a pipe holds).
ReadChunk(j) ==
  LET s == out[of[j]]
      chunk == NextChunk(s)
  IN /\ chunk # <<>> /\ (FromBuffer(s) \/ Filled(j, Room))
     /\ IF pc[j] = "line" /\ HasLine(chunk)
        THEN Returns(j, LineRead(s), s.chunks \o First(chunk, LineEnd(chunk)))
        ELSE /\ out' = [out EXCEPT ![of[j]] = Collect(s)]
             /\ Goto(j, pc[j]) /\ UNCHANGED got
     /\ UNCHANGED stale

\* The end of the stream: the buffer stays as it was.
ReadEnds(j) ==
  /\ Ended(j)
  /\ stale' = IF out[of[j]].buffer # <<>> THEN stale \cup {of[j]} ELSE stale
  /\ Returns(j, EndRead(out[of[j]]), out[of[j]].chunks)

Read(j) ==
  /\ pc[j] \in {"all", "line", "result"} /\ Turn(j, pc[j])
  /\ ReadWaits(j) \/ ReadChunk(j) \/ ReadEnds(j)
  /\ UNCHANGED <<given, host, table, eof, stdin, holders, stderr, heir, said, struck, status>>

\* read(2), a number: unless the buffer has as much, it waits for something new, or
\* for the end.
ReadSome(j) ==
  /\ Turn(j, "some")
  /\ LET s == out[of[j]]
         lacks == Len(s.buffer) < 2
     IN \/ lacks /\ s.pipe = <<>> /\ Written(of[j]) /\ WouldBlock(j) /\ UNCHANGED <<out, got>>
        \/ /\ lacks => Filled(j, 2 - Len(s.buffer))
           /\ Returns(j, CountRead(s, 2), First(Available(s, 2), 2))
  /\ UNCHANGED <<given, host, table, eof, stdin, holders, stderr, heir, said, stale, struck, status>>

\* proc.run reads the whole of stderr and raises it.
Message(j) ==
  /\ Turn(j, "message")
  /\ \/ stderr[of[j]] = "ready" /\ Goto(j, "message") /\ stderr' = [stderr EXCEPT ![of[j]] = "open"]
     \/ stderr[of[j]] = "open" /\ Written(of[j]) /\ WouldBlock(j) /\ UNCHANGED stderr
     \/ (stderr[of[j]] = "shut" \/ (stderr[of[j]] = "open" /\ ~Written(of[j]))) /\ Goto(j, "idle")
        /\ UNCHANGED stderr
  /\ UNCHANGED <<given, host, table, eof, stdin, holders, out, heir, history, status>>
-----------------------------------------------------------------------------
(* Children *)

\* What the program of a child does next: a "filter" reads to the end before it
\* writes, a "talker" writes first, and a "deaf" one never reads.
Wants(p) ==
  LET unread == task[p].kind # "deaf" /\ p \notin eof
      unsaid == Len(said[p]) < Len(task[p].says)
  IN IF unread /\ (task[p].kind = "filter" \/ ~unsaid) THEN "read"
     ELSE IF unsaid THEN "write" ELSE "exit"

Ends(p, c) ==
  /\ state' = [state EXCEPT ![p] = "zombie"] /\ code' = [code EXCEPT ![p] = c]
  /\ signals' = [signals EXCEPT ![p] = {}]
  /\ holders' = [q \in Procs |-> holders[q] \ {p}]
  /\ UNCHANGED <<object, pid>>

ChildReads(p) ==
  /\ Alive(p) /\ Wants(p) = "read"
  /\ \/ /\ stdin[p].pipe > 0 /\ UNCHANGED eof
        /\ stdin' = [stdin EXCEPT ![p].pipe = @ - 1, ![p].read = @ + 1]
     \/ /\ stdin[p].pipe = 0 /\ holders[p] = {} /\ UNCHANGED stdin
        /\ eof' = eof \cup {p}
  /\ UNCHANGED <<given, host, parent, table, holders, out, stderr, heir, history, status>>

ChildWrites(p) ==
  /\ Alive(p) /\ Wants(p) = "write" /\ Len(out[p].pipe) < Room
  /\ LET x == task[p].says[Len(said[p]) + 1]
     IN /\ out' = [out EXCEPT ![p].pipe = Append(@, x)]
        /\ said' = [said EXCEPT ![p] = Append(@, x)]
  /\ UNCHANGED <<given, host, parent, table, eof, stdin, holders, stderr, heir, got, stale,
                 struck, status>>

\* To stderr; nobody reads what options.stderr = false has closed.
ChildComplains(p) ==
  /\ Alive(p) /\ "complain" \in task[p].may
  /\ \/ stderr[p] = "open" /\ stderr' = [stderr EXCEPT ![p] = "ready"] /\ UNCHANGED <<table, holders>>
     \/ stderr[p] = "shut" /\ Ends(p, "signal") /\ UNCHANGED stderr
  /\ UNCHANGED <<given, host, parent, eof, stdin, out, heir, history, status>>

\* It may leave a process of its own behind, with its stdout and its stderr.
ChildExits(p) ==
  /\ Alive(p) /\ Wants(p) = "exit"
  /\ \E c \in {"0", "1"} : Ends(p, c)
  /\ heir' \in {heir, [heir EXCEPT ![p] = "leave" \in task[p].may]}
  /\ UNCHANGED <<given, host, parent, eof, stdin, out, stderr, history, status>>

\* A signal of the parent, one of the child's own making, or SIGPIPE, when the parent
\* that reads what it writes is gone.
ChildCrashes(p) ==
  /\ Alive(p) /\ ("crash" \in task[p].may \/ signals[p] # {} \/ host = "killed")
  /\ Ends(p, "signal")
  /\ UNCHANGED <<given, host, parent, eof, stdin, out, stderr, heir, history, status>>

HeirEnds(p) ==
  /\ heir[p] /\ heir' = [heir EXCEPT ![p] = FALSE]
  /\ UNCHANGED <<given, host, parent, table, eof, stdin, holders, out, stderr, history, status>>

-----------------------------------------------------------------------------
Begin(j) == \E p \in Procs :
  \/ New(j, p)
  \/ \E place \in {"join", "term1", "kill", "status", "all", "line", "some"} : Turns(j, p, place)
Continue(j) == Feed(j) \/ EndFeed(j) \/ Started(j) \/ Join(j) \/ Term1(j) \/ Term2(j)
               \/ Term3(j) \/ StatusOnly(j) \/ Kill(j) \/ Read(j) \/ ReadSome(j) \/ Message(j)
Program(p) == ChildReads(p) \/ ChildWrites(p) \/ ChildExits(p)
Other(p) == Collected(p) \/ ChildComplains(p) \/ ChildCrashes(p) \/ HeirEnds(p)

Next == \/ \E j \in Jobs : Begin(j) \/ Continue(j)
        \/ \E p \in Procs : Program(p) \/ Other(p)
Spec == Init /\ [][Next]_vars

\* The loop resumes every job that is ready (JobScheduler); a child goes on with
\* its program, and SIGKILL arrives.
FairSpec ==
  /\ Spec
  /\ \A j \in Jobs : SF_vars(Continue(j))
  /\ \A p \in Procs : /\ WF_vars(Program(p))
                      /\ WF_vars("KILL" \in signals[p] /\ ChildCrashes(p))

-----------------------------------------------------------------------------
TypeOK ==
  /\ task \in Tasks /\ main \subseteq Jobs /\ host \in {"up", "killed", "raised"}
  /\ running \in Jobs \cup {Nobody}
  /\ pc \in [Jobs -> Places] /\ of \in [Jobs -> Procs \cup {Nobody}]
  /\ object \in [Procs -> {"none", "live", "gone"}]
  /\ state \in [Procs -> {"none", "alive", "zombie", "reaped"}]
  /\ pid \in [Procs -> Pids \cup {0}] /\ code \in [Procs -> {"0", "1", "signal"}]
  /\ signals \in [Procs -> SUBSET {"TERM", "KILL"}]
  /\ eof \subseteq Procs
  /\ stdin \in [Procs -> [pipe : 0..Room, read : 0..Input, left : 0..Input]]
  /\ holders \in [Procs -> SUBSET (Procs \cup {Nobody})]
  /\ \A p \in Procs : /\ DOMAIN out[p] = {"pipe", "buffer", "chunks"}
                      /\ {out[p].pipe, out[p].buffer, out[p].chunks, said[p], got[p]} \subseteq Seq(Pieces)
                      /\ Len(out[p].pipe) <= Room
  /\ stderr \in [Procs -> {"open", "ready", "shut"}] /\ heir \in [Procs -> BOOLEAN]
  /\ stale \subseteq Procs /\ struck \subseteq Procs
  /\ status \in [Jobs -> {"none", "0", "1"}]

\* Reads of numbers, of lines and of everything, in any order and with any yields
\* between, return what the child has written, each piece once and in order; until
\* a read meets the end of the stream with a buffer, which is then returned once
\* more (wtk.c:527-591).
ReadOnce ==
  \A p \in Procs \ stale :
    LET s == out[p] IN
    got[p] \o (IF s.chunks = <<>> THEN s.buffer ELSE s.chunks) \o s.pipe = said[p]

\* What proc.run returns is all that the child has written, and it returns it only
\* if the child did not fail, unless the collector has taken the child's pid for
\* that of a process reaped before.  A child ended by a signal has not failed
\* (proc.c:122, 173-176).
RunRight ==
  \A j \in Jobs : LET p == of[j] IN
    p \in Procs \ struck /\ task[p].by = "run" /\ pc[j] = "idle" =>
    /\ status[j] = "0" => code[p] \in {"0", "signal"} /\ got[p] = said[p]
    /\ status[j] = "1" => code[p] = "1"

\* A child that has seen the end of its stdin has read all that print has made of
\* options.stdin, whatever the pipe had room for; or all but what the parent had still
\* to write, if that was killed (wtk.c:510-525, proc.c:168).
InputWhole ==
  \A p \in eof : LET missing == Printed(p) - stdin[p].read IN
    missing = 0 \/ (host = "killed" /\ missing = stdin[p].left)

\* p cannot go on: nobody reads its stdout, or a process or the parent keeps its
\* stdin open; or its stdout and stderr outlive it.
Stuck(p) ==
  \/ heir[p]
  \/ Alive(p) /\ Wants(p) = "write" /\ Len(out[p].pipe) = Room
  \/ Alive(p) /\ Wants(p) = "read" /\ stdin[p].pipe = 0 /\ holders[p] # {}

\* Every call of run, join, term and read returns, unless the child it waits for is
\* stuck, or that of the main program which waits outside of every coroutine; or
\* SIGPIPE, or two coroutines that wait for the stderr of one process, end it all.
CallsReturn ==
  \A j \in Jobs :
    []<>(\/ pc[j] = "idle" \/ host = "killed"
         \/ host = "raised" /\ \E k \in Jobs \ main : Taken(k)
         \/ \E p \in Procs : Stuck(p) /\ \E k \in {j} \cup main : pc[k] # "idle" /\ pid[of[k]] = pid[p])
===============================================================================
