-------------------------------- MODULE Streams --------------------------------
(***************************************************************************)
(* wtk.Stream:read over a pipe that is read without blocking (src/wtk/     *)
(* wtk.c: f_stream_read, 69-108, and the embedded Lua of 527-591), as      *)
(* operators over the state of a stream.                                   *)
(*                                                                         *)
(* A stream is a record: pipe, what the kernel holds; buffer, the field of *)
(* that name; chunks, what the read in progress has collected.  The pieces *)
(* in them are "nl", a line feed, and "text".                              *)
(***************************************************************************)
EXTENDS Naturals, Sequences

Pieces == {"text", "nl"}
EmptyStream == [pipe |-> <<>>, buffer |-> <<>>, chunks |-> <<>>]

Least(a, b) == IF a < b THEN a ELSE b
First(s, n) == SubSeq(s, 1, Least(n, Len(s)))
After(s, n) == SubSeq(s, Least(n, Len(s)) + 1, Len(s))

\* A read of 'a' or 'l' starts with the buffer, which it does not empty.
FromBuffer(s) == s.chunks = <<>> /\ s.buffer # <<>>
NextChunk(s) == IF FromBuffer(s) THEN s.buffer ELSE s.pipe

\* What is left in the kernel once the chunk was taken.
PipeAfter(s) == IF FromBuffer(s) THEN s.pipe ELSE <<>>

HasLine(chunk) == \E i \in DOMAIN chunk : chunk[i] = "nl"
LineEnd(chunk) ==
  CHOOSE i \in DOMAIN chunk : chunk[i] = "nl" /\ \A k \in 1..(i - 1) : chunk[k] # "nl"

\* The chunk is added to those of the read, which goes on.
Collect(s) == [s EXCEPT !.pipe = PipeAfter(s), !.chunks = @ \o NextChunk(s)]

\* Mutant of LineRead: the rest of the chunk is not kept for the next read.
LineReadDropsRest(s) ==
  [s EXCEPT !.pipe = PipeAfter(s), !.chunks = <<>>, !.buffer = <<>>]

\* A line is complete: the buffer is replaced by what follows it in the chunk.
LineRead(s) ==
  [s EXCEPT !.pipe = PipeAfter(s), !.chunks = <<>>,
            !.buffer = After(NextChunk(s), LineEnd(NextChunk(s)))]

\* The end of the stream ends the read, and leaves the buffer as it was.
EndRead(s) == [s EXCEPT !.chunks = <<>>]

\* read(n), with at least one piece to be had: no more than what is missing is
\* taken from the kernel.
Available(s, n) == s.buffer \o First(s.pipe, IF n > Len(s.buffer) THEN n - Len(s.buffer) ELSE 0)
CountRead(s, n) ==
  [s EXCEPT !.buffer = After(Available(s, n), n),
            !.pipe = After(@, IF n > Len(s.buffer) THEN n - Len(s.buffer) ELSE 0)]
===============================================================================
