---------------------------- MODULE HttpExchange ----------------------------
(***************************************************************************)
(* What an HTTP connection promises to the peer at its other end: the k-th *)
(* response answers the k-th request, no request is answered before it has *)
(* arrived, and none twice; and as long as the connection is open and the  *)
(* two sides agree on where requests begin, every one is answered.         *)
(***************************************************************************)
EXTENDS Naturals, Sequences

VARIABLES
  arrived,   \* how many requests have arrived
  answered,  \* the requests answered, in the order of their responses
  open,      \* the server has not closed the connection
  instep     \* both sides agree on where requests begin

evars == <<arrived, answered, open, instep>>

Init == arrived = 0 /\ answered = <<>> /\ open = TRUE /\ instep = TRUE

Arrive == /\ arrived' = arrived + 1
          /\ UNCHANGED <<answered, open, instep>>

Answer ==
  /\ open /\ instep /\ Len(answered) < arrived
  /\ answered' = Append(answered, Len(answered) + 1)
  /\ UNCHANGED <<arrived, open, instep>>

Close == /\ open /\ open' = FALSE
         /\ UNCHANGED <<arrived, answered, instep>>

FallOut == /\ instep /\ instep' = FALSE
           /\ UNCHANGED <<arrived, answered, open>>

\* Out of step, only the end of the connection still means something.
Guess == /\ open /\ ~instep
         /\ answered' \in Seq(Nat)
         /\ UNCHANGED <<arrived, open, instep>>

Next == Arrive \/ Answer \/ Close \/ FallOut \/ Guess
Safety == Init /\ [][Next]_evars
Spec == Safety /\ WF_evars(Answer)
=============================================================================
