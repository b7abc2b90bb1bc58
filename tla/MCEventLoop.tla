---------------------------- MODULE MCEventLoop ----------------------------
(* Small instances of EventLoop and of its refinement for TLC: the .cfg files *)
(* fix the jobs, the descriptor limit and the use that is made of the loop.   *)
EXTENDS EventLoopRefinement
=============================================================================
