----------------------- MODULE MCThreadedTaskExecutor -----------------------
(* Instance of ThreadedTaskExecutor for TLC.                               *)
EXTENDS ThreadedTaskExecutor, TLC

ThreadSymmetry == Permutations(Workers) \cup Permutations(Clients)
=============================================================================
