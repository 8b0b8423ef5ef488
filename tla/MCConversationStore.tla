------------------------ MODULE MCConversationStore ------------------------
(* Small instances of ConversationStore for TLC.                           *)
EXTENDS ConversationStore, TLC

(* Goroutines are interchangeable; used by the runs without liveness.      *)
Symmetry == Permutations(Procs)
=============================================================================
