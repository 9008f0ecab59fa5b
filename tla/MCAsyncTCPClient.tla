-------------------------- MODULE MCAsyncTCPClient --------------------------
(* Small instances of AsyncTCPClient for TLC. *)
EXTENDS AsyncTCPClient, TLC

ThreadSymmetry == Permutations(Users) \cup Permutations(Workers) \cup Permutations(Sessions)
=============================================================================
