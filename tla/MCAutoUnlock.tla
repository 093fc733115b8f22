---------------------------- MODULE MCAutoUnlock ----------------------------
(***************************************************************************)
(* AutoUnlock for the safety run.  Processes are alike, and so are calls.  *)
(* Two threads of the service are at work at a time, on a workstation that *)
(* has a configuration, where each of them can reach the pipe.             *)
(***************************************************************************)
EXTENDS AutoUnlock, TLC

Symmetry == Permutations(Proc) \cup Permutations(Calls)

AtWork == {t \in Thread : thr[t].pc \notin {"none", "poll"}}

TwoAtWork == Cardinality(AtWork) <= 2

Reaches == ~server /\ config \in Users
=============================================================================
