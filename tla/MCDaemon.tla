------------------------------ MODULE MCDaemon ------------------------------
(* Launches and inodes are told apart by identity only.                    *)
EXTENDS Daemon, TLC

Symmetry == Permutations(Procs) \cup Permutations(Inodes)
=============================================================================
