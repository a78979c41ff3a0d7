-------------------------- MODULE MCScanAdmission --------------------------
(* Instances of ScanAdmission for TLC. *)
EXTENDS ScanAdmission, TLC

\* One statement with two scans: they compete for one budget.
OneStatement == <<{"a", "b"}>>
\* A prepared statement executed twice: reservations of the first execution may
\* still be alive when the second starts.
PreparedTwice == <<{"a"}, {"a"}>>
TwoFilesEach == [s \in {"a", "b"} |-> 2]
TwoFiles == [s \in {"a"} |-> 2]
\* Threads are interchangeable (safety runs only).
ThreadSymmetry == Permutations(Threads)
=============================================================================
