---------------------------- MODULE MCCrashReports ----------------------------
(* Two threads of one process and one of another may panic. *)
EXTENDS CrashReports, TLC

CONSTANTS p1, p2, p3, one, two

ProcessOf(p) == IF p = p3 THEN two ELSE one
ThreadsOfOne == Permutations({p1, p2})
=============================================================================
