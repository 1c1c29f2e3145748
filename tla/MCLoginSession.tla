--------------------------- MODULE MCLoginSession ---------------------------
(***************************************************************************)
(* Two tabs, one with two requests, up to two logins and two rotations.    *)
(***************************************************************************)
EXTENDS LoginSession, TLC

CONSTANTS a, b, q1, q2, qb
MCTabOf == [q \in Request |-> IF q = qb THEN b ELSE a]
Symmetry == Permutations({q1, q2})

\* The properties but TypeOK and NoOrphanWait speak of states that nothing
\* has disturbed, and none becomes undisturbed again: the others are expanded
\* only with one session, rotated once at most. A third exchange at a time is
\* tried with one session as well.
Calm == \/ ~disturbed /\ (logins = 1 \/ Exchanges <= 2)
        \/ logins = 1 /\ Issued <= 2 /\ Exchanges <= 2
=============================================================================
