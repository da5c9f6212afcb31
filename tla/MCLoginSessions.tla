-------------------------- MODULE MCLoginSessions ---------------------------
(* LoginSessions for TLC.  There is an account name for every account and  *)
(* for every goroutine that may still refer to one that was deleted.       *)
EXTENDS LoginSessions
CONSTANTS p1, p2, s1, s2, i1, i2, i3, i4, u1, u2
=============================================================================
