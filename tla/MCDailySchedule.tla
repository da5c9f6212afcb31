-------------------------- MODULE MCDailySchedule ---------------------------
(* DailySchedule for TLC: every fault, on a short day of few slots.        *)
EXTENDS DailySchedule
AllFaults == {"save", "read", "crash"}
=============================================================================
