--------------------------- MODULE MCAccountTasks ---------------------------
(* AccountTasks for TLC: one account of either version, one handler or two,*)
(* and the scheduler s.                                                    *)
EXTENDS AccountTasks, TLC
CONSTANTS a1, h1, h2, s

Handlers == Permutations(Procs \ {Sched})
=============================================================================
