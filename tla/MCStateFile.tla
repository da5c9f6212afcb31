---------------------------- MODULE MCStateFile -----------------------------
(***************************************************************************)
(* StateFile under two choices of faults.  Calm: every call of writeRaw up *)
(* to the restore may fail.  Damaged: the restore and the reads may fail   *)
(* too, and the primary file is damaged from outside.  TLC explores one of *)
(* the two stores at a time, the other rests.                              *)
(***************************************************************************)
EXTENDS StateFile

CallsFail      == {"write", "remove", "stage", "replace"}
DamageAndCalls == {"damage", "write", "stage", "replace", "restore", "read"}

VARIABLES part, path2, bak2, tmp2, pc2, booting2, mem2, next2, keeps2, ahead2,
          durable2, healthy2

Damaged == INSTANCE StateFile WITH
  Faults <- DamageAndCalls, path <- path2, bak <- bak2, tmp <- tmp2,
  pc <- pc2, booting <- booting2, mem <- mem2, next <- next2,
  keeps <- keeps2, ahead <- ahead2,
  durable <- durable2, healthy <- healthy2

vars2   == <<path2, bak2, tmp2, pc2, booting2, mem2, next2, keeps2, ahead2, durable2,
             healthy2>>
allVars == <<vars, vars2, part>>

PartsInit ==
  \/ part = "calm" /\ Init /\ path2 = Absent /\ bak2 = Absent /\ Damaged!Init
  \/ part = "damaged" /\ path = Absent /\ bak = Absent /\ Init /\ Damaged!Init

PartsNext ==
  \/ part = "calm" /\ Next /\ UNCHANGED <<vars2, part>>
  \/ part = "damaged" /\ Damaged!Next /\ UNCHANGED <<vars, part>>

PartsSpec == PartsInit /\ [][PartsNext]_allVars

-----------------------------------------------------------------------------
(* No step of the damaged store turns acknowledged data into the fresh     *)
(* state of a first run, unless a rename back failed (NeverSilentlyReset), *)
(* and what Save acknowledges is what a restart loads (AckIsRead).         *)
DamageSurvived == [][Damaged!NeverSilentlyReset' /\ Damaged!AckIsRead]_vars2
=============================================================================
