------------------------ MODULE SettingsFilesProofs -------------------------
(***************************************************************************)
(* Theorems about SettingsFiles for any proxies, settings and faults.      *)
(***************************************************************************)
EXTENDS SettingsFiles, TLAPS

(* The files while writeConfigFile is at each of its steps.                *)
WriteInv ==
  /\ pc \in {"unlink", "stage", "replace"} => tmp = Content
  /\ pc = "stage" => hadMain /\ main # Absent
  /\ pc = "replace" => main = Absent /\ (hadMain => backup # Absent)
  /\ pc = "restore" => hadMain /\ main = Absent /\ backup # Absent
  /\ pc = "cleanup" => main = Content

(* A start that writes proxy.conf found neither the file nor its backup.   *)
StartInv ==
  why = "start" =>
    /\ pc \notin {"save", "stage", "restore"}
    /\ pc \notin {"off", "idle"} => Loaded = next
    /\ pc \in {"tmp", "unlink", "replace"} => main = Absent /\ backup = Absent
    /\ pc \in {"replace", "cleanup"} => ~hadMain

(* A request leaves the acknowledged proxy to be loaded until it replaces  *)
(* the file; its rollback begins with the requested proxy in the file.     *)
UpdateInv ==
  why = "update" =>
    /\ pc # "bootSave"
    /\ pc \in Writing \ {"cleanup"} /\ ~stranded => LoadedProxy = acked.proxy

RollbackInv ==
  why = "rollback" =>
    /\ pc \notin {"save", "bootSave", "publish"}
    /\ pc \in {"tmp", "unlink", "stage"} => main = next.proxy
    /\ pc \in {"replace", "restore"} => hadMain /\ backup = next.proxy

(* state.bin holds the acknowledged settings, or those that a start loads. *)
StateInv ==
  /\ state = acked \/ Loaded = next
  /\ Serving => mem = acked /\ cli = acked.proxy
  /\ Serving /\ pc # "publish" => state = acked
  /\ pc \in {"save", "bootSave", "publish"} => main = next.proxy
  /\ pc = "publish" => state = next
  /\ pc = "off" /\ ~stranded => LoadedProxy \in {acked.proxy, next.proxy}

IInv == TypeOK /\ WriteInv /\ StartInv /\ UpdateInv /\ RollbackInv /\ StateInv /\ RestartKeepsAcked

USE AbsentAssumption DEF Settings, Steps, Writing

LEMMA InitInvariant == Init => IInv
<1> SUFFICES ASSUME Init PROVE IInv
  OBVIOUS
<1>1. TypeOK
  BY DEF Init, TypeOK
<1>2. LoadedProxy = state.proxy
  BY DEF Init, LoadedProxy
<1>3. Loaded = state
  BY <1>1, <1>2 DEF Loaded, TypeOK
<1> QED
  BY <1>1, <1>2, <1>3 DEF Init, IInv, WriteInv, StartInv, UpdateInv, RollbackInv, StateInv, RestartKeepsAcked, Serving

(* What a start loads, field by field.                                     *)
LEMMA LoadedIs ==
  ASSUME TypeOK
  PROVE  /\ LoadedProxy \in Proxies
         /\ Loaded \in Settings /\ Loaded.proxy = LoadedProxy /\ Loaded.other = state.other
         /\ \A s \in Settings : Loaded = s <=> LoadedProxy = s.proxy /\ state.other = s.other
<1>1. LoadedProxy \in Proxies
  BY DEF TypeOK, LoadedProxy
<1>2. Loaded \in Settings /\ Loaded.proxy = LoadedProxy /\ Loaded.other = state.other
  BY <1>1 DEF TypeOK, Loaded
<1> QED BY <1>1, <1>2

-----------------------------------------------------------------------------
(* The steps of writeConfigFile.                                           *)
USE DEF IInv, TypeOK, WriteInv, StartInv, UpdateInv, RollbackInv, StateInv, Serving,
        LoadedProxy, Loaded, Content, Goto, RestartKeepsAcked, conf, local, WriteRefused, Written

LEMMA CallFailsInvariant == ASSUME IInv, CallFails PROVE IInv'
<1>1. TypeOK'
  BY DEF CallFails
<1>2. WriteInv'
  BY DEF CallFails
<1>3. StartInv'
  BY DEF CallFails
<1>4. UpdateInv'
  BY DEF CallFails
<1>5. RollbackInv'
  BY DEF CallFails
<1>6. StateInv'
  BY DEF CallFails
<1>7. RestartKeepsAcked'
  <2>1. pc' = "idle" => why # "start" /\ state = acked /\ acked \in Settings
    BY DEF CallFails
  <2>2. ASSUME pc' = "idle", ~stranded' PROVE LoadedProxy' = acked.proxy
    <3>1. why = "update" /\ ~stranded
      BY <2>1, <2>2 DEF CallFails
    <3>2. LoadedProxy = acked.proxy /\ state.proxy = acked.proxy
      BY <2>1, <2>2, <3>1 DEF CallFails
    <3>3. LoadedProxy' \in {LoadedProxy, state.proxy}
      BY DEF CallFails
    <3> QED BY <3>2, <3>3
  <2>3. TypeOK' /\ state' = state /\ acked' = acked
    BY <1>1 DEF CallFails
  <2> QED BY <2>1, <2>2, <2>3, LoadedIs
<1> QED BY <1>1, <1>2, <1>3, <1>4, <1>5, <1>6, <1>7

LEMMA UnlinkInvariant == ASSUME IInv, Unlink PROVE IInv'
<1>1. TypeOK'
  BY DEF Unlink
<1>2. WriteInv'
  BY DEF Unlink
<1>3. StartInv'
  BY DEF Unlink
<1>4. UpdateInv'
  <2>1. why = "update" => state = acked
    BY DEF Unlink
  <2>2. LoadedProxy' \in {LoadedProxy, state.proxy}
    BY DEF Unlink
  <2>3. why = "update" /\ ~stranded => LoadedProxy' = acked.proxy
    BY <2>1, <2>2 DEF Unlink
  <2> QED BY <2>3 DEF Unlink
<1>5. RollbackInv'
  BY DEF Unlink
<1>6. StateInv'
  BY DEF Unlink
<1>7. RestartKeepsAcked'
  BY DEF Unlink
<1> QED BY <1>1, <1>2, <1>3, <1>4, <1>5, <1>6, <1>7

LEMMA StageInvariant == ASSUME IInv, Stage PROVE IInv'
<1>1. TypeOK'
  BY DEF Stage
<1>2. WriteInv'
  BY DEF Stage
<1>3. StartInv'
  BY DEF Stage
<1>4. UpdateInv'
  <2>1. LoadedProxy' = LoadedProxy
    BY DEF Stage
  <2>2. why = "update" /\ ~stranded => LoadedProxy' = acked.proxy
    BY <2>1 DEF Stage
  <2> QED BY <2>2 DEF Stage
<1>5. RollbackInv'
  BY DEF Stage
<1>6. StateInv'
  BY DEF Stage
<1>7. RestartKeepsAcked'
  BY DEF Stage
<1> QED BY <1>1, <1>2, <1>3, <1>4, <1>5, <1>6, <1>7

LEMMA CleanupInvariant == ASSUME IInv, Cleanup PROVE IInv'
<1>1. TypeOK'
  BY DEF Cleanup
<1>2. WriteInv'
  BY DEF Cleanup
<1>3. StartInv'
  BY DEF Cleanup
<1>4. UpdateInv'
  BY DEF Cleanup
<1>5. RollbackInv'
  BY DEF Cleanup
<1>6. StateInv'
  BY DEF Cleanup
<1>7. RestartKeepsAcked'
  <2>1. pc' = "idle" => why = "rollback" /\ state = acked /\ mem = acked /\ acked \in Settings
    BY DEF Cleanup
  <2>2. pc' = "idle" => LoadedProxy' = acked.proxy
    BY <2>1 DEF Cleanup
  <2>3. TypeOK' /\ state' = state /\ acked' = acked
    BY <1>1 DEF Cleanup
  <2> QED BY <2>1, <2>2, <2>3, LoadedIs
<1> QED BY <1>1, <1>2, <1>3, <1>4, <1>5, <1>6, <1>7

(* The other steps of writeConfigFile.                                     *)
LEMMA WriteInvariant ==
  ASSUME IInv, WriteTmp \/ Replace \/ ReplaceFails \/ Restore
  PROVE  IInv'
<1>1. CASE WriteTmp
  BY <1>1 DEF WriteTmp
<1>2. CASE Replace
  BY <1>2 DEF Replace
<1>3. CASE ReplaceFails
  BY <1>3 DEF ReplaceFails
<1>4. CASE Restore
  BY <1>4 DEF Restore
<1> QED BY <1>1, <1>2, <1>3, <1>4

-----------------------------------------------------------------------------
LEMMA SaveInvariant == ASSUME IInv, Save PROVE IInv'
<1>1. TypeOK'
  BY DEF Save
<1>2. WriteInv'
  BY DEF Save
<1>3. StartInv'
  BY DEF Save
<1>4. UpdateInv'
  BY DEF Save
<1>5. RollbackInv'
  BY DEF Save
<1>6. StateInv'
  <2>1. TypeOK' /\ LoadedProxy' = next.proxy /\ state' = next /\ next \in Settings /\ next' = next
    BY <1>1 DEF Save
  <2>2. (Loaded = next)'
    BY <2>1, LoadedIs
  <2> QED BY <2>1, <2>2 DEF Save
<1>7. RestartKeepsAcked'
  BY DEF Save
<1> QED BY <1>1, <1>2, <1>3, <1>4, <1>5, <1>6, <1>7

LEMMA PublishInvariant == ASSUME IInv, Publish PROVE IInv'
<1>1. TypeOK'
  BY DEF Publish
<1>2. WriteInv'
  BY DEF Publish
<1>3. StartInv'
  BY DEF Publish
<1>4. UpdateInv'
  BY DEF Publish
<1>5. RollbackInv'
  BY DEF Publish
<1>6. StateInv'
  BY DEF Publish
<1>7. RestartKeepsAcked'
  <2>1. TypeOK' /\ LoadedProxy' = next.proxy /\ state' = next /\ acked' = next /\ next \in Settings
    BY <1>1 DEF Publish
  <2> QED BY <2>1, LoadedIs
<1> QED BY <1>1, <1>2, <1>3, <1>4, <1>5, <1>6, <1>7

LEMMA CrashInvariant == ASSUME IInv, Crash PROVE IInv'
<1>1. TypeOK'
  BY DEF Crash
<1>2. WriteInv'
  BY DEF Crash
<1>3. StartInv'
  BY DEF Crash
<1>4. UpdateInv'
  BY DEF Crash
<1>5. RollbackInv'
  BY DEF Crash
<1>6. StateInv'
  <2>1. LoadedProxy' = LoadedProxy /\ Loaded' = Loaded
    BY DEF Crash
  <2>2. (state = acked \/ Loaded = next)'
    BY <2>1 DEF Crash
  <2>3. ~stranded => LoadedProxy \in {acked.proxy, next.proxy}
    <3>1. CASE pc = "off"
      BY <3>1
    <3>2. CASE pc = "idle"
      BY <3>2, LoadedIs
    <3>3. CASE why = "start" /\ pc \notin {"off", "idle"}
      BY <3>3, LoadedIs
    <3>4. CASE why = "update" /\ pc \notin {"off", "idle"}
      BY <3>4
    <3>5. CASE why = "rollback" /\ pc \notin {"off", "idle"}
      BY <3>5
    <3> QED BY <3>1, <3>2, <3>3, <3>4, <3>5
  <2> QED BY <2>1, <2>2, <2>3 DEF Crash
<1>7. RestartKeepsAcked'
  BY DEF Crash
<1> QED BY <1>1, <1>2, <1>3, <1>4, <1>5, <1>6, <1>7

(* A request, a start, and the saves that fail.                            *)
LEMMA RequestInvariant ==
  ASSUME IInv, (\E s \in Settings : Request(s)) \/ SaveFails \/ Boot \/ BootFails
  PROVE  IInv'
<1>1. CASE (\E s \in Settings : Request(s))
  <2>1. PICK s \in Settings : Request(s)
    BY <1>1
  <2> QED BY <2>1 DEF Request
<1>2. CASE SaveFails
  BY <1>2 DEF SaveFails
<1>3. CASE Boot
  BY <1>3 DEF Boot
<1>4. CASE BootFails
  BY <1>4 DEF BootFails
<1> QED BY <1>1, <1>2, <1>3, <1>4

LEMMA StepInvariant == IInv /\ [Next]_vars => IInv'
<1> SUFFICES ASSUME IInv, [Next]_vars PROVE IInv'
  OBVIOUS
<1>1. CASE Next
  BY <1>1, CallFailsInvariant, UnlinkInvariant, StageInvariant, CleanupInvariant, WriteInvariant,
     SaveInvariant, PublishInvariant, CrashInvariant, RequestInvariant DEF Next
<1>2. CASE UNCHANGED vars
  BY <1>2 DEF vars
<1> QED BY <1>1, <1>2

HIDE DEF IInv, TypeOK, WriteInv, StartInv, UpdateInv, RollbackInv, StateInv, RestartKeepsAcked

THEOREM Invariance == Spec => []IInv
<1> QED BY InitInvariant, StepInvariant, PTL DEF Spec

(* Every variable keeps to its values; no write ever lacks its file.       *)
THEOREM TypeCorrect == Spec => []TypeOK
<1>1. IInv => TypeOK
  BY DEF IInv
<1> QED BY Invariance, <1>1, PTL

(* After any failures and crashes a restart between two requests comes up  *)
(* with the acknowledged settings (UpdateSettings, writeConfigFile, New).  *)
THEOREM AckedSettingsSurvive == Spec => []RestartKeepsAcked
<1>1. IInv => RestartKeepsAcked
  BY DEF IInv
<1> QED BY Invariance, <1>1, PTL

(* No interruption lets the rest of a request take effect without its      *)
(* proxy.                                                                  *)
THEOREM NoHalfNewSettings == Spec => []NeverHalfNew
<1>1. IInv => NeverHalfNew
  BY LoadedIs DEF NeverHalfNew, IInv, StateInv
<1> QED BY Invariance, <1>1, PTL

(* No interruption revives a proxy older than the acknowledged one.        *)
THEOREM NoProxyRevived == Spec => []NoOldProxy
<1>1. ASSUME IInv, ~stranded PROVE LoadedProxy \in {acked.proxy, next.proxy}
  <2>1. CASE pc = "off"
    BY <1>1, <2>1 DEF IInv, StateInv
  <2>2. CASE pc = "idle"
    BY <1>1, <2>2, LoadedIs DEF IInv, StateInv, StartInv, RestartKeepsAcked
  <2>3. CASE why = "start" /\ pc \notin {"off", "idle"}
    BY <1>1, <2>3, LoadedIs DEF IInv, StateInv, StartInv, RestartKeepsAcked
  <2>4. CASE why = "update" /\ pc \notin {"off", "idle"}
    BY <1>1, <2>4 DEF IInv, TypeOK, UpdateInv, WriteInv, StateInv
  <2>5. CASE why = "rollback" /\ pc \notin {"off", "idle"}
    BY <1>1, <2>5 DEF IInv, TypeOK, RollbackInv, WriteInv, StateInv
  <2> QED BY <1>1, <2>1, <2>2, <2>3, <2>4, <2>5 DEF IInv, TypeOK
<1>2. IInv => NoOldProxy
  BY <1>1 DEF NoOldProxy
<1> QED BY Invariance, <1>2, PTL

(* What a restart loads is old or new: the acknowledged settings, at most  *)
(* with the proxy of the last request, or the whole of that request.       *)
THEOREM OldOrNewSettings == Spec => []RestartOldOrNew
<1>1. NoOldProxy /\ NeverHalfNew => RestartOldOrNew
  BY DEF RestartOldOrNew
<1> QED BY NoProxyRevived, NoHalfNewSettings, <1>1, PTL

(* Readers and requests use the acknowledged settings at every moment.     *)
THEOREM OnlyAckedPublished == Spec => []Published
<1>1. IInv => Published
  BY DEF Published, IInv, StateInv
<1> QED BY Invariance, <1>1, PTL
=============================================================================
