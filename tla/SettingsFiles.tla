--------------------------- MODULE SettingsFiles ----------------------------
(***************************************************************************)
(* internal/service New and UpdateSettings with internal/store config_io:  *)
(* the settings live in two files.  proxy.conf is what a start believes    *)
(* about the proxy, state.bin holds everything.  An update rewrites the    *)
(* first through a temporary file and a backup, then saves the second, and *)
(* puts the first back when that fails.  Each file-system call is a step;  *)
(* it may fail, and the process may be killed between any two.  The save   *)
(* of state.bin takes effect in one step: StateFile shows that it does.    *)
(* Service.mu is held throughout, so requests do not overlap.              *)
(***************************************************************************)
CONSTANTS Proxies, \* proxy URLs, "direct" among them in the code
          Others,  \* values of the rest of the settings
          Absent,  \* no such file
          Faults   \* what may fail: "call", "restore", "crash"

ASSUME AbsentAssumption == Absent \notin Proxies
ASSUME FaultsAssumption == Faults \subseteq {"call", "restore", "crash"}

VARIABLES main, backup, tmp, \* proxy.conf, proxy.conf.bak and proxy.conf.tmp
          state,    \* the settings that state.bin holds
          mem,      \* Service.state.Settings
          cli,      \* the proxy that Service.clientIntl goes through
          pc,       \* the next step, "off": no process, "idle": mu is free
          why,      \* what proxy.conf is written for
          next,     \* the settings of the request, or of the start
          hadMain,  \* writeConfigFile's hadOriginal
          acked,    \* history: the settings last acknowledged, or started with
          stranded  \* history: the rollback of proxy.conf failed

conf  == <<main, backup, tmp>>
local == <<why, next, hadMain>>
vars  == <<conf, state, mem, cli, pc, local, acked, stranded>>

Settings == [proxy: Proxies, other: Others]

Writing == {"tmp", "unlink", "stage", "replace", "restore", "cleanup"}
Steps == Writing \cup {"off", "idle", "save", "bootSave", "publish"}

TypeOK ==
  /\ main \in Proxies \cup {Absent}
  /\ backup \in Proxies \cup {Absent}
  /\ tmp \in Proxies \cup {Absent}
  /\ state \in Settings /\ mem \in Settings /\ next \in Settings /\ acked \in Settings
  /\ cli \in Proxies
  /\ pc \in Steps
  /\ why \in {"start", "update", "rollback"}
  /\ hadMain \in BOOLEAN /\ stranded \in BOOLEAN

(* A state file without a proxy.conf, as an older version left it.         *)
Init ==
  /\ main = Absent /\ backup = Absent /\ tmp = Absent
  /\ state \in Settings
  /\ mem = state /\ next = state /\ acked = state
  /\ cli = state.proxy
  /\ pc = "off"
  /\ why = "start"
  /\ hadMain = FALSE /\ stranded = FALSE

(* The proxy that LoadProxyConfWithPresence and New arrive at.             *)
LoadedProxy ==
  IF main # Absent THEN main ELSE IF backup # Absent THEN backup ELSE state.proxy

(* What a start at this moment would come up with.                         *)
Loaded == [state EXCEPT !.proxy = LoadedProxy]

(* What writeConfigFile writes.                                            *)
Content == IF why = "rollback" THEN mem.proxy ELSE next.proxy

Goto(step) == pc' = step

-----------------------------------------------------------------------------
(* The end of writeConfigFile.                                             *)
Written ==
  /\ CASE why = "start"    -> Goto("bootSave")
       [] why = "update"   -> Goto("save")
       [] why = "rollback" -> Goto("idle")
  /\ stranded' = (stranded /\ why # "rollback")

WriteRefused ==
  /\ Goto(IF why = "start" THEN "off" ELSE "idle")
  /\ stranded' = (stranded \/ why = "rollback")

WriteTmp ==
  /\ pc = "tmp"
  /\ tmp' = Content
  /\ Goto("unlink")
  /\ UNCHANGED <<main, backup, state, mem, cli, local, acked, stranded>>

(* A call failed: the temporary file is removed if it was written.         *)
CallFails ==
  /\ "call" \in Faults
  /\ pc \in {"tmp", "unlink", "stage"}
  /\ tmp' = IF pc = "tmp" THEN tmp ELSE Absent
  /\ backup' \in {backup} \cup (IF pc = "unlink" THEN {Absent} ELSE {})
  /\ WriteRefused
  /\ UNCHANGED <<main, state, mem, cli, local, acked>>

Unlink ==
  /\ pc = "unlink"
  /\ backup' = Absent
  /\ hadMain' = (main # Absent)
  /\ Goto(IF main # Absent THEN "stage" ELSE "replace")
  /\ UNCHANGED <<main, tmp, state, mem, cli, why, next, acked, stranded>>

Stage ==
  /\ pc = "stage"
  /\ backup' = main
  /\ main' = Absent
  /\ Goto("replace")
  /\ UNCHANGED <<tmp, state, mem, cli, local, acked, stranded>>

Replace ==
  /\ pc = "replace"
  /\ main' = tmp
  /\ tmp' = Absent
  /\ Goto("cleanup")
  /\ UNCHANGED <<backup, state, mem, cli, local, acked, stranded>>

ReplaceFails ==
  /\ "call" \in Faults
  /\ pc = "replace"
  /\ tmp' = Absent
  /\ IF hadMain THEN Goto("restore") /\ UNCHANGED stranded ELSE WriteRefused
  /\ UNCHANGED <<main, backup, state, mem, cli, local, acked>>

(* The error of this rename is not looked at.                              *)
Restore ==
  /\ pc = "restore"
  /\ \/ main' = backup /\ backup' = Absent
     \/ "restore" \in Faults /\ UNCHANGED <<main, backup>>
  /\ WriteRefused
  /\ UNCHANGED <<tmp, state, mem, cli, local, acked>>

(* Nor is the error of removing the backup.                                *)
Cleanup ==
  /\ pc = "cleanup"
  /\ \/ hadMain /\ backup' = Absent
     \/ (~hadMain \/ "call" \in Faults) /\ UNCHANGED backup
  /\ Written
  /\ UNCHANGED <<main, tmp, state, mem, cli, local, acked>>

-----------------------------------------------------------------------------
(* Mutated Request: state.bin is saved first, proxy.conf is not put before.*)
RequestSavesFirst(s) ==
  /\ pc = "idle"
  /\ next' = s
  /\ why' = "update"
  /\ state' = s
  /\ Goto("tmp")
  /\ UNCHANGED <<conf, mem, cli, hadMain, acked, stranded>>

(* UpdateSettings: a valid patch; proxy.conf is written first.             *)
Request(s) ==
  /\ pc = "idle"
  /\ next' = s
  /\ why' = "update"
  /\ Goto("tmp")
  /\ UNCHANGED <<conf, state, mem, cli, hadMain, acked, stranded>>

(* The new state.bin is in place: for an update, or at the end of New.      *)
Save ==
  /\ pc \in {"save", "bootSave"}
  /\ state' = next
  /\ Goto("publish")
  /\ UNCHANGED <<conf, mem, cli, local, acked, stranded>>

(* Only now do readers and requests see the settings and their proxy.      *)
Publish ==
  /\ pc = "publish"
  /\ mem' = next
  /\ cli' = next.proxy
  /\ acked' = next
  /\ stranded' = FALSE
  /\ Goto("idle")
  /\ UNCHANGED <<conf, state, local>>

(* Mutated SaveFails: proxy.conf keeps the proxy of the refused request.   *)
SaveFailsOnly ==
  /\ "call" \in Faults
  /\ pc = "save"
  /\ Goto("idle")
  /\ UNCHANGED <<conf, state, mem, cli, local, acked, stranded>>

(* The save failed: proxy.conf is put back.                                *)
SaveFails ==
  /\ "call" \in Faults
  /\ pc = "save"
  /\ why' = "rollback"
  /\ Goto("tmp")
  /\ UNCHANGED <<conf, state, mem, cli, next, hadMain, acked, stranded>>

-----------------------------------------------------------------------------
(* Mutated Boot: the backup that an interrupted write left is passed over. *)
BootIgnoresBackup ==
  /\ pc = "off"
  /\ why' = "start"
  /\ next' = [state EXCEPT !.proxy = IF main # Absent THEN main ELSE state.proxy]
  /\ Goto(IF main # Absent THEN "bootSave" ELSE "tmp")
  /\ UNCHANGED <<conf, state, mem, cli, hadMain, acked, stranded>>

(* New reads proxy.conf, brings its backup back if only that is there, and *)
(* falls back to state.bin, which it then writes to proxy.conf.            *)
Boot ==
  /\ pc = "off"
  /\ why' = "start"
  /\ next' = Loaded
  /\ IF main # Absent \/ backup # Absent
       THEN /\ main' = LoadedProxy
            /\ backup' = IF main # Absent THEN backup ELSE Absent
            /\ Goto("bootSave")
       ELSE Goto("tmp") /\ UNCHANGED <<main, backup>>
  /\ UNCHANGED <<tmp, state, mem, cli, hadMain, acked, stranded>>

(* The save of New failed: there is no service.                            *)
BootFails ==
  /\ "call" \in Faults
  /\ pc = "bootSave"
  /\ Goto("off")
  /\ UNCHANGED <<conf, state, mem, cli, local, acked, stranded>>

Crash ==
  /\ "crash" \in Faults
  /\ pc # "off"
  /\ Goto("off")
  /\ UNCHANGED <<conf, state, mem, cli, local, acked, stranded>>

Next ==
  \/ WriteTmp \/ Unlink \/ Stage \/ Replace \/ Restore \/ Cleanup
  \/ CallFails \/ ReplaceFails
  \/ \E s \in Settings : Request(s)
  \/ Save \/ SaveFails \/ Publish
  \/ Boot \/ BootFails \/ Crash

Spec == Init /\ [][Next]_vars

-----------------------------------------------------------------------------
(* Between requests a restart would come up with the settings that were    *)
(* last acknowledged, whatever failed on the way, unless the rollback of a *)
(* refused request failed too (UpdateSettings, New).                       *)
RestartKeepsAcked == pc = "idle" /\ ~stranded => Loaded = acked

(* Wherever a start or a request is interrupted, a restart comes up with   *)
(* the acknowledged or the last requested proxy, never with one that was   *)
(* in force before or that an earlier request was refused, ...             *)
NoOldProxy == ~stranded => LoadedProxy \in {acked.proxy, next.proxy}

(* ... and never with the rest of a request but without its proxy:         *)
(* proxy.conf is written before state.bin (UpdateSettings).                *)
NeverHalfNew == Loaded.other # acked.other => Loaded = next

(* Both together: what a restart loads is what was acknowledged, at most   *)
(* with the proxy of the last request, or the whole of that request.       *)
RestartOldOrNew == NoOldProxy /\ NeverHalfNew

(* The settings that readers see and the proxy that requests go through    *)
(* are those of the last acknowledged update, also while one is under way. *)
Serving == pc = "idle" \/ (pc # "off" /\ why # "start")
Published == Serving => mem = acked /\ cli = acked.proxy
=============================================================================
