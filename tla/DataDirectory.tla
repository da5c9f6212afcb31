--------------------------- MODULE DataDirectory ----------------------------
(***************************************************************************)
(* cmd/workbuddy-helper main with internal/store migrate and               *)
(* portable_cipher: programs that serve a data directory, import into it   *)
(* or export from it, the lock each takes on its -data-dir (InstanceLock,  *)
(* one step here), the key file that is made on the first save, and        *)
(* state.bin, which opens only with the key it was sealed under.           *)
(***************************************************************************)
EXTENDS FiniteSets, Naturals

CONSTANTS Programs,  \* processes of the program, each free to run again
          Dirs,      \* data directories
          Accounts,  \* accounts, known by version and UID
          Keys,      \* contents of a complete key.bin
          MaxKept    \* accounts that a directory may hold (50 in the code)

NoKey   == "no key"     \* key.bin does not exist
HalfKey == "half a key" \* key.bin exists and has not its 32 bytes
NoState == [key |-> NoKey, accounts |-> {}]   \* state.bin does not exist
Nobody  == "nobody"

ASSUME DirectoryAssumption ==
  /\ MaxKept \in Nat
  /\ Dirs # {}
  /\ {NoKey, HalfKey} \cap Keys = {}
  /\ Nobody \notin Programs

VARIABLES owner,    \* who holds the lock of each directory
          key,      \* key.bin of each directory
          stored,   \* state.bin: the key it is sealed under, its accounts
          prog,     \* what each program is doing
          raced,    \* history: directories written to behind their owner
          orphaned  \* history: directories whose key.bin was taken away
                    \* by a failed Close while another had read it

dirVars == <<owner, key, stored, prog, raced, orphaned>>

Commands == {"serve", "import", "export"}
Saving   == {"inspect", "create", "fill", "close", "write"}
Stages   == Saving \cup {"out", "load", "serve", "done"}
States   == [key : Keys, accounts : SUBSET Accounts] \cup {NoState}

Out == [step |-> "out", cmd |-> "serve", home |-> CHOOSE d \in Dirs : TRUE,
        other |-> CHOOSE d \in Dirs : TRUE, up |-> FALSE, left |-> FALSE,
        known |-> {}, data |-> {}, key |-> NoKey]

ProgramStates ==
  [step : Stages, cmd : Commands, home : Dirs, other : Dirs,
   up : BOOLEAN,             \* New has succeeded
   left : BOOLEAN,           \* main has closed the lock
   known : SUBSET Accounts,  \* what it last saw in its directory
   data : SUBSET Accounts,   \* what it is about to save
   key : Keys \cup {NoKey}]  \* what it seals with

DirTypeOK ==
  /\ owner \in [Dirs -> Programs \cup {Nobody}]
  /\ key \in [Dirs -> Keys \cup {NoKey, HalfKey}]
  /\ stored \in [Dirs -> States]
  /\ prog \in [Programs -> ProgramStates]
  /\ raced \subseteq Dirs
  /\ orphaned \subseteq Dirs

(* decodeState with the key.bin beside the file; no file is a fresh start. *)
Opens(d) == stored[d] # NoState /\ stored[d].key = key[d]
Readable(d) == stored[d] = NoState \/ Opens(d)
Kept(d) == stored[d].accounts

(* Directories of earlier runs, also such whose key.bin was lost or taken  *)
(* from elsewhere.                                                         *)
DirInit ==
  /\ owner = [d \in Dirs |-> Nobody]
  /\ key \in [Dirs -> Keys \cup {NoKey}]
  /\ stored \in [Dirs -> {s \in States : Cardinality(s.accounts) <= MaxKept}]
  /\ prog = [p \in Programs |-> Out]
  /\ raced = {}
  /\ orphaned = {}

-----------------------------------------------------------------------------
(* The directory a program writes to; an export does not lock it.          *)
Target(p) == IF prog[p].cmd = "export" THEN prog[p].other ELSE prog[p].home

Becomes(p, r) == prog' = [prog EXCEPT ![p] = r]

(* The process is over: the system gives its lock back.                    *)
Ends(p) ==
  /\ prog' = [prog EXCEPT ![p] = Out]
  /\ owner' = [d \in Dirs |-> IF owner[d] = p THEN Nobody ELSE owner[d]]

(* Mutated Start: an import relies on the lock of a running helper.        *)
StartImportUnlocked(p, c, d, e) ==
  /\ prog[p].step = "out"
  /\ c = "serve" => e = d
  /\ c # "import" => owner[d] = Nobody
  /\ owner' = IF c = "import" THEN owner ELSE [owner EXCEPT ![d] = p]
  /\ Becomes(p, [prog[p] EXCEPT !.step = "load", !.cmd = c, !.home = d, !.other = e])
  /\ UNCHANGED <<key, stored, raced, orphaned>>

(* main up to the lock of -data-dir; a directory in use ends it at once.   *)
(* The second directory is that of --import or --export-portable.          *)
Start(p, c, d, e) ==
  /\ prog[p].step = "out"
  /\ c = "serve" => e = d
  /\ owner[d] = Nobody
  /\ owner' = [owner EXCEPT ![d] = p]
  /\ Becomes(p, [prog[p] EXCEPT !.step = "load", !.cmd = c, !.home = d, !.other = e])
  /\ UNCHANGED <<key, stored, raced, orphaned>>

(* Mutated Load: a state that does not open is taken for a fresh start.    *)
LoadRegardless(p) ==
  LET r == prog[p] IN
  /\ r.step = "load" /\ r.cmd = "serve"
  /\ Becomes(p, [r EXCEPT !.step = "inspect", !.known = Kept(r.home),
                          !.data = IF Readable(r.home) THEN Kept(r.home) ELSE {}])
  /\ raced' = raced \ {r.home}
  /\ UNCHANGED <<owner, key, stored, orphaned>>

(* service.New: Load, then Save of what was loaded.                        *)
Load(p) ==
  LET r == prog[p] IN
  /\ r.step = "load" /\ r.cmd = "serve"
  /\ Readable(r.home)
  /\ Becomes(p, [r EXCEPT !.step = "inspect", !.known = Kept(r.home), !.data = Kept(r.home)])
  /\ raced' = raced \ {r.home}
  /\ UNCHANGED <<owner, key, stored, orphaned>>

(* ImportInto: the accounts the directory does not have yet are added, if  *)
(* there are any and the limit allows it.                                  *)
Import(p) ==
  LET r == prog[p]
      all == Kept(r.home) \cup Kept(r.other) IN
  /\ r.step = "load" /\ r.cmd = "import"
  /\ Opens(r.other)
  /\ Readable(r.home)
  /\ all # Kept(r.home)
  /\ Cardinality(all) <= MaxKept
  /\ Becomes(p, [r EXCEPT !.step = "inspect", !.known = Kept(r.home), !.data = all])
  /\ raced' = raced \ {r.home}
  /\ UNCHANGED <<owner, key, stored, orphaned>>

(* ExportPortableFrom: the source is read, the destination must differ.    *)
Export(p) ==
  LET r == prog[p] IN
  /\ r.step = "load" /\ r.cmd = "export"
  /\ r.other # r.home
  /\ Opens(r.home)
  /\ Becomes(p, [r EXCEPT !.step = "inspect", !.data = Kept(r.home)])
  /\ UNCHANGED <<owner, key, stored, raced, orphaned>>

(* Something of it cannot be read, is refused, or there is nothing to do.  *)
LoadRefused(p) ==
  /\ prog[p].step = "load"
  /\ Ends(p)
  /\ UNCHANGED <<key, stored, raced, orphaned>>

(* A mutation of a running helper: an account comes or goes.               *)
Mutate(p) ==
  LET r == prog[p] IN
  /\ r.step = "serve"
  /\ \E a \in Accounts :
       LET now == IF a \in r.known THEN r.known \ {a} ELSE r.known \cup {a} IN
       /\ Cardinality(now) <= MaxKept
       /\ Becomes(p, [r EXCEPT !.step = "inspect", !.data = now])
  /\ UNCHANGED <<owner, key, stored, raced, orphaned>>

-----------------------------------------------------------------------------
(* A save that fails is rolled back by a running helper and ends any other *)
(* program.                                                                *)
GivesUp(p) ==
  IF prog[p].up
    THEN /\ Becomes(p, [prog[p] EXCEPT !.step = "serve", !.data = prog[p].known, !.key = NoKey])
         /\ UNCHANGED owner
    ELSE Ends(p)

(* loadOrCreateKey looks for key.bin and reads it.                         *)
Inspect(p) ==
  LET k == key[Target(p)] IN
  /\ prog[p].step = "inspect"
  /\ k # HalfKey
  /\ IF k = NoKey
       THEN Becomes(p, [prog[p] EXCEPT !.step = "create"])
       ELSE Becomes(p, [prog[p] EXCEPT !.step = "write", !.key = k])
  /\ UNCHANGED <<owner, key, stored, raced, orphaned>>

Fresh(k) ==
  /\ \A d \in Dirs : key[d] # k /\ stored[d].key # k
  /\ \A p \in Programs : prog[p].key # k

(* Mutated Create: the file is created without O_EXCL.                     *)
CreateAnyway(p) ==
  /\ prog[p].step = "create"
  /\ key' = [key EXCEPT ![Target(p)] = HalfKey]
  /\ \E k \in Keys : Fresh(k) /\ Becomes(p, [prog[p] EXCEPT !.step = "fill", !.key = k])
  /\ UNCHANGED <<owner, stored, raced, orphaned>>

(* A random key and OpenFile with O_EXCL: a file that somebody created     *)
(* meanwhile is read instead.                                              *)
Create(p) ==
  LET d == Target(p) IN
  /\ prog[p].step = "create"
  /\ key[d] # HalfKey
  /\ IF key[d] = NoKey
       THEN /\ key' = [key EXCEPT ![d] = HalfKey]
            /\ \E k \in Keys :
                 Fresh(k) /\ Becomes(p, [prog[p] EXCEPT !.step = "fill", !.key = k])
       ELSE /\ Becomes(p, [prog[p] EXCEPT !.step = "write", !.key = key[d]])
            /\ UNCHANGED key
  /\ UNCHANGED <<owner, stored, raced, orphaned>>

Fill(p) ==
  /\ prog[p].step = "fill"
  /\ key' = [key EXCEPT ![Target(p)] = prog[p].key]
  /\ Becomes(p, [prog[p] EXCEPT !.step = "close"])
  /\ UNCHANGED <<owner, stored, raced, orphaned>>

CloseKey(p) ==
  /\ prog[p].step = "close"
  /\ Becomes(p, [prog[p] EXCEPT !.step = "write"])
  /\ UNCHANGED <<owner, key, stored, raced, orphaned>>

(* The write or the close of a new key.bin failed: it is removed again,    *)
(* although another program may have read it since it was complete.        *)
KeyFails(p) ==
  LET d == Target(p)
      readers == {q \in Programs \ {p} : Target(q) = d /\ prog[q].key = prog[p].key} IN
  /\ prog[p].step \in {"fill", "close"}
  /\ key' = [key EXCEPT ![d] = NoKey]
  /\ orphaned' = IF readers # {} \/ stored[d].key = prog[p].key
                   THEN orphaned \cup {d} ELSE orphaned
  /\ GivesUp(p)
  /\ UNCHANGED <<stored, raced>>

(* Half a key.bin, or a call of the save that fails.                       *)
SaveRefused(p) ==
  /\ prog[p].step \in {"inspect", "create", "write"}
  /\ GivesUp(p)
  /\ UNCHANGED <<key, stored, raced, orphaned>>

(* writeRaw puts the sealed state in place (StateFile).                    *)
Write(p) ==
  LET r == prog[p]
      d == Target(p) IN
  /\ r.step = "write"
  /\ stored' = [stored EXCEPT ![d] = [key |-> r.key, accounts |-> r.data]]
  /\ raced' = IF r.cmd = "export" \/ r.left THEN raced \cup {d} ELSE raced \ {d}
  /\ Becomes(p, [r EXCEPT !.step = IF r.cmd = "serve" THEN "serve" ELSE "done",
                          !.up = (r.cmd = "serve"), !.known = r.data, !.key = NoKey])
  /\ UNCHANGED <<owner, key, orphaned>>

(* main returns and its deferred calls close the lock.  Handlers that took *)
(* longer than Shutdown waits, and a batch, still run until the process is *)
(* gone.                                                                   *)
Release(p) ==
  LET r == prog[p] IN
  /\ r.up \/ r.step = "done"
  /\ ~r.left
  /\ Becomes(p, [r EXCEPT !.left = TRUE])
  /\ owner' = [owner EXCEPT ![r.home] = Nobody]
  /\ UNCHANGED <<key, stored, raced, orphaned>>

(* The process exits, or is killed at any moment.                          *)
Gone(p) ==
  /\ prog[p].step # "out"
  /\ Ends(p)
  /\ UNCHANGED <<key, stored, raced, orphaned>>

DirNext ==
  \E p \in Programs :
    \/ \E c \in Commands, d, e \in Dirs : Start(p, c, d, e)
    \/ Load(p) \/ Import(p) \/ Export(p) \/ LoadRefused(p) \/ Mutate(p)
    \/ Inspect(p) \/ Create(p) \/ Fill(p) \/ CloseKey(p) \/ KeyFails(p)
    \/ SaveRefused(p) \/ Write(p) \/ Release(p) \/ Gone(p)

DirSpec == DirInit /\ [][DirNext]_dirVars

-----------------------------------------------------------------------------
(* A directory that could be opened can be opened after every step of any  *)
(* program: also when two save into it for the first time, or when one     *)
(* dies while it makes the key.  Only a key.bin that could not be closed   *)
(* is taken away under one that has read it (loadOrCreateKey).             *)
StaysReadable ==
  [][\A d \in Dirs \ orphaned' : Readable(d) => Readable(d)']_dirVars

(* Whoever holds a directory knows what is in it, from its load to its     *)
(* end, so that its next save loses nothing: neither two helpers nor an    *)
(* import come in between, unless an export was sent there or a helper     *)
(* that has given up its lock still saved.                                 *)
OwnerKnowsContent ==
  \A p \in Programs :
    LET r == prog[p] IN
    /\ owner[r.home] = p
    /\ r.cmd # "export" /\ r.step \in Saving \cup {"serve", "done"}
    /\ r.home \notin raced
    => r.known = Kept(r.home)

(* Accounts sealed under a key that is lost or another's stay as they are: *)
(* neither a start nor an import saves over them or makes a new key.       *)
UnreadableKept ==
  [][\A d \in Dirs \ orphaned :
       ~Readable(d) /\ (stored'[d] # stored[d] \/ key'[d] # key[d])
         => \E p \in Programs : prog[p].cmd = "export" /\ Target(p) = d
                                /\ prog[p].step \in Saving]_dirVars

(* Both: no step of any program makes a directory unreadable, nor writes   *)
(* into one that is.                                                       *)
KeyFileKept == StaysReadable /\ UnreadableKept

(* The lock keeps two processes from writing one directory at a time.      *)
OneWriter ==
  \A p, q \in Programs :
    /\ prog[p].step \in {"fill", "write"} /\ prog[q].step \in {"fill", "write"}
    /\ Target(p) = Target(q)
    => p = q
=============================================================================
