# A verification of WorkBuddy Helper

WorkBuddy Helper is one Go process with a web page. It keeps a list of accounts
of a remote service, sends each account's daily task (a check-in for a mainland
account, a chat for an international one), queries points, and runs the tasks
on a schedule. Everything it knows is in one encrypted file that is rewritten
whole on every change, with the proxy and the DNS servers in two small text
files beside it.

This directory holds TLA+ modules of the parts of the program whose correctness
depends on an order of events: file-system calls that fail or are cut short,
several programs at one data directory, goroutines that keep copies of an account
across remote calls, a scheduler at midnight, login sessions that expire, a chat
whose answer is judged line by line, answers that reach a web page late. TLC
checks them on small instances, and TLAPS checks theorems about them for all
values of the constants.

Contents: [the system](#the-system) · [the modules](#the-modules) ·
[the runs](#the-runs) · [the proofs](#the-proofs) ·
[divergences](#where-the-code-differs) · [not modelled](#what-is-not-modelled) ·
[the plan](#the-plan)

## The system

| Part | State | Operations | Called by |
| --- | --- | --- | --- |
| `internal/store` store.go | `state.bin`, `.bak`, `.tmp`; `store.mu` | `Load`, `Save`, `writeRaw` | service, import and export |
| `internal/store` config_io.go, proxyconf.go, dnsconf.go | `proxy.conf`, `dns.conf`, each with `.bak` and `.tmp` | `readConfigFile`, `writeConfigFile` | `service.New`, `UpdateSettings` |
| `internal/service` accounts | `state.Accounts` under `Service.mu`; one mutex per account; `runMu` | `Checkin`, `ActiveChat`, `Points`, `RunAll`, `RefreshAllPoints`, `UpdateAccount`, `DeleteAccount`, `recheckAccount` | HTTP handlers, the scheduler |
| `internal/service` logins | `logins`, `loginAt`, `loginBusy`, `loginStarting` under `loginMu`; `loginCommitMu` | `StartLogin`, `PollLogin`, `commitLoginResult` | HTTP handlers |
| `internal/service` scheduler | `Settings.LastScheduledDay` | `runScheduledIfDue`, `runPendingRechecks` | a ticker, every 20 s |
| `internal/service` settings | `Settings`, the client that goes through the proxy | `New`, `UpdateSettings` | start, HTTP handler |
| `internal/client` | `activeDNS`; else none between calls | remote requests, `Points` page by page, `ActiveChatWithResult`, dialling with its own lookups, login sessions | service |
| `internal/server` | none | one handler per request, each in a goroutine | the page |
| `web/app.js` | settings, accounts, a form, counters of edits and loads | `loadState`, `saveSchedule`, row actions, login dialog | the user |
| `internal/instance` | `instance.lock`; on Solaris and AIX a table of the process's locks | `Acquire`, `Close` | `main` |
| `internal/store` portable_cipher.go | `key.bin` | `loadKey`, `loadOrCreateKey` | `Load`, `Save`, export |
| `cmd/workbuddy-helper`, migrate.go | none | start, stop, `--once`, `ImportInto`, `ExportPortableFrom` | the command line |

How they interact. A handler or the scheduler takes the mutex of an account and
keeps it for the whole operation, remote calls included. `Service.mu` is taken
only for one update: change memory, save all of it, roll memory back if the
save failed. A batch holds `runMu` for as long as it runs. A login commit holds
`loginCommitMu`, then the account's mutex, then `Service.mu`. The page only
talks to the handlers, and asks again whenever it wants to know. A program, be
it to serve, to import or to export, locks its `-data-dir` for as long as it runs;
an export writes to a second directory, an import reads from one, without its lock.

What is hard, and so worth a model:

- **Crash and failure.** Each file is replaced by three or four calls, each of
  which may fail, and settings are spread over two files.
- **Time.** Tasks are dated when they are recorded; the daily batch has a window
  of thirty minutes and may run past midnight.
- **Interleaving.** Every operation works on a copy of the account it fetched
  before a remote call; accounts are deleted, disabled and logged in again
  meanwhile, and a deleted account's mutex leaves the table.
- **Retry and expiry.** Rechecks repeat up to six times, refreshed tokens are
  tried once, sessions expire while they are polled, a chat is sent again when the
  token turns out dead, resolvers answer with addresses that cannot be reached.
- **Several programs.** The key file is made on the first save, possibly by two
  programs at once; a program may still save when it has given its lock back.
- **Late answers.** The page shows settings it cannot see whole (credentials are
  stripped) and lets the user type while requests are out, and close and open the
  login dialog while polls of an earlier opening are.

`PROJECT.json` lists the places one by one under `hazards`, each with the
properties that would notice, or the reason why none does.

What makes each part correct:

| Part | It is correct if |
| --- | --- |
| store | a save is all or nothing, whatever fails; between saves the disk holds what was last saved, and memory too unless the scheduler's marker could not be saved; a newer binary's file is not overwritten |
| settings | a restart comes up with the acknowledged settings; a crash does not revive an old proxy; nobody sees settings that are refused later |
| lock | one caller holds it; nothing that failed or died keeps it |
| key and directory | no program makes a directory unreadable or writes into one that it cannot read; whoever holds a directory knows its content |
| import | every user of the source is there once, under an ID of its own, and nothing was lost |
| accounts | operations on one account exclude each other; a confirmed task is not sent again that day; a pending recheck ends |
| logins | limits hold, one account per user, one commit per session, fresh tokens are not overwritten |
| scheduler | one batch a day, none on a day that is marked, none lost |
| points | a sum is complete or the query fails |
| chat | it counts as answered exactly if the stream carries an answer and no error; each attempt has a conversation of its own |
| dialling | every resolver that should be asked is asked before a dial fails, and none that should not |
| page | what the user typed is kept, and nothing else is saved; the login dialog shows the result of its own session |

## The modules

| Module | Models | Lines of code it stands for |
| --- | --- | --- |
| `Register` | what the store promises: an atomic durable register | — (abstract) |
| `StateFile` | `state.bin`: `Load`, `Save`, `writeRaw` call by call | store.go 41-255, service.go 69-77, 263-330, 1174-1203 |
| `SettingsFiles` | `proxy.conf` and `state.bin` in `New` and `UpdateSettings` | config_io.go, proxyconf.go, service.go 139-177, 598-682 |
| `AccountTasks` | the operations on accounts, batches, rechecks | service.go 297-330, 557-596, 745-1281 |
| `LoginSessions` | sessions and commits, with operations on the same accounts | service.go 333-596, client.go 887-952 |
| `DailySchedule` | the loop of the scheduler over several days | service.go 1063-1204 |
| `PointsQuery` | `Client.Points`, page by page, and the arithmetic of packages | client.go 1622-1772 |
| `InstanceLock` | `Acquire` and `Close` in three builds, several callers and processes | lock_fcntl.go, lock_other.go, lock_windows.go |
| `DataDirectory` | programs that serve, import and export; `key.bin` | main.go 46-181, portable_cipher.go, migrate.go 17-128 |
| `ImportMerge` | the merge of an import, account by account | migrate.go 91-145 |
| `ChatCall` | one chat: registration, stream, retry, report | client.go 1110-1164, 1219-1587; service.go 952-966 |
| `DialOut` | `dns.conf`, lookups and attempts to connect | client.go 178-537, dnsconf.go, service.go 127-144 |
| `LoginDialog` | the login dialog of the page | app.js 1047-1147, 1391-1395; server.go 314-425 |
| `SettingsPanel` | the page: `loadState`, `saveSchedule`, the form | app.js 346-373, 791-837, 984-1037, 1320-1349; server.go 271-302, 454-485 |
| `<M>Proofs` | the theorems about module `<M>` | |
| `ConversationsProofs` | those about `PointsQuery`, `ChatCall`, `DialOut` and `LoginDialog` | |
| `DirectoryProofs` | those about `InstanceLock`, `DataDirectory` and `ImportMerge` | |
| `MC<M>` | values of the constants of `<M>` for TLC | |
| `MCStateFile` | two instances of `StateFile` with different faults | |
| `MCDirectory` | `SettingsFiles`, `InstanceLock`, `DataDirectory` and `ImportMerge` | |
| `MCConversations` | `PointsQuery`, `ChatCall`, `DialOut` and `LoginDialog` | |

The last three put specifications that share no state into one run: a variable
`part` says which of them moves, the others rest in one state. That is a disjoint
sum and no composition. What one part promises another is stated by the modules
themselves: `DataDirectory` takes the lock in one step, as `OneOwner` allows, and
takes an import's merge and a write of `state.bin` in one step, as `MergeExact` and
`Register` describe them.

`map` in `PROJECT.json` gives the lines of every definition.

`StateFile` implements `Register` (`ImplementsRegister`, with `disk` mapped to
what a `Load` would return and `phase` to whether a `Save` is under way and whether
it has replaced the file). The
other modules build on that promise and let a save take effect in one step:
`SettingsFiles` for `state.bin`, `AccountTasks`, `LoginSessions` and
`DailySchedule` for every update.

### StateFile

A file holds a state, is absent, is torn (does not decode), or is of a newer
version. `pc` names the next call of `writeRaw`: `write` the temporary file,
`unlink` the backup, `stage` the old file as the backup, `replace` it by the new
one, `restore` the backup if that failed, and `cleanup`. `Faults` says which of
them may fail; a process may be killed (`Crash`) between any two. `Boot` is
`Load` followed by the save that `New` makes. `Reload` is the `Load` of the
scheduler, which promotes a backup as a side effect. `mem` is `Service.state`.

There are two kinds of saves in a running service, and `keeps` tells which is under
way. `Save` is that of `saveMutationLocked`, and of the candidate state in
`UpdateSettings`: when it is refused, `Fail` leaves memory as it was before the
mutation. `SaveMarker` is the scheduler's `_ = s.saveLocked()` (service.go:1202, retried
at 1187): the marker stays in memory, as the comment at 1178 says, and memory is `ahead`
of the disk until some save succeeds. A mutation refused meanwhile is rolled back to
that memory, and one that is saved takes the marker to the disk. `DailySchedule` models
the same with the marker itself. The log line that a refused save adds to
memory is left out.

### SettingsFiles

`writeConfigFile` again call by call, for the three reasons there are to write
`proxy.conf`: a start that found none (`why = "start"`), a request (`"update"`)
and the rollback of a request whose `state.bin` was refused (`"rollback"`). `cli`
is the proxy that the international client goes through, published together with
the settings after everything was written. `stranded` records that a rollback
failed.

### AccountTasks

A goroutine of `Procs` is idle, waits for the mutex of an account or is at a
step of its operation; `job` are its local variables. One action is one remote
call or one critical section of `Service.mu`, so anything may happen in between.
A remote call succeeds or fails with a kind of `Replies`: `auth` (the session is
dead: refresh the token and try once more), `credits`, any other `error`, or
`lost` (carried out, but the answer did not come). `Lossy` is an update whose save may fail without
the caller noticing (`markError`, `markStatus`), `Persist` one whose failure
ends the operation.

`AcquireUnregistered` is there because `DeleteAccount` removes the mutex from
the table: who looks it up later gets another one. Both then find the account gone.

A check-in and a chat are one operation with two flavours; `last`, `date` stand
for `LastCheckin…` in an account of the mainland and for `LastActive…` in an
international one, for no account has both. `due` is `PendingRecheckAt`: zero,
ahead, or reached. `served` and `acked` are history: a task request reached the
service today, and its confirmation reached the program.

### LoginSessions

`StartLogin` is three steps (reserve a place, open the session remotely,
register it), `PollLogin` is claim, remote poll, commit and finish, and the
commit has a step for each lock. Sessions expire at any time (`Expire`), users
authorize them at any time (`Authorize`). The other operations on accounts are
reduced to what matters to a login: they take the account lock and write tokens
(`WriteTokens`), write something else, or delete the account. `outdated` holds
the goroutines whose copy of an account is older than a login to it.

### DailySchedule

A day is a row of slots longer than the 20 seconds of a tick; the window is open
from the set slot for `Window` further ones, of the same calendar day. A round of
the loop is the tick with its reading of settings and clock, the wait for `runMu`,
the batch, the marker and the rechecks. Meanwhile handlers edit settings, save the
state (which writes out a marker whose own save failed), or run a batch, and the
process is killed and started. `Round` is an assumption on the environment: how
many slots one round may take.

### PointsQuery

One action asks for one page and does everything with its answer. The service
may name the number of packages on every page or on some only, may keep to shorter
pages than asked for (`cap`), and its list may change between two pages (`Drift`).
`PackageValues` is the arithmetic of `packageValues` over integers.

### InstanceLock

`build` is the platform: `flock` (the lock belongs to a descriptor), `fcntl` (to a
process, and any descriptor of the file that is closed drops it, whence the table
`processLocks`, here `guard`) or `share` (Windows: opening is locking). `Die` is the
end of a process: its descriptors are closed, its table is gone. Unlocking may fail
without effect; closing the descriptor does it then.

### DataDirectory

A program is out, loads, serves, or is at a step of a save: look for the key, create
the file with `O_EXCL`, fill it, close it, write the sealed state. `known` is what it
last saw of its directory, `data` what it is saving. A state is the key it was sealed
under and its accounts, by version and UID; it opens only with that key. `DirInit` has
directories whose key was lost or is another's. `Release` is the deferred `Close` of
`main`, after which handlers and batches may still save until `Gone`. Two histories
name what the code leaves open, and the properties exempt: `raced`, a directory that
was written to by an export or after its lock was given back, and `orphaned`, one
whose complete `key.bin` was removed because its `Close` failed.

### ImportMerge

One action is one turn of the loop of `ImportInto`. The destination is a list that
the program may have kept itself; the source is any list, with users and IDs repeated
or missing. `MergeExact` compares the outcome with the two lists alone.

### ChatCall

A line of the stream stands for what `validateActiveChatResponse` tells apart: the
empty line, an `event:` name, or a `data:` line by its content. `judge` are the
variables of that function; `chats`, `reported` and `unknown` are history: which
conversations chats were sent in, which were reported, and which attempts were not
registered. An attempt that finds the token dead, in the refusal of the request or in
the stream, is made again once, as `Service.ActiveChat` does.

### DialOut

One action is one lookup or one attempt to connect. What a resolver answers is open
each time, what can be reached stays during a dial. `link` is the domestic transport
(`fixedDNSDialer`) or any other (`fallbackResolver`). A `dns.conf` that names no server
counts as one that says `system`. The proxied international link dials its proxy and is
not modelled; a proxy given by name is dialled like any host on the fallback link.

### LoginDialog

A start of the dialog has a request, a chain of polls and a session at the server.
Each remembers the generation it was started in (`gen`), and an answer is looked at
only if that is still the page's. `StopLoginPolling` counts up once for every event
that calls it; closing by hand raises two events in one task, which the model takes
as one step. The server is reduced to the kinds of answer of `handleLoginPoll`:
pending, one that is retried (429, 502, a lost answer), one that ends the chain, or
complete. Sessions are those of `LoginSessions`, here one per start.

### SettingsPanel

The page compares counters (`settingsRevision`, `proxyRevision`,
`stateLoadGeneration`) with their values when a request was sent. The model keeps
the outcome of that comparison with each request (`moved`, `proxyMoved`,
`superseded`), which needs no counters. `typed` is history: for each input, what
the user typed that no save has answered. `view` is history, too: whether the form
is known to have been built on settings of the server. A switch between the two
lists of accounts keeps form and draft and is not an action.

## The runs

| Run | Module | Instance | Distinct states | It shows |
| --- | --- | --- | --- | --- |
| `store` | `StateFile` twice | 2 states; every call of a write fails, and crashes; once more with restore and reads failing and the primary damaged from outside | 3,599 | refinement of `Register`, a newer binary's file is kept; no silent return to a fresh state unless the restore failed, what was acknowledged is read |
| `store_available` | `StateFile` | damage and crashes | to the violation | *violation*, see below |
| `tasks` | `AccountTasks` | 1 account, 2 handlers (batches, check-ins) and the scheduler, 2 days | 1.6 M | no repeated task, no status left at "running" |
| `tasks_faults` | `AccountTasks` | 1 account, 1 handler and the scheduler, saves fail, restarts | 2.3 M | exclusion, nothing done to deleted or disabled accounts, consistent rechecks |
| `tasks_live` | `AccountTasks` | 1 account, 1 handler (edits, points) and the scheduler, fair | 67 k | operations end, rechecks settle |
| `tasks_midnight` | `AccountTasks` | 1 account, check-ins only, 2 days | to the violation | *violation*, see below |
| `login` | `LoginSessions` | 2 goroutines, 2 sessions, 2 users, limits of 2, fair | 359 k | limits, deduplication, single commits, polls return |
| `schedule` | `DailySchedule` | 3 days of 4 slots, all faults | 118 k | one batch a day, an honest marker, no day lost |
| `directory` | `SettingsFiles`, `InstanceLock`, `DataDirectory`, `ImportMerge` | 3 proxies, 2 other settings, all faults; 3 callers in 2 processes, 3 builds; 2 programs, 2 directories, 3 keys, 2 accounts; lists of up to 2 accounts | 829 k | what a restart comes up with; one owner and nothing left locked; readable directories and saves that lose nothing; exact merges |
| `directory_writer` | `DataDirectory` | 2 programs, 2 directories, 1 account | to the violation | *violation*, see below |
| `conversations` | `PointsQuery`, `ChatCall`, `DialOut`, `LoginDialog` | lists of up to 5 packages, 2 pages of 2; answers of up to 4 lines, 2 attempts; 2 servers, 2 addresses, answers of up to 2 of them, every `dns.conf` of up to 2 lines; 2 starts of the dialog, fair | 694 k | complete sums, refusals for cause; chats judged rightly, in conversations of their own; all resolvers heard that should be; one chain of polls, the right result, a dialog that settles |
| `panel` | `SettingsPanel` | 2 loads, 1 save, 2 inputs, 1 change of the accounts | 2.2 M | drafts, credentials and server settings survive |

### Why the bounds are enough

- *One account* (`tasks*`). Operations on different accounts share only `runMu`
  and the order of a batch, and every property speaks of one account. The proofs
  of exclusion and typing are for any number. *Two handlers and the scheduler* is
  every way of meeting at an account: request, batch, recheck. The runs with
  faults and with fairness have one handler, as they are the larger ones by far.
- *Two days*: one midnight; what happens at a second one is the same again. The
  scheduler has three, so that a marker can be two days old.
- *`MaxBal = 1`*: a balance is only ever compared with the one before the chat.
- *Six attempts* of a recheck are kept as they are in the code.
- *Two states, three proxies*: an acknowledged one, a requested one, and an older
  one that must not come back (the fresh state is the third one of `StateFile`).
- *Two sessions, limit two*: the limit is reached and exceeded by a reservation.
  There are more account names than accounts, for goroutines still refer to
  deleted ones.
- *Four slots, window one, round two*: rounds within the window and longer than
  it, windows that midnight cuts off.
- *Five packages, pages of two, two pages*: empty, short and full pages, and a
  list that does not fit. The figures of the packages agree, contradict
  each other, are negative and exceed the size.
- *Two loads*: each may be late for, or superseded by, the other.
- *Three callers in two processes*: two share a table and a process-wide lock, the
  third is outside. The theorems about the lock are for any number.
- *Two programs, two directories, three keys*: every pair of commands on one directory
  or crosswise; two keys for two first saves and one that was there before. A limit of
  one account makes an import that does not fit.
- *Lists of two accounts* of two users and two IDs, or without: a repetition inside the
  source, with the destination, of the user, of the ID, of both. Four fresh IDs, two of
  which may be in use, so that a draw can collide.
- *Four lines*: an answer and an error in either order, each with an end or without, a
  name before either, and an answer split over two lines.
- *Two servers, two addresses*: the first silent and the second heard; a first address
  dead and a second one alive, from the same resolver or from different ones, and an
  address given twice. The theorems take any lists.
- *Two starts*: an answer to the first reaches the second at each of its stages.

Bounds are constants of the modules (`MaxDay`, `MaxBal`, `LastDay`, `LastSlot`,
`Round`, `Count`, `LastVersion`, `MaxLength`, `MaxLines`, `MaxStarts`, `DnsFiles`,
`AddressLists`) and appear in guards or initial states. Symmetry is used in `tasks`
(handlers), `panel` (loads) and `directory` (keys, accounts), in runs without liveness.
`conversations` alone switches off the test for deadlock: a query, a chat and the last
allowed start of the dialog end.

### Fairness

Liveness is checked in `tasks_live`, `login` and `conversations`. Weak fairness of a goroutine's own
steps: the Go scheduler runs every goroutine that can run, and every remote call
returns, for all HTTP clients have timeouts. Strong fairness of acquiring a mutex:
`sync.Mutex` hands itself over to a waiter that has waited for a millisecond. Strong
fairness of the start of rechecks: the ticker comes back to them at the end of
each round. Weak fairness of `Ripen`: a delay passes. Nothing is assumed of
requests, logins, the remote service's answers, or local faults (there are none in
the liveness runs: a restart ends every operation, trivially).

`DialogFairness` is that of the page: its callbacks and timers run (weak fairness of
`Reacts`), a start is answered or fails (weak), a poll that is sent again and again is
served in the end (strong, of `Served`: polls may be lost, but not for ever), and a
session does not outlive `loginSessionTTL` (weak, of `LoseLogin`). Nothing is assumed of
the user, who need neither authorize nor close anything.

`RecheckSettles` is as strong as the code allows. A recheck only *tries* the lock
of its account, and another goroutine may be there every time; and a failing query
is postponed without being counted. The property says that whoever looks at a
recheck that never ends sees why: an account disabled, deleted, with an error
status, or being worked on.

## The proofs

`tlapm` checks the theorems in the eight modules `…Proofs`. Each is for all values
of the constants that satisfy the named assumptions of its module. Every safety
property that a passing run checks is a theorem; liveness is not (see below).

| Module | Theorem | Statement |
| --- | --- | --- |
| `StateFileProofs` | `TypeCorrect`, `NoTornFile`, `MemoryRecoverable`, `StoreImplementsRegister`, `NewerFileKept`, `AcknowledgedNeverReset` | typing; no torn file unless damaged from outside; a restart loads what was last saved, and memory holds it or is ahead by the marker; refinement of `Register`; a newer program's file is kept; what was acknowledged survives damage |
| `AccountTasksProofs` | `TypeCorrect`, `Exclusion`, `WorksOnLive`, `RechecksSane`, `NeverRepeats`, `NeverStuckRunning` | typing; operations on a live account exclude each other, and work on one that exists and is enabled; rechecks are consistent; no task is sent twice; "running" shows only while somebody works |
| `LoginSessionsProofs` | `TypeCorrect`, `SessionsCapped`, `SlotsAccounted`, `UsersUnique`, `AccountsCapped`, `PolledStays`, `SessionCommitsOnce`, `NothingStale` | typing; both limits, every reservation accounted for, one account per user; a polled session stays and is committed once; no old tokens over new ones |
| `DailyScheduleProofs` | `TypeCorrect`, `BatchOnce`, `MarkerNamesBegun`, `WrittenIsFinal`, `EveryDayServed` | typing; one batch a day in a process; an honest marker; a written marker is final; no day is passed over |
| `SettingsFilesProofs` | `TypeCorrect`, `AckedSettingsSurvive`, `NoProxyRevived`, `NoHalfNewSettings`, `OldOrNewSettings`, `OnlyAckedPublished` | typing; what a restart comes up with, after requests and in the middle of one; nothing is published that is not acknowledged |
| `SettingsPanelProofs` | `TypeCorrect`, `DraftsSurvive`, `CredentialsSurvive`, `ListNeverOlder`, `FormTellsServer`, `UntouchedSurvives` | typing; drafts; credentials; the list and the form against late answers; a save changes what was typed |
| `DirectoryProofs` | `OneOwnerHolds`, `NothingStaysLocked`, `LockTypeCorrect` | one caller holds the lock; locks and table entries belong to callers that are at it; typing |
| | `DirectoryTyped`, `DirectoryKnown`, `KeyFilesKept` | typing; an owner knows the content of its directory; no state loses its key |
| | `ImportExact` | an import adds exactly the missing users, or refuses |
| `ConversationsProofs` | `PackageValuesCovered`, `CycleAccounted`, `NothingMissing`, `QueryTyped`, `QueryExact`, `BalanceAlwaysCovered` | the arithmetic of one package and of any number of them; a query is exact or refused |
| | `ChatTalksApart`, `ChatsJudged`, `ChatTypeCorrect` | what is reported of a chat; what counts as answered, for streams of any length; typing |
| | `DialAsksAsConfigured`, `DialTypeCorrect` | whom a dial asks before it fails; typing |
| | `DialogOneChain`, `DialogOwnResult`, `DialogTypeCorrect` | one chain of polls, and success for the dialog's own login only; typing |

Some theorems name the faults they exclude, and each exclusion is one the code needs:

- `MemoryRecoverable`, `StoreImplementsRegister`: `Reliable` (neither the restore nor a
  read fails, nothing damages the file). `NoTornFile`: no damage.
- `NewerFileKept`: reads do not fail. A read error makes `Load` fall back to the backup.
- `AcknowledgedNeverReset`: removing the backup does not fail. Everything else may, damage
  included. Its statement is that of `DamageSurvived`, which `MCStateFile` states of its
  second store and with the same faults; a backup that could not be removed is the older
  of two copies, possibly the fresh state, and damage to the newer one would bring it back.
- `NeverRepeats`, `NeverStuckRunning`: no faults. An outcome that cannot be saved is
  forgotten; a process killed during a task leaves "running" in the file.
- `EveryDayServed` has its condition, `RoundFits`, in the property: a round of the loop is
  no longer than the window, and the window does not reach midnight.

The arguments:

- **StateFile.** `TypeCorrect` and `NoTornFile` hold for any set of faults (the
  latter without damage). `Held` says where the state last acknowledged (during the save
  of `New`: the one loaded) is at each step of `writeRaw`: in the primary until it is
  staged, in the backup until the primary is replaced, and that `stage` starts without
  a backup; and that memory holds that state unless it is `ahead`. Each call then keeps
  `Recoverable`, except `Replace`, which is the commit of the register.
  `MemoryIsRecoverable` is not inductive: it says nothing during a save.
  `NewerAlone`: a newer program's file is only there while no process runs, for no `Load`
  succeeds on it, and never as a backup. `Somewhere`: what was saved is in one of the two
  places and the fresh state in neither, once something was acknowledged; it takes the
  place of `Held` where files may be damaged.
- **AccountTasks.** `Typed` adds to `TypeOK` how the local variables of a
  goroutine fit its step (`FlowOf`: where a refresh and a query return to, and for
  which operation), without which `Goto(p, job[p].after)` could go anywhere. One
  lemma, `InsideMoves`, goes through the steps of an operation; the rest needs only
  that such a step moves one goroutine and takes no lock. `LockInv` says that
  whoever works on an account that exists holds its lock; two holders of one lock
  are one. The deleted account is exempt, because its mutex left the table.
  `WorkInv` adds what an operation checked before its first remote call (`Fit`) and keeps
  true because it alone writes the record. `RepeatInv` ties the service's acknowledgement
  to the record: an acknowledged task is done in the record or its holder is about to
  record it, and a goroutine on its way to send (`Sending`, which runs through the refresh
  and the query in between) has no acknowledgement behind it. `RunningInv`: an account
  that shows "running" has a goroutine before its outcome.
- **LoginSessions.** `CapInv`: sessions and reservations together never exceed the
  limit, and the sessions are a finite set; registration trades one for the other.
  `SlotInv` adds that the counter is the number of goroutines between the two;
  each step moves one goroutine into that set, out of it, or neither.
  `AccountInv` is inductive by itself, for `AppendOk` tests for a duplicate and for
  the limit in the critical section in which it appends: the earlier test outside is
  not needed for it. `PollInv`: `loginBusy` is exactly the set of sessions under way, one
  poll each. `DoneInv`: a committed session is only there until its poll ends, which takes
  it away (`consume`). `HoldInv`: the commits are serial, and who works on an account or
  updates one that exists holds its lock; hence `outdated` is empty. `TypeCorrect` needs
  more than types: that names are enough for `FreshID` and `FreshSession`
  (`FreshAssumption`: as many accounts as the limit and one name for each goroutine),
  which is a count of the accounts and of the names that goroutines refer to.
- **DailySchedule.** `Ordered`: the markers on disk and in memory never decrease and
  are never ahead of the clock, and every marker ever written is at most the one on
  disk. `Ahead`: a day whose batch is due is later than the marker. `Covered`: what
  this process has run is covered by its marker or still running. `Punctual`: as long as
  a day lacks its batch, every round under way began before the set time, and the loop
  comes to its next tick before the window closes. This is the arithmetic of
  `RoundFits`.
- **SettingsFiles.** One conjunct for each reason to write: a request leaves the
  acknowledged proxy to be loaded until it replaces the file; its rollback starts with
  the requested one in the file; `state.bin` follows only with the requested proxy in
  place.
- **SettingsPanel.** Flags and history agree: an input that was typed into makes the
  form dirty, the proxy among them makes `proxyDirty`; during a save whatever was typed
  since is counted. `DraftKept` then follows for every answer. `ListInv`: one load at a
  time is not superseded, and its answer is no older than the list shown. `ShownInv`
  compares form, settings shown, late answers and server input by input: what was not
  typed is what the server has (`UntypedHeld`), a clean form shows the server and so does
  every answer that may still replace it (`CleanShown`), and the answer of a save is the
  server's state after it (`SaveTells`). `DirectHeld` is the case of a server without a
  proxy, where an empty input completes the answer.
- **InstanceLock.** `LockInv` relates each caller's place to the lock: who is
  `held` is the owner of what is locked, and, where the owner is a process, the only one
  of its callers whose path is in the table. Without the table two callers of one process
  would share the lock; without its last step being the deletion of the entry, the close
  of one would drop the lock of the next. `NothingStaysLocked` uses the converse: an
  entry has a caller between `Enter` and `Forget`.
- **DataDirectory.** `OwnerInv`: a program that runs and has not closed its lock owns its
  directory and no other (`LockTells`), so that whoever else writes there is an export or
  a program that gave its lock back, which `raced` records. `KeyInv`: who makes a
  `key.bin` is alone with it (`MakesAlone`, by O_EXCL); what is about to be written is
  sealed under the key that lies there (`SealsRight`); and a program that saves into its
  own directory could read it (`LoadedReadable`).
- **ImportMerge.** `MergedSoFar`: the users added are those shown by the turns so far and
  missing in the destination, none twice. The limit is compared with a length, the
  property with a number of users: `AddedCount` is a bijection between the two.
- **PointsQuery.** `PagesSoFar`: while the list stands still, the pages so far were full
  and are its first packages, and the named total is its length. `Covers` is the set of
  sums whose balance is within the total; each addition stays in it.
- **ChatCall.** `TalkInv` and `ReportInv` say at each step which chats were sent and in
  whose conversation. `JudgeInv`: what the judge keeps of an event comes, in order, from
  lines after the last blank one (`EventInv`); a line with trouble is still kept as long
  as the stream goes on, and an answer is kept or was seen (`StreamInv`).
- **DialOut.** `Progress`: what is left to ask and what was asked make up the servers in
  use, and an address that was offered and can be reached is still to be tried.
  `AskedOnly` keeps the system's resolver out of a domestic dial with servers.
- **LoginDialog.** `DialogTyped`: each start has a generation of its own, in their order,
  and three starts' worth of generations are enough. `ResultInv`: a chain that may act on
  the dialog is that of the session shown, and success follows an account added.

Named assumptions on constants are in the modules that use them, and TLC evaluates
them in every run.

The `TypeOK` of the modules with proofs, `NoTornFile`, `MemoryIsRecoverable`,
`SessionCap`, `NeverPartial`, `Published`, `NoOldProxy`, `NeverHalfNew` and `AccountCap`
are proved, hence in a run only as part of a larger property, or not at all.

What a recursive function computes for every length (`Added`, `ListTo`, `Named`)
needs induction. The library's induction theorems take an operator as a
parameter, which no backend instantiates; `SetInduction` states the principle for *sets*
of numbers, from `WellFoundedInduction`'s least elements, and `StepwiseFunction` that a
function given by its steps exists and is typed. Each use names the set of numbers for
which a statement holds.

Only model-checked: liveness (`OperationEnds`, `RecheckSettles`, `PollEnds`,
`DialogSettles`), which rests on fairness and is out of the prover's reach; and the three
statements that runs refute (`StaysAvailable`, `SkipsOnlyWhatWasSent`, `OneWriter`).

## Where the code differs

Three runs find what a document or a comment rules out.

- **`store_available`.** A comment (store.go:110-111) says that a damaged primary is
  left in place, that the next save replaces it atomically, and that the service stays
  available after a crash. The next save, which `New` makes at once, removes the
  validated backup (store.go:238), then renames the damaged primary over its name
  (243). A crash before the last rename leaves the damaged copy only, and the program
  does not start any more.
- **`tasks_midnight`.** README.md:33 promises that no request is repeated on one Beijing
  date. The date is taken when the outcome is recorded (service.go:889, 969). A
  check-in answered before midnight and recorded after it is booked on the new day,
  whose own check-in is then skipped without having been sent.

- **`directory_writer`.** README.md:238 says that `instance.lock` keeps several processes
  from writing one data directory at a time, and main.go:146-147 that the data commands
  take it so that an export cannot race a running helper. An export takes the lock of the
  directory it reads (main.go:61, 68) and writes the state, the key and the two text files
  of another (migrate.go:38-46), which a helper may be serving: the accounts exported are
  gone with the helper's next save, or the helper's last save with the export.

Others are visible in the models, but no document rules them out so precisely that a
run could show it, or no property of the code depends on them:

- A task that succeeded remotely and whose record cannot be saved (service.go:887, 967)
  is sent again by the next request. `NoRepeat` is checked without local faults.
- A process that dies during a task leaves the status "running" in the file until the
  account's next operation.
- README.md:379 says an account is paused when an interface changes. Its status becomes
  "error", but it stays enabled and is taken up by the next batch.
- If the new state file can neither be moved in nor the old one moved back
  (store.go:250), the backup is the only copy, and the next save removes it first; a
  crash during that save leaves nothing, and the next start begins afresh
  (`DamageSurvived` gives up what was acknowledged in `RestoreFails`).
- A primary that cannot be read, for example for lack of permission, is passed over in
  favour of an older backup (store.go:70), and the save of `New` then replaces it.
- If the rollback of `proxy.conf` fails (service.go:670), a restart uses the proxy that
  was refused. The error message says so.
- A list of packages from which one goes while another comes between two pages can be
  summed up with one package twice and one missing: the number named by the service
  still agrees. `StableExact` is about lists that stand still.
- A settings form submitted before the page has loaded anything writes the defaults of
  the page over the settings of the server, the proxy excepted; so does one that was
  edited before the first load and submitted after it, as a form with edits does not take
  what was loaded. `UntouchedKept` exempts such forms through `view`.
- `main` gives the lock back and then ends; what still runs in the process may save in
  between, behind a helper that was started at that moment. `OwnerKnowsContent` exempts a
  directory in which that happened.
- A `key.bin` whose `Close` reported an error is removed (portable_cipher.go:122-123),
  although an export or another first save may have read it since it was complete.
- README.md:268 says that an export uses a newly generated key; into a directory that has
  a `key.bin` it uses that one.
- A body that stops after an event with an answer counts as an answered chat, with or
  without `[DONE]`; so does one that carries reasoning only.
- A login whose answer "complete" is lost ends in an error of the dialog (410), although
  the account was added; the list is not loaded again. `DialogSettles` takes that error
  for an end like any other.
- An error of the account endpoint of a login that looks like "pending" keeps the page
  polling, as `isLoginPending` does not know which request failed.
- A scheduled batch that waits for another one past midnight does the new day's tasks
  and marks the old day; the new day's batch then finds its tasks done.

## What is not modelled

- **`--once`, the choice of the data directory, the browser**: `--once` is a batch and
  the end of the process; the others keep no state. For the files of a directory the
  orderly shutdown is `Release` and `Gone` in `DataDirectory`; in the other models a stop
  is `Crash` or `Restart`.
- **The configuration files of an export** are written by the same `writeConfigFile` that
  `SettingsFiles` models, after the state.
- **Cryptography**: a file opens with its key or it does not. DPAPI keeps no key file.
- **The protocol of check-in and token refresh**: one request each; the models use the
  kinds of outcome.
- **Durations of a dial**: a lookup has four seconds, an attempt to connect fifteen, the
  whole request thirty. `Expire` may cut a dial off at any step; that several slow
  attempts use up the time before the fixed servers are asked is therefore possible in
  the model and in the code, and no property speaks of it.
- **Waiting for `runMu` and `Service.mu`**: a batch begins when `runMu` is free, and what
  is done under `Service.mu` is one step. The liveness properties therefore exercise the
  account locks and `loginCommitMu`, and not the order of those two with them.
- **Several pages**: `SettingsPanel` is one page in one window.
- **Proxies**: a connection through one is a dial of the proxy's host.
- **Row actions and the log drawer** of the page: one request, then a load of the state.
- **HTTP routing, origin checks, JSON, logs, aliases, rendering**: no state, or none that
  a property depends on.
- **Data races**: all shared state of the service is accessed under its mutexes; the
  models take a critical section as one step.

## The plan

In this order; the first ten are done.

1. `Register`, `StateFile`: everything else rests on a save being atomic.
2. `AccountTasks`: the purpose of the program, and its most intricate concurrency.
3. `LoginSessions`, which shares the account locks.
4. `DailySchedule`.
5. `SettingsFiles`.
6. `PointsQuery`.
7. `SettingsPanel`.
8. `InstanceLock`, `DataDirectory`, `ImportMerge`: several programs at one directory.
9. `ChatCall`, `DialOut`, `LoginDialog`: the conversations whose order of events matters.
10. Further proofs: every safety property that a run checks is a theorem now.
11. An abstract task ledger (what each account was sent on each day) that both
    `AccountTasks` and `DailySchedule` implement, to say what a batch past midnight does.
12. `LoginDialog` composed with `LoginSessions`: two pages on one server.
