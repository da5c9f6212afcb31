--------------------------- MODULE SettingsPanel ----------------------------
(***************************************************************************)
(* web/app.js: one page with its settings form and its list of accounts.   *)
(* loadState asks for the state, saveSchedule submits the form; both go on *)
(* when their answer is there, and the user types meanwhile.  The page     *)
(* tells late answers by counters: settingsRevision counts edits and saves,*)
(* proxyRevision edits of the proxy, stateLoadGeneration the loads.  Only  *)
(* "has it moved since the request was sent" is ever asked of them, and    *)
(* that is kept here with each request.  The server never hands out the    *)
(* credentials in the URL of the proxy.                                    *)
(***************************************************************************)
EXTENDS Integers

CONSTANTS Inputs,     \* the inputs of the form
          Proxy,      \* the input of the proxy
          Choices,    \* what each input may hold
          Direct,     \* no proxy: the empty string in the code
          Strip,      \* a proxy without its credentials
          Defaults,   \* what the form shows before anything was loaded
          Loads,      \* names for calls of loadState under way
          Untyped,    \* no value
          LastVersion \* bound: how often the list of accounts may change

Settings ==
  {s \in [Inputs -> UNION {Choices[i] : i \in Inputs}] : \A i \in Inputs : s[i] \in Choices[i]}

ASSUME InputsAssumption ==
  /\ Proxy \in Inputs /\ Direct \in Choices[Proxy]
  /\ Strip \in [Choices[Proxy] -> Choices[Proxy]]
  /\ \A p \in Choices[Proxy] : Strip[p] = Direct <=> p = Direct  \* ValidateProxyURL wants a host
  /\ Defaults \in Settings /\ Defaults[Proxy] = Direct          \* app.settings.proxyUrl: ""
  /\ \A i \in Inputs : Untyped \notin Choices[i]
  /\ LastVersion \in Nat

VARIABLES server,   \* Service.state.Settings
          accounts, \* the version of Service.state.Accounts
          shown,    \* app.settings
          listed,   \* the version of the accounts that the page shows
          form,     \* what the inputs hold
          dirty, proxyDirty, \* app.settingsDirty, app.proxyDirty
          load,     \* each call of loadState
          save,     \* the call of saveSchedule
          typed,    \* history: what the user typed and has not saved
          since,    \* history: the inputs typed into since the form was submitted
          view      \* history: what the form was last known to be built on

page    == <<shown, listed, form, dirty, proxyDirty>>
history == <<typed, since, view>>
vars == <<server, accounts, page, load, save, history>>

Versions == 0 .. LastVersion
Drafts ==
  {t \in [Inputs -> (UNION {Choices[i] : i \in Inputs}) \cup {Untyped}] :
     \A i \in Inputs : t[i] \in Choices[i] \cup {Untyped}}

TypeOK ==
  /\ server \in Settings /\ shown \in Settings /\ form \in Settings
  /\ accounts \in Versions /\ listed \in Versions
  /\ dirty \in BOOLEAN /\ proxyDirty \in BOOLEAN
  /\ load \in [Loads -> [phase: {"idle", "sent", "answered"}, settings: Settings,
                         accounts: Versions, moved: BOOLEAN, superseded: BOOLEAN]]
  /\ save \in [phase: {"idle", "sent", "answered"}, form: Settings, proxy: BOOLEAN,
               settings: Settings, moved: BOOLEAN, proxyMoved: BOOLEAN]
  /\ typed \in Drafts
  /\ since \subseteq Inputs
  /\ view \in {"defaults", "blind", "server"}

NoLoad == [phase |-> "idle", settings |-> Defaults, accounts |-> 0,
           moved |-> FALSE, superseded |-> FALSE]
NoSave == [phase |-> "idle", form |-> Defaults, proxy |-> FALSE, settings |-> Defaults,
           moved |-> FALSE, proxyMoved |-> FALSE]
NothingTyped == [i \in Inputs |-> Untyped]

Init ==
  /\ server \in Settings
  /\ accounts = 0 /\ listed = 0
  /\ shown = Defaults /\ form = Defaults
  /\ dirty = FALSE /\ proxyDirty = FALSE
  /\ load = [l \in Loads |-> NoLoad]
  /\ save = NoSave
  /\ typed = NothingTyped /\ since = {} /\ view = "defaults"

Public(s) == [s EXCEPT ![Proxy] = Strip[@]]

(* settingsRevision moves: no load under way may replace the settings.     *)
Moved == [l \in Loads |-> IF load[l].phase = "idle" THEN load[l] ELSE [load[l] EXCEPT !.moved = TRUE]]

-----------------------------------------------------------------------------
(* The user types into an input.                                           *)
Edit(i, v) ==
  /\ form' = [form EXCEPT ![i] = v]
  /\ dirty' = TRUE
  /\ proxyDirty' = (proxyDirty \/ i = Proxy)
  /\ load' = Moved
  /\ save' = IF save.phase = "idle" THEN save
             ELSE [save EXCEPT !.moved = TRUE, !.proxyMoved = IF i = Proxy THEN TRUE ELSE @]
  /\ typed' = [typed EXCEPT ![i] = v]
  /\ since' = IF save.phase = "idle" THEN since ELSE since \cup {i}
  /\ UNCHANGED <<server, accounts, shown, listed, view>>

(* loadState: of the loads under way only the last one counts.             *)
StartLoad(l) ==
  /\ load[l].phase = "idle"
  /\ load' = [k \in Loads |->
       IF k = l THEN [NoLoad EXCEPT !.phase = "sent"]
       ELSE IF load[k].phase = "idle" THEN load[k] ELSE [load[k] EXCEPT !.superseded = TRUE]]
  /\ UNCHANGED <<server, accounts, page, save, history>>

(* handleState answers.                                                    *)
ServeLoad(l) ==
  /\ load[l].phase = "sent"
  /\ load' = [load EXCEPT ![l].phase = "answered", ![l].settings = Public(server),
                          ![l].accounts = accounts]
  /\ UNCHANGED <<server, accounts, page, save, history>>

Forget(l) == load' = [load EXCEPT ![l] = NoLoad]

(* The request fails: what is shown already is rendered again.             *)
FailLoad(l) ==
  /\ load[l].phase = "sent"
  /\ form' = IF dirty \/ load[l].superseded THEN form ELSE shown
  /\ Forget(l)
  /\ UNCHANGED <<server, accounts, shown, listed, dirty, proxyDirty, save, history>>

(* A later load has been started: this answer is not looked at.            *)
DropLoad(l) ==
  /\ load[l].phase = "answered" /\ load[l].superseded
  /\ Forget(l)
  /\ UNCHANGED <<server, accounts, page, save, history>>

(* Mutated Takes: the settings are replaced whatever happened meanwhile.   *)
TakesAlways(l) == TRUE

(* Neither an edit nor a save came in between.                             *)
Takes(l) == ~load[l].moved

(* Mutated EndLoad: every answer counts.                                    *)
EndLoadAny(l) ==
  /\ load[l].phase = "answered"
  /\ shown' = IF Takes(l) THEN load[l].settings ELSE shown
  /\ listed' = load[l].accounts
  /\ proxyDirty' = (proxyDirty /\ (dirty \/ ~Takes(l)))
  /\ form' = IF dirty THEN form ELSE shown'
  /\ view' = IF view = "defaults" /\ Takes(l) /\ ~dirty THEN "server" ELSE view
  /\ Forget(l)
  /\ UNCHANGED <<server, accounts, dirty, save, typed, since>>

(* Mutated EndLoad: the form is rendered over a draft.                     *)
EndLoadOverDraft(l) ==
  /\ load[l].phase = "answered" /\ ~load[l].superseded
  /\ shown' = IF Takes(l) THEN load[l].settings ELSE shown
  /\ listed' = load[l].accounts
  /\ proxyDirty' = (proxyDirty /\ (dirty \/ ~Takes(l)))
  /\ form' = shown'
  /\ view' = IF view = "defaults" /\ Takes(l) /\ ~dirty THEN "server" ELSE view
  /\ Forget(l)
  /\ UNCHANGED <<server, accounts, dirty, save, typed, since>>

(* The page is rendered anew; a draft is kept.                             *)
EndLoad(l) ==
  /\ load[l].phase = "answered" /\ ~load[l].superseded
  /\ shown' = IF Takes(l) THEN load[l].settings ELSE shown
  /\ listed' = load[l].accounts
  /\ proxyDirty' = (proxyDirty /\ (dirty \/ ~Takes(l)))
  /\ form' = IF dirty THEN form ELSE shown'
  /\ view' = IF view = "defaults" /\ Takes(l) /\ ~dirty THEN "server" ELSE view
  /\ Forget(l)
  /\ UNCHANGED <<server, accounts, dirty, save, typed, since>>

-----------------------------------------------------------------------------
(* Mutated Submit: the proxy as it is shown is submitted every time.       *)
SubmitProxy ==
  /\ save.phase = "idle"
  /\ save' = [NoSave EXCEPT !.phase = "sent", !.form = form, !.proxy = TRUE]
  /\ since' = {}
  /\ view' = IF view = "defaults" THEN "blind" ELSE view
  /\ UNCHANGED <<server, accounts, page, load, typed>>

(* saveSchedule: the proxy goes along only if it was typed into.           *)
Submit ==
  /\ save.phase = "idle"
  /\ save' = [NoSave EXCEPT !.phase = "sent", !.form = form, !.proxy = proxyDirty]
  /\ since' = {}
  /\ view' = IF view = "defaults" THEN "blind" ELSE view
  /\ UNCHANGED <<server, accounts, page, load, typed>>

(* UpdateSettings takes what was submitted and leaves the rest.            *)
Accept ==
  /\ save.phase = "sent"
  /\ server' = IF save.proxy THEN save.form ELSE [save.form EXCEPT ![Proxy] = server[Proxy]]
  /\ UNCHANGED <<accounts, page, load, typed, view>>

ServeSave ==
  /\ Accept
  /\ save' = [save EXCEPT !.phase = "answered", !.settings = Public(server')]
  /\ UNCHANGED since

(* The answer to a save is lost, or is a refusal: only a message is shown, *)
(* and the form can be submitted again.                                    *)
LoseSave ==
  /\ Accept
  /\ save' = NoSave /\ since' = {}

RefuseSave ==
  /\ save.phase = "sent"
  /\ save' = NoSave /\ since' = {}
  /\ UNCHANGED <<server, accounts, page, load, typed, view>>

(* The settings of the answer; an empty proxy there counts as missing.     *)
Answered ==
  [save.settings EXCEPT ![Proxy] = IF @ = Direct THEN save.form[Proxy] ELSE @]

(* Mutated SaveOk: loads under way are not told.                           *)
SaveUnnoticed ==
  /\ save.phase = "answered"
  /\ shown' = Answered
  /\ form' = IF save.moved THEN form ELSE shown'
  /\ dirty' = save.moved /\ proxyDirty' = save.proxyMoved
  /\ save' = NoSave
  /\ typed' = [i \in Inputs |-> IF i \in since THEN typed[i] ELSE Untyped]
  /\ since' = {} /\ view' = IF save.moved THEN view ELSE "server"
  /\ UNCHANGED <<server, accounts, listed, load>>

(* The answer replaces the settings, and the form unless it was typed into *)
(* since it was submitted.                                                 *)
SaveOk ==
  /\ save.phase = "answered"
  /\ shown' = Answered
  /\ form' = IF save.moved THEN form ELSE shown'
  /\ dirty' = save.moved /\ proxyDirty' = save.proxyMoved
  /\ load' = Moved
  /\ save' = NoSave
  /\ typed' = [i \in Inputs |-> IF i \in since THEN typed[i] ELSE Untyped]
  /\ since' = {} /\ view' = IF save.moved THEN view ELSE "server"
  /\ UNCHANGED <<server, accounts, listed>>

(* The scheduler, a handler or another page changes an account.            *)
Work ==
  /\ accounts < LastVersion
  /\ accounts' = accounts + 1
  /\ UNCHANGED <<server, page, load, save, history>>

Next ==
  \/ \E i \in Inputs : \E v \in Choices[i] : Edit(i, v)
  \/ \E l \in Loads :
       StartLoad(l) \/ ServeLoad(l) \/ FailLoad(l) \/ DropLoad(l) \/ EndLoad(l)
  \/ Submit \/ ServeSave \/ LoseSave \/ RefuseSave \/ SaveOk
  \/ Work

Spec == Init /\ [][Next]_vars

-----------------------------------------------------------------------------
(* What the user typed and has not saved stays in the form, whatever       *)
(* answers come in and in which order (loadState, saveSchedule).           *)
DraftKept == \A i \in Inputs : typed[i] # Untyped => form[i] = typed[i]

(* Unless a form was submitted that never showed the settings of the       *)
(* server, a save changes only what the user typed: no late answer puts    *)
(* old values into the form that the next save would write over newer ones.*)
UntouchedKept ==
  [][\A i \in Inputs : view = "server" /\ server'[i] # server[i] => typed[i] # Untyped]_vars

(* The proxy of the server, credentials included, changes only when the    *)
(* user typed a proxy, also before anything was loaded (saveSchedule).     *)
CredentialsKept == [][server'[Proxy] # server[Proxy] => typed[Proxy] # Untyped]_vars

(* Without requests under way and unsaved input the form shows the         *)
(* settings that the server has.                                           *)
Quiet == save.phase = "idle" /\ \A l \in Loads : load[l].phase = "idle"
FormIsServers == Quiet /\ ~dirty /\ view = "server" => form = Public(server)

(* The list of accounts never goes back to an older state (loadState).     *)
AccountsForward == [][listed' >= listed]_vars
=============================================================================
