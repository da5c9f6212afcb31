------------------------ MODULE SettingsPanelProofs -------------------------
(***************************************************************************)
(* Theorems about SettingsPanel for any inputs, choices and number of      *)
(* loads under way.  IInv relates the flags of the page (settingsDirty,    *)
(* proxyDirty, and whether a counter moved during a save) to what the user *)
(* typed; ListInv says which of the loads under way counts; ShownInv says  *)
(* what is known of the form, and of the answers that may still be         *)
(* rendered into it, while requests are under way.                         *)
(***************************************************************************)
EXTENDS SettingsPanel, TLAPS

USE DEF page, history

LoadType   == [phase: {"idle", "sent", "answered"}, settings: Settings,
               accounts: Versions, moved: BOOLEAN, superseded: BOOLEAN]
SaveType   == [phase: {"idle", "sent", "answered"}, form: Settings, proxy: BOOLEAN,
               settings: Settings, moved: BOOLEAN, proxyMoved: BOOLEAN]

LEMMA SettingsSet ==
  ASSUME NEW s \in Settings, NEW i \in Inputs, NEW v \in Choices[i]
  PROVE  [s EXCEPT ![i] = v] \in Settings
  BY DEF Settings

LEMMA SettingsParts ==
  ASSUME NEW s \in Settings
  PROVE  DOMAIN s = Inputs /\ \A i \in Inputs : s[i] \in Choices[i]
  BY DEF Settings

LEMMA PublicType ==
  ASSUME NEW s \in Settings
  PROVE  Public(s) \in Settings
  BY SettingsSet, SettingsParts, InputsAssumption DEF Public

LEMMA TypeInit == Init => TypeOK
<1> SUFFICES ASSUME Init PROVE TypeOK
  OBVIOUS
<1>1. 0 \in Versions
  BY InputsAssumption DEF Versions
<1>2. load \in [Loads -> LoadType]
  BY <1>1, InputsAssumption DEF Init, NoLoad, LoadType
<1>3. save \in SaveType
  BY InputsAssumption DEF Init, NoSave, SaveType
<1>4. NothingTyped \in Drafts
  BY DEF NothingTyped, Drafts
<1> QED BY <1>1, <1>2, <1>3, <1>4, InputsAssumption DEF Init, TypeOK, LoadType, SaveType

LEMMA MovedType ==
  ASSUME load \in [Loads -> LoadType]
  PROVE  Moved \in [Loads -> LoadType]
<1> SUFFICES ASSUME NEW l \in Loads PROVE [load[l] EXCEPT !.moved = TRUE] \in LoadType
  BY DEF Moved
<1> QED BY DEF LoadType

LEMMA TypeStep == TypeOK /\ [Next]_vars => TypeOK'
<1> SUFFICES ASSUME TypeOK, [Next]_vars PROVE TypeOK'
  OBVIOUS
<1>a. /\ server \in Settings /\ shown \in Settings /\ form \in Settings
      /\ accounts \in Versions /\ listed \in Versions
      /\ load \in [Loads -> LoadType] /\ save \in SaveType
  BY DEF TypeOK, LoadType, SaveType
<1>b. NoSave \in SaveType
  BY InputsAssumption DEF NoSave, SaveType
<1>c. NoLoad \in LoadType
  BY InputsAssumption DEF NoLoad, LoadType, Versions
<1>d. Proxy \in Inputs
  BY InputsAssumption
<1>1. ASSUME NEW i \in Inputs, NEW v \in Choices[i], Edit(i, v) PROVE TypeOK'
  <2>1. form' \in Settings
    BY <1>1, <1>a, SettingsSet DEF Edit
  <2>2. load' \in [Loads -> LoadType]
    BY <1>1, <1>a, MovedType DEF Edit
  <2>3. save' \in SaveType
    BY <1>1, <1>a DEF Edit, SaveType
  <2>4. proxyDirty' \in BOOLEAN
    <3>1. proxyDirty' = (proxyDirty \/ i = Proxy)
      BY <1>1 DEF Edit
    <3> QED BY <3>1, Zenon
  <2>5. typed' \in Drafts
    BY <1>1 DEF Edit, TypeOK, Drafts
  <2>6. since' \subseteq Inputs
    BY <1>1 DEF Edit, TypeOK
  <2> QED BY <1>1, <2>1, <2>2, <2>3, <2>4, <2>5, <2>6 DEF Edit, TypeOK, LoadType, SaveType
<1>2. ASSUME NEW l \in Loads, StartLoad(l) PROVE TypeOK'
  <2>1. load' \in [Loads -> LoadType]
    <3>1. [NoLoad EXCEPT !.phase = "sent"] \in LoadType
      BY <1>c DEF LoadType
    <3>2. \A k \in Loads : [load[k] EXCEPT !.superseded = TRUE] \in LoadType
      BY <1>a DEF LoadType
    <3> QED BY <1>2, <1>a, <3>1, <3>2 DEF StartLoad
  <2> QED BY <1>2, <2>1 DEF StartLoad, TypeOK, LoadType
<1>3. ASSUME NEW l \in Loads, ServeLoad(l) PROVE TypeOK'
  <2>1. load' \in [Loads -> LoadType]
    <3>1. Public(server) \in Settings
      BY <1>a, PublicType
    <3>2. [load[l] EXCEPT !.phase = "answered", !.settings = Public(server),
                          !.accounts = accounts] \in LoadType
      <4> HIDE DEF Public
      <4> QED BY <1>a, <3>1 DEF LoadType
    <3>3. load' = [load EXCEPT ![l] = [load[l] EXCEPT !.phase = "answered",
                     !.settings = Public(server), !.accounts = accounts]]
      BY <1>3, <1>a DEF ServeLoad
    <3> QED BY <1>a, <3>2, <3>3
  <2> QED BY <1>3, <2>1 DEF ServeLoad, TypeOK, LoadType
<1>4. ASSUME NEW l \in Loads, FailLoad(l) PROVE TypeOK'
  <2>1. load' \in [Loads -> LoadType] /\ form' \in Settings
    BY <1>4, <1>a, <1>c DEF FailLoad, Forget
  <2> QED BY <1>4, <2>1 DEF FailLoad, TypeOK, LoadType
<1>5. ASSUME NEW l \in Loads, DropLoad(l) PROVE TypeOK'
  <2>1. load' \in [Loads -> LoadType]
    BY <1>5, <1>a, <1>c DEF DropLoad, Forget
  <2> QED BY <1>5, <2>1 DEF DropLoad, TypeOK, LoadType
<1>6. ASSUME NEW l \in Loads, EndLoad(l) PROVE TypeOK'
  <2>1. load' \in [Loads -> LoadType]
    BY <1>6, <1>a, <1>c DEF EndLoad, Forget
  <2>2. load[l] \in LoadType
    BY <1>a
  <2>3. shown' \in Settings /\ listed' \in Versions
    BY <1>6, <1>a, <2>2 DEF EndLoad, LoadType
  <2>4. form' \in Settings
    BY <1>6, <1>a, <2>3 DEF EndLoad
  <2>5. proxyDirty' \in BOOLEAN
    <3>1. proxyDirty' = (proxyDirty /\ (dirty \/ ~Takes(l)))
      BY <1>6 DEF EndLoad
    <3> QED BY <3>1, Zenon
  <2> QED BY <1>6, <2>1, <2>3, <2>4, <2>5 DEF EndLoad, TypeOK, LoadType
<1>7. ASSUME Submit PROVE TypeOK'
  <2>1. save' \in SaveType
    <3>1. proxyDirty \in BOOLEAN
      BY DEF TypeOK
    <3> QED BY <1>7, <1>a, <1>b, <3>1 DEF Submit, SaveType
  <2> QED BY <1>7, <2>1 DEF Submit, TypeOK, SaveType
<1>8. ASSUME Accept PROVE server' \in Settings
  <2>1. save.form \in Settings
    BY <1>a DEF SaveType
  <2>2. server[Proxy] \in Choices[Proxy]
    BY <1>a, <1>d, SettingsParts
  <2>3. [save.form EXCEPT ![Proxy] = server[Proxy]] \in Settings
    BY <2>1, <2>2, <1>d, SettingsSet
  <2> QED BY <1>8, <2>1, <2>3 DEF Accept
<1>9. ASSUME ServeSave PROVE TypeOK'
  <2>1. server' \in Settings
    BY <1>8, <1>9 DEF ServeSave
  <2>2. save' \in SaveType
    BY <1>9, <1>a, <2>1, PublicType DEF ServeSave, SaveType
  <2> QED BY <1>9, <2>1, <2>2 DEF ServeSave, Accept, TypeOK, SaveType
<1>10. ASSUME LoseSave PROVE TypeOK'
  <2>1. server' \in Settings
    BY <1>8, <1>10 DEF LoseSave
  <2> QED BY <1>10, <1>b, <2>1 DEF LoseSave, Accept, TypeOK, SaveType
<1>11. ASSUME RefuseSave PROVE TypeOK'
  BY <1>11, <1>b DEF RefuseSave, TypeOK, SaveType
<1>12. ASSUME SaveOk PROVE TypeOK'
  <2>1. Answered \in Settings
    <3>1. save.settings \in Settings /\ save.form \in Settings
      BY <1>a DEF SaveType
    <3>2. save.settings[Proxy] \in Choices[Proxy] /\ save.form[Proxy] \in Choices[Proxy]
      BY <3>1, <1>d, SettingsParts
    <3> QED BY <3>1, <3>2, <1>d, SettingsSet DEF Answered
  <2>2. load' \in [Loads -> LoadType]
    BY <1>12, <1>a, MovedType DEF SaveOk
  <2>3. dirty' \in BOOLEAN /\ proxyDirty' \in BOOLEAN
    BY <1>12, <1>a DEF SaveOk, SaveType
  <2>4. typed' \in Drafts
    BY <1>12 DEF SaveOk, TypeOK, Drafts
  <2>5. shown' \in Settings /\ form' \in Settings
    BY <1>12, <1>a, <2>1 DEF SaveOk
  <2>6. save' \in SaveType
    BY <1>12, <1>b DEF SaveOk
  <2>7. since' \subseteq Inputs /\ view' \in {"defaults", "blind", "server"}
    BY <1>12 DEF SaveOk, TypeOK
  <2>8. UNCHANGED <<server, accounts, listed>>
    BY <1>12 DEF SaveOk
  <2> QED BY <2>2, <2>3, <2>4, <2>5, <2>6, <2>7, <2>8 DEF TypeOK, LoadType, SaveType
<1>13. ASSUME Work PROVE TypeOK'
  <2>1. accounts' \in Versions
    BY <1>13, <1>a, InputsAssumption DEF Work, Versions
  <2> QED BY <1>13, <2>1 DEF Work, TypeOK
<1>14. ASSUME UNCHANGED vars PROVE TypeOK'
  BY <1>14 DEF vars, TypeOK
<1> QED BY <1>1, <1>2, <1>3, <1>4, <1>5, <1>6, <1>7, <1>9, <1>10, <1>11, <1>12, <1>13, <1>14 DEF Next

(* The page never holds a value that is none of the choices of its input.  *)
THEOREM TypeCorrect == Spec => []TypeOK
  BY TypeInit, TypeStep, PTL DEF Spec

-----------------------------------------------------------------------------
(* A form with something typed is dirty.                                   *)
DraftIsDirty == \A i \in Inputs : typed[i] # Untyped => dirty

(* A proxy is submitted only if it was typed.                              *)
ProxyIsTyped ==
  /\ proxyDirty => typed[Proxy] # Untyped
  /\ save.proxy => typed[Proxy] # Untyped

(* The counters tell what was typed since the form was submitted.          *)
CountersTell ==
  /\ save.phase = "idle" => since = {} /\ ~save.proxyMoved
  /\ since # {} => save.moved
  /\ save.proxyMoved => Proxy \in since
  /\ \A i \in since : typed[i] # Untyped

IInv == TypeOK /\ DraftKept /\ DraftIsDirty /\ ProxyIsTyped /\ CountersTell

LEMMA InitHolds == Init => IInv
<1> SUFFICES ASSUME Init PROVE IInv
  OBVIOUS
<1>1. \A i \in Inputs : typed[i] = Untyped
  BY DEF Init, NothingTyped
<1>2. save.proxy = FALSE /\ save.proxyMoved = FALSE /\ since = {} /\ proxyDirty = FALSE
  BY DEF Init, NoSave
<1> QED BY <1>1, <1>2, TypeInit DEF IInv, DraftKept, DraftIsDirty, ProxyIsTyped, CountersTell

LEMMA EditKeeps ==
  ASSUME IInv, TypeOK', NEW i \in Inputs, NEW v \in Choices[i], Edit(i, v)
  PROVE  IInv'
<1>1. v # Untyped /\ Proxy \in Inputs
  BY InputsAssumption
<1>2. /\ typed' = [typed EXCEPT ![i] = v] /\ form' = [form EXCEPT ![i] = v] /\ dirty' = TRUE
      /\ DOMAIN typed = Inputs /\ DOMAIN form = Inputs
  BY SettingsParts DEF IInv, TypeOK, Drafts, Edit
<1>3. DraftKept' /\ DraftIsDirty'
  BY <1>2 DEF IInv, DraftKept, DraftIsDirty
<1>4. (\A j \in Inputs : typed[j] # Untyped => typed'[j] # Untyped) /\ typed'[i] # Untyped
  BY <1>1, <1>2
<1>5. save \in SaveType /\ since \subseteq Inputs
  BY DEF IInv, TypeOK, SaveType
<1>6. ProxyIsTyped'
  <2>1. proxyDirty' => proxyDirty \/ i = Proxy
    BY DEF Edit
  <2>2. save'.proxy = save.proxy
    BY <1>5 DEF Edit, SaveType
  <2> QED BY <2>1, <2>2, <1>1, <1>4 DEF IInv, ProxyIsTyped
<1>7. CountersTell'
  <2>1. CASE save.phase = "idle"
    BY <2>1, <1>4, <1>5 DEF IInv, CountersTell, Edit
  <2>2. CASE save.phase # "idle"
    <3>1. since' = since \cup {i} /\ save' = [save EXCEPT !.moved = TRUE, !.proxyMoved = IF i = Proxy THEN TRUE ELSE @]
      BY <2>2 DEF Edit
    <3>2. save'.phase = save.phase /\ save'.moved = TRUE
      BY <3>1, <1>5 DEF SaveType
    <3>3. save'.proxyMoved => save.proxyMoved \/ i = Proxy
      BY <3>1, <1>5 DEF SaveType
    <3> QED BY <2>2, <3>1, <3>2, <3>3, <1>4, <1>5 DEF IInv, CountersTell
  <2> QED BY <2>1, <2>2
<1> QED BY <1>3, <1>6, <1>7 DEF IInv

(* The end of a load touches the form only where nothing was typed.        *)
LEMMA RenderKeeps ==
  ASSUME IInv, TypeOK', dirty => form' = form, proxyDirty' => proxyDirty,
         UNCHANGED <<dirty, save, typed, since>>
  PROVE  IInv'
  BY DEF IInv, DraftKept, DraftIsDirty, ProxyIsTyped, CountersTell

(* The end of a save that leaves the form as it is.                        *)
LEMMA SettledKeeps ==
  ASSUME IInv, TypeOK', save' = NoSave, since' = {},
         UNCHANGED <<form, dirty, proxyDirty, typed>>
  PROVE  IInv'
<1>1. save'.proxy = FALSE /\ save'.proxyMoved = FALSE
  BY DEF NoSave
<1> QED BY <1>1 DEF IInv, DraftKept, DraftIsDirty, ProxyIsTyped, CountersTell

LEMMA SaveOkKeeps ==
  ASSUME IInv, TypeOK', SaveOk
  PROVE  IInv'
<1>1. save'.proxy = FALSE /\ save'.proxyMoved = FALSE /\ since' = {}
  BY DEF SaveOk, NoSave
<1>2. \A i \in Inputs : typed'[i] # Untyped => i \in since /\ typed'[i] = typed[i]
  BY DEF SaveOk
<1>3. (\E i \in Inputs : typed'[i] # Untyped) => save.moved
  BY <1>2 DEF IInv, CountersTell
<1>4. (save.moved => form' = form) /\ (save.moved => dirty')
  BY DEF SaveOk
<1>5. DraftKept' /\ DraftIsDirty'
  BY <1>2, <1>3, <1>4 DEF IInv, DraftKept, DraftIsDirty
<1>6. proxyDirty' => typed'[Proxy] # Untyped
  <2>1. proxyDirty' => save.proxyMoved
    BY DEF SaveOk
  <2>2. Proxy \in since => typed'[Proxy] = typed[Proxy] /\ typed[Proxy] # Untyped
    BY InputsAssumption DEF IInv, CountersTell, SaveOk
  <2> QED BY <2>1, <2>2 DEF IInv, CountersTell
<1> QED BY <1>1, <1>5, <1>6 DEF IInv, ProxyIsTyped, CountersTell

LEMMA Inductive == IInv /\ [Next]_vars => IInv'
<1> SUFFICES ASSUME IInv, [Next]_vars PROVE IInv'
  OBVIOUS
<1>a. TypeOK'
  BY TypeStep DEF IInv
<1>1. ASSUME NEW i \in Inputs, NEW v \in Choices[i], Edit(i, v) PROVE IInv'
  BY <1>1, <1>a, EditKeeps
<1>2. ASSUME NEW l \in Loads, StartLoad(l) \/ ServeLoad(l) \/ DropLoad(l) PROVE IInv'
  BY <1>2, <1>a, RenderKeeps DEF StartLoad, ServeLoad, DropLoad
<1>3. ASSUME NEW l \in Loads, FailLoad(l) PROVE IInv'
  BY <1>3, <1>a, RenderKeeps DEF FailLoad
<1>4. ASSUME NEW l \in Loads, EndLoad(l) PROVE IInv'
  <2>1. proxyDirty' => proxyDirty
    BY <1>4 DEF EndLoad
  <2> QED BY <1>4, <2>1, <1>a, RenderKeeps DEF EndLoad
<1>5. ASSUME Submit PROVE IInv'
  <2>1. save'.proxy = proxyDirty /\ save'.proxyMoved = FALSE /\ save'.phase = "sent"
    BY <1>5 DEF Submit, NoSave
  <2> QED BY <1>5, <1>a, <2>1 DEF Submit, IInv, DraftKept, DraftIsDirty, ProxyIsTyped, CountersTell
<1>6. ASSUME ServeSave PROVE IInv'
  <2>1. save \in SaveType
    BY DEF IInv, TypeOK, SaveType
  <2>2. /\ save'.proxy = save.proxy /\ save'.proxyMoved = save.proxyMoved
        /\ save'.moved = save.moved /\ save'.phase = "answered"
    BY <1>6, <2>1 DEF ServeSave, SaveType
  <2>3. UNCHANGED <<form, dirty, proxyDirty, typed, since>>
    BY <1>6 DEF ServeSave, Accept
  <2>4. save.phase = "sent"
    BY <1>6 DEF ServeSave, Accept
  <2> QED BY <1>a, <2>2, <2>3, <2>4 DEF IInv, DraftKept, DraftIsDirty, ProxyIsTyped, CountersTell
<1>7. ASSUME LoseSave \/ RefuseSave PROVE IInv'
  BY <1>7, <1>a, SettledKeeps DEF LoseSave, RefuseSave, Accept
<1>8. ASSUME SaveOk PROVE IInv'
  BY <1>8, <1>a, SaveOkKeeps
<1>9. ASSUME Work \/ UNCHANGED vars PROVE IInv'
  BY <1>9, <1>a, RenderKeeps DEF Work, vars
<1> QED BY <1>1, <1>2, <1>3, <1>4, <1>5, <1>6, <1>7, <1>8, <1>9 DEF Next

LEMMA Invariance == Spec => []IInv
<1>1. Init => IInv
  BY InitHolds
<1>2. IInv /\ [Next]_vars => IInv'
  BY Inductive
<1> HIDE DEF IInv
<1> QED BY <1>1, <1>2, PTL DEF Spec

(* loadState, saveSchedule: what the user typed stays in the form until it *)
(* was saved, whatever answers come in and in which order.                 *)
THEOREM DraftsSurvive == Spec => []DraftKept
<1>1. IInv => DraftKept
  BY DEF IInv
<1> QED BY <1>1, Invariance, PTL

(* saveSchedule: no save changes the proxy of the server, with the         *)
(* credentials the page never sees, unless the user typed a proxy.         *)
THEOREM CredentialsSurvive == Spec => CredentialsKept
<1>1. IInv /\ [Next]_vars => [server'[Proxy] # server[Proxy] => typed[Proxy] # Untyped]_vars
  <2> SUFFICES ASSUME IInv, Next, server'[Proxy] # server[Proxy]
               PROVE  typed[Proxy] # Untyped
    BY DEF vars
  <2>1. CASE ServeSave \/ LoseSave
    <3>1. CASE save.proxy
      BY <3>1 DEF IInv, ProxyIsTyped
    <3>2. CASE ~save.proxy
      <4>1. server' = [save.form EXCEPT ![Proxy] = server[Proxy]]
        BY <2>1, <3>2 DEF ServeSave, LoseSave, Accept
      <4>2. save.form \in Settings
        BY DEF IInv, TypeOK
      <4>3. server'[Proxy] = server[Proxy]
        BY <4>1, <4>2, SettingsParts, InputsAssumption
      <4> QED BY <4>3
    <3> QED BY <3>1, <3>2
  <2>2. CASE ~(ServeSave \/ LoseSave)
    <3>1. server' = server
      BY <2>2 DEF Next, Edit, StartLoad, ServeLoad, FailLoad, DropLoad, EndLoad, Submit,
                  RefuseSave, SaveOk, Work
    <3> QED BY <3>1
  <2> QED BY <2>1, <2>2
<1> HIDE DEF IInv
<1> QED BY <1>1, Invariance, PTL DEF Spec, CredentialsKept

-----------------------------------------------------------------------------
(* Of the loads under way one is not superseded, and its answer, once it   *)
(* is there, is not older than the list the page shows.                    *)
ListInv ==
  /\ listed <= accounts
  /\ \A l \in Loads : load[l].phase = "answered" =>
       load[l].accounts <= accounts /\ (~load[l].superseded => listed <= load[l].accounts)
  /\ \A k, l \in Loads :
       /\ load[k].phase # "idle" /\ ~load[k].superseded
       /\ load[l].phase # "idle" /\ ~load[l].superseded
       => k = l

LEMMA LoadParts ==
  ASSUME TypeOK
  PROVE  load \in [Loads -> LoadType] /\ accounts \in Int /\ listed \in Int
         /\ \A l \in Loads : load[l].accounts \in Int
<1>1. load \in [Loads -> LoadType]
  BY DEF TypeOK, LoadType
<1>2. Versions \subseteq Int
  BY InputsAssumption DEF Versions
<1> QED BY <1>1, <1>2 DEF TypeOK, LoadType

(* What the steps of the page do to its loads.                             *)
LEMMA MovedFields ==
  ASSUME TypeOK, load' = Moved, NEW l \in Loads
  PROVE  /\ load'[l].phase = load[l].phase /\ load'[l].accounts = load[l].accounts
         /\ load'[l].superseded = load[l].superseded
         /\ load[l].phase # "idle" => load'[l].moved
<1>1. load[l] \in LoadType /\ load'[l] = IF load[l].phase = "idle" THEN load[l] ELSE [load[l] EXCEPT !.moved = TRUE]
  BY LoadParts DEF Moved
<1> QED BY <1>1 DEF LoadType

LEMMA ForgetFields ==
  ASSUME TypeOK, NEW l \in Loads, Forget(l), NEW k \in Loads
  PROVE  load'[k] = IF k = l THEN NoLoad ELSE load[k]
  BY LoadParts DEF Forget

LEMMA StartFields ==
  ASSUME TypeOK, NEW l \in Loads, StartLoad(l), NEW k \in Loads
  PROVE  /\ k = l => load'[k].phase = "sent"
         /\ k # l => /\ load'[k].phase = load[k].phase /\ load'[k].accounts = load[k].accounts
                     /\ load'[k].moved = load[k].moved /\ load'[k].settings = load[k].settings
                     /\ load'[k].superseded = (load[k].superseded \/ load[k].phase # "idle")
<1>1. load[k] \in LoadType
  BY LoadParts
<1>2. k = l => load'[k] = [NoLoad EXCEPT !.phase = "sent"]
  BY DEF StartLoad
<1>3. k # l => load'[k] = IF load[k].phase = "idle" THEN load[k] ELSE [load[k] EXCEPT !.superseded = TRUE]
  BY DEF StartLoad
<1> QED BY <1>1, <1>2, <1>3, Zenon DEF NoLoad, LoadType

LEMMA ServeFields ==
  ASSUME TypeOK, NEW l \in Loads, ServeLoad(l), NEW k \in Loads
  PROVE  /\ load'[k].superseded = load[k].superseded /\ load'[k].moved = load[k].moved
         /\ k = l => /\ load'[k].phase = "answered" /\ load'[k].accounts = accounts
                     /\ load'[k].settings = Public(server)
         /\ k # l => load'[k] = load[k]
<1>1. load[k] \in LoadType
  BY LoadParts
<1>2. k # l => load'[k] = load[k]
  BY LoadParts DEF ServeLoad
<1>3. k = l => load'[k] = [load[k] EXCEPT !.phase = "answered", !.settings = Public(server),
                                          !.accounts = accounts]
  BY LoadParts DEF ServeLoad
<1> HIDE DEF Public
<1> QED BY <1>1, <1>2, <1>3 DEF LoadType

LEMMA ListInvariance == Spec => []ListInv
<1>1. Init => ListInv
  BY DEF Init, ListInv, NoLoad
<1>2. TypeOK /\ ListInv /\ [Next]_vars => ListInv'
  <2> SUFFICES ASSUME TypeOK, ListInv, [Next]_vars PROVE ListInv'
    OBVIOUS
  <2>a. accounts \in Int /\ listed \in Int /\ \A l \in Loads : load[l].accounts \in Int
    BY LoadParts
  <2>1. ASSUME load' = Moved, UNCHANGED <<accounts, listed>> PROVE ListInv'
    BY <2>1, MovedFields DEF ListInv
  <2>2. ASSUME NEW l \in Loads, StartLoad(l) PROVE ListInv'
    <3>1. UNCHANGED <<accounts, listed>>
      BY <2>2 DEF StartLoad
    <3> QED BY <2>2, <3>1, StartFields DEF ListInv
  <2>3. ASSUME NEW l \in Loads, ServeLoad(l) PROVE ListInv'
    <3>1. UNCHANGED <<accounts, listed>> /\ load[l].phase = "sent"
      BY <2>3 DEF ServeLoad
    <3> QED BY <2>3, <2>a, <3>1, ServeFields DEF ListInv
  <2>4. ASSUME NEW l \in Loads, FailLoad(l) \/ DropLoad(l) PROVE ListInv'
    <3>1. UNCHANGED <<accounts, listed>> /\ Forget(l)
      BY <2>4 DEF FailLoad, DropLoad
    <3>2. NoLoad.phase = "idle"
      BY DEF NoLoad
    <3> QED BY <3>1, <3>2, ForgetFields DEF ListInv
  <2>5. ASSUME NEW l \in Loads, EndLoad(l) PROVE ListInv'
    <3>1. /\ accounts' = accounts /\ listed' = load[l].accounts /\ Forget(l)
          /\ load[l].phase = "answered" /\ ~load[l].superseded
      BY <2>5 DEF EndLoad
    <3>2. NoLoad.phase = "idle"
      BY DEF NoLoad
    <3>3. \A k \in Loads : load'[k].phase # "idle" => k # l /\ load'[k] = load[k] /\ load[k].superseded
      BY <3>1, <3>2, ForgetFields DEF ListInv
    <3> QED BY <3>1, <3>3 DEF ListInv
  <2>6. ASSUME Work PROVE ListInv'
    <3>1. accounts' = accounts + 1 /\ UNCHANGED <<listed, load>>
      BY <2>6 DEF Work
    <3> QED BY <2>a, <3>1 DEF ListInv
  <2>7. ASSUME UNCHANGED <<accounts, listed, load>> PROVE ListInv'
    BY <2>7 DEF ListInv
  <2>8. ASSUME NEW i \in Inputs, NEW v \in Choices[i], Edit(i, v) PROVE ListInv'
    BY <2>1, <2>8 DEF Edit
  <2>9. ASSUME SaveOk PROVE ListInv'
    BY <2>1, <2>9 DEF SaveOk
  <2>10. ASSUME Submit \/ ServeSave \/ LoseSave \/ RefuseSave \/ UNCHANGED vars PROVE ListInv'
    BY <2>7, <2>10 DEF Submit, ServeSave, LoseSave, RefuseSave, Accept, vars
  <2> QED BY <2>2, <2>3, <2>4, <2>5, <2>6, <2>8, <2>9, <2>10 DEF Next
<1> QED BY <1>1, <1>2, TypeCorrect, PTL DEF Spec

(* loadState: whatever order the answers come in, the list of accounts     *)
(* never goes back to an older state.                                      *)
THEOREM ListNeverOlder == Spec => AccountsForward
<1>1. TypeOK /\ ListInv /\ [Next]_vars => [listed' >= listed]_vars
  <2> SUFFICES ASSUME TypeOK, ListInv, Next PROVE listed' >= listed
    BY DEF vars
  <2>a. listed \in Int /\ \A l \in Loads : load[l].accounts \in Int
    BY LoadParts
  <2>1. ASSUME NEW l \in Loads, EndLoad(l) PROVE listed' >= listed
    BY <2>1, <2>a DEF EndLoad, ListInv
  <2>2. CASE ~ \E l \in Loads : EndLoad(l)
    <3>1. listed' = listed
      BY <2>2 DEF Next, Edit, StartLoad, ServeLoad, FailLoad, DropLoad, Submit, ServeSave,
                  LoseSave, RefuseSave, Accept, SaveOk, Work
    <3> QED BY <2>a, <3>1
  <2> QED BY <2>1, <2>2
<1> QED BY <1>1, ListInvariance, TypeCorrect, PTL DEF Spec, AccountsForward

-----------------------------------------------------------------------------
(* What is known of the form while late answers are under way.             *)
Fresh(l) == load[l].phase = "answered" /\ ~load[l].moved

FlagsTell ==
  /\ typed[Proxy] # Untyped => proxyDirty
  /\ Proxy \in since => save.proxyMoved
  /\ view = "defaults" => save.phase = "idle"

(* A form with nothing to save shows the server's settings, and every      *)
(* answer that may still replace it holds them.                            *)
CleanShown ==
  ~dirty => /\ view = "server" => form = Public(server) /\ shown = Public(server)
            /\ view # "blind" => \A l \in Loads : Fresh(l) => load[l].settings = Public(server)

(* An input that was not typed into would be saved as the server has it.   *)
UntypedHeld ==
  view = "server" => \A i \in Inputs \ {Proxy} : typed[i] = Untyped =>
    form[i] = server[i] /\ (save.phase = "sent" => save.form[i] = server[i])

(* What the save under way carries, and what its answer is.                *)
SaveTells ==
  /\ \A i \in Inputs : save.phase # "idle" /\ typed[i] # Untyped /\ i \notin since =>
       save.form[i] = typed[i] /\ (i = Proxy => save.proxy)
  /\ save.phase = "answered" =>
       /\ save.settings = Public(server)
       /\ \A i \in Inputs : i # Proxy \/ save.proxy => server[i] = save.form[i]

(* No proxy on the server and none typed: none in the form either, so that *)
(* an answer without a proxy is completed by an empty input.               *)
DirectHeld ==
  server[Proxy] = Direct =>
    /\ typed[Proxy] = Untyped => form[Proxy] = Direct
    /\ save.phase # "idle" /\ ~save.proxy => save.form[Proxy] = Direct
    /\ ~dirty => /\ shown[Proxy] = Direct
                 /\ \A l \in Loads : Fresh(l) => load[l].settings[Proxy] = Direct

ShownInv == FlagsTell /\ CleanShown /\ UntypedHeld /\ SaveTells /\ DirectHeld

LEMMA PublicParts ==
  ASSUME NEW s \in Settings
  PROVE  /\ \A i \in Inputs \ {Proxy} : Public(s)[i] = s[i]
         /\ Public(s)[Proxy] = Strip[s[Proxy]]
         /\ Public(s)[Proxy] = Direct <=> s[Proxy] = Direct
  BY SettingsParts, InputsAssumption DEF Public

LEMMA SettingsEqual ==
  ASSUME NEW s \in Settings, NEW t \in Settings, \A i \in Inputs : s[i] = t[i]
  PROVE  s = t
  BY DEF Settings

(* A step that leaves the form and the save alone and brings no answer     *)
(* that counts.                                                            *)
LEMMA QuietKeeps ==
  ASSUME ShownInv, UNCHANGED <<server, shown, form, dirty, proxyDirty, save, typed, since, view>>,
         \A l \in Loads : Fresh(l)' => Fresh(l) /\ load'[l].settings = load[l].settings
  PROVE  ShownInv'
<1>1. FlagsTell' /\ UntypedHeld' /\ SaveTells'
  BY DEF ShownInv, FlagsTell, UntypedHeld, SaveTells, Public
<1>2. CleanShown' /\ DirectHeld'
  BY DEF ShownInv, CleanShown, DirectHeld, Public
<1> QED BY <1>1, <1>2 DEF ShownInv

LEMMA EditShown ==
  ASSUME IInv, ShownInv, NEW i \in Inputs, NEW v \in Choices[i], Edit(i, v)
  PROVE  ShownInv'
<1>a. v # Untyped /\ Proxy \in Inputs
  BY InputsAssumption
<1>b. save \in SaveType /\ since \subseteq Inputs
  BY DEF IInv, TypeOK, SaveType
<1>1. /\ typed' = [typed EXCEPT ![i] = v] /\ form' = [form EXCEPT ![i] = v] /\ dirty' = TRUE
      /\ UNCHANGED <<server, shown, view>> /\ proxyDirty' = (proxyDirty \/ i = Proxy)
      /\ DOMAIN typed = Inputs /\ DOMAIN form = Inputs
  BY SettingsParts DEF IInv, TypeOK, Drafts, Edit
<1>2. /\ UNCHANGED <<save.phase, save.form, save.proxy, save.settings>>
      /\ save.phase # "idle" => since' = since \cup {i}
      /\ save.phase = "idle" => save' = save /\ since' = since
      /\ save.phase # "idle" => save'.proxyMoved = (save.proxyMoved \/ i = Proxy)
  <2>1. CASE save.phase = "idle"
    BY <2>1 DEF Edit
  <2>2. CASE save.phase # "idle"
    <3>1. save' = [save EXCEPT !.moved = TRUE, !.proxyMoved = IF i = Proxy THEN TRUE ELSE @] /\ since' = since \cup {i}
      BY <2>2 DEF Edit
    <3> QED BY <2>2, <3>1, <1>b DEF SaveType
  <2> QED BY <2>1, <2>2
<1>3. typed'[i] # Untyped /\ \A j \in Inputs : j # i => typed'[j] = typed[j] /\ form'[j] = form[j]
  BY <1>a, <1>1
<1>4. FlagsTell'
  BY <1>a, <1>1, <1>2, <1>3 DEF ShownInv, FlagsTell
<1>5. UntypedHeld'
  BY <1>1, <1>2, <1>3 DEF ShownInv, UntypedHeld
<1>6. SaveTells'
  <2>1. \A j \in Inputs : save'.phase # "idle" /\ typed'[j] # Untyped /\ j \notin since' =>
           save'.form[j] = typed'[j] /\ (j = Proxy => save'.proxy)
    BY <1>2, <1>3 DEF ShownInv, SaveTells
  <2>2. save'.phase = "answered" => /\ save'.settings = Public(server')
       /\ \A j \in Inputs : j # Proxy \/ save'.proxy => server'[j] = save'.form[j]
    BY <1>1, <1>2 DEF ShownInv, SaveTells
  <2> QED BY <2>1, <2>2 DEF SaveTells, Public
<1>7. DirectHeld'
  BY <1>a, <1>1, <1>2, <1>3 DEF ShownInv, DirectHeld
<1> QED BY <1>1, <1>4, <1>5, <1>6, <1>7 DEF ShownInv, CleanShown

LEMMA LoadShown ==
  ASSUME IInv, ShownInv, NEW l \in Loads,
         StartLoad(l) \/ ServeLoad(l) \/ FailLoad(l) \/ DropLoad(l) \/ EndLoad(l)
  PROVE  ShownInv'
<1>a. TypeOK /\ server \in Settings
  BY DEF IInv, TypeOK
<1>b. UNCHANGED <<server, dirty, save, typed, since>>
  BY DEF StartLoad, ServeLoad, FailLoad, DropLoad, EndLoad
<1>1. CASE StartLoad(l)
  <2>1. \A k \in Loads : Fresh(k)' => Fresh(k) /\ load'[k].settings = load[k].settings
    BY <1>1, <1>a, StartFields DEF Fresh
  <2> QED BY <1>1, <2>1, QuietKeeps DEF StartLoad
<1>2. CASE DropLoad(l)
  <2>1. \A k \in Loads : Fresh(k)' => Fresh(k) /\ load'[k].settings = load[k].settings
    BY <1>2, <1>a, ForgetFields DEF Fresh, DropLoad, NoLoad
  <2> QED BY <1>2, <2>1, QuietKeeps DEF DropLoad
<1>3. CASE ServeLoad(l)
  <2>1. \A k \in Loads : Fresh(k)' => \/ Fresh(k) /\ load'[k].settings = load[k].settings
                                      \/ load'[k].settings = Public(server)
    BY <1>3, <1>a, ServeFields DEF Fresh
  <2>2. UNCHANGED <<shown, form, proxyDirty, view>>
    BY <1>3 DEF ServeLoad
  <2>3. FlagsTell' /\ UntypedHeld' /\ SaveTells'
    BY <1>b, <2>2 DEF ShownInv, FlagsTell, UntypedHeld, SaveTells, Public
  <2>4. CleanShown'
    BY <1>b, <2>1, <2>2 DEF ShownInv, CleanShown, Public
  <2>5. DirectHeld'
    <3>1. server[Proxy] = Direct => Public(server)[Proxy] = Direct
      BY <1>a, PublicParts
    <3> QED BY <1>b, <2>1, <2>2, <3>1 DEF ShownInv, DirectHeld
  <2> QED BY <2>3, <2>4, <2>5 DEF ShownInv
<1>4. CASE FailLoad(l) \/ EndLoad(l)
  <2>1. \A k \in Loads : Fresh(k)' => Fresh(k) /\ load'[k].settings = load[k].settings
    BY <1>4, <1>a, ForgetFields DEF Fresh, FailLoad, EndLoad, NoLoad
  <2>2. /\ form' = form \/ (~dirty /\ form' = shown')
        /\ shown' = shown \/ (Fresh(l) /\ shown' = load[l].settings)
        /\ dirty => form' = form /\ proxyDirty' = proxyDirty
        /\ view' = view \/ (view = "defaults" /\ view' = "server" /\ Fresh(l) /\ ~dirty
                            /\ shown' = load[l].settings /\ form' = shown')
    <3>1. CASE FailLoad(l)
      BY <3>1 DEF FailLoad
    <3>2. CASE EndLoad(l)
      <4>1. proxyDirty' = (proxyDirty /\ (dirty \/ ~Takes(l)))
        BY <3>2 DEF EndLoad
      <4>2. dirty => proxyDirty' = proxyDirty
        <5>1. proxyDirty \in BOOLEAN
          BY <1>a DEF TypeOK
        <5> QED BY <4>1, <5>1, Zenon
      <4>3. /\ form' = IF dirty THEN form ELSE shown'
            /\ shown' = IF Takes(l) THEN load[l].settings ELSE shown
            /\ view' = IF view = "defaults" /\ Takes(l) /\ ~dirty THEN "server" ELSE view
            /\ load[l].phase = "answered"
        BY <3>2 DEF EndLoad
      <4> QED BY <4>2, <4>3 DEF Fresh, Takes
    <3> QED BY <1>4, <3>1, <3>2
  <2>3. FlagsTell'
    BY <1>b, <2>2, InputsAssumption DEF ShownInv, FlagsTell, IInv, DraftIsDirty
  <2>4. ~dirty /\ view' = "server" => shown' = Public(server) /\ form' = Public(server)
    BY <2>2 DEF ShownInv, CleanShown
  <2>5. CleanShown'
    <3>1. view' # "blind" => view # "blind"
      BY <2>2
    <3> QED BY <1>b, <2>1, <2>4, <3>1 DEF ShownInv, CleanShown, Public
  <2>6. UntypedHeld'
    <3>1. view' = "server" /\ ~dirty => \A i \in Inputs \ {Proxy} : form'[i] = server[i]
      BY <1>a, <2>4, PublicParts
    <3>2. view' = "server" /\ dirty => view = "server" /\ form' = form
      BY <2>2
    <3>3. view' = "server" /\ view # "server" => save.phase = "idle"
      BY <2>2 DEF ShownInv, FlagsTell
    <3> QED BY <1>b, <3>1, <3>2, <3>3 DEF ShownInv, UntypedHeld
  <2>7. SaveTells'
    BY <1>b DEF ShownInv, SaveTells, Public
  <2>8. DirectHeld'
    <3>1. server[Proxy] = Direct /\ ~dirty => shown'[Proxy] = Direct
      BY <2>2 DEF ShownInv, DirectHeld
    <3> QED BY <1>b, <2>1, <2>2, <3>1 DEF ShownInv, DirectHeld
  <2> QED BY <2>3, <2>5, <2>6, <2>7, <2>8 DEF ShownInv
<1> QED BY <1>1, <1>2, <1>3, <1>4

LEMMA SubmitShown ==
  ASSUME IInv, ShownInv, Submit
  PROVE  ShownInv'
<1>1. /\ save'.phase = "sent" /\ save'.form = form /\ save'.proxy = proxyDirty /\ since' = {}
      /\ UNCHANGED <<server, shown, form, dirty, proxyDirty, load, typed>>
      /\ view' # "defaults" /\ (view' = "server" => view = "server")
  BY DEF Submit, NoSave
<1>2. FlagsTell'
  BY <1>1 DEF ShownInv, FlagsTell
<1>3. CleanShown'
  <2>1. view' # "blind" => view' = view
    BY DEF Submit
  <2> QED BY <1>1, <2>1 DEF ShownInv, CleanShown, Fresh, Public
<1>4. UntypedHeld'
  BY <1>1 DEF ShownInv, UntypedHeld
<1>5. SaveTells'
  BY <1>1 DEF ShownInv, FlagsTell, SaveTells, IInv, DraftKept
<1>6. DirectHeld'
  BY <1>1 DEF ShownInv, FlagsTell, DirectHeld, Fresh, IInv, ProxyIsTyped
<1> QED BY <1>2, <1>3, <1>4, <1>5, <1>6 DEF ShownInv

(* UpdateSettings accepts the form under way.                              *)
LEMMA AcceptFields ==
  ASSUME IInv, ShownInv, Accept
  PROVE  /\ server' \in Settings
         /\ \A i \in Inputs : i # Proxy \/ save.proxy => server'[i] = save.form[i]
         /\ ~save.proxy => server'[Proxy] = server[Proxy]
         /\ save.proxy => typed[Proxy] # Untyped
         /\ view = "server" => \A i \in Inputs : typed[i] = Untyped => server'[i] = server[i]
         /\ view # "blind" /\ ~dirty => server' = server
         /\ UNCHANGED <<shown, form, dirty, proxyDirty, load, typed, view>>
         /\ save.phase = "sent"
<1>a. TypeOK /\ server \in Settings /\ save.form \in Settings /\ Proxy \in Inputs
  BY InputsAssumption DEF IInv, TypeOK
<1>1. server' = IF save.proxy THEN save.form ELSE [save.form EXCEPT ![Proxy] = server[Proxy]]
  BY DEF Accept
<1>2. server[Proxy] \in Choices[Proxy]
  BY <1>a, SettingsParts
<1>3. server' \in Settings
  BY <1>a, <1>1, <1>2, SettingsSet
<1>4. /\ \A i \in Inputs : i # Proxy \/ save.proxy => server'[i] = save.form[i]
      /\ ~save.proxy => server'[Proxy] = server[Proxy]
  BY <1>a, <1>1, SettingsParts
<1>5. save.proxy => typed[Proxy] # Untyped
  BY DEF IInv, ProxyIsTyped
<1>6. UNCHANGED <<shown, form, dirty, proxyDirty, load, typed, view>> /\ save.phase = "sent"
  BY DEF Accept
<1>7. view = "server" => \A i \in Inputs : typed[i] = Untyped => server'[i] = server[i]
  BY <1>4, <1>5, <1>6 DEF ShownInv, UntypedHeld
<1>8. view # "blind" /\ ~dirty => server' = server
  <2>1. view \in {"defaults", "blind", "server"}
    BY <1>a DEF TypeOK
  <2>2. view # "defaults"
    BY <1>6 DEF ShownInv, FlagsTell
  <2>3. ~dirty => \A i \in Inputs : typed[i] = Untyped
    BY DEF IInv, DraftIsDirty
  <2> QED BY <1>a, <1>3, <1>7, <2>1, <2>2, <2>3, SettingsEqual
<1> QED BY <1>3, <1>4, <1>5, <1>6, <1>7, <1>8

LEMMA AcceptShown ==
  ASSUME IInv, ShownInv, ServeSave \/ LoseSave
  PROVE  ShownInv'
<1>a. Accept /\ Proxy \in Inputs
  BY InputsAssumption DEF ServeSave, LoseSave
<1>b. save \in SaveType
  BY DEF IInv, TypeOK, SaveType
<1>1. \/ /\ UNCHANGED <<save.form, save.proxy, save.proxyMoved, since>>
         /\ save'.phase = "answered" /\ save'.settings = Public(server')
      \/ save'.phase = "idle" /\ since' = {}
  <2>1. CASE ServeSave
    <3>1. save' = [save EXCEPT !.phase = "answered", !.settings = Public(server')] /\ since' = since
      BY <2>1 DEF ServeSave
    <3>2. ASSUME NEW t, save' = [save EXCEPT !.phase = "answered", !.settings = t]
          PROVE  /\ save'.form = save.form /\ save'.proxy = save.proxy
                 /\ save'.proxyMoved = save.proxyMoved
                 /\ save'.phase = "answered" /\ save'.settings = t
      BY <3>2, <1>b DEF SaveType
    <3> QED BY <3>1, <3>2
  <2>2. CASE LoseSave
    BY <2>2 DEF LoseSave, NoSave
  <2> QED BY <2>1, <2>2
<1>2. FlagsTell'
  <2>1. view # "defaults" /\ view' = view /\ typed' = typed /\ proxyDirty' = proxyDirty
    BY <1>a, AcceptFields DEF ShownInv, FlagsTell
  <2>2. Proxy \in since' => save'.proxyMoved
    <3>1. Proxy \in since => save.proxyMoved
      BY DEF ShownInv, FlagsTell
    <3> QED BY <1>1, <3>1, Zenon
  <2>3. typed'[Proxy] # Untyped => proxyDirty'
    BY <2>1 DEF ShownInv, FlagsTell
  <2>4. view' # "defaults"
    BY <2>1
  <2> QED BY <2>2, <2>3, <2>4, Zenon DEF FlagsTell
<1>3. CleanShown'
  <2>1. UNCHANGED <<shown, form, dirty, load, view>>
    BY <1>a, AcceptFields
  <2>2. CASE dirty
    BY <2>1, <2>2 DEF CleanShown
  <2>3. CASE view = "blind"
    BY <2>1, <2>3 DEF CleanShown
  <2>4. CASE ~dirty /\ view # "blind"
    <3>1. server' = server
      BY <1>a, <2>4, AcceptFields
    <3> QED BY <2>1, <3>1 DEF ShownInv, CleanShown, Fresh, Public
  <2> QED BY <2>2, <2>3, <2>4
<1>4. UntypedHeld'
  BY <1>a, <1>1, AcceptFields DEF ShownInv, UntypedHeld
<1>5. SaveTells'
  BY <1>a, <1>1, AcceptFields DEF ShownInv, SaveTells, Public
<1>6. DirectHeld'
  <2>1. CASE save.proxy
    <3>1. dirty /\ typed[Proxy] # Untyped
      BY <1>a, <2>1, AcceptFields DEF IInv, DraftIsDirty
    <3> QED BY <1>a, <1>1, <2>1, <3>1, AcceptFields DEF DirectHeld
  <2>2. CASE ~save.proxy
    BY <1>a, <1>1, <2>2, AcceptFields DEF ShownInv, DirectHeld, Fresh
  <2> QED BY <2>1, <2>2
<1> QED BY <1>2, <1>3, <1>4, <1>5, <1>6 DEF ShownInv

LEMMA RefuseShown ==
  ASSUME IInv, ShownInv, RefuseSave
  PROVE  ShownInv'
<1>1. save'.phase = "idle" /\ since' = {}
      /\ UNCHANGED <<server, shown, form, dirty, proxyDirty, load, typed, view>>
  BY DEF RefuseSave, NoSave
<1>2. FlagsTell' /\ UntypedHeld'
  BY <1>1 DEF ShownInv, FlagsTell, UntypedHeld
<1>3. CleanShown' /\ SaveTells' /\ DirectHeld'
  BY <1>1 DEF ShownInv, CleanShown, SaveTells, DirectHeld, Fresh, Public
<1> QED BY <1>2, <1>3 DEF ShownInv

(* What the answer to a save shows is what the server has.                 *)
LEMMA AnsweredIsPublic ==
  ASSUME IInv, ShownInv, save.phase = "answered"
  PROVE  /\ Answered \in Settings
         /\ Answered = Public(server)
<1>a. server \in Settings /\ save.form \in Settings /\ Public(server) \in Settings /\ Proxy \in Inputs
  BY PublicType, InputsAssumption DEF IInv, TypeOK
<1>1. save.settings = Public(server)
  BY DEF ShownInv, SaveTells
<1>2. Public(server)[Proxy] = Direct => save.form[Proxy] = Direct
  <2>1. Public(server)[Proxy] = Direct => server[Proxy] = Direct
    BY <1>a, PublicParts
  <2>2. save.proxy => server[Proxy] = save.form[Proxy]
    BY <1>a DEF ShownInv, SaveTells
  <2>3. server[Proxy] = Direct /\ ~save.proxy => save.form[Proxy] = Direct
    BY DEF ShownInv, DirectHeld
  <2> QED BY <2>1, <2>2, <2>3
<1>3. Answered = [Public(server) EXCEPT ![Proxy] =
                    IF Public(server)[Proxy] = Direct THEN save.form[Proxy] ELSE Public(server)[Proxy]]
  BY <1>1 DEF Answered
<1>4. DOMAIN Public(server) = Inputs /\ Public(server) = [i \in Inputs |-> Public(server)[i]]
  BY <1>a DEF Settings
<1> HIDE DEF Public
<1>5. Answered = Public(server)
  BY <1>2, <1>3, <1>4
<1> QED BY <1>5, <1>a

LEMMA SaveOkShown ==
  ASSUME IInv, ShownInv, SaveOk
  PROVE  ShownInv'
<1>a. TypeOK /\ server \in Settings /\ Proxy \in Inputs /\ since \subseteq Inputs
  BY InputsAssumption DEF IInv, TypeOK
<1>1. /\ save.phase = "answered" /\ server' = server
      /\ shown' = Public(server)
      /\ form' = IF save.moved THEN form ELSE Public(server)
      /\ dirty' = save.moved /\ proxyDirty' = save.proxyMoved
      /\ save'.phase = "idle" /\ since' = {}
      /\ view' = IF save.moved THEN view ELSE "server"
      /\ load' = Moved
  BY AnsweredIsPublic DEF SaveOk, NoSave
<1>2. \A i \in Inputs : typed'[i] = IF i \in since THEN typed[i] ELSE Untyped
  BY DEF SaveOk
<1>3. \A l \in Loads : ~Fresh(l)'
  BY <1>a, <1>1, MovedFields DEF Fresh
<1>4. FlagsTell'
  <2>1. typed'[Proxy] # Untyped => save.proxyMoved
    BY <1>a, <1>2 DEF ShownInv, FlagsTell
  <2>2. view' # "defaults"
    BY <1>1 DEF ShownInv, FlagsTell
  <2> QED BY <1>1, <2>1, <2>2 DEF FlagsTell
<1>5. CleanShown'
  BY <1>1, <1>3 DEF CleanShown, Public
<1>6. UntypedHeld'
  <2>1. CASE save.moved
    <3>1. \A i \in Inputs \ {Proxy} : i \notin since /\ typed[i] # Untyped => form[i] = server[i]
      BY <1>1 DEF ShownInv, SaveTells, IInv, DraftKept
    <3>2. \A i \in Inputs : typed'[i] = Untyped => typed[i] = Untyped \/ i \notin since
      BY <1>2
    <3> QED BY <1>1, <2>1, <3>1, <3>2 DEF ShownInv, UntypedHeld
  <2>2. CASE ~save.moved
    <3>1. \A i \in Inputs \ {Proxy} : form'[i] = server[i]
      BY <1>a, <1>1, <2>2, PublicParts
    <3> QED BY <1>1, <3>1 DEF UntypedHeld
  <2> QED BY <2>1, <2>2
<1>7. SaveTells'
  BY <1>1 DEF SaveTells
<1>8. DirectHeld'
  <2> SUFFICES ASSUME server[Proxy] = Direct PROVE DirectHeld'
    BY <1>1 DEF DirectHeld
  <2>1. Public(server)[Proxy] = Direct
    BY <1>a, PublicParts
  <2>2. typed[Proxy] # Untyped /\ Proxy \notin since => form[Proxy] = Direct
    BY <1>a, <1>1 DEF ShownInv, SaveTells, IInv, DraftKept
  <2>3. typed[Proxy] = Untyped => form[Proxy] = Direct
    BY DEF ShownInv, DirectHeld
  <2>4. typed'[Proxy] = Untyped => form'[Proxy] = Direct
    BY <1>a, <1>1, <1>2, <2>1, <2>2, <2>3
  <2> QED BY <1>1, <1>3, <2>1, <2>4 DEF DirectHeld
<1> QED BY <1>4, <1>5, <1>6, <1>7, <1>8 DEF ShownInv

LEMMA ShownInvariance == Spec => []ShownInv
<1>1. Init => ShownInv
  <2> SUFFICES ASSUME Init PROVE ShownInv
    OBVIOUS
  <2>1. /\ \A i \in Inputs : typed[i] = Untyped
        /\ since = {} /\ view = "defaults" /\ save.phase = "idle"
        /\ shown[Proxy] = Direct /\ form[Proxy] = Direct
        /\ \A l \in Loads : ~Fresh(l)
    BY InputsAssumption DEF Init, NothingTyped, NoSave, NoLoad, Fresh
  <2> QED BY <2>1, InputsAssumption DEF ShownInv, FlagsTell, CleanShown, UntypedHeld, SaveTells, DirectHeld
<1>2. IInv /\ ShownInv /\ [Next]_vars => ShownInv'
  <2> SUFFICES ASSUME IInv, ShownInv, [Next]_vars PROVE ShownInv'
    OBVIOUS
  <2>1. ASSUME Work \/ UNCHANGED vars PROVE ShownInv'
    <3>1. UNCHANGED <<server, shown, form, dirty, proxyDirty, save, typed, since, view, load>>
      BY <2>1 DEF Work, vars
    <3>2. \A l \in Loads : Fresh(l)' => Fresh(l) /\ load'[l].settings = load[l].settings
      BY <3>1 DEF Fresh
    <3> QED BY <3>1, <3>2, QuietKeeps
  <2> QED BY <2>1, EditShown, LoadShown, SubmitShown, AcceptShown, RefuseShown, SaveOkShown DEF Next
<1> HIDE DEF IInv
<1> QED BY <1>1, <1>2, Invariance, PTL DEF Spec

(* loadState, saveSchedule: a form without unsaved input shows what the    *)
(* server has, once it was built on the server's settings.                 *)
THEOREM FormTellsServer == Spec => []FormIsServers
<1>1. ShownInv => FormIsServers
  BY DEF ShownInv, CleanShown, FormIsServers
<1> HIDE DEF ShownInv
<1> QED BY <1>1, ShownInvariance, PTL

(* saveSchedule, UpdateSettings: a save from a form that was built on the  *)
(* server's settings changes only what the user typed, however late or out *)
(* of order the answers were that the form was rendered from.              *)
THEOREM UntouchedSurvives == Spec => UntouchedKept
<1>1. IInv /\ ShownInv /\ [Next]_vars =>
        [\A i \in Inputs : view = "server" /\ server'[i] # server[i] => typed[i] # Untyped]_vars
  <2> SUFFICES ASSUME IInv, ShownInv, Next, NEW i \in Inputs,
                      view = "server", server'[i] # server[i]
               PROVE  typed[i] # Untyped
    BY DEF vars
  <2>1. ServeSave \/ LoseSave
    BY DEF Next, Edit, StartLoad, ServeLoad, FailLoad, DropLoad, EndLoad, Submit,
           RefuseSave, SaveOk, Work
  <2>2. Accept
    BY <2>1 DEF ServeSave, LoseSave
  <2> QED BY <2>2, AcceptFields
<1> HIDE DEF IInv, ShownInv
<1> QED BY <1>1, Invariance, ShownInvariance, PTL DEF Spec, UntouchedKept
=============================================================================
