----------------------- MODULE PublisherSetup_proofs -----------------------
(***************************************************************************)
(* What holds of PublisherSetup for every set of tabs, accounts and plans, *)
(* and any number of saves.                                                *)
(***************************************************************************)
EXTENDS PublisherSetup, TLAPS

-----------------------------------------------------------------------------
\* Types.

\* The types of the row, and the plan of a locked account.
RowOK ==
    /\ data \in [Accounts -> Owners]
    /\ volume \in [Accounts -> BOOLEAN]
    /\ plan \in [Accounts -> AllPlans]
    /\ locked \in [Accounts -> BOOLEAN]
    /\ chosen \in [Accounts -> AllPlans \union {Nothing}]
    /\ \A a \in Accounts : locked[a] => plan[a] = chosen[a]

\* The types of a tab's save.
SaveOK ==
    /\ at \in [Tabs -> {"idle", "profile", "check", "update"}]
    /\ req \in [Tabs -> Request]
    /\ saves \in 0..MaxSaves
    /\ \A t \in Tabs : at[t] # "idle" => req[t].account \in Accounts

\* The types of the browser.
BrowserOK ==
    /\ session \in Owners
    /\ switched \in BOOLEAN
    /\ form \in [Tabs -> Form]

\* An open form was opened in the session of some account.
FormsHaveOwners == \A t \in Tabs : form[t].page # "none" => form[t].for \in Accounts

LEMMA Parts == TypeOK <=> RowOK /\ SaveOK /\ BrowserOK
  BY DEF TypeOK, RowOK, SaveOK, BrowserOK

\* The empty form and the empty payload are of their types.
LEMMA Empty == NoForm \in Form /\ NoReq \in Request
  BY DEF NoForm, NoReq, Form, Request, Owners, AllPlans

LEMMA InitType == Init => TypeOK /\ FormsHaveOwners
  <1> SUFFICES ASSUME Init PROVE TypeOK /\ FormsHaveOwners
    OBVIOUS
  <1>1. RowOK
    BY DEF Init, RowOK, Owners, AllPlans
  <1>2. SaveOK
    BY Empty, BoundsAssumption DEF Init, SaveOK
  <1>3. BrowserOK
    BY Empty DEF Init, BrowserOK, Owners
  <1>4. FormsHaveOwners
    BY DEF Init, FormsHaveOwners, NoForm
  <1> QED BY <1>1, <1>2, <1>3, <1>4, Parts

\* An account that has a save under way.
LEMMA Sender ==
  ASSUME TypeOK, NEW t \in Tabs, at[t] # "idle"
  PROVE  /\ req[t].account \in Accounts
         /\ req[t].data \in Owners
         /\ req[t].volume \in BOOLEAN
         /\ req[t].plan \in AllPlans
  BY DEF TypeOK, Request

\* The end of a save clears what the tab remembers of it.
LEMMA AnsweredType ==
  ASSUME TypeOK, NEW t \in Tabs, Answered(t)
  PROVE  SaveOK' /\ session' \in Owners /\ switched' \in BOOLEAN
  <1>1. at' \in [Tabs -> {"idle", "profile", "check", "update"}]
    BY DEF TypeOK, Answered
  <1>2. req' \in [Tabs -> Request]
    BY Empty DEF TypeOK, Answered
  <1>3. ASSUME NEW u \in Tabs, at'[u] # "idle"
        PROVE  req'[u].account \in Accounts
    <2>1. u # t /\ at[u] # "idle" /\ req'[u] = req[u]
      BY <1>3 DEF TypeOK, Answered
    <2> QED BY <2>1 DEF TypeOK
  <1> QED BY <1>1, <1>2, <1>3 DEF TypeOK, SaveOK, Answered

\* A tab that shows another form of the same page and account, or that of an
\* account that signed in.
LEMMA FormType ==
  ASSUME TypeOK, FormsHaveOwners, NEW t \in Tabs, NEW f \in Form,
         f.page # "none" => f.for \in Accounts,
         form' = [form EXCEPT ![t] = f]
  PROVE  form' \in [Tabs -> Form] /\ FormsHaveOwners'
  <1>1. form' \in [Tabs -> Form]
    BY DEF TypeOK
  <1>2. ASSUME NEW u \in Tabs, form'[u].page # "none"
        PROVE  form'[u].for \in Accounts
    <2>1. CASE u = t
      BY <1>2, <2>1 DEF TypeOK
    <2>2. CASE u # t
      BY <1>2, <2>2 DEF TypeOK, FormsHaveOwners
    <2> QED BY <2>1, <2>2
  <1> QED BY <1>1, <1>2 DEF FormsHaveOwners

\* What a publisher does in a tab.
LEMMA UseType ==
  ASSUME TypeOK, FormsHaveOwners, NEW t \in Tabs, Use(t)
  PROVE  TypeOK' /\ FormsHaveOwners'
  <1> SUFFICES RowOK' /\ SaveOK' /\ BrowserOK' /\ FormsHaveOwners'
    BY DEF TypeOK, RowOK, SaveOK, BrowserOK
  <1> USE DEF row
  <1>0. form[t] \in Form
    BY DEF TypeOK
  <1>1. ASSUME NEW page \in {"wizard", "profile", "settings"}, Open(t, page)
        PROVE  RowOK' /\ SaveOK' /\ BrowserOK' /\ FormsHaveOwners'
    <2> DEFINE f == [NoForm EXCEPT !.page = page, !.for = session]
    <2>1. f \in Form /\ f.for \in Accounts
      BY <1>1 DEF TypeOK, Open, NoForm, Form, Owners, AllPlans
    <2>2. form' = [form EXCEPT ![t] = f]
      BY <1>1 DEF Open
    <2> HIDE DEF f
    <2>3. form' \in [Tabs -> Form] /\ FormsHaveOwners'
      BY <2>1, <2>2, FormType
    <2> QED BY <1>1, <2>3 DEF TypeOK, Open, RowOK, SaveOK, BrowserOK
  <1>2. CASE LoadProfile(t)
    <2> DEFINE a == form[t].for
               f == [form[t] EXCEPT !.loaded = TRUE, !.data = data[a], !.volume = volume[a]]
    <2>1. a \in Accounts
      BY <1>2 DEF LoadProfile, FormsHaveOwners
    <2>2. data[a] \in Owners /\ volume[a] \in BOOLEAN
      BY <2>1 DEF TypeOK
    <2>3. f \in Form /\ f.for \in Accounts
      BY <1>0, <2>1, <2>2 DEF Form
    <2>4. form' = [form EXCEPT ![t] = f]
      BY <1>2, <1>0 DEF LoadProfile, Served, TypeOK, Form
    <2> HIDE DEF f, a
    <2>5. form' \in [Tabs -> Form] /\ FormsHaveOwners'
      BY <2>3, <2>4, FormType
    <2> QED BY <1>2, <2>5 DEF TypeOK, LoadProfile, RowOK, SaveOK, BrowserOK
  <1>3. CASE LoadSettings(t)
    <2> DEFINE a == form[t].for
               f == [form[t] EXCEPT !.loaded = TRUE, !.plan = plan[a], !.locked = locked[a]]
    <2>1. a \in Accounts
      BY <1>3 DEF LoadSettings, FormsHaveOwners
    <2>2. plan[a] \in AllPlans /\ locked[a] \in BOOLEAN
      BY <2>1 DEF TypeOK
    <2>3. f \in Form /\ f.for \in Accounts
      BY <1>0, <2>1, <2>2 DEF Form
    <2>4. form' = [form EXCEPT ![t] = f]
      BY <1>3, <1>0 DEF LoadSettings, Served, TypeOK, Form
    <2> HIDE DEF f, a
    <2>5. form' \in [Tabs -> Form] /\ FormsHaveOwners'
      BY <2>3, <2>4, FormType
    <2> QED BY <1>3, <2>5 DEF TypeOK, LoadSettings, RowOK, SaveOK, BrowserOK
  <1>4. CASE Close(t)
    <2>1. form' \in [Tabs -> Form] /\ FormsHaveOwners'
      BY <1>4, Empty, FormType DEF Close, NoForm
    <2> QED BY <1>4, <2>1 DEF TypeOK, Close, RowOK, SaveOK, BrowserOK
  <1>5. ASSUME NEW v \in BOOLEAN, TypeProfile(t, v)
        PROVE  RowOK' /\ SaveOK' /\ BrowserOK' /\ FormsHaveOwners'
    <2> DEFINE f == [form[t] EXCEPT !.data = form[t].for, !.volume = v]
    <2>1. f \in Form /\ f.for \in Accounts
      BY <1>0, <1>5 DEF Form, TypeProfile, FormsHaveOwners
    <2>2. form' = [form EXCEPT ![t] = f]
      BY <1>0, <1>5 DEF TypeProfile, TypeOK, Form
    <2> HIDE DEF f
    <2>3. form' \in [Tabs -> Form] /\ FormsHaveOwners'
      BY <2>1, <2>2, FormType
    <2> QED BY <1>5, <2>3 DEF TypeOK, TypeProfile, RowOK, SaveOK, BrowserOK
  <1>6. ASSUME NEW p \in Plans, ChoosePlan(t, p)
        PROVE  RowOK' /\ SaveOK' /\ BrowserOK' /\ FormsHaveOwners'
    <2> DEFINE f == [form[t] EXCEPT !.plan = p]
    <2>1. f \in Form /\ f.for \in Accounts
      BY <1>0, <1>6 DEF Form, ChoosePlan, FormsHaveOwners, AllPlans
    <2>2. form' = [form EXCEPT ![t] = f]
      BY <1>0, <1>6 DEF ChoosePlan, TypeOK, Form
    <2> HIDE DEF f
    <2>3. form' \in [Tabs -> Form] /\ FormsHaveOwners'
      BY <2>1, <2>2, FormType
    <2> QED BY <1>6, <2>3 DEF TypeOK, ChoosePlan, RowOK, SaveOK, BrowserOK
  <1>7. CASE Submit(t)
    <2>1. /\ req'[t].account = session
          /\ req' = [req EXCEPT ![t] = req'[t]]
          /\ req'[t] \in Request
      <3> DEFINE p == CASE form[t].page = "wizard" -> Seeded
                        [] form[t].page = "profile" -> Default
                        [] form[t].page = "settings" -> form[t].plan
      <3>1. form[t].page \in {"wizard", "profile", "settings"}
        BY <1>0, <1>7 DEF Submit, Form
      <3>2. p \in AllPlans
        BY <1>0, <3>1 DEF AllPlans, Form
      <3>3. req' = [req EXCEPT ![t] = [account |-> session, data |-> form[t].data,
                                       volume |-> form[t].volume, plan |-> p]]
        BY <1>7 DEF Submit
      <3> HIDE DEF p
      <3> QED BY <1>0, <3>2, <3>3 DEF TypeOK, Request, Form
    <2>2. req' \in [Tabs -> Request]
      BY <2>1 DEF TypeOK
    <2>3. at' \in [Tabs -> {"idle", "profile", "check", "update"}]
      BY <1>7 DEF TypeOK, Submit
    <2>4. saves' \in 0..MaxSaves
      BY <1>7, BoundsAssumption DEF TypeOK, Submit
    <2>5. ASSUME NEW u \in Tabs, at'[u] # "idle"
          PROVE  req'[u].account \in Accounts
      <3>1. CASE u = t
        BY <1>7, <2>1, <3>1 DEF Submit, TypeOK, Owners
      <3>2. CASE u # t
        <4>1. at'[u] = at[u] /\ req'[u] = req[u]
          BY <1>7, <2>1, <3>2 DEF Submit, TypeOK
        <4> QED BY <2>5, <4>1 DEF TypeOK
      <3> QED BY <3>1, <3>2
    <2> QED BY <1>7, <2>2, <2>3, <2>4, <2>5
      DEF TypeOK, Submit, RowOK, SaveOK, BrowserOK, FormsHaveOwners
  <1> QED BY <1>1, <1>2, <1>3, <1>4, <1>5, <1>6, <1>7 DEF Use

\* What the server does with a save.
LEMMA ServeType ==
  ASSUME TypeOK, FormsHaveOwners, NEW t \in Tabs, Serve(t)
  PROVE  TypeOK' /\ FormsHaveOwners'
  <1> SUFFICES RowOK' /\ SaveOK' /\ BrowserOK' /\ FormsHaveOwners'
    BY DEF TypeOK, RowOK, SaveOK, BrowserOK
  <1> DEFINE a == req[t].account
  <1>0. at[t] # "idle"
    BY DEF Serve, ProfileSaved, SaveProfile, SettingsChecked, SettingsSaved,
           SettingsRefused, Fail
  <1>1. a \in Accounts /\ req[t].data \in Owners /\ req[t].volume \in BOOLEAN
        /\ req[t].plan \in AllPlans
    BY <1>0, Sender
  <1> HIDE DEF a
  <1>2. ASSUME ShowLocked(t)
        PROVE  form' \in [Tabs -> Form] /\ FormsHaveOwners'
    <2> DEFINE f == [form[t] EXCEPT !.locked = TRUE]
    <2>1. CASE form' = form
      BY <2>1 DEF TypeOK, FormsHaveOwners
    <2>2. CASE form' = [form EXCEPT ![t].locked = TRUE]
      <3>1. form[t] \in Form
        BY DEF TypeOK
      <3>2. f \in Form /\ (f.page # "none" => f.for \in Accounts)
        BY <3>1 DEF Form, FormsHaveOwners
      <3>3. form' = [form EXCEPT ![t] = f]
        BY <2>2, <3>1 DEF TypeOK, Form
      <3> HIDE DEF f
      <3> QED BY <3>2, <3>3, FormType
    <2> QED BY <1>2, <2>1, <2>2 DEF ShowLocked
  <1>3. CASE ProfileSaved(t)
    <2>1. SaveOK' /\ session' \in Owners /\ switched' \in BOOLEAN
      BY <1>3, AnsweredType DEF ProfileSaved
    <2>2. data' \in [Accounts -> Owners]
      BY <1>1, <1>3 DEF TypeOK, ProfileSaved, SaveProfile, a
    <2>3. volume' \in [Accounts -> BOOLEAN]
      BY <1>1, <1>3 DEF TypeOK, ProfileSaved, SaveProfile, Coalesce, a
    <2>4. /\ plan' = [plan EXCEPT ![a] = IF locked[a] THEN plan[a] ELSE req[t].plan]
          /\ locked' = locked /\ chosen' = chosen /\ form' = form
      BY <1>3 DEF ProfileSaved, SaveProfile, a
    <2>5. plan' \in [Accounts -> AllPlans]
      BY <1>1, <2>4 DEF TypeOK
    <2>6. ASSUME NEW b \in Accounts, locked'[b]
          PROVE  plan'[b] = chosen'[b]
      BY <1>1, <2>4, <2>6 DEF TypeOK
    <2> QED BY <2>1, <2>2, <2>3, <2>4, <2>5, <2>6
      DEF TypeOK, RowOK, BrowserOK, FormsHaveOwners
  <1>4. CASE SettingsChecked(t)
    <2>1. at' = [at EXCEPT ![t] = "update"] /\ req' = req /\ saves' = saves
      BY <1>4 DEF SettingsChecked
    <2>2. SaveOK'
      BY <1>0, <2>1 DEF TypeOK, SaveOK
    <2> QED BY <1>4, <2>2 DEF SettingsChecked, TypeOK, RowOK, BrowserOK, FormsHaveOwners, row
  <1>5. CASE SettingsSaved(t)
    <2>1. SaveOK' /\ session' \in Owners /\ switched' \in BOOLEAN
      BY <1>5, AnsweredType DEF SettingsSaved
    <2>2. form' \in [Tabs -> Form] /\ FormsHaveOwners'
      BY <1>2, <1>5 DEF SettingsSaved
    <2>3. /\ plan' = [plan EXCEPT ![a] = req[t].plan]
          /\ locked' = [locked EXCEPT ![a] = TRUE]
          /\ chosen' = [chosen EXCEPT ![a] = req[t].plan]
          /\ data' = data /\ volume' = volume
      BY <1>5 DEF SettingsSaved, a
    <2>4. RowOK'
      BY <1>1, <2>3 DEF TypeOK, RowOK
    <2> QED BY <2>1, <2>2, <2>4 DEF BrowserOK
  <1>6. CASE SettingsRefused(t)
    <2>1. SaveOK' /\ session' \in Owners /\ switched' \in BOOLEAN
      BY <1>6, AnsweredType DEF SettingsRefused
    <2>2. form' \in [Tabs -> Form] /\ FormsHaveOwners'
      BY <1>2, <1>6 DEF SettingsRefused
    <2> QED BY <1>6, <2>1, <2>2 DEF SettingsRefused, TypeOK, RowOK, BrowserOK, row
  <1>7. CASE Fail(t)
    <2>1. SaveOK' /\ session' \in Owners /\ switched' \in BOOLEAN
      BY <1>7, AnsweredType DEF Fail
    <2> QED BY <1>7, <2>1 DEF Fail, TypeOK, RowOK, BrowserOK, FormsHaveOwners, row
  <1> QED BY <1>3, <1>4, <1>5, <1>6, <1>7 DEF Serve

\* Another session, and the administrator's unlock.
LEMMA OtherType ==
  ASSUME TypeOK, FormsHaveOwners,
         \/ \E a \in Accounts : Login(a) \/ Unlock(a)
         \/ Logout
  PROVE  TypeOK' /\ FormsHaveOwners'
  <1> SUFFICES RowOK' /\ SaveOK' /\ BrowserOK' /\ FormsHaveOwners'
    BY DEF TypeOK, RowOK, SaveOK, BrowserOK
  <1>1. ASSUME NEW s \in Owners, SetSession(s)
        PROVE  RowOK' /\ SaveOK' /\ BrowserOK' /\ FormsHaveOwners'
    BY <1>1 DEF SetSession, TypeOK, RowOK, SaveOK, BrowserOK, FormsHaveOwners, row
  <1>2. ASSUME NEW a \in Accounts, Unlock(a)
        PROVE  RowOK' /\ SaveOK' /\ BrowserOK' /\ FormsHaveOwners'
    BY <1>2 DEF Unlock, TypeOK, RowOK, SaveOK, BrowserOK, FormsHaveOwners
  <1> QED BY <1>1, <1>2 DEF Login, Logout, Owners

LEMMA NextType ==
  ASSUME TypeOK, FormsHaveOwners, [Next]_vars
  PROVE  TypeOK' /\ FormsHaveOwners'
  <1>1. CASE \E t \in Tabs : Use(t) \/ Serve(t)
    BY <1>1, UseType, ServeType
  <1>2. CASE (\E a \in Accounts : Login(a) \/ Unlock(a)) \/ Logout
    BY <1>2, OtherType
  <1>3. CASE UNCHANGED vars
    BY <1>3 DEF vars, row, TypeOK, FormsHaveOwners
  <1> QED BY <1>1, <1>2, <1>3 DEF Next

\* What the forms and the rows hold is well typed, a locked plan is the one
\* that was chosen, and a form knows whose it is.
THEOREM Invariance == Spec => [](TypeOK /\ FormsHaveOwners)
  <1>1. (TypeOK /\ FormsHaveOwners) /\ [Next]_vars => (TypeOK /\ FormsHaveOwners)'
    BY NextType
  <1> QED BY <1>1, InitType, PTL DEF Spec

\* The type invariant, for any tabs, accounts, plans and number of saves; its
\* last conjunct says that a locked plan is the one the settings page chose.
THEOREM TypeCorrect == Spec => []TypeOK
  BY Invariance, PTL

-----------------------------------------------------------------------------
\* Steps.

\* The only steps that write a row, and what they write.
LEMMA RowSteps ==
  ASSUME [Next]_vars
  PROVE  \/ UNCHANGED <<data, volume, plan>>
         \/ \E t \in Tabs : SaveProfile(t)
         \/ \E t \in Tabs : SettingsSaved(t)
  <1>1. CASE UNCHANGED vars
    BY <1>1 DEF vars, row
  <1>2. ASSUME NEW t \in Tabs, Use(t)
        PROVE  UNCHANGED <<data, volume, plan>>
    BY <1>2 DEF Use, Open, LoadProfile, LoadSettings, Close, TypeProfile, ChoosePlan,
                Submit, row
  <1>3. ASSUME NEW t \in Tabs, Serve(t)
        PROVE  \/ UNCHANGED <<data, volume, plan>>
               \/ SaveProfile(t)
               \/ SettingsSaved(t)
    BY <1>3 DEF Serve, ProfileSaved, SettingsChecked, SettingsRefused, Fail, row
  <1>4. ASSUME NEW a \in Accounts, Login(a) \/ Unlock(a)
        PROVE  UNCHANGED <<data, volume, plan>>
    BY <1>4 DEF Login, SetSession, Unlock, row
  <1>5. CASE Logout
    BY <1>5 DEF Logout, SetSession, row
  <1> QED BY <1>1, <1>2, <1>3, <1>4, <1>5 DEF Next

\* Two tabs can both be past the check of the lock: the second UPDATE finds
\* the row locked and changes nothing, and no profile save writes a locked
\* plan.
THEOREM LockHolds == Spec => LockedPlanStays
  <1>1. ASSUME TypeOK, [Next]_vars, NEW a \in Accounts, locked[a], locked'[a]
        PROVE  plan'[a] = plan[a]
    <2>1. CASE UNCHANGED <<data, volume, plan>>
      BY <2>1
    <2>2. ASSUME NEW t \in Tabs, SaveProfile(t)
          PROVE  plan'[a] = plan[a]
      <3>1. plan' = [plan EXCEPT ![req[t].account] =
                       IF locked[req[t].account] THEN plan[req[t].account]
                       ELSE req[t].plan]
        BY <2>2 DEF SaveProfile
      <3> QED BY <1>1, <3>1 DEF TypeOK
    <2>3. ASSUME NEW t \in Tabs, SettingsSaved(t)
          PROVE  plan'[a] = plan[a]
      <3>1. ~locked[req[t].account]
        BY <2>3 DEF SettingsSaved, StillUnlocked
      <3>2. plan' = [plan EXCEPT ![req[t].account] = req[t].plan]
        BY <2>3 DEF SettingsSaved
      <3> QED BY <1>1, <3>1, <3>2 DEF TypeOK
    <2> QED BY <1>1, <2>1, <2>2, <2>3, RowSteps
  <1>2. TypeOK /\ [Next]_vars =>
          [\A a \in Accounts : locked[a] /\ locked'[a] => plan'[a] = plan[a]]_vars
    BY <1>1
  <1> QED BY <1>2, TypeCorrect, PTL DEF Spec, LockedPlanStays

\* The COALESCE of the upsert: no save takes a volume number away.
THEOREM BaselineHolds == Spec => BaselineIsKept
  <1>1. ASSUME TypeOK, [Next]_vars, NEW a \in Accounts, volume[a]
        PROVE  volume'[a]
    <2>1. CASE UNCHANGED <<data, volume, plan>>
      BY <1>1, <2>1
    <2>2. ASSUME NEW t \in Tabs, SaveProfile(t)
          PROVE  volume'[a]
      <3>1. volume' = [volume EXCEPT ![req[t].account] =
                         req[t].volume \/ volume[req[t].account]]
        BY <2>2 DEF SaveProfile, Coalesce
      <3> QED BY <1>1, <3>1 DEF TypeOK
    <2>3. ASSUME NEW t \in Tabs, SettingsSaved(t)
          PROVE  volume'[a]
      BY <1>1, <2>3 DEF SettingsSaved
    <2> QED BY <1>1, <2>1, <2>2, <2>3, RowSteps
  <1>2. TypeOK /\ [Next]_vars => [\A a \in Accounts : volume[a] => volume'[a]]_vars
    BY <1>1
  <1> QED BY <1>2, TypeCorrect, PTL DEF Spec, BaselineIsKept

-----------------------------------------------------------------------------
\* Owners.

\* As long as no session changed under an open form, every open form is of
\* the session, and holds its data or none; so does every save under way, and
\* the form it came from is still open.
FormOfSession(t) ==
    form[t].page # "none" => form[t].for = session /\ form[t].data \in {session, Nothing}

SaveOfSession(t) ==
    at[t] # "idle" => /\ form[t].page # "none"
                      /\ req[t].account = session
                      /\ req[t].data \in {session, Nothing}

OwnersKept ==
    switched \/ /\ \A a \in Accounts : data[a] \in {a, Nothing}
                /\ \A t \in Tabs : FormOfSession(t) /\ SaveOfSession(t)

\* A tab's own steps do not disturb another tab.
LEMMA TabStep ==
  ASSUME TypeOK, OwnersKept, ~switched', NEW t \in Tabs,
         UNCHANGED <<session, switched>>,
         \A u \in Tabs \ {t} : form'[u] = form[u] /\ at'[u] = at[u] /\ req'[u] = req[u],
         FormOfSession(t)', SaveOfSession(t)',
         \A a \in Accounts : data'[a] \in {a, Nothing}
  PROVE  OwnersKept'
  <1>1. ASSUME NEW u \in Tabs \ {t}
        PROVE  FormOfSession(u)' /\ SaveOfSession(u)'
    BY DEF OwnersKept, FormOfSession, SaveOfSession
  <1> QED BY <1>1 DEF OwnersKept

LEMMA OwnersStep ==
  ASSUME TypeOK, FormsHaveOwners, OwnersKept, [Next]_vars
  PROVE  OwnersKept'
  <1> SUFFICES ASSUME ~switched' PROVE OwnersKept'
    BY DEF OwnersKept
  <1>1. CASE UNCHANGED vars
    BY <1>1 DEF vars, row, OwnersKept, FormOfSession, SaveOfSession
  <1>2. ASSUME NEW s \in Owners, SetSession(s)
        PROVE  OwnersKept'
    <2>1. /\ ~switched /\ \A t \in Tabs : form[t].page = "none"
          /\ form' = form /\ at' = at /\ data' = data
      BY <1>2 DEF SetSession, TypeOK, row
    <2>2. \A t \in Tabs : at[t] = "idle"
      BY <2>1 DEF OwnersKept, SaveOfSession
    <2> QED BY <2>1, <2>2 DEF OwnersKept, FormOfSession, SaveOfSession
  <1>3. ASSUME NEW a \in Accounts, Unlock(a)
        PROVE  OwnersKept'
    BY <1>3 DEF Unlock, OwnersKept, FormOfSession, SaveOfSession
  <1>4. ASSUME NEW t \in Tabs, Use(t)
        PROVE  OwnersKept'
    <2>1. /\ UNCHANGED <<session, switched, data>>
          /\ \A u \in Tabs \ {t} : form'[u] = form[u] /\ at'[u] = at[u] /\ req'[u] = req[u]
      BY <1>4 DEF Use, Open, LoadProfile, LoadSettings, Close, TypeProfile, ChoosePlan,
                  Submit, row, TypeOK
    <2>2. FormOfSession(t) /\ SaveOfSession(t) /\ \A a \in Accounts : data[a] \in {a, Nothing}
      BY <2>1 DEF OwnersKept
    <2>3. ASSUME NEW page \in {"wizard", "profile", "settings"}, Open(t, page)
          PROVE  FormOfSession(t)' /\ SaveOfSession(t)'
      <3>1. at'[t] = "idle" /\ session' = session
        BY <2>3 DEF Open
      <3>2. form'[t].for = session /\ form'[t].data = Nothing
        BY <2>3 DEF Open, NoForm, TypeOK
      <3> QED BY <3>1, <3>2 DEF FormOfSession, SaveOfSession
    <2>4. ASSUME LoadProfile(t)
          PROVE  FormOfSession(t)' /\ SaveOfSession(t)'
      <3>1. form[t].for \in Accounts /\ form[t].for = session
        BY <2>2, <2>4 DEF LoadProfile, FormsHaveOwners, FormOfSession
      <3>2. /\ form'[t].page = form[t].page /\ form'[t].for = form[t].for
            /\ form'[t].data = data[form[t].for]
            /\ at' = at /\ req' = req
        BY <2>4 DEF LoadProfile, Served, TypeOK, Form
      <3> QED BY <2>1, <2>2, <3>1, <3>2 DEF FormOfSession, SaveOfSession
    <2>5. ASSUME LoadSettings(t)
          PROVE  FormOfSession(t)' /\ SaveOfSession(t)'
      <3>1. /\ form'[t].page = form[t].page /\ form'[t].for = form[t].for
            /\ form'[t].data = form[t].data
            /\ at' = at /\ req' = req
        BY <2>5 DEF LoadSettings, Served, TypeOK, Form
      <3> QED BY <2>1, <2>2, <3>1 DEF FormOfSession, SaveOfSession
    <2>6. ASSUME Close(t)
          PROVE  FormOfSession(t)' /\ SaveOfSession(t)'
      <3>1. form'[t].page = "none" /\ at'[t] = "idle"
        BY <2>6 DEF Close, NoForm, TypeOK
      <3> QED BY <3>1 DEF FormOfSession, SaveOfSession
    <2>7. ASSUME NEW v \in BOOLEAN, TypeProfile(t, v)
          PROVE  FormOfSession(t)' /\ SaveOfSession(t)'
      <3>1. /\ form'[t].page = form[t].page /\ form'[t].for = form[t].for
            /\ form'[t].data = form[t].for
            /\ form[t].page # "none" /\ at' = at /\ req' = req
        BY <2>7 DEF TypeProfile, TypeOK, Form
      <3> QED BY <2>1, <2>2, <3>1 DEF FormOfSession, SaveOfSession
    <2>8. ASSUME NEW p \in Plans, ChoosePlan(t, p)
          PROVE  FormOfSession(t)' /\ SaveOfSession(t)'
      <3>1. /\ form'[t].page = form[t].page /\ form'[t].for = form[t].for
            /\ form'[t].data = form[t].data
            /\ at' = at /\ req' = req
        BY <2>8 DEF ChoosePlan, TypeOK, Form
      <3> QED BY <2>1, <2>2, <3>1 DEF FormOfSession, SaveOfSession
    <2>9. ASSUME Submit(t)
          PROVE  FormOfSession(t)' /\ SaveOfSession(t)'
      <3>1. /\ form' = form /\ form[t].page # "none"
            /\ req'[t].account = session /\ req'[t].data = form[t].data
        BY <2>9 DEF Submit, TypeOK
      <3> QED BY <2>1, <2>2, <3>1 DEF FormOfSession, SaveOfSession
    <2>10. FormOfSession(t)' /\ SaveOfSession(t)'
      BY <1>4, <2>3, <2>4, <2>5, <2>6, <2>7, <2>8, <2>9 DEF Use
    <2> QED BY <2>1, <2>2, <2>10, TabStep
  <1>5. ASSUME NEW t \in Tabs, Serve(t)
        PROVE  OwnersKept'
    <2>1. /\ UNCHANGED <<session, switched>>
          /\ \A u \in Tabs \ {t} : form'[u] = form[u] /\ at'[u] = at[u] /\ req'[u] = req[u]
      BY <1>5 DEF Serve, ProfileSaved, SettingsChecked, SettingsSaved, SettingsRefused,
                  Fail, Answered, ShowLocked, TypeOK
    <2>2. FormOfSession(t) /\ SaveOfSession(t) /\ \A a \in Accounts : data[a] \in {a, Nothing}
      BY <2>1 DEF OwnersKept
    <2>3. /\ form'[t].page = form[t].page /\ form'[t].for = form[t].for
          /\ form'[t].data = form[t].data
      <3>1. form' = form \/ form' = [form EXCEPT ![t].locked = TRUE]
        BY <1>5 DEF Serve, ProfileSaved, SettingsChecked, SettingsSaved, SettingsRefused,
                    Fail, ShowLocked
      <3> QED BY <3>1 DEF TypeOK, Form
    <2>4. at'[t] = "idle" \/ (req' = req /\ at[t] # "idle")
      BY <1>5 DEF Serve, ProfileSaved, SettingsChecked, SettingsSaved, SettingsRefused,
                  Fail, Answered, TypeOK
    <2>5. FormOfSession(t)' /\ SaveOfSession(t)'
      BY <2>1, <2>2, <2>3, <2>4 DEF FormOfSession, SaveOfSession
    <2>6. ASSUME NEW a \in Accounts
          PROVE  data'[a] \in {a, Nothing}
      <3>1. CASE data' = data
        BY <2>2, <3>1
      <3>2. CASE SaveProfile(t)
        <4>1. at[t] # "idle" /\ data' = [data EXCEPT ![req[t].account] = req[t].data]
          BY <3>2 DEF SaveProfile
        <4>2. req[t].account = session /\ req[t].data \in {session, Nothing}
          BY <2>2, <4>1 DEF SaveOfSession
        <4> QED BY <2>2, <4>1, <4>2 DEF TypeOK
      <3> QED BY <1>5, <3>1, <3>2
        DEF Serve, ProfileSaved, SettingsChecked, SettingsSaved, SettingsRefused, Fail, row
    <2> QED BY <2>1, <2>5, <2>6, TabStep
  <1> QED BY <1>1, <1>2, <1>3, <1>4, <1>5 DEF Next, Login, Logout, Owners

\* One publisher's name reaches another's row only by a change of the session
\* under an open form: no late answer, second tab or failed load mixes them.
THEOREM OwnersHold == Spec => []DataStaysWithItsOwner
  <1>1. Init => OwnersKept
    BY DEF Init, OwnersKept, FormOfSession, SaveOfSession, NoForm
  <1>2. (TypeOK /\ FormsHaveOwners) /\ OwnersKept /\ [Next]_vars => OwnersKept'
    BY OwnersStep
  <1>3. OwnersKept => DataStaysWithItsOwner
    BY DEF OwnersKept, DataStaysWithItsOwner
  <1> QED BY <1>1, <1>2, <1>3, Invariance, PTL DEF Spec
=============================================================================
