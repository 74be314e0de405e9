--------------------------- MODULE PublisherSetup ---------------------------
(***************************************************************************)
(* A publisher's profile row and the three forms that write it: the setup  *)
(* wizard, the profile page, and the settings page with its one-time lock  *)
(* (saas_handlers.go; app/wizard, app/(publisher)/profile and settings).   *)
(*                                                                         *)
(* The session is one entry of the browser's localStorage, which all tabs  *)
(* share (lib/api.ts).  A form is filled from the server once, when it is  *)
(* opened; a save reads the session of that moment for the row it names    *)
(* and for the token, so the server's check that they agree always passes. *)
(* A load that fails leaves the form as it was opened, and an answer that  *)
(* reports an error is read as an empty profile: the same state.           *)
(*                                                                         *)
(* The name, the masthead and the authors stand as one value; so do the    *)
(* page count, the headers and the page plan.  How the volume number then   *)
(* advances is in Billing.                                                 *)
(***************************************************************************)
EXTENDS Naturals, FiniteSets

CONSTANTS
    Tabs,     \* tabs of one browser
    Accounts, \* publishers that sign in there
    Plans,    \* what a publisher can choose on the settings page
    Nothing,  \* no session, no data
    Seeded,   \* the plan of the wizard
    Default,  \* the plan stored when none is sent
    MayFail,  \* whether a request may fail or its answer be lost
    MaxSaves  \* bound: saves in a behaviour

ASSUME NamesAssumption ==
    /\ Nothing \notin Accounts \union Plans \union {Seeded, Default}
    /\ Seeded \notin Plans
    /\ Default \notin Plans
    /\ Seeded # Default
ASSUME BoundsAssumption ==
    /\ IsFiniteSet(Tabs)
    /\ IsFiniteSet(Accounts)
    /\ MayFail \in BOOLEAN
    /\ MaxSaves \in Nat

VARIABLES
    data,     \* whose name and masthead are in the row of each account
    volume,   \* whether there is a last_volume_number
    plan,     \* the page plan
    locked,   \* settings_locked
    chosen,   \* the plan the settings page saved last, or Nothing
    session,  \* the account signed in, or Nothing
    switched, \* whether the session changed while a form was open
    form,     \* what each tab shows
    at,       \* where the save of a tab is
    req,      \* its payload
    saves     \* saves sent so far

row == <<data, volume, plan, locked, chosen>>
vars == <<row, session, switched, form, at, req, saves>>

Owners == Accounts \union {Nothing}
AllPlans == Plans \union {Seeded, Default}

Form == [page: {"none", "wizard", "profile", "settings"}, for: Owners,
         loaded: BOOLEAN, data: Owners, volume: BOOLEAN, plan: AllPlans,
         locked: BOOLEAN]
NoForm == [page |-> "none", for |-> Nothing, loaded |-> FALSE, data |-> Nothing,
           volume |-> FALSE, plan |-> Default, locked |-> FALSE]
Request == [account: Owners, data: Owners, volume: BOOLEAN, plan: AllPlans]
NoReq == [account |-> Nothing, data |-> Nothing, volume |-> FALSE, plan |-> Default]

TypeOK ==
    /\ data \in [Accounts -> Owners]
    /\ volume \in [Accounts -> BOOLEAN]
    /\ plan \in [Accounts -> AllPlans]
    /\ locked \in [Accounts -> BOOLEAN]
    /\ chosen \in [Accounts -> AllPlans \union {Nothing}]
    /\ session \in Owners
    /\ switched \in BOOLEAN
    /\ form \in [Tabs -> Form]
    /\ at \in [Tabs -> {"idle", "profile", "check", "update"}]
    /\ req \in [Tabs -> Request]
    /\ saves \in 0..MaxSaves
    /\ \A t \in Tabs : at[t] # "idle" => req[t].account \in Accounts
    /\ \A a \in Accounts : locked[a] => plan[a] = chosen[a]
-----------------------------------------------------------------------------
\* Accounts as an admin opens them.
Init ==
    /\ data = [a \in Accounts |-> Nothing]
    /\ volume = [a \in Accounts |-> FALSE]
    /\ plan = [a \in Accounts |-> Default]
    /\ locked = [a \in Accounts |-> FALSE]
    /\ chosen = [a \in Accounts |-> Nothing]
    /\ session = Nothing
    /\ switched = FALSE
    /\ form = [t \in Tabs |-> NoForm]
    /\ at = [t \in Tabs |-> "idle"]
    /\ req = [t \in Tabs |-> NoReq]
    /\ saves = 0

SetSession(s) ==
    /\ session' = s
    /\ switched' = (switched \/ \E t \in Tabs : form[t].page # "none")
    /\ UNCHANGED <<row, form, at, req, saves>>

\* saveSession replaces whatever session there was; clearSession ends it.
Login(a) == session # a /\ SetSession(a)
Logout == session # Nothing /\ SetSession(Nothing)

\* Without a session the layout goes to the login page.  A tab that saves is
\* left alone until it has its answer.
Open(t, page) ==
    /\ session # Nothing
    /\ at[t] = "idle"
    /\ form' = [form EXCEPT ![t] = [NoForm EXCEPT !.page = page, !.for = session]]
    /\ UNCHANGED <<row, session, switched, at, req, saves>>

\* Mutant of Served: a query without its WHERE.
ServedAny(a) == CHOOSE b \in Accounts : TRUE

\* The row SaaSGetProfile finds.
Served(a) == a

\* The answer to the load, which may come late or never.
LoadProfile(t) ==
    LET a == Served(form[t].for)
    IN  /\ form[t].page = "profile"
        /\ ~form[t].loaded
        /\ form' = [form EXCEPT ![t].loaded = TRUE, ![t].data = data[a],
                                ![t].volume = volume[a]]
        /\ UNCHANGED <<row, session, switched, at, req, saves>>

LoadSettings(t) ==
    LET a == Served(form[t].for)
    IN  /\ form[t].page = "settings"
        /\ ~form[t].loaded
        /\ form' = [form EXCEPT ![t].loaded = TRUE, ![t].plan = plan[a],
                                ![t].locked = locked[a]]
        /\ UNCHANGED <<row, session, switched, at, req, saves>>

Close(t) ==
    /\ form[t].page # "none"
    /\ at[t] = "idle"
    /\ form' = [form EXCEPT ![t] = NoForm]
    /\ UNCHANGED <<row, session, switched, at, req, saves>>

\* The publisher types the name and the masthead, or the last volume number.
TypeProfile(t, v) ==
    /\ form[t].page \in {"wizard", "profile"}
    /\ form' = [form EXCEPT ![t].data = form[t].for, ![t].volume = v]
    /\ UNCHANGED <<row, session, switched, at, req, saves>>

\* The settings page shows its controls once the load has ended, one way or
\* the other, and disables them when it believes itself locked.
ChoosePlan(t, p) ==
    /\ form[t].page = "settings"
    /\ ~form[t].locked
    /\ form' = [form EXCEPT ![t].plan = p]
    /\ UNCHANGED <<row, session, switched, at, req, saves>>

\* save: the wizard requires the name, the settings an unlocked form.
Submit(t) ==
    /\ session # Nothing
    /\ at[t] = "idle"
    /\ form[t].page # "none"
    /\ form[t].page = "wizard" => form[t].data # Nothing
    /\ form[t].page = "settings" => ~form[t].locked
    /\ at' = [at EXCEPT ![t] = IF form[t].page = "settings" THEN "check" ELSE "profile"]
    /\ req' = [req EXCEPT ![t] =
          [account |-> session, data |-> form[t].data, volume |-> form[t].volume,
           plan |-> CASE form[t].page = "wizard" -> Seeded
                      [] form[t].page = "profile" -> Default
                      [] form[t].page = "settings" -> form[t].plan]]
    /\ saves < MaxSaves
    /\ saves' = saves + 1
    /\ UNCHANGED <<row, session, switched, form>>

\* Mutant of Coalesce: the form's volume, blank or not.
Overwrite(sent, kept) == sent

Coalesce(sent, kept) == sent \/ kept

\* Mutant of SaveProfile: the plan is written over a locked one.
SaveProfileOverLock(t) ==
    LET a == req[t].account
    IN  /\ at[t] = "profile"
        /\ data' = [data EXCEPT ![a] = req[t].data]
        /\ volume' = [volume EXCEPT ![a] = Coalesce(req[t].volume, @)]
        /\ plan' = [plan EXCEPT ![a] = req[t].plan]
        /\ UNCHANGED <<locked, chosen>>

\* SaaSCompleteWizard: one upsert; the plan is kept only while locked.
SaveProfile(t) ==
    LET a == req[t].account
    IN  /\ at[t] = "profile"
        /\ data' = [data EXCEPT ![a] = req[t].data]
        /\ volume' = [volume EXCEPT ![a] = Coalesce(req[t].volume, @)]
        /\ plan' = [plan EXCEPT ![a] = IF locked[a] THEN @ ELSE req[t].plan]
        /\ UNCHANGED <<locked, chosen>>

Answered(t) ==
    /\ at' = [at EXCEPT ![t] = "idle"]
    /\ req' = [req EXCEPT ![t] = NoReq]
    /\ UNCHANGED <<session, switched, saves>>

ProfileSaved(t) ==
    /\ SaveProfile(t)
    /\ Answered(t)
    /\ UNCHANGED form

\* The form locks itself when it is told, by a success or by a 403.
ShowLocked(t) ==
    \/ form' = [form EXCEPT ![t].locked = TRUE]
    \/ MayFail /\ UNCHANGED form

\* SaaSSaveSettings reads the lock ...
SettingsChecked(t) ==
    /\ at[t] = "check"
    /\ ~locked[req[t].account]
    /\ at' = [at EXCEPT ![t] = "update"]
    /\ UNCHANGED <<row, session, switched, form, req, saves>>

\* Mutant of StillUnlocked: an UPDATE that trusts the check.
TrustsTheCheck(a) == TRUE

\* AND settings_locked = FALSE
StillUnlocked(a) == ~locked[a]

\* ... and locks in the statement that writes.
SettingsSaved(t) ==
    LET a == req[t].account
    IN  /\ at[t] = "update"
        /\ StillUnlocked(a)
        /\ plan' = [plan EXCEPT ![a] = req[t].plan]
        /\ locked' = [locked EXCEPT ![a] = TRUE]
        /\ chosen' = [chosen EXCEPT ![a] = req[t].plan]
        /\ UNCHANGED <<data, volume>>
        /\ Answered(t)
        /\ ShowLocked(t)

SettingsRefused(t) ==
    /\ at[t] \in {"check", "update"}
    /\ locked[req[t].account]
    /\ Answered(t)
    /\ ShowLocked(t)
    /\ UNCHANGED row

Fail(t) ==
    /\ MayFail
    /\ at[t] # "idle"
    /\ Answered(t)
    /\ UNCHANGED <<row, form>>

\* SaaSAdminUnlockSettings
Unlock(a) ==
    /\ locked[a]
    /\ locked' = [locked EXCEPT ![a] = FALSE]
    /\ UNCHANGED <<data, volume, plan, chosen, session, switched, form, at, req, saves>>

Use(t) ==
    \/ \E page \in {"wizard", "profile", "settings"} : Open(t, page)
    \/ LoadProfile(t)
    \/ LoadSettings(t)
    \/ Close(t)
    \/ \E v \in BOOLEAN : TypeProfile(t, v)
    \/ \E p \in Plans : ChoosePlan(t, p)
    \/ Submit(t)

Serve(t) ==
    \/ ProfileSaved(t)
    \/ SettingsChecked(t)
    \/ SettingsSaved(t)
    \/ SettingsRefused(t)
    \/ Fail(t)

Next ==
    \/ \E t \in Tabs : Use(t) \/ Serve(t)
    \/ \E a \in Accounts : Login(a) \/ Unlock(a)
    \/ Logout

Spec == Init /\ [][Next]_vars
-----------------------------------------------------------------------------
\* The comment at saas_handlers.go:524: a true one-time write.  Whatever two
\* tabs save at the same time, the plan of a locked account does not change
\* unless an admin unlocks it.
LockedPlanStays ==
    [][\A a \in Accounts : locked[a] /\ locked'[a] => plan'[a] = plan[a]]_vars

\* Once a starting volume is given it is never lost, though a form that was
\* not loaded, or was left blank, is saved over it.
BaselineIsKept == [][\A a \in Accounts : volume[a] => volume'[a]]_vars

\* One publisher's name and masthead get into another's row only when the
\* session of the browser changed while a form was open.
DataStaysWithItsOwner ==
    switched \/ \A a \in Accounts : data[a] \in {a, Nothing}

\* The comment at saas_handlers.go:406: the profile save seeds the plan only
\* until the settings page takes ownership of it.
SettingsOwnThePlan == \A a \in Accounts : chosen[a] \in {Nothing, plan[a]}
=============================================================================
