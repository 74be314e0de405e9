------------------------ MODULE DeviceBinding_proofs ------------------------
(***************************************************************************)
(* What holds of DeviceBinding for every set of accounts and browsers, and *)
(* any number of slots, links and restarts.                                *)
(***************************************************************************)
EXTENDS DeviceBinding, FiniteSetTheorems, WellFoundedInduction, TLAPS

-----------------------------------------------------------------------------
\* Types.

\* The steps of an issue whose live devices have been counted.
Counted == {"count links", "retire", "store"}

\* What a request in flight is about: a login holds a link of its account; a
\* link is issued for an account that had a free slot, a revocation names a
\* device; with the gate on, both come from a browser enrolled for an admin
\* account.
OneInFlight(b, step, q) ==
    /\ step \in LoginSteps =>
          /\ q.who \in Knows[b]
          /\ q.link # 0
          /\ links[q.link].account = q.who
    /\ step \in AdminSteps \ {"revoke"} => q.account \in Accounts
    /\ step \in Counted => q.count < Slots(q.account)
    /\ step = "revoke" => q.victim # 0
    /\ gate /\ step \in AdminSteps =>
          q.did \in 1..Len(devices) /\ devices[q.did].account \in Admins

InFlightOK == \A b \in Browsers : OneInFlight(b, at[b], req[b])

\* A revocation whose lookup did not fail names another device than the one
\* the cookie of its browser proves.
GuardOK == \A b \in Browsers :
              at[b] = "revoke" /\ ~req[b].blind => req[b].victim # cookie[b]

\* No device is the cookie of two browsers.
CookiesOK ==
    \A b, c \in Browsers : b # c /\ cookie[b] # 0 => cookie[b] # cookie[c]

\* The access token of browser b, against the cookies.
TokenOK(b) ==
    session[b].did # 0 =>
       /\ session[b].did <= cookie[b]
       /\ \A c \in Browsers \ {b} :
             session[b].did # cookie[c] /\ session[b].did # session[c].did
       /\ \/ devices[session[b].did].account \in Admins
          \/ devices[session[b].did].account = session[b].account

TokensOK == CookiesOK /\ \A b \in Browsers : TokenOK(b)

\* The tables only grow, and what points into them stays in range.
TablesGrow ==
    /\ links' \in Seq(Link)
    /\ devices' \in Seq(Device)
    /\ Len(links) <= Len(links')
    /\ Len(devices) <= Len(devices')

\* Steps that touch neither table keep them.
LEMMA TablesStay ==
  ASSUME TypeOK, UNCHANGED <<links, devices>>
  PROVE  TablesGrow
  <1>1. links \in Seq(Link) /\ devices \in Seq(Device)
    BY DEF TypeOK
  <1>2. Len(links) \in Nat /\ Len(devices) \in Nat
    BY <1>1
  <1> QED BY <1>1, <1>2 DEF TablesGrow

\* A request in flight stays well-typed while the tables grow.
LEMMA RequestsGrow ==
  ASSUME TypeOK, TablesGrow
  PROVE  /\ Request \subseteq Request'
         /\ 0..Len(links) \subseteq 0..Len(links')
         /\ 0..Len(devices) \subseteq 0..Len(devices')
  <1>1. Len(links) \in Nat /\ Len(devices) \in Nat
    BY DEF TypeOK
  <1>2. Len(links') \in Nat /\ Len(devices') \in Nat
    BY DEF TablesGrow
  <1>3. /\ 0..Len(links) \subseteq 0..Len(links')
        /\ 0..Len(devices) \subseteq 0..Len(devices')
    BY <1>1, <1>2 DEF TablesGrow
  <1> QED BY <1>3 DEF Request

\* A browser without a request has a well-typed one.
LEMMA NoReqType == TypeOK => NoReq \in Request
  BY DEF TypeOK, NoReq, Request

\* Users know the passwords of accounts.
LEMMA KnownAccounts == \A b \in Browsers : Knows[b] \subseteq Accounts
  BY BoundsAssumption

\* The ways a step treats the browsers: most let a single one move on, and
\* give it a new session or new cookies.
LEMMA BrowserTypes ==
  ASSUME TypeOK, TablesGrow, NEW b \in Browsers,
         gate' \in BOOLEAN, restarts' \in 0..MaxRestarts,
         NEW c \in 0..Len(devices'), NEW p \in 0..Len(links'),
         NEW s \in Session, NEW q \in Request',
         NEW step \in {"idle"} \union LoginSteps \union AdminSteps,
         cookie' = cookie \/ cookie' = [cookie EXCEPT ![b] = c],
         parked' = parked \/ parked' = [parked EXCEPT ![b] = p],
         session' = session \/ session' = [session EXCEPT ![b] = s],
         at' = at \/ at' = [at EXCEPT ![b] = step],
         req' = req \/ req' = [req EXCEPT ![b] = q]
  PROVE  TypeOK'
  <1>1. cookie' \in [Browsers -> 0..Len(devices')]
    BY RequestsGrow DEF TypeOK
  <1>2. parked' \in [Browsers -> 0..Len(links')]
    BY RequestsGrow DEF TypeOK
  <1>3. session' \in [Browsers -> Session]
    BY DEF TypeOK
  <1>4. at' \in [Browsers -> {"idle"} \union LoginSteps \union AdminSteps]
    BY DEF TypeOK
  <1>5. req' \in [Browsers -> Request']
    BY RequestsGrow DEF TypeOK
  <1> QED BY <1>1, <1>2, <1>3, <1>4, <1>5 DEF TypeOK, TablesGrow

\* The end of a request, with or without a new access token.
LEMMA AnswerTypes ==
  ASSUME TypeOK, TablesGrow, gate' \in BOOLEAN, restarts' \in 0..MaxRestarts,
         NEW b \in Browsers, NEW a \in Accounts, NEW d \in Nat,
         \/ SignIn(b, a, d)
         \/ NotAllowed(b, a)
         \/ End(b) /\ UNCHANGED browser
  PROVE  TypeOK'
  <1>1. NoReq \in Request'
    BY NoReqType, RequestsGrow
  <1>2. /\ [account |-> a, did |-> d] \in Session
        /\ [account |-> a, did |-> 0] \in Session
    BY DEF Session
  <1>3. 0 \in 0..Len(devices') /\ 0 \in 0..Len(links')
    BY DEF TablesGrow
  <1>4. /\ cookie' = cookie /\ parked' = parked
        /\ at' = [at EXCEPT ![b] = "idle"] /\ req' = [req EXCEPT ![b] = NoReq]
    BY DEF SignIn, NotAllowed, End, Goto, browser
  <1>5. \/ session' = session
        \/ session' = [session EXCEPT ![b] = [account |-> a, did |-> d]]
        \/ session' = [session EXCEPT ![b] = [account |-> a, did |-> 0]]
    BY DEF SignIn, NotAllowed, browser
  <1>6. \E s \in Session : session' = session \/ session' = [session EXCEPT ![b] = s]
    BY <1>2, <1>5
  <1>7. PICK s \in Session : session' = session \/ session' = [session EXCEPT ![b] = s]
    BY <1>6
  <1> QED BY <1>1, <1>3, <1>4, <1>7, BrowserTypes

\* Every account has at least one slot.
LEMMA SlotsType == \A a : Slots(a) \in Nat \ {0}
  <1>1. AdminSlots \in Nat \ {0}
    BY BoundsAssumption
  <1> QED BY <1>1 DEF Slots

\* Positions in a table are finitely many ...
LEMMA RangeFinite ==
  ASSUME NEW n \in Nat, NEW S, S \subseteq 1..n
  PROVE  IsFiniteSet(S)
  <1>1. S \in SUBSET Nat /\ \A s \in S : s <= n
    OBVIOUS
  <1> QED BY <1>1, FS_BoundedSetOfNaturals

\* a set of numbers has a least element;
LEMMA Least ==
  ASSUME NEW S, S \subseteq Nat, S # {}
  PROVE  \E x \in S : \A y \in S : x <= y
  <1> DEFINE R == {p \in Nat \X Nat : p[1] < p[2]}
  <1>1. IsWellFoundedOn(R, Nat)
    <2>1. R = OpToRel(<, Nat)
      BY DEF OpToRel
    <2> QED BY <2>1, NatLessThanWellFounded
  <1>2. \A x, y \in S : y < x => <<y, x>> \in R
    OBVIOUS
  <1> HIDE DEF R
  <1>3. PICK x \in S : \A y \in S : ~ (<<y, x>> \in R)
    BY <1>1, WFMin
  <1>4. \A y \in S : x <= y
    <2> SUFFICES ASSUME NEW y \in S PROVE x <= y
      OBVIOUS
    <2>1. ~(y < x)
      BY <1>2, <1>3
    <2>2. x \in Nat /\ y \in Nat
      OBVIOUS
    <2> QED BY <2>1, <2>2
  <1> QED BY <1>4

\* ... and so are the devices of an account;
LEMMA LiveFinite ==
  ASSUME TypeOK, NEW a
  PROVE  IsFiniteSet(Live(a))
  <1>1. Len(devices) \in Nat
    BY DEF TypeOK
  <1>2. Live(a) \subseteq 1..Len(devices)
    BY DEF Live
  <1> QED BY <1>1, <1>2, RangeFinite

\* the link chosen to be retired is one of the links, or none.
LEMMA OldestInRange ==
  ASSUME TypeOK, NEW a
  PROVE  OldestUnspent(a) \in 0..Len(links)
  <1> DEFINE mine == {l \in 1..Len(links) : links[l].account = a /\ Unspent(l)}
  <1>1. Len(links) \in Nat
    BY DEF TypeOK
  <1>2. CASE mine = {}
    BY <1>1, <1>2 DEF OldestUnspent
  <1>3. CASE mine # {}
    <2>1. \E l \in mine : \A k \in mine : l <= k
      <3>1. mine \subseteq Nat
        BY <1>1
      <3> HIDE DEF mine
      <3> QED BY <1>3, <3>1, Least
    <2>2. (CHOOSE l \in mine : \A k \in mine : l <= k) \in mine
      BY <2>1
    <2> QED BY <1>1, <1>3, <2>2 DEF OldestUnspent
  <1> QED BY <1>2, <1>3

\* A step that only moves the request of one browser on.
LEMMA MoveTypes ==
  ASSUME TypeOK, UNCHANGED store, UNCHANGED browser, NEW b \in Browsers,
         NEW step \in {"idle"} \union LoginSteps \union AdminSteps,
         NEW q \in Request, Goto(b, step),
         req' = req \/ req' = [req EXCEPT ![b] = q]
  PROVE  TypeOK'
  <1>1. TablesGrow
    BY TablesStay DEF store
  <1>2. gate' \in BOOLEAN /\ restarts' \in 0..MaxRestarts
    BY DEF TypeOK, store
  <1>3. NoSession \in Session /\ q \in Request'
    BY <1>1, RequestsGrow DEF Session, NoSession
  <1>4. 0 \in 0..Len(devices') /\ 0 \in 0..Len(links')
    BY <1>1 DEF TablesGrow
  <1>5. cookie' = cookie /\ parked' = parked /\ session' = session
    BY DEF browser
  <1> QED BY <1>1, <1>2, <1>3, <1>4, <1>5, BrowserTypes DEF Goto

\* The initial states are well-typed.
LEMMA InitTypes == Init => TypeOK
  <1> SUFFICES ASSUME Init PROVE TypeOK
    OBVIOUS
  <1>1. links \in Seq(Link) /\ devices \in Seq(Device)
    BY DEF Init
  <1>2. Len(links) = 0 /\ Len(devices) = 0
    BY DEF Init
  <1>3. NoReq \in Request /\ NoSession \in Session
    BY <1>2 DEF NoReq, Request, NoSession, Session
  <1>4. 0 \in 0..Len(devices) /\ 0 \in 0..Len(links)
    BY <1>2
  <1>5. /\ cookie \in [Browsers -> 0..Len(devices)]
        /\ parked \in [Browsers -> 0..Len(links)]
        /\ session \in [Browsers -> Session]
        /\ req \in [Browsers -> Request]
    BY <1>3, <1>4 DEF Init
  <1>6. gate \in BOOLEAN /\ restarts \in 0..MaxRestarts
    <2>1. MaxRestarts \in Nat
      BY BoundsAssumption
    <2>2. gate = FALSE /\ restarts = 0
      BY DEF Init
    <2>3. gate \in BOOLEAN
      BY <2>2
    <2>4. restarts \in 0..MaxRestarts
      BY <2>1, <2>2
    <2> QED BY <2>3, <2>4
  <1>7. at \in [Browsers -> {"idle"} \union LoginSteps \union AdminSteps]
    BY DEF Init
  <1> QED BY <1>1, <1>5, <1>6, <1>7 DEF TypeOK

\* A step of a login keeps the types.
LEMMA LoginTypes ==
  ASSUME TypeOK, InFlightOK, NEW b \in Browsers, Login(b)
  PROVE  TypeOK'
  <1>1. gate \in BOOLEAN /\ restarts \in 0..MaxRestarts
        /\ links \in Seq(Link) /\ devices \in Seq(Device)
        /\ Len(links) \in Nat /\ Len(devices) \in Nat
    BY DEF TypeOK
  <1>2. cookie[b] \in 0..Len(devices) /\ parked[b] \in 0..Len(links)
        /\ req[b] \in Request
    BY DEF TypeOK
  <1>3. ASSUME UNCHANGED store
        PROVE  TablesGrow /\ gate' \in BOOLEAN /\ restarts' \in 0..MaxRestarts
    BY <1>1, <1>3, TablesStay DEF store
  <1>4. ASSUME NEW a \in Accounts, KnownDevice(b, a)
        PROVE  TypeOK'
    <2>1. cookie[b] \in Nat
      BY <1>1, <1>2
    <2> QED BY <1>3, <1>4, <2>1, AnswerTypes DEF KnownDevice
  <1>5. ASSUME NEW a \in Accounts, UnknownDevice(b, a)
        PROVE  TypeOK'
    <2> DEFINE q == [NoReq EXCEPT !.who = a, !.link = parked[b]]
    <2>1. q \in Request
      BY <1>2, NoReqType DEF Request, NoReq
    <2>2. CASE NotAllowed(b, a)
      BY <1>3, <1>5, <2>2, AnswerTypes DEF UnknownDevice
    <2>3. CASE /\ req' = [req EXCEPT ![b] = q] /\ Goto(b, "count")
               /\ UNCHANGED browser
      BY <1>5, <2>1, <2>3, MoveTypes DEF UnknownDevice, LoginSteps
    <2> QED BY <1>5, <2>2, <2>3 DEF UnknownDevice
  <1>6. at[b] \in LoginSteps => req[b].who \in Accounts
    BY KnownAccounts DEF InFlightOK, OneInFlight
  <1>7. ASSUME CountDevices(b)
        PROVE  TypeOK'
    <2>1. req[b].who \in Accounts
      BY <1>6, <1>7 DEF CountDevices, LoginSteps
    <2>2. CASE NotAllowed(b, req[b].who)
      BY <1>3, <1>7, <2>1, <2>2, AnswerTypes DEF CountDevices
    <2>3. CASE Goto(b, "bind") /\ UNCHANGED <<browser, req>>
      BY <1>2, <1>7, <2>3, MoveTypes DEF CountDevices, LoginSteps
    <2> QED BY <1>7, <2>2, <2>3 DEF CountDevices
  <1>8. ASSUME LinkAlreadySpent(b)
        PROVE  TypeOK'
    <2>1. req[b].who \in Accounts
      BY <1>6, <1>8 DEF LinkAlreadySpent, LoginSteps
    <2> QED BY <1>3, <1>8, <2>1, AnswerTypes DEF LinkAlreadySpent
  <1>9. ASSUME Bind(b)
        PROVE  TypeOK'
    <2> DEFINE d == Len(devices) + 1
               row == [account |-> req[b].who, live |-> TRUE]
    <2>1. req[b].who \in Accounts /\ req[b].link \in 1..Len(links)
      BY <1>1, <1>2, <1>6, <1>9 DEF Bind, LoginSteps, InFlightOK, OneInFlight, Request
    <2>2. row \in Device
      BY <2>1 DEF Device
    <2>3. devices' = Append(devices, row) /\ d \in Nat
      BY <1>1, <1>9 DEF Bind
    <2>4. devices' \in Seq(Device) /\ Len(devices') = d
      BY <1>1, <2>2, <2>3
    <2>5. links' = [links EXCEPT ![req[b].link].device = d]
      BY <1>9 DEF Bind
    <2>6. links[req[b].link] \in Link
      BY <1>1, <2>1
    <2>7. [links[req[b].link] EXCEPT !.device = d] \in Link
      BY <2>3, <2>6 DEF Link
    <2>8. links' \in Seq(Link) /\ Len(links') = Len(links)
      BY <1>1, <2>1, <2>5, <2>7
    <2>9. TablesGrow
      BY <1>1, <2>4, <2>8 DEF TablesGrow
    <2>10. gate' \in BOOLEAN /\ restarts' \in 0..MaxRestarts
      BY <1>1, <1>9 DEF Bind
    <2>11. CASE /\ cookie' = [cookie EXCEPT ![b] = d]
                /\ parked' = [parked EXCEPT ![b] = 0]
                /\ \/ session' = [session EXCEPT ![b] =
                                    [account |-> req[b].who, did |-> d]]
                   \/ UNCHANGED session
                /\ End(b)
      <3>1. d \in 0..Len(devices') /\ 0 \in 0..Len(links')
        BY <1>1, <2>3, <2>4, <2>8
      <3>2. [account |-> req[b].who, did |-> d] \in Session
        BY <2>1, <2>3 DEF Session
      <3>3. NoReq \in Request'
        BY <2>9, NoReqType, RequestsGrow
      <3> QED BY <2>9, <2>10, <2>11, <3>1, <3>2, <3>3, BrowserTypes DEF End, Goto
    <2>12. CASE (End(b) /\ UNCHANGED browser) \/ NotAllowed(b, req[b].who)
      BY <2>1, <2>9, <2>10, <2>12, <2>3, AnswerTypes
    <2> QED BY <1>9, <2>11, <2>12 DEF Bind
  <1> QED BY <1>4, <1>5, <1>7, <1>8, <1>9 DEF Login

\* A step of an admin request keeps the types.
LEMMA AdministerTypes ==
  ASSUME TypeOK, InFlightOK, NEW b \in Browsers, Administer(b)
  PROVE  TypeOK'
  <1>1. gate \in BOOLEAN /\ restarts \in 0..MaxRestarts
        /\ links \in Seq(Link) /\ devices \in Seq(Device)
        /\ Len(links) \in Nat /\ Len(devices) \in Nat
    BY DEF TypeOK
  <1>2. req[b] \in Request /\ session[b] \in Session
    BY DEF TypeOK
  <1>3. session[b].account \in Accounts \union {NoAccount} /\ session[b].did \in Nat
    BY <1>2 DEF Session
  <1>4. AdminReq(b) \in Request
    BY <1>3, NoReqType DEF AdminReq, NoReq, Request
  <1>5. NoReq \in Request
    BY NoReqType
  <1>6. ASSUME NEW a \in Accounts, Issue(b, a)
        PROVE  TypeOK'
    <2> DEFINE q == [AdminReq(b) EXCEPT !.account = a]
    <2>1. q \in Request
      BY <1>4 DEF Request
    <2> QED BY <1>6, <2>1, MoveTypes DEF Issue, AdminSteps
  <1>7. ASSUME CountForIssue(b)
        PROVE  TypeOK'
    <2> DEFINE live == Cardinality(Live(req[b].account))
               q == [req[b] EXCEPT !.count = live]
    <2>1. live \in Nat
      BY <1>1, LiveFinite, FS_CardinalityType
    <2>2. q \in Request
      BY <1>2, <2>1 DEF Request
    <2>3. CASE End(b)
      BY <1>5, <1>7, <2>3, MoveTypes DEF CountForIssue, End
    <2>4. CASE req' = [req EXCEPT ![b].count = live] /\ Goto(b, "count links")
      <3>1. req' = [req EXCEPT ![b] = q]
        BY <2>4 DEF q
      <3> QED BY <1>7, <2>2, <2>4, <3>1, MoveTypes DEF CountForIssue, AdminSteps
    <2> QED BY <1>7, <2>3, <2>4 DEF CountForIssue
  <1>8. ASSUME CountLinks(b)
        PROVE  TypeOK'
    <2> DEFINE waiting == Cardinality(Outstanding(req[b].account))
               q == [req[b] EXCEPT !.waiting = waiting]
    <2>1. waiting \in Nat
      <3>1. Outstanding(req[b].account) \subseteq 1..Len(links)
        BY DEF Outstanding
      <3> QED BY <1>1, <3>1, RangeFinite, FS_CardinalityType
    <2>2. q \in Request
      BY <1>2, <2>1 DEF Request
    <2>3. req' = [req EXCEPT ![b] = q]
      BY <1>8 DEF CountLinks, q
    <2> QED BY <1>8, <2>2, <2>3, MoveTypes DEF CountLinks, AdminSteps
  <1>9. ASSUME Retire(b)
        PROVE  TypeOK'
    <2> DEFINE oldest == ToRetire(req[b].account, req[b].count, req[b].waiting)
               q == [req[b] EXCEPT !.oldest = oldest]
    <2>1. oldest \in 0..Len(links)
      BY <1>1, OldestInRange DEF ToRetire
    <2>2. q \in Request
      BY <1>2, <2>1 DEF Request
    <2>3. req' = [req EXCEPT ![b] = q]
      BY <1>9 DEF Retire, q
    <2> QED BY <1>9, <2>2, <2>3, MoveTypes DEF Retire, AdminSteps
  <1>10. ASSUME StoreLink(b)
         PROVE  TypeOK'
    <2> DEFINE row == [account |-> req[b].account, device |-> 0,
                       cancelled |-> FALSE, expired |-> FALSE]
               rest == [l \in 1..Len(links) |->
                          IF l = req[b].oldest
                          THEN [links[l] EXCEPT !.cancelled = TRUE]
                          ELSE links[l]]
    <2>1. req[b].account \in Accounts
      BY <1>10 DEF StoreLink, InFlightOK, OneInFlight, AdminSteps
    <2>2. row \in Link
      BY <2>1 DEF Link
    <2>3. \A l \in 1..Len(links) : rest[l] \in Link
      <3>1. \A l \in 1..Len(links) : links[l] \in Link
        BY <1>1
      <3> QED BY <3>1 DEF Link
    <2>4. rest \in Seq(Link) /\ Len(rest) = Len(links)
      BY <1>1, <2>3
    <2>5. links' = Append(rest, row)
      BY <1>10 DEF StoreLink
    <2>6. links' \in Seq(Link) /\ Len(links') = Len(links) + 1
      BY <1>1, <2>2, <2>4, <2>5
    <2>7. TablesGrow /\ gate' \in BOOLEAN /\ restarts' \in 0..MaxRestarts
      BY <1>1, <1>10, <2>6 DEF TablesGrow, StoreLink
    <2> QED BY <1>10, <2>1, <2>7, AnswerTypes DEF StoreLink
  <1>11. ASSUME NEW d \in 1..Len(devices), AskRevoke(b, d)
         PROVE  TypeOK'
    <2> DEFINE q == [AdminReq(b) EXCEPT !.victim = d, !.blind = SittingAt(b, d)]
    <2>1. SittingAt(b, d) \in BOOLEAN
      BY DEF SittingAt
    <2>2. [AdminReq(b) EXCEPT !.victim = d] \in Request
      <3>1. d \in 0..Len(devices)
        BY <1>1
      <3> QED BY <1>4, <3>1 DEF Request
    <2>3. q \in Request
      BY <2>1, <2>2 DEF Request
    <2> QED BY <1>11, <2>3, MoveTypes DEF AskRevoke, AdminSteps
  <1>12. ASSUME Revoke(b)
         PROVE  TypeOK'
    <2> DEFINE v == req[b].victim
    <2>1. v \in 1..Len(devices)
      BY <1>1, <1>2, <1>12 DEF Revoke, InFlightOK, OneInFlight, Request
    <2>2. devices' = [devices EXCEPT ![v].live = FALSE]
      BY <1>12 DEF Revoke
    <2>3. [devices[v] EXCEPT !.live = FALSE] \in Device
      <3>1. devices[v] \in Device
        BY <1>1, <2>1
      <3> QED BY <3>1 DEF Device
    <2>4. devices' \in Seq(Device) /\ Len(devices') = Len(devices)
      BY <1>1, <2>1, <2>2, <2>3
    <2>5. TablesGrow /\ gate' \in BOOLEAN /\ restarts' \in 0..MaxRestarts
      BY <1>1, <1>12, <2>4 DEF TablesGrow, Revoke
    <2>6. NoReq \in Request' /\ NoSession \in Session
      BY <1>5, <2>5, RequestsGrow DEF NoSession, Session
    <2>7. 0 \in 0..Len(devices') /\ 0 \in 0..Len(links')
      BY <2>5 DEF TablesGrow
    <2> QED BY <1>12, <2>5, <2>6, <2>7, BrowserTypes DEF Revoke, End, Goto, browser
  <1> QED BY <1>6, <1>7, <1>8, <1>9, <1>10, <1>11, <1>12 DEF Administer

\* Opening a link, and the expiry of its cookie, keep the types.
LEMMA ParkTypes ==
  ASSUME TypeOK, NEW b \in Browsers, NEW p \in 0..Len(links), UNCHANGED store,
         parked' = [parked EXCEPT ![b] = p],
         UNCHANGED <<cookie, session, at, req>>
  PROVE  TypeOK'
  BY DEF TypeOK, store, Request

\* The rest: the link page, the clock, faults and restarts.
LEMMA OtherTypes ==
  ASSUME TypeOK, InFlightOK,
         \/ \E b \in Browsers : \/ \E l \in 1..Len(links) : OpenLink(b, l)
                                \/ ParkedExpires(b)
                                \/ GiveUp(b)
         \/ \E l \in 1..Len(links) : LinkExpires(l)
         \/ Restart
         \/ UNCHANGED vars
  PROVE  TypeOK'
  <1>1. gate \in BOOLEAN /\ restarts \in 0..MaxRestarts
        /\ links \in Seq(Link) /\ devices \in Seq(Device)
        /\ Len(links) \in Nat /\ Len(devices) \in Nat
    BY DEF TypeOK
  <1>2. ASSUME UNCHANGED store
        PROVE  TablesGrow /\ gate' \in BOOLEAN /\ restarts' \in 0..MaxRestarts
    BY <1>1, <1>2, TablesStay DEF store
  <1>3. NoReq \in Request /\ NoSession \in Session
    BY NoReqType DEF NoSession, Session
  <1>5. ASSUME NEW b \in Browsers, NEW l \in 1..Len(links), OpenLink(b, l)
        PROVE  TypeOK'
    <2>1. l \in 0..Len(links)
      BY <1>1
    <2> QED BY <1>5, <2>1, ParkTypes DEF OpenLink
  <1>6. ASSUME NEW b \in Browsers, ParkedExpires(b)
        PROVE  TypeOK'
    <2>1. 0 \in 0..Len(links)
      BY <1>1
    <2> QED BY <1>6, <2>1, ParkTypes DEF ParkedExpires
  <1>7. ASSUME NEW b \in Browsers, GiveUp(b)
        PROVE  TypeOK'
    <2>1. CASE at[b] \in LoginSteps
      <3>1. req[b].who \in Accounts
        BY <2>1, KnownAccounts DEF InFlightOK, OneInFlight
      <3> QED BY <1>2, <1>7, <2>1, <3>1, AnswerTypes DEF GiveUp
    <2>2. CASE at[b] \notin LoginSteps
      BY <1>3, <1>7, <2>2, MoveTypes DEF GiveUp, End
    <2> QED BY <2>1, <2>2
  <1>8. ASSUME NEW l \in 1..Len(links), LinkExpires(l)
        PROVE  TypeOK'
    <2>1. [links[l] EXCEPT !.expired = TRUE] \in Link
      <3>1. links[l] \in Link
        BY <1>1
      <3> QED BY <3>1 DEF Link
    <2>2. links' = [links EXCEPT ![l].expired = TRUE]
      BY <1>8 DEF LinkExpires
    <2>3. links' \in Seq(Link) /\ Len(links') = Len(links)
      BY <1>1, <2>1, <2>2
    <2> QED BY <1>8, <2>3 DEF LinkExpires, TypeOK, Request, browser
  <1>9. ASSUME Restart
        PROVE  TypeOK'
    <2>1. restarts' \in 0..MaxRestarts
      <3>1. MaxRestarts \in Nat
        BY BoundsAssumption
      <3> QED BY <1>1, <1>9, <3>1 DEF Restart
    <2>2. gate' \in BOOLEAN
      BY <1>9 DEF Restart
    <2>3. req' \in [Browsers -> Request]
      BY <1>3, <1>9 DEF Restart
    <2>4. at' \in [Browsers -> {"idle"} \union LoginSteps \union AdminSteps]
      BY <1>9 DEF Restart
    <2> QED BY <1>9, <2>1, <2>2, <2>3, <2>4 DEF Restart, TypeOK, Request, browser
  <1>10. ASSUME UNCHANGED vars
         PROVE  TypeOK'
    BY <1>10 DEF TypeOK, Request, vars, store, browser
  <1> QED BY <1>5, <1>6, <1>7, <1>8, <1>9, <1>10

\* Types are kept by every step.
LEMMA NextTypes ==
  ASSUME TypeOK, InFlightOK, [Next]_vars
  PROVE  TypeOK'
  BY LoginTypes, AdministerTypes, OtherTypes DEF Next

-----------------------------------------------------------------------------
\* Every step of the system, seen from its tables and its requests.

\* An account is given to a link or a device for good, and a device once
\* revoked is revoked for good.
TablesKeep ==
    /\ Len(links) <= Len(links') /\ Len(devices) <= Len(devices')
    /\ \A l \in 1..Len(links) : links'[l].account = links[l].account
    /\ \A d \in 1..Len(devices) :
          /\ devices'[d].account = devices[d].account
          /\ devices'[d].live => devices[d].live

\* The request of b goes on as q; the gate stays, and no device is added.
Moves(b, step, q) ==
    /\ at' = [at EXCEPT ![b] = step]
    /\ req' = [req EXCEPT ![b] = q]
    /\ gate' = gate
    /\ Len(devices') = Len(devices)

Steps == {"idle"} \union LoginSteps \union AdminSteps

\* A step that neither passes the slot check nor binds.
Proceeds(b) ==
    \E step \in Steps \ {"bind"}, q \in Request :
        Moves(b, step, q) /\ OneInFlight(b, step, q)

\* The slot check is passed.
Admitted(b) ==
    /\ at[b] = "count"
    /\ ~SlotsFull(req[b].who, Cardinality(Live(req[b].who)))
    /\ at' = [at EXCEPT ![b] = "bind"]
    /\ UNCHANGED <<store, browser, req>>

\* The end of a request, whatever its answer.
LEMMA EndProceeds ==
  ASSUME TypeOK, NEW b \in Browsers, NEW a, NEW d,
         gate' = gate, Len(devices') = Len(devices),
         End(b) \/ NotAllowed(b, a) \/ SignIn(b, a, d)
  PROVE  Proceeds(b)
  <1>1. NoReq \in Request
    BY NoReqType
  <1>2. Moves(b, "idle", NoReq)
    BY DEF Moves, End, NotAllowed, SignIn, Goto
  <1>3. OneInFlight(b, "idle", NoReq)
    BY DEF OneInFlight, LoginSteps, AdminSteps, Counted
  <1>4. "idle" \in Steps \ {"bind"}
    BY DEF Steps
  <1> QED BY <1>1, <1>2, <1>3, <1>4 DEF Proceeds

\* A step that keeps the request's payload, or changes only its count, its
\* number of outstanding links or the link to retire.
LEMMA NextStepProceeds ==
  ASSUME TypeOK, InFlightOK, NEW b \in Browsers, NEW step \in AdminSteps,
         NEW q \in Request,
         at[b] \in AdminSteps \ {"revoke"}, step # "revoke",
         q.did = req[b].did, q.account = req[b].account,
         q.count < Slots(q.account),
         UNCHANGED store,
         at' = [at EXCEPT ![b] = step],
         req' = [req EXCEPT ![b] = q]
  PROVE  Proceeds(b)
  <1>1. Moves(b, step, q)
    BY DEF Moves, store
  <1>2. OneInFlight(b, at[b], req[b])
    BY DEF InFlightOK
  <1>3. OneInFlight(b, step, q)
    BY <1>2 DEF OneInFlight, LoginSteps, AdminSteps, Counted
  <1>4. step \in Steps \ {"bind"}
    BY DEF Steps, AdminSteps
  <1> QED BY <1>1, <1>3, <1>4 DEF Proceeds

\* A step of a login proceeds, passes the slot check or binds.
LEMMA LoginShape ==
  ASSUME TypeOK, InFlightOK, NEW b \in Browsers, Login(b)
  PROVE  Proceeds(b) \/ Admitted(b) \/ Bind(b)
  <1>1. ASSUME NEW a \in Accounts, KnownDevice(b, a)
        PROVE  Proceeds(b)
    BY <1>1, EndProceeds DEF KnownDevice, store
  <1>2. ASSUME NEW a \in Accounts, UnknownDevice(b, a)
        PROVE  Proceeds(b)
    <2> DEFINE q == [NoReq EXCEPT !.who = a, !.link = parked[b]]
    <2>1. CASE NotAllowed(b, a)
      BY <1>2, <2>1, EndProceeds DEF UnknownDevice, store
    <2>2. CASE /\ Pending(parked[b]) /\ links[parked[b]].account = a
               /\ req' = [req EXCEPT ![b] = q] /\ Goto(b, "count")
      <3>1. parked[b] \in 0..Len(links)
        BY DEF TypeOK
      <3>2. q \in Request
        BY <3>1, NoReqType DEF Request, NoReq
      <3>3. q.who = a /\ q.link = parked[b]
        BY DEF NoReq
      <3>4. Moves(b, "count", q)
        BY <1>2, <2>2 DEF UnknownDevice, store, Moves, Goto
      <3> HIDE DEF q
      <3>5. OneInFlight(b, "count", q)
        BY <1>2, <2>2, <3>3 DEF OneInFlight, UnknownDevice, Pending,
                                LoginSteps, AdminSteps, Counted
      <3>6. "count" \in Steps \ {"bind"}
        BY DEF Steps, LoginSteps
      <3> QED BY <3>2, <3>4, <3>5, <3>6 DEF Proceeds
    <2> QED BY <1>2, <2>1, <2>2 DEF UnknownDevice
  <1>3. ASSUME CountDevices(b)
        PROVE  Proceeds(b) \/ Admitted(b)
    <2>1. CASE NotAllowed(b, req[b].who)
      BY <1>3, <2>1, EndProceeds DEF CountDevices, store
    <2>2. CASE /\ ~SlotsFull(req[b].who, Cardinality(Live(req[b].who)))
               /\ Goto(b, "bind") /\ UNCHANGED <<browser, req>>
      BY <1>3, <2>2 DEF CountDevices, Admitted, Goto
    <2> QED BY <1>3, <2>1, <2>2 DEF CountDevices
  <1>4. ASSUME LinkAlreadySpent(b)
        PROVE  Proceeds(b)
    BY <1>4, EndProceeds DEF LinkAlreadySpent, store
  <1> QED BY <1>1, <1>2, <1>3, <1>4 DEF Login

\* A step of an admin request proceeds.
LEMMA AdministerShape ==
  ASSUME TypeOK, InFlightOK, TokensOK, NEW b \in Browsers, Administer(b)
  PROVE  Proceeds(b)
  <1>1. links \in Seq(Link) /\ devices \in Seq(Device)
        /\ Len(links) \in Nat /\ Len(devices) \in Nat
    BY DEF TypeOK
  <1>2. req[b] \in Request /\ session[b] \in Session
    BY DEF TypeOK
  <1>3. AdminReq(b) \in Request
    BY <1>2, NoReqType DEF AdminReq, NoReq, Request, Session
  <1>4. ASSUME Authorised(b), gate
        PROVE  /\ session[b].did \in 1..Len(devices)
               /\ devices[session[b].did].account \in Admins
    <2>1. session[b].did # 0
      BY <1>4 DEF Authorised, Entitled, IsLive
    <2>2. session[b].did \in 0..Len(devices)
      <3>1. session[b].did <= cookie[b]
        BY <2>1 DEF TokensOK, TokenOK
      <3>2. cookie[b] \in 0..Len(devices) /\ session[b].did \in Nat
        BY <1>2 DEF TypeOK, Session
      <3> QED BY <1>1, <3>1, <3>2
    <2> QED BY <1>1, <1>4, <2>1, <2>2 DEF Authorised, Entitled, AdminTrust
  <1>5. ASSUME NEW a \in Accounts, Issue(b, a)
        PROVE  Proceeds(b)
    <2> DEFINE q == [AdminReq(b) EXCEPT !.account = a]
    <2>1. q \in Request
      BY <1>3 DEF Request
    <2>2. q.did = session[b].did /\ q.account = a
      BY DEF AdminReq, NoReq
    <2>3. Moves(b, "count for issue", q)
      BY <1>5 DEF Issue, store, Moves, Goto
    <2> HIDE DEF q
    <2>4. OneInFlight(b, "count for issue", q)
      BY <1>4, <1>5, <2>2 DEF Issue, OneInFlight, LoginSteps, AdminSteps, Counted
    <2>5. "count for issue" \in Steps \ {"bind"}
      BY DEF Steps, AdminSteps
    <2> QED BY <2>1, <2>3, <2>4, <2>5 DEF Proceeds
  <1>6. ASSUME CountForIssue(b)
        PROVE  Proceeds(b)
    <2> DEFINE live == Cardinality(Live(req[b].account))
               q == [req[b] EXCEPT !.count = live]
    <2>1. live \in Nat
      BY <1>1, LiveFinite, FS_CardinalityType
    <2>2. q \in Request /\ q.did = req[b].did /\ q.account = req[b].account
      BY <1>2, <2>1 DEF Request
    <2>3. CASE End(b)
      BY <1>6, <2>3, EndProceeds DEF CountForIssue, store
    <2>4. CASE /\ ~SlotsFull(req[b].account, live)
               /\ req' = [req EXCEPT ![b].count = live]
               /\ Goto(b, "count links")
      <3>1. req' = [req EXCEPT ![b] = q]
        BY <2>4
      <3>2. at[b] \in AdminSteps \ {"revoke"} /\ "count links" \in AdminSteps
        BY <1>6 DEF CountForIssue, AdminSteps
      <3>3. q.count = live
        BY <1>2 DEF Request
      <3>4. Slots(req[b].account) \in Nat
        BY SlotsType
      <3>6. live < Slots(req[b].account)
        <4>1. ~(live >= Slots(req[b].account))
          BY <2>4 DEF SlotsFull
        <4> HIDE DEF live
        <4> QED BY <2>1, <3>4, <4>1
      <3>5. q.count < Slots(q.account)
        BY <2>2, <3>3, <3>6
      <3> QED BY <1>6, <2>2, <2>4, <3>1, <3>2, <3>5, NextStepProceeds
              DEF CountForIssue, Goto
    <2> QED BY <1>6, <2>3, <2>4 DEF CountForIssue
  <1>7. ASSUME CountLinks(b)
        PROVE  Proceeds(b)
    <2> DEFINE waiting == Cardinality(Outstanding(req[b].account))
               q == [req[b] EXCEPT !.waiting = waiting]
    <2>1. waiting \in Nat
      <3>1. Outstanding(req[b].account) \subseteq 1..Len(links)
        BY DEF Outstanding
      <3> QED BY <1>1, <3>1, RangeFinite, FS_CardinalityType
    <2>2. /\ q \in Request /\ q.did = req[b].did
          /\ q.account = req[b].account /\ q.count = req[b].count
      BY <1>2, <2>1 DEF Request
    <2>5. q.count < Slots(q.account)
      BY <1>7, <2>2 DEF CountLinks, InFlightOK, OneInFlight, Counted
    <2>3. req' = [req EXCEPT ![b] = q]
      BY <1>7 DEF CountLinks
    <2>4. at[b] \in AdminSteps \ {"revoke"} /\ "retire" \in AdminSteps
      BY <1>7 DEF CountLinks, AdminSteps
    <2> QED BY <1>7, <2>2, <2>3, <2>4, <2>5, NextStepProceeds DEF CountLinks, Goto
  <1>8. ASSUME Retire(b)
        PROVE  Proceeds(b)
    <2> DEFINE oldest == ToRetire(req[b].account, req[b].count, req[b].waiting)
               q == [req[b] EXCEPT !.oldest = oldest]
    <2>1. oldest \in 0..Len(links)
      BY <1>1, OldestInRange DEF ToRetire
    <2>2. /\ q \in Request /\ q.did = req[b].did
          /\ q.account = req[b].account /\ q.count = req[b].count
      BY <1>2, <2>1 DEF Request
    <2>5. q.count < Slots(q.account)
      BY <1>8, <2>2 DEF Retire, InFlightOK, OneInFlight, Counted
    <2>3. req' = [req EXCEPT ![b] = q]
      BY <1>8 DEF Retire
    <2>4. at[b] \in AdminSteps \ {"revoke"} /\ "store" \in AdminSteps
      BY <1>8 DEF Retire, AdminSteps
    <2> QED BY <1>8, <2>2, <2>3, <2>4, <2>5, NextStepProceeds DEF Retire, Goto
  <1>9. ASSUME StoreLink(b)
        PROVE  Proceeds(b)
    BY <1>9, EndProceeds DEF StoreLink
  <1>10. ASSUME NEW d \in 1..Len(devices), AskRevoke(b, d)
         PROVE  Proceeds(b)
    <2> DEFINE q == [AdminReq(b) EXCEPT !.victim = d, !.blind = SittingAt(b, d)]
    <2>1. SittingAt(b, d) \in BOOLEAN
      BY DEF SittingAt
    <2>2. [AdminReq(b) EXCEPT !.victim = d] \in Request
      <3>1. d \in 0..Len(devices)
        BY <1>1
      <3> QED BY <1>3, <3>1 DEF Request
    <2>3. q \in Request
      BY <2>1, <2>2 DEF Request
    <2>4. q.did = session[b].did /\ q.victim = d
      BY DEF AdminReq, NoReq
    <2>5. Moves(b, "revoke", q)
      BY <1>10 DEF AskRevoke, store, Moves, Goto
    <2> HIDE DEF q
    <2>6. OneInFlight(b, "revoke", q)
      BY <1>1, <1>4, <1>10, <2>4
         DEF AskRevoke, OneInFlight, LoginSteps, AdminSteps, Counted
    <2>7. "revoke" \in Steps \ {"bind"}
      BY DEF Steps, AdminSteps
    <2> QED BY <2>3, <2>5, <2>6, <2>7 DEF Proceeds
  <1>11. ASSUME Revoke(b)
         PROVE  Proceeds(b)
    <2>1. Len(devices') = Len(devices)
      BY <1>1, <1>11 DEF Revoke
    <2> QED BY <1>11, <2>1, EndProceeds DEF Revoke
  <1> QED BY <1>5, <1>6, <1>7, <1>8, <1>9, <1>10, <1>11 DEF Administer

\* The shape of any step: a request proceeds, passes the slot check or binds;
\* no request moves; or the server restarts.
LEMMA NextShape ==
  ASSUME TypeOK, InFlightOK, TokensOK, [Next]_vars
  PROVE  \/ \E b \in Browsers : Proceeds(b) \/ Admitted(b) \/ Bind(b)
         \/ UNCHANGED <<at, req, gate>> /\ Len(devices') = Len(devices)
         \/ Restart
  <1>1. ASSUME NEW b \in Browsers, GiveUp(b)
        PROVE  Proceeds(b)
    BY <1>1, EndProceeds DEF GiveUp, store
  <1>2. ASSUME NEW b \in Browsers, Login(b) \/ Administer(b)
        PROVE  Proceeds(b) \/ Admitted(b) \/ Bind(b)
    BY <1>2, LoginShape, AdministerShape
  <1>3. ASSUME NEW b \in Browsers, NEW l, OpenLink(b, l) \/ ParkedExpires(b)
        PROVE  UNCHANGED <<at, req, gate>> /\ Len(devices') = Len(devices)
    BY <1>3 DEF OpenLink, ParkedExpires, store
  <1>4. ASSUME NEW l, LinkExpires(l)
        PROVE  UNCHANGED <<at, req, gate>> /\ Len(devices') = Len(devices)
    BY <1>4 DEF LinkExpires
  <1>5. ASSUME UNCHANGED vars
        PROVE  UNCHANGED <<at, req, gate>> /\ Len(devices') = Len(devices)
    BY <1>5 DEF vars, store
  <1> QED BY <1>1, <1>2, <1>3, <1>4, <1>5 DEF Next

\* No step takes an account, a device or a revocation back.
LEMMA NextKeepsTables ==
  ASSUME TypeOK, InFlightOK, [Next]_vars
  PROVE  TablesKeep
  <1>1. links \in Seq(Link) /\ devices \in Seq(Device)
        /\ Len(links) \in Nat /\ Len(devices) \in Nat
    BY DEF TypeOK
  <1>2. ASSUME UNCHANGED <<links, devices>>
        PROVE  TablesKeep
    BY <1>1, <1>2 DEF TablesKeep
  <1>3. ASSUME NEW b \in Browsers, Bind(b)
        PROVE  TablesKeep
    <2> DEFINE row == [account |-> req[b].who, live |-> TRUE]
    <2>1. devices' = Append(devices, row)
      BY <1>3 DEF Bind
    <2> HIDE DEF row
    <2>2. /\ Len(devices) <= Len(devices')
          /\ \A d \in 1..Len(devices) : devices'[d] = devices[d]
      BY <1>1, <2>1
    <2>3. links' = [links EXCEPT ![req[b].link].device = Len(devices) + 1]
      BY <1>3 DEF Bind
    <2>4. \A l \in 1..Len(links) : links[l] \in Link
      BY <1>1
    <2>5. /\ Len(links) <= Len(links')
          /\ \A l \in 1..Len(links) : links'[l].account = links[l].account
      BY <1>1, <2>3, <2>4 DEF Link
    <2> QED BY <2>2, <2>5 DEF TablesKeep
  <1>4. ASSUME NEW b \in Browsers, StoreLink(b)
        PROVE  TablesKeep
    <2> DEFINE row == [account |-> req[b].account, device |-> 0,
                       cancelled |-> FALSE, expired |-> FALSE]
               rest == [l \in 1..Len(links) |->
                          IF l = req[b].oldest
                          THEN [links[l] EXCEPT !.cancelled = TRUE]
                          ELSE links[l]]
    <2>1. links' = Append(rest, row) /\ devices' = devices
      BY <1>4 DEF StoreLink
    <2>2. \A l \in 1..Len(links) : links[l] \in Link
      BY <1>1
    <2>3. \A l \in 1..Len(links) : rest[l] \in Link /\ rest[l].account = links[l].account
      BY <2>2 DEF Link
    <2>4. rest \in Seq(Link) /\ Len(rest) = Len(links)
      BY <1>1, <2>3
    <2> HIDE DEF row, rest
    <2>5. /\ Len(links) <= Len(links')
          /\ \A l \in 1..Len(links) : links'[l] = rest[l]
      BY <1>1, <2>1, <2>4
    <2> QED BY <1>1, <2>1, <2>3, <2>5 DEF TablesKeep
  <1>5. ASSUME NEW b \in Browsers, Revoke(b)
        PROVE  TablesKeep
    <2>1. \A d \in 1..Len(devices) : devices[d] \in Device
      BY <1>1
    <2>2. devices' = [devices EXCEPT ![req[b].victim].live = FALSE]
          /\ links' = links
      BY <1>5 DEF Revoke
    <2>3. /\ Len(devices') = Len(devices)
          /\ \A d \in 1..Len(devices) :
                /\ devices'[d].account = devices[d].account
                /\ devices'[d].live => devices[d].live
      BY <1>1, <2>1, <2>2 DEF Device
    <2> QED BY <1>1, <2>2, <2>3 DEF TablesKeep
  <1>6. ASSUME NEW l, LinkExpires(l)
        PROVE  TablesKeep
    <2>1. \A k \in 1..Len(links) : links[k] \in Link
      BY <1>1
    <2>2. links' = [links EXCEPT ![l].expired = TRUE] /\ devices' = devices
      BY <1>6 DEF LinkExpires
    <2>3. /\ Len(links') = Len(links)
          /\ \A k \in 1..Len(links) : links'[k].account = links[k].account
      BY <1>1, <2>1, <2>2 DEF Link
    <2> QED BY <1>1, <2>2, <2>3 DEF TablesKeep
  <1>7. ASSUME NEW b \in Browsers, Login(b) \/ GiveUp(b), ~Bind(b)
        PROVE  UNCHANGED <<links, devices>>
    BY <1>7 DEF Login, GiveUp, KnownDevice, UnknownDevice, CountDevices,
                LinkAlreadySpent, store
  <1>8. ASSUME NEW b \in Browsers, Administer(b), ~StoreLink(b), ~Revoke(b)
        PROVE  UNCHANGED <<links, devices>>
    BY <1>8 DEF Administer, Issue, CountForIssue, CountLinks, Retire, AskRevoke,
                store
  <1>9. ASSUME NEW b \in Browsers, NEW l, OpenLink(b, l) \/ ParkedExpires(b)
        PROVE  UNCHANGED <<links, devices>>
    BY <1>9 DEF OpenLink, ParkedExpires, store
  <1>10. ASSUME Restart \/ UNCHANGED vars
         PROVE  UNCHANGED <<links, devices>>
    BY <1>10 DEF Restart, vars, store
  <1> QED BY <1>2, <1>3, <1>4, <1>5, <1>6, <1>7, <1>8, <1>9, <1>10 DEF Next

-----------------------------------------------------------------------------
\* The invariants of the requests and of the browsers.

\* A request that waits while others act is still about the same things.
LEMMA WaitingInFlight ==
  ASSUME TypeOK, TypeOK', TablesKeep,
         NEW b \in Browsers, NEW step, NEW q \in Request,
         OneInFlight(b, step, q), gate' => gate
  PROVE  OneInFlight(b, step, q)'
  <1>1. Len(links) \in Nat /\ Len(devices) \in Nat
    BY DEF TypeOK
  <1>2. q.link \in 0..Len(links)
    BY DEF Request
  <1>3. q.link # 0 => links'[q.link].account = links[q.link].account
    BY <1>1, <1>2 DEF TablesKeep
  <1>4. Len(devices') \in Int /\ Len(devices) <= Len(devices')
    BY DEF TypeOK, TablesKeep
  <1>5. ASSUME q.did \in 1..Len(devices)
        PROVE  /\ q.did \in 1..Len(devices')
               /\ devices'[q.did].account = devices[q.did].account
    BY <1>1, <1>4, <1>5 DEF TablesKeep
  <1> QED BY <1>3, <1>5 DEF OneInFlight

\* What requests in flight are about stays so.
LEMMA NextInFlight ==
  ASSUME TypeOK, TypeOK', InFlightOK, TokensOK, [Next]_vars
  PROVE  InFlightOK'
  <1>1. TablesKeep
    BY NextKeepsTables
  <1>2. ASSUME NEW b \in Browsers, gate' = gate, at'[b] = at[b], req'[b] = req[b]
        PROVE  OneInFlight(b, at[b], req[b])'
    <2>1. PICK step : step = at[b]
      OBVIOUS
    <2>2. PICK q \in Request : q = req[b]
      BY DEF TypeOK
    <2>3. OneInFlight(b, step, q)
      BY <2>1, <2>2 DEF InFlightOK
    <2>4. OneInFlight(b, step, q)'
      BY <1>1, <1>2, <2>3, WaitingInFlight
    <2> QED BY <1>2, <2>1, <2>2, <2>4 DEF OneInFlight
  <1>3. ASSUME NEW b \in Browsers, NEW step, NEW q \in Request,
               at' = [at EXCEPT ![b] = step], req' = [req EXCEPT ![b] = q],
               gate' = gate, OneInFlight(b, step, q)
        PROVE  InFlightOK'
    <2>1. ASSUME NEW c \in Browsers
          PROVE  OneInFlight(c, at[c], req[c])'
      <3>1. CASE c = b
        <4>1. OneInFlight(b, step, q)'
          BY <1>1, <1>3, WaitingInFlight
        <4>2. at'[b] = step /\ req'[b] = q
          BY <1>3 DEF TypeOK
        <4> QED BY <3>1, <4>1, <4>2 DEF OneInFlight
      <3>2. CASE c # b
        <4>1. at'[c] = at[c] /\ req'[c] = req[c]
          BY <1>3, <3>2 DEF TypeOK
        <4> QED BY <1>2, <1>3, <4>1
      <3> QED BY <3>1, <3>2
    <2> QED BY <2>1 DEF InFlightOK
  <1>4. ASSUME NEW b \in Browsers, Proceeds(b)
        PROVE  InFlightOK'
    BY <1>3, <1>4 DEF Proceeds, Moves
  <1>5. ASSUME NEW b \in Browsers, Admitted(b)
        PROVE  InFlightOK'
    <2>1. OneInFlight(b, "count", req[b])
      BY <1>5 DEF Admitted, InFlightOK
    <2>2. PICK q \in Request : q = req[b]
      BY DEF TypeOK
    <2>3. OneInFlight(b, "bind", q)
      BY <2>1, <2>2 DEF OneInFlight, LoginSteps, AdminSteps, Counted
    <2>4. req' = [req EXCEPT ![b] = q]
      BY <1>5, <2>2 DEF Admitted, TypeOK
    <2>5. at' = [at EXCEPT ![b] = "bind"] /\ gate' = gate
      BY <1>5 DEF Admitted, store
    <2> QED BY <1>3, <2>3, <2>4, <2>5
  <1>6. ASSUME NEW b \in Browsers, Bind(b)
        PROVE  InFlightOK'
    <2>1. /\ at' = [at EXCEPT ![b] = "idle"]
          /\ req' = [req EXCEPT ![b] = NoReq] /\ gate' = gate
      BY <1>6 DEF Bind, End, NotAllowed, SignIn, Goto
    <2>2. NoReq \in Request
      BY NoReqType
    <2>3. OneInFlight(b, "idle", NoReq)
      BY DEF OneInFlight, LoginSteps, AdminSteps, Counted
    <2> QED BY <1>3, <2>1, <2>2, <2>3
  <1>7. ASSUME UNCHANGED <<at, req, gate>>
        PROVE  InFlightOK'
    BY <1>2, <1>7 DEF InFlightOK
  <1>8. ASSUME Restart
        PROVE  InFlightOK'
    <2>1. \A b \in Browsers : at'[b] = "idle"
      BY <1>8 DEF Restart
    <2> QED BY <2>1 DEF InFlightOK, OneInFlight, LoginSteps, AdminSteps, Counted
  <1> QED BY <1>4, <1>5, <1>6, <1>7, <1>8, NextShape

\* What an access token names is a device that was bound.
LEMMA TokenInRange ==
  ASSUME TypeOK, TokensOK, NEW b \in Browsers
  PROVE  /\ session[b].did \in 0..Len(devices)
         /\ cookie[b] \in 0..Len(devices)
         /\ Len(devices) \in Nat
  <1>1. /\ Len(devices) \in Nat /\ cookie[b] \in 0..Len(devices)
        /\ session[b].did \in Nat
    BY DEF TypeOK, Session
  <1>2. session[b].did # 0 => session[b].did <= cookie[b]
    BY DEF TokensOK, TokenOK
  <1> QED BY <1>1, <1>2

\* A step gives out an access token without a device, or one for the device
\* whose cookie the browser has, if that device may use the account; a browser
\* gets the cookie of a new device.
LEMMA NextTokens ==
  ASSUME TypeOK, TypeOK', InFlightOK, TokensOK, [Next]_vars
  PROVE  TokensOK'
  <1>1. TablesKeep
    BY NextKeepsTables
  <1>2. \A b \in Browsers : /\ session[b].did \in 0..Len(devices)
                            /\ cookie[b] \in 0..Len(devices)
                            /\ Len(devices) \in Nat
    BY TokenInRange
  <1>3. \A d \in 1..Len(devices) : devices'[d].account = devices[d].account
    BY <1>1 DEF TablesKeep
  <1>4. ASSUME NEW b \in Browsers, session'[b] = session[b],
               session[b].did # 0
        PROVE  /\ session'[b].did <= cookie[b]
               /\ \A c \in Browsers \ {b} :
                     session'[b].did # cookie[c] /\ session'[b].did # session[c].did
               /\ \/ devices'[session'[b].did].account \in Admins
                  \/ devices'[session'[b].did].account = session'[b].account
    <2>1. session[b].did \in 1..Len(devices)
      BY <1>2, <1>4
    <2>2. devices'[session[b].did].account = devices[session[b].did].account
      BY <1>3, <2>1
    <2> QED BY <1>4, <2>2 DEF TokensOK, TokenOK
  <1>5. ASSUME UNCHANGED <<cookie, session>>
        PROVE  TokensOK'
    <2>1. CookiesOK'
      BY <1>5 DEF TokensOK, CookiesOK
    <2> QED BY <1>4, <1>5, <2>1 DEF TokensOK, TokenOK
  <1>7. ASSUME NEW b \in Browsers, NEW a, cookie' = cookie,
               session' = [session EXCEPT ![b] = [account |-> a, did |-> 0]]
        PROVE  TokensOK'
    <2>1. session'[b].did = 0
      BY <1>7 DEF TypeOK
    <2>2. \A c \in Browsers : c # b => session'[c] = session[c]
      BY <1>7 DEF TypeOK
    <2>3. CookiesOK'
      BY <1>7 DEF TokensOK, CookiesOK
    <2>4. ASSUME NEW c \in Browsers
          PROVE  TokenOK(c)'
      BY <1>4, <1>7, <2>1, <2>2 DEF TokenOK
    <2> QED BY <2>3, <2>4 DEF TokensOK
  <1>8. ASSUME NEW b \in Browsers, NEW a, cookie' = cookie, IsLive(cookie[b]),
               Entitled(cookie[b], a),
               session' = [session EXCEPT ![b] =
                             [account |-> a, did |-> cookie[b]]]
        PROVE  TokensOK'
    <2>1. session'[b].did = cookie[b] /\ session'[b].account = a
      BY <1>8 DEF TypeOK
    <2>2. \/ devices'[cookie[b]].account \in Admins
          \/ devices'[cookie[b]].account = a
      <3>1. cookie[b] \in 1..Len(devices)
        BY <1>2, <1>8 DEF IsLive
      <3> QED BY <1>3, <1>8, <3>1 DEF Entitled, AdminTrust
    <2>3. \A c \in Browsers : c # b => session'[c] = session[c]
      BY <1>8 DEF TypeOK
    <2>4. CookiesOK'
      BY <1>8 DEF TokensOK, CookiesOK
    <2>5. cookie[b] # 0 /\ cookie[b] <= cookie[b]
      BY <1>2, <1>8 DEF IsLive
    <2>6. \A c \in Browsers : c # b =>
             cookie[b] # cookie[c] /\ session[c].did # cookie[b]
      BY <2>5 DEF TokensOK, CookiesOK, TokenOK
    <2>7. TokenOK(b)'
      BY <1>8, <2>1, <2>2, <2>3, <2>5, <2>6 DEF TokenOK
    <2>8. ASSUME NEW c \in Browsers, c # b
          PROVE  TokenOK(c)'
      BY <1>4, <1>8, <2>1, <2>3, <2>6, <2>8 DEF TokenOK
    <2> QED BY <2>4, <2>7, <2>8 DEF TokensOK
  <1>9. ASSUME NEW b \in Browsers, NEW a, NotAllowed(b, a)
        PROVE  TokensOK'
    BY <1>5, <1>7, <1>9 DEF NotAllowed, SignIn, browser
  <1>10. ASSUME NEW b \in Browsers, NEW a \in Accounts, KnownDevice(b, a)
         PROVE  TokensOK'
    BY <1>5, <1>8, <1>9, <1>10 DEF KnownDevice, SignIn
  <1>11. ASSUME NEW b \in Browsers, Bind(b)
         PROVE  TokensOK'
    <2> DEFINE d == Len(devices) + 1
               row == [account |-> req[b].who, live |-> TRUE]
    <2>1. devices' = Append(devices, row)
      BY <1>11 DEF Bind
    <2>2. devices'[d].account = req[b].who
      BY <2>1 DEF TypeOK
    <2>3. CASE /\ cookie' = [cookie EXCEPT ![b] = d]
               /\ \/ session' = [session EXCEPT ![b] =
                                   [account |-> req[b].who, did |-> d]]
                  \/ UNCHANGED session
      <3>1. cookie'[b] = d
        BY <2>3 DEF TypeOK
      <3>2. \A c \in Browsers : c # b =>
                cookie'[c] = cookie[c] /\ session'[c] = session[c]
        BY <2>3 DEF TypeOK
      <3>3. \/ session'[b] = [account |-> req[b].who, did |-> d]
            \/ session'[b] = session[b]
        BY <2>3 DEF TypeOK
      <3>4. \A c \in Browsers : /\ session[c].did < d /\ cookie[c] < d
                                /\ d # 0 /\ d \in Nat
                                /\ session[c].did \in Nat /\ cookie[c] \in Nat
        BY <1>2
      <3> HIDE DEF d
      <3>5. CookiesOK'
        BY <3>1, <3>2, <3>4 DEF TokensOK, CookiesOK
      <3>6. ASSUME NEW c \in Browsers, c # b
            PROVE  TokenOK(c)'
        BY <1>4, <3>1, <3>2, <3>3, <3>4, <3>6 DEF TokenOK
      <3>7. CASE session'[b] = session[b]
        <4>1. TokenOK(b)'
          BY <1>4, <3>1, <3>2, <3>4, <3>7 DEF TokenOK
        <4> QED BY <3>5, <3>6, <4>1 DEF TokensOK
      <3>8. CASE session'[b] = [account |-> req[b].who, did |-> d]
        <4>1. session'[b].did = d /\ session'[b].account = req[b].who
          BY <3>8
        <4>2. TokenOK(b)'
          BY <2>2, <3>1, <3>2, <3>4, <4>1 DEF TokenOK
        <4> QED BY <3>5, <3>6, <4>2 DEF TokensOK
      <3> QED BY <3>3, <3>7, <3>8
    <2>4. CASE UNCHANGED browser
      BY <1>5, <2>4 DEF browser
    <2>5. CASE NotAllowed(b, req[b].who)
      BY <1>9, <2>5
    <2> QED BY <1>11, <2>3, <2>4, <2>5 DEF Bind
  <1>12. ASSUME NEW b \in Browsers, Login(b)
         PROVE  TokensOK'
    BY <1>5, <1>9, <1>10, <1>11, <1>12
       DEF Login, UnknownDevice, CountDevices, LinkAlreadySpent, browser
  <1>13. ASSUME NEW b \in Browsers, Administer(b)
         PROVE  TokensOK'
    BY <1>5, <1>13 DEF Administer, Issue, CountForIssue, CountLinks, Retire,
                       StoreLink, AskRevoke, Revoke, browser
  <1>14. ASSUME NEW b \in Browsers, GiveUp(b)
         PROVE  TokensOK'
    BY <1>5, <1>9, <1>14 DEF GiveUp, browser
  <1>15. ASSUME NEW b \in Browsers, NEW l, OpenLink(b, l) \/ ParkedExpires(b)
         PROVE  TokensOK'
    BY <1>5, <1>15 DEF OpenLink, ParkedExpires
  <1>16. ASSUME NEW l, LinkExpires(l) \/ Restart \/ UNCHANGED vars
         PROVE  TokensOK'
    BY <1>5, <1>16 DEF LinkExpires, Restart, vars, browser
  <1> QED BY <1>12, <1>13, <1>14, <1>15, <1>16 DEF Next

\* A revocation is asked for past the guard, and its browser keeps its cookie
\* until the answer.
LEMMA NextGuard ==
  ASSUME TypeOK, GuardOK, [Next]_vars
  PROVE  GuardOK'
  <1> USE DEF TypeOK
  <1>1. ASSUME NEW b \in Browsers, at'[b] = at[b], req'[b] = req[b],
               cookie'[b] = cookie[b]
        PROVE  (at[b] = "revoke" /\ ~req[b].blind => req[b].victim # cookie[b])'
    BY <1>1 DEF GuardOK
  <1>2. ASSUME NEW b \in Browsers, NEW step, NEW q, step # "revoke",
               at' = [at EXCEPT ![b] = step],
               req' = [req EXCEPT ![b] = q] \/ UNCHANGED req,
               \A c \in Browsers \ {b} : cookie'[c] = cookie[c]
        PROVE  GuardOK'
    <2>1. at'[b] # "revoke"
      BY <1>2
    <2>2. \A c \in Browsers \ {b} : at'[c] = at[c] /\ req'[c] = req[c]
      BY <1>2
    <2> QED BY <1>1, <1>2, <2>1, <2>2 DEF GuardOK
  <1>3. ASSUME NEW b \in Browsers, End(b), UNCHANGED cookie
        PROVE  GuardOK'
    BY <1>2, <1>3 DEF End, Goto
  <1>4. ASSUME NEW b \in Browsers, NEW a, NotAllowed(b, a)
        PROVE  GuardOK'
    BY <1>3, <1>4 DEF NotAllowed, SignIn, browser
  <1>5. ASSUME NEW b \in Browsers, NEW a, KnownDevice(b, a)
        PROVE  GuardOK'
    BY <1>3, <1>4, <1>5 DEF KnownDevice, SignIn
  <1>6. ASSUME NEW b \in Browsers, NEW a, UnknownDevice(b, a)
        PROVE  GuardOK'
    BY <1>2, <1>4, <1>6 DEF UnknownDevice, Goto, browser
  <1>7. ASSUME NEW b \in Browsers, CountDevices(b) \/ LinkAlreadySpent(b)
        PROVE  GuardOK'
    BY <1>2, <1>4, <1>7 DEF CountDevices, LinkAlreadySpent, Goto, browser
  <1>8. ASSUME NEW b \in Browsers, Bind(b)
        PROVE  GuardOK'
    <2>1. \A c \in Browsers \ {b} : cookie'[c] = cookie[c]
      BY <1>8 DEF Bind, NotAllowed, SignIn, browser
    <2>2. at' = [at EXCEPT ![b] = "idle"] /\ req' = [req EXCEPT ![b] = NoReq]
      BY <1>8 DEF Bind, NotAllowed, SignIn, End, Goto
    <2> QED BY <1>2, <2>1, <2>2
  <1>9. ASSUME NEW b \in Browsers, NEW d \in 1..Len(devices), AskRevoke(b, d)
        PROVE  GuardOK'
    <2> DEFINE q == [AdminReq(b) EXCEPT !.victim = d, !.blind = SittingAt(b, d)]
    <2>1. q.victim = d /\ q.blind = SittingAt(b, d)
      BY DEF AdminReq, NoReq
    <2>2. ~SittingAt(b, d) => d # cookie[b]
      BY <1>9 DEF SittingAt, AskRevoke
    <2>3. req'[b] = q /\ cookie' = cookie
      BY <1>9 DEF AskRevoke, browser
    <2>4. \A c \in Browsers \ {b} : at'[c] = at[c] /\ req'[c] = req[c]
      BY <1>9 DEF AskRevoke, Goto
    <2> HIDE DEF q
    <2> QED BY <1>1, <2>1, <2>2, <2>3, <2>4 DEF GuardOK
  <1>10. ASSUME NEW b \in Browsers, NEW a, Issue(b, a)
         PROVE  GuardOK'
    BY <1>2, <1>10 DEF Issue, Goto, browser
  <1>11. ASSUME NEW b \in Browsers, CountForIssue(b)
         PROVE  GuardOK'
    BY <1>2, <1>3, <1>11 DEF CountForIssue, Goto, browser
  <1>12. ASSUME NEW b \in Browsers, CountLinks(b) \/ Retire(b)
         PROVE  GuardOK'
    BY <1>2, <1>12 DEF CountLinks, Retire, Goto, browser
  <1>13. ASSUME NEW b \in Browsers, StoreLink(b) \/ Revoke(b)
         PROVE  GuardOK'
    BY <1>3, <1>13 DEF StoreLink, Revoke, browser
  <1>14. ASSUME NEW b \in Browsers, GiveUp(b)
         PROVE  GuardOK'
    BY <1>3, <1>4, <1>14 DEF GiveUp, browser
  <1>15. ASSUME UNCHANGED <<at, req, cookie>>
         PROVE  GuardOK'
    BY <1>15 DEF GuardOK
  <1>16. ASSUME Restart
         PROVE  GuardOK'
    BY <1>16 DEF Restart, GuardOK
  <1>17. ASSUME NEW b \in Browsers, NEW l, OpenLink(b, l) \/ ParkedExpires(b)
         PROVE  GuardOK'
    BY <1>15, <1>17 DEF OpenLink, ParkedExpires
  <1>18. ASSUME NEW l, LinkExpires(l)
         PROVE  GuardOK'
    BY <1>15, <1>18 DEF LinkExpires, browser
  <1>19. ASSUME UNCHANGED vars
         PROVE  GuardOK'
    BY <1>15, <1>19 DEF vars, browser
  <1>20. ASSUME NEW b \in Browsers, Login(b)
         PROVE  GuardOK'
    BY <1>5, <1>6, <1>7, <1>8, <1>20 DEF Login
  <1>21. ASSUME NEW b \in Browsers, Administer(b)
         PROVE  GuardOK'
    BY <1>9, <1>10, <1>11, <1>12, <1>13, <1>21 DEF Administer
  <1> HIDE DEF TypeOK
  <1> QED BY <1>14, <1>16, <1>17, <1>18, <1>19, <1>20, <1>21 DEF Next

-----------------------------------------------------------------------------
\* Links and devices.

\* The devices are the numbers 1, 2, ... in the links that were spent, each in
\* one link, and that one is of the device's account.
LinkedOK ==
    /\ \A l \in 1..Len(links) : links[l].device # 0 =>
          /\ links[l].device \in 1..Len(devices)
          /\ devices[links[l].device].account = links[l].account
    /\ \A k, l \in 1..Len(links) :
          links[k].device # 0 /\ links[k].device = links[l].device => k = l
    /\ \A d \in 1..Len(devices) : \E l \in 1..Len(links) : links[l].device = d

\* The bijection is what the property says.
LEMMA LinkedMeans ==
  ASSUME TypeOK, LinkedOK
  PROVE  OneDevicePerLink
  <1> SUFFICES ASSUME NEW d \in 1..Len(devices)
               PROVE  \E l \in 1..Len(links) :
                         /\ {k \in 1..Len(links) : links[k].device = d} = {l}
                         /\ links[l].account = devices[d].account
    BY DEF OneDevicePerLink
  <1>1. d # 0
    BY DEF TypeOK
  <1>2. PICK l \in 1..Len(links) : links[l].device = d
    BY DEF LinkedOK
  <1>3. \A k \in 1..Len(links) : links[k].device = d => k = l
    BY <1>1, <1>2 DEF LinkedOK
  <1>4. links[l].account = devices[d].account
    BY <1>1, <1>2 DEF LinkedOK
  <1> QED BY <1>2, <1>3, <1>4

\* A step that spends no link and binds no device.
LEMMA LinkedKept ==
  ASSUME TypeOK, TypeOK', LinkedOK, TablesKeep, Len(devices') = Len(devices),
         \A l \in 1..Len(links) : links'[l].device = links[l].device,
         \A l \in 1..Len(links') : l \in 1..Len(links) \/ links'[l].device = 0
  PROVE  LinkedOK'
  <1>1. /\ Len(links) \in Nat /\ Len(devices) \in Nat
        /\ Len(links') \in Nat /\ Len(links) <= Len(links')
    BY DEF TypeOK, TablesKeep
  <1>2. 1..Len(links) \subseteq 1..Len(links')
    BY <1>1
  <1>3. \A l \in 1..Len(links') : links'[l].device # 0 =>
          /\ l \in 1..Len(links)
          /\ links'[l].device = links[l].device
          /\ links'[l].account = links[l].account
    BY DEF TablesKeep
  <1>4. \A d \in 1..Len(devices) : devices'[d].account = devices[d].account
    BY DEF TablesKeep
  <1>5. \A l \in 1..Len(links') : links'[l].device # 0 =>
          /\ links'[l].device \in 1..Len(devices')
          /\ devices'[links'[l].device].account = links'[l].account
    BY <1>3, <1>4 DEF LinkedOK
  <1>6. \A k, l \in 1..Len(links') :
          links'[k].device # 0 /\ links'[k].device = links'[l].device => k = l
    BY <1>3 DEF LinkedOK
  <1>7. \A d \in 1..Len(devices') : \E l \in 1..Len(links') : links'[l].device = d
    BY <1>2 DEF LinkedOK
  <1> QED BY <1>5, <1>6, <1>7 DEF LinkedOK

\* Binding adds one device and spends one link for it.
LEMMA BindLinked ==
  ASSUME TypeOK, InFlightOK, LinkedOK, NEW b \in Browsers, Bind(b)
  PROVE  LinkedOK'
  <1> DEFINE d == Len(devices) + 1
             m == req[b].link
             row == [account |-> req[b].who, live |-> TRUE]
  <1>1. /\ links \in Seq(Link) /\ devices \in Seq(Device)
        /\ Len(links) \in Nat /\ Len(devices) \in Nat
    BY DEF TypeOK
  <1>2. m \in 1..Len(links) /\ links[m].account = req[b].who
    BY <1>1 DEF Bind, TypeOK, Request, InFlightOK, OneInFlight, LoginSteps
  <1>3. links[m].device = 0
    BY DEF Bind, SpendableLink
  <1>4. devices' = Append(devices, row)
    BY DEF Bind
  <1>5. /\ Len(devices') = d /\ devices'[d].account = req[b].who
        /\ \A e \in 1..Len(devices) : devices'[e] = devices[e]
    BY <1>1, <1>4
  <1>6. links' = [links EXCEPT ![m].device = d]
    BY DEF Bind
  <1>7. \A l \in 1..Len(links) : links[l] \in Link
    BY <1>1
  <1>8. /\ Len(links') = Len(links)
        /\ links'[m].device = d /\ links'[m].account = links[m].account
        /\ \A l \in 1..Len(links) : l # m => links'[l] = links[l]
    BY <1>1, <1>2, <1>6, <1>7 DEF Link
  <1>9. \A l \in 1..Len(links) : l # m => links'[l].device # d
    BY <1>1, <1>8 DEF LinkedOK
  <1>10. d \in 1..Len(devices') /\ 1..Len(devices') = 1..Len(devices) \union {d}
    BY <1>1, <1>5
  <1> HIDE DEF d, m, row
  <1>11. \A l \in 1..Len(links') : links'[l].device # 0 =>
           /\ links'[l].device \in 1..Len(devices')
           /\ devices'[links'[l].device].account = links'[l].account
    <2> SUFFICES ASSUME NEW l \in 1..Len(links), links'[l].device # 0
                 PROVE  /\ links'[l].device \in 1..Len(devices')
                        /\ devices'[links'[l].device].account = links'[l].account
      BY <1>8
    <2>1. CASE l = m
      BY <1>2, <1>5, <1>8, <1>10, <2>1
    <2>2. CASE l # m
      BY <1>5, <1>8, <1>10, <2>2 DEF LinkedOK
    <2> QED BY <2>1, <2>2
  <1>12. \A k, l \in 1..Len(links') :
           links'[k].device # 0 /\ links'[k].device = links'[l].device => k = l
    BY <1>8, <1>9 DEF LinkedOK
  <1>13. \A e \in 1..Len(devices') : \E l \in 1..Len(links') : links'[l].device = e
    <2> SUFFICES ASSUME NEW e \in 1..Len(devices')
                 PROVE  \E l \in 1..Len(links) : links'[l].device = e
      BY <1>8
    <2>1. CASE e = d
      BY <1>2, <1>8, <2>1
    <2>2. CASE e \in 1..Len(devices)
      <3>1. PICK l \in 1..Len(links) : links[l].device = e
        BY <2>2 DEF LinkedOK
      <3>2. e # 0
        BY <1>1, <2>2
      <3>3. l # m
        BY <1>3, <3>1, <3>2
      <3> QED BY <1>8, <3>1, <3>3
    <2> QED BY <1>10, <2>1, <2>2
  <1> QED BY <1>11, <1>12, <1>13 DEF LinkedOK

\* Every step keeps the bijection of spent links and devices.
LEMMA NextLinked ==
  ASSUME TypeOK, TypeOK', InFlightOK, TokensOK, LinkedOK, [Next]_vars
  PROVE  LinkedOK'
  <1>1. TablesKeep
    BY NextKeepsTables
  <1>2. links \in Seq(Link) /\ Len(links) \in Nat
    BY DEF TypeOK
  <1>3. \A l \in 1..Len(links) : links[l] \in Link
    BY <1>2
  <1>4. ASSUME links' = links, Len(devices') = Len(devices)
        PROVE  LinkedOK'
    BY <1>1, <1>4, LinkedKept
  <1>5. ASSUME NEW b \in Browsers, StoreLink(b)
        PROVE  LinkedOK'
    <2> DEFINE row == [account |-> req[b].account, device |-> 0,
                       cancelled |-> FALSE, expired |-> FALSE]
               rest == [l \in 1..Len(links) |->
                          IF l = req[b].oldest
                          THEN [links[l] EXCEPT !.cancelled = TRUE]
                          ELSE links[l]]
    <2>1. links' = Append(rest, row) /\ devices' = devices
      BY <1>5 DEF StoreLink
    <2>2. \A l \in 1..Len(links) : rest[l] \in Link /\ rest[l].device = links[l].device
      BY <1>3 DEF Link
    <2>3. rest \in Seq(Link) /\ Len(rest) = Len(links)
      BY <1>2, <2>2
    <2>4. row.device = 0
      OBVIOUS
    <2> HIDE DEF row, rest
    <2>5. /\ Len(links') = Len(links) + 1
          /\ \A l \in 1..Len(links) : links'[l] = rest[l]
          /\ links'[Len(links) + 1] = row
      BY <1>2, <2>1, <2>3
    <2>6. \A l \in 1..Len(links') : l \in 1..Len(links) \/ l = Len(links) + 1
      BY <1>2, <2>5
    <2> QED BY <1>1, <2>1, <2>2, <2>4, <2>5, <2>6, LinkedKept
  <1>6. ASSUME NEW l \in 1..Len(links), LinkExpires(l)
        PROVE  LinkedOK'
    <2>1. links' = [links EXCEPT ![l].expired = TRUE] /\ devices' = devices
      BY <1>6 DEF LinkExpires
    <2>2. /\ Len(links') = Len(links)
          /\ \A k \in 1..Len(links) : links'[k].device = links[k].device
      BY <1>2, <1>3, <2>1 DEF Link
    <2> QED BY <1>1, <2>1, <2>2, LinkedKept
  <1>7. ASSUME NEW b \in Browsers, Login(b), ~Bind(b)
        PROVE  links' = links /\ Len(devices') = Len(devices)
    BY <1>7 DEF Login, KnownDevice, UnknownDevice, CountDevices,
                LinkAlreadySpent, store
  <1>8. ASSUME NEW b \in Browsers, Administer(b), ~StoreLink(b)
        PROVE  links' = links /\ Len(devices') = Len(devices)
    <2>1. CASE Revoke(b)
      BY <2>1 DEF Revoke, TypeOK
    <2>2. CASE ~Revoke(b)
      BY <1>8, <2>2 DEF Administer, Issue, CountForIssue, CountLinks, Retire,
                        AskRevoke, store
    <2> QED BY <2>1, <2>2
  <1>9. ASSUME NEW b \in Browsers, NEW l,
               OpenLink(b, l) \/ ParkedExpires(b) \/ GiveUp(b)
        PROVE  links' = links /\ Len(devices') = Len(devices)
    BY <1>9 DEF OpenLink, ParkedExpires, GiveUp, store
  <1>10. ASSUME Restart \/ UNCHANGED vars
         PROVE  links' = links /\ Len(devices') = Len(devices)
    BY <1>10 DEF Restart, vars, store
  <1> QED BY <1>4, <1>5, <1>6, <1>7, <1>8, <1>9, <1>10, BindLinked DEF Next

-----------------------------------------------------------------------------
\* Slots.

\* The browsers about to bind for account a, and those that may.
Binding(a) == {b \in Browsers : at[b] = "bind" /\ req[b].who = a}
Knowing(a) == {b \in Browsers : a \in Knows[b]}

\* Whoever is past the slot check has been counted in: OverfillIsBounded alone
\* is not inductive, because it forgets about them.
SlotsOK ==
    \A a \in Accounts :
        Cardinality(Live(a)) + Cardinality(Binding(a))
           <= Slots(a) - 1 + Cardinality(Knowing(a))

\* The browsers that may log in to an account are finitely many.
LEMMA KnowingFinite ==
  ASSUME NEW a
  PROVE  IsFiniteSet(Knowing(a)) /\ Cardinality(Knowing(a)) \in Nat
  <1>1. IsFiniteSet(Browsers)
    BY BoundsAssumption
  <1>2. Knowing(a) \subseteq Browsers
    BY DEF Knowing
  <1> QED BY <1>1, <1>2, FS_Subset, FS_CardinalityType

\* Devices and logins under way can be counted.
LEMMA CardinalTypes ==
  ASSUME TypeOK, InFlightOK, NEW a \in Accounts
  PROVE  /\ IsFiniteSet(Live(a)) /\ Cardinality(Live(a)) \in Nat
         /\ Binding(a) \subseteq Knowing(a)
         /\ IsFiniteSet(Binding(a)) /\ Cardinality(Binding(a)) \in Nat
         /\ Cardinality(Binding(a)) <= Cardinality(Knowing(a))
  <1>1. Binding(a) \subseteq Knowing(a)
    BY DEF Binding, Knowing, InFlightOK, OneInFlight, LoginSteps
  <1> QED BY <1>1, LiveFinite, KnowingFinite, FS_Subset, FS_CardinalityType

\* The count that includes logins under way bounds the devices.
LEMMA SlotsMean ==
  ASSUME TypeOK, InFlightOK, SlotsOK
  PROVE  OverfillIsBounded
  <1> SUFFICES ASSUME NEW a \in Accounts
               PROVE  Cardinality(Live(a))
                        <= Slots(a) - 1 + Cardinality(Knowing(a))
    BY DEF OverfillIsBounded, Knowing
  <1>1. /\ Cardinality(Live(a)) \in Nat /\ Cardinality(Binding(a)) \in Nat
        /\ Cardinality(Knowing(a)) \in Nat /\ Slots(a) \in Nat
    BY CardinalTypes, KnowingFinite, SlotsType
  <1>2. Cardinality(Live(a)) + Cardinality(Binding(a))
           <= Slots(a) - 1 + Cardinality(Knowing(a))
    BY DEF SlotsOK
  <1> QED BY <1>1, <1>2

SlotsHold(a) ==
    Cardinality(Live(a)) + Cardinality(Binding(a))
       <= Slots(a) - 1 + Cardinality(Knowing(a))

\* No device and no browser past the slot check is added for account a.
LEMMA SlotsKept ==
  ASSUME TypeOK, InFlightOK, NEW a \in Accounts, SlotsHold(a),
         Live(a)' \subseteq Live(a), Binding(a)' \subseteq Binding(a)
  PROVE  SlotsHold(a)'
  <1>1. /\ IsFiniteSet(Live(a)) /\ Cardinality(Live(a)) \in Nat
        /\ IsFiniteSet(Binding(a)) /\ Cardinality(Binding(a)) \in Nat
        /\ Cardinality(Knowing(a)) \in Nat /\ Slots(a) \in Nat
    BY CardinalTypes, KnowingFinite, SlotsType
  <1>2. /\ Cardinality(Live(a)') \in Nat
        /\ Cardinality(Live(a)') <= Cardinality(Live(a))
    BY <1>1, FS_Subset, FS_CardinalityType
  <1>3. /\ Cardinality(Binding(a)') \in Nat
        /\ Cardinality(Binding(a)') <= Cardinality(Binding(a))
    BY <1>1, FS_Subset, FS_CardinalityType
  <1>4. Cardinality(Live(a)') + Cardinality(Binding(a)')
           <= Slots(a) - 1 + Cardinality(Knowing(a))
    BY <1>1, <1>2, <1>3 DEF SlotsHold
  <1>5. Slots(a)' = Slots(a) /\ Knowing(a)' = Knowing(a)
    BY DEF Slots, Knowing
  <1> QED BY <1>4, <1>5 DEF SlotsHold

\* The devices of an account stay, or become fewer, unless one is bound.
LEMMA LiveKept ==
  ASSUME TypeOK, TablesKeep, Len(devices') = Len(devices), NEW a
  PROVE  Live(a)' \subseteq Live(a)
  <1>1. Len(devices) \in Nat
    BY DEF TypeOK
  <1> QED BY <1>1 DEF Live, TablesKeep

\* A browser passes the slot check of its account: a slot was free just now,
\* whoever else is on the way to it.
LEMMA AdmittedSlots ==
  ASSUME TypeOK, InFlightOK, InFlightOK', SlotsOK,
         NEW b \in Browsers, Admitted(b), NEW a \in Accounts
  PROVE  SlotsHold(a)'
  <1>1. Live(a)' = Live(a)
    BY DEF Admitted, store, Live
  <1>2. CASE a = req[b].who
    <2>1. /\ IsFiniteSet(Live(a)) /\ Cardinality(Live(a)) \in Nat
          /\ IsFiniteSet(Knowing(a)) /\ Cardinality(Knowing(a)) \in Nat
          /\ Slots(a) \in Nat
      BY CardinalTypes, KnowingFinite, SlotsType
    <2>2. Cardinality(Live(a)) < Slots(a)
      BY <1>2, <2>1 DEF Admitted, SlotsFull
    <2>3. Binding(a)' \subseteq Knowing(a)
      BY DEF Binding, Knowing, InFlightOK, OneInFlight, LoginSteps
    <2>4. /\ Cardinality(Binding(a)') \in Nat
          /\ Cardinality(Binding(a)') <= Cardinality(Knowing(a))
      BY <2>1, <2>3, FS_Subset, FS_CardinalityType
    <2>5. Cardinality(Live(a)') + Cardinality(Binding(a)')
             <= Slots(a) - 1 + Cardinality(Knowing(a))
      BY <1>1, <2>1, <2>2, <2>4
    <2>6. Slots(a)' = Slots(a) /\ Knowing(a)' = Knowing(a)
      BY DEF Slots, Knowing
    <2> QED BY <2>5, <2>6 DEF SlotsHold
  <1>3. CASE a # req[b].who
    <2>1. Binding(a)' \subseteq Binding(a)
      BY <1>3 DEF Binding, Admitted, TypeOK
    <2> QED BY <1>1, <2>1, SlotsKept DEF SlotsOK, SlotsHold
  <1> QED BY <1>2, <1>3

\* A browser that binds was counted among those on the way.
LEMMA BindSlots ==
  ASSUME TypeOK, InFlightOK, SlotsOK,
         NEW b \in Browsers, Bind(b), NEW a \in Accounts
  PROVE  SlotsHold(a)'
  <1> DEFINE d == Len(devices) + 1
             row == [account |-> req[b].who, live |-> TRUE]
  <1>1. devices \in Seq(Device) /\ Len(devices) \in Nat
    BY DEF TypeOK
  <1>2. devices' = Append(devices, row) /\ at[b] = "bind"
    BY DEF Bind
  <1>3. /\ Len(devices') = d /\ devices'[d] = row
        /\ \A e \in 1..Len(devices) : devices'[e] = devices[e]
    BY <1>1, <1>2
  <1>4. d \notin 1..Len(devices) /\ 1..d = 1..Len(devices) \union {d}
    BY <1>1
  <1>5. row.account = req[b].who /\ row.live
    OBVIOUS
  <1>6. at' = [at EXCEPT ![b] = "idle"] /\ req' = [req EXCEPT ![b] = NoReq]
    BY DEF Bind, End, NotAllowed, SignIn, Goto
  <1>7. Binding(a)' \subseteq Binding(a) \ {b}
    BY <1>6 DEF Binding, TypeOK
  <1> HIDE DEF d, row
  <1>8. CASE a = req[b].who
    <2>1. Live(a)' \subseteq Live(a) \union {d}
      BY <1>3, <1>4 DEF Live
    <2>2. b \in Binding(a)
      BY <1>2, <1>8 DEF Binding
    <2>3. /\ IsFiniteSet(Live(a)) /\ Cardinality(Live(a)) \in Nat
          /\ IsFiniteSet(Binding(a)) /\ Cardinality(Binding(a)) \in Nat
          /\ Cardinality(Knowing(a)) \in Nat /\ Slots(a) \in Nat
      BY CardinalTypes, KnowingFinite, SlotsType
    <2>4. d \notin Live(a)
      BY <1>4 DEF Live
    <2>5. /\ IsFiniteSet(Live(a) \union {d})
          /\ Cardinality(Live(a) \union {d}) = Cardinality(Live(a)) + 1
      BY <2>3, <2>4, FS_AddElement
    <2>6. /\ Cardinality(Live(a)') \in Nat
          /\ Cardinality(Live(a)') <= Cardinality(Live(a)) + 1
      BY <2>1, <2>5, FS_Subset, FS_CardinalityType
    <2>7. /\ IsFiniteSet(Binding(a) \ {b})
          /\ Cardinality(Binding(a) \ {b}) = Cardinality(Binding(a)) - 1
      BY <2>2, <2>3, FS_RemoveElement
    <2>8. /\ Cardinality(Binding(a)') \in Nat
          /\ Cardinality(Binding(a)') <= Cardinality(Binding(a)) - 1
      BY <1>7, <2>7, FS_Subset, FS_CardinalityType
    <2>9. Cardinality(Live(a)') + Cardinality(Binding(a)')
             <= Slots(a) - 1 + Cardinality(Knowing(a))
      BY <2>3, <2>6, <2>8 DEF SlotsOK
    <2>10. Slots(a)' = Slots(a) /\ Knowing(a)' = Knowing(a)
      BY DEF Slots, Knowing
    <2> QED BY <2>9, <2>10 DEF SlotsHold
  <1>9. CASE a # req[b].who
    <2>1. Live(a)' \subseteq Live(a)
      BY <1>3, <1>4, <1>5, <1>9 DEF Live
    <2> QED BY <1>7, <2>1, SlotsKept DEF SlotsOK, SlotsHold
  <1> QED BY <1>8, <1>9

\* Every step keeps that count within its bound.
LEMMA NextSlots ==
  ASSUME TypeOK, InFlightOK, InFlightOK', TokensOK, SlotsOK, [Next]_vars
  PROVE  SlotsOK'
  <1> SUFFICES ASSUME NEW a \in Accounts PROVE SlotsHold(a)'
    BY DEF SlotsOK, SlotsHold
  <1>1. TablesKeep
    BY NextKeepsTables
  <1>2. SlotsHold(a)
    BY DEF SlotsOK, SlotsHold
  <1>3. ASSUME NEW b \in Browsers, Proceeds(b)
        PROVE  SlotsHold(a)'
    <2>1. PICK step \in Steps \ {"bind"}, q \in Request : Moves(b, step, q)
      BY <1>3 DEF Proceeds
    <2>2. Live(a)' \subseteq Live(a)
      BY <1>1, <2>1, LiveKept DEF Moves
    <2>3. Binding(a)' \subseteq Binding(a)
      BY <2>1 DEF Moves, Binding, TypeOK
    <2> QED BY <1>2, <2>2, <2>3, SlotsKept
  <1>4. ASSUME UNCHANGED <<at, req, gate>>, Len(devices') = Len(devices)
        PROVE  SlotsHold(a)'
    <2>1. Live(a)' \subseteq Live(a)
      BY <1>1, <1>4, LiveKept
    <2>2. Binding(a)' \subseteq Binding(a)
      BY <1>4 DEF Binding
    <2> QED BY <1>2, <2>1, <2>2, SlotsKept
  <1>5. ASSUME Restart
        PROVE  SlotsHold(a)'
    <2>1. devices' = devices /\ \A b \in Browsers : at'[b] = "idle"
      BY <1>5 DEF Restart
    <2>2. Live(a)' \subseteq Live(a)
      BY <2>1 DEF Live
    <2>3. Binding(a)' \subseteq Binding(a)
      BY <2>1 DEF Binding
    <2> QED BY <1>2, <2>2, <2>3, SlotsKept
  <1> QED BY <1>3, <1>4, <1>5, NextShape, AdmittedSlots, BindSlots

-----------------------------------------------------------------------------
\* The inductive invariant, and what follows from it.

IInv == TypeOK /\ InFlightOK /\ GuardOK /\ TokensOK /\ LinkedOK /\ SlotsOK

\* The inductive invariant holds initially.
LEMMA InitIInv == Init => IInv
  <1> SUFFICES ASSUME Init PROVE IInv
    OBVIOUS
  <1>1. TypeOK
    BY InitTypes
  <1>2. InFlightOK
    BY DEF Init, InFlightOK, OneInFlight, LoginSteps, AdminSteps, Counted
  <1>3. TokensOK
    BY DEF Init, TokensOK, CookiesOK, TokenOK, NoSession
  <1>4. LinkedOK
    BY DEF Init, LinkedOK
  <1>5. ASSUME NEW a \in Accounts PROVE SlotsHold(a)
    <2>1. Live(a) = {} /\ Binding(a) = {}
      BY DEF Init, Live, Binding
    <2>2. Cardinality(Live(a)) = 0 /\ Cardinality(Binding(a)) = 0
      BY <2>1, FS_EmptySet
    <2>3. Cardinality(Knowing(a)) \in Nat /\ Slots(a) \in Nat \ {0}
      BY KnowingFinite, SlotsType
    <2> QED BY <2>2, <2>3 DEF SlotsHold
  <1>6. SlotsOK
    BY <1>5 DEF SlotsOK, SlotsHold
  <1>7. GuardOK
    BY DEF Init, GuardOK
  <1> QED BY <1>1, <1>2, <1>3, <1>4, <1>6, <1>7 DEF IInv

\* Every step keeps the inductive invariant.
LEMMA NextIInv == IInv /\ [Next]_vars => IInv'
  <1> SUFFICES ASSUME IInv, [Next]_vars PROVE IInv'
    OBVIOUS
  <1>1. TypeOK /\ InFlightOK /\ GuardOK /\ TokensOK /\ LinkedOK /\ SlotsOK
    BY DEF IInv
  <1>2. TypeOK'
    BY <1>1, NextTypes
  <1>3. InFlightOK'
    BY <1>1, <1>2, NextInFlight
  <1>4. TokensOK'
    BY <1>1, <1>2, NextTokens
  <1>5. LinkedOK'
    BY <1>1, <1>2, NextLinked
  <1>6. SlotsOK'
    BY <1>1, <1>3, NextSlots
  <1>7. GuardOK'
    BY <1>1, NextGuard
  <1> QED BY <1>2, <1>3, <1>4, <1>5, <1>6, <1>7 DEF IInv

\* The invariant holds of every reachable state.
THEOREM Invariance == Spec => []IInv
  <1>1. Init => IInv
    BY InitIInv
  <1>2. IInv /\ [Next]_vars => IInv'
    BY NextIInv
  <1> QED BY <1>1, <1>2, PTL DEF Spec

\* Every variable keeps its type, and what points into the tables of links and
\* devices is in their range: rows are never deleted.
THEOREM TypeCorrect == Spec => []TypeOK
  <1>1. IInv => TypeOK
    BY DEF IInv
  <1> QED BY <1>1, Invariance, PTL

\* A link enrols one browser at most, whoever races for it, and every enrolled
\* browser came by a link of its own account.
THEOREM OneTime == Spec => []OneDevicePerLink
  <1>1. IInv => OneDevicePerLink
    BY LinkedMeans DEF IInv
  <1> QED BY <1>1, Invariance, PTL

\* Logins that overlap overfill an account by no more than the browsers that
\* can log in to it.
THEOREM Overfill == Spec => []OverfillIsBounded
  <1>1. IInv => OverfillIsBounded
    BY SlotsMean DEF IInv
  <1> QED BY <1>1, Invariance, PTL

\* The device of an access token is one its own browser was bound to, never
\* newer than the cookie and never another browser's, and may use the account.
THEOREM TokensMatch == Spec => []TokenMatchesCookie
  <1>1. IInv => TokenMatchesCookie
    BY DEF IInv, TokensOK, TokenOK, TokenMatchesCookie, AdminTrust
  <1> QED BY <1>1, Invariance, PTL

\* With the gate on, links are issued and devices revoked only from browsers
\* enrolled for an admin account.
THEOREM GateKeeps == Spec => []GateKeepsAdminWork
  <1>1. IInv => GateKeepsAdminWork
    <2> SUFFICES ASSUME IInv, gate, NEW b \in Browsers, at[b] \in AdminSteps
                 PROVE  req[b].did # 0 /\ AdminTrust(req[b].did)
      BY DEF GateKeepsAdminWork
    <2>1. req[b].did \in 1..Len(devices) /\ devices[req[b].did].account \in Admins
      BY DEF IInv, InFlightOK, OneInFlight
    <2>2. Len(devices) \in Nat
      BY DEF IInv, TypeOK
    <2> QED BY <2>1, <2>2 DEF AdminTrust
  <1> QED BY <1>1, Invariance, PTL

-----------------------------------------------------------------------------
\* What a step may do: who adds a link, and who revokes a device.

\* Only a request of an admin adds a row to the table of links.
LEMMA StoredBy ==
  ASSUME TypeOK, [Next]_vars, Len(links') # Len(links)
  PROVE  \E c \in Browsers : StoreLink(c)
  <1>1. links \in Seq(Link) /\ Len(links) \in Nat
    BY DEF TypeOK
  <1>2. ASSUME NEW c \in Browsers, Bind(c)
        PROVE  Len(links') = Len(links)
    BY <1>1, <1>2 DEF Bind
  <1>3. ASSUME NEW c \in Browsers, Login(c) \/ GiveUp(c), ~Bind(c)
        PROVE  Len(links') = Len(links)
    BY <1>3 DEF Login, GiveUp, KnownDevice, UnknownDevice, CountDevices,
                LinkAlreadySpent, store
  <1>4. ASSUME NEW c \in Browsers, Administer(c), ~StoreLink(c)
        PROVE  Len(links') = Len(links)
    BY <1>4 DEF Administer, Issue, CountForIssue, CountLinks, Retire, AskRevoke,
                Revoke, store
  <1>5. ASSUME NEW c \in Browsers, NEW l, OpenLink(c, l) \/ ParkedExpires(c)
        PROVE  Len(links') = Len(links)
    BY <1>5 DEF OpenLink, ParkedExpires, store
  <1>6. ASSUME NEW l, LinkExpires(l)
        PROVE  Len(links') = Len(links)
    BY <1>1, <1>6 DEF LinkExpires
  <1>7. ASSUME Restart \/ UNCHANGED vars
        PROVE  Len(links') = Len(links)
    BY <1>7 DEF Restart, vars, store
  <1> QED BY <1>2, <1>3, <1>4, <1>5, <1>6, <1>7 DEF Next

\* A device goes off the list by the revocation that names it.
LEMMA RevokedBy ==
  ASSUME TypeOK, [Next]_vars,
         NEW d \in 1..Len(devices), devices[d].live, ~devices'[d].live
  PROVE  \E c \in Browsers : Revoke(c) /\ req[c].victim = d
  <1>1. devices \in Seq(Device) /\ Len(devices) \in Nat
    BY DEF TypeOK
  <1>2. ASSUME NEW c \in Browsers, Bind(c)
        PROVE  FALSE
    <2> DEFINE row == [account |-> req[c].who, live |-> TRUE]
    <2>1. devices' = Append(devices, row)
      BY <1>2 DEF Bind
    <2> HIDE DEF row
    <2>2. devices'[d] = devices[d]
      BY <1>1, <2>1
    <2> QED BY <2>2
  <1>3. ASSUME NEW c \in Browsers, Revoke(c)
        PROVE  req[c].victim = d
    <2>1. devices' = [devices EXCEPT ![req[c].victim].live = FALSE]
      BY <1>3 DEF Revoke
    <2>2. req[c].victim # d => devices'[d] = devices[d]
      BY <1>1, <2>1
    <2> QED BY <2>2
  <1>4. ASSUME NEW c \in Browsers, Login(c) \/ GiveUp(c), ~Bind(c)
        PROVE  devices' = devices
    BY <1>4 DEF Login, GiveUp, KnownDevice, UnknownDevice, CountDevices,
                LinkAlreadySpent, store
  <1>5. ASSUME NEW c \in Browsers, Administer(c), ~Revoke(c)
        PROVE  devices' = devices
    BY <1>5 DEF Administer, Issue, CountForIssue, CountLinks, Retire, AskRevoke,
                StoreLink, store
  <1>6. ASSUME NEW c \in Browsers, NEW l, OpenLink(c, l) \/ ParkedExpires(c)
        PROVE  devices' = devices
    BY <1>6 DEF OpenLink, ParkedExpires, store
  <1>7. ASSUME NEW l, LinkExpires(l) \/ Restart \/ UNCHANGED vars
        PROVE  devices' = devices
    BY <1>7 DEF LinkExpires, Restart, vars, store
  <1> QED BY <1>2, <1>3, <1>4, <1>5, <1>6, <1>7 DEF Next

\* A link taken for retirement is an unspent link of the account, if it has any.
LEMMA OldestChosen ==
  ASSUME TypeOK, NEW a, NEW l \in 1..Len(links), links[l].account = a, Unspent(l)
  PROVE  /\ OldestUnspent(a) \in 1..Len(links)
         /\ links[OldestUnspent(a)].account = a
  <1> DEFINE mine == {k \in 1..Len(links) : links[k].account = a /\ Unspent(k)}
  <1>1. l \in mine
    OBVIOUS
  <1>2. mine \subseteq Nat
    BY DEF TypeOK
  <1>3. \E m \in mine : \A k \in mine : m <= k
    <2> HIDE DEF mine
    <2> QED BY <1>1, <1>2, Least
  <1>4. (CHOOSE m \in mine : \A k \in mine : m <= k) \in mine
    BY <1>3
  <1>5. OldestUnspent(a) = CHOOSE m \in mine : \A k \in mine : m <= k
    BY <1>1 DEF OldestUnspent
  <1> QED BY <1>4, <1>5

\* What a stored link leaves outstanding: itself, and what was not retired.
LEMMA StoreLeaves ==
  ASSUME TypeOK, NEW b \in Browsers, NEW a, StoreLink(b)
  PROVE  Outstanding(a)'
            \subseteq (Outstanding(a) \ {req[b].oldest}) \union {Len(links) + 1}
  <1> DEFINE row == [account |-> req[b].account, device |-> 0,
                     cancelled |-> FALSE, expired |-> FALSE]
             rest == [l \in 1..Len(links) |->
                        IF l = req[b].oldest
                        THEN [links[l] EXCEPT !.cancelled = TRUE]
                        ELSE links[l]]
  <1>1. links \in Seq(Link) /\ Len(links) \in Nat
    BY DEF TypeOK
  <1>2. \A l \in 1..Len(links) : links[l] \in Link
    BY <1>1
  <1>3. \A l \in 1..Len(links) : rest[l] \in Link
    BY <1>2 DEF Link
  <1>4. rest \in Seq(Link) /\ Len(rest) = Len(links)
    BY <1>1, <1>3
  <1>5. links' = Append(rest, row)
    BY DEF StoreLink
  <1>6. ASSUME NEW l \in 1..Len(links)
        PROVE  /\ l = req[b].oldest => rest[l].cancelled
               /\ l # req[b].oldest => rest[l] = links[l]
    BY <1>2 DEF Link
  <1> HIDE DEF row, rest
  <1>7. /\ Len(links') = Len(links) + 1
        /\ \A l \in 1..Len(links) : links'[l] = rest[l]
    BY <1>1, <1>4, <1>5
  <1>8. ASSUME NEW l \in Outstanding(a)', l # Len(links) + 1
        PROVE  l \in Outstanding(a) \ {req[b].oldest}
    <2>1. /\ l \in 1..Len(links') /\ links'[l].account = a
          /\ l # 0 /\ links'[l].device = 0
          /\ ~links'[l].cancelled /\ ~links'[l].expired
      BY DEF Outstanding, Pending, Unspent
    <2>2. l \in 1..Len(links)
      BY <1>1, <1>7, <1>8, <2>1
    <2>3. l # req[b].oldest /\ links'[l] = links[l]
      BY <1>6, <1>7, <2>1, <2>2
    <2> QED BY <2>1, <2>2, <2>3 DEF Outstanding, Pending, Unspent
  <1> QED BY <1>8

\* A link issued on counts that still hold, in place of a link that is still
\* the one to retire and has not expired, leaves the account no more
\* outstanding links than it has free slots.
THEOREM IssueFits == Spec => CurrentIssueFitsSlots
  <1> DEFINE Fits ==
        \A b \in Browsers, a \in Accounts :
          (/\ at[b] = "store" /\ at'[b] = "idle" /\ Len(links') > Len(links)
           /\ req[b].account = a
           /\ req[b].count = Cardinality(Live(a))
           /\ req[b].waiting = Cardinality(Outstanding(a))
           /\ req[b].count + req[b].waiting <= Slots(a)
           /\ req[b].oldest = ToRetire(a, req[b].count, req[b].waiting)
           /\ req[b].oldest # 0 => Pending(req[b].oldest))
          => Cardinality(Live(a)) + Cardinality(Outstanding(a)') <= Slots(a)
  <1>1. IInv /\ [Next]_vars => Fits
    <2> SUFFICES ASSUME IInv, [Next]_vars, NEW b \in Browsers, NEW a \in Accounts,
                        at[b] = "store", at'[b] = "idle", Len(links') > Len(links),
                        req[b].account = a,
                        req[b].count = Cardinality(Live(a)),
                        req[b].waiting = Cardinality(Outstanding(a)),
                        req[b].count + req[b].waiting <= Slots(a),
                        req[b].oldest = ToRetire(a, req[b].count, req[b].waiting),
                        req[b].oldest # 0 => Pending(req[b].oldest)
                 PROVE  Cardinality(Live(a)) + Cardinality(Outstanding(a)') <= Slots(a)
      OBVIOUS
    <2> DEFINE o == req[b].oldest
               kept == Outstanding(a) \ {o}
               n == Len(links)
    <2>1. TypeOK /\ InFlightOK
      BY DEF IInv
    <2>2. n \in Nat /\ Len(links') \in Nat /\ Slots(a) \in Nat
      BY <2>1, NextTypes, SlotsType DEF TypeOK
    <2>3. Outstanding(a)' \subseteq kept \union {n + 1}
      <3>1. PICK c \in Browsers : StoreLink(c)
        BY <2>1, <2>2, StoredBy
      <3>2. at' = [at EXCEPT ![c] = "idle"]
        BY <3>1 DEF StoreLink, End, Goto
      <3>3. c = b
        BY <2>1, <3>2 DEF TypeOK
      <3> QED BY <2>1, <3>1, <3>3, StoreLeaves
    <2>4. Outstanding(a) \subseteq 1..n
      BY DEF Outstanding
    <2>5. IsFiniteSet(Outstanding(a))
      BY <2>2, <2>4, RangeFinite
    <2>6. /\ IsFiniteSet(kept) /\ Cardinality(kept) \in Nat
          /\ Cardinality(kept) <= req[b].waiting
      BY <2>5, FS_Subset, FS_CardinalityType
    <2>7. req[b].count \in Nat /\ req[b].waiting \in Nat
      BY <2>1 DEF TypeOK, Request
    <2>8. req[b].count < Slots(a)
      BY <2>1 DEF InFlightOK, OneInFlight, Counted
    <2>9. /\ Cardinality(Outstanding(a)') \in Nat
          /\ Cardinality(Outstanding(a)') <= Cardinality(kept) + 1
      <3>1. n + 1 \notin kept
        BY <2>2, <2>4
      <3>2. /\ IsFiniteSet(kept \union {n + 1})
            /\ Cardinality(kept \union {n + 1}) = Cardinality(kept) + 1
        BY <2>6, <3>1, FS_AddElement
      <3> HIDE DEF kept, n
      <3> QED BY <2>3, <3>2, FS_Subset, FS_CardinalityType
    <2>10. CASE NoRoom(a, req[b].count, req[b].waiting)
      <3>1. req[b].waiting # 0
        BY <2>2, <2>7, <2>8, <2>10 DEF NoRoom
      <3>2. Outstanding(a) # {}
        BY <3>1, FS_EmptySet
      <3>3. PICK l \in 1..n : links[l].account = a /\ Unspent(l)
        BY <3>2 DEF Outstanding, Pending
      <3>4. o = OldestUnspent(a)
        BY <2>10 DEF ToRetire
      <3>5. o \in 1..n /\ links[o].account = a
        BY <2>1, <3>3, <3>4, OldestChosen
      <3>6. o \in Outstanding(a)
        BY <2>2, <3>5 DEF Outstanding
      <3>7. Cardinality(kept) = req[b].waiting - 1
        BY <2>5, <3>6, FS_RemoveElement
      <3> HIDE DEF kept
      <3> QED BY <2>2, <2>6, <2>7, <2>9, <3>7
    <2>11. CASE ~NoRoom(a, req[b].count, req[b].waiting)
      <3>1. req[b].count + req[b].waiting < Slots(a)
        BY <2>2, <2>7, <2>11 DEF NoRoom
      <3> HIDE DEF kept
      <3> QED BY <2>2, <2>6, <2>7, <2>9, <3>1
    <2> QED BY <2>10, <2>11
  <1>2. (IInv /\ [Next]_vars => [Fits]_vars)
    BY <1>1
  <1>3. Spec => [][Fits]_vars
    BY <1>2, Invariance, PTL DEF Spec
  <1> QED BY <1>3 DEF CurrentIssueFitsSlots

\* With the gate on, an admin who locks every admin out did not do it to the
\* browser they sit at: the lookup of that browser had failed, the device of
\* their token had been revoked in the meantime, or the token was older than
\* the cookie.
THEOREM LockOutNeedsARace == Spec => LastAdminDeviceNeedsARace
  <1> DEFINE Raced ==
        \A b \in Browsers :
          (/\ gate /\ at[b] = "revoke" /\ at'[b] = "idle"
           /\ LiveAdminDevices # {}
           /\ LiveAdminDevices' = {})
          => req[b].blind \/ ~IsLive(req[b].did) \/ req[b].did # cookie[b]
  <1>1. IInv /\ [Next]_vars => Raced
    <2> SUFFICES ASSUME IInv, [Next]_vars, NEW b \in Browsers,
                        gate, at[b] = "revoke", at'[b] = "idle",
                        LiveAdminDevices' = {},
                        ~req[b].blind, IsLive(req[b].did),
                        req[b].did = cookie[b]
                 PROVE  FALSE
      OBVIOUS
    <2> DEFINE d == req[b].did
    <2>1. TypeOK /\ InFlightOK /\ GuardOK
      BY DEF IInv
    <2>2. Len(devices) \in Nat /\ Len(devices') \in Nat
      BY <2>1, NextTypes DEF TypeOK
    <2>3. TablesKeep
      BY <2>1, NextKeepsTables
    <2>4. /\ d \in 1..Len(devices) /\ devices[d].account \in Admins
          /\ req[b].victim # d
      BY <2>1, <2>2 DEF InFlightOK, OneInFlight, AdminSteps, GuardOK
    <2>5. devices[d].live
      BY DEF IsLive
    <2>6. d \in 1..Len(devices') /\ devices'[d].account = devices[d].account
      BY <2>2, <2>3, <2>4 DEF TablesKeep
    <2>7. ~devices'[d].live
      <3>1. SUFFICES ASSUME devices'[d].live PROVE FALSE
        OBVIOUS
      <3>2. PICK a \in Admins : a = devices[d].account
        BY <2>4
      <3>3. d \in Live(a)'
        BY <2>6, <3>1, <3>2 DEF Live
      <3> QED BY <3>3 DEF LiveAdminDevices
    <2>8. PICK c \in Browsers : Revoke(c) /\ req[c].victim = d
      BY <2>1, <2>4, <2>5, <2>7, RevokedBy
    <2>9. at' = [at EXCEPT ![c] = "idle"]
      BY <2>8 DEF Revoke, End, Goto
    <2>10. c = b
      BY <2>1, <2>9 DEF TypeOK
    <2> QED BY <2>4, <2>8, <2>10
  <1>2. IInv /\ [Next]_vars => [Raced]_vars
    BY <1>1
  <1>3. Spec => [][Raced]_vars
    BY <1>2, Invariance, PTL DEF Spec
  <1> QED BY <1>3 DEF LastAdminDeviceNeedsARace

-----------------------------------------------------------------------------
\* The register: each step of the tables is a step of Enrolment, or none.

\* The link a device came by is the only one that names it.
LEMMA TicketIs ==
  ASSUME TypeOK, LinkedOK, NEW d \in 1..Len(devices)
  PROVE  /\ Ticket(d) \in 1..Len(links)
         /\ links[Ticket(d)].device = d
         /\ \A l \in 1..Len(links) : links[l].device = d => l = Ticket(d)
  <1>1. \E l \in 1..Len(links) : links[l].device = d
    BY DEF LinkedOK
  <1>2. Ticket(d) \in 1..Len(links) /\ links[Ticket(d)].device = d
    BY <1>1 DEF Ticket
  <1>3. d # 0
    BY DEF TypeOK
  <1> QED BY <1>2, <1>3 DEF LinkedOK

\* A link that was spent stays spent on the same device.
SpentStay ==
    /\ Len(links) <= Len(links')
    /\ \A l \in 1..Len(links) : links[l].device # 0 => links'[l].device = links[l].device

LEMMA TicketsStay ==
  ASSUME IInv, IInv', SpentStay, NEW d \in 1..Len(devices), d \in 1..Len(devices')
  PROVE  Ticket(d)' = Ticket(d)
  <1>1. /\ Ticket(d) \in 1..Len(links) /\ links[Ticket(d)].device = d
    BY TicketIs DEF IInv
  <1>2. Len(links) \in Nat /\ Len(links') \in Nat /\ d # 0
    BY DEF IInv, TypeOK
  <1>3. Ticket(d) \in 1..Len(links') /\ links'[Ticket(d)].device = d
    BY <1>1, <1>2 DEF SpentStay
  <1> DEFINE t == Ticket(d)
  <1>4. PICK old : old = t
    OBVIOUS
  <1> HIDE DEF t
  <1>5. old \in 1..Len(links') /\ links'[old].device = d
    BY <1>3, <1>4 DEF t
  <1>6. \A l \in 1..Len(links') : links'[l].device = d => l = Ticket(d)'
    <2>1. TypeOK' /\ LinkedOK'
      BY DEF IInv
    <2>2. \E l \in 1..Len(links') : links'[l].device = d
      BY <1>5
    <2>3. Ticket(d)' \in 1..Len(links') /\ links'[Ticket(d)'].device = d
      BY <2>2 DEF Ticket
    <2> QED BY <1>2, <2>1, <2>3 DEF LinkedOK
  <1> QED BY <1>4, <1>5, <1>6 DEF t

\* Nothing but the accounts of the links and the rows of the devices counts.
LEMMA RegisterStays ==
  ASSUME IInv, IInv', SpentStay, devices' = devices, Len(links') = Len(links),
         \A l \in 1..Len(links) : links'[l].account = links[l].account
  PROVE  UNCHANGED Register!vars
  <1>1. Issued' = Issued
    BY DEF Issued
  <1>2. \A d \in 1..Len(devices) : Ticket(d)' = Ticket(d)
    BY TicketsStay
  <1>3. Enrolments' = Enrolments
    BY <1>2 DEF Enrolments
  <1> QED BY <1>1, <1>3 DEF Register!vars

\* What every link and every device is, once and for all.
LEMMA RowsAre ==
  ASSUME TypeOK
  PROVE  /\ links \in Seq(Link) /\ Len(links) \in Nat
         /\ \A l \in 1..Len(links) : links[l] \in Link
         /\ devices \in Seq(Device) /\ Len(devices) \in Nat
         /\ \A d \in 1..Len(devices) : devices[d] \in Device
  <1>1. links \in Seq(Link) /\ devices \in Seq(Device)
    BY DEF TypeOK
  <1> QED BY <1>1

LEMMA LengthOfRegister ==
  ASSUME TypeOK
  PROVE  /\ Issued \in Seq(Accounts) /\ Len(Issued) = Len(links)
         /\ DOMAIN Enrolments = 1..Len(devices)
         /\ Len(Enrolments) = Len(devices)
  <1>1. \A l \in 1..Len(links) : links[l].account \in Accounts
    BY RowsAre DEF Link
  <1>2. Len(links) \in Nat /\ Len(devices) \in Nat
    BY RowsAre
  <1>3. Issued \in [1..Len(links) -> Accounts] /\ DOMAIN Issued = 1..Len(links)
    BY <1>1 DEF Issued
  <1>4. DOMAIN Enrolments = 1..Len(devices)
    BY DEF Enrolments
  <1> QED BY <1>2, <1>3, <1>4

\* A sequence that agrees with s and ends in x is s with x appended.
OneMore(f, s, x, S) ==
    /\ s \in Seq(S) /\ x \in S
    /\ f \in [1..(Len(s) + 1) -> S]
    /\ \A i \in 1..Len(s) : f[i] = s[i]
    /\ f[Len(s) + 1] = x

LEMMA AppendIs ==
  ASSUME NEW S, NEW s, NEW x, NEW f, OneMore(f, s, x, S)
  PROVE  f = Append(s, x)
  <1> DEFINE g == Append(s, x)
             n == Len(s)
  <1>1. g \in Seq(S) /\ Len(g) = n + 1 /\ n \in Nat
    BY DEF OneMore
  <1>2. (\A i \in 1..n : g[i] = s[i]) /\ g[n + 1] = x
    BY DEF OneMore
  <1>3. f \in [1..(n + 1) -> S] /\ (\A i \in 1..n : f[i] = s[i]) /\ f[n + 1] = x
    BY DEF OneMore
  <1> HIDE DEF g, n
  <1>4. g \in [1..(n + 1) -> S]
    BY <1>1
  <1>5. \A i \in 1..(n + 1) : i \in 1..n \/ i = n + 1
    BY <1>1
  <1>6. \A i \in 1..(n + 1) : f[i] = g[i]
    BY <1>2, <1>3, <1>5
  <1>7. f = g
    <2>1. f \in [1..(n + 1) -> S]
      BY <1>3
    <2>2. f = [i \in 1..(n + 1) |-> f[i]] /\ g = [i \in 1..(n + 1) |-> g[i]]
      BY <1>4, <2>1, Zenon
    <2>3. [i \in 1..(n + 1) |-> f[i]] = [i \in 1..(n + 1) |-> g[i]]
      BY <1>6, Zenon
    <2> QED BY <2>2, <2>3, Zenon
  <1> QED BY <1>7 DEF g

LEMMA StoreIssues ==
  ASSUME IInv, IInv', NEW b \in Browsers, StoreLink(b)
  PROVE  \E a \in Accounts : Register!Issue(a)
  <1> DEFINE a == req[b].account
             row == [account |-> a, device |-> 0, cancelled |-> FALSE, expired |-> FALSE]
             rest == [l \in 1..Len(links) |->
                        IF l = req[b].oldest
                        THEN [links[l] EXCEPT !.cancelled = TRUE]
                        ELSE links[l]]
  <1>1. links' = Append(rest, row) /\ devices' = devices
    BY DEF StoreLink
  <1>2. Len(links) \in Nat /\ \A l \in 1..Len(links) : links[l] \in Link
    BY RowsAre DEF IInv
  <1>3. ASSUME NEW l \in 1..Len(links)
        PROVE  rest[l] \in Link /\ rest[l].account = links[l].account
               /\ rest[l].device = links[l].device
    BY <1>2 DEF Link
  <1>4. rest \in Seq(Link) /\ Len(rest) = Len(links)
    BY <1>2, <1>3
  <1>5. a \in Accounts
    <2>1. OneInFlight(b, at[b], req[b])
      BY DEF IInv, InFlightOK
    <2>2. at[b] \in AdminSteps \ {"revoke"}
      BY DEF StoreLink, AdminSteps
    <2> QED BY <2>1, <2>2 DEF OneInFlight
  <1>6. row.account = a /\ row \in Link
    BY <1>5 DEF Link
  <1> HIDE DEF a, row, rest
  <1>7. /\ Len(links') = Len(links) + 1
        /\ \A l \in 1..Len(links) : links'[l] = rest[l]
        /\ links'[Len(links) + 1] = row
    BY <1>1, <1>2, <1>4, <1>6
  <1>8. SpentStay
    BY <1>2, <1>3, <1>7 DEF SpentStay
  <1>9. Enrolments' = Enrolments
    <2>1. \A d \in 1..Len(devices) : Ticket(d)' = Ticket(d)
      BY <1>1, <1>8, TicketsStay
    <2> QED BY <1>1, <2>1 DEF Enrolments
  <1>10. Issued' = Append(Issued, a)
    <2>1. Issued \in Seq(Accounts) /\ Len(Issued) = Len(links)
      BY LengthOfRegister DEF IInv
    <2>2. PICK n : n = Len(links)
      OBVIOUS
    <2>3. Issued' = [l \in 1..(n + 1) |-> links'[l].account]
      BY <1>7, <2>2 DEF Issued
    <2>4. PICK f : f = Issued'
      OBVIOUS
    <2>5. \A l \in 1..n : f[l] = Issued[l]
      <3> SUFFICES ASSUME NEW l \in 1..n PROVE f[l] = Issued[l]
        OBVIOUS
      <3>1. Issued[l] = links[l].account
        BY <2>2 DEF Issued
      <3>2. l \in 1..(n + 1)
        BY <1>2, <2>2
      <3> QED BY <1>3, <1>7, <2>2, <2>3, <2>4, <3>1, <3>2
    <2>6. f[n + 1] = a
      <3>1. n + 1 \in 1..(n + 1)
        BY <1>2, <2>2
      <3> QED BY <1>6, <1>7, <2>2, <2>3, <2>4, <3>1
    <2>7. f \in [1..(n + 1) -> Accounts]
      <3>1. \A l \in 1..(n + 1) : l \in 1..n \/ l = n + 1
        BY <1>2, <2>2
      <3>2. \A l \in 1..n : Issued[l] \in Accounts
        BY <2>1, <2>2
      <3> QED BY <1>5, <2>3, <2>4, <2>5, <2>6, <3>1, <3>2
    <2>8. f = Append(Issued, a)
      <3>1. Len(Issued) = n
        BY <2>1, <2>2
      <3>2. OneMore(f, Issued, a, Accounts)
        BY <1>5, <2>1, <2>5, <2>6, <2>7, <3>1 DEF OneMore
      <3> QED BY <3>2, AppendIs
    <2> QED BY <2>4, <2>8
  <1> QED BY <1>5, <1>9, <1>10 DEF Register!Issue

\* Each device with the link it came by.
LEMMA EnrolmentsType ==
  ASSUME TypeOK, LinkedOK
  PROVE  Enrolments \in Seq(Register!Enrolled) /\ Len(Enrolments) = Len(devices)
  <1>1. Len(links) \in Nat /\ Len(devices) \in Nat
    BY RowsAre
  <1>2. ASSUME NEW d \in 1..Len(devices)
        PROVE  [ticket |-> Ticket(d), account |-> devices[d].account,
                live |-> devices[d].live] \in Register!Enrolled
    <2>1. Ticket(d) \in Nat
      BY <1>1, TicketIs
    <2>2. devices[d].account \in Accounts /\ devices[d].live \in BOOLEAN
      BY RowsAre DEF Device
    <2> QED BY <2>1, <2>2 DEF Register!Enrolled
  <1>3. Enrolments \in [1..Len(devices) -> Register!Enrolled]
    BY <1>2 DEF Enrolments
  <1> QED BY <1>1, <1>3

LEMMA BindEnrols ==
  ASSUME IInv, IInv', NEW b \in Browsers, Bind(b)
  PROVE  \E t \in 1..Len(Issued) : Register!Enrol(t)
  <1> DEFINE d == Len(devices) + 1
             m == req[b].link
             row == [account |-> req[b].who, live |-> TRUE]
  <1>1. /\ Len(links) \in Nat /\ \A l \in 1..Len(links) : links[l] \in Link
        /\ devices \in Seq(Device) /\ Len(devices) \in Nat
    BY RowsAre DEF IInv
  <1>2. m \in 1..Len(links) /\ links[m].account = req[b].who
    BY <1>1 DEF Bind, IInv, TypeOK, Request, InFlightOK, OneInFlight, LoginSteps
  <1>3. links[m].device = 0
    BY DEF Bind, SpendableLink
  <1>4. devices' = Append(devices, row) /\ links' = [links EXCEPT ![m].device = d]
    BY DEF Bind
  <1>5. /\ Len(devices') = d /\ devices'[d] = row
        /\ \A e \in 1..Len(devices) : devices'[e] = devices[e]
    BY <1>1, <1>4
  <1>6. /\ Len(links') = Len(links)
        /\ links'[m].device = d
        /\ \A l \in 1..Len(links) : l # m => links'[l] = links[l]
        /\ \A l \in 1..Len(links) : links'[l].account = links[l].account
    BY <1>1, <1>2, <1>4 DEF Link
  <1>7. SpentStay
    BY <1>1, <1>3, <1>6 DEF SpentStay
  <1>8. Issued' = Issued /\ Issued[m] = links[m].account /\ m \in 1..Len(Issued)
    <2>1. Issued' = Issued
      BY <1>6 DEF Issued
    <2>2. Issued[m] = links[m].account
      BY <1>2 DEF Issued
    <2>3. m \in 1..Len(Issued)
      BY <1>2, LengthOfRegister DEF IInv
    <2> QED BY <2>1, <2>2, <2>3
  <1>9. d \in 1..Len(devices') /\ 1..Len(devices') = 1..Len(devices) \union {d}
        /\ d \notin 1..Len(devices)
    BY <1>1, <1>5
  <1> DEFINE entry == [ticket |-> m, account |-> Issued[m], live |-> TRUE]
  <1>10. PICK t, n : t = m /\ n = d
    OBVIOUS
  <1>11. row.account = links[m].account /\ row.live = TRUE
    BY <1>2
  <1> HIDE DEF d, m, row
  \* The new device came by link m, the others by the link they came by.
  <1>12. Ticket(n)' = t
    <2>1. n \in 1..Len(devices') /\ t \in 1..Len(links') /\ links'[t].device = n
      BY <1>2, <1>6, <1>9, <1>10
    <2>2. Ticket(n)' \in 1..Len(links') /\ links'[Ticket(n)'].device = n
      BY <2>1 DEF Ticket
    <2>3. TypeOK' /\ LinkedOK'
      BY DEF IInv
    <2>4. n # 0
      BY <2>1, <2>3 DEF TypeOK
    <2> QED BY <2>1, <2>2, <2>3, <2>4 DEF LinkedOK
  <1>13. \A e \in 1..Len(devices) : Ticket(e)' = Ticket(e)
    BY <1>7, <1>9, TicketsStay
  <1>14. ~Register!Used(t)
    <2> SUFFICES ASSUME NEW e \in 1..Len(devices), Enrolments[e].ticket = t
                 PROVE  FALSE
      BY LengthOfRegister DEF Register!Used, IInv
    <2>1. Enrolments[e].ticket = Ticket(e)
      BY DEF Enrolments
    <2>2. links[t].device = e /\ e # 0
      BY <1>1, <2>1, TicketIs DEF IInv
    <2> QED BY <1>3, <1>10, <2>2
  <1>15. Enrolments' = Append(Enrolments, entry)
    <2>1. Enrolments \in Seq(Register!Enrolled) /\ Len(Enrolments) = Len(devices)
      BY EnrolmentsType DEF IInv
    <2>2. entry \in Register!Enrolled
      <3>1. m \in Nat /\ Issued[m] \in Accounts
        BY <1>1, <1>2, <1>8, LengthOfRegister DEF IInv, Link
      <3> QED BY <3>1 DEF Register!Enrolled
    <2>3. n = Len(devices) + 1
      BY <1>10 DEF d
    <2> HIDE DEF entry
    <2>4. PICK f : f = Enrolments'
      OBVIOUS
    <2>5. f = [e \in 1..n |-> [ticket |-> Ticket(e)', account |-> devices'[e].account,
                               live |-> devices'[e].live]]
      BY <1>5, <1>10, <2>4 DEF Enrolments
    <2>6. \A e \in 1..Len(devices) : f[e] = Enrolments[e]
      <3> SUFFICES ASSUME NEW e \in 1..Len(devices) PROVE f[e] = Enrolments[e]
        OBVIOUS
      <3>1. e \in 1..n
        BY <1>1, <2>3
      <3>2. Enrolments[e] = [ticket |-> Ticket(e), account |-> devices[e].account,
                             live |-> devices[e].live]
        BY DEF Enrolments
      <3>3. f[e] = [ticket |-> Ticket(e)', account |-> devices'[e].account,
                    live |-> devices'[e].live]
        BY <2>5, <3>1
      <3>4. Ticket(e)' = Ticket(e)
        BY <1>13
      <3>5. devices'[e] = devices[e]
        BY <1>5
      <3> QED BY <3>2, <3>3, <3>4, <3>5, Zenon
    <2>7. f[n] = entry
      <3>1. n \in 1..n
        BY <1>1, <2>3
      <3>2. f[n] = [ticket |-> Ticket(n)', account |-> devices'[n].account,
                    live |-> devices'[n].live]
        BY <2>5, <3>1
      <3>3. devices'[n] = row
        BY <1>5, <1>10
      <3>4. entry = [ticket |-> m, account |-> Issued[m], live |-> TRUE]
        BY DEF entry
      <3> QED BY <1>8, <1>10, <1>11, <1>12, <3>2, <3>3, <3>4
    <2>8. f \in [1..(Len(devices) + 1) -> Register!Enrolled]
      <3>1. \A e \in 1..n : e \in 1..Len(devices) \/ e = n
        BY <1>1, <2>3
      <3>2. \A e \in 1..Len(devices) : Enrolments[e] \in Register!Enrolled
        BY <2>1
      <3>3. \A e \in 1..n : f[e] \in Register!Enrolled
        BY <2>2, <2>6, <2>7, <3>1, <3>2
      <3> QED BY <2>3, <2>5, <3>3
    <2>9. f = Append(Enrolments, entry)
      <3>1. f[Len(devices) + 1] = entry
        BY <2>3, <2>7
      <3>2. OneMore(f, Enrolments, entry, Register!Enrolled)
        BY <2>1, <2>2, <2>6, <2>8, <3>1 DEF OneMore
      <3> QED BY <3>2, AppendIs
    <2> QED BY <2>4, <2>9
  <1> QED BY <1>2, <1>8, <1>10, <1>14, <1>15 DEF Register!Enrol

LEMMA RevokeEnds ==
  ASSUME IInv, IInv', NEW b \in Browsers, Revoke(b)
  PROVE  \E d \in 1..Len(Enrolments) : Register!Revoke(d)
  <1> DEFINE v == req[b].victim
  <1>1. /\ Len(links) \in Nat /\ Len(devices) \in Nat
        /\ devices \in Seq(Device)
        /\ \A d \in 1..Len(devices) : devices[d] \in Device
    BY RowsAre DEF IInv
  <1>2. v \in 1..Len(devices)
    <2>1. OneInFlight(b, at[b], req[b])
      BY DEF IInv, InFlightOK
    <2>2. v # 0
      BY <2>1 DEF Revoke, OneInFlight
    <2>3. v \in 0..Len(devices)
      BY DEF IInv, TypeOK, Request
    <2> QED BY <1>1, <2>2, <2>3
  <1>3. devices' = [devices EXCEPT ![v].live = FALSE] /\ links' = links
    BY DEF Revoke
  <1> HIDE DEF v
  <1>4. /\ Len(devices') = Len(devices)
        /\ \A d \in 1..Len(devices) :
              /\ devices'[d].account = devices[d].account
              /\ devices'[d].live = IF d = v THEN FALSE ELSE devices[d].live
    <2>1. Len(devices') = Len(devices)
      BY <1>1, <1>2, <1>3
    <2>2. ASSUME NEW d \in 1..Len(devices), d # v
          PROVE  devices'[d] = devices[d]
      BY <1>1, <1>3, <2>2
    <2>3. devices'[v] = [devices[v] EXCEPT !.live = FALSE]
      <3>1. DOMAIN devices = 1..Len(devices)
        BY <1>1
      <3> QED BY <1>2, <1>3, <3>1, Zenon
    <2>4. devices'[v].account = devices[v].account /\ devices'[v].live = FALSE
      BY <1>1, <1>2, <2>3 DEF Device
    <2> QED BY <2>1, <2>2, <2>4
  <1>5. Issued' = Issued
    BY <1>3 DEF Issued
  <1>6. SpentStay
    BY <1>1, <1>3 DEF SpentStay
  <1>7. \A d \in 1..Len(devices) : Ticket(d)' = Ticket(d)
    BY <1>4, <1>6, TicketsStay
  <1>8. Enrolments' = [d \in 1..Len(devices) |->
                         [ticket |-> Ticket(d), account |-> devices[d].account,
                          live |-> IF d = v THEN FALSE ELSE devices[d].live]]
    BY <1>4, <1>7 DEF Enrolments
  <1>9. [Enrolments EXCEPT ![v].live = FALSE] =
          [d \in 1..Len(devices) |->
             [ticket |-> Ticket(d), account |-> devices[d].account,
              live |-> IF d = v THEN FALSE ELSE devices[d].live]]
    <2>1. PICK n : n = Len(devices)
      OBVIOUS
    <2> DEFINE mark(e) == [e EXCEPT ![v].live = FALSE]
    <2>2. Enrolments = [d \in 1..n |-> Enrolments[d]] /\ v \in 1..n
      BY <1>2, <2>1 DEF Enrolments
    <2>3. mark(Enrolments) = [d \in 1..n |-> IF d = v
                                THEN [Enrolments[d] EXCEPT !.live = FALSE]
                                ELSE Enrolments[d]]
      BY <2>2
    <2> HIDE DEF mark
    <2>4. ASSUME NEW d \in 1..n
          PROVE  (IF d = v THEN [Enrolments[d] EXCEPT !.live = FALSE] ELSE Enrolments[d])
                    = [ticket |-> Ticket(d), account |-> devices[d].account,
                       live |-> IF d = v THEN FALSE ELSE devices[d].live]
      BY <2>1 DEF Enrolments
    <2>5. mark(Enrolments) =
            [d \in 1..n |-> [ticket |-> Ticket(d), account |-> devices[d].account,
                             live |-> IF d = v THEN FALSE ELSE devices[d].live]]
      BY <2>3, <2>4, Zenon
    <2> QED BY <2>1, <2>5 DEF mark
  <1>10. v \in 1..Len(Enrolments)
    BY <1>2, LengthOfRegister DEF IInv
  <1> QED BY <1>5, <1>8, <1>9, <1>10 DEF Register!Revoke

\* The other steps leave the accounts of the links and the devices alone.
LEMMA OthersStay ==
  ASSUME IInv, IInv', [Next]_vars,
         \A b \in Browsers : ~StoreLink(b) /\ ~Bind(b) /\ ~Revoke(b)
  PROVE  UNCHANGED Register!vars
  <1>1. Len(links) \in Nat /\ \A l \in 1..Len(links) : links[l] \in Link
    BY RowsAre DEF IInv
  <1>2. CASE UNCHANGED <<links, devices>>
    <2>1. SpentStay
      BY <1>1, <1>2 DEF SpentStay
    <2> QED BY <1>2, <2>1, RegisterStays
  <1>3. ASSUME NEW l \in 1..Len(links), LinkExpires(l)
        PROVE  UNCHANGED Register!vars
    <2>1. links' = [links EXCEPT ![l].expired = TRUE] /\ devices' = devices
      BY <1>3 DEF LinkExpires
    <2>2. /\ Len(links') = Len(links)
          /\ \A k \in 1..Len(links) : /\ links'[k].account = links[k].account
                                      /\ links'[k].device = links[k].device
      BY <1>1, <1>3, <2>1 DEF Link
    <2>3. SpentStay
      BY <1>1, <2>2 DEF SpentStay
    <2> QED BY <2>1, <2>2, <2>3, RegisterStays
  <1>4. (\E l \in 1..Len(links) : LinkExpires(l)) \/ UNCHANGED <<links, devices>>
    <2>1. CASE UNCHANGED vars
      BY <2>1 DEF vars, store
    <2>2. CASE Restart
      BY <2>2 DEF Restart
    <2>3. ASSUME NEW b \in Browsers, Login(b)
          PROVE  UNCHANGED <<links, devices>>
      <3>1. ASSUME NEW a \in Accounts, KnownDevice(b, a) \/ UnknownDevice(b, a)
            PROVE  UNCHANGED <<links, devices>>
        BY <3>1 DEF KnownDevice, UnknownDevice, store
      <3>2. CASE CountDevices(b)
        BY <3>2 DEF CountDevices, store
      <3>3. CASE LinkAlreadySpent(b)
        BY <3>3 DEF LinkAlreadySpent, store
      <3> QED BY <2>3, <3>1, <3>2, <3>3 DEF Login
    <2>4. ASSUME NEW b \in Browsers, Administer(b)
          PROVE  UNCHANGED <<links, devices>>
      <3>1. ASSUME NEW a \in Accounts, Issue(b, a)
            PROVE  UNCHANGED <<links, devices>>
        BY <3>1, Zenon DEF Issue, store
      <3>2. CASE CountForIssue(b)
        BY <3>2, Zenon DEF CountForIssue, store
      <3>3. CASE CountLinks(b)
        BY <3>3, Zenon DEF CountLinks, store
      <3>4. CASE Retire(b)
        BY <3>4 DEF Retire, store
      <3>5. ASSUME NEW d \in 1..Len(devices), AskRevoke(b, d)
            PROVE  UNCHANGED <<links, devices>>
        BY <3>5 DEF AskRevoke, store
      <3> QED BY <2>4, <3>1, <3>2, <3>3, <3>4, <3>5 DEF Administer
    <2>5. ASSUME NEW b \in Browsers,
                 (\E l \in 1..Len(links) : OpenLink(b, l)) \/ ParkedExpires(b) \/ GiveUp(b)
          PROVE  UNCHANGED <<links, devices>>
      BY <2>5 DEF OpenLink, ParkedExpires, GiveUp, store
    <2> QED BY <2>1, <2>2, <2>3, <2>4, <2>5 DEF Next
  <1> QED BY <1>2, <1>3, <1>4

LEMMA InitMaps == Init => Register!Init
  <1> SUFFICES ASSUME Init PROVE Register!Init
    OBVIOUS
  <1>1. Len(links) = 0 /\ Len(devices) = 0
    BY DEF Init
  <1>2. 1..0 = {}
    OBVIOUS
  <1>3. Issued = <<>>
    BY <1>1, <1>2 DEF Issued
  <1>4. Enrolments = <<>>
    BY <1>1, <1>2 DEF Enrolments
  <1> QED BY <1>3, <1>4 DEF Register!Init

LEMMA NextMaps == IInv /\ IInv' /\ [Next]_vars => [Register!Next]_(Register!vars)
  <1> SUFFICES ASSUME IInv, IInv', [Next]_vars
               PROVE  Register!Next \/ UNCHANGED Register!vars
    OBVIOUS
  <1>1. ASSUME NEW b \in Browsers, StoreLink(b) PROVE Register!Next
    BY <1>1, StoreIssues DEF Register!Next
  <1>2. ASSUME NEW b \in Browsers, Bind(b) PROVE Register!Next
    BY <1>2, BindEnrols DEF Register!Next
  <1>3. ASSUME NEW b \in Browsers, Revoke(b) PROVE Register!Next
    BY <1>3, RevokeEnds DEF Register!Next
  <1> QED BY <1>1, <1>2, <1>3, OthersStay

\* What the binding promises whatever overlaps: the tables change only as
\* Enrolment says (CheckLoginDevice, SaaSAdminIssueEnrolmentLink,
\* SaaSAdminRevokeDevice).
THEOREM Refinement == Spec => ImplementsEnrolment
  <1>1. Init => Register!Init
    BY InitMaps
  <1>2. IInv /\ IInv' /\ [Next]_vars => [Register!Next]_(Register!vars)
    BY NextMaps
  <1>3. Spec => Register!Spec
    BY <1>1, <1>2, Invariance, PTL DEF Spec, Register!Spec
  <1> QED BY <1>3 DEF ImplementsEnrolment

\* The link of a device is never that of another one, not even of a revoked one
\* (used_at and used_device_id of 00015_device_binding.sql).
THEOREM TicketsOnce == Spec => []Register!TicketsAreOneTime
  <1>1. IInv => Register!TicketsAreOneTime
    <2> SUFFICES ASSUME IInv PROVE Register!TicketsAreOneTime
      OBVIOUS
    <2>1. TypeOK /\ LinkedOK
      BY DEF IInv
    <2>2. Len(Issued) = Len(links) /\ Len(Enrolments) = Len(devices)
      BY <2>1, LengthOfRegister, EnrolmentsType
    <2>3. ASSUME NEW d \in 1..Len(devices)
          PROVE  /\ Enrolments[d].ticket = Ticket(d)
                 /\ Enrolments[d].account = devices[d].account
                 /\ Ticket(d) \in 1..Len(links)
                 /\ links[Ticket(d)].device = d
                 /\ Issued[Ticket(d)] = devices[d].account
      <3>1. Ticket(d) \in 1..Len(links) /\ links[Ticket(d)].device = d /\ d # 0
        BY <2>1, TicketIs DEF TypeOK
      <3>2. links[Ticket(d)].account = devices[d].account
        BY <2>1, <3>1 DEF LinkedOK
      <3>3. Issued[Ticket(d)] = links[Ticket(d)].account
        BY <3>1 DEF Issued
      <3> QED BY <3>1, <3>2, <3>3 DEF Enrolments
    <2>4. ASSUME NEW d \in 1..Len(devices), NEW e \in 1..Len(devices),
                 Enrolments[e].ticket = Enrolments[d].ticket
          PROVE  e = d
      BY <2>3, <2>4
    <2> QED BY <2>2, <2>3, <2>4 DEF Register!TicketsAreOneTime
  <1> QED BY <1>1, Invariance, PTL

\* A revoked device is never taken back: its row stays, stamped, "so the same
\* cookie can never be silently re-accepted later" (revoked_at of
\* 00015_device_binding.sql).
THEOREM RevokedForGood == Spec => Register!RevocationIsFinal
  <1> DEFINE Kept == \A d \in 1..Len(Enrolments) :
                        /\ d \in 1..Len(Enrolments')
                        /\ Enrolments'[d].ticket = Enrolments[d].ticket
                        /\ Enrolments'[d].account = Enrolments[d].account
                        /\ Enrolments'[d].live => Enrolments[d].live
  <1>1. IInv /\ IInv' /\ [Next]_vars => [Kept]_(Register!vars)
    <2> SUFFICES ASSUME IInv, Register!Next PROVE Kept
      BY NextMaps
    <2>1. Enrolments \in Seq(Register!Enrolled) /\ Len(Enrolments) \in Nat
      <3>1. Enrolments \in Seq(Register!Enrolled)
        BY EnrolmentsType DEF IInv
      <3> QED BY <3>1
    <2>2. ASSUME NEW a \in Accounts, Register!Issue(a) PROVE Kept
      BY <2>2 DEF Register!Issue
    <2>3. ASSUME NEW t, Register!Enrol(t) PROVE Kept
      <3> DEFINE row == [ticket |-> t, account |-> Issued[t], live |-> TRUE]
      <3>1. Enrolments' = Append(Enrolments, row)
        BY <2>3 DEF Register!Enrol
      <3> HIDE DEF row
      <3>2. /\ Len(Enrolments') = Len(Enrolments) + 1
            /\ \A d \in 1..Len(Enrolments) : Enrolments'[d] = Enrolments[d]
        BY <2>1, <3>1
      <3>3. \A d \in 1..Len(Enrolments) : d \in 1..Len(Enrolments')
        BY <2>1, <3>2
      <3> QED BY <3>2, <3>3
    <2>4. ASSUME NEW v \in 1..Len(Enrolments), Register!Revoke(v) PROVE Kept
      <3>1. Enrolments' = [Enrolments EXCEPT ![v].live = FALSE]
        BY <2>4 DEF Register!Revoke
      <3>2. DOMAIN Enrolments = 1..Len(Enrolments) /\ Len(Enrolments') = Len(Enrolments)
        BY <2>1, <3>1
      <3>3. ASSUME NEW d \in 1..Len(Enrolments), d # v
            PROVE  Enrolments'[d] = Enrolments[d]
        BY <2>1, <3>1, <3>3
      <3>4. Enrolments'[v] = [Enrolments[v] EXCEPT !.live = FALSE]
        BY <3>1, <3>2, Zenon
      <3>5. /\ Enrolments'[v].ticket = Enrolments[v].ticket
            /\ Enrolments'[v].account = Enrolments[v].account
            /\ ~Enrolments'[v].live
        BY <2>1, <3>4 DEF Register!Enrolled
      <3> QED BY <3>2, <3>3, <3>5
    <2> QED BY <2>2, <2>3, <2>4 DEF Register!Next
  <1>2. Spec => [][Kept]_(Register!vars)
    BY <1>1, Invariance, PTL DEF Spec
  <1> QED BY <1>2 DEF Register!RevocationIsFinal
=============================================================================
