--------------------------- MODULE DeviceBinding ---------------------------
(***************************************************************************)
(* Device binding (device_handlers.go, device_admin_handlers.go, the       *)
(* device check of middleware/auth.go): one-time enrolment links bind      *)
(* browsers to accounts, up to a number of slots per account.              *)
(*                                                                         *)
(* A request enters with the reads that say who is asking: a device once   *)
(* revoked and a link once spent stay so, and nothing of the request is    *)
(* visible before.  Then each read is a step of its own, stale by the time *)
(* the handler acts on it.  A transaction takes effect in one step.        *)
(*                                                                         *)
(* Links and devices are numbered in the order they were made, which       *)
(* stands for their ids, their secrets and the hashes of these; 0 is none. *)
(*                                                                         *)
(* Suspension (is_active) belongs to another component: here a lookup that *)
(* refuses a suspended account is one of the ways GiveUp ends a request.   *)
(***************************************************************************)
EXTENDS Integers, Sequences, FiniteSets

CONSTANTS
    Accounts,   \* publishers.id
    Admins,     \* those with role ADMIN
    NoAccount,  \* a browser that is not signed in
    Browsers,   \* each has at most one request in flight
    Knows,      \* the accounts whose password the user of each knows
    AdminSlots, \* adminDeviceSlots
    MayFail,    \* whether a query, a COMMIT or a reply may be lost
    MaxLinks,   \* bound: links issued in a behaviour
    MaxRestarts \* bound: restarts of the server in a behaviour

ASSUME AccountsAssumption == Admins \subseteq Accounts /\ NoAccount \notin Accounts
ASSUME BoundsAssumption ==
    /\ IsFiniteSet(Browsers)
    /\ Knows \in [Browsers -> SUBSET Accounts]
    /\ AdminSlots \in Nat \ {0}
    /\ MayFail \in BOOLEAN
    /\ MaxLinks \in Nat
    /\ MaxRestarts \in Nat

VARIABLES
    gate,     \* DEVICE_GATE_ENABLED
    links,    \* enrolment_tokens
    devices,  \* account_devices
    cookie,   \* pm_device of each browser: the device it can prove to be
    parked,   \* pm_enrol: the link whose token it carries
    session,  \* the access token it holds: its sub and did claims
    at,       \* where the request of each browser is
    req,      \* what that request was sent with and has read
    restarts

store == <<gate, links, devices, restarts>>
browser == <<cookie, parked, session>>
vars == <<store, browser, at, req>>

Link == [account: Accounts, device: Nat, cancelled: BOOLEAN, expired: BOOLEAN]
Device == [account: Accounts, live: BOOLEAN]
Session == [account: Accounts \union {NoAccount}, did: Nat]
NoSession == [account |-> NoAccount, did |-> 0]

\* who: the account of the login, or of the access token sent along; did: that
\* token's device; link: the link sent along; account: whom a link is issued
\* for; victim: the device to revoke; blind: a lookup has failed.
NoReq == [who |-> NoAccount, did |-> 0, link |-> 0, account |-> NoAccount,
          victim |-> 0, count |-> 0, waiting |-> 0, oldest |-> 0,
          blind |-> FALSE]

Request == [who: Accounts \union {NoAccount}, did: Nat, link: 0..Len(links),
            account: Accounts \union {NoAccount}, victim: 0..Len(devices),
            count: Nat, waiting: Nat, oldest: 0..Len(links), blind: BOOLEAN]

LoginSteps == {"count", "bind"}
AdminSteps == {"count for issue", "count links", "retire", "store", "revoke"}

TypeOK ==
    /\ gate \in BOOLEAN
    /\ links \in Seq(Link)
    /\ devices \in Seq(Device)
    /\ cookie \in [Browsers -> 0..Len(devices)]
    /\ parked \in [Browsers -> 0..Len(links)]
    /\ session \in [Browsers -> Session]
    /\ at \in [Browsers -> {"idle"} \union LoginSteps \union AdminSteps]
    /\ req \in [Browsers -> Request]
    /\ restarts \in 0..MaxRestarts
-----------------------------------------------------------------------------
\* deviceSlotsFor
Slots(a) == IF a \in Admins THEN AdminSlots ELSE 1

IsLive(d) == d # 0 /\ devices[d].live
Live(a) == {d \in 1..Len(devices) : devices[d].account = a /\ devices[d].live}

\* trust_level is fixed at binding by the account's role.
AdminTrust(d) == devices[d].account \in Admins

\* Mutant of Entitled: any enrolled browser may use any account.
EntitledToAll(d, a) == IsLive(d)

\* DeviceIsLiveForAccount, and the same test in CheckLoginDevice.
Entitled(d, a) == IsLive(d) /\ (AdminTrust(d) \/ devices[d].account = a)

\* lookupPendingEnrolment: a link not used, cancelled or expired.
Unspent(l) == links[l].device = 0 /\ ~links[l].cancelled
Pending(l) == l # 0 /\ Unspent(l) /\ ~links[l].expired
Outstanding(a) == {l \in 1..Len(links) : links[l].account = a /\ Pending(l)}

\* The subquery that chooses the link to retire; it ignores expiry.
OldestUnspent(a) ==
    LET mine == {l \in 1..Len(links) : links[l].account = a /\ Unspent(l)}
    IN  IF mine = {} THEN 0 ELSE CHOOSE l \in mine : \A k \in mine : l <= k

\* The feature is deployed with the gate off: every account is enrolled first.
Init ==
    /\ gate = FALSE
    /\ links = <<>>
    /\ devices = <<>>
    /\ cookie = [b \in Browsers |-> 0]
    /\ parked = [b \in Browsers |-> 0]
    /\ session = [b \in Browsers |-> NoSession]
    /\ at = [b \in Browsers |-> "idle"]
    /\ req = [b \in Browsers |-> NoReq]
    /\ restarts = 0
-----------------------------------------------------------------------------
Goto(b, step) == at' = [at EXCEPT ![b] = step]

End(b) == Goto(b, "idle") /\ req' = [req EXCEPT ![b] = NoReq]

\* The answer to a login carries an access token for device d; the cookies stay.
SignIn(b, a, d) ==
    /\ \/ session' = [session EXCEPT ![b] = [account |-> a, did |-> d]]
       \/ MayFail /\ UNCHANGED session
    /\ UNCHANGED <<cookie, parked>>
    /\ End(b)

\* Allowed: !gateOn.  With the gate off the login succeeds, without a device.
NotAllowed(b, a) ==
    IF gate THEN End(b) /\ UNCHANGED browser ELSE SignIn(b, a, 0)

\* SaaSEnrolBegin parks the token of a pending link in a short-lived cookie.
OpenLink(b, l) ==
    /\ Pending(l)
    /\ parked' = [parked EXCEPT ![b] = l]
    /\ UNCHANGED <<store, cookie, session, at, req>>

\* enrolCookieTTL
ParkedExpires(b) ==
    /\ parked[b] # 0
    /\ parked' = [parked EXCEPT ![b] = 0]
    /\ UNCHANGED <<store, cookie, session, at, req>>

\* enrolTokenTTL is the same for every link, so links expire in their order;
\* the expiry of a used or cancelled link changes nothing.
LinkExpires(l) ==
    /\ Unspent(l) /\ ~links[l].expired
    /\ \A k \in 1..(l - 1) : Unspent(k) => links[k].expired
    /\ links' = [links EXCEPT ![l].expired = TRUE]
    /\ UNCHANGED <<gate, devices, restarts, browser, at, req>>

\* A login whose password SaaSAuthLogin has verified.  CheckLoginDevice lets
\* an enrolled browser in, or refuses it for good ...
KnownDevice(b, a) ==
    /\ at[b] = "idle" /\ a \in Knows[b]
    /\ IsLive(cookie[b])
    /\ IF Entitled(cookie[b], a) THEN SignIn(b, a, cookie[b]) ELSE NotAllowed(b, a)
    /\ UNCHANGED store

\* ... and asks any other for a pending link of this account; a browser whose
\* device could not be looked up counts as such.
UnknownDevice(b, a) ==
    /\ at[b] = "idle" /\ a \in Knows[b]
    /\ MayFail \/ ~IsLive(cookie[b])
    /\ IF Pending(parked[b]) /\ links[parked[b]].account = a
       THEN /\ req' = [req EXCEPT ![b] = [NoReq EXCEPT !.who = a,
                                                       !.link = parked[b]]]
            /\ Goto(b, "count")
            /\ UNCHANGED browser
       ELSE NotAllowed(b, a)
    /\ UNCHANGED store

\* Mutant of SlotsFull: off by one.
SlotsFullOffByOne(a, count) == count > Slots(a)

SlotsFull(a, count) == count >= Slots(a)

CountDevices(b) ==
    LET a == req[b].who
    IN  /\ at[b] = "count"
        /\ IF SlotsFull(a, Cardinality(Live(a)))
           THEN NotAllowed(b, a)
           ELSE Goto(b, "bind") /\ UNCHANGED <<browser, req>>
        /\ UNCHANGED store

\* Mutant of SpendableLink: UPDATE ... WHERE id alone.
SpendableWithoutUnusedCheck(l) == TRUE

\* UPDATE enrolment_tokens ... WHERE id AND used_at IS NULL finds its row: a
\* link cancelled or expired since FindLink can still be spent.
SpendableLink(l) == links[l].device = 0

\* The transaction inserts the device and spends the link.  The browser takes
\* both cookies from the headers of the reply, the page saves the session from
\* its body, if it can read it and has not been left.  If the reply is lost
\* the browser has nothing; if only the acknowledgement of the COMMIT is lost,
\* the handler takes the bind for failed.
Bind(b) ==
    LET d == Len(devices) + 1
    IN  /\ at[b] = "bind"
        /\ SpendableLink(req[b].link)
        /\ devices' = Append(devices, [account |-> req[b].who, live |-> TRUE])
        /\ links' = [links EXCEPT ![req[b].link].device = d]
        /\ \/ /\ cookie' = [cookie EXCEPT ![b] = d]
              /\ parked' = [parked EXCEPT ![b] = 0]
              /\ \/ session' = [session EXCEPT ![b] =
                                  [account |-> req[b].who, did |-> d]]
                 \/ MayFail /\ UNCHANGED session
              /\ End(b)
           \/ MayFail /\ End(b) /\ UNCHANGED browser
           \/ MayFail /\ NotAllowed(b, req[b].who)
        /\ UNCHANGED <<gate, restarts>>

\* RowsAffected is not 1: the device is rolled back.
LinkAlreadySpent(b) ==
    /\ at[b] = "bind"
    /\ ~SpendableLink(req[b].link)
    /\ NotAllowed(b, req[b].who)
    /\ UNCHANGED store
-----------------------------------------------------------------------------
\* Mutant of Authorised: the token's signature alone is enough.
AuthorisedBySignature(b) == session[b].account \in Admins

\* ZeroTrustAuth and RequireRole "ADMIN": with the gate on, the device of the
\* access token must still be enrolled.
Authorised(b) ==
    /\ session[b].account \in Admins
    /\ gate => Entitled(session[b].did, session[b].account)

AdminReq(b) == [NoReq EXCEPT !.who = session[b].account, !.did = session[b].did]

\* SaaSAdminIssueEnrolmentLink
Issue(b, a) ==
    /\ at[b] = "idle" /\ Authorised(b)
    /\ Len(links) < MaxLinks
    /\ req' = [req EXCEPT ![b] = [AdminReq(b) EXCEPT !.account = a]]
    /\ Goto(b, "count for issue")
    /\ UNCHANGED <<store, browser>>

CountForIssue(b) ==
    LET live == Cardinality(Live(req[b].account))
    IN  /\ at[b] = "count for issue"
        /\ IF SlotsFull(req[b].account, live)
           THEN End(b)
           ELSE /\ req' = [req EXCEPT ![b].count = live]
                /\ Goto(b, "count links")
        /\ UNCHANGED <<store, browser>>

CountLinks(b) ==
    /\ at[b] = "count links"
    /\ req' = [req EXCEPT ![b].waiting = Cardinality(Outstanding(req[b].account))]
    /\ Goto(b, "retire")
    /\ UNCHANGED <<store, browser>>

\* Mutant of NoRoom: an off-by-one keeps the old link when it fills the slot.
NoRoomOffByOne(a, count, waiting) == count + waiting > Slots(a)

\* Every slot is taken or spoken for.
NoRoom(a, count, waiting) == count + waiting >= Slots(a)

\* The link a new one takes the place of, 0 if there is room for both.
ToRetire(a, count, waiting) ==
    IF NoRoom(a, count, waiting) THEN OldestUnspent(a) ELSE 0

\* UPDATE ... WHERE id = (SELECT ...): the subquery has chosen its row; a row
\* another transaction retires or spends meanwhile is not chosen again.
Retire(b) ==
    /\ at[b] = "retire"
    /\ req' = [req EXCEPT ![b].oldest =
                 ToRetire(req[b].account, req[b].count, req[b].waiting)]
    /\ Goto(b, "store")
    /\ UNCHANGED <<store, browser>>

\* COMMIT publishes the retired link and the new one; whether the admin gets
\* to see the answer shows only in who opens the link.
StoreLink(b) ==
    /\ at[b] = "store"
    /\ Len(links) < MaxLinks
    /\ links' = Append([l \in 1..Len(links) |->
                          IF l = req[b].oldest
                          THEN [links[l] EXCEPT !.cancelled = TRUE]
                          ELSE links[l]],
                       [account |-> req[b].account, device |-> 0,
                        cancelled |-> FALSE, expired |-> FALSE])
    /\ End(b)
    /\ UNCHANGED <<gate, devices, restarts, browser>>

\* Mutant of SittingAt: no check of the admin's own browser.
SittingAtNone(b, d) == FALSE

\* The device whose cookie comes with the request.
SittingAt(b, d) == IsLive(cookie[b]) /\ cookie[b] = d

\* SaaSAdminRevokeDevice refuses to unbind that one; but a lookup that fails
\* counts as "no such device", and the revocation goes on.  The panel lists
\* live devices; to revoke one that is not does nothing.
AskRevoke(b, d) ==
    /\ at[b] = "idle" /\ Authorised(b)
    /\ IsLive(d)
    /\ MayFail \/ ~SittingAt(b, d)
    /\ req' = [req EXCEPT ![b] = [AdminReq(b) EXCEPT !.victim = d,
                                                     !.blind = SittingAt(b, d)]]
    /\ Goto(b, "revoke")
    /\ UNCHANGED <<store, browser>>

\* Mutant of Revoke: the row is deleted instead of stamped.
RevokeDeletes(b) ==
    LET v == req[b].victim
    IN  /\ at[b] = "revoke"
        /\ devices' = SubSeq(devices, 1, v - 1)
                         \o SubSeq(devices, v + 1, Len(devices))
        /\ End(b)
        /\ UNCHANGED <<gate, links, restarts, browser>>

\* UPDATE ... WHERE id AND revoked_at IS NULL; a second revocation is a 404.
Revoke(b) ==
    /\ at[b] = "revoke"
    /\ devices' = [devices EXCEPT ![req[b].victim].live = FALSE]
    /\ End(b)
    /\ UNCHANGED <<gate, links, restarts, browser>>

\* A query fails, or finds the account suspended; nothing is committed.
GiveUp(b) ==
    /\ MayFail
    /\ at[b] # "idle"
    /\ IF at[b] \in LoginSteps
       THEN NotAllowed(b, req[b].who)
       ELSE End(b) /\ UNCHANGED browser
    /\ UNCHANGED store

\* Requests in flight die with the server; it may come back with the gate
\* on or off.
Restart ==
    /\ restarts < MaxRestarts
    /\ restarts' = restarts + 1
    /\ gate' \in BOOLEAN
    /\ at' = [b \in Browsers |-> "idle"]
    /\ req' = [b \in Browsers |-> NoReq]
    /\ UNCHANGED <<links, devices, browser>>

Login(b) ==
    \/ \E a \in Accounts : KnownDevice(b, a) \/ UnknownDevice(b, a)
    \/ CountDevices(b)
    \/ Bind(b)
    \/ LinkAlreadySpent(b)

Administer(b) ==
    \/ \E a \in Accounts : Issue(b, a)
    \/ CountForIssue(b)
    \/ CountLinks(b)
    \/ Retire(b)
    \/ StoreLink(b)
    \/ \E d \in 1..Len(devices) : AskRevoke(b, d)
    \/ Revoke(b)

Next ==
    \/ \E b \in Browsers :
          \/ \E l \in 1..Len(links) : OpenLink(b, l)
          \/ ParkedExpires(b)
          \/ Login(b)
          \/ Administer(b)
          \/ GiveUp(b)
    \/ \E l \in 1..Len(links) : LinkExpires(l)
    \/ Restart

Spec == Init /\ [][Next]_vars
-----------------------------------------------------------------------------
\* The register of links and devices, without what led to its entries: used_at
\* and used_device_id of a link, seen from the device.
Ticket(d) == CHOOSE l \in 1..Len(links) : links[l].device = d
Issued == [l \in 1..Len(links) |-> links[l].account]
Enrolments ==
    [d \in 1..Len(devices) |-> [ticket |-> Ticket(d), account |-> devices[d].account,
                                live |-> devices[d].live]]

Register == INSTANCE Enrolment WITH tickets <- Issued, enrolled <- Enrolments

\* Whatever logins, admins, faults and restarts overlap, the tables change only
\* as Enrolment says: one link issued, one unused link turned into one device of
\* its account, or one device revoked.
ImplementsEnrolment == Register!Spec
-----------------------------------------------------------------------------
\* A one-time link is one-time (device_handlers.go:300-302): two browsers that
\* race the same link do not both end up enrolled.  Each device was bound by
\* exactly one link, and that link was issued for the device's account.
OneDevicePerLink ==
    \A d \in 1..Len(devices) :
        \E l \in 1..Len(links) :
           /\ {k \in 1..Len(links) : links[k].device = d} = {l}
           /\ links[l].account = devices[d].account

\* The slot count is read before the binding transaction, so logins that
\* overlap can overfill an account (CheckLoginDevice); but by no more than the
\* browsers that can log in to it at once, and the excess does not add up.
OverfillIsBounded ==
    \A a \in Accounts :
        Cardinality(Live(a))
           <= Slots(a) - 1 + Cardinality({b \in Browsers : a \in Knows[b]})

\* Issuing a link when the counts it was decided on still hold, the link to
\* retire would be chosen again, and that link has not expired, leaves no more
\* outstanding links than free slots: what the comment at
\* device_admin_handlers.go:131-139 is after.  Each condition is needed: counts
\* alone can come back to their values after other admins have issued, retired
\* and revoked in between.
CurrentIssueFitsSlots ==
    [][\A b \in Browsers, a \in Accounts :
          (/\ at[b] = "store" /\ at'[b] = "idle" /\ Len(links') > Len(links)
           /\ req[b].account = a
           /\ req[b].count = Cardinality(Live(a))
           /\ req[b].waiting = Cardinality(Outstanding(a))
           /\ req[b].count + req[b].waiting <= Slots(a)
           /\ req[b].oldest = ToRetire(a, req[b].count, req[b].waiting)
           /\ req[b].oldest # 0 => Pending(req[b].oldest))
          => Cardinality(Live(a)) + Cardinality(Outstanding(a)') <= Slots(a)]_vars

\* An access token names a device its own browser was bound to: that of its
\* cookie, or an older one if the answer to the last binding was cut off after
\* its headers; never one that another browser has the cookie or a token of.
\* And it names an account that device may use.  So neither what is revoked,
\* enrolled again or lost in between, nor a race for a link, makes the check of
\* the token (DeviceIsLiveForAccount) admit a browser the binding did not.
TokenMatchesCookie ==
    \A b \in Browsers :
        LET d == session[b].did
        IN  d # 0 =>
              /\ d <= cookie[b]
              /\ \A c \in Browsers \ {b} : d # cookie[c] /\ d # session[c].did
              /\ AdminTrust(d) \/ devices[d].account = session[b].account

\* With the gate on, only a browser enrolled for an admin account gets to
\* issue a link or to revoke a device, though tokens minted before the gate
\* was on carry no device (ZeroTrustAuth).
GateKeepsAdminWork ==
    gate => \A b \in Browsers :
               at[b] \in AdminSteps => req[b].did # 0 /\ AdminTrust(req[b].did)

LiveAdminDevices == UNION {Live(a) : a \in Admins}

\* With the gate on, revoking the last live admin device locks every admin
\* out.  No admin does that to the browser they sit at: it takes another
\* revocation that overtook this one, a failed lookup, or a token older than
\* the cookie the guard looks at.
LastAdminDeviceNeedsARace ==
    [][\A b \in Browsers :
          (/\ gate /\ at[b] = "revoke" /\ at'[b] = "idle"
           /\ LiveAdminDevices # {}
           /\ LiveAdminDevices' = {})
          => req[b].blind \/ ~IsLive(req[b].did) \/ req[b].did # cookie[b]]_vars

\* What device_admin_handlers.go:138 says: outstanding links never exceed the
\* slots they could fill.
LinksFitSlots ==
    \A a \in Accounts : Cardinality(Outstanding(a)) <= Slots(a)

\* What device_handlers.go:45 says: a publisher gets exactly one browser.
OneBrowserPerPublisher ==
    \A a \in Accounts \ Admins : Cardinality(Live(a)) <= 1
=============================================================================
