---------------------------- MODULE AdminConsole ----------------------------
(***************************************************************************)
(* The administrator's browser: the pages of publishers, of access         *)
(* requests and of devices (app/(admin)/saas-admin), which hold the lists  *)
(* they loaded, one form at a time, and answers that come in any order.    *)
(*                                                                         *)
(* Every operation is a request; on success its handler loads the lists    *)
(* again.  A form is on top of its page, but nothing ties an answer to the *)
(* form that is open when it comes: a handler closes whatever form of its  *)
(* kind is there.  The forms for a new publisher and for an approval       *)
(* disable their button while they wait, those for the wallet and the      *)
(* password do not, and the page of devices has one busyId for all rows.   *)
(*                                                                         *)
(* What the server does to wallets, accounts and links is in Billing,      *)
(* Onboarding and DeviceBinding; here a request has only the effect the    *)
(* lists show and the secret, a link or a password, it makes current.  The *)
(* accounts are publishers', with one device and one live link each.       *)
(***************************************************************************)
EXTENDS Integers, Sequences, FiniteSets

CONSTANTS
    Accounts,
    Applicants, \* the access requests
    None,
    MayFail,    \* whether requests and answers may be lost
    MaxSent     \* bound: the requests of a behaviour, the first loads included

ASSUME NamesAssumption ==
    /\ IsFiniteSet(Accounts)
    /\ Accounts \intersect Applicants = {}
    /\ None \notin Accounts \union Applicants

ASSUME BoundsAssumption == MayFail \in BOOLEAN /\ MaxSent \in Nat \ {0}

VARIABLES
    active,  \* the server: the accounts not suspended,
    full,    \* those whose device is bound,
    usable,  \* those with a live link,
    pending, \* the applicants that wait,
    issued,  \* and the request that made an account's secret of today
    page,    \* the page shown
    since,   \* how many requests are older than it
    rows,    \* the lists it last loaded, and whether they are shown
    form,    \* the form open on it
    shown,   \* whether the dialog with a new link is open
    busy,    \* busyId
    held,    \* the request whose secret the administrator last received
    sent,    \* the requests, with the load that follows each
    loose    \* history: the secrets whose requests overlapped or were lost

server == <<active, full, usable, pending, issued>>
view == <<page, since, rows>>
vars == <<server, view, form, shown, busy, held, sent, loose>>

Forms == [publishers |-> {"create", "wallet", "reset"},
          requests |-> {"approve"},
          devices |-> {"revoke"}]
Toggles == {"suspend", "reactivate"}
Secrets == {"reset", "link"}
Ops == {"load", "link", "reject"} \union Toggles \union UNION {Forms[p] : p \in DOMAIN Forms}
Names == Accounts \union Applicants \union {None}

Rows == [loaded: BOOLEAN, active: SUBSET Accounts, full: SUBSET Accounts,
         pending: SUBSET Applicants]
NoRows == [loaded |-> FALSE, active |-> {}, full |-> {}, pending |-> {}]
\* opened: how many requests are older than the form.
Form == [kind: Ops \union {"none"}, of: Names, opened: 0..MaxSent, loading: BOOLEAN]
NoForm == [kind |-> "none", of |-> None, opened |-> 0, loading |-> FALSE]
\* At "asked" and "read" the handler waits for its load.
Request == [op: Ops, of: Names,
            stage: {"sent", "done", "refused", "asked", "read", "over"}, got: Rows]

TypeOK ==
    /\ active \subseteq Accounts
    /\ full \subseteq Accounts
    /\ usable \subseteq Accounts \ full
    /\ pending \subseteq Applicants
    /\ page \in DOMAIN Forms
    /\ since \in 0..Len(sent)
    /\ rows \in Rows
    /\ form \in Form
    /\ form.kind \in Forms[page] \union {"none"}
    /\ shown \in BOOLEAN
    /\ busy \in Names
    /\ issued \in [Secrets -> [Accounts -> 0..Len(sent)]]
    /\ held \in [Secrets -> [Accounts -> 0..Len(sent)]]
    /\ sent \in Seq(Request)
    /\ loose \subseteq Secrets \X Accounts
-----------------------------------------------------------------------------
Ask(op, of, stage) == [op |-> op, of |-> of, stage |-> stage, got |-> NoRows]

Init ==
    /\ active = Accounts
    /\ full = {}
    /\ usable = {}
    /\ pending = Applicants
    /\ issued = [k \in Secrets |-> [a \in Accounts |-> 0]]
    /\ page \in DOMAIN Forms
    /\ since = 0
    /\ rows = NoRows
    /\ form = NoForm
    /\ shown = FALSE
    /\ busy = None
    /\ held = [k \in Secrets |-> [a \in Accounts |-> 0]]
    /\ sent = <<Ask("load", None, "asked")>>
    /\ loose = {}

InFlight(s, op, of) ==
    {n \in 1..Len(s) : s[n].op = op /\ s[n].of = of /\ s[n].stage \in {"sent", "done", "refused"}}

\* The secrets whose requests no disabled button holds back any more.
Overlapping(s, row) ==
    {<<"link", a>> : a \in {b \in Accounts : row # b /\ InFlight(s, "link", b) # {}}}
      \union {<<"reset", a>> : a \in {b \in Accounts : Cardinality(InFlight(s, "reset", b)) > 1}}

Record(s, row) ==
    /\ sent' = s
    /\ busy' = row
    /\ loose' = loose \union Overlapping(s, row)

Send(op, of, row) == Record(Append(sent, Ask(op, of, "sent")), row)

\* A form or the dialog covers the page.
Uncovered == form = NoForm /\ ~shown

\* Another page: the components start anew, and answers to the old ones
\* change nothing that is shown.
Navigate ==
    /\ Len(sent) < MaxSent
    /\ page' \in DOMAIN Forms
    /\ since' = Len(sent)
    /\ rows' = NoRows
    /\ form' = NoForm
    /\ shown' = FALSE
    /\ Record(Append(sent, Ask("load", None, "asked")), None)
    /\ UNCHANGED <<server, held>>

\* The controls of a row that open a form; "create" has no row.
OpenForm(kind, of) ==
    /\ Uncovered
    /\ kind \in Forms[page]
    /\ CASE kind = "create" -> of = None
         [] kind \in {"wallet", "reset"} -> of \in Accounts /\ rows.loaded
         [] kind = "approve" -> of \in rows.pending /\ rows.loaded
         [] kind = "revoke" -> of \in rows.full
    /\ form' = [kind |-> kind, of |-> of, opened |-> Len(sent), loading |-> FALSE]
    /\ UNCHANGED <<server, view, shown, busy, held, sent, loose>>

CloseForm ==
    /\ form # NoForm
    /\ form' = NoForm
    /\ UNCHANGED <<server, view, shown, busy, held, sent, loose>>

CloseLink ==
    /\ shown
    /\ shown' = FALSE
    /\ UNCHANGED <<server, view, form, busy, held, sent, loose>>

\* submit, with setLoading(true) and with setBusyId where there is one.
Guarded == {"create", "approve"}

Submit ==
    /\ form # NoForm
    /\ ~shown
    /\ Len(sent) < MaxSent
    /\ ~form.loading
    /\ form.kind = "revoke" => busy # form.of
    /\ form' = [form EXCEPT !.loading = form.kind \in Guarded]
    /\ Send(form.kind, form.of, IF form.kind = "revoke" THEN form.of ELSE busy)
    /\ UNCHANGED <<server, view, shown, held>>

\* The button names what the row does not show, and sends it.
ToggleActive(a) ==
    /\ page = "publishers"
    /\ Uncovered
    /\ rows.loaded
    /\ Len(sent) < MaxSent
    /\ Send(IF a \in rows.active THEN "suspend" ELSE "reactivate", a, busy)
    /\ UNCHANGED <<server, view, form, shown, held>>

Reject(r) ==
    /\ page = "requests"
    /\ Uncovered
    /\ rows.loaded
    /\ r \in rows.pending
    /\ Len(sent) < MaxSent
    /\ Send("reject", r, busy)
    /\ UNCHANGED <<server, view, form, shown, held>>

\* Mutant of IssueLink: its button stays enabled.
IssueLinkAgain(a) ==
    /\ page = "devices"
    /\ Uncovered
    /\ rows.loaded
    /\ a \notin rows.full
    /\ Len(sent) < MaxSent
    /\ Send("link", a, a)
    /\ UNCHANGED <<server, view, form, shown, held>>

IssueLink(a) ==
    /\ page = "devices"
    /\ Uncovered
    /\ rows.loaded
    /\ busy # a
    /\ a \notin rows.full
    /\ Len(sent) < MaxSent
    /\ Send("link", a, a)
    /\ UNCHANGED <<server, view, form, shown, held>>
-----------------------------------------------------------------------------
Stage(n, stage) == [sent EXCEPT ![n].stage = stage]

\* Mutant of Accepts: a link is made whether the device is bound or not.
AcceptsAnyLink(n) ==
    LET r == sent[n]
    IN  CASE r.op \in {"approve", "reject"} -> r.of \in pending
          [] r.op = "link" -> r.of \in active
          [] r.op = "revoke" -> r.of \in full
          [] OTHER -> TRUE

\* Whether the server accepts request n now.
Accepts(n) ==
    LET r == sent[n]
    IN  CASE r.op \in {"approve", "reject"} -> r.of \in pending
          [] r.op = "link" -> r.of \in active \ full
          [] r.op = "revoke" -> r.of \in full
          [] OTHER -> TRUE

\* The server's handler ends.
Handle(n) ==
    /\ sent[n].stage = "sent"
    /\ \/ /\ Accepts(n)
          /\ LET op == sent[n].op
                 of == sent[n].of
             IN  /\ active' = CASE op = "suspend" -> active \ {of}
                                [] op = "reactivate" -> active \union {of}
                                [] OTHER -> active
                 /\ full' = IF op = "revoke" THEN full \ {of} ELSE full
                 /\ usable' = IF op = "link" THEN usable \union {of} ELSE usable
                 /\ pending' = IF op \in {"approve", "reject"} THEN pending \ {of} ELSE pending
                 /\ issued' = IF op \in Secrets THEN [issued EXCEPT ![op][of] = n] ELSE issued
          /\ sent' = Stage(n, "done")
       \/ /\ ~Accepts(n)
          /\ sent' = Stage(n, "refused")
          /\ UNCHANGED server
    /\ UNCHANGED <<view, form, shown, busy, held, loose>>

\* A publisher registers the browser with the live link.
Redeem(a) ==
    /\ a \in usable
    /\ usable' = usable \ {a}
    /\ full' = full \union {a}
    /\ UNCHANGED <<active, pending, issued, view, form, shown, busy, held, sent, loose>>

Shows(n) == n > since

\* loading, of the page of requests: its list is hidden while any load runs
\* and shown again when one ends.
ShowRequests(n, shows) ==
    /\ rows' = IF page = "requests" /\ Shows(n) THEN [rows EXCEPT !.loaded = shows] ELSE rows
    /\ UNCHANGED <<page, since>>

\* The finally of a handler of the devices page.
Released(n) == IF Shows(n) /\ sent[n].op \in {"link", "revoke"} THEN None ELSE busy

\* The finally of a guarded form, if it is still the same one.
StopLoading(n) ==
    form' = IF sent[n].op = form.kind /\ form.opened < n
              THEN [form EXCEPT !.loading = FALSE] ELSE form

\* A success: the handler keeps the secret, closes the form of its kind and
\* loads.  The credentials are downloaded even when the page is gone.
Received(n) == sent[n].op = "reset" \/ (sent[n].op = "link" /\ Shows(n))

Answer(n) ==
    /\ sent[n].stage = "done"
    /\ LET r == sent[n]
           asked == Stage(n, "asked")
           last == Received(n) /\ issued[r.op][r.of] = n /\ InFlight(asked, r.op, r.of) = {}
       IN  /\ held' = IF Received(n) THEN [held EXCEPT ![r.op][r.of] = n] ELSE held
           /\ shown' = (shown \/ (r.op = "link" /\ Shows(n)))
           /\ form' = IF Shows(n) /\ form.kind = r.op THEN NoForm ELSE form
           /\ sent' = asked
           /\ loose' = IF last THEN loose \ {<<r.op, r.of>>} ELSE loose
    /\ ShowRequests(n, FALSE)
    /\ UNCHANGED <<server, busy>>

\* Mutant of Decline: an early return outside the try.
DeclineAtOnce(n) ==
    /\ sent[n].stage = "refused"
    /\ sent' = Stage(n, IF sent[n].op = "reject" THEN "asked" ELSE "over")
    /\ StopLoading(n)
    /\ UNCHANGED <<server, view, shown, busy, held, loose>>

\* A refusal is shown; only reject loads after one.
Decline(n) ==
    /\ sent[n].stage = "refused"
    /\ Record(Stage(n, IF sent[n].op = "reject" THEN "asked" ELSE "over"), Released(n))
    /\ StopLoading(n)
    /\ IF sent[n].op = "reject" THEN ShowRequests(n, FALSE) ELSE UNCHANGED view
    /\ UNCHANGED <<server, shown, held>>

\* load reads an error's body too, where it finds no list: the publishers or
\* the requests shown are gone.  The devices stay (if (!res.ok) return).
EmptyLists(n) ==
    /\ rows' = IF page # "devices" /\ Shows(n) THEN NoRows ELSE rows
    /\ UNCHANGED <<page, since>>

\* A request is lost before or after its effect, or a load is or ends in an
\* error: the catch, or nothing where a handler has none.
Lose(n) ==
    /\ MayFail
    /\ sent[n].stage \in {"sent", "done", "asked"}
    /\ sent' = Stage(n, "over")
    /\ busy' = Released(n)
    /\ StopLoading(n)
    /\ loose' = (loose \union Overlapping(sent', busy'))
                  \union (IF sent[n].stage = "done" /\ sent[n].op \in Secrets
                            THEN {<<sent[n].op, sent[n].of>>} ELSE {})
    /\ IF sent[n].stage = "asked" THEN ShowRequests(n, TRUE) \/ EmptyLists(n)
                                 ELSE UNCHANGED view
    /\ UNCHANGED <<server, shown, held>>

\* load: the server reads, the answer replaces the lists.
Read(n) ==
    /\ sent[n].stage = "asked"
    /\ sent' = [sent EXCEPT ![n].stage = "read",
                            ![n].got = [loaded |-> TRUE, active |-> active, full |-> full,
                                        pending |-> pending]]
    /\ UNCHANGED <<server, view, form, shown, busy, held, loose>>

Loaded(n) ==
    /\ sent[n].stage = "read"
    /\ rows' = IF Shows(n) THEN sent[n].got ELSE rows
    /\ Record([sent EXCEPT ![n].stage = "over", ![n].got = NoRows], Released(n))
    /\ UNCHANGED <<server, page, since, form, shown, held>>

Click ==
    \/ Navigate
    \/ \E kind \in Ops, of \in Names : OpenForm(kind, of)
    \/ CloseForm
    \/ CloseLink
    \/ Submit
    \/ \E a \in Accounts : ToggleActive(a) \/ IssueLink(a)
    \/ \E r \in Applicants : Reject(r)

Progress(n) ==
    \/ Handle(n)
    \/ Answer(n)
    \/ Decline(n)
    \/ Read(n)
    \/ Loaded(n)

Next ==
    \/ Click
    \/ \E n \in 1..Len(sent) : Progress(n) \/ Lose(n)
    \/ \E a \in Accounts : Redeem(a)

Spec == Init /\ [][Next]_vars
-----------------------------------------------------------------------------
\* "Shown once and never again" (devices/page.tsx:348): the link or password
\* the administrator received last is the one in force, unless its answer is
\* still due, was lost, or two requests for the account overlapped: the page
\* allows that for a password, and for a link once another row took busyId.
HeldIsCurrent ==
    \A k \in Secrets, a \in Accounts :
        \/ held[k][a] = issued[k][a]
        \/ InFlight(sent, k, a) # {}
        \/ <<k, a>> \in loose

\* A disabled button comes back: busyId and a form's loading belong to a
\* request of this page whose handler has not ended, whichever answers of
\* other rows and of earlier forms came meanwhile.
DisabledControlsComeBack ==
    /\ busy # None =>
          \E n \in 1..Len(sent) :
             Shows(n) /\ sent[n].of = busy /\ sent[n].op \in {"link", "revoke"}
               /\ sent[n].stage # "over"
    /\ form.loading =>
          \E n \in 1..Len(sent) :
             form.opened < n /\ sent[n].op = form.kind /\ sent[n].of = form.of
               /\ sent[n].stage \in {"sent", "done", "refused"}
=============================================================================
