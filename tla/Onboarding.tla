----------------------------- MODULE Onboarding -----------------------------
(***************************************************************************)
(* Access requests, publisher accounts, passwords and the documents that   *)
(* carry them (saas_handlers.go).  There is no public registration: an     *)
(* admin turns a request into an account, or opens an account directly.    *)
(*                                                                         *)
(* An admin's request reads first, then renders a document (seconds of a   *)
(* headless browser), then begins a transaction, whose start time becomes  *)
(* the document's created_at, and at last commits it.  Others run between  *)
(* any two of these.  The transactions of two resets of one password are   *)
(* serial from the UPDATE to the COMMIT, which the model takes as one step. *)
(*                                                                         *)
(* An account stands for its rows in publishers, publisher_profiles and    *)
(* wallets, inserted together; its password for the hash and the encrypted *)
(* copy, written together.  Suspension (is_active) is left out.            *)
(***************************************************************************)
EXTENDS Integers, Sequences, FiniteSets

CONSTANTS
    Admins,          \* admins' browsers, each with one request in flight
    Usernames,
    DemoUsername,    \* publisher1, which the first migration seeds
    Passwords,
    DemoPassword,
    MayFail,         \* whether a statement or a COMMIT may fail
    MaxRequests,     \* bound: access requests in a behaviour
    MaxTransactions, \* bound: transactions begun in a behaviour
    MaxRestarts      \* bound: restarts of the server in a behaviour

ASSUME NamesAssumption == DemoUsername \in Usernames /\ DemoPassword \in Passwords
ASSUME BoundsAssumption ==
    /\ IsFiniteSet(Admins)
    /\ MayFail \in BOOLEAN
    /\ MaxRequests \in Nat
    /\ MaxTransactions \in Nat
    /\ MaxRestarts \in Nat

VARIABLES
    requests,   \* the status of each row of registration_requests
    publishers, \* publishers with role PUBLISHER
    documents,  \* publisher_credential_documents, in the order committed
    now,        \* time passes when a transaction begins
    at,         \* where the request of each admin is
    req,        \* its payload
    restarts

store == <<requests, publishers, documents>>
vars == <<store, now, at, req, restarts>>

Status == {"PENDING", "APPROVED", "REJECTED"}
\* from: the access request the account was made for, or 0.
Publisher == [username: Usernames, password: Passwords, from: Nat]
Document == [publisher: Nat, password: Passwords, created: Nat]

\* request: the access request to approve; publisher: the account whose
\* password is reset.
NoReq == [request |-> 0, publisher |-> 0, username |-> DemoUsername,
          password |-> DemoPassword, created |-> 0]
Request == [request: 0..Len(requests), publisher: 0..Len(publishers),
            username: Usernames, password: Passwords, created: 0..now]

TypeOK ==
    /\ requests \in Seq(Status)
    /\ publishers \in Seq(Publisher)
    /\ documents \in Seq(Document)
    /\ now \in 0..MaxTransactions
    /\ at \in [Admins -> {"idle", "approve", "provision", "reset"}]
    /\ req \in [Admins -> Request]
    /\ restarts \in 0..MaxRestarts
    /\ \A p, q \in 1..Len(publishers) :
          publishers[p].username = publishers[q].username => p = q
-----------------------------------------------------------------------------
Init ==
    /\ requests = <<"PENDING">>
    /\ publishers = <<[username |-> DemoUsername, password |-> DemoPassword,
                       from |-> 0]>>
    /\ documents = <<>>
    /\ now = 0
    /\ at = [a \in Admins |-> "idle"]
    /\ req = [a \in Admins |-> NoReq]
    /\ restarts = 0

End(a) ==
    /\ at' = [at EXCEPT ![a] = "idle"]
    /\ req' = [req EXCEPT ![a] = NoReq]

\* SaaSRequestAccess; when the INSERT fails it answers the same and no row
\* is left.
RequestAccess ==
    /\ Len(requests) < MaxRequests
    /\ requests' = Append(requests, "PENDING")
    /\ UNCHANGED <<publishers, documents, now, at, req, restarts>>

\* Mutant of StillPending: no check of the status.
AnyStatus(r) == TRUE

StillPending(r) == requests[r] = "PENDING"

\* SaaSAdminApproveRequest up to the document; the form names the account.
CheckRequest(a, r, u, pw) ==
    /\ at[a] = "idle"
    /\ StillPending(r)
    /\ at' = [at EXCEPT ![a] = "approve"]
    /\ req' = [req EXCEPT ![a] = [NoReq EXCEPT !.request = r, !.username = u,
                                               !.password = pw]]
    /\ UNCHANGED <<store, now, restarts>>

\* BEGIN: CURRENT_TIMESTAMP is this moment until the COMMIT.
Begin(a, step, q) ==
    /\ now < MaxTransactions
    /\ now' = now + 1
    /\ at' = [at EXCEPT ![a] = step]
    /\ req' = [req EXCEPT ![a] = [q EXCEPT !.created = now + 1]]
    /\ UNCHANGED <<store, restarts>>

BeginApproval(a) == at[a] = "approve" /\ Begin(a, "provision", req[a])

\* SaaSAdminCreatePublisher
BeginCreation(a, u, pw) ==
    /\ at[a] = "idle"
    /\ Begin(a, "provision", [NoReq EXCEPT !.username = u, !.password = pw])

\* SaaSAdminResetPassword
BeginReset(a, p, pw) ==
    /\ at[a] = "idle"
    /\ Begin(a, "reset", [NoReq EXCEPT !.publisher = p, !.password = pw])

\* Mutant of Taken: no UNIQUE constraint.
NeverTaken(u) == FALSE

Taken(u) == \E p \in 1..Len(publishers) : publishers[p].username = u

StoreDocument(a, p) ==
    documents' = Append(documents, [publisher |-> p, password |-> req[a].password,
                                    created |-> req[a].created])

\* The COMMIT of an approval or of a direct creation.  The UPDATE of the
\* access request does not look at its status again.
Provision(a) ==
    LET r == req[a].request
    IN  /\ at[a] = "provision"
        /\ ~Taken(req[a].username)
        /\ publishers' = Append(publishers, [username |-> req[a].username,
                                             password |-> req[a].password,
                                             from |-> r])
        /\ StoreDocument(a, Len(publishers) + 1)
        /\ requests' = IF r = 0 THEN requests
                       ELSE [requests EXCEPT ![r] = "APPROVED"]
        /\ End(a)
        /\ UNCHANGED <<now, restarts>>

\* 409: the unique index on the username refuses the INSERT.
UsernameTaken(a) ==
    /\ at[a] = "provision"
    /\ Taken(req[a].username)
    /\ End(a)
    /\ UNCHANGED <<store, now, restarts>>

SetPassword(a) ==
    publishers' = [publishers EXCEPT ![req[a].publisher].password = req[a].password]

\* Mutant of Reset: a document that cannot be stored does not undo the reset.
ResetWithoutDocument(a) ==
    /\ at[a] = "reset"
    /\ SetPassword(a)
    /\ \/ StoreDocument(a, req[a].publisher)
       \/ MayFail /\ UNCHANGED documents
    /\ End(a)
    /\ UNCHANGED <<requests, now, restarts>>

Reset(a) ==
    /\ at[a] = "reset"
    /\ SetPassword(a)
    /\ StoreDocument(a, req[a].publisher)
    /\ End(a)
    /\ UNCHANGED <<requests, now, restarts>>

\* Mutant of Reject: UPDATE ... WHERE id alone.
RejectAny(a, r) ==
    /\ at[a] = "idle"
    /\ requests' = [requests EXCEPT ![r] = "REJECTED"]
    /\ UNCHANGED <<publishers, documents, now, at, req, restarts>>

\* SaaSAdminRejectRequest: one guarded statement.
Reject(a, r) ==
    /\ at[a] = "idle"
    /\ requests[r] = "PENDING"
    /\ requests' = [requests EXCEPT ![r] = "REJECTED"]
    /\ UNCHANGED <<publishers, documents, now, at, req, restarts>>

\* The document cannot be rendered, or a statement or the COMMIT fails.
GiveUp(a) ==
    /\ MayFail
    /\ at[a] # "idle"
    /\ End(a)
    /\ UNCHANGED <<store, now, restarts>>

\* Requests in flight die; the migrations, replayed at every start, keep the
\* demo account but insert the demo access request once more.
Restart ==
    /\ restarts < MaxRestarts
    /\ Len(requests) < MaxRequests
    /\ restarts' = restarts + 1
    /\ requests' = Append(requests, "PENDING")
    /\ at' = [a \in Admins |-> "idle"]
    /\ req' = [a \in Admins |-> NoReq]
    /\ UNCHANGED <<publishers, documents, now>>

Administer(a) ==
    \/ \E r \in 1..Len(requests) :
          \/ \E u \in Usernames, pw \in Passwords : CheckRequest(a, r, u, pw)
          \/ Reject(a, r)
    \/ \E pw \in Passwords :
          \/ \E u \in Usernames : BeginCreation(a, u, pw)
          \/ \E p \in 1..Len(publishers) : BeginReset(a, p, pw)
    \/ BeginApproval(a)
    \/ Provision(a)
    \/ UsernameTaken(a)
    \/ Reset(a)
    \/ GiveUp(a)

Next ==
    \/ \E a \in Admins : Administer(a)
    \/ RequestAccess
    \/ Restart

Spec == Init /\ [][Next]_vars
-----------------------------------------------------------------------------
AccountsFrom(r) == {p \in 1..Len(publishers) : publishers[p].from = r}
DocumentsOf(p) == {d \in 1..Len(documents) : documents[d].publisher = p}

\* Mutant of Latest: ORDER BY created_at without DESC.
Oldest(p) ==
    CHOOSE d \in DocumentsOf(p) :
        \A e \in DocumentsOf(p) : documents[e].created >= documents[d].created

\* What SaaSAdminDownloadCredentialsPDF serves.
Latest(p) ==
    CHOOSE d \in DocumentsOf(p) :
        \A e \in DocumentsOf(p) : documents[e].created <= documents[d].created

\* Whatever admins do at the same time, a request that led to an account ends
\* up approved, never rejected or pending.
AccountMeansApproved ==
    \A p \in 1..Len(publishers) :
        publishers[p].from # 0 => requests[publishers[p].from] = "APPROVED"

\* The status is read before the document is rendered and not again, so one
\* request can lead to several accounts; but to no more than admins can
\* approve at once, however often they try.
DuplicatesAreBounded ==
    \A r \in 1..Len(requests) :
        Cardinality(AccountsFrom(r)) <= Cardinality(Admins)

\* The password of every account made here or ever reset is in the document
\* stored last; and that is the one re-served, unless the transaction that
\* stored it began before the one it waited for.
StoredDocumentIsCurrent ==
    \A p \in 1..Len(publishers) :
        publishers[p].username # DemoUsername \/ DocumentsOf(p) # {} =>
           \E last \in DocumentsOf(p) :
              /\ \A d \in DocumentsOf(p) : d <= last
              /\ documents[last].password = publishers[p].password
              /\ (\A d \in DocumentsOf(p) :
                     documents[d].created <= documents[last].created)
                    => Latest(p) = last

\* What the comment at saas_handlers.go:1952 says: the document re-served is
\* the one issued last, so it opens the account.
DownloadIsCurrent ==
    \A p \in 1..Len(publishers) :
        DocumentsOf(p) # {} =>
           documents[Latest(p)].password = publishers[p].password
=============================================================================
