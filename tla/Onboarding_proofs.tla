-------------------------- MODULE Onboarding_proofs --------------------------
(***************************************************************************)
(* What holds of Onboarding for every set of admins and names, and any     *)
(* number of access requests and transactions.                             *)
(***************************************************************************)
EXTENDS Onboarding, FiniteSetTheorems, TLAPS

-----------------------------------------------------------------------------
\* Types.

\* A password reset in progress is for an account, an approval for a request.
InFlightOK ==
    \A a \in Admins :
        /\ at[a] = "reset" => req[a].publisher # 0
        /\ at[a] = "approve" => req[a].request # 0

\* Tables and the clock only grow.
Grow ==
    /\ requests' \in Seq(Status)
    /\ publishers' \in Seq(Publisher)
    /\ documents' \in Seq(Document)
    /\ Len(requests) <= Len(requests')
    /\ Len(publishers) <= Len(publishers')
    /\ now <= now'
    /\ now' \in 0..MaxTransactions
    /\ restarts' \in 0..MaxRestarts

UniqueNames ==
    \A p, q \in 1..Len(publishers) :
        publishers[p].username = publishers[q].username => p = q

\* The tables of a well-typed state are sequences of known length.
LEMMA Tables ==
  ASSUME TypeOK
  PROVE  /\ requests \in Seq(Status) /\ Len(requests) \in Nat
         /\ publishers \in Seq(Publisher) /\ Len(publishers) \in Nat
         /\ documents \in Seq(Document) /\ Len(documents) \in Nat
         /\ now \in Nat /\ UniqueNames
         /\ MaxTransactions \in Nat /\ MaxRestarts \in Nat
  <1>1. MaxTransactions \in Nat /\ MaxRestarts \in Nat
    BY BoundsAssumption
  <1>2. now \in Nat
    BY <1>1 DEF TypeOK
  <1> QED BY <1>1, <1>2 DEF TypeOK, UniqueNames

\* A payload stays well-typed while the tables grow.
LEMMA RequestsGrow ==
  ASSUME TypeOK, Grow
  PROVE  Request \subseteq Request'
  <1>1. Len(requests) \in Nat /\ Len(publishers) \in Nat /\ now \in Nat
    BY Tables
  <1>2. Len(requests') \in Nat /\ Len(publishers') \in Nat /\ now' \in Nat
    BY Tables DEF Grow
  <1>3. /\ 0..Len(requests) \subseteq 0..Len(requests')
        /\ 0..Len(publishers) \subseteq 0..Len(publishers')
        /\ 0..now \subseteq 0..now'
    BY <1>1, <1>2 DEF Grow
  <1> QED BY <1>3 DEF Request

\* An idle admin has a well-typed payload.
LEMMA NoReqType == TypeOK => NoReq \in Request
  <1> SUFFICES ASSUME TypeOK PROVE NoReq \in Request
    OBVIOUS
  <1>1. Len(requests) \in Nat /\ Len(publishers) \in Nat /\ now \in Nat
    BY Tables
  <1>2. 0 \in 0..Len(requests) /\ 0 \in 0..Len(publishers) /\ 0 \in 0..now
    BY <1>1
  <1>3. DemoUsername \in Usernames /\ DemoPassword \in Passwords
    BY NamesAssumption
  <1> QED BY <1>2, <1>3 DEF NoReq, Request

Steps == {"idle", "approve", "provision", "reset"}

\* A step that moves the request of one admin, or none.
LEMMA MoveTypes ==
  ASSUME TypeOK, Grow, UniqueNames', NEW a \in Admins, NEW step \in Steps,
         NEW q \in Request',
         at' = at \/ at' = [at EXCEPT ![a] = step],
         req' = req \/ req' = [req EXCEPT ![a] = q]
  PROVE  TypeOK'
  <1>1. at' \in [Admins -> Steps]
    BY DEF TypeOK, Steps
  <1>2. req' \in [Admins -> Request']
    BY RequestsGrow DEF TypeOK
  <1> QED BY <1>1, <1>2 DEF TypeOK, Grow, UniqueNames, Steps

\* The tables of a step that writes none of them.
LEMMA StoreStays ==
  ASSUME TypeOK, UNCHANGED store, now' = now, restarts' = restarts
  PROVE  Grow /\ UniqueNames'
  <1>1. /\ requests' = requests /\ publishers' = publishers
        /\ documents' = documents
    BY DEF store
  <1> QED BY <1>1, Tables DEF TypeOK, Grow, UniqueNames

\* The end of a request.
LEMMA EndTypes ==
  ASSUME TypeOK, Grow, UniqueNames', NEW a \in Admins, End(a)
  PROVE  TypeOK'
  <1>1. NoReq \in Request'
    BY NoReqType, RequestsGrow
  <1> QED BY <1>1, MoveTypes DEF End, Steps

\* Beginning a transaction.
LEMMA BeginTypes ==
  ASSUME TypeOK, NEW a \in Admins, NEW step \in Steps, NEW q \in Request,
         Begin(a, step, q)
  PROVE  TypeOK'
  <1>1. now \in Nat /\ now' = now + 1 /\ MaxTransactions \in Nat
    BY Tables DEF Begin
  <1>2. now' \in 0..MaxTransactions /\ now <= now'
    BY <1>1 DEF Begin
  <1>3. /\ requests' = requests /\ publishers' = publishers
        /\ documents' = documents /\ restarts' = restarts
    BY DEF Begin, store
  <1>4. Grow /\ UniqueNames'
    BY <1>2, <1>3, Tables DEF TypeOK, Grow, UniqueNames
  <1>5. q \in Request'
    BY <1>4, RequestsGrow
  <1>6. now + 1 \in 0..now'
    BY <1>1
  <1>7. [q EXCEPT !.created = now + 1] \in Request'
    BY <1>5, <1>6 DEF Request
  <1> QED BY <1>4, <1>7, MoveTypes DEF Begin

\* The document of a committed transaction.
LEMMA DocumentTypes ==
  ASSUME TypeOK, NEW a \in Admins, NEW p \in Nat, StoreDocument(a, p)
  PROVE  documents' \in Seq(Document)
  <1>1. req[a] \in Request /\ now \in Nat /\ documents \in Seq(Document)
    BY Tables DEF TypeOK
  <1>2. req[a].created \in 0..now /\ req[a].password \in Passwords
    BY <1>1 DEF Request
  <1>3. req[a].created \in Nat
    BY <1>1, <1>2
  <1>4. [publisher |-> p, password |-> req[a].password,
         created |-> req[a].created] \in Document
    BY <1>2, <1>3 DEF Document
  <1> QED BY <1>1, <1>4 DEF StoreDocument

\* A new account is provisioned.
LEMMA ProvisionTypes ==
  ASSUME TypeOK, NEW a \in Admins, Provision(a)
  PROVE  TypeOK'
  <1> DEFINE r == req[a].request
             row == [username |-> req[a].username,
                     password |-> req[a].password, from |-> r]
  <1>1. /\ requests \in Seq(Status) /\ Len(requests) \in Nat
        /\ publishers \in Seq(Publisher) /\ Len(publishers) \in Nat
        /\ now \in Nat /\ UniqueNames
    BY Tables
  <1>2. req[a] \in Request
    BY DEF TypeOK
  <1>3. r \in 0..Len(requests) /\ row \in Publisher
    BY <1>1, <1>2 DEF Request, Publisher
  <1>4. publishers' = Append(publishers, row)
    BY DEF Provision
  <1>5. /\ publishers' \in Seq(Publisher)
        /\ Len(publishers') = Len(publishers) + 1
        /\ publishers'[Len(publishers) + 1] = row
        /\ \A p \in 1..Len(publishers) : publishers'[p] = publishers[p]
    BY <1>1, <1>3, <1>4
  <1>6. requests' \in Seq(Status) /\ Len(requests') = Len(requests)
    <2>1. CASE r = 0
      BY <1>1, <2>1 DEF Provision
    <2>2. CASE r # 0
      <3>1. requests' = [requests EXCEPT ![r] = "APPROVED"]
        BY <2>2 DEF Provision
      <3>2. "APPROVED" \in Status
        BY DEF Status
      <3>3. r \in 1..Len(requests)
        BY <1>1, <1>3, <2>2
      <3> HIDE DEF r
      <3> QED BY <1>1, <3>1, <3>2, <3>3
    <2> QED BY <2>1, <2>2
  <1>7. documents' \in Seq(Document)
    <2>1. Len(publishers) + 1 \in Nat
      BY <1>1
    <2> QED BY <2>1, DocumentTypes DEF Provision
  <1>8. Grow
    BY <1>1, <1>5, <1>6, <1>7 DEF Grow, Provision, TypeOK
  <1>9. UniqueNames'
    <2>1. row.username = req[a].username
      OBVIOUS
    <2>2. \A p \in 1..Len(publishers) : publishers[p].username # row.username
      BY <2>1 DEF Provision, Taken
    <2> HIDE DEF row
    <2>3. \A p \in 1..Len(publishers') :
             p \in 1..Len(publishers) \/ p = Len(publishers) + 1
      BY <1>1, <1>5
    <2> QED BY <1>1, <1>5, <2>2, <2>3 DEF UniqueNames
  <1> QED BY <1>8, <1>9, EndTypes DEF Provision

\* A password is reset.
LEMMA ResetTypes ==
  ASSUME TypeOK, InFlightOK, NEW a \in Admins, Reset(a)
  PROVE  TypeOK'
  <1> DEFINE p == req[a].publisher
  <1>1. /\ publishers \in Seq(Publisher) /\ Len(publishers) \in Nat
        /\ now \in Nat /\ UniqueNames
    BY Tables
  <1>2. req[a] \in Request
    BY DEF TypeOK
  <1>3. p \in 1..Len(publishers) /\ req[a].password \in Passwords
    BY <1>1, <1>2 DEF Request, InFlightOK, Reset
  <1>4. publishers' = [publishers EXCEPT ![p].password = req[a].password]
    BY DEF Reset, SetPassword
  <1>5. publishers[p] \in Publisher
    BY <1>1, <1>3
  <1>6. [publishers[p] EXCEPT !.password = req[a].password] \in Publisher
    BY <1>3, <1>5 DEF Publisher
  <1>7. /\ publishers' \in Seq(Publisher) /\ Len(publishers') = Len(publishers)
        /\ \A q \in 1..Len(publishers) : q # p => publishers'[q] = publishers[q]
        /\ publishers'[p] = [publishers[p] EXCEPT !.password = req[a].password]
    BY <1>1, <1>3, <1>4, <1>6
  <1>8. publishers'[p].username = publishers[p].username
    BY <1>5, <1>7 DEF Publisher
  <1>9. documents' \in Seq(Document)
    <2>1. p \in Nat
      BY <1>1, <1>3
    <2> QED BY <2>1, DocumentTypes DEF Reset
  <1> HIDE DEF p
  <1>10. Grow
    BY <1>1, <1>7, <1>9, Tables DEF Grow, Reset, TypeOK
  <1>11. UniqueNames'
    BY <1>1, <1>7, <1>8 DEF UniqueNames
  <1> QED BY <1>10, <1>11, EndTypes DEF Reset

\* One more access request, made by a visitor or by the migrations.
LEMMA PendingTypes ==
  ASSUME TypeOK, requests' = Append(requests, "PENDING"), now' = now,
         publishers' = publishers, documents' = documents,
         restarts' \in 0..MaxRestarts
  PROVE  /\ Grow /\ UniqueNames'
         /\ Len(requests') = Len(requests) + 1
         /\ \A r \in 1..Len(requests) : requests'[r] = requests[r]
  <1>1. "PENDING" \in Status
    BY DEF Status
  <1>2. /\ requests \in Seq(Status) /\ Len(requests) \in Nat
        /\ publishers \in Seq(Publisher) /\ Len(publishers) \in Nat
        /\ now \in Nat /\ UniqueNames
    BY Tables
  <1>3. /\ requests' \in Seq(Status) /\ Len(requests') = Len(requests) + 1
        /\ \A r \in 1..Len(requests) : requests'[r] = requests[r]
    BY <1>1, <1>2
  <1>4. Grow
    BY <1>2, <1>3 DEF Grow, TypeOK
  <1> QED BY <1>2, <1>3, <1>4 DEF UniqueNames

\* A rejection.
LEMMA RejectTypes ==
  ASSUME TypeOK, NEW a \in Admins, NEW r \in 1..Len(requests), Reject(a, r)
  PROVE  TypeOK' /\ Len(requests') = Len(requests)
  <1>1. "REJECTED" \in Status
    BY DEF Status
  <1>2. /\ requests \in Seq(Status) /\ Len(requests) \in Nat
        /\ Len(publishers) \in Nat /\ now \in Nat /\ UniqueNames
    BY Tables
  <1>3. requests' = [requests EXCEPT ![r] = "REJECTED"]
    BY DEF Reject
  <1>4. requests' \in Seq(Status) /\ Len(requests') = Len(requests)
    BY <1>1, <1>2, <1>3
  <1>5. Grow /\ UniqueNames'
    BY <1>2, <1>4 DEF Reject, Grow, TypeOK, UniqueNames
  <1>6. NoReq \in Request'
    BY <1>5, NoReqType, RequestsGrow
  <1>7. at' = at /\ req' = req
    BY DEF Reject
  <1>8. "idle" \in Steps
    BY DEF Steps
  <1> QED BY <1>4, <1>5, <1>6, <1>7, <1>8, MoveTypes
-----------------------------------------------------------------------------
\* Types and references are kept by every step.

\* A step that touches no table.
LEMMA QuietTypes ==
  ASSUME TypeOK, NEW a \in Admins, UNCHANGED <<store, now, restarts>>,
         NEW step \in Steps, NEW q \in Request,
         at' = [at EXCEPT ![a] = step], req' = [req EXCEPT ![a] = q]
  PROVE  TypeOK'
  <1>1. Grow /\ UniqueNames'
    BY StoreStays
  <1>2. q \in Request'
    BY <1>1, RequestsGrow
  <1> QED BY <1>1, <1>2, MoveTypes

\* A step of an admin keeps the types.
LEMMA AdministerTypes ==
  ASSUME TypeOK, InFlightOK, NEW a \in Admins, Administer(a)
  PROVE  TypeOK'
  <1>1. NoReq \in Request /\ req[a] \in Request
    BY NoReqType DEF TypeOK
  <1>2. Len(requests) \in Nat /\ Len(publishers) \in Nat
    BY Tables
  <1>3. /\ "idle" \in Steps /\ "approve" \in Steps
        /\ "provision" \in Steps /\ "reset" \in Steps
    BY DEF Steps
  <1>4. ASSUME NEW r \in 1..Len(requests), NEW u \in Usernames,
               NEW pw \in Passwords, CheckRequest(a, r, u, pw)
        PROVE  TypeOK'
    <2> DEFINE q == [NoReq EXCEPT !.request = r, !.username = u, !.password = pw]
    <2>1. r \in 0..Len(requests)
      BY <1>2
    <2>2. q \in Request
      BY <1>1, <2>1 DEF Request
    <2> HIDE DEF q
    <2>3. at' = [at EXCEPT ![a] = "approve"] /\ req' = [req EXCEPT ![a] = q]
      BY <1>4 DEF CheckRequest, q
    <2> QED BY <1>3, <1>4, <2>2, <2>3, QuietTypes DEF CheckRequest
  <1>5. ASSUME NEW u \in Usernames, NEW pw \in Passwords, BeginCreation(a, u, pw)
        PROVE  TypeOK'
    <2>1. [NoReq EXCEPT !.username = u, !.password = pw] \in Request
      BY <1>1 DEF Request
    <2> QED BY <1>3, <1>5, <2>1, BeginTypes DEF BeginCreation
  <1>6. ASSUME NEW p \in 1..Len(publishers), NEW pw \in Passwords,
               BeginReset(a, p, pw)
        PROVE  TypeOK'
    <2>1. p \in 0..Len(publishers)
      BY <1>2
    <2>2. [NoReq EXCEPT !.publisher = p, !.password = pw] \in Request
      BY <1>1, <2>1 DEF Request
    <2> QED BY <1>3, <1>6, <2>2, BeginTypes DEF BeginReset
  <1>7. ASSUME BeginApproval(a)
        PROVE  TypeOK'
    BY <1>1, <1>3, <1>7, BeginTypes DEF BeginApproval
  <1>8. ASSUME UsernameTaken(a) \/ GiveUp(a)
        PROVE  TypeOK'
    BY <1>1, <1>3, <1>8, QuietTypes DEF UsernameTaken, GiveUp, End
  <1> QED BY <1>4, <1>5, <1>6, <1>7, <1>8, ProvisionTypes, ResetTypes,
             RejectTypes DEF Administer

\* Every step keeps the types.
LEMMA NextTypes ==
  ASSUME TypeOK, InFlightOK, [Next]_vars
  PROVE  TypeOK'
  <1>1. ASSUME RequestAccess
        PROVE  TypeOK'
    <2>1. Grow /\ UniqueNames'
      BY <1>1, PendingTypes DEF RequestAccess, TypeOK
    <2>2. at' = at /\ req' = req
      BY <1>1 DEF RequestAccess
    <2>3. at' \in [Admins -> {"idle", "approve", "provision", "reset"}]
      BY <2>2 DEF TypeOK
    <2>4. req' \in [Admins -> Request']
      BY <2>1, <2>2, RequestsGrow DEF TypeOK
    <2> QED BY <2>1, <2>3, <2>4 DEF TypeOK, Grow, UniqueNames
  <1>2. ASSUME Restart
        PROVE  TypeOK'
    <2>1. restarts' \in 0..MaxRestarts
      <3>1. restarts \in 0..MaxRestarts /\ MaxRestarts \in Nat
        BY Tables DEF TypeOK
      <3> QED BY <1>2, <3>1 DEF Restart
    <2>2. Grow /\ UniqueNames'
      BY <1>2, <2>1, PendingTypes DEF Restart
    <2>3. NoReq \in Request'
      BY <2>2, NoReqType, RequestsGrow
    <2>4. req' \in [Admins -> Request']
      BY <1>2, <2>3 DEF Restart
    <2>5. at' \in [Admins -> {"idle", "approve", "provision", "reset"}]
      BY <1>2 DEF Restart
    <2> QED BY <2>2, <2>4, <2>5 DEF TypeOK, Grow, UniqueNames
  <1>3. ASSUME UNCHANGED vars
        PROVE  TypeOK'
    BY <1>3 DEF TypeOK, Request, vars, store
  <1> QED BY <1>1, <1>2, <1>3, AdministerTypes DEF Next

\* What requests in progress are about stays so.
LEMMA NextInFlight ==
  ASSUME TypeOK, InFlightOK, [Next]_vars
  PROVE  InFlightOK'
  <1>1. Len(requests) \in Nat /\ Len(publishers) \in Nat
    BY Tables
  <1>2. ASSUME NEW a \in Admins, NEW step \in Steps, NEW q,
               at' = [at EXCEPT ![a] = step], req' = [req EXCEPT ![a] = q],
               step = "reset" => q.publisher # 0,
               step = "approve" => q.request # 0
        PROVE  InFlightOK'
    BY <1>2 DEF InFlightOK, TypeOK
  <1>3. /\ "idle" \in Steps /\ "approve" \in Steps
        /\ "provision" \in Steps /\ "reset" \in Steps
    BY DEF Steps
  <1>4. ASSUME NEW a \in Admins, End(a)
        PROVE  InFlightOK'
    BY <1>2, <1>3, <1>4 DEF End
  <1>5. ASSUME NEW a \in Admins, NEW r \in 1..Len(requests), NEW u, NEW pw,
               CheckRequest(a, r, u, pw)
        PROVE  InFlightOK'
    <2> DEFINE q == [NoReq EXCEPT !.request = r, !.username = u, !.password = pw]
    <2>1. q.request # 0
      BY <1>1 DEF NoReq
    <2> QED BY <1>2, <1>3, <1>5, <2>1 DEF CheckRequest
  <1>6. ASSUME NEW a \in Admins, NEW q, Begin(a, "provision", q)
        PROVE  InFlightOK'
    BY <1>2, <1>3, <1>6 DEF Begin
  <1>7. ASSUME NEW a \in Admins, NEW p \in 1..Len(publishers), NEW pw,
               BeginReset(a, p, pw)
        PROVE  InFlightOK'
    <2> DEFINE q == [NoReq EXCEPT !.publisher = p, !.password = pw]
               stamped == [q EXCEPT !.created = now + 1]
    <2>1. stamped.publisher # 0
      BY <1>1 DEF NoReq
    <2>2. at' = [at EXCEPT ![a] = "reset"] /\ req' = [req EXCEPT ![a] = stamped]
      BY <1>7 DEF BeginReset, Begin
    <2> HIDE DEF stamped
    <2> QED BY <1>2, <1>3, <2>1, <2>2
  <1>8. ASSUME UNCHANGED <<at, req>>
        PROVE  InFlightOK'
    BY <1>8 DEF InFlightOK
  <1>9. ASSUME NEW a \in Admins, Administer(a)
        PROVE  InFlightOK'
    BY <1>4, <1>5, <1>6, <1>7, <1>8, <1>9
       DEF Administer, BeginCreation, BeginApproval, Provision, UsernameTaken,
           Reset, Reject, GiveUp
  <1>10. ASSUME Restart
         PROVE  InFlightOK'
    BY <1>10 DEF Restart, InFlightOK
  <1> QED BY <1>8, <1>9, <1>10 DEF Next, RequestAccess, vars
-----------------------------------------------------------------------------
\* Accounts and the requests they were made for.

\* An account names an access request that exists, and was approved.
FromOK ==
    \A p \in 1..Len(publishers) :
        /\ publishers[p].from \in 0..Len(requests)
        /\ publishers[p].from # 0 => requests[publishers[p].from] = "APPROVED"

\* What a step does to the accounts: it adds one, or keeps the request each
\* was made for.
LEMMA AccountsKept ==
  ASSUME TypeOK, InFlightOK, [Next]_vars
  PROVE  \/ \E a \in Admins : Provision(a)
         \/ /\ Len(publishers') = Len(publishers)
            /\ \A p \in 1..Len(publishers) : publishers'[p].from = publishers[p].from
  <1>1. ASSUME NEW a \in Admins, Reset(a)
        PROVE  /\ Len(publishers') = Len(publishers)
               /\ \A p \in 1..Len(publishers) :
                     publishers'[p].from = publishers[p].from
    <2> DEFINE q == req[a].publisher
    <2>1. publishers \in Seq(Publisher)
      BY Tables
    <2>2. \A p \in 1..Len(publishers) : publishers[p] \in Publisher
      BY <2>1
    <2>3. publishers' = [publishers EXCEPT ![q].password = req[a].password]
      BY <1>1 DEF Reset, SetPassword
    <2> HIDE DEF q
    <2> QED BY <2>1, <2>2, <2>3 DEF Publisher
  <1>2. ASSUME NEW a \in Admins, Administer(a), ~Provision(a), ~Reset(a)
        PROVE  publishers' = publishers
    BY <1>2 DEF Administer, CheckRequest, Reject, BeginCreation, BeginReset,
                BeginApproval, Begin, UsernameTaken, GiveUp, store
  <1>3. ASSUME RequestAccess \/ Restart \/ UNCHANGED vars
        PROVE  publishers' = publishers
    BY <1>3 DEF RequestAccess, Restart, vars, store
  <1> QED BY <1>1, <1>2, <1>3 DEF Next

\* What a step does to the requests: a rejection; an approval; a new one.
LEMMA RequestsKept ==
  ASSUME TypeOK, [Next]_vars
  PROVE  \/ requests' = requests
         \/ requests' = Append(requests, "PENDING")
         \/ \E r \in 1..Len(requests) :
               /\ requests[r] = "PENDING"
               /\ requests' = [requests EXCEPT ![r] = "REJECTED"]
         \/ \E a \in Admins : Provision(a)
  <1>1. ASSUME NEW a \in Admins, Administer(a), ~Provision(a)
        PROVE  \/ requests' = requests
               \/ \E r \in 1..Len(requests) :
                     /\ requests[r] = "PENDING"
                     /\ requests' = [requests EXCEPT ![r] = "REJECTED"]
    BY <1>1 DEF Administer, CheckRequest, Reject, BeginCreation, BeginReset,
                BeginApproval, Begin, UsernameTaken, Reset, GiveUp, store
  <1>2. ASSUME RequestAccess \/ Restart
        PROVE  requests' = Append(requests, "PENDING")
    BY <1>2 DEF RequestAccess, Restart
  <1>3. ASSUME UNCHANGED vars
        PROVE  requests' = requests
    BY <1>3 DEF vars, store
  <1> QED BY <1>1, <1>2, <1>3 DEF Next

\* A new account, and what becomes of the tables.
LEMMA Provisioned ==
  ASSUME TypeOK, NEW a \in Admins, Provision(a)
  PROVE  /\ req[a].request \in 0..Len(requests)
         /\ Len(publishers') = Len(publishers) + 1
         /\ publishers'[Len(publishers) + 1].from = req[a].request
         /\ \A p \in 1..Len(publishers) : publishers'[p] = publishers[p]
         /\ Len(requests') = Len(requests)
         /\ req[a].request # 0 => requests'[req[a].request] = "APPROVED"
         /\ \A r \in 1..Len(requests) :
               r # req[a].request => requests'[r] = requests[r]
  <1> DEFINE m == req[a].request
             row == [username |-> req[a].username,
                     password |-> req[a].password, from |-> m]
  <1>1. /\ requests \in Seq(Status) /\ Len(requests) \in Nat
        /\ publishers \in Seq(Publisher) /\ Len(publishers) \in Nat
    BY Tables
  <1>2. m \in 0..Len(requests)
    BY DEF TypeOK, Request
  <1>3. publishers' = Append(publishers, row)
    BY DEF Provision
  <1>4. /\ Len(publishers') = Len(publishers) + 1
        /\ publishers'[Len(publishers) + 1] = row
        /\ \A p \in 1..Len(publishers) : publishers'[p] = publishers[p]
    BY <1>1, <1>3
  <1>5. CASE m = 0
    BY <1>2, <1>4, <1>5 DEF Provision
  <1>6. CASE m # 0
    <2>1. requests' = [requests EXCEPT ![m] = "APPROVED"]
      BY <1>6 DEF Provision
    <2>2. m \in 1..Len(requests)
      BY <1>1, <1>2, <1>6
    <2>3. row.from = m
      OBVIOUS
    <2> HIDE DEF m, row
    <2>4. /\ Len(requests') = Len(requests)
          /\ requests'[m] = "APPROVED"
          /\ \A r \in 1..Len(requests) : r # m => requests'[r] = requests[r]
      BY <1>1, <2>1, <2>2
    <2> QED BY <1>2, <1>4, <2>3, <2>4 DEF m
  <1> QED BY <1>5, <1>6

\* Every step keeps accounts and requests in agreement.
LEMMA NextFrom ==
  ASSUME TypeOK, InFlightOK, FromOK, [Next]_vars
  PROVE  FromOK'
  <1>1. /\ requests \in Seq(Status) /\ Len(requests) \in Nat
        /\ Len(publishers) \in Nat
    BY Tables
  <1>2. ASSUME NEW a \in Admins, Provision(a)
        PROVE  FromOK'
    <2> SUFFICES ASSUME NEW p \in 1..(Len(publishers) + 1)
                 PROVE  /\ publishers'[p].from \in 0..Len(requests')
                        /\ publishers'[p].from # 0 =>
                              requests'[publishers'[p].from] = "APPROVED"
      BY <1>2, Provisioned DEF FromOK
    <2>1. CASE p = Len(publishers) + 1
      BY <1>2, <2>1, Provisioned
    <2>2. CASE p \in 1..Len(publishers)
      <3>1. publishers'[p].from \in 0..Len(requests)
        BY <1>2, <2>2, Provisioned DEF FromOK
      <3>2. ASSUME publishers'[p].from # 0
            PROVE  requests'[publishers'[p].from] = "APPROVED"
        <4>1. /\ publishers'[p].from \in 1..Len(requests)
              /\ requests[publishers'[p].from] = "APPROVED"
          BY <1>1, <1>2, <2>2, <3>1, <3>2, Provisioned DEF FromOK
        <4> QED BY <1>2, <3>2, <4>1, Provisioned
      <3> QED BY <1>2, <3>1, <3>2, Provisioned
    <2> QED BY <1>1, <2>1, <2>2
  <1>3. ASSUME Len(publishers') = Len(publishers),
               \A p \in 1..Len(publishers) : publishers'[p].from = publishers[p].from,
               Len(requests') \in Nat, Len(requests) <= Len(requests'),
               \A r \in 1..Len(requests) :
                  requests[r] = "APPROVED" => requests'[r] = "APPROVED"
        PROVE  FromOK'
    <2> SUFFICES ASSUME NEW p \in 1..Len(publishers)
                 PROVE  /\ publishers[p].from \in 0..Len(requests')
                        /\ publishers[p].from # 0 =>
                              requests'[publishers[p].from] = "APPROVED"
      BY <1>3 DEF FromOK
    <2>1. publishers[p].from \in 0..Len(requests)
      BY DEF FromOK
    <2> QED BY <1>1, <1>3, <2>1 DEF FromOK
  <1>4. ASSUME requests' = Append(requests, "PENDING")
        PROVE  /\ Len(requests') \in Nat /\ Len(requests) <= Len(requests')
               /\ \A r \in 1..Len(requests) : requests'[r] = requests[r]
    BY <1>1, <1>4 DEF Status
  <1>5. ASSUME NEW r \in 1..Len(requests), requests[r] = "PENDING",
               requests' = [requests EXCEPT ![r] = "REJECTED"]
        PROVE  /\ Len(requests') = Len(requests)
               /\ \A s \in 1..Len(requests) :
                     requests[s] = "APPROVED" => requests'[s] = "APPROVED"
    BY <1>1, <1>5
  <1> QED BY <1>1, <1>2, <1>3, <1>4, <1>5, AccountsKept, RequestsKept
-----------------------------------------------------------------------------
\* Accounts made for one request.

\* The admins who have found request r pending and not finished with it.
Approving(r) ==
    {a \in Admins : at[a] \in {"approve", "provision"} /\ req[a].request = r}

Budget(r) ==
    Cardinality(AccountsFrom(r)) + Cardinality(Approving(r)) <= Cardinality(Admins)

\* DuplicatesAreBounded alone is not inductive: it forgets the admins who have
\* read the status and have yet to commit.
BudgetOK == \A r \in 1..Len(requests) : Budget(r)

\* Both sets are finite.
LEMMA Countable ==
  ASSUME TypeOK, NEW r
  PROVE  /\ IsFiniteSet(Admins) /\ Cardinality(Admins) \in Nat
         /\ IsFiniteSet(AccountsFrom(r)) /\ Cardinality(AccountsFrom(r)) \in Nat
         /\ IsFiniteSet(Approving(r)) /\ Cardinality(Approving(r)) \in Nat
  <1>1. IsFiniteSet(Admins)
    BY BoundsAssumption
  <1>2. Len(publishers) \in Nat
    BY Tables
  <1>3. IsFiniteSet(1..Len(publishers))
    BY <1>2, FS_Interval
  <1>4. AccountsFrom(r) \subseteq 1..Len(publishers) /\ Approving(r) \subseteq Admins
    BY DEF AccountsFrom, Approving
  <1> QED BY <1>1, <1>3, <1>4, FS_Subset, FS_CardinalityType

\* Nobody joins, and no account is added.
LEMMA BudgetKept ==
  ASSUME TypeOK, NEW r, Budget(r),
         AccountsFrom(r)' \subseteq AccountsFrom(r),
         Approving(r)' \subseteq Approving(r)
  PROVE  Budget(r)'
  <1>1. /\ Cardinality(AccountsFrom(r)') \in Nat
        /\ Cardinality(AccountsFrom(r)') <= Cardinality(AccountsFrom(r))
    BY Countable, FS_Subset, FS_CardinalityType
  <1>2. /\ Cardinality(Approving(r)') \in Nat
        /\ Cardinality(Approving(r)') <= Cardinality(Approving(r))
    BY Countable, FS_Subset, FS_CardinalityType
  <1>3. /\ Cardinality(Admins) \in Nat /\ Cardinality(AccountsFrom(r)) \in Nat
        /\ Cardinality(Approving(r)) \in Nat
    BY Countable
  <1>4. Cardinality(AccountsFrom(r)') + Cardinality(Approving(r)')
           <= Cardinality(Admins)
    BY <1>1, <1>2, <1>3 DEF Budget
  <1> QED BY <1>4 DEF Budget

\* As long as a request has no account, any number of admins may join.
LEMMA BudgetOpen ==
  ASSUME TypeOK, NEW r, AccountsFrom(r)' = {}
  PROVE  Budget(r)'
  <1>1. IsFiniteSet(Admins) /\ Cardinality(Admins) \in Nat
    BY Countable
  <1>2. Approving(r)' \subseteq Admins
    BY DEF Approving
  <1>3. /\ Cardinality(Approving(r)') \in Nat
        /\ Cardinality(Approving(r)') <= Cardinality(Admins)
    BY <1>1, <1>2, FS_Subset, FS_CardinalityType
  <1>4. Cardinality(AccountsFrom(r)') = 0
    BY FS_EmptySet
  <1>5. Cardinality(AccountsFrom(r)') + Cardinality(Approving(r)')
           <= Cardinality(Admins)
    BY <1>1, <1>3, <1>4
  <1> QED BY <1>5 DEF Budget

\* The accounts of a request, when none is provisioned.
LEMMA SameAccounts ==
  ASSUME TypeOK, NEW r, Len(publishers') = Len(publishers),
         \A p \in 1..Len(publishers) : publishers'[p].from = publishers[p].from
  PROVE  AccountsFrom(r)' = AccountsFrom(r)
  BY DEF AccountsFrom

\* An admin spends their own approval on the account they provision.
LEMMA ProvisionBudget ==
  ASSUME TypeOK, NEW a \in Admins, Provision(a), NEW r, r # 0, Budget(r)
  PROVE  Budget(r)'
  <1> DEFINE n == Len(publishers) + 1
  <1>1. Len(publishers) \in Nat
    BY Tables
  <1>2. at' = [at EXCEPT ![a] = "idle"] /\ req' = [req EXCEPT ![a] = NoReq]
    BY DEF Provision, End
  <1>3. Approving(r)' \subseteq Approving(r) \ {a}
    BY <1>2 DEF Approving, TypeOK
  <1>4. \A p \in 1..Len(publishers') : p = n \/ p \in 1..Len(publishers)
    BY <1>1, Provisioned
  <1>5. n \notin 1..Len(publishers)
    BY <1>1
  <1>6. CASE r # req[a].request
    <2>1. AccountsFrom(r)' \subseteq AccountsFrom(r)
      BY <1>4, <1>6, Provisioned DEF AccountsFrom
    <2> QED BY <1>3, <2>1, BudgetKept
  <1>7. CASE r = req[a].request
    <2>1. a \in Approving(r)
      BY <1>7 DEF Approving, Provision
    <2>2. AccountsFrom(r)' \subseteq AccountsFrom(r) \union {n}
      BY <1>4, Provisioned DEF AccountsFrom
    <2>3. n \notin AccountsFrom(r)
      BY <1>5 DEF AccountsFrom
    <2> HIDE DEF n
    <2>4. /\ IsFiniteSet(AccountsFrom(r) \union {n})
          /\ Cardinality(AccountsFrom(r) \union {n})
                = Cardinality(AccountsFrom(r)) + 1
      BY <2>3, Countable, FS_AddElement
    <2>5. /\ IsFiniteSet(Approving(r) \ {a})
          /\ Cardinality(Approving(r) \ {a}) = Cardinality(Approving(r)) - 1
      BY <2>1, Countable, FS_RemoveElement
    <2>6. /\ Cardinality(AccountsFrom(r)') \in Nat
          /\ Cardinality(AccountsFrom(r)') <= Cardinality(AccountsFrom(r)) + 1
      BY <2>2, <2>4, FS_Subset, FS_CardinalityType
    <2>7. /\ Cardinality(Approving(r)') \in Nat
          /\ Cardinality(Approving(r)') <= Cardinality(Approving(r)) - 1
      BY <1>3, <2>5, FS_Subset, FS_CardinalityType
    <2>8. /\ Cardinality(Admins) \in Nat /\ Cardinality(AccountsFrom(r)) \in Nat
          /\ Cardinality(Approving(r)) \in Nat
      BY Countable
    <2>9. Cardinality(AccountsFrom(r)') + Cardinality(Approving(r)')
             <= Cardinality(Admins)
      BY <2>6, <2>7, <2>8 DEF Budget
    <2> QED BY <2>9 DEF Budget
  <1> QED BY <1>6, <1>7

\* Who is approving a request, in any step but two.
LEMMA ApprovingKept ==
  ASSUME TypeOK, NEW r, r # 0, [Next]_vars,
         \A a \in Admins : ~Provision(a),
         \A a \in Admins, u \in Usernames, pw \in Passwords :
            r \in 1..Len(requests) => ~CheckRequest(a, r, u, pw)
  PROVE  Approving(r)' \subseteq Approving(r)
  <1>1. ASSUME NEW a \in Admins, NEW step, NEW q,
               at' = [at EXCEPT ![a] = step], req' = [req EXCEPT ![a] = q],
               step \in {"approve", "provision"} /\ q.request = r =>
                  a \in Approving(r)
        PROVE  Approving(r)' \subseteq Approving(r)
    BY <1>1 DEF Approving, TypeOK
  <1>2. ASSUME NEW a \in Admins, End(a)
        PROVE  Approving(r)' \subseteq Approving(r)
    BY <1>1, <1>2 DEF End
  <1>3. ASSUME NEW a \in Admins, NEW s \in 1..Len(requests), NEW u \in Usernames,
               NEW pw \in Passwords, CheckRequest(a, s, u, pw)
        PROVE  Approving(r)' \subseteq Approving(r)
    <2> DEFINE q == [NoReq EXCEPT !.request = s, !.username = u, !.password = pw]
    <2>1. q.request = s /\ s # r
      BY <1>3 DEF NoReq
    <2>2. at' = [at EXCEPT ![a] = "approve"] /\ req' = [req EXCEPT ![a] = q]
      BY <1>3 DEF CheckRequest
    <2> HIDE DEF q
    <2> QED BY <1>1, <2>1, <2>2
  <1>4. ASSUME NEW a \in Admins, BeginApproval(a)
        PROVE  Approving(r)' \subseteq Approving(r)
    <2> DEFINE q == [req[a] EXCEPT !.created = now + 1]
    <2>1. req[a] \in Request
      BY DEF TypeOK
    <2>2. q.request = req[a].request
      BY <2>1 DEF Request
    <2>3. at' = [at EXCEPT ![a] = "provision"] /\ req' = [req EXCEPT ![a] = q]
      BY <1>4 DEF BeginApproval, Begin
    <2>4. req[a].request = r => a \in Approving(r)
      BY <1>4 DEF BeginApproval, Approving
    <2> HIDE DEF q
    <2> QED BY <1>1, <2>2, <2>3, <2>4
  <1>5. ASSUME NEW a \in Admins, NEW u, NEW pw, BeginCreation(a, u, pw)
        PROVE  Approving(r)' \subseteq Approving(r)
    <2> DEFINE q == [[NoReq EXCEPT !.username = u, !.password = pw]
                        EXCEPT !.created = now + 1]
    <2>1. q.request = 0
      BY DEF NoReq
    <2>2. at' = [at EXCEPT ![a] = "provision"] /\ req' = [req EXCEPT ![a] = q]
      BY <1>5 DEF BeginCreation, Begin
    <2> HIDE DEF q
    <2> QED BY <1>1, <2>1, <2>2
  <1>6. ASSUME NEW a \in Admins, NEW p, NEW pw, BeginReset(a, p, pw)
        PROVE  Approving(r)' \subseteq Approving(r)
    <2> DEFINE q == [[NoReq EXCEPT !.publisher = p, !.password = pw]
                        EXCEPT !.created = now + 1]
    <2>1. at' = [at EXCEPT ![a] = "reset"] /\ req' = [req EXCEPT ![a] = q]
      BY <1>6 DEF BeginReset, Begin
    <2> HIDE DEF q
    <2> QED BY <1>1, <2>1
  <1>7. ASSUME UNCHANGED <<at, req>>
        PROVE  Approving(r)' \subseteq Approving(r)
    BY <1>7 DEF Approving
  <1>8. ASSUME NEW a \in Admins, Administer(a)
        PROVE  Approving(r)' \subseteq Approving(r)
    BY <1>2, <1>3, <1>4, <1>5, <1>6, <1>7, <1>8
       DEF Administer, UsernameTaken, Reset, Reject, GiveUp
  <1>9. ASSUME Restart
        PROVE  Approving(r)' \subseteq Approving(r)
    BY <1>9 DEF Restart, Approving
  <1> QED BY <1>7, <1>8, <1>9 DEF Next, RequestAccess, vars

\* Every step keeps the budget of every request.
LEMMA NextBudget ==
  ASSUME TypeOK, TypeOK', InFlightOK, FromOK, BudgetOK, [Next]_vars
  PROVE  BudgetOK'
  <1> SUFFICES ASSUME NEW r \in 1..Len(requests') PROVE Budget(r)'
    BY DEF BudgetOK
  <1>1. /\ Len(requests) \in Nat /\ Len(publishers) \in Nat
        /\ requests \in Seq(Status)
    BY Tables
  <1>2. r # 0 /\ Len(requests') \in Nat
    BY DEF TypeOK
  <1>3. CASE \E a \in Admins : Provision(a)
    <2>1. PICK a \in Admins : Provision(a)
      BY <1>3
    <2>2. r \in 1..Len(requests)
      BY <2>1, Provisioned
    <2> QED BY <1>2, <2>1, <2>2, ProvisionBudget DEF BudgetOK
  <1>4. CASE \A a \in Admins : ~Provision(a)
    <2>1. AccountsFrom(r)' = AccountsFrom(r)
      BY <1>4, AccountsKept, SameAccounts
    <2>2. CASE r \notin 1..Len(requests)
      <3>1. AccountsFrom(r) = {}
        BY <1>1, <1>2, <2>2 DEF AccountsFrom, FromOK
      <3> QED BY <2>1, <3>1, BudgetOpen
    <2>3. CASE r \in 1..Len(requests)
      <3>1. CASE requests[r] = "PENDING"
        <4>1. AccountsFrom(r) = {}
          BY <1>2, <3>1 DEF AccountsFrom, FromOK
        <4> QED BY <2>1, <4>1, BudgetOpen
      <3>2. CASE requests[r] # "PENDING"
        <4>1. \A a \in Admins, u \in Usernames, pw \in Passwords :
                 ~CheckRequest(a, r, u, pw)
          BY <3>2 DEF CheckRequest, StillPending
        <4>2. Approving(r)' \subseteq Approving(r)
          BY <1>2, <1>4, <4>1, ApprovingKept
        <4> QED BY <2>1, <2>3, <4>2, BudgetKept DEF BudgetOK
      <3> QED BY <3>1, <3>2
    <2> QED BY <2>2, <2>3
  <1> QED BY <1>3, <1>4

-----------------------------------------------------------------------------
\* The inductive invariant, and what follows from it.

IInv == TypeOK /\ InFlightOK /\ FromOK /\ BudgetOK

\* The inductive invariant holds initially.
LEMMA InitIInv == Init => IInv
  <1> SUFFICES ASSUME Init PROVE IInv
    OBVIOUS
  <1> DEFINE demo == [username |-> DemoUsername, password |-> DemoPassword,
                      from |-> 0]
  <1>1. demo \in Publisher
    BY NamesAssumption DEF Publisher
  <1>2. /\ publishers \in Seq(Publisher) /\ Len(publishers) = 1
        /\ \A p \in 1..Len(publishers) : publishers[p].from = 0 /\ p = 1
    <2>1. publishers = <<demo>> /\ demo.from = 0
      BY DEF Init
    <2> QED BY <1>1, <2>1
  <1>3. requests \in Seq(Status) /\ Len(requests) = 1
    BY DEF Init, Status
  <1>4. documents \in Seq(Document)
    BY DEF Init
  <1>5. now = 0 /\ now \in 0..MaxTransactions /\ restarts \in 0..MaxRestarts
    <2>1. MaxTransactions \in Nat /\ MaxRestarts \in Nat
      BY BoundsAssumption
    <2> QED BY <2>1 DEF Init
  <1>6. NoReq \in Request
    BY <1>2, <1>3, <1>5, NamesAssumption DEF NoReq, Request
  <1>7. /\ req \in [Admins -> Request]
        /\ at \in [Admins -> {"idle", "approve", "provision", "reset"}]
    BY <1>6 DEF Init
  <1>8. TypeOK
    BY <1>2, <1>3, <1>4, <1>5, <1>7 DEF TypeOK
  <1>9. InFlightOK
    BY DEF Init, InFlightOK
  <1>10. FromOK
    BY <1>2, <1>3 DEF FromOK
  <1>11. BudgetOK
    <2> SUFFICES ASSUME NEW r \in 1..Len(requests) PROVE Budget(r)
      BY DEF BudgetOK
    <2>1. r # 0
      BY <1>3
    <2>2. AccountsFrom(r) = {} /\ Approving(r) = {}
      BY <1>2, <2>1 DEF AccountsFrom, Approving, Init
    <2>3. Cardinality(AccountsFrom(r)) = 0 /\ Cardinality(Approving(r)) = 0
      BY <2>2, FS_EmptySet
    <2>4. Cardinality(Admins) \in Nat
      BY <1>8, Countable
    <2> QED BY <2>3, <2>4 DEF Budget
  <1> QED BY <1>8, <1>9, <1>10, <1>11 DEF IInv

\* Every step keeps the inductive invariant.
LEMMA NextIInv == IInv /\ [Next]_vars => IInv'
  <1> SUFFICES ASSUME IInv, [Next]_vars PROVE IInv'
    OBVIOUS
  <1>1. TypeOK /\ InFlightOK /\ FromOK /\ BudgetOK
    BY DEF IInv
  <1>2. TypeOK'
    BY <1>1, NextTypes
  <1>3. InFlightOK' /\ FromOK'
    BY <1>1, NextInFlight, NextFrom
  <1>4. BudgetOK'
    BY <1>1, <1>2, NextBudget
  <1> QED BY <1>2, <1>3, <1>4 DEF IInv

\* The invariant holds of every reachable state.
THEOREM Invariance == Spec => []IInv
  <1>1. Init => IInv
    BY InitIInv
  <1>2. IInv /\ [Next]_vars => IInv'
    BY NextIInv
  <1> QED BY <1>1, <1>2, PTL DEF Spec

\* Every variable keeps its type, and no two accounts have one username.
THEOREM TypeCorrect == Spec => []TypeOK
  <1>1. IInv => TypeOK
    BY DEF IInv
  <1> QED BY <1>1, Invariance, PTL

\* A request that led to an account is approved and stays so.
THEOREM Approved == Spec => []AccountMeansApproved
  <1>1. IInv => AccountMeansApproved
    BY DEF IInv, FromOK, AccountMeansApproved
  <1> QED BY <1>1, Invariance, PTL

\* One request leads to at most as many accounts as there are admins.
THEOREM Duplicates == Spec => []DuplicatesAreBounded
  <1>1. IInv => DuplicatesAreBounded
    <2> SUFFICES ASSUME IInv, NEW r \in 1..Len(requests)
                 PROVE  Cardinality(AccountsFrom(r)) <= Cardinality(Admins)
      BY DEF DuplicatesAreBounded
    <2>1. /\ Cardinality(Admins) \in Nat /\ Cardinality(AccountsFrom(r)) \in Nat
          /\ Cardinality(Approving(r)) \in Nat
      BY Countable DEF IInv
    <2>2. Budget(r)
      BY DEF IInv, BudgetOK
    <2> QED BY <2>1, <2>2 DEF Budget
  <1> QED BY <1>1, Invariance, PTL

-----------------------------------------------------------------------------
\* Documents: each carries the time its transaction began, which no other has.

Open(a) == at[a] \in {"provision", "reset"}

\* The documents are of accounts, and no two have one time of beginning, nor
\* have two transactions in progress, nor one of each.
StampsOK ==
    /\ \A d \in 1..Len(documents) : documents[d].publisher \in 1..Len(publishers)
    /\ \A d, e \in 1..Len(documents) :
          documents[d].created = documents[e].created => d = e
    /\ \A d \in 1..Len(documents) : documents[d].created <= now
    /\ \A a \in Admins : Open(a) =>
          /\ req[a].created <= now
          /\ \A d \in 1..Len(documents) : documents[d].created # req[a].created
          /\ \A b \in Admins : Open(b) /\ req[b].created = req[a].created => a = b

\* The document stored last for an account has its password.
Carries(p, last) ==
    /\ documents[last].publisher = p
    /\ documents[last].password = publishers[p].password
    /\ \A d \in 1..Len(documents) : documents[d].publisher = p => d <= last
PasswordsOK ==
    \A p \in 1..Len(publishers) :
       \/ publishers[p].username # DemoUsername
       \/ \E d \in 1..Len(documents) : documents[d].publisher = p
       => \E last \in 1..Len(documents) : Carries(p, last)

\* A step that stores no document and begins no transaction.
LEMMA QuietDocuments ==
  ASSUME StampsOK, PasswordsOK, UNCHANGED <<publishers, documents, now>>,
         \A a \in Admins : Open(a)' => Open(a) /\ req'[a] = req[a]
  PROVE  StampsOK' /\ PasswordsOK'
  BY DEF StampsOK, PasswordsOK, Carries

\* A transaction begins, at a time that is new.
LEMMA BeginDocuments ==
  ASSUME TypeOK, StampsOK, PasswordsOK, NEW a \in Admins, NEW step, NEW q \in Request,
         Begin(a, step, q)
  PROVE  StampsOK' /\ PasswordsOK'
  <1>1. /\ now \in Nat /\ now' = now + 1
        /\ publishers' = publishers /\ documents' = documents
        /\ \A d \in 1..Len(documents) : documents[d] \in Document
    BY Tables DEF Begin, store
  <1>2. /\ req'[a].created = now + 1
        /\ \A b \in Admins \ {a} : req'[b] = req[b] /\ at'[b] = at[b]
    BY DEF Begin, TypeOK, Request
  <1>3. \A b \in Admins \ {a} : Open(b)' => Open(b) /\ req[b].created <= now
    BY <1>2 DEF Open, StampsOK
  <1>4. \A b \in Admins : req[b].created \in Nat
    BY <1>1 DEF TypeOK, Request
  <1>5. \A d \in 1..Len(documents) : /\ documents[d].created \in Nat
                                     /\ documents[d].created <= now
    BY <1>1 DEF Document, StampsOK
  <1>6. ASSUME NEW b \in Admins, Open(b)'
        PROVE  /\ req'[b].created <= now'
               /\ \A d \in 1..Len(documents') :
                     documents'[d].created # req'[b].created
               /\ \A c \in Admins : Open(c)' /\ req'[c].created = req'[b].created
                                       => b = c
    <2>1. CASE b = a
      BY <1>1, <1>2, <1>3, <1>4, <1>5, <2>1
    <2>2. CASE b # a
      BY <1>1, <1>2, <1>3, <1>4, <1>6, <2>2 DEF StampsOK
    <2> QED BY <2>1, <2>2
  <1>7. StampsOK'
    BY <1>1, <1>5, <1>6 DEF StampsOK
  <1>8. PasswordsOK'
    BY <1>1 DEF PasswordsOK, Carries
  <1> QED BY <1>7, <1>8

\* A COMMIT that stores the document of account p with its new password.
LEMMA StoreDocuments ==
  ASSUME TypeOK, StampsOK, PasswordsOK, NEW a \in Admins, NEW p \in Nat,
         Open(a), StoreDocument(a, p), End(a), now' = now,
         Len(publishers') \in Nat, Len(publishers) <= Len(publishers'),
         p \in 1..Len(publishers'),
         publishers'[p].password = req[a].password,
         \A q \in 1..Len(publishers') \ {p} :
            /\ q \in 1..Len(publishers)
            /\ publishers'[q] = publishers[q]
  PROVE  StampsOK' /\ PasswordsOK'
  <1>0. PICK n : n = Len(documents) + 1
    OBVIOUS
  <1>1. /\ documents \in Seq(Document) /\ Len(documents) \in Nat
        /\ publishers \in Seq(Publisher) /\ Len(publishers) \in Nat
        /\ now \in Nat
    BY Tables
  <1>2. PICK doc : doc = [publisher |-> p, password |-> req[a].password,
                          created |-> req[a].created]
    OBVIOUS
  <1>3. doc \in Document
    <2>1. req[a] \in Request
      BY DEF TypeOK
    <2>2. req[a].created \in 0..now /\ req[a].password \in Passwords
      BY <2>1 DEF Request
    <2>3. req[a].created \in Nat
      BY <1>1, <2>2
    <2> QED BY <1>2, <2>2, <2>3 DEF Document
  <1>4. documents' = Append(documents, doc)
    BY <1>2 DEF StoreDocument
  <1>5. /\ Len(documents') = n /\ documents'[n] = doc
        /\ \A d \in 1..Len(documents) : documents'[d] = documents[d]
    BY <1>0, <1>1, <1>3, <1>4
  <1>6. \A d \in 1..n : d \in 1..Len(documents) \/ d = n
    BY <1>0, <1>1
  <1>7. doc.publisher = p /\ doc.password = req[a].password
        /\ doc.created = req[a].created
    BY <1>2
  <1>8. \A b \in Admins : Open(b)' => b # a /\ Open(b) /\ req'[b] = req[b]
    BY DEF Open, End, TypeOK
  <1>9. StampsOK'
    <2>1. \A d \in 1..n : documents'[d].publisher \in 1..Len(publishers')
      BY <1>1, <1>5, <1>6, <1>7 DEF StampsOK
    <2>2. \A d, e \in 1..n :
             documents'[d].created = documents'[e].created => d = e
      BY <1>5, <1>6, <1>7 DEF StampsOK
    <2>3. \A d \in 1..n : documents'[d].created <= now'
      BY <1>5, <1>6, <1>7 DEF StampsOK
    <2>4. ASSUME NEW b \in Admins, Open(b)'
          PROVE  /\ req'[b].created <= now'
                 /\ \A d \in 1..n : documents'[d].created # req'[b].created
                 /\ \A c \in Admins : Open(c)' /\ req'[c].created = req'[b].created
                                         => b = c
      <3>1. Open(b) /\ req'[b] = req[b] /\ b # a
        BY <1>8, <2>4
      <3>2. /\ req[b].created <= now
            /\ \A d \in 1..Len(documents) : documents[d].created # req[b].created
            /\ \A c \in Admins : Open(c) /\ req[c].created = req[b].created
                                    => b = c
        BY <3>1 DEF StampsOK
      <3>3. req[a].created # req[b].created
        BY <3>1, <3>2
      <3>4. \A d \in 1..n : documents'[d].created # req'[b].created
        BY <1>5, <1>6, <1>7, <3>1, <3>2, <3>3
      <3>5. \A c \in Admins : Open(c)' /\ req'[c].created = req'[b].created
                                => b = c
        BY <1>8, <3>1, <3>2
      <3> QED BY <3>1, <3>2, <3>4, <3>5
    <2> QED BY <1>5, <2>1, <2>2, <2>3, <2>4 DEF StampsOK
  <1>10. PasswordsOK'
    <2>1. Carries(p, n)'
      <3>1. \A d \in 1..n : d <= n
        BY <1>0, <1>1
      <3> QED BY <1>5, <1>7, <3>1 DEF Carries
    <2>2. ASSUME NEW q \in 1..Len(publishers') \ {p},
                 \/ publishers'[q].username # DemoUsername
                 \/ \E d \in 1..Len(documents') : documents'[d].publisher = q
          PROVE  \E last \in 1..Len(documents') : Carries(q, last)'
      <3>1. \/ publishers[q].username # DemoUsername
            \/ \E d \in 1..Len(documents) : documents[d].publisher = q
        BY <1>5, <1>6, <1>7, <2>2
      <3>2. PICK last \in 1..Len(documents) : Carries(q, last)
        BY <3>1 DEF PasswordsOK
      <3>3. Carries(q, last)'
        BY <1>5, <1>6, <1>7, <3>2 DEF Carries
      <3>4. last \in 1..Len(documents')
        BY <1>0, <1>1, <1>5
      <3> QED BY <3>3, <3>4
    <2>3. n \in 1..Len(documents')
      BY <1>0, <1>1, <1>5
    <2> QED BY <2>1, <2>2, <2>3 DEF PasswordsOK
  <1> QED BY <1>9, <1>10

\* Every step keeps documents, passwords and times of beginning in agreement.
LEMMA NextDocuments ==
  ASSUME IInv, StampsOK, PasswordsOK, [Next]_vars
  PROVE  StampsOK' /\ PasswordsOK'
  <1>1. /\ TypeOK /\ InFlightOK
        /\ publishers \in Seq(Publisher) /\ Len(publishers) \in Nat
    BY Tables DEF IInv
  <1>2. ASSUME NEW a \in Admins, Provision(a)
        PROVE  StampsOK' /\ PasswordsOK'
    <2> DEFINE p == Len(publishers) + 1
               row == [username |-> req[a].username,
                       password |-> req[a].password, from |-> req[a].request]
    <2>1. row \in Publisher
      <3>1. req[a].request \in 0..Len(requests) /\ Len(requests) \in Nat
        BY <1>1, Tables DEF TypeOK, Request
      <3> QED BY <1>1, <3>1 DEF TypeOK, Request, Publisher
    <2>2. publishers' = Append(publishers, row) /\ row.password = req[a].password
      BY <1>2 DEF Provision
    <2> HIDE DEF row
    <2>3. /\ Len(publishers') = p /\ publishers'[p] = row
          /\ \A q \in 1..Len(publishers) : publishers'[q] = publishers[q]
      BY <1>1, <2>1, <2>2
    <2>4. \A q \in 1..p \ {p} : q \in 1..Len(publishers)
      BY <1>1
    <2>5. Open(a) /\ StoreDocument(a, p) /\ End(a) /\ now' = now
      BY <1>2 DEF Provision, Open
    <2> QED BY <1>1, <2>2, <2>3, <2>4, <2>5, StoreDocuments
  <1>3. ASSUME NEW a \in Admins, Reset(a)
        PROVE  StampsOK' /\ PasswordsOK'
    <2>1. PICK p \in 1..Len(publishers) : p = req[a].publisher
      BY <1>1, <1>3 DEF TypeOK, Request, InFlightOK, Reset
    <2>2. publishers' = [publishers EXCEPT ![p].password = req[a].password]
      BY <1>3, <2>1 DEF Reset, SetPassword
    <2>3. publishers[p] \in Publisher
      BY <1>1
    <2>4. /\ Len(publishers') = Len(publishers)
          /\ publishers'[p].password = req[a].password
          /\ \A q \in 1..Len(publishers) \ {p} : publishers'[q] = publishers[q]
      BY <1>1, <2>2, <2>3 DEF Publisher
    <2>5. Open(a) /\ StoreDocument(a, p) /\ End(a) /\ now' = now
      BY <1>3, <2>1 DEF Reset, Open
    <2> QED BY <1>1, <2>4, <2>5, StoreDocuments
  <1>4. ASSUME NEW a \in Admins, NEW step, NEW q \in Request, Begin(a, step, q)
        PROVE  StampsOK' /\ PasswordsOK'
    BY <1>1, <1>4, BeginDocuments
  <1>5. ASSUME NEW a \in Admins, BeginApproval(a)
        PROVE  StampsOK' /\ PasswordsOK'
    BY <1>1, <1>4, <1>5 DEF BeginApproval, TypeOK
  <1>6. ASSUME NEW a \in Admins, NEW pw \in Passwords,
               \/ \E u \in Usernames : BeginCreation(a, u, pw)
               \/ \E p \in 1..Len(publishers) : BeginReset(a, p, pw)
        PROVE  StampsOK' /\ PasswordsOK'
    <2>1. NoReq \in Request
      BY <1>1, NoReqType
    <2>2. \A u \in Usernames :
             [NoReq EXCEPT !.username = u, !.password = pw] \in Request
      BY <2>1 DEF Request
    <2>3. \A p \in 1..Len(publishers) :
             [NoReq EXCEPT !.publisher = p, !.password = pw] \in Request
      <3>1. \A p \in 1..Len(publishers) : p \in 0..Len(publishers)
        BY <1>1
      <3> QED BY <2>1, <3>1 DEF Request
    <2> QED BY <1>4, <1>6, <2>2, <2>3 DEF BeginCreation, BeginReset
  <1>7. ASSUME UNCHANGED <<publishers, documents, now>>,
               NEW a \in Admins, at'[a] \in {"idle", "approve"},
               \A b \in Admins \ {a} : at'[b] = at[b] /\ req'[b] = req[b]
        PROVE  StampsOK' /\ PasswordsOK'
    BY <1>7, QuietDocuments DEF IInv, Open
  <1>8. ASSUME NEW a \in Admins,
               \/ \E r \in 1..Len(requests), u \in Usernames, pw \in Passwords :
                     CheckRequest(a, r, u, pw)
               \/ UsernameTaken(a) \/ GiveUp(a)
        PROVE  StampsOK' /\ PasswordsOK'
    BY <1>1, <1>7, <1>8
       DEF CheckRequest, UsernameTaken, GiveUp, End, store, TypeOK
  <1>9. ASSUME UNCHANGED <<publishers, documents, now, at, req>>
        PROVE  StampsOK' /\ PasswordsOK'
    BY <1>9, QuietDocuments DEF IInv, Open
  <1>10. ASSUME Restart
         PROVE  StampsOK' /\ PasswordsOK'
    BY <1>10, QuietDocuments DEF IInv, Open, Restart
  <1>11. ASSUME NEW a \in Admins, Administer(a)
         PROVE  StampsOK' /\ PasswordsOK'
    BY <1>2, <1>3, <1>5, <1>6, <1>8, <1>9, <1>11 DEF Administer, Reject
  <1> QED BY <1>9, <1>10, <1>11 DEF Next, RequestAccess, vars, store

\* The demo account, alone at first, has no document.
LEMMA InitDocuments == Init => StampsOK /\ PasswordsOK
  BY DEF Init, StampsOK, PasswordsOK, Open

\* The last document of an account made here, or ever reset, has its password,
\* and is the one re-served unless an earlier transaction stored it last.
THEOREM DocumentsHold == Spec => []StoredDocumentIsCurrent
  <1>1. IInv /\ StampsOK /\ PasswordsOK => StoredDocumentIsCurrent
    <2> SUFFICES ASSUME IInv, StampsOK, PasswordsOK, NEW p \in 1..Len(publishers),
                        publishers[p].username # DemoUsername \/ DocumentsOf(p) # {}
                 PROVE  \E last \in DocumentsOf(p) :
                           /\ \A d \in DocumentsOf(p) : d <= last
                           /\ documents[last].password = publishers[p].password
                           /\ (\A d \in DocumentsOf(p) :
                                  documents[d].created <= documents[last].created)
                                 => Latest(p) = last
      BY DEF StoredDocumentIsCurrent
    <2>1. PICK last \in 1..Len(documents) : Carries(p, last)
      BY DEF PasswordsOK, DocumentsOf
    <2>2. /\ last \in DocumentsOf(p)
          /\ \A d \in DocumentsOf(p) : d <= last
          /\ documents[last].password = publishers[p].password
      BY <2>1 DEF Carries, DocumentsOf
    <2>3. ASSUME \A d \in DocumentsOf(p) :
                    documents[d].created <= documents[last].created
          PROVE  Latest(p) = last
      <3> DEFINE Newest(d) ==
            \A e \in DocumentsOf(p) : documents[e].created <= documents[d].created
      <3>1. Latest(p) \in DocumentsOf(p) /\ Newest(Latest(p))
        BY <2>2, <2>3 DEF Latest
      <3>2. \A d \in DocumentsOf(p) : /\ d \in 1..Len(documents)
                                      /\ documents[d].created \in Nat
        <4>1. \A d \in 1..Len(documents) : documents[d] \in Document
          BY Tables DEF IInv
        <4>2. \A d \in DocumentsOf(p) : d \in 1..Len(documents)
          BY DEF DocumentsOf
        <4> QED BY <4>1, <4>2 DEF Document
      <3>3. documents[Latest(p)].created = documents[last].created
        <4>1. PICK d \in DocumentsOf(p) : d = Latest(p)
          BY <3>1
        <4>2. /\ documents[d].created <= documents[last].created
              /\ documents[last].created <= documents[d].created
          BY <2>2, <2>3, <3>1, <4>1
        <4>3. documents[d].created \in Nat /\ documents[last].created \in Nat
          BY <2>2, <3>2
        <4> QED BY <4>1, <4>2, <4>3
      <3> HIDE DEF Newest
      <3> QED BY <2>2, <3>1, <3>2, <3>3 DEF StampsOK
    <2> QED BY <2>2, <2>3
  <1>2. Spec => [](StampsOK /\ PasswordsOK)
    BY InitDocuments, NextDocuments, Invariance, PTL DEF Spec
  <1> QED BY <1>1, <1>2, Invariance, PTL
=============================================================================
