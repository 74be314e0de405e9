------------------------- MODULE AdminConsole_proofs -------------------------
(***************************************************************************)
(* What holds of AdminConsole for any accounts and applicants, and however *)
(* many requests the administrator sends.                                  *)
(***************************************************************************)
EXTENDS AdminConsole, FiniteSetTheorems, TLAPS

-----------------------------------------------------------------------------
\* The inductive invariant.

Numbers == 1..Len(sent)

\* Whom an operation, of a request or of a form, is about.
About(op, of) ==
    /\ op \in {"wallet", "reset", "revoke", "link"} \union Toggles => of \in Accounts
    /\ op \in {"approve", "reject"} => of \in Applicants
    /\ op \in {"create", "load"} => of = None

NamesOK ==
    /\ form.kind = "none" => form = NoForm
    /\ About(form.kind, form.of)
    /\ \A n \in Numbers : About(sent[n].op, sent[n].of)

\* A form is not younger than the last request nor older than its page.
CountOK ==
    /\ Len(sent) <= MaxSent
    /\ form.opened <= Len(sent)
    /\ form.kind # "none" => since <= form.opened

\* Request r has no answer yet; the secret it is about.
Waits(r) == r.stage \in {"sent", "done", "refused"}
Secret(r) == <<r.op, r.of>>

\* A link under way is of this page and its row is the disabled one.
LinksOK ==
    \A n \in Numbers :
        Waits(sent[n]) /\ sent[n].op = "link" =>
           \/ Secret(sent[n]) \in loose
           \/ busy = sent[n].of /\ since < n

\* At most one request for a secret of an account is under way.
AloneOK ==
    \A m, n \in Numbers :
        /\ Waits(sent[m]) /\ Waits(sent[n])
        /\ sent[n].op \in Secrets
        /\ Secret(sent[m]) = Secret(sent[n])
        => m = n \/ Secret(sent[n]) \in loose

\* A secret that was made and not yet received is the one in force,
DoneOK ==
    \A n \in Numbers :
        sent[n].stage = "done" /\ sent[n].op \in Secrets =>
           Secret(sent[n]) \in loose \/ issued[sent[n].op][sent[n].of] = n

\* and one in force that was not received is of that kind.
Due(k, a) ==
    \E n \in Numbers :
        /\ issued[k][a] = n
        /\ sent[n].stage = "done"
        /\ sent[n].op = k
        /\ sent[n].of = a

HeldOK ==
    \A k \in Secrets, a \in Accounts :
        held[k][a] = issued[k][a] \/ <<k, a>> \in loose \/ Due(k, a)

\* The request busyId belongs to, and the one a form waits for.
Holds(n, row) ==
    /\ since < n
    /\ sent[n].of = row
    /\ sent[n].op \in {"link", "revoke"}
    /\ sent[n].stage # "over"
BusyOK == busy # None => \E n \in Numbers : Holds(n, busy)

Awaited(n) ==
    /\ form.opened < n
    /\ sent[n].op = form.kind
    /\ sent[n].of = form.of
    /\ Waits(sent[n])
LoadingOK == form.loading => \E n \in Numbers : Awaited(n)

IInv ==
    /\ TypeOK
    /\ NamesOK
    /\ CountOK
    /\ LinksOK
    /\ AloneOK
    /\ DoneOK
    /\ HeldOK
    /\ BusyOK
    /\ LoadingOK

-----------------------------------------------------------------------------
\* The operations, the pages and their forms.

LEMMA FormsAre ==
  /\ DOMAIN Forms = {"publishers", "requests", "devices"}
  /\ Forms["publishers"] = {"create", "wallet", "reset"}
  /\ Forms["requests"] = {"approve"}
  /\ Forms["devices"] = {"revoke"}
  BY DEF Forms

LEMMA OpsAre ==
  Ops = {"load", "link", "reject", "suspend", "reactivate", "create", "wallet",
         "reset", "approve", "revoke"}
  <1>1. UNION {Forms[p] : p \in DOMAIN Forms} =
          {"create", "wallet", "reset", "approve", "revoke"}
    <2>1. \A x : x \in UNION {Forms[p] : p \in DOMAIN Forms}
                   <=> \E p \in DOMAIN Forms : x \in Forms[p]
      OBVIOUS
    <2> QED BY <2>1, FormsAre
  <1> QED BY <1>1 DEF Ops, Toggles

Stages == {"sent", "done", "refused", "asked", "read", "over"}

\* A request as it is sent.
LEMMA AskType ==
  ASSUME NEW op \in Ops, NEW of \in Names, NEW stage \in Stages
  PROVE  /\ Ask(op, of, stage) \in Request
         /\ Ask(op, of, stage).op = op
         /\ Ask(op, of, stage).of = of
         /\ Ask(op, of, stage).stage = stage
  BY DEF Ask, Request, Rows, NoRows, Stages

\* One more request.
Adds(op, of, stage) ==
    /\ sent' \in Seq(Request)
    /\ Len(sent') = Len(sent) + 1
    /\ \A m \in Numbers : sent'[m] = sent[m]
    /\ sent'[Len(sent) + 1].op = op
    /\ sent'[Len(sent) + 1].of = of
    /\ sent'[Len(sent) + 1].stage = stage

LEMMA AppendAdds ==
  ASSUME TypeOK, NEW op \in Ops, NEW of \in Names, NEW stage \in Stages,
         sent' = Append(sent, Ask(op, of, stage))
  PROVE  Adds(op, of, stage)
  <1> DEFINE r == Ask(op, of, stage)
  <1>1. r \in Request /\ r.op = op /\ r.of = of /\ r.stage = stage
    BY AskType
  <1>2. sent \in Seq(Request) /\ sent' = Append(sent, r)
    BY DEF TypeOK
  <1> HIDE DEF r
  <1> QED BY <1>1, <1>2 DEF Adds, Numbers

\* Request n moves on to another stage.
Moves(n, stage) ==
    /\ n \in Numbers
    /\ sent' \in Seq(Request)
    /\ Len(sent') = Len(sent)
    /\ \A m \in Numbers \ {n} : sent'[m] = sent[m]
    /\ sent'[n].op = sent[n].op
    /\ sent'[n].of = sent[n].of
    /\ sent'[n].stage = stage

LEMMA StageMoves ==
  ASSUME TypeOK, NEW n \in Numbers, NEW stage \in Stages, sent' = Stage(n, stage)
  PROVE  Moves(n, stage)
  <1>1. sent \in Seq(Request) /\ sent[n] \in Request
    BY DEF TypeOK, Numbers
  <1> DEFINE r == [sent[n] EXCEPT !.stage = stage]
  <1>2. sent' = [sent EXCEPT ![n] = r]
    BY DEF Stage
  <1>3. r \in Request /\ r.op = sent[n].op /\ r.of = sent[n].of /\ r.stage = stage
    BY <1>1 DEF Request, Stages
  <1> HIDE DEF r
  <1> QED BY <1>1, <1>2, <1>3 DEF Moves, Numbers

LEMMA LoadMoves ==
  ASSUME TypeOK, NEW n \in Numbers, NEW stage \in Stages, NEW got \in Rows,
         sent' = [sent EXCEPT ![n].stage = stage, ![n].got = got]
  PROVE  Moves(n, stage)
  <1>1. sent \in Seq(Request) /\ sent[n] \in Request
    BY DEF TypeOK, Numbers
  <1> DEFINE r == [sent[n] EXCEPT !.stage = stage, !.got = got]
  <1>2. sent' = [sent EXCEPT ![n] = r]
    BY <1>1 DEF Numbers
  <1>3. r \in Request /\ r.op = sent[n].op /\ r.of = sent[n].of /\ r.stage = stage
    BY <1>1 DEF Request, Stages
  <1> HIDE DEF r
  <1> QED BY <1>1, <1>2, <1>3, SMTT(30) DEF Moves, Numbers

-----------------------------------------------------------------------------
\* Requests that overlap.

\* A link under way whose row is not the disabled one.
LEMMA OverlapLink ==
  ASSUME NEW s \in Seq(Request), NEW row, NEW n \in 1..Len(s), Waits(s[n]),
         s[n].op = "link", s[n].of \in Accounts, row # s[n].of
  PROVE  Secret(s[n]) \in Overlapping(s, row)
  <1>1. n \in InFlight(s, "link", s[n].of)
    BY DEF InFlight, Waits
  <1> QED BY <1>1 DEF Overlapping, Secret

\* Two passwords for one account under way.
LEMMA OverlapReset ==
  ASSUME NEW s \in Seq(Request), NEW row, NEW m \in 1..Len(s),
         NEW n \in 1..Len(s), m # n, Waits(s[m]), Waits(s[n]),
         s[n].op = "reset", s[n].of \in Accounts, Secret(s[m]) = Secret(s[n])
  PROVE  Secret(s[n]) \in Overlapping(s, row)
  <1> DEFINE S == InFlight(s, "reset", s[n].of)
  <1>1. m \in S /\ n \in S
    BY DEF InFlight, Waits, Secret
  <1>2. IsFiniteSet(S)
    <2>1. S \subseteq 1..Len(s)
      BY DEF InFlight
    <2>2. IsFiniteSet(1..Len(s))
      BY FS_Interval
    <2> QED BY <2>1, <2>2, FS_Subset
  <1> HIDE DEF S
  <1>3. IsFiniteSet(S \ {m}) /\ Cardinality(S \ {m}) = Cardinality(S) - 1
    BY <1>1, <1>2, FS_RemoveElement
  <1>4. Cardinality(S \ {m}) # 0 /\ Cardinality(S \ {m}) \in Nat
        /\ Cardinality(S) \in Nat
    <2>1. n \in S \ {m}
      BY <1>1
    <2> QED BY <1>2, <1>3, <2>1, FS_EmptySet, FS_CardinalityType
  <1>5. Cardinality(S) > 1
    BY <1>3, <1>4
  <1> QED BY <1>5 DEF Overlapping, Secret, S

-----------------------------------------------------------------------------
\* The secrets: who waits for one, and which is in force.

SecretsOK == LinksOK /\ AloneOK /\ DoneOK /\ HeldOK

\* The steps that send a request record what overlaps from then on.
LEMMA AddedSecrets ==
  ASSUME IInv, NEW op \in Ops, NEW of \in Names, NEW stage \in Stages,
         Adds(op, of, stage), stage # "done", About(op, of),
         op = "link" => busy' = of /\ since' = since /\ busy # of,
         loose' = loose \union Overlapping(sent', busy'),
         since' = since \/ busy' = None,
         UNCHANGED <<issued, held>>
  PROVE  SecretsOK'
  <1> DEFINE new == Len(sent) + 1
  <1>1. /\ Numbers' = Numbers \union {new} /\ new \notin Numbers
        /\ sent' \in Seq(Request) /\ Numbers' = 1..Len(sent')
        /\ \A m \in Numbers : sent'[m] = sent[m]
        /\ sent'[new].op = op /\ sent'[new].of = of /\ sent'[new].stage = stage
    BY DEF IInv, TypeOK, Adds, Numbers
  <1>2. since \in Int /\ since < new
    BY DEF IInv, TypeOK
  <1> HIDE DEF new
  <1>3. ASSUME NEW n \in Numbers', sent'[n].op \in Secrets
        PROVE  sent'[n].of \in Accounts
    BY <1>1, <1>3 DEF IInv, NamesOK, About, Secrets
  <1>4. None \notin Accounts
    BY NamesAssumption
  <1>5. ASSUME NEW n \in Numbers', Waits(sent'[n]), sent'[n].op = "link"
        PROVE  Secret(sent'[n]) \in loose' \/ (busy' = sent'[n].of /\ since' < n)
    <2>1. sent'[n].of \in Accounts
      BY <1>3, <1>5 DEF Secrets
    <2>2. CASE busy' # sent'[n].of
      BY <1>1, <1>5, <2>1, <2>2, OverlapLink
    <2>3. CASE busy' = sent'[n].of /\ n \in Numbers
      <3>1. since' = since
        BY <1>4, <2>1, <2>3
      <3>2. Secret(sent[n]) \in loose \/ since < n
        BY <1>1, <1>5, <2>3 DEF IInv, LinksOK
      <3> QED BY <1>1, <2>3, <3>1, <3>2
    <2>4. CASE n = new
      BY <1>1, <1>2, <1>5, <2>4
    <2> QED BY <1>1, <2>2, <2>3, <2>4
  <1>6. LinksOK'
    BY <1>5 DEF LinksOK
  <1>7. ASSUME NEW m \in Numbers', NEW n \in Numbers', Waits(sent'[m]),
               Waits(sent'[n]), sent'[n].op \in Secrets,
               Secret(sent'[m]) = Secret(sent'[n]), m # n
        PROVE  Secret(sent'[n]) \in loose'
    <2>1. sent'[n].of \in Accounts
      BY <1>3, <1>7
    <2>2. CASE sent'[n].op = "reset"
      BY <1>1, <1>7, <2>1, <2>2, OverlapReset
    <2>3. CASE sent'[n].op = "link"
      <3>1. sent'[m].op = "link" /\ sent'[m].of = sent'[n].of
        BY <1>7, <2>3 DEF Secret
      <3>2. PICK old \in Numbers : old \in {m, n}
        BY <1>1, <1>7
      <3>3. /\ Waits(sent[old]) /\ sent[old].op = "link"
            /\ sent[old].of = sent'[n].of /\ Secret(sent[old]) = Secret(sent'[n])
        BY <1>1, <1>7, <2>3, <3>1, <3>2
      <3>4. CASE m \in Numbers /\ n \in Numbers
        <4>1. sent'[m] = sent[m] /\ sent'[n] = sent[n]
          BY <1>1, <3>4
        <4> QED BY <1>7, <3>4, <4>1 DEF IInv, AloneOK
      <3>5. CASE m = new \/ n = new
        <4>1. op = "link" /\ of = sent'[n].of
          BY <1>1, <2>3, <3>1, <3>5
        <4>2. busy # sent[old].of
          BY <3>3, <4>1
        <4> QED BY <3>2, <3>3, <4>2 DEF IInv, LinksOK
      <3> QED BY <1>1, <3>4, <3>5
    <2> QED BY <1>7, <2>2, <2>3 DEF Secrets
  <1>8. AloneOK'
    BY <1>7 DEF AloneOK
  <1>9. DoneOK'
    <2> SUFFICES ASSUME NEW n \in Numbers', sent'[n].stage = "done",
                        sent'[n].op \in Secrets
                 PROVE  \/ Secret(sent'[n]) \in loose'
                        \/ issued'[sent'[n].op][sent'[n].of] = n
      BY DEF DoneOK
    <2>1. n \in Numbers
      BY <1>1
    <2> QED BY <1>1, <2>1 DEF IInv, DoneOK
  <1>10. HeldOK'
    <2> SUFFICES ASSUME NEW k \in Secrets, NEW a \in Accounts
                 PROVE  held'[k][a] = issued'[k][a] \/ <<k, a>> \in loose' \/ Due(k, a)'
      BY DEF HeldOK
    <2>1. CASE Due(k, a)
      BY <1>1, <2>1 DEF Due
    <2> QED BY <2>1 DEF IInv, HeldOK
  <1> QED BY <1>6, <1>8, <1>9, <1>10 DEF SecretsOK

\* The steps that end a request without an answer for the secrets, and those
\* of the load that follows.
LEMMA EndedSecrets ==
  ASSUME IInv, NEW n \in Numbers, NEW stage \in Stages, Moves(n, stage),
         stage \notin {"sent", "done", "refused"},
         sent[n].stage = "done" /\ sent[n].op \in Secrets => Secret(sent[n]) \in loose',
         loose \subseteq loose',
         busy' = busy \/ Overlapping(sent', busy') \subseteq loose',
         UNCHANGED <<since, issued, held>>
  PROVE  SecretsOK'
  <1>1. /\ Numbers' = Numbers
        /\ sent' \in Seq(Request) /\ Numbers' = 1..Len(sent')
        /\ \A m \in Numbers : sent'[m].op = sent[m].op /\ sent'[m].of = sent[m].of
        /\ \A m \in Numbers \ {n} : sent'[m] = sent[m]
        /\ ~Waits(sent'[n]) /\ sent'[n].stage # "done"
    BY DEF Moves, Numbers, Waits
  <1>2. \A m \in Numbers : Waits(sent'[m]) => m # n /\ sent'[m] = sent[m]
    BY <1>1
  <1>3. LinksOK'
    <2> SUFFICES ASSUME NEW m \in Numbers, Waits(sent'[m]), sent'[m].op = "link"
                 PROVE  Secret(sent'[m]) \in loose' \/ (busy' = sent'[m].of /\ since' < m)
      BY <1>1 DEF LinksOK
    <2>1. sent'[m] = sent[m]
      BY <1>2
    <2>2. Secret(sent[m]) \in loose \/ (busy = sent[m].of /\ since < m)
      BY <2>1 DEF IInv, LinksOK
    <2>3. CASE busy' # sent'[m].of /\ Overlapping(sent', busy') \subseteq loose'
      <3>1. sent'[m].of \in Accounts
        BY <2>1 DEF IInv, NamesOK, About
      <3> QED BY <1>1, <2>3, <3>1, OverlapLink
    <2> QED BY <2>1, <2>2, <2>3
  <1>4. AloneOK'
    <2> SUFFICES ASSUME NEW m \in Numbers, NEW q \in Numbers, Waits(sent'[m]),
                        Waits(sent'[q]), sent'[q].op \in Secrets,
                        Secret(sent'[m]) = Secret(sent'[q])
                 PROVE  m = q \/ Secret(sent'[q]) \in loose'
      BY <1>1 DEF AloneOK
    <2>1. sent'[m] = sent[m] /\ sent'[q] = sent[q]
      BY <1>2
    <2> QED BY <2>1 DEF IInv, AloneOK
  <1>5. DoneOK'
    <2> SUFFICES ASSUME NEW m \in Numbers, sent'[m].stage = "done",
                        sent'[m].op \in Secrets
                 PROVE  \/ Secret(sent'[m]) \in loose'
                        \/ issued'[sent'[m].op][sent'[m].of] = m
      BY <1>1 DEF DoneOK
    <2>1. sent'[m] = sent[m]
      BY <1>1
    <2> QED BY <2>1 DEF IInv, DoneOK
  <1>6. HeldOK'
    <2> SUFFICES ASSUME NEW k \in Secrets, NEW a \in Accounts
                 PROVE  held'[k][a] = issued'[k][a] \/ <<k, a>> \in loose' \/ Due(k, a)'
      BY DEF HeldOK
    <2>1. CASE Due(k, a)
      <3>1. PICK m \in Numbers : /\ issued[k][a] = m /\ sent[m].stage = "done"
                                 /\ sent[m].op = k /\ sent[m].of = a
        BY <2>1 DEF Due
      <3>2. CASE m = n
        BY <3>1, <3>2 DEF Secret
      <3>3. CASE m # n
        BY <1>1, <3>1, <3>3 DEF Due
      <3> QED BY <3>2, <3>3
    <2> QED BY <2>1 DEF IInv, HeldOK
  <1> QED BY <1>3, <1>4, <1>5, <1>6 DEF SecretsOK

\* Nothing about the requests, the secrets or the disabled row.
LEMMA StillSecrets ==
  ASSUME IInv, UNCHANGED <<since, busy, issued, held, sent, loose>>
  PROVE  SecretsOK'
  <1>1. Numbers' = Numbers
    BY DEF Numbers
  <1>2. LinksOK'
    BY <1>1 DEF IInv, LinksOK
  <1>3. AloneOK'
    BY <1>1 DEF IInv, AloneOK
  <1>4. DoneOK'
    BY <1>1 DEF IInv, DoneOK
  <1>5. HeldOK'
    <2>1. \A k \in Secrets, a \in Accounts : Due(k, a) => Due(k, a)'
      BY <1>1 DEF Due
    <2> QED BY <2>1 DEF IInv, HeldOK
  <1> QED BY <1>2, <1>3, <1>4, <1>5 DEF SecretsOK

\* The handler of the server makes a secret: it is in force, and due.
LEMMA HandleSecrets ==
  ASSUME IInv, NEW n \in Numbers, Handle(n)
  PROVE  SecretsOK'
  <1> DEFINE op == sent[n].op
             of == sent[n].of
  <1>1. PICK stage \in {"done", "refused"} : sent' = Stage(n, stage)
    BY DEF Handle
  <1>2. Moves(n, stage)
    BY <1>1, StageMoves DEF IInv, Stages
  <1>3. /\ Numbers' = Numbers
        /\ \A m \in Numbers \ {n} : sent'[m] = sent[m]
        /\ \A m \in Numbers : sent'[m].op = sent[m].op /\ sent'[m].of = sent[m].of
        /\ sent[n].stage = "sent" /\ sent'[n].stage = stage
    BY <1>1, <1>2 DEF Moves, Numbers, Handle
  <1>4. UNCHANGED <<since, busy, held, loose>>
    BY DEF Handle, view
  <1>5. \A m \in Numbers : /\ Waits(sent'[m]) => Waits(sent[m])
                           /\ Secret(sent'[m]) = Secret(sent[m])
    BY <1>3 DEF Waits, Secret
  <1>6. \/ issued' = issued /\ (stage = "refused" \/ op \notin Secrets)
        \/ op \in Secrets /\ issued' = [issued EXCEPT ![op][of] = n] /\ stage = "done"
    <2>1. CASE Accepts(n) /\ stage = "done"
      BY <2>1, <1>3 DEF Handle, server, Stage
    <2>2. CASE stage = "refused"
      <3>1. sent' # Stage(n, "done")
        <4>1. sent \in Seq(Request)
          BY DEF IInv, TypeOK
        <4>2. Stage(n, "done")[n].stage = "done"
          BY <4>1 DEF Stage, Numbers
        <4> QED BY <1>3, <2>2, <4>2
      <3> QED BY <2>2, <3>1 DEF Handle, server
    <2>3. CASE ~Accepts(n) /\ stage = "done"
      <3>1. sent' # Stage(n, "refused")
        <4>1. sent \in Seq(Request)
          BY DEF IInv, TypeOK
        <4>2. Stage(n, "refused")[n].stage = "refused"
          BY <4>1 DEF Stage, Numbers
        <4> QED BY <1>3, <2>3, <4>2
      <3> QED BY <2>3, <3>1 DEF Handle
    <2> QED BY <1>1, <2>1, <2>2, <2>3
  <1>7. \A k \in Secrets, a \in Accounts :
           issued'[k][a] = IF stage = "done" /\ op = k /\ of = a THEN n
                           ELSE issued[k][a]
    <2>1. op \in Secrets => of \in Accounts
      BY DEF IInv, NamesOK, About, Secrets
    <2>2. issued \in [Secrets -> [Accounts -> 0..Len(sent)]]
      BY DEF IInv, TypeOK
    <2> HIDE DEF op, of
    <2>3. CASE issued' = issued /\ (stage = "refused" \/ op \notin Secrets)
      BY <2>3
    <2>4. CASE op \in Secrets /\ issued' = [issued EXCEPT ![op][of] = n]
               /\ stage = "done"
      BY <2>1, <2>2, <2>4
    <2> QED BY <1>6, <2>3, <2>4
  <1>8. LinksOK'
    <2> SUFFICES ASSUME NEW m \in Numbers, Waits(sent'[m]), sent'[m].op = "link"
                 PROVE  Secret(sent'[m]) \in loose' \/ (busy' = sent'[m].of /\ since' < m)
      BY <1>3 DEF LinksOK
    <2> QED BY <1>3, <1>4, <1>5 DEF IInv, LinksOK
  <1>9. AloneOK'
    <2> SUFFICES ASSUME NEW m \in Numbers, NEW q \in Numbers, Waits(sent'[m]),
                        Waits(sent'[q]), sent'[q].op \in Secrets,
                        Secret(sent'[m]) = Secret(sent'[q])
                 PROVE  m = q \/ Secret(sent'[q]) \in loose'
      BY <1>3 DEF AloneOK
    <2> QED BY <1>3, <1>4, <1>5 DEF IInv, AloneOK
  <1>10. DoneOK'
    <2> SUFFICES ASSUME NEW m \in Numbers, sent'[m].stage = "done",
                        sent'[m].op \in Secrets
                 PROVE  \/ Secret(sent'[m]) \in loose'
                        \/ issued'[sent'[m].op][sent'[m].of] = m
      BY <1>3 DEF DoneOK
    <2>1. sent[m].op \in Secrets /\ sent[m].of \in Accounts
      BY <1>3 DEF IInv, NamesOK, About, Secrets
    <2>2. CASE m = n
      BY <1>3, <1>7, <2>1, <2>2
    <2>3. CASE m # n
      <3>1. sent[m].stage = "done" /\ Waits(sent[m]) /\ Waits(sent[n])
        BY <1>3, <2>3 DEF Waits
      <3>2. CASE op = sent[m].op /\ of = sent[m].of
        <4>1. Secret(sent[n]) = Secret(sent[m])
          BY <3>2 DEF Secret
        <4> QED BY <1>4, <1>5, <2>1, <2>3, <3>1, <4>1 DEF IInv, AloneOK
      <3>3. CASE ~(op = sent[m].op /\ of = sent[m].of)
        <4>1. issued'[sent[m].op][sent[m].of] = issued[sent[m].op][sent[m].of]
          BY <1>7, <2>1, <3>3
        <4> QED BY <1>3, <1>4, <1>5, <2>1, <3>1, <4>1 DEF IInv, DoneOK
      <3> QED BY <3>2, <3>3
    <2> QED BY <2>2, <2>3
  <1>11. HeldOK'
    <2> SUFFICES ASSUME NEW k \in Secrets, NEW a \in Accounts
                 PROVE  held'[k][a] = issued'[k][a] \/ <<k, a>> \in loose' \/ Due(k, a)'
      BY DEF HeldOK
    <2>1. CASE stage = "done" /\ op = k /\ of = a
      <3>1. issued'[k][a] = n
        BY <1>7, <2>1
      <3> QED BY <1>3, <2>1, <3>1 DEF Due
    <2>2. CASE ~(stage = "done" /\ op = k /\ of = a)
      <3>1. issued'[k][a] = issued[k][a]
        BY <1>7, <2>2
      <3>2. Due(k, a) => Due(k, a)'
        BY <1>3, <3>1 DEF Due
      <3> QED BY <1>4, <3>1, <3>2 DEF IInv, HeldOK
    <2> QED BY <2>1, <2>2
  <1> QED BY <1>8, <1>9, <1>10, <1>11 DEF SecretsOK

\* An answer takes an account off the exceptions only when it brings the
\* secret in force and no other request for it is under way.
LEMMA AnswerSecrets ==
  ASSUME IInv, NEW n \in Numbers, Answer(n)
  PROVE  SecretsOK'
  <1> DEFINE op == sent[n].op
             of == sent[n].of
             last == Received(n) /\ issued[op][of] = n
                       /\ InFlight(Stage(n, "asked"), op, of) = {}
  <1>1. Moves(n, "asked") /\ sent' = Stage(n, "asked")
    BY StageMoves DEF Answer, IInv, Stages
  <1>2. /\ Numbers' = Numbers
        /\ \A m \in Numbers \ {n} : sent'[m] = sent[m]
        /\ \A m \in Numbers : sent'[m].op = sent[m].op /\ sent'[m].of = sent[m].of
        /\ sent[n].stage = "done" /\ ~Waits(sent'[n]) /\ sent'[n].stage # "done"
    BY <1>1 DEF Moves, Numbers, Answer, Waits
  <1>3. /\ UNCHANGED <<since, busy, issued>>
        /\ held' = IF Received(n) THEN [held EXCEPT ![op][of] = n] ELSE held
        /\ loose' = IF last THEN loose \ {<<op, of>>} ELSE loose
    BY <1>1 DEF Answer, ShowRequests, server
  <1>4. \A m \in Numbers : Waits(sent'[m]) => m # n /\ sent'[m] = sent[m]
    BY <1>2
  <1>5. ASSUME NEW m \in Numbers, Waits(sent'[m])
        PROVE  Secret(sent'[m]) \in loose => Secret(sent'[m]) \in loose'
    <2>1. CASE last /\ Secret(sent'[m]) = <<op, of>>
      <3>1. sent'[m].op = op /\ sent'[m].of = of
        BY <2>1 DEF Secret
      <3>2. m \in 1..Len(sent') /\ sent'[m].stage \in {"sent", "done", "refused"}
        BY <1>2, <1>5 DEF Waits, Numbers
      <3>3. m \in InFlight(sent', op, of)
        BY <3>1, <3>2 DEF InFlight
      <3> QED BY <1>1, <2>1, <3>3
    <2>2. CASE ~(last /\ Secret(sent'[m]) = <<op, of>>)
      BY <1>3, <2>2
    <2> QED BY <2>1, <2>2
  <1> HIDE DEF last
  <1>6. LinksOK'
    <2> SUFFICES ASSUME NEW m \in Numbers, Waits(sent'[m]), sent'[m].op = "link"
                 PROVE  Secret(sent'[m]) \in loose' \/ (busy' = sent'[m].of /\ since' < m)
      BY <1>2 DEF LinksOK
    <2> QED BY <1>3, <1>4, <1>5 DEF IInv, LinksOK
  <1>7. AloneOK'
    <2> SUFFICES ASSUME NEW m \in Numbers, NEW q \in Numbers, Waits(sent'[m]),
                        Waits(sent'[q]), sent'[q].op \in Secrets,
                        Secret(sent'[m]) = Secret(sent'[q])
                 PROVE  m = q \/ Secret(sent'[q]) \in loose'
      BY <1>2 DEF AloneOK
    <2> QED BY <1>4, <1>5 DEF IInv, AloneOK
  <1>8. DoneOK'
    <2> SUFFICES ASSUME NEW m \in Numbers, sent'[m].stage = "done",
                        sent'[m].op \in Secrets
                 PROVE  \/ Secret(sent'[m]) \in loose'
                        \/ issued'[sent'[m].op][sent'[m].of] = m
      BY <1>2 DEF DoneOK
    <2>1. Waits(sent'[m])
      BY DEF Waits
    <2> QED BY <1>3, <1>4, <1>5, <2>1 DEF IInv, DoneOK
  <1>9. HeldOK'
    <2> SUFFICES ASSUME NEW k \in Secrets, NEW a \in Accounts
                 PROVE  held'[k][a] = issued'[k][a] \/ <<k, a>> \in loose' \/ Due(k, a)'
      BY DEF HeldOK
    <2>1. held \in [Secrets -> [Accounts -> 0..Len(sent)]]
      BY DEF IInv, TypeOK
    <2>2. CASE op = k /\ of = a
      <3>1. Secret(sent[n]) = <<k, a>>
        BY <2>2 DEF Secret
      <3>2. <<k, a>> \in loose \/ issued[k][a] = n
        BY <1>2, <2>2, <3>1 DEF IInv, DoneOK
      <3>3. CASE ~Received(n)
        <4>1. loose' = loose
          BY <1>3, <3>3 DEF last
        <4>2. op = "link" /\ n <= since
          BY <2>2, <3>3 DEF Received, Secrets, Shows, IInv, TypeOK, Numbers
        <4>3. Waits(sent[n]) /\ ~(since < n)
          BY <1>2, <4>2 DEF Waits, IInv, TypeOK, Numbers
        <4> QED BY <3>1, <4>1, <4>2, <4>3 DEF IInv, LinksOK
      <3>4. CASE Received(n) /\ issued[k][a] = n
        <4>1. held'[k][a] = n
          <5> HIDE DEF op, of
          <5> QED BY <1>3, <2>1, <2>2, <3>4
        <4> QED BY <1>3, <3>4, <4>1
      <3>5. CASE Received(n) /\ issued[k][a] # n
        <4>1. loose' = loose
          BY <1>3, <2>2, <3>5 DEF last
        <4> QED BY <3>2, <3>5, <4>1
      <3> QED BY <3>3, <3>4, <3>5
    <2>3. CASE ~(op = k /\ of = a)
      <3>1. held'[k][a] = held[k][a]
        <4> HIDE DEF op, of
        <4> QED BY <1>3, <2>1, <2>3
      <3>2. <<k, a>> \in loose => <<k, a>> \in loose'
        BY <1>3, <2>3
      <3>3. Due(k, a) => Due(k, a)'
        <4> SUFFICES ASSUME NEW m \in Numbers, issued[k][a] = m,
                            sent[m].stage = "done", sent[m].op = k, sent[m].of = a
                     PROVE  Due(k, a)'
          BY DEF Due
        <4>1. m # n
          BY <2>3
        <4> QED BY <1>2, <1>3, <4>1 DEF Due
      <3> QED BY <1>3, <3>1, <3>2, <3>3 DEF IInv, HeldOK
    <2> QED BY <2>2, <2>3
  <1> QED BY <1>6, <1>7, <1>8, <1>9 DEF SecretsOK

-----------------------------------------------------------------------------
\* The disabled row, and the form that waits.

\* A request is sent: busyId is kept, left behind with its page, or set to the
\* row of the new request.
LEMMA AddedBusy ==
  ASSUME IInv, NEW op \in Ops, NEW of \in Names, NEW stage \in Stages,
         Adds(op, of, stage), stage # "over",
         \/ busy' = None
         \/ since' = since /\ busy' = busy
         \/ since' = since /\ busy' = of /\ op \in {"link", "revoke"}
  PROVE  BusyOK'
  <1>0. PICK new : new = Len(sent) + 1
    OBVIOUS
  <1>1. /\ Numbers' = Numbers \union {new}
        /\ \A m \in Numbers : sent'[m] = sent[m]
        /\ sent'[new].op = op /\ sent'[new].of = of /\ sent'[new].stage = stage
    BY <1>0 DEF IInv, TypeOK, Adds, Numbers
  <1>2. since \in Int /\ since < new
    BY <1>0 DEF IInv, TypeOK
  <1>3. CASE busy' = None
    BY <1>3 DEF BusyOK
  <1>4. CASE since' = since /\ busy' = of /\ op \in {"link", "revoke"}
    <2>1. Holds(new, busy)'
      BY <1>1, <1>2, <1>4 DEF Holds
    <2> QED BY <1>1, <2>1 DEF BusyOK
  <1>5. CASE since' = since /\ busy' = busy /\ busy # None
    <2>1. PICK m \in Numbers : Holds(m, busy)
      BY <1>5 DEF IInv, BusyOK
    <2>2. Holds(m, busy)'
      BY <1>1, <1>5, <2>1 DEF Holds
    <2> QED BY <1>1, <2>2 DEF BusyOK
  <1> QED BY <1>3, <1>4, <1>5

\* A request moves on: busyId goes when the one it belongs to is over.
LEMMA MovedBusy ==
  ASSUME IInv, NEW n \in Numbers, NEW stage \in Stages, Moves(n, stage),
         since' = since, busy' \in {busy, None},
         busy' = busy /\ Holds(n, busy) => stage # "over"
  PROVE  BusyOK'
  <1>1. /\ Numbers' = Numbers
        /\ \A m \in Numbers : sent'[m].op = sent[m].op /\ sent'[m].of = sent[m].of
        /\ \A m \in Numbers \ {n} : sent'[m] = sent[m]
        /\ sent'[n].stage = stage
    BY DEF Moves, Numbers
  <1>2. CASE busy' = None
    BY <1>2 DEF BusyOK
  <1>3. CASE busy' = busy /\ busy # None
    <2>1. PICK m \in Numbers : Holds(m, busy)
      BY <1>3 DEF IInv, BusyOK
    <2>2. Holds(m, busy)'
      BY <1>1, <1>3, <2>1 DEF Holds
    <2> QED BY <1>1, <2>2 DEF BusyOK
  <1> QED BY <1>2, <1>3

\* A request is sent: its form waits for it, or the form of before for its own.
LEMMA AddedLoading ==
  ASSUME IInv, NEW op \in Ops, NEW of \in Names, NEW stage \in Stages,
         Adds(op, of, stage),
         \/ ~form'.loading
         \/ form' = form
         \/ /\ form'.kind = op /\ form'.of = of /\ form'.opened = form.opened
            /\ stage = "sent"
  PROVE  LoadingOK'
  <1>0. PICK new : new = Len(sent) + 1
    OBVIOUS
  <1>1. /\ Numbers' = Numbers \union {new}
        /\ \A m \in Numbers : sent'[m] = sent[m]
        /\ sent'[new].op = op /\ sent'[new].of = of /\ sent'[new].stage = stage
    BY <1>0 DEF IInv, TypeOK, Adds, Numbers
  <1>2. form.opened < new
    BY <1>0 DEF IInv, TypeOK, CountOK, Form
  <1>3. CASE ~form'.loading
    BY <1>3 DEF LoadingOK
  <1>4. CASE form' = form /\ form.loading
    <2>1. PICK m \in Numbers : Awaited(m)
      BY <1>4 DEF IInv, LoadingOK
    <2>2. Awaited(m)'
      BY <1>1, <1>4, <2>1 DEF Awaited
    <2> QED BY <1>1, <2>2 DEF LoadingOK
  <1>5. CASE /\ form'.kind = op /\ form'.of = of /\ form'.opened = form.opened
             /\ stage = "sent"
    <2>1. Awaited(new)'
      BY <1>1, <1>2, <1>5 DEF Awaited, Waits
    <2> QED BY <1>1, <2>1 DEF LoadingOK
  <1> QED BY <1>3, <1>4, <1>5

\* A request moves on: a form stops waiting when the one it waits for ends.
LEMMA MovedLoading ==
  ASSUME IInv, NEW n \in Numbers, NEW stage \in Stages, Moves(n, stage),
         form' = form \/ ~form'.loading,
         form' = form /\ form.loading /\ Awaited(n) =>
            stage \in {"sent", "done", "refused"}
  PROVE  LoadingOK'
  <1>1. /\ Numbers' = Numbers
        /\ \A m \in Numbers : sent'[m].op = sent[m].op /\ sent'[m].of = sent[m].of
        /\ \A m \in Numbers \ {n} : sent'[m] = sent[m]
        /\ sent'[n].stage = stage
    BY DEF Moves, Numbers
  <1>2. CASE ~form'.loading
    BY <1>2 DEF LoadingOK
  <1>3. CASE form' = form /\ form.loading
    <2>1. PICK m \in Numbers : Awaited(m)
      BY <1>3 DEF IInv, LoadingOK
    <2>2. Awaited(m)'
      BY <1>1, <1>3, <2>1 DEF Awaited, Waits
    <2> QED BY <1>1, <2>2 DEF LoadingOK
  <1> QED BY <1>2, <1>3

-----------------------------------------------------------------------------
\* Types.

LEMMA OverlapType == \A s, row : Overlapping(s, row) \subseteq Secrets \X Accounts
  BY DEF Overlapping, Secrets

LEMMA Longer ==
  ASSUME NEW k \in Nat, NEW l \in Nat, k <= l,
         NEW f \in [Secrets -> [Accounts -> 0..k]]
  PROVE  f \in [Secrets -> [Accounts -> 0..l]]
  <1>1. \A x \in Secrets : f[x] \in [Accounts -> 0..l]
    BY Z3
  <1> QED BY <1>1

\* The types a request sent leaves, and the counts.
LEMMA AddedTypes ==
  ASSUME IInv, NEW op \in Ops, NEW of \in Names, NEW stage \in Stages,
         Adds(op, of, stage), About(op, of), Len(sent) < MaxSent,
         loose' = loose \union Overlapping(sent', busy'),
         UNCHANGED <<issued, held>>
  PROVE  /\ sent' \in Seq(Request)
         /\ Len(sent') = Len(sent) + 1 /\ Len(sent) \in Nat
         /\ Len(sent') <= MaxSent
         /\ issued' \in [Secrets -> [Accounts -> 0..Len(sent')]]
         /\ held' \in [Secrets -> [Accounts -> 0..Len(sent')]]
         /\ loose' \subseteq Secrets \X Accounts
         /\ \A n \in Numbers' : About(sent'[n].op, sent'[n].of)
  <1>1. /\ sent' \in Seq(Request)
        /\ Len(sent') = Len(sent) + 1 /\ Len(sent) \in Nat
        /\ Len(sent') <= MaxSent
    BY BoundsAssumption DEF Adds, IInv, TypeOK
  <1>2. issued' \in [Secrets -> [Accounts -> 0..Len(sent')]]
        /\ held' \in [Secrets -> [Accounts -> 0..Len(sent')]]
    BY <1>1, Longer DEF IInv, TypeOK
  <1>3. loose' \subseteq Secrets \X Accounts
    BY OverlapType DEF IInv, TypeOK
  <1>4. \A n \in Numbers' : About(sent'[n].op, sent'[n].of)
    <2> SUFFICES ASSUME NEW n \in Numbers' PROVE About(sent'[n].op, sent'[n].of)
      OBVIOUS
    <2>1. n \in Numbers \/ n = Len(sent) + 1
      BY <1>1 DEF Numbers
    <2> QED BY <2>1 DEF Adds, IInv, NamesOK
  <1> QED BY <1>1, <1>2, <1>3, <1>4

\* The types a request that moves on leaves.
LEMMA MovedTypes ==
  ASSUME IInv, NEW n \in Numbers, NEW stage \in Stages, Moves(n, stage)
  PROVE  /\ sent' \in Seq(Request)
         /\ Len(sent') = Len(sent) /\ Len(sent) \in Nat
         /\ Len(sent') <= MaxSent
         /\ Numbers' = Numbers
         /\ \A m \in Numbers' : About(sent'[m].op, sent'[m].of)
  <1>1. Numbers' = Numbers /\ sent' \in Seq(Request) /\ Len(sent') = Len(sent)
        /\ Len(sent) \in Nat
    BY DEF Moves, Numbers, IInv, TypeOK
  <1>2. \A m \in Numbers : About(sent'[m].op, sent'[m].of)
    <2> SUFFICES ASSUME NEW m \in Numbers PROVE About(sent'[m].op, sent'[m].of)
      OBVIOUS
    <2> QED BY DEF Moves, IInv, NamesOK
  <1> QED BY <1>1, <1>2 DEF IInv, CountOK

-----------------------------------------------------------------------------
\* Each action keeps the invariant.

LEMMA InitInv == Init => IInv
  <1> SUFFICES ASSUME Init PROVE IInv
    OBVIOUS
  <1> DEFINE r == Ask("load", None, "asked")
  <1>1. r \in Request /\ r.op = "load" /\ r.of = None /\ r.stage = "asked"
    BY AskType, OpsAre DEF Names, Stages
  <1>2. sent = <<r>>
    BY DEF Init
  <1> HIDE DEF r
  <1>3. /\ sent \in Seq(Request) /\ Len(sent) = 1 /\ Numbers = {1} /\ sent[1] = r
        /\ since = 0 /\ since \in 0..Len(sent)
    BY <1>1, <1>2 DEF Init, Numbers
  <1>4. /\ form = NoForm /\ busy = None /\ loose = {}
        /\ form \in Form /\ form.kind = "none" /\ form.of = None /\ form.opened = 0
        /\ form.loading = FALSE /\ busy \in Names
    BY BoundsAssumption DEF Init, NoForm, Form, Names
  <1>5. /\ issued = held
        /\ held \in [Secrets -> [Accounts -> 0..Len(sent)]]
    BY <1>3 DEF Init
  <1>6. TypeOK
    BY <1>3, <1>4, <1>5 DEF Init, TypeOK, Rows, NoRows
  <1>7. NamesOK
    BY <1>1, <1>3, <1>4 DEF NamesOK, About, Toggles
  <1>8. CountOK
    BY <1>3, <1>4, BoundsAssumption DEF CountOK
  <1>9. LinksOK /\ AloneOK /\ DoneOK
    BY <1>1, <1>3 DEF LinksOK, AloneOK, DoneOK, Waits
  <1>10. HeldOK
    BY <1>5 DEF HeldOK
  <1>11. BusyOK /\ LoadingOK
    BY <1>4 DEF BusyOK, LoadingOK
  <1> QED BY <1>6, <1>7, <1>8, <1>9, <1>10, <1>11 DEF IInv

LEMMA NavigateInv == ASSUME IInv, Navigate PROVE IInv'
  <1>1. Adds("load", None, "asked") /\ Len(sent) < MaxSent
    BY OpsAre, AppendAdds DEF Navigate, Record, IInv, Names, Stages
  <1>2. /\ page' \in DOMAIN Forms /\ since' = Len(sent) /\ rows' = NoRows
        /\ form' = NoForm /\ shown' = FALSE /\ busy' = None
        /\ loose' = loose \union Overlapping(sent', busy')
        /\ UNCHANGED <<server, held>> /\ UNCHANGED <<issued, held>>
    BY DEF Navigate, Record, server
  <1>3. About("load", None)
    BY DEF About, Toggles
  <1>4. "load" \in Ops /\ None \in Names /\ "asked" \in Stages
    BY OpsAre DEF Names, Stages
  <1>5. /\ sent' \in Seq(Request)
        /\ Len(sent') = Len(sent) + 1 /\ Len(sent) \in Nat
        /\ Len(sent') <= MaxSent
        /\ issued' \in [Secrets -> [Accounts -> 0..Len(sent')]]
        /\ held' \in [Secrets -> [Accounts -> 0..Len(sent')]]
        /\ loose' \subseteq Secrets \X Accounts
        /\ \A n \in Numbers' : About(sent'[n].op, sent'[n].of)
    BY <1>1, <1>2, <1>3, <1>4, AddedTypes
  <1>6. /\ form' \in Form /\ form'.kind = "none" /\ form'.of = None
        /\ form'.opened = 0 /\ form'.loading = FALSE
    BY <1>2, BoundsAssumption DEF NoForm, Form, Names
  <1>7. TypeOK'
    <2>1. rows' \in Rows /\ since' \in 0..Len(sent') /\ shown' \in BOOLEAN
      <3>1. NoRows \in Rows
        BY DEF Rows, NoRows
      <3>2. rows' \in Rows
        BY <1>2, <3>1
      <3>3. since' \in 0..Len(sent')
        <4>1. since' = Len(sent) /\ Len(sent') = Len(sent) + 1 /\ Len(sent) \in Nat
          BY <1>2, <1>5
        <4> QED BY <4>1
      <3>4. shown' \in BOOLEAN
        BY <1>2
      <3> QED BY <3>2, <3>3, <3>4
    <2> QED BY <1>2, <1>4, <1>5, <1>6, <2>1 DEF IInv, TypeOK, server
  <1>8. NamesOK' /\ CountOK'
    BY <1>2, <1>5, <1>6 DEF NamesOK, CountOK, About, Toggles
  <1>9. SecretsOK'
    BY <1>1, <1>2, <1>3, <1>4, AddedSecrets
  <1>10. BusyOK' /\ LoadingOK'
    BY <1>2, <1>6 DEF BusyOK, LoadingOK
  <1> QED BY <1>7, <1>8, <1>9, <1>10 DEF IInv, SecretsOK

\* What the controls that send a request have in common.
LEMMA SendInv ==
  ASSUME IInv, NEW op \in Ops, NEW of \in Names, NEW row, Send(op, of, row),
         About(op, of), Len(sent) < MaxSent,
         UNCHANGED <<server, view, shown, held>>,
         \/ row = busy /\ op # "link"
         \/ row = of /\ op \in {"link", "revoke"} /\ busy # of,
         \/ form' = form
         \/ /\ form.kind = op /\ form.of = of
            /\ \E b \in BOOLEAN : form' = [form EXCEPT !.loading = b]
  PROVE  IInv'
  <1>1. "sent" \in Stages
    BY DEF Stages
  <1>2. Adds(op, of, "sent")
    BY <1>1, AppendAdds DEF Send, Record, IInv
  <1>3. /\ loose' = loose \union Overlapping(sent', busy') /\ busy' = row
        /\ UNCHANGED <<issued, held, since, page, rows>>
    BY DEF Send, Record, server, view
  <1>4. /\ sent' \in Seq(Request)
        /\ Len(sent') = Len(sent) + 1 /\ Len(sent) \in Nat
        /\ Len(sent') <= MaxSent
        /\ issued' \in [Secrets -> [Accounts -> 0..Len(sent')]]
        /\ held' \in [Secrets -> [Accounts -> 0..Len(sent')]]
        /\ loose' \subseteq Secrets \X Accounts
        /\ \A n \in Numbers' : About(sent'[n].op, sent'[n].of)
    BY <1>1, <1>2, <1>3, AddedTypes
  <1>5. /\ form' \in Form /\ form'.kind = form.kind /\ form'.of = form.of
        /\ form'.opened = form.opened
        /\ form' = form \/ (form'.kind = op /\ form'.of = of)
    BY DEF IInv, TypeOK, Form
  <1>6. TypeOK'
    BY <1>3, <1>4, <1>5 DEF IInv, TypeOK, server
  <1>7. NamesOK'
    <2>1. form'.kind = "none" => form' = NoForm
      <3>1. "none" \notin Ops
        BY OpsAre
      <3> QED BY <1>5, <3>1 DEF IInv, NamesOK
    <2> QED BY <1>4, <1>5, <2>1 DEF IInv, NamesOK
  <1>8. CountOK'
    <2>1. form.opened \in Nat
      BY DEF IInv, TypeOK, Form
    <2> QED BY <1>3, <1>4, <1>5, <2>1 DEF IInv, CountOK
  <1>9. SecretsOK'
    BY <1>1, <1>2, <1>3, AddedSecrets
  <1>10. BusyOK'
    BY <1>1, <1>2, <1>3, AddedBusy
  <1>11. LoadingOK'
    BY <1>1, <1>2, <1>5, AddedLoading
  <1> QED BY <1>6, <1>7, <1>8, <1>9, <1>10, <1>11 DEF IInv, SecretsOK

LEMMA SubmitInv == ASSUME IInv, Submit PROVE IInv'
  <1>1. form \in Form /\ form.kind \in Ops \union {"none"} /\ form.of \in Names
    BY DEF IInv, TypeOK, Form
  <1>2. form.kind # "none" /\ About(form.kind, form.of)
    BY DEF Submit, IInv, NamesOK
  <1>3. form.kind # "link"
    BY FormsAre DEF IInv, TypeOK, Submit
  <1>4. PICK row : /\ Send(form.kind, form.of, row)
                   /\ row = IF form.kind = "revoke" THEN form.of ELSE busy
    BY DEF Submit
  <1>5. \E b \in BOOLEAN : form' = [form EXCEPT !.loading = b]
    <2> DEFINE guarded == form.kind \in Guarded
    <2>1. form' = [form EXCEPT !.loading = guarded] /\ guarded \in BOOLEAN
      BY DEF Submit
    <2> HIDE DEF guarded
    <2> QED BY <2>1
  <1>6. /\ Len(sent) < MaxSent /\ UNCHANGED <<server, view, shown, held>>
        /\ form.kind = "revoke" => busy # form.of
    BY DEF Submit
  <1> QED BY <1>1, <1>2, <1>3, <1>4, <1>5, <1>6, SendInv

LEMMA ToggleActiveInv ==
  ASSUME IInv, NEW a \in Accounts, ToggleActive(a) PROVE IInv'
  <1>1. PICK op \in Toggles : Send(op, a, busy)
    BY DEF ToggleActive, Toggles
  <1>2. op \in Ops /\ op # "link" /\ a \in Names /\ About(op, a)
    BY OpsAre DEF Toggles, Names, About
  <1> QED BY <1>1, <1>2, SendInv DEF ToggleActive

LEMMA RejectInv ==
  ASSUME IInv, NEW r \in Applicants, Reject(r) PROVE IInv'
  <1>1. "reject" \in Ops /\ r \in Names /\ About("reject", r)
    BY OpsAre DEF Names, About, Toggles
  <1> QED BY <1>1, SendInv DEF Reject

LEMMA IssueLinkInv ==
  ASSUME IInv, NEW a \in Accounts, IssueLink(a) PROVE IInv'
  <1>1. "link" \in Ops /\ a \in Names /\ About("link", a)
    BY OpsAre DEF Names, About, Toggles
  <1> QED BY <1>1, SendInv DEF IssueLink

\* The controls that only open or close something.
LEMMA FormInv ==
  ASSUME IInv, UNCHANGED <<server, view, busy, held, sent, loose>>,
         shown' \in BOOLEAN, form' \in Form,
         form'.kind \in Forms[page] \union {"none"},
         form'.kind = "none" => form' = NoForm, About(form'.kind, form'.of),
         form'.opened <= Len(sent),
         form'.kind # "none" => since <= form'.opened,
         form' = form \/ ~form'.loading
  PROVE  IInv'
  <1>1. UNCHANGED <<active, full, usable, pending, issued, page, since, rows>>
    BY DEF server, view
  <1>2. Numbers' = Numbers
    BY DEF Numbers
  <1>3. TypeOK'
    BY <1>1 DEF IInv, TypeOK
  <1>4. NamesOK' /\ CountOK'
    BY <1>1, <1>2 DEF IInv, NamesOK, CountOK
  <1>5. SecretsOK'
    BY <1>1, StillSecrets
  <1>6. BusyOK'
    <2>1. \A n \in Numbers : Holds(n, busy) => Holds(n, busy)'
      BY <1>1 DEF Holds
    <2> QED BY <1>2, <2>1 DEF IInv, BusyOK
  <1>7. LoadingOK'
    <2>1. CASE form' = form
      <3>1. \A n \in Numbers : Awaited(n) => Awaited(n)'
        BY <2>1 DEF Awaited
      <3> QED BY <1>2, <2>1, <3>1 DEF IInv, LoadingOK
    <2>2. CASE ~form'.loading
      BY <2>2 DEF LoadingOK
    <2> QED BY <2>1, <2>2
  <1> QED BY <1>3, <1>4, <1>5, <1>6, <1>7 DEF IInv, SecretsOK

\* The form that is not there.
LEMMA NoFormType ==
  /\ NoForm \in Form /\ NoForm.kind = "none" /\ NoForm.of = None
  /\ NoForm.opened = 0 /\ NoForm.loading = FALSE
  /\ About(NoForm.kind, NoForm.of)
  BY BoundsAssumption DEF NoForm, Form, Names, About, Toggles

LEMMA OpenFormInv ==
  ASSUME IInv, NEW kind \in Ops, NEW of \in Names, OpenForm(kind, of)
  PROVE  IInv'
  <1>1. About(kind, of)
    <2>1. kind \in {"create", "wallet", "reset", "approve", "revoke"}
      <3>1. kind \in Forms[page] /\ page \in DOMAIN Forms
        BY DEF OpenForm, IInv, TypeOK
      <3> QED BY <3>1, FormsAre
    <2>2. rows.pending \subseteq Applicants /\ rows.full \subseteq Accounts
      BY DEF IInv, TypeOK, Rows
    <2>3. CASE kind = "create"
      BY <2>3 DEF OpenForm, About, Toggles
    <2>4. CASE kind \in {"wallet", "reset"}
      BY <2>4 DEF OpenForm, About, Toggles
    <2>5. CASE kind = "approve"
      BY <2>2, <2>5 DEF OpenForm, About, Toggles
    <2>6. CASE kind = "revoke"
      BY <2>2, <2>6 DEF OpenForm, About, Toggles
    <2> QED BY <2>1, <2>3, <2>4, <2>5, <2>6
  <1>2. /\ form' = [kind |-> kind, of |-> of, opened |-> Len(sent), loading |-> FALSE]
        /\ kind \in Forms[page]
        /\ UNCHANGED <<server, view, busy, held, sent, loose>> /\ shown' = shown
    BY DEF OpenForm
  <1>3. Len(sent) \in 0..MaxSent /\ since <= Len(sent) /\ shown \in BOOLEAN
    BY BoundsAssumption DEF IInv, TypeOK, CountOK
  <1>4. form' \in Form
    BY <1>2, <1>3 DEF Form
  <1>5. /\ form'.kind = kind /\ form'.of = of /\ form'.opened = Len(sent)
        /\ ~form'.loading
    BY <1>2
  <1>6. kind # "none"
    BY OpsAre
  <1>7. form'.opened <= Len(sent)
    BY <1>3, <1>5
  <1> QED BY <1>1, <1>2, <1>3, <1>4, <1>5, <1>6, <1>7, FormInv

LEMMA CloseFormInv == ASSUME IInv, CloseForm PROVE IInv'
  <1>1. /\ form' = NoForm /\ shown' = shown /\ shown \in BOOLEAN
        /\ UNCHANGED <<server, view, busy, held, sent, loose>>
        /\ Len(sent) \in Nat
    BY DEF CloseForm, IInv, TypeOK
  <1> QED BY <1>1, NoFormType, FormInv

LEMMA CloseLinkInv == ASSUME IInv, CloseLink PROVE IInv'
  <1>1. /\ form' = form /\ shown' = FALSE
        /\ UNCHANGED <<server, view, busy, held, sent, loose>>
    BY DEF CloseLink
  <1> QED BY <1>1, FormInv DEF IInv, TypeOK, NamesOK, CountOK

LEMMA RedeemInv == ASSUME IInv, NEW a \in Accounts, Redeem(a) PROVE IInv'
  <1>1. /\ usable' = usable \ {a} /\ full' = full \union {a}
        /\ UNCHANGED <<active, pending, issued, page, since, rows, form, shown,
                       busy, held, sent, loose>>
    BY DEF Redeem, view
  <1>2. Numbers' = Numbers
    BY <1>1 DEF Numbers
  <1>3. TypeOK'
    BY <1>1 DEF IInv, TypeOK
  <1>4. NamesOK' /\ CountOK'
    BY <1>1, <1>2 DEF IInv, NamesOK, CountOK
  <1>5. SecretsOK'
    BY <1>1, StillSecrets
  <1>6. BusyOK'
    <2>1. \A n \in Numbers : Holds(n, busy) => Holds(n, busy)'
      BY <1>1 DEF Holds
    <2> QED BY <1>1, <1>2, <2>1 DEF IInv, BusyOK
  <1>7. LoadingOK'
    <2>1. \A n \in Numbers : Awaited(n) => Awaited(n)'
      BY <1>1 DEF Awaited
    <2> QED BY <1>1, <1>2, <2>1 DEF IInv, LoadingOK
  <1> QED BY <1>3, <1>4, <1>5, <1>6, <1>7 DEF IInv, SecretsOK

\* The types of what the server and the lists hold.
ServerTypes ==
    /\ active \subseteq Accounts
    /\ full \subseteq Accounts
    /\ usable \subseteq Accounts \ full
    /\ pending \subseteq Applicants
    /\ issued \in [Secrets -> [Accounts -> 0..Len(sent)]]

LEMMA HandleServer ==
  ASSUME IInv, NEW n \in Numbers, Handle(n), Len(sent') = Len(sent)
  PROVE  ServerTypes'
  <1> DEFINE op == sent[n].op
             of == sent[n].of
  <1>1. About(op, of) /\ n \in 0..Len(sent)
    BY DEF IInv, NamesOK, TypeOK, Numbers
  <1>2. CASE Accepts(n) /\ sent' = Stage(n, "done") /\ UNCHANGED server
    BY <1>2 DEF ServerTypes, IInv, TypeOK, server
  <1>3. CASE UNCHANGED server
    BY <1>3 DEF ServerTypes, IInv, TypeOK, server
  <1>4. CASE /\ Accepts(n)
             /\ active' = CASE op = "suspend" -> active \ {of}
                            [] op = "reactivate" -> active \union {of}
                            [] OTHER -> active
             /\ full' = IF op = "revoke" THEN full \ {of} ELSE full
             /\ usable' = IF op = "link" THEN usable \union {of} ELSE usable
             /\ pending' = IF op \in {"approve", "reject"} THEN pending \ {of} ELSE pending
             /\ issued' = IF op \in Secrets THEN [issued EXCEPT ![op][of] = n] ELSE issued
    <2>1. active' \subseteq Accounts
      <3>1. active \subseteq Accounts /\ (op = "reactivate" => of \in Accounts)
        BY <1>1 DEF About, Toggles, IInv, TypeOK
      <3> QED BY <1>4, <3>1
    <2>2. full' \subseteq full /\ pending' \subseteq pending
      BY <1>4
    <2>3. usable' \subseteq Accounts \ full'
      <3>1. op = "link" => of \in Accounts \ full
        BY <1>4 DEF Accepts, IInv, TypeOK
      <3> QED BY <1>4, <2>2, <3>1 DEF IInv, TypeOK
    <2>4. issued' \in [Secrets -> [Accounts -> 0..Len(sent')]]
      <3>1. issued \in [Secrets -> [Accounts -> 0..Len(sent')]]
        BY DEF IInv, TypeOK
      <3> HIDE DEF op, of
      <3> QED BY <1>1, <1>4, <3>1
    <2> QED BY <2>1, <2>2, <2>3, <2>4 DEF ServerTypes, IInv, TypeOK
  <1> QED BY <1>3, <1>4 DEF Handle

LEMMA HandleInv == ASSUME IInv, NEW n \in Numbers, Handle(n) PROVE IInv'
  <1>1. PICK stage \in {"done", "refused"} : sent' = Stage(n, stage)
    BY DEF Handle
  <1>2. stage \in Stages /\ Moves(n, stage)
    BY <1>1, StageMoves DEF IInv, Stages
  <1>3. UNCHANGED <<page, since, rows, form, shown, busy, held, loose>>
    BY DEF Handle, view
  <1>4. /\ sent' \in Seq(Request)
        /\ Len(sent') = Len(sent) /\ Len(sent) \in Nat
        /\ Len(sent') <= MaxSent
        /\ Numbers' = Numbers
        /\ \A m \in Numbers' : About(sent'[m].op, sent'[m].of)
    BY <1>2, MovedTypes
  <1>5. TypeOK'
    BY <1>3, <1>4, HandleServer DEF IInv, TypeOK, ServerTypes
  <1>6. NamesOK' /\ CountOK'
    BY <1>3, <1>4 DEF IInv, NamesOK, CountOK
  <1>7. SecretsOK'
    BY HandleSecrets
  <1>8. BusyOK' /\ LoadingOK'
    BY <1>2, <1>3, MovedBusy, MovedLoading
  <1> QED BY <1>5, <1>6, <1>7, <1>8 DEF IInv, SecretsOK

\* What a request that moves on leaves, given what it does to the page.
LEMMA MoveInv ==
  ASSUME IInv, NEW n \in Numbers, NEW stage \in Stages, Moves(n, stage),
         UNCHANGED <<server, page, since>>,
         rows' \in Rows, shown' \in BOOLEAN, busy' \in {busy, None},
         form' \in Form, form'.kind \in {form.kind, "none"},
         form' = NoForm \/ (/\ form'.kind = form.kind /\ form'.of = form.of
                            /\ form'.opened = form.opened
                            /\ form.kind = "none" => form' = form),
         held' \in [Secrets -> [Accounts -> 0..Len(sent)]],
         loose' \subseteq Secrets \X Accounts,
         SecretsOK', BusyOK', LoadingOK'
  PROVE  IInv'
  <1>1. /\ sent' \in Seq(Request)
        /\ Len(sent') = Len(sent) /\ Len(sent) \in Nat
        /\ Len(sent') <= MaxSent
        /\ Numbers' = Numbers
        /\ \A m \in Numbers' : About(sent'[m].op, sent'[m].of)
    BY MovedTypes
  <1>2. UNCHANGED <<active, full, usable, pending, issued, page, since>>
    BY DEF server
  <1>3. None \in Names
    BY DEF Names
  <1>4. TypeOK'
    <2>1. form'.kind \in Forms[page] \union {"none"} /\ busy' \in Names
      BY <1>3 DEF IInv, TypeOK
    <2> QED BY <1>1, <1>2, <2>1 DEF IInv, TypeOK
  <1>5. NamesOK' /\ CountOK'
    <2>1. CASE form' = NoForm
      BY <1>1, <1>2, <2>1, NoFormType DEF NamesOK, CountOK
    <2>2. CASE /\ form'.kind = form.kind /\ form'.of = form.of
               /\ form'.opened = form.opened
               /\ form.kind = "none" => form' = form
      BY <1>1, <1>2, <2>2 DEF IInv, NamesOK, CountOK
    <2> QED BY <2>1, <2>2
  <1> QED BY <1>4, <1>5 DEF IInv, SecretsOK

LEMMA ShowRequestsType ==
  ASSUME TypeOK, NEW n, NEW shows \in BOOLEAN, ShowRequests(n, shows)
  PROVE  rows' \in Rows /\ UNCHANGED <<page, since>>
  BY DEF TypeOK, ShowRequests, Rows

\* The finally of a form touches its loading only, and ends its wait.
LEMMA StopLoadingType ==
  ASSUME IInv, NEW n \in Numbers, StopLoading(n)
  PROVE  /\ form' \in Form /\ form'.kind = form.kind /\ form'.of = form.of
         /\ form'.opened = form.opened
         /\ form.kind = "none" => form' = form
         /\ form' = form \/ ~form'.loading
         /\ Awaited(n) => ~form'.loading
  <1>1. form \in Form /\ "none" \notin Ops /\ sent[n].op \in Ops
    <2>1. sent[n] \in Request
      BY DEF IInv, TypeOK, Numbers
    <2> QED BY <2>1, OpsAre DEF IInv, TypeOK, Request
  <1>2. CASE sent[n].op = form.kind /\ form.opened < n
    BY <1>1, <1>2 DEF StopLoading, Form, Awaited
  <1>3. CASE ~(sent[n].op = form.kind /\ form.opened < n)
    BY <1>1, <1>3 DEF StopLoading, Awaited
  <1> QED BY <1>2, <1>3

\* busyId goes with the request it belongs to.
LEMMA ReleasedBusy ==
  ASSUME IInv, NEW n \in Numbers
  PROVE  /\ Released(n) \in {busy, None}
         /\ Released(n) = busy /\ busy # None => ~Holds(n, busy)
  BY DEF Released, Holds, Shows

LEMMA AnswerInv == ASSUME IInv, NEW n \in Numbers, Answer(n) PROVE IInv'
  <1>1. Moves(n, "asked") /\ "asked" \in Stages
    BY StageMoves DEF Answer, IInv, Stages
  <1>2. ShowRequests(n, FALSE) /\ UNCHANGED <<server, busy>>
    BY DEF Answer
  <1>3. rows' \in Rows /\ UNCHANGED <<page, since>>
    BY <1>2, ShowRequestsType DEF IInv
  <1>4. shown' \in BOOLEAN
    <2>1. shown' = (shown \/ (sent[n].op = "link" /\ Shows(n)))
      BY DEF Answer
    <2> QED BY <2>1
  <1>5. form' = IF Shows(n) /\ form.kind = sent[n].op THEN NoForm ELSE form
    BY DEF Answer
  <1>6. form' \in {form, NoForm} /\ form' \in Form
    BY <1>5, NoFormType DEF IInv, TypeOK
  <1>7. held' \in [Secrets -> [Accounts -> 0..Len(sent)]]
    <2> DEFINE op == sent[n].op
               of == sent[n].of
    <2>1. held' = IF Received(n) THEN [held EXCEPT ![op][of] = n] ELSE held
      BY DEF Answer
    <2>2. held \in [Secrets -> [Accounts -> 0..Len(sent)]] /\ n \in 0..Len(sent)
      BY DEF IInv, TypeOK, Numbers
    <2> HIDE DEF op, of
    <2> QED BY <2>1, <2>2
  <1>8. loose' \subseteq loose
    BY DEF Answer
  <1>9. SecretsOK'
    BY AnswerSecrets
  <1>10. BusyOK'
    BY <1>1, <1>2, <1>3, MovedBusy
  <1>11. LoadingOK'
    <2>1. ASSUME form' = form, form.loading, Awaited(n)
          PROVE  FALSE
      <3>1. form.opened < n /\ sent[n].op = form.kind
        BY <2>1 DEF Awaited
      <3>2. form.kind # "none"
        BY <2>1, NoFormType DEF IInv, NamesOK
      <3>3. since <= form.opened /\ form.opened \in Int /\ since \in Int /\ n \in Int
        BY <3>2 DEF IInv, CountOK, TypeOK, Form, Numbers
      <3>4. Shows(n)
        BY <3>1, <3>3 DEF Shows
      <3>5. form = NoForm
        BY <1>5, <2>1, <3>1, <3>4
      <3> QED BY <2>1, <3>5, NoFormType
    <2> QED BY <1>1, <1>6, <2>1, NoFormType, MovedLoading
  <1>12. loose' \subseteq Secrets \X Accounts
    BY <1>8 DEF IInv, TypeOK
  <1>13. form'.kind \in {form.kind, "none"}
         /\ (form' = NoForm \/ (/\ form'.kind = form.kind /\ form'.of = form.of
                                /\ form'.opened = form.opened
                                /\ form.kind = "none" => form' = form))
    BY <1>6, NoFormType
  <1> QED BY <1>1, <1>2, <1>3, <1>4, <1>6, <1>7, <1>9, <1>10, <1>11, <1>12,
             <1>13, MoveInv

\* What the ends of a handler have in common.
LEMMA EndInv ==
  ASSUME IInv, NEW n \in Numbers, NEW stage \in Stages, Moves(n, stage),
         stage \notin {"sent", "done", "refused"},
         sent[n].stage = "done" /\ sent[n].op \in Secrets => Secret(sent[n]) \in loose',
         loose \subseteq loose', loose' \subseteq Secrets \X Accounts,
         busy' = Released(n),
         busy' = busy \/ Overlapping(sent', busy') \subseteq loose',
         (form' = form /\ ~Waits(sent[n])) \/ StopLoading(n),
         rows' \in Rows,
         UNCHANGED <<server, page, since, shown, held>>
  PROVE  IInv'
  <1>1. SecretsOK'
    BY EndedSecrets DEF server
  <1>2. BusyOK'
    <2>1. CASE busy = None
      BY <2>1, ReleasedBusy DEF BusyOK
    <2>2. CASE busy # None
      BY <2>2, ReleasedBusy, MovedBusy
    <2> QED BY <2>1, <2>2
  <1>3. /\ form' \in Form /\ form'.kind = form.kind /\ form'.of = form.of
        /\ form'.opened = form.opened
        /\ form.kind = "none" => form' = form
        /\ form' = form \/ ~form'.loading
        /\ Awaited(n) => ~form'.loading
    BY StopLoadingType DEF IInv, TypeOK, Awaited
  <1>4. LoadingOK'
    BY <1>3, MovedLoading
  <1>5. shown' \in BOOLEAN /\ held' \in [Secrets -> [Accounts -> 0..Len(sent)]]
        /\ busy' \in {busy, None}
    BY ReleasedBusy DEF IInv, TypeOK
  <1> QED BY <1>1, <1>2, <1>3, <1>4, <1>5, MoveInv

LEMMA DeclineInv == ASSUME IInv, NEW n \in Numbers, Decline(n) PROVE IInv'
  <1>1. PICK stage \in {"asked", "over"} : Record(Stage(n, stage), Released(n))
    BY DEF Decline
  <1>2. stage \in Stages /\ Moves(n, stage)
    BY <1>1, StageMoves DEF Record, IInv, Stages
  <1>3. /\ busy' = Released(n) /\ loose' = loose \union Overlapping(sent', busy')
        /\ sent[n].stage = "refused" /\ StopLoading(n)
        /\ UNCHANGED <<server, shown, held>>
    BY <1>1 DEF Record, Decline
  <1>4. rows' \in Rows /\ UNCHANGED <<page, since>>
    <2>1. CASE sent[n].op = "reject"
      BY <2>1, ShowRequestsType DEF Decline, IInv
    <2>2. CASE sent[n].op # "reject"
      BY <2>2 DEF Decline, IInv, TypeOK, view
    <2> QED BY <2>1, <2>2
  <1>5. loose' \subseteq Secrets \X Accounts
    BY <1>3, OverlapType DEF IInv, TypeOK
  <1> QED BY <1>2, <1>3, <1>4, <1>5, EndInv

LEMMA LoseInv == ASSUME IInv, NEW n \in Numbers, Lose(n) PROVE IInv'
  <1>1. "over" \in Stages /\ Moves(n, "over")
    BY StageMoves DEF Lose, IInv, Stages
  <1> DEFINE made == IF sent[n].stage = "done" /\ sent[n].op \in Secrets
                     THEN {<<sent[n].op, sent[n].of>>} ELSE {}
  <1>2. /\ busy' = Released(n) /\ StopLoading(n)
        /\ loose' = (loose \union Overlapping(sent', busy')) \union made
        /\ UNCHANGED <<server, shown, held>>
    BY DEF Lose
  <1>3. rows' \in Rows /\ UNCHANGED <<page, since>>
    <2>1. CASE sent[n].stage = "asked"
      <3>1. CASE ShowRequests(n, TRUE)
        BY <3>1, ShowRequestsType DEF IInv
      <3>2. CASE EmptyLists(n)
        BY <3>2 DEF EmptyLists, IInv, TypeOK, NoRows, Rows
      <3> QED BY <2>1, <3>1, <3>2 DEF Lose
    <2>2. CASE sent[n].stage # "asked"
      BY <2>2 DEF Lose, IInv, TypeOK, view
    <2> QED BY <2>1, <2>2
  <1>4. made \subseteq Secrets \X Accounts
    BY DEF IInv, NamesOK, About, Secrets
  <1>5. sent[n].stage = "done" /\ sent[n].op \in Secrets => Secret(sent[n]) \in made
    BY DEF Secret
  <1> HIDE DEF made
  <1>6. loose' \subseteq Secrets \X Accounts
    BY <1>2, <1>4, OverlapType DEF IInv, TypeOK
  <1> QED BY <1>1, <1>2, <1>3, <1>5, <1>6, EndInv

LEMMA LoadedInv == ASSUME IInv, NEW n \in Numbers, Loaded(n) PROVE IInv'
  <1>1. "over" \in Stages /\ NoRows \in Rows
    BY DEF Stages, NoRows, Rows
  <1>2. sent' = [sent EXCEPT ![n].stage = "over", ![n].got = NoRows]
        /\ busy' = Released(n) /\ loose' = loose \union Overlapping(sent', busy')
        /\ sent[n].stage = "read"
        /\ UNCHANGED <<server, page, since, form, shown, held>>
    BY DEF Loaded, Record
  <1>3. Moves(n, "over")
    BY <1>1, <1>2, LoadMoves DEF IInv
  <1>4. rows' \in Rows
    <2>1. sent[n] \in Request
      BY DEF IInv, TypeOK, Numbers
    <2> QED BY <2>1 DEF Loaded, IInv, TypeOK, Request
  <1>5. loose' \subseteq Secrets \X Accounts
    BY <1>2, OverlapType DEF IInv, TypeOK
  <1>6. form' = form /\ ~Waits(sent[n])
    BY <1>2 DEF Waits
  <1> QED BY <1>1, <1>2, <1>3, <1>4, <1>5, <1>6, EndInv

LEMMA ReadInv == ASSUME IInv, NEW n \in Numbers, Read(n) PROVE IInv'
  <1> DEFINE got == [loaded |-> TRUE, active |-> active, full |-> full,
                     pending |-> pending]
  <1>1. got \in Rows /\ "read" \in Stages
    BY DEF Rows, Stages, IInv, TypeOK
  <1>2. /\ sent' = [sent EXCEPT ![n].stage = "read", ![n].got = got]
        /\ UNCHANGED <<server, view, form, shown, busy, held, loose>>
        /\ sent[n].stage = "asked"
    BY DEF Read
  <1> HIDE DEF got
  <1>3. Moves(n, "read")
    BY <1>1, <1>2, LoadMoves DEF IInv
  <1>4. UNCHANGED <<issued, page, since, rows>>
    BY <1>2 DEF server, view
  <1>5. SecretsOK'
    BY <1>1, <1>2, <1>3, <1>4, EndedSecrets
  <1>6. BusyOK'
    BY <1>1, <1>2, <1>3, <1>4, MovedBusy
  <1>7. ~Awaited(n)
    BY <1>2 DEF Awaited, Waits
  <1>8. LoadingOK'
    BY <1>1, <1>2, <1>3, <1>7, MovedLoading
  <1>9. /\ rows' \in Rows /\ shown' \in BOOLEAN /\ form' \in Form
        /\ held' \in [Secrets -> [Accounts -> 0..Len(sent)]]
        /\ loose' \subseteq Secrets \X Accounts
    BY <1>2, <1>4 DEF IInv, TypeOK
  <1> QED BY <1>1, <1>2, <1>3, <1>4, <1>5, <1>6, <1>8, <1>9, MoveInv

LEMMA NextInv == IInv /\ [Next]_vars => IInv'
  <1> SUFFICES ASSUME IInv, [Next]_vars PROVE IInv'
    OBVIOUS
  <1>1. CASE UNCHANGED vars
    <2>1. UNCHANGED <<server, view, form, shown, busy, held, sent, loose>>
      BY <1>1 DEF vars
    <2> QED BY <2>1, FormInv DEF IInv, TypeOK, NamesOK, CountOK
  <1>2. CASE Click
    <2>1. CASE Navigate
      BY <2>1, NavigateInv
    <2>2. ASSUME NEW kind \in Ops, NEW of \in Names, OpenForm(kind, of)
          PROVE  IInv'
      BY <2>2, OpenFormInv
    <2>3. CASE CloseForm
      BY <2>3, CloseFormInv
    <2>4. CASE CloseLink
      BY <2>4, CloseLinkInv
    <2>5. CASE Submit
      BY <2>5, SubmitInv
    <2>6. ASSUME NEW a \in Accounts, ToggleActive(a) \/ IssueLink(a)
          PROVE  IInv'
      BY <2>6, ToggleActiveInv, IssueLinkInv
    <2>7. ASSUME NEW r \in Applicants, Reject(r) PROVE IInv'
      BY <2>7, RejectInv
    <2> QED BY <1>2, <2>1, <2>2, <2>3, <2>4, <2>5, <2>6, <2>7 DEF Click
  <1>3. ASSUME NEW n \in Numbers, Progress(n) \/ Lose(n)
        PROVE  IInv'
    BY <1>3, HandleInv, AnswerInv, DeclineInv, ReadInv, LoadedInv, LoseInv
       DEF Progress
  <1>4. ASSUME NEW a \in Accounts, Redeem(a) PROVE IInv'
    BY <1>4, RedeemInv
  <1> QED BY <1>1, <1>2, <1>3, <1>4 DEF Next, Numbers

-----------------------------------------------------------------------------
\* The invariant of the console: types; whom each operation is about; the ages
\* of form and page; of each secret who waits for it, which request made the
\* one in force and whether its answer is still due; whose busyId and whose
\* loading is set.
THEOREM Invariance == Spec => []IInv
  BY InitInv, NextInv, PTL DEF Spec

\* Every variable of the console keeps its type, however the answers come.
THEOREM TypeCorrect == Spec => []TypeOK
<1>1. IInv => TypeOK
  BY DEF IInv
<1> QED BY <1>1, Invariance, PTL

\* The link or password the administrator received last is the one in force,
\* unless its answer is due, was lost, or two requests for it overlapped.
THEOREM HeldHolds == Spec => []HeldIsCurrent
<1>1. IInv => HeldIsCurrent
  <2> SUFFICES ASSUME IInv, NEW k \in Secrets, NEW a \in Accounts, Due(k, a)
               PROVE  InFlight(sent, k, a) # {}
    BY DEF HeldIsCurrent, IInv, HeldOK
  <2> QED BY DEF Due, InFlight, Numbers
<1> QED BY <1>1, Invariance, PTL

\* A disabled row or button belongs to a request whose handler has not ended.
THEOREM ControlsComeBack == Spec => []DisabledControlsComeBack
<1>1. IInv => DisabledControlsComeBack
  <2> SUFFICES ASSUME IInv PROVE DisabledControlsComeBack
    OBVIOUS
  <2>1. ASSUME busy # None
        PROVE  \E n \in 1..Len(sent) :
                  Shows(n) /\ sent[n].of = busy /\ sent[n].op \in {"link", "revoke"}
                    /\ sent[n].stage # "over"
    <3>1. PICK n \in Numbers : Holds(n, busy)
      BY <2>1 DEF IInv, BusyOK
    <3>2. Shows(n)
      BY <3>1 DEF Holds, Shows, IInv, TypeOK, Numbers
    <3> QED BY <3>1, <3>2 DEF Holds, Numbers
  <2>2. ASSUME form.loading
        PROVE  \E n \in 1..Len(sent) :
                  form.opened < n /\ sent[n].op = form.kind /\ sent[n].of = form.of
                    /\ sent[n].stage \in {"sent", "done", "refused"}
    BY <2>2 DEF IInv, LoadingOK, Awaited, Waits, Numbers
  <2> QED BY <2>1, <2>2 DEF DisabledControlsComeBack
<1> QED BY <1>1, Invariance, PTL
=============================================================================
