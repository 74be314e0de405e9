----------------------------- MODULE Enrolment -----------------------------
(***************************************************************************)
(* What the binding of devices promises, whatever logins and revocations   *)
(* overlap: a link is issued to an account for good and enrols one device  *)
(* of that account, once; a device is enrolled until it is revoked, and    *)
(* never again.  Which links may still be used is left open: a link can be *)
(* retired or expire while a login is at work with it.  The columns are    *)
(* those of enrolment_tokens and account_devices                           *)
(* (00015_device_binding.sql).                                             *)
(***************************************************************************)
EXTENDS Integers, Sequences

CONSTANT Accounts     \* publishers.id

VARIABLES tickets,    \* the account each link was issued to, in order
          enrolled    \* the devices, in the order they were bound

vars == <<tickets, enrolled>>

Enrolled == [ticket: Nat, account: Accounts, live: BOOLEAN]

Init ==
    /\ tickets = <<>>
    /\ enrolled = <<>>

Issue(a) ==
    /\ tickets' = Append(tickets, a)
    /\ UNCHANGED enrolled

Used(t) == \E d \in 1..Len(enrolled) : enrolled[d].ticket = t

Enrol(t) ==
    /\ ~Used(t)
    /\ enrolled' = Append(enrolled, [ticket |-> t, account |-> tickets[t], live |-> TRUE])
    /\ UNCHANGED tickets

Revoke(d) ==
    /\ enrolled' = [enrolled EXCEPT ![d].live = FALSE]
    /\ UNCHANGED tickets

Next ==
    \/ \E a \in Accounts : Issue(a)
    \/ \E t \in 1..Len(tickets) : Enrol(t)
    \/ \E d \in 1..Len(enrolled) : Revoke(d)

Spec == Init /\ [][Next]_vars
-----------------------------------------------------------------------------
\* No two devices came by one link, ever: not even after the first of them was
\* revoked; and a device is of the account its link was issued to.
TicketsAreOneTime ==
    \A d \in 1..Len(enrolled) :
        /\ enrolled[d].ticket \in 1..Len(tickets)
        /\ enrolled[d].account = tickets[enrolled[d].ticket]
        /\ \A e \in 1..Len(enrolled) : enrolled[e].ticket = enrolled[d].ticket => e = d

\* A device keeps its account and the link it came by, and once revoked it
\* stays so (the reads of DeviceBinding that are merged rely on it).
RevocationIsFinal ==
    [][\A d \in 1..Len(enrolled) :
          /\ d \in 1..Len(enrolled')
          /\ enrolled'[d].ticket = enrolled[d].ticket
          /\ enrolled'[d].account = enrolled[d].account
          /\ enrolled'[d].live => enrolled[d].live]_vars
=============================================================================
