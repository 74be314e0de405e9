-------------------------- MODULE MCDeviceBinding --------------------------
(***************************************************************************)
(* DeviceBinding with one publisher, the admin account, two or three       *)
(* browsers and the fewest links that let them race.                       *)
(***************************************************************************)
EXTENDS DeviceBinding, TLC

CONSTANTS p1, adm, b1, b2, b3

PublisherAndAdmin == {p1, adm}
OnlyAdmin == {adm}

\* Two people share the admin account; one also signs in as the publisher.
TwoBrowsers == {b1, b2}
TwoAdmins == [b \in Browsers |-> IF b = b1 THEN {adm} ELSE {adm, p1}]

\* One admin, and two browsers that race for the publisher's one slot.
ThreeBrowsers == {b1, b2, b3}
OneAdmin == [b \in Browsers |-> IF b = b1 THEN {adm} ELSE {p1}]
Publishers == Permutations({b2, b3})
=============================================================================
