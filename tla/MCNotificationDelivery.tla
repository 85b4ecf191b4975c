------------------------ MODULE MCNotificationDelivery ------------------------
(***************************************************************************)
(* Small instances of NotificationDelivery: two Queue messages that ask    *)
(* for the same notification.                                              *)
(***************************************************************************)
EXTENDS NotificationDelivery, TLC

CONSTANTS a, b, m, n

\* Two messages without an operation: the owner is the message id.
OwnOwners == [x \in Message |-> x]
\* Two messages of one stable operation.
OneOwner == [x \in Message |-> m]
Symmetry == Permutations(Worker)
=============================================================================
