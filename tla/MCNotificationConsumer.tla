----------------------- MODULE MCNotificationConsumer -----------------------
(***************************************************************************)
(* Small instances of NotificationConsumer for TLC.                        *)
(***************************************************************************)
EXTENDS NotificationConsumer

CONSTANTS c1, x1, p1, p2

OneConfirmation == {c1}
OnePoison == {x1}
TwoReplicas == {p1, p2}
=============================================================================
