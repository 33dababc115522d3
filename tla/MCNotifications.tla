-------------------------- MODULE MCNotifications --------------------------
(* The channels are subscribed to every severity.                          *)
EXTENDS Notifications

SubscribedAll == [c \in Channel |-> Severity]
=============================================================================
