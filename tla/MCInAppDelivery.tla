-------------------------- MODULE MCInAppDelivery --------------------------
(* The integrated channel is subscribed to every severity.                 *)
EXTENDS InAppDelivery

SubscribedAll == [c \in Channel |-> Severity]
=============================================================================
