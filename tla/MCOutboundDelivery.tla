------------------------- MODULE MCOutboundDelivery -------------------------
(* Two deliveries, a batch of one, and as many outages as the cfg allows.  *)
EXTENDS OutboundDelivery, TLC

MCDeliveries == 1..2

=============================================================================
