--------------------------- MODULE MCProvisioning ---------------------------
(* One workspace that is provisioned, deprovisioned and provisioned again,  *)
(* with a subscription change and a beta-plan event in between.             *)
EXTENDS Provisioning

CONSTANTS w1, d1, d2, d3, d4, d5

Payload(seq, type, beta) == [ws |-> w1, seq |-> seq, type |-> type, beta |-> beta]

MCEventOf ==
    [d \in Deliveries |->
        CASE d = d1 -> Payload(1, "tenant.provisioned", FALSE)
          [] d = d2 -> Payload(2, "tenant.deprovisioned", FALSE)
          [] d = d3 -> Payload(3, "tenant.provisioned", FALSE)
          [] d = d4 -> Payload(4, "subscription_changed", FALSE)
          [] d = d5 -> Payload(5, "tenant.provisioned", TRUE)]

\* The platform makes up to eight attempts of each delivery; two show a repeat.
MCMaxAttempts == [d \in Deliveries |-> IF d = d2 THEN 2 ELSE 1]
=============================================================================
