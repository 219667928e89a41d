---------------------------- MODULE MCStripeUsage ----------------------------
(* A short calendar for TLC: months of 3, 2 and 3 days, of 2 ticks each, and *)
(* an activation on the last day of the first, half a second past a whole   *)
(* minute, so that Stripe's periods end a tick before DataVault's.          *)
EXTENDS StripeUsage

Days == <<3, 2, 3>>
=============================================================================
