----------------------------- MODULE MCRateLimit ----------------------------
(* RateLimit with the ratio of the code: 30 seconds to 5 minutes. *)
EXTENDS RateLimit
=============================================================================
