---------------------------- MODULE MC_Checkout ----------------------------
(* A source file, a credentials file and build output; two retries, the    *)
(* second of which no longer fits after a probe.                           *)
EXTENDS Checkout

MCFiles       == {"code", "env", "built"}
MCIgnored     == {"built"}
MCSensitive   == {"env"}
MCRetryDelays == <<1, 2>>
=============================================================================
