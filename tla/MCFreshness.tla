---------------------------- MODULE MCFreshness -----------------------------
(* Freshness on two files and one client at a time, with a trigger channel *)
(* of one place: full as soon as one trigger waits.                        *)
EXTENDS Freshness
=============================================================================
