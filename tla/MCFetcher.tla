----------------------------- MODULE MCFetcher -----------------------------
(* Instances of Fetcher for TLC; the values are in the cfg files. *)
EXTENDS Fetcher

=============================================================================
