----------------------------- MODULE MCProviders -----------------------------
(* Providers for TLC; the constants are in the configuration.              *)
EXTENDS Providers
=============================================================================
