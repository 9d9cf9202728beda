-------------------------- MODULE MCProviderConfigs --------------------------
(* Small instances of ProviderConfigs. *)
EXTENDS ProviderConfigs
=============================================================================
