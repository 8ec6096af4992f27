------------------------ MODULE MCConfigurationStore ------------------------
(* Enough cuts to interrupt a write, the recovery from it, and that again.  *)
EXTENDS ConfigurationStore
=============================================================================
