------------------------ MODULE MCClaimableResource ------------------------
(* ClaimableResource with a few claimers, all alike.                        *)
EXTENDS ClaimableResource


=============================================================================
