--------------------------- MODULE MCDriftDetection ---------------------------
(***************************************************************************)
(* Instances of DriftDetection for TLC: addresses of two bits, so that a    *)
(* network has hosts and there is more than one network.                    *)
(***************************************************************************)
EXTENDS DriftDetection

\* A nonsensical value, NULL, and the schema's default.
SomeMtus == {-1, 0, 1500}
=============================================================================
