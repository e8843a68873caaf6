----------------------------- MODULE MCRHELAgent -----------------------------
(***************************************************************************)
(* Instances of RHELAgent for TLC.                                          *)
(***************************************************************************)
EXTENDS RHELAgent, TLC

\* Sound for safety, as in MCNetplanAgent.
MacSymmetry == Permutations(MACs \ (BadMACs \cup InitAbsent))
               \cup Permutations(Cfgs)
=============================================================================
