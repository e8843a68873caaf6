---------------------------- MODULE MCNetplanAgent ----------------------------
(***************************************************************************)
(* Instances of NetplanAgent for TLC.                                       *)
(***************************************************************************)
EXTENDS NetplanAgent, TLC

\* MACs that differ in neither BadMACs nor InitAbsent, and configurations, are
\* interchangeable; sound for safety.
MacSymmetry == Permutations(MACs \ (BadMACs \cup InitAbsent))
               \cup Permutations(Cfgs)
=============================================================================
