----------------------------- MODULE MCLifecycle -----------------------------
(***************************************************************************)
(* Instance of Lifecycle for TLC.                                           *)
(***************************************************************************)
EXTENDS Lifecycle

\* The values of the chart are ones the theorems are about.
ASSUME ChartIsCovered == CapIsLate /\ ShortPolls
=============================================================================
