----------------------------- MODULE MCReading -----------------------------
(***************************************************************************)
(* Reading with the values that MCRuntime gives for its run `reading'.     *)
(***************************************************************************)
EXTENDS Reading, MCRuntime
=============================================================================
