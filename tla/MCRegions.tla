----------------------------- MODULE MCRegions -----------------------------
(* Regions for TLC.                                                        *)
EXTENDS Regions
=============================================================================
