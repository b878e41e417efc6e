------------------------------ MODULE MCPlan ------------------------------
(***************************************************************************)
(* Every list of four open items of two partners, two dates and amounts    *)
(* of up to two cents, for TLC.                                            *)
(***************************************************************************)
EXTENDS PlanPetlja

CONSTANTS k1, k2

MCKartice == {k1, k2}
=============================================================================
