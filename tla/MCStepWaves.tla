---------------------------- MODULE MCStepWaves ----------------------------
(***************************************************************************)
(* StepWaves on every plan of three steps, cycles included.                *)
(***************************************************************************)
EXTENDS StepWaves
MCStep == 1 .. 3
=============================================================================
