------------------------ MODULE MCHitchOrchestrator ------------------------
(* Small instances of HitchOrchestrator.                                     *)
EXTENDS HitchOrchestrator, TLC

CONSTANTS d1, d2

(* Drives are interchangeable: used for the safety run only.                 *)
DriveSymmetry == Permutations(Drives)
=============================================================================
