----------------------------- MODULE MCAutoPull -----------------------------
(* The instance of AutoPull that TLC checks: four issues, one worker.        *)
EXTENDS AutoPull
=============================================================================
