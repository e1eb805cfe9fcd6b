--------------------------- MODULE MCSiteVerdicts ---------------------------
(* The instance of SiteVerdicts that TLC checks.                             *)
EXTENDS SiteVerdicts

CONSTANTS unit, cover
=============================================================================
