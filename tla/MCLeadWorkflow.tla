--------------------------- MODULE MCLeadWorkflow ---------------------------
(* Two attempts per activity are enough for a retry that overlaps the        *)
(* attempt it replaces, and for the last attempt that fails the run.         *)
EXTENDS LeadWorkflow

Allow == {"ALLOW"}
AllowOrBlock == {"ALLOW", "BLOCK"}
=============================================================================
