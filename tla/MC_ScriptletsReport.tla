------------------------ MODULE MC_ScriptletsReport ------------------------
(* The composed scriptlets run, rendered by output_lint(). *)
EXTENDS ScriptletsReport, MC_ScriptletsDriver
=============================================================================
