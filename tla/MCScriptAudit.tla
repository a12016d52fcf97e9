--------------------------- MODULE MCScriptAudit ---------------------------
(* ScriptAudit with three concurrent requests.                              *)
EXTENDS ScriptAudit
=============================================================================
