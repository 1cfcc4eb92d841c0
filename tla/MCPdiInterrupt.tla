--------------------------- MODULE MCPdiInterrupt ---------------------------
(***************************************************************************)
(* PdiInterrupt with a few PDOs; the counter does not wrap.                *)
(***************************************************************************)
EXTENDS PdiInterrupt

=============================================================================
