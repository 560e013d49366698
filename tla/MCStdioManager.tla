--------------------------- MODULE MCStdioManager ---------------------------
(***************************************************************************)
(* TLC instances of StdioManager.  *)
(***************************************************************************)
EXTENDS StdioManager

=============================================================================
