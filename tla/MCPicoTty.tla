----------------------------- MODULE MCPicoTty -----------------------------
(* Small instances of PicoTty.                                             *)
EXTENDS PicoTty

=============================================================================
