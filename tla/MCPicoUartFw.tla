---------------------------- MODULE MCPicoUartFw ----------------------------
(* Small instances of PicoUartFw.                                          *)
EXTENDS PicoUartFw

=============================================================================
