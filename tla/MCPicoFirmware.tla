--------------------------- MODULE MCPicoFirmware ---------------------------
(* Small instances of PicoFirmware.                                        *)
EXTENDS PicoFirmware

=============================================================================
