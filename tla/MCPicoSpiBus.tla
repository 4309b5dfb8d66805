---------------------------- MODULE MCPicoSpiBus ----------------------------
(* Small instances of PicoSpiBus.                                          *)
EXTENDS PicoSpiBus, TLC

(* No definition tells one device, or one chip-select pin, from another.   *)
Symmetry == Permutations(CsPins) \cup Permutations(Devices)

=============================================================================
