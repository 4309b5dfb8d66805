---------------------------- MODULE MCPicoDriver ----------------------------
(* Small instances of PicoDriver.                                          *)
EXTENDS PicoDriver

(* Kinds share no list, flag or mutex: a behaviour has commands of one,    *)
(* and chip selects of SPI.                                                *)
OneKind == {{"led"}, {"servo"}, {"adc"}, {"i2c"}, {"uart"}, {"spi", "cs"}}

=============================================================================
