----------------------------- MODULE MCPicoPins -----------------------------
(* Small instances of PicoPins.                                            *)
EXTENDS PicoPins

(* Pins of both I2C controllers, and a pair that mixes them; GP23 has      *)
(* neither.                                                                *)
SomeI2cPins == {<<0, 1>>, <<2, 3>>, <<0, 3>>, <<23, 24>>}
SomeSpiPins == {<<2, 3, 4>>, <<2, 3, 12>>, <<10, 11, 12>>}
SomeUartPins == {<<0, 1>>, <<4, 5>>, <<25, 1>>}

=============================================================================
