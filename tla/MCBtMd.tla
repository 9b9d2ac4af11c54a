------------------------------- MODULE MCBtMd -------------------------------
(* BtMd with the lists a caller may subscribe to.                          *)
EXTENDS BtMd

CONSTANTS ma, rb, au

MCLists == {<<>>, <<ma>>, <<rb, ma>>, <<ma, rb, au>>}
=============================================================================
