-------------------------------- MODULE MCJev --------------------------------
(* Small instances of JevClient for TLC. *)
EXTENDS JevClient

\* 10.05 - 10.00 is more than 0.05 in float64, and 10.10 - 10.05 is less.
MCUnevenPairs == {<<1005, 1000>>, <<1000, 1005>>}
=============================================================================
