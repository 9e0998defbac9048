-------------------------------- MODULE MCArena -------------------------------
(* Chunks of 4 bytes, requests up to 6; malloc aligns to 8.  Addresses leave  *)
(* room for every chunk that the bound allows.                               *)
EXTENDS Arena

MCAddresses == {0, 8, 16}
===============================================================================
