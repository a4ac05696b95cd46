----------------------------- MODULE MCVbanRing -----------------------------
(* The ring on 5 bytes of storage, offered two to three laps of bytes by   *)
(* requests that are smaller than, equal to and larger than what fits.     *)
EXTENDS VbanRing

MCWriteSizes == {1, 3, 5}
MCReadSizes == {2, 3, 6}

=============================================================================
