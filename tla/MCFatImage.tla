----------------------------- MODULE MCFatImage -----------------------------
(* The layout scaled down: sectors of 8 bytes, a FAT entry of 6 bits.  Every *)
(* file length from empty to two clusters past the limit is built.           *)
EXTENDS FatImage
=============================================================================
