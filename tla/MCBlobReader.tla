---------------------------- MODULE MCBlobReader ----------------------------
(* Model-checking instance of BlobReader: tactics small enough for TLC,   *)
(* large enough to have empty data shards, parity and over-read.          *)
EXTENDS BlobReader

MCN == 2
MCM == 2
MCX == 1
=============================================================================
