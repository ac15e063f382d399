---------------------------- MODULE MCShardFetch ----------------------------
(* Instance of ShardFetch for TLC: the cached disk and one other disk the  *)
(* refreshed volume may name, and the three attempts of the code.          *)
EXTENDS ShardFetch

CONSTANTS d0, d1

MCDisks == {d0, d1}
=============================================================================
