-------------------------------- MODULE MCVmm -------------------------------
(***************************************************************************)
(* An instance of Vmm, and of the memory manager below it, for TLC: blocks *)
(* of 4 bytes, tables of 7 entries, and a memory of 8 blocks of which one  *)
(* lies beyond the identity map of the first 7.                            *)
(***************************************************************************)
EXTENDS Vmm

\* Two regions with a hole of one block, and a region to be taken out that is empty.
VmmMap == {<<0, 16>>, <<20, 12>>}
NoDeinits == {<<32, 0>>}

\* Bound: the TLB may hold at most so many translations that the tables no longer give.
MaxStale == 2
FewStale == Cardinality(stale) <= MaxStale
=============================================================================
