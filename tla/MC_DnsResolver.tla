--------------------------- MODULE MC_DnsResolver ---------------------------
(* Small instance of DnsResolver for TLC. DNS transaction ids are model    *)
(* values, interchangeable, so they form a symmetry set.                   *)
EXTENDS DnsResolver, TLC

CONSTANTS w1, w2, w3, w4

MCWireIds == {w1, w2, w3, w4}
MCWireIds2 == {w1, w2}
Symmetry == Permutations(MCWireIds)
=============================================================================
