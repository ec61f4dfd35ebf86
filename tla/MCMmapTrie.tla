------------------------------- MODULE MCMmapTrie -------------------------------
\* Small instances of MmapTrie for TLC.
EXTENDS MmapTrie, SequencesExt, TLC

CONSTANTS w1, w2

Seg(l, t) == [len |-> l, text |-> t]
b  == Seg(1, 2)
a  == Seg(1, 1)
aa == Seg(2, 1)

MCKeys   == {<<b>>, <<b, a>>, <<aa>>}
MCKeyLen == [k \in MCKeys |-> FoldSeq(LAMBDA s, n : s.len + n, Len(k) - 1, k)]
MCValues == {[len |-> 1, text |-> 1], [len |-> 92, text |-> 2]}

\* The writers are alike.
MCWriters == Permutations({w1, w2})
===============================================================================
