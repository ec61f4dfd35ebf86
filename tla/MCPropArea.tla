------------------------------- MODULE MCPropArea -------------------------------
\* Small instances of PropAreaCompact for TLC.
EXTENDS PropAreaStore, SequencesExt

Seg(l, t) == [len |-> l, text |-> t]
a  == Seg(1, 1)
b  == Seg(1, 2)
aa == Seg(2, 1)

MCKeys   == {<<b>>, <<b, a>>, <<aa>>}
MCKeyLen == [k \in MCKeys |-> FoldSeq(LAMBDA s, n : s.len + n, Len(k) - 1, k)]

\* Fewer keys for liveness.
MCFewKeys   == {<<b>>, <<b, a>>}
MCFewKeyLen == [k \in MCFewKeys |-> MCKeyLen[k]]

MCFewValues == {[len |-> 1, text |-> 1], [len |-> 92, text |-> 2]}
MCValues == {[len |-> 1, text |-> 1], [len |-> 92, text |-> 2], [len |-> 96, text |-> 3]}
===============================================================================
