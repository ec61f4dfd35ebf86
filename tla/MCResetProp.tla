------------------------------ MODULE MCResetProp ------------------------------
\* Small instances of ResetProp for TLC: two persist.* properties and ro.x, which also has
\* the name ro.appcompat_override.x.
EXTENDS ResetProp, TLC

CONSTANTS p1, p2, k1, k2, ro_x, alias_x

MCProcs == {p1, p2}
MCKeys  == {k1, k2}
MCNames == {k1, k2, ro_x, alias_x}
MCStrip == [n \in MCNames |-> IF n = alias_x THEN ro_x ELSE n]
MCFiles == {<<<<k1, 1>>, <<k2, 1>>>>}

MCSymmetry == Permutations(MCProcs)
===============================================================================
