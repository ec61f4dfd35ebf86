----------------------------- MODULE MCSharedProp -----------------------------
\* Small instances of SharedProp for TLC.
EXTENDS SharedProp

\* Two values of one length, one shorter, a long one, and one too long to replace it.
MCValues == 1..5
MCValLen == [v \in 0..5 |-> IF v = 0 THEN 0 ELSE IF v <= 2 THEN 9
                            ELSE IF v = 3 THEN 4 ELSE IF v = 4 THEN 92 ELSE 97]

MCSameLength    == {1, 2}
MCSameLengthLen == [v \in 0..2 |-> MCValLen[v]]
===============================================================================
