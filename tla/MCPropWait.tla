------------------------------ MODULE MCPropWait ------------------------------
\* Small instances of PropWait for TLC.
EXTENDS PropWait

MCValues == {1, 2}
MCValLen == [v \in 0..2 |-> 9 * v]

MCExists    == {Anything}
MCChange    == {[given |-> TRUE, val |-> 1]}
MCOldValues == MCExists \cup MCChange
===============================================================================
