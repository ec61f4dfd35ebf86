------------------------------ MODULE PropLayout ------------------------------
(***************************************************************************)
(* The layout of a property area (crates/prop-rs/src/prop_info.rs): the    *)
(* sizes of its objects, the order of name segments, and the keys and      *)
(* values the programs handle.  Offsets are relative to data_[].           *)
(***************************************************************************)
EXTENDS Integers, Sequences

CONSTANTS
  Keys,     \* the keys callers use: non-empty sequences of segments
  KeyLen,   \* KeyLen[k]: the bytes of key k, its dots included
  Values    \* the values callers write

(***************************************************************************)
(* A segment is what validate_key cuts out between two dots: its length    *)
(* and the rank of its bytes among the segments of that length, which is   *)
(* all that cmp_prop_name looks at.  A value is its length and an identity.*)
(***************************************************************************)
Segment == [len : Nat \ {0}, text : Nat]
Value   == [len : Nat, text : Nat]

ASSUME KeysAssumption   == Keys \subseteq Seq(Segment) \ {<<>>}
ASSUME KeyLenAssumption == KeyLen \in [Keys -> Nat \ {0}]
ASSUME ValuesAssumption == Values \subseteq Value

RootName == [len |-> 0, text |-> 0]

PROP_VALUE_MAX             == 92
PROP_TRIE_NODE_HEADER_SIZE == 20
PROP_INFO_SIZE             == 96
DIRTY_BACKUP_SIZE          == 92
INITIAL_BYTES_USED         == PROP_TRIE_NODE_HEADER_SIZE + DIRTY_BACKUP_SIZE

\* The string an old reader finds in the value field of a long property.
LONG_LEGACY_ERROR == [len |-> 50, text |-> 0]

align_up(n) == ((n + 3) \div 4) * 4

NodeSize(name) ==
  align_up(PROP_TRIE_NODE_HEADER_SIZE + (IF name.len = 0 THEN 0 ELSE name.len + 1))
InfoSize(key)  == align_up(PROP_INFO_SIZE + KeyLen[key] + 1)
LongSize(val)  == align_up(val.len + 1)

IsLong(val) == val.len >= PROP_VALUE_MAX

\* cmp_prop_name: the shorter segment first, then byte order.
Before(a, b) == a.len < b.len \/ (a.len = b.len /\ a.text < b.text)

(***************************************************************************)
(* Partial functions from offsets to objects.                              *)
(***************************************************************************)
Put(f, x, y) == [z \in DOMAIN f \cup {x} |-> IF z = x THEN y ELSE f[z]]
Drop(f, x)   == [z \in DOMAIN f \ {x} |-> f[z]]
===============================================================================
