---------------------------- MODULE PropAreaProofs ----------------------------
(***************************************************************************)
(* What the operations of a property area keep true whatever its size, the *)
(* keys and the values: proofs about PropArea.                             *)
(***************************************************************************)
EXTENDS PropArea, TLAPS

\* align_up never makes an object smaller, and keeps the order of sizes.
LEMMA AlignUp ==
  ASSUME NEW m \in Nat, NEW n \in Nat
  PROVE  /\ align_up(n) \in Nat /\ n <= align_up(n)
         /\ m <= n => align_up(m) <= align_up(n)
  BY DEF align_up

\* Every object takes at least a byte, and a shorter value no more than a longer.
LEMMA Sizes ==
  /\ \A name \in Segment \cup {RootName} : NodeSize(name) \in Nat /\ NodeSize(name) > 0
  /\ \A key \in Keys : InfoSize(key) \in Nat /\ InfoSize(key) > 0
  /\ \A val \in Value : LongSize(val) \in Nat /\ LongSize(val) > 0
  /\ \A v, w \in Value : v.len <= w.len => LongSize(v) <= LongSize(w)
<1>1. ASSUME NEW name \in Segment \cup {RootName}
      PROVE  NodeSize(name) \in Nat /\ NodeSize(name) > 0
  <2>1. name.len \in Nat BY DEF Segment, RootName
  <2> DEFINE n == PROP_TRIE_NODE_HEADER_SIZE + (IF name.len = 0 THEN 0 ELSE name.len + 1)
  <2>2. n \in Nat /\ n > 0 BY <2>1 DEF PROP_TRIE_NODE_HEADER_SIZE
  <2>3. align_up(n) \in Nat /\ n <= align_up(n) BY ONLY <2>2, AlignUp
  <2> QED BY <2>2, <2>3 DEF NodeSize
<1>2. ASSUME NEW key \in Keys PROVE InfoSize(key) \in Nat /\ InfoSize(key) > 0
  <2> DEFINE n == PROP_INFO_SIZE + KeyLen[key] + 1
  <2>1. n \in Nat /\ n > 0 BY KeyLenAssumption DEF PROP_INFO_SIZE
  <2>2. align_up(n) \in Nat /\ n <= align_up(n) BY ONLY <2>1, AlignUp
  <2> QED BY <2>1, <2>2 DEF InfoSize
<1>3. ASSUME NEW v \in Value, NEW w \in Value
      PROVE  /\ LongSize(v) \in Nat /\ LongSize(v) > 0
             /\ v.len <= w.len => LongSize(v) <= LongSize(w)
  <2>1. v.len \in Nat /\ w.len \in Nat BY DEF Value
  <2> DEFINE m == v.len + 1
             n == w.len + 1
  <2>2. m \in Nat /\ n \in Nat /\ m > 0 /\ (v.len <= w.len => m <= n) BY <2>1
  <2>3. align_up(m) \in Nat /\ m <= align_up(m) /\ (m <= n => align_up(m) <= align_up(n))
    BY ONLY <2>2, AlignUp
  <2> QED BY <2>2, <2>3 DEF LongSize
<1> QED BY <1>1, <1>2, <1>3

-------------------------------------------------------------------------------
(***************************************************************************)
(* The inductive invariant.  NoOverlap and the ascending links survive a   *)
(* write only if no other link leads to what is wiped or pruned: nodes,    *)
(* prop_infos and long values have at most one referer each; and only if   *)
(* what an operation holds in fresh is reserved for it.                    *)
(***************************************************************************)
\* No offset holds two objects.
Apart ==
  /\ DOMAIN node \cap DOMAIN info = {}
  /\ DOMAIN node \cap DOMAIN long = {}
  /\ DOMAIN info \cap DOMAIN long = {}

OneParent ==
  \A o, q \in DOMAIN node : \A f, g \in Links :
    node[o].link[f] # 0 /\ node[o].link[f] = node[q].link[g] => o = q /\ f = g

OneOwner ==
  \A o, q \in DOMAIN node : node[o].prop # 0 /\ node[o].prop = node[q].prop => o = q

LongsHeld ==
  /\ \A p \in DOMAIN info : /\ info[p].is_long => info[p].rel # 0
                            /\ info[p].rel # 0 => p + info[p].rel \in DOMAIN long
  /\ \A p, q \in DOMAIN info :
       info[p].rel # 0 /\ info[q].rel # 0 /\ p + info[p].rel = q + info[q].rel => p = q

Unowned(p) == \A o \in DOMAIN node : node[o].prop # p

Reserved ==
  pc = "alloc_long" =>
    /\ fresh + InfoSize(call.key) <= bytes_used
    /\ \A o \in Objects : o + ObjectSize(o) <= fresh

Control ==
  /\ pc = "idle" => cur = 0
  /\ pc \in {"descend", "sibling", "wipe", "alloc_long", "link", "publish_new", "publish"}
       => call.key \in Keys
  /\ pc \in {"descend", "sibling", "wipe", "alloc_long", "link"} => cur \in DOMAIN node
  /\ pc = "sibling" => depth < Len(call.key)
  /\ pc \in {"wipe", "link", "publish_new", "publish"} => fresh \in DOMAIN info
  /\ pc \in {"wipe", "link"} => Unowned(fresh)
  /\ pc = "link" => cur < fresh
  /\ pc \in {"link", "publish_new"} /\ IsLong(call.val) => info[fresh].rel # 0

Heap ==
  /\ AreaTypeOK /\ 0 \in DOMAIN node /\ Apart
  /\ TrieAscends /\ OneParent /\ OwnersAscend /\ OneOwner /\ NoOverlap /\ LongsHeld

Inv == Heap /\ ControlTypeOK /\ Control /\ Reserved

-------------------------------------------------------------------------------
\* An area as create leaves it: the root node alone, and room for the backup.
THEOREM InitInv == Init => Inv
<1> SUFFICES ASSUME Init PROVE Inv
  OBVIOUS
<1> USE DEF Init
<1>1. RootName.len = 0 /\ NodeSize(RootName) = PROP_TRIE_NODE_HEADER_SIZE
  BY DEF RootName, NodeSize, align_up, PROP_TRIE_NODE_HEADER_SIZE
<1>2. DOMAIN node = {0} /\ DOMAIN info = {} /\ DOMAIN long = {}
  OBVIOUS
<1>3. node[0] = NewNode(RootName)
  OBVIOUS
<1>4. INITIAL_BYTES_USED \in Offset /\ 0 \in Offset
  BY DataSizeAssumption DEF Offset, INITIAL_BYTES_USED, PROP_TRIE_NODE_HEADER_SIZE, DIRTY_BACKUP_SIZE
<1>5. NewNode(RootName) \in Node
  BY <1>4 DEF NewNode, Node
<1>6. AreaTypeOK
  BY <1>2, <1>3, <1>4, <1>5 DEF AreaTypeOK
<1>7. NoOverlap
  BY <1>1, <1>2, <1>3 DEF NoOverlap, Objects, ObjectSize, NewNode, INITIAL_BYTES_USED,
    PROP_TRIE_NODE_HEADER_SIZE, DIRTY_BACKUP_SIZE
<1>8. Apart /\ TrieAscends /\ OneParent /\ OwnersAscend /\ OneOwner /\ LongsHeld
  BY <1>2, <1>3 DEF Apart, TrieAscends, OneParent, OwnersAscend, OneOwner, LongsHeld, NewNode
<1>9. ControlTypeOK
  BY <1>4 DEF ControlTypeOK, Places, Call, NoCall, Ops, NoValue, Value, Result, Status
<1>10. Control /\ Reserved
  BY DEF Control, Reserved
<1> QED BY <1>2, <1>6, <1>7, <1>8, <1>9, <1>10 DEF Inv, Heap

\* A step that leaves the area alone keeps it well formed.
LEMMA SameArea == ASSUME Heap, UNCHANGED area PROVE Heap'
  BY DEF Heap, area, AreaTypeOK, Apart, TrieAscends, OneParent, OwnersAscend, OneOwner,
    NoOverlap, Objects, ObjectSize, LongsHeld

\* Where a walk stands while a segment is still to be found.
LEMMA WalkFacts ==
  ASSUME Inv, Walking
  PROVE  /\ cur \in DOMAIN node /\ call.key \in Keys /\ depth + 1 \in 1..Len(call.key)
         /\ Target \in Segment /\ Branch \in Links /\ NextLink \in Offset
<1>1. cur \in DOMAIN node /\ call.key \in Keys /\ depth \in Nat
  BY DEF Inv, Control, ControlTypeOK, Walking
<1>2. call.key \in Seq(Segment)
  BY <1>1, KeysAssumption
<1>3. depth < Len(call.key)
  BY DEF Inv, Control, Walking
<1>4. depth + 1 \in 1..Len(call.key)
  BY <1>1, <1>2, <1>3
<1>5. Target \in Segment
  BY <1>2, <1>4 DEF Target
<1>6. Branch \in Links
  BY DEF Branch, Links
<1>7. NextLink \in Offset
  BY <1>1, <1>6 DEF NextLink, Inv, Heap, AreaTypeOK, Node
<1> QED BY <1>1, <1>4, <1>5, <1>6, <1>7

LEMMA FollowInv == ASSUME Inv, Follow PROVE Inv'
<1> USE DEF Follow, Goto
<1>1. Walking /\ NextLink # 0 /\ cur' = NextLink /\ UNCHANGED <<area, depth, fresh, call, ret>>
  OBVIOUS
<1>2. cur' \in DOMAIN node
  BY <1>1, WalkFacts DEF Inv, Heap, TrieAscends, NextLink
<1>3. Heap'
  BY <1>1, SameArea DEF Inv
<1>4. ControlTypeOK'
  BY <1>1, WalkFacts DEF Inv, ControlTypeOK, Places
<1>5. Control'
  BY <1>1, <1>2, WalkFacts DEF Control, area, Inv, ControlTypeOK
<1> QED BY <1>3, <1>4, <1>5 DEF Inv, Reserved

\* An operation that returns leaves nothing reserved.
LEMMA EndedInv ==
  ASSUME Heap', NEW is \in Status, NEW val \in Value, Return(is, val)
  PROVE  Inv'
<1>1. pc' = "idle" /\ call' = NoCall /\ ret' = [is |-> is, val |-> val]
      /\ cur' = 0 /\ depth' = 0 /\ fresh' = 0
  BY DEF Return, Result
<1>2. 0 \in Offset
  BY DataSizeAssumption DEF Offset
<1>3. ControlTypeOK'
  BY <1>1, <1>2 DEF ControlTypeOK, Places, Call, NoCall, Ops, NoValue, Value
<1> QED BY <1>1, <1>3 DEF Inv, Control, Reserved

LEMMA NoValueIsAValue == NoValue \in Value
  BY DEF NoValue, Value

LEMMA RequestInv == ASSUME Inv, Request PROVE Inv'
<1>1. PICK op \in {"get", "set", "delete"}, key \in Keys, val \in Value : Begin(op, key, val)
  BY ValuesAssumption, NoValueIsAValue
  DEF Request, get_property, set_property, delete_property
<1>2. /\ pc = "idle" /\ pc' = "descend" /\ call' = [op |-> op, key |-> key, val |-> val]
      /\ ret' = [is |-> "pending", val |-> NoValue] /\ UNCHANGED <<area, cur, depth, fresh>>
  BY <1>1 DEF Begin, Result, walk
<1>3. Heap'
  BY <1>2, SameArea DEF Inv
<1>4. ControlTypeOK'
  BY <1>2, NoValueIsAValue DEF Inv, ControlTypeOK, Places, Call, Ops, Status
<1>5. Control'
  <2>1. cur = 0 /\ 0 \in DOMAIN node
    BY <1>2 DEF Inv, Heap, Control
  <2> QED BY <1>2, <2>1 DEF Control, area
<1> QED BY <1>2, <1>3, <1>4, <1>5 DEF Inv, Reserved

LEMMA MatchInv == ASSUME Inv, Match PROVE Inv'
<1>1. /\ pc = "sibling" /\ pc' = "descend" /\ depth' = depth + 1
      /\ UNCHANGED <<area, cur, fresh, call, ret>>
  BY DEF Match, Matched, Goto
<1>2. Heap'
  BY <1>1, SameArea DEF Inv
<1>3. ControlTypeOK'
  BY <1>1 DEF Inv, ControlTypeOK, Places
<1> QED BY <1>1, <1>2, <1>3 DEF Inv, Control, Reserved, area

\* A property that a node owns: its prop_info is there and its value is a value.
LEMMA SlotFacts ==
  ASSUME Inv, Arrived
  PROVE  /\ cur \in DOMAIN node /\ call.key \in Keys /\ call.val \in Value
         /\ Slot \in Offset
         /\ Slot # 0 => Slot \in DOMAIN info /\ cur < Slot /\ ReadValue(Slot) \in Value
<1>1. cur \in DOMAIN node /\ call.key \in Keys /\ call.val \in Value
  BY DEF Inv, Control, ControlTypeOK, Call, Arrived
<1>2. Slot \in Offset
  BY <1>1 DEF Slot, Inv, Heap, AreaTypeOK, Node
<1>3. ASSUME Slot # 0 PROVE Slot \in DOMAIN info /\ cur < Slot
  BY <1>1, <1>3 DEF Slot, Inv, Heap, OwnersAscend
<1>4. ASSUME Slot # 0 PROVE ReadValue(Slot) \in Value
  BY <1>3, <1>4 DEF ReadValue, Inv, Heap, AreaTypeOK, LongsHeld, Info
<1> QED BY <1>1, <1>2, <1>3, <1>4

\* The steps that end an operation and leave the area as it is.
LEMMA EndingInv ==
  ASSUME Inv, Miss \/ GrowTrieFull \/ ReadSlot \/ NothingToDelete \/ AllocFull \/ PruneDone
  PROVE  Inv'
<1>1. UNCHANGED area
  BY DEF Miss, GrowTrieFull, ReadSlot, NothingToDelete, AllocFull, PruneDone
<1>2. \E is \in Status, val \in Value : Return(is, val)
  <2>1. CASE ReadSlot
    <3>1. Slot # 0 => ReadValue(Slot) \in Value
      BY <2>1, SlotFacts DEF ReadSlot
    <3> QED BY <2>1, <3>1, NoValueIsAValue DEF ReadSlot, Status
  <2>2. CASE ~ReadSlot
    BY <2>2, NoValueIsAValue
    DEF Miss, GrowTrieFull, NothingToDelete, AllocFull, PruneDone, Status
  <2> QED BY <2>1, <2>2
<1>3. Heap'
  BY <1>1, SameArea DEF Inv
<1> QED BY <1>2, <1>3, EndedInv

-------------------------------------------------------------------------------
\* Every object takes room below bytes_used, so the next offset is free.
LEMMA ObjectFacts ==
  ASSUME Heap
  PROVE  /\ \A o \in Objects : o \in Offset /\ ObjectSize(o) \in Nat /\ ObjectSize(o) > 0
                               /\ o < bytes_used
         /\ bytes_used \notin Objects
<1>1. ASSUME NEW o \in Objects
      PROVE  o \in Offset /\ ObjectSize(o) \in Nat /\ ObjectSize(o) > 0
  <2>1. CASE o \in DOMAIN node
    <3>1. o \in Offset /\ node[o].name \in Segment \cup {RootName}
      BY <2>1 DEF Heap, AreaTypeOK, Node
    <3> QED BY <2>1, <3>1, Sizes DEF ObjectSize
  <2>2. CASE o \notin DOMAIN node /\ o \in DOMAIN info
    <3>1. o \in Offset /\ info[o].key \in Keys
      BY <2>2 DEF Heap, AreaTypeOK, Info
    <3> QED BY <2>2, <3>1, Sizes DEF ObjectSize
  <2>3. CASE o \notin DOMAIN node /\ o \notin DOMAIN info /\ o \in DOMAIN long
    <3>1. o \in Offset /\ long[o] \in Value
      BY <2>3 DEF Heap, AreaTypeOK
    <3> QED BY <2>3, <3>1, Sizes DEF ObjectSize
  <2> QED BY <2>1, <2>2, <2>3 DEF Objects
<1>2. ASSUME NEW o \in Objects PROVE o < bytes_used
  BY <1>1 DEF Heap, NoOverlap, AreaTypeOK, Offset
<1> QED BY <1>1, <1>2 DEF Heap, AreaTypeOK, Offset

\* An object allocated at bytes_used overlaps none.
LEMMA NewObjectApart ==
  ASSUME Heap, NEW b, b = bytes_used, NEW sz \in Nat, sz > 0, bytes_used' = b + sz,
         Objects' = Objects \cup {b},
         \A o \in Objects : ObjectSize(o)' = ObjectSize(o),
         \A o : o = b => ObjectSize(o)' = sz
  PROVE  NoOverlap'
<1>1. \A o \in Objects' : /\ o + ObjectSize(o)' <= bytes_used'
                          /\ \A q \in Objects' : o < q => o + ObjectSize(o)' <= q
  BY ObjectFacts DEF Heap, NoOverlap, AreaTypeOK, Offset
<1> QED BY <1>1 DEF NoOverlap

LEMMA GrowTrieInv == ASSUME Inv, GrowTrie PROVE Inv'
<1> DEFINE b == bytes_used
           sz == NodeSize(Target)
<1>1. /\ Walking /\ NextLink = 0 /\ b + sz <= DataSize /\ bytes_used' = b + sz
      /\ node' = Put([node EXCEPT ![cur].link[Branch] = b], b, NewNode(Target))
      /\ cur' = b /\ depth' = depth + 1 /\ pc' = "descend"
      /\ UNCHANGED <<info, long, fresh, call, ret>>
  BY DEF GrowTrie, Goto, Fits, Bump
<1>2. /\ cur \in DOMAIN node /\ call.key \in Keys /\ Target \in Segment /\ Branch \in Links
      /\ node[cur].link[Branch] = 0
  BY <1>1, WalkFacts DEF NextLink
<1>3. /\ b \in Offset /\ b \notin Objects /\ b > 0 /\ sz \in Nat /\ sz > 0
      /\ \A o \in Objects : o < b
  BY <1>2, ObjectFacts, Sizes DEF Inv, Heap, AreaTypeOK, Offset, Objects
<1>4. /\ DOMAIN node' = DOMAIN node \cup {b} /\ b \notin DOMAIN node
      /\ node'[b] = NewNode(Target)
      /\ \A o \in DOMAIN node : /\ node'[o].name = node[o].name
                                /\ node'[o].prop = node[o].prop
                                /\ node'[o].link = IF o = cur THEN [node[o].link EXCEPT ![Branch] = b]
                                                   ELSE node[o].link
                                /\ node'[o] \in Node
  <2>1. \A o \in DOMAIN node : node[o] \in Node
    BY DEF Inv, Heap, AreaTypeOK
  <2>2. DOMAIN node' = DOMAIN node \cup {b} /\ b \notin DOMAIN node /\ node'[b] = NewNode(Target)
    BY <1>1, <1>3 DEF Put, Objects
  <2>3. ASSUME NEW o \in DOMAIN node, o # cur PROVE node'[o] = node[o]
    BY <1>1, <1>2, <2>2, <2>3 DEF Put
  <2>4. /\ node'[cur].name = node[cur].name /\ node'[cur].prop = node[cur].prop
        /\ node'[cur].link = [node[cur].link EXCEPT ![Branch] = b]
        /\ node'[cur] \in Node
    BY <1>1, <1>2, <1>3, <2>1, <2>2 DEF Put, Node
  <2> QED BY <1>2, <1>3, <2>1, <2>2, <2>3, <2>4 DEF Node
<1>5. \A o \in DOMAIN node : \A f \in Links :
        node'[o].link[f] = IF o = cur /\ f = Branch THEN b ELSE node[o].link[f]
  BY <1>2, <1>4 DEF Inv, Heap, AreaTypeOK, Node
<1>6. \A f \in Links : node'[b].link[f] = 0
  BY <1>4 DEF NewNode
<1>7. node'[b].prop = 0 /\ node'[b].name = Target
  BY <1>4 DEF NewNode
<1>8. AreaTypeOK'
  <2>1. NewNode(Target) \in Node
    BY <1>2, DataSizeAssumption DEF NewNode, Node, Offset
  <2>2. \A o \in DOMAIN node' : node'[o] \in Node
    BY <1>4, <2>1
  <2>3. node' \in [DOMAIN node' -> Node]
    BY <1>1, <2>2 DEF Put
  <2>4. bytes_used' \in Offset
    BY <1>1, <1>3 DEF Offset
  <2> QED BY <1>1, <1>3, <1>4, <2>3, <2>4 DEF Inv, Heap, AreaTypeOK
<1>9. Apart' /\ 0 \in DOMAIN node'
  BY <1>1, <1>3, <1>4 DEF Inv, Heap, Apart, Objects
<1>10. TrieAscends'
  BY <1>2, <1>3, <1>4, <1>5, <1>6 DEF Inv, Heap, TrieAscends, Objects
<1>11. OneParent'
  <2>1. \A o \in DOMAIN node, f \in Links : node[o].link[f] # b
    BY <1>3, <1>4 DEF Inv, Heap, TrieAscends
  <2> QED BY <1>2, <1>4, <1>5, <1>6, <2>1 DEF Inv, Heap, OneParent
<1>12. OwnersAscend' /\ OneOwner'
  <2>1. \A o \in DOMAIN node' : node'[o].prop # 0 => o \in DOMAIN node /\ node'[o].prop = node[o].prop
    BY <1>4, <1>7
  <2>2. OwnersAscend'
    BY <1>1, <2>1 DEF Inv, Heap, OwnersAscend
  <2>3. OneOwner'
    BY <2>1 DEF Inv, Heap, OneOwner
  <2> QED BY <2>2, <2>3
<1>13. NoOverlap'
  <2>1. Objects' = Objects \cup {b}
    BY <1>1, <1>4 DEF Objects
  <2>2. \A o \in Objects : ObjectSize(o)' = ObjectSize(o)
    BY <1>1, <1>3, <1>4 DEF ObjectSize, Objects
  <2>3. \A o : o = b => ObjectSize(o)' = sz
    BY <1>4, <1>7 DEF ObjectSize
  <2> QED BY <1>1, <1>3, <2>1, <2>2, <2>3, NewObjectApart DEF Inv
<1>14. LongsHeld'
  BY <1>1 DEF Inv, Heap, LongsHeld
<1>15. Heap'
  BY <1>8, <1>9, <1>10, <1>11, <1>12, <1>13, <1>14 DEF Heap
<1>16. ControlTypeOK' /\ Control' /\ Reserved'
  BY <1>1, <1>2, <1>3, <1>4 DEF Inv, ControlTypeOK, Places, Control, Reserved
<1> QED BY <1>15, <1>16 DEF Inv

-------------------------------------------------------------------------------
\* Neither the trie nor who owns what changes: what a write to a prop_info or to a
\* long value keeps when it wipes no object and no object grows.
LEMMA SameTrie ==
  ASSUME Heap, UNCHANGED <<bytes_used, node>>, AreaTypeOK',
         DOMAIN info' = DOMAIN info, DOMAIN long' = DOMAIN long,
         \A p \in DOMAIN info : info'[p].key = info[p].key /\ info'[p].rel = info[p].rel,
         \A p \in DOMAIN info : info'[p].is_long => info[p].rel # 0,
         \A o \in DOMAIN long : LongSize(long'[o]) <= LongSize(long[o])
  PROVE  Heap'
<1>1. Apart' /\ TrieAscends' /\ OneParent' /\ OwnersAscend' /\ OneOwner' /\ LongsHeld'
  BY DEF Heap, Apart, TrieAscends, OneParent, OwnersAscend, OneOwner, LongsHeld
<1>2. Objects' = Objects
  BY DEF Objects
<1>3. \A o \in Objects : ObjectSize(o)' \in Nat /\ ObjectSize(o)' <= ObjectSize(o)
  <2> SUFFICES ASSUME NEW o \in Objects
               PROVE  ObjectSize(o)' \in Nat /\ ObjectSize(o)' <= ObjectSize(o)
    OBVIOUS
  <2>1. CASE o \in DOMAIN node \/ o \in DOMAIN info
    <3>1. ObjectSize(o)' = ObjectSize(o)
      BY <2>1 DEF ObjectSize
    <3> QED BY <3>1, ObjectFacts
  <2>2. CASE o \notin DOMAIN node /\ o \notin DOMAIN info
    <3>1. o \in DOMAIN long /\ long[o] \in Value /\ long'[o] \in Value
      BY <2>2 DEF Objects, Heap, AreaTypeOK
    <3>2. LongSize(long'[o]) \in Nat
      BY <3>1, Sizes
    <3> QED BY <2>2, <3>1, <3>2 DEF ObjectSize
  <2> QED BY <2>1, <2>2
<1>4. NoOverlap'
  BY <1>2, <1>3, ObjectFacts DEF Heap, NoOverlap, AreaTypeOK, Offset
<1> QED BY <1>1, <1>4 DEF Heap

LEMMA UpdateInPlaceInv == ASSUME Inv, UpdateInPlace PROVE Inv'
<1>1. /\ Arrived /\ Slot # 0 /\ FitsInPlace(Slot, call.val) /\ fresh' = Slot /\ pc' = "publish"
      /\ UNCHANGED <<bytes_used, node, cur, depth, call, ret>>
  BY DEF UpdateInPlace, Goto
<1>2. Slot \in DOMAIN info /\ Slot \in Offset /\ call.key \in Keys /\ call.val \in Value
  BY <1>1, SlotFacts
<1>3. Heap'
  <2>1. CASE info[Slot].is_long
    <3> DEFINE l == Slot + info[Slot].rel
    <3>1. long' = [long EXCEPT ![l] = call.val] /\ info' = info
      BY <2>1 DEF UpdateInPlace
    <3>2. l \in DOMAIN long /\ call.val.len <= long[l].len
      BY <1>1, <1>2, <2>1 DEF Inv, Heap, LongsHeld, FitsInPlace, ReadValue
    <3>3. long[l] \in Value /\ LongSize(call.val) <= LongSize(long[l])
      BY <1>2, <3>2, Sizes DEF Inv, Heap, AreaTypeOK
    <3>4. \A o \in DOMAIN long : LongSize(long[o]) \in Nat
      BY Sizes DEF Inv, Heap, AreaTypeOK
    <3>5. \A o \in DOMAIN long : LongSize(long'[o]) <= LongSize(long[o])
      BY <3>1, <3>2, <3>3, <3>4
    <3>6. AreaTypeOK'
      BY <1>1, <1>2, <3>1 DEF Inv, Heap, AreaTypeOK
    <3> QED BY <1>1, <3>1, <3>5, <3>6, SameTrie DEF Inv, Heap, LongsHeld
  <2>2. CASE ~info[Slot].is_long
    <3>1. info' = [info EXCEPT ![Slot].val = call.val] /\ long' = long
      BY <2>2 DEF UpdateInPlace
    <3>2. /\ DOMAIN info' = DOMAIN info
          /\ \A p \in DOMAIN info : /\ info'[p] \in Info /\ info'[p].key = info[p].key
                                    /\ info'[p].rel = info[p].rel
                                    /\ info'[p].is_long = info[p].is_long
      BY <1>2, <3>1 DEF Inv, Heap, AreaTypeOK, Info
    <3>3. AreaTypeOK'
      BY <1>1, <3>1, <3>2 DEF Inv, Heap, AreaTypeOK
    <3>4. \A o \in DOMAIN long : LongSize(long'[o]) <= LongSize(long[o])
      BY <3>1, Sizes DEF Inv, Heap, AreaTypeOK
    <3> QED BY <1>1, <3>1, <3>2, <3>3, <3>4, SameTrie DEF Inv, Heap, LongsHeld
  <2> QED BY <2>1, <2>2
<1>4. DOMAIN info' = DOMAIN info
  BY DEF UpdateInPlace
<1>5. ControlTypeOK' /\ Control' /\ Reserved'
  BY <1>1, <1>2, <1>4 DEF Inv, ControlTypeOK, Places, Control, Reserved
<1> QED BY <1>3, <1>5 DEF Inv

LEMMA PublishInv == ASSUME Inv, Publish PROVE Inv'
<1>1. PICK is_long \in BOOLEAN :
        /\ PublishLayout(is_long) /\ call.key \in Keys /\ fresh \in DOMAIN info
        /\ is_long => info[fresh].rel # 0
  <2>1. CASE pc = "publish_new" /\ PublishLayout(IsLong(call.val))
    <3>1. IsLong(call.val) \in BOOLEAN
      BY DEF IsLong
    <3> QED BY <2>1, <3>1 DEF Inv, Control
  <2>2. CASE pc = "publish" /\ PublishLayout(info[fresh].is_long)
    <3>1. fresh \in DOMAIN info /\ call.key \in Keys
      BY <2>2 DEF Inv, Control
    <3>2. info[fresh].is_long \in BOOLEAN /\ (info[fresh].is_long => info[fresh].rel # 0)
      BY <3>1 DEF Inv, Heap, AreaTypeOK, Info, LongsHeld
    <3> QED BY <2>2, <3>1, <3>2
  <2> QED BY <2>1, <2>2 DEF Publish
<1>2. /\ info' = [info EXCEPT ![fresh].serial_len = SerialLen(is_long, call.val),
                              ![fresh].is_long = is_long]
      /\ Return("ok", NoValue) /\ UNCHANGED <<bytes_used, node, long>>
  BY <1>1 DEF PublishLayout
<1>3. SerialLen(is_long, call.val) \in Nat
  BY DEF SerialLen, LONG_LEGACY_ERROR, Inv, ControlTypeOK, Call, Value
<1>4. /\ DOMAIN info' = DOMAIN info
      /\ \A p \in DOMAIN info : /\ info'[p] \in Info /\ info'[p].key = info[p].key
                                /\ info'[p].rel = info[p].rel
                                /\ info'[p].is_long = IF p = fresh THEN is_long ELSE info[p].is_long
  BY <1>1, <1>2, <1>3 DEF Inv, Heap, AreaTypeOK, Info
<1>5. AreaTypeOK'
  BY <1>2, <1>4 DEF Inv, Heap, AreaTypeOK
<1>6. \A o \in DOMAIN long : LongSize(long'[o]) <= LongSize(long[o])
  BY <1>2, Sizes DEF Inv, Heap, AreaTypeOK
<1>7. Heap'
  BY <1>1, <1>2, <1>4, <1>5, <1>6, SameTrie DEF Inv, Heap, LongsHeld
<1> QED BY <1>2, <1>7, EndedInv, NoValueIsAValue DEF Inv, Status

\* A node is made to own nothing, or a prop_info behind it that no node owns.
LEMMA SetProp ==
  ASSUME Heap, cur \in DOMAIN node, NEW x \in Offset, UNCHANGED <<bytes_used, info, long>>,
         node' = [node EXCEPT ![cur].prop = x],
         x # 0 => x \in DOMAIN info /\ cur < x /\ Unowned(x)
  PROVE  Heap'
<1>1. /\ DOMAIN node' = DOMAIN node
      /\ \A o \in DOMAIN node : /\ node'[o] \in Node /\ node'[o].name = node[o].name
                                /\ node'[o].link = node[o].link
                                /\ node'[o].prop = IF o = cur THEN x ELSE node[o].prop
  BY DEF Heap, AreaTypeOK, Node
<1>2. AreaTypeOK'
  BY <1>1 DEF Heap, AreaTypeOK
<1>3. Apart' /\ TrieAscends' /\ OneParent' /\ LongsHeld'
  BY <1>1 DEF Heap, Apart, TrieAscends, OneParent, LongsHeld
<1>4. OwnersAscend'
  BY <1>1 DEF Heap, OwnersAscend
<1>5. OneOwner'
  BY <1>1 DEF Heap, OneOwner, Unowned
<1>6. NoOverlap'
  BY <1>1 DEF Heap, NoOverlap, Objects, ObjectSize
<1> QED BY <1>1, <1>2, <1>3, <1>4, <1>5, <1>6 DEF Heap

LEMMA DetachInv == ASSUME Inv, Detach PROVE Inv'
<1>1. /\ Arrived /\ Slot # 0 /\ node' = [node EXCEPT ![cur].prop = 0]
      /\ fresh' = Slot /\ pc' = "wipe"
      /\ UNCHANGED <<bytes_used, info, long, cur, depth, call, ret>>
  BY DEF Detach, Goto
<1>2. /\ cur \in DOMAIN node /\ call.key \in Keys /\ Slot \in DOMAIN info /\ Slot \in Offset
      /\ 0 \in Offset
  BY <1>1, SlotFacts, DataSizeAssumption DEF Offset
<1>3. Heap'
  BY <1>1, <1>2, SetProp DEF Inv
<1>4. \A o \in DOMAIN node' : node'[o].prop # Slot
  BY <1>1, <1>2 DEF Inv, Heap, AreaTypeOK, Node, OneOwner, Slot
<1>5. ControlTypeOK' /\ Reserved'
  BY <1>1, <1>2 DEF Inv, ControlTypeOK, Places, Reserved
<1>6. Control'
  BY <1>1, <1>2, <1>4 DEF Control, Unowned
<1> QED BY <1>3, <1>5, <1>6 DEF Inv

LEMMA WipeInv == ASSUME Inv, Wipe PROVE Inv'
<1> DEFINE l == fresh + info[fresh].rel
<1>1. /\ pc = "wipe" /\ info' = Drop(info, fresh)
      /\ long' = IF info[fresh].is_long THEN Drop(long, l) ELSE long
      /\ fresh' = 0 /\ pc' \in {"descend", "prune"}
      /\ UNCHANGED <<bytes_used, node, cur, depth, call, ret>>
  BY DEF Wipe, Goto
<1>2. /\ cur \in DOMAIN node /\ call.key \in Keys /\ fresh \in DOMAIN info /\ Unowned(fresh)
  BY <1>1 DEF Inv, Control
<1>3. /\ DOMAIN info' = DOMAIN info \ {fresh}
      /\ \A p \in DOMAIN info' : info'[p] = info[p]
  BY <1>1 DEF Drop
<1>4. /\ DOMAIN long' \subseteq DOMAIN long
      /\ \A o \in DOMAIN long' : long'[o] = long[o]
      /\ \A o \in DOMAIN long : o \in DOMAIN long' \/ (info[fresh].is_long /\ o = l)
  BY <1>1 DEF Drop
<1>5. AreaTypeOK'
  <2>1. info' \in [DOMAIN info' -> Info]
    BY <1>1, <1>3 DEF Inv, Heap, AreaTypeOK, Drop
  <2>2. long' \in [DOMAIN long' -> Value]
    BY <1>1, <1>4 DEF Inv, Heap, AreaTypeOK, Drop
  <2> QED BY <1>1, <1>3, <1>4, <2>1, <2>2 DEF Inv, Heap, AreaTypeOK
<1>6. Apart' /\ TrieAscends' /\ OneParent' /\ OneOwner'
  BY <1>1, <1>3, <1>4 DEF Inv, Heap, Apart, TrieAscends, OneParent, OneOwner
<1>7. OwnersAscend'
  BY <1>1, <1>2, <1>3 DEF Inv, Heap, OwnersAscend, Unowned
<1>8. LongsHeld'
  BY <1>2, <1>3, <1>4 DEF Inv, Heap, LongsHeld
<1>9. NoOverlap'
  <2>1. Objects' \subseteq Objects
    BY <1>1, <1>3, <1>4 DEF Objects
  <2>2. \A o \in Objects' : ObjectSize(o)' = ObjectSize(o)
    BY <1>1, <1>3, <1>4, <1>2 DEF Objects, ObjectSize, Inv, Heap, Apart
  <2> QED BY <1>1, <2>1, <2>2 DEF Inv, Heap, NoOverlap
<1>10. Heap'
  BY <1>1, <1>5, <1>6, <1>7, <1>8, <1>9 DEF Inv, Heap
<1>11. ControlTypeOK' /\ Control' /\ Reserved'
  BY <1>1, <1>2, DataSizeAssumption DEF Inv, ControlTypeOK, Places, Control, Reserved, Offset
<1> QED BY <1>10, <1>11 DEF Inv

LEMMA LinkInv == ASSUME Inv, Link PROVE Inv'
<1>1. /\ pc = "link" /\ node' = [node EXCEPT ![cur].prop = fresh] /\ pc' = "publish_new"
      /\ UNCHANGED <<bytes_used, info, long, cur, depth, fresh, call, ret>>
  BY DEF Link, Goto, walk
<1>2. /\ cur \in DOMAIN node /\ call.key \in Keys /\ fresh \in DOMAIN info /\ cur < fresh
      /\ Unowned(fresh) /\ fresh \in Offset
      /\ IsLong(call.val) => info[fresh].rel # 0
  BY <1>1 DEF Inv, Control, ControlTypeOK
<1>3. Heap'
  BY <1>1, <1>2, SetProp DEF Inv
<1> QED BY <1>1, <1>2, <1>3 DEF Inv, ControlTypeOK, Places, Control, Reserved

LEMMA PruneNodeInv ==
  ASSUME Inv, NEW p \in DOMAIN node, NEW f \in Links, PruneNode(p, f) PROVE Inv'
<1> DEFINE o == node[p].link[f]
<1>1. /\ pc = "prune" /\ o # 0 /\ Empty(o) /\ node' = Drop([node EXCEPT ![p].link[f] = 0], o)
      /\ pc' = "prune" /\ UNCHANGED <<bytes_used, info, long, cur, depth, fresh, call, ret>>
  BY DEF PruneNode, Goto, walk
<1>2. o \in DOMAIN node /\ p < o /\ o # p
  BY <1>1 DEF Inv, Heap, TrieAscends, AreaTypeOK, Offset
<1>3. \A q \in DOMAIN node : node[q] \in Node
  BY DEF Inv, Heap, AreaTypeOK
<1>4. /\ DOMAIN node' = DOMAIN node \ {o}
      /\ \A q \in DOMAIN node' : /\ node'[q].name = node[q].name /\ node'[q].prop = node[q].prop
                                 /\ node'[q].link = IF q = p THEN [node[q].link EXCEPT ![f] = 0]
                                                    ELSE node[q].link
                                 /\ node'[q] \in Node
  <2>1. DOMAIN node' = DOMAIN node \ {o}
    BY <1>1 DEF Drop
  <2>2. ASSUME NEW q \in DOMAIN node', q # p PROVE node'[q] = node[q]
    BY <1>1, <2>1, <2>2 DEF Drop
  <2>3. /\ node'[p].name = node[p].name /\ node'[p].prop = node[p].prop
        /\ node'[p].link = [node[p].link EXCEPT ![f] = 0]
        /\ node'[p] \in Node
    BY <1>1, <1>2, <1>3, <2>1, DataSizeAssumption DEF Drop, Node, Offset
  <2> QED BY <1>3, <2>1, <2>2, <2>3
<1>5. \A q \in DOMAIN node' : \A g \in Links :
        node'[q].link[g] = IF q = p /\ g = f THEN 0 ELSE node[q].link[g]
  BY <1>3, <1>4 DEF Node
<1>6. AreaTypeOK'
  <2>1. node' \in [DOMAIN node' -> Node]
    BY <1>1, <1>4 DEF Drop
  <2> QED BY <1>1, <1>4, <2>1 DEF Inv, Heap, AreaTypeOK
<1>7. Apart' /\ 0 \in DOMAIN node' /\ LongsHeld'
  BY <1>1, <1>4 DEF Inv, Heap, Apart, LongsHeld
<1>8. TrieAscends'
  <2> SUFFICES ASSUME NEW q \in DOMAIN node', NEW g \in Links, node'[q].link[g] # 0
               PROVE  node'[q].link[g] \in DOMAIN node' /\ q < node'[q].link[g]
    BY DEF TrieAscends
  <2>1. node'[q].link[g] = node[q].link[g] /\ ~(q = p /\ g = f) /\ q \in DOMAIN node
    BY <1>4, <1>5
  <2>2. node[q].link[g] \in DOMAIN node /\ q < node[q].link[g]
    BY <2>1 DEF Inv, Heap, TrieAscends
  <2>3. node[q].link[g] # o
    BY <1>1, <2>1 DEF Inv, Heap, OneParent
  <2> QED BY <1>4, <2>1, <2>2, <2>3
<1>9. OneParent'
  BY <1>4, <1>5 DEF Inv, Heap, OneParent
<1>10. OwnersAscend' /\ OneOwner'
  <2>1. OwnersAscend'
    BY <1>1, <1>4 DEF Inv, Heap, OwnersAscend
  <2>2. OneOwner'
    BY <1>4 DEF Inv, Heap, OneOwner
  <2> QED BY <2>1, <2>2
<1>11. NoOverlap'
  <2>1. Objects' \subseteq Objects
    BY <1>1, <1>4 DEF Objects
  <2>2. \A q \in Objects' : ObjectSize(q)' = ObjectSize(q)
    BY <1>1, <1>2, <1>4 DEF Objects, ObjectSize, Inv, Heap, Apart
  <2> QED BY <1>1, <2>1, <2>2 DEF Inv, Heap, NoOverlap
<1>12. Heap'
  BY <1>6, <1>7, <1>8, <1>9, <1>10, <1>11 DEF Heap
<1>13. ControlTypeOK' /\ Control' /\ Reserved'
  BY <1>1 DEF Inv, ControlTypeOK, Places, Control, Reserved
<1> QED BY <1>12, <1>13 DEF Inv

-------------------------------------------------------------------------------
\* A prop_info written where nothing lies, with its long value if it has one.
LEMMA NewInfo ==
  ASSUME Heap, AreaTypeOK', NoOverlap', node' = node,
         NEW p \in Offset, p # 0, p \notin Objects, NEW r \in Info, info' = Put(info, p, r),
         ~r.is_long,
         DOMAIN long \subseteq DOMAIN long', DOMAIN long' \cap (DOMAIN node \cup {p}) = {},
         DOMAIN long' \cap DOMAIN info = {},
         r.rel # 0 => p + r.rel \in DOMAIN long' /\ p + r.rel \notin DOMAIN long
  PROVE  /\ Heap' /\ p \in DOMAIN info' /\ info'[p] = r
         /\ \A o \in DOMAIN node' : node'[o].prop # p
<1>1. /\ DOMAIN info' = DOMAIN info \cup {p} /\ p \notin DOMAIN info /\ p \notin DOMAIN node
      /\ info'[p] = r /\ \A q \in DOMAIN info : info'[q] = info[q]
  BY DEF Put, Objects
<1>2. Unowned(p)
  BY <1>1 DEF Heap, OwnersAscend, Unowned
<1>3. Apart' /\ TrieAscends' /\ OneParent' /\ OwnersAscend' /\ OneOwner'
  BY <1>1 DEF Heap, Apart, TrieAscends, OneParent, OwnersAscend, OneOwner
<1>4. LongsHeld'
  BY <1>1 DEF Heap, LongsHeld
<1> QED BY <1>1, <1>2, <1>3, <1>4 DEF Heap, Unowned

LEMMA AllocInfoInv == ASSUME Inv, AllocInfo PROVE Inv'
<1> DEFINE b == bytes_used
           sz == InfoSize(call.key)
<1>1. /\ Arrived /\ b + sz <= DataSize /\ bytes_used' = b + sz /\ fresh' = b
      /\ UNCHANGED <<node, long, cur, depth, call, ret>>
  BY DEF AllocInfo, Creating, Fits, Bump, Goto
<1>2. /\ cur \in DOMAIN node /\ call.key \in Keys /\ call.val \in Value /\ cur \in Objects
      /\ 0 \in DOMAIN node /\ 0 \in Objects
  BY <1>1, SlotFacts DEF Objects, Inv, Heap
<1>3. /\ b \in Offset /\ b \notin Objects /\ b > 0 /\ cur < b /\ sz \in Nat /\ sz > 0
      /\ bytes_used' \in Offset
  BY <1>1, <1>2, ObjectFacts, Sizes DEF Inv, Heap, AreaTypeOK, Offset
<1>4. CASE IsLong(call.val)
  <2>1. pc' = "alloc_long" /\ info' = info
    BY <1>4 DEF AllocInfo, Goto
  <2>2. NoOverlap'
    BY <1>1, <1>3, <2>1, ObjectFacts
    DEF Inv, Heap, NoOverlap, Objects, ObjectSize, AreaTypeOK, Offset
  <2>3. Heap'
    BY <1>1, <1>3, <2>1, <2>2 DEF Inv, Heap, AreaTypeOK, Apart, TrieAscends, OneParent,
      OwnersAscend, OneOwner, LongsHeld
  <2>4. Reserved'
    BY <1>1, <1>3, <2>1 DEF Reserved, Inv, Heap, NoOverlap, Objects, ObjectSize
  <2>5. ControlTypeOK' /\ Control'
    BY <1>1, <1>2, <1>3, <2>1 DEF Inv, ControlTypeOK, Places, Control
  <2> QED BY <2>3, <2>4, <2>5 DEF Inv
<1>5. CASE ~IsLong(call.val)
  <2> DEFINE r == InitialInfo(call.key, call.val, 0)
  <2>1. pc' = "link" /\ info' = Put(info, b, r)
    BY <1>5 DEF AllocInfo, Goto
  <2>2. r \in Info /\ ~r.is_long /\ r.rel = 0 /\ r.key = call.key
    BY <1>2, DataSizeAssumption DEF InitialInfo, Info, Offset
  <2>3. /\ DOMAIN info' = DOMAIN info \cup {b} /\ info'[b] = r
        /\ \A q \in DOMAIN info : info'[q] = info[q]
    BY <1>3, <2>1 DEF Put, Objects
  <2>4. AreaTypeOK'
    <3>1. info' \in [DOMAIN info' -> Info]
      BY <2>1, <2>2, <2>3 DEF Put, Inv, Heap, AreaTypeOK
    <3> QED BY <1>1, <1>3, <2>3, <3>1 DEF Inv, Heap, AreaTypeOK
  <2>5. NoOverlap'
    <3>1. Objects' = Objects \cup {b}
      BY <1>1, <2>3 DEF Objects
    <3>2. \A o \in Objects : ObjectSize(o)' = ObjectSize(o)
      BY <1>1, <1>3, <2>3 DEF ObjectSize, Objects
    <3>3. \A o : o = b => ObjectSize(o)' = sz
      BY <1>1, <1>3, <2>2, <2>3 DEF ObjectSize, Objects
    <3> QED BY <1>1, <1>3, <3>1, <3>2, <3>3, NewObjectApart DEF Inv
  <2>6. DOMAIN long \cap (DOMAIN node \cup {b}) = {} /\ DOMAIN long \cap DOMAIN info = {}
    BY <1>3 DEF Objects, Inv, Heap, Apart
  <2>7. /\ Heap' /\ b \in DOMAIN info'
        /\ \A o \in DOMAIN node' : node'[o].prop # b
    <3>1. b # 0 /\ node' = node /\ long' = long
      BY <1>1, <1>3 DEF Offset
    <3> HIDE DEF r, b
    <3> QED BY <1>3, <2>1, <2>2, <2>4, <2>5, <2>6, <3>1, NewInfo DEF Inv
  <2>8. \A o \in DOMAIN node' : node'[o].prop # fresh'
    BY <1>1, <2>7
  <2>9. ControlTypeOK' /\ Control' /\ Reserved'
    BY <1>1, <1>2, <1>3, <1>5, <2>1, <2>7, <2>8
    DEF Inv, ControlTypeOK, Places, Control, Reserved, Unowned
  <2> QED BY <2>7, <2>9 DEF Inv
<1> QED BY <1>4, <1>5

LEMMA AllocLongInv == ASSUME Inv, AllocLong PROVE Inv'
<1> DEFINE b == bytes_used
           p == fresh
           sz == LongSize(call.val)
           r == InitialInfo(call.key, LONG_LEGACY_ERROR, b - p)
<1>1. /\ pc = "alloc_long" /\ b + sz <= DataSize /\ bytes_used' = b + sz /\ pc' = "link"
      /\ long' = Put(long, b, call.val) /\ info' = Put(info, p, r)
      /\ UNCHANGED <<node, cur, depth, fresh, call, ret>>
  BY DEF AllocLong, Fits, Bump, Goto
<1>2. /\ cur \in DOMAIN node /\ call.key \in Keys /\ call.val \in Value /\ cur \in Objects
      /\ 0 \in Objects /\ p \in Offset
      /\ p + InfoSize(call.key) <= b /\ \A o \in Objects : o + ObjectSize(o) <= p
  BY <1>1 DEF Inv, Control, ControlTypeOK, Call, Objects, Heap, Reserved
<1>3. /\ b \in Offset /\ b \notin Objects /\ sz \in Nat /\ sz > 0 /\ bytes_used' \in Offset
      /\ InfoSize(call.key) \in Nat /\ InfoSize(call.key) > 0
  BY <1>1, <1>2, ObjectFacts, Sizes DEF Inv, Heap, AreaTypeOK, Offset
<1>4. /\ p < b /\ p # b /\ p # 0 /\ p \notin Objects /\ cur < p
      /\ b - p \in Offset /\ b - p # 0 /\ p + (b - p) = b
  <2>1. \A o \in Objects : o < p
    BY <1>2, ObjectFacts DEF Inv, Offset
  <2>2. p \in Nat /\ b \in Nat /\ b <= DataSize /\ DataSize \in Nat
    BY <1>2, <1>3, DataSizeAssumption DEF Offset
  <2>3. p < b /\ 0 < p
    BY <1>2, <1>3, <2>1, <2>2
  <2> QED BY <1>2, <2>1, <2>2, <2>3 DEF Offset
<1>5. r \in Info /\ ~r.is_long /\ r.rel = b - p /\ r.key = call.key
  BY <1>2, <1>4 DEF InitialInfo, Info, LONG_LEGACY_ERROR, Value
<1>6. /\ DOMAIN info' = DOMAIN info \cup {p} /\ info'[p] = r
      /\ \A q \in DOMAIN info : info'[q] = info[q]
      /\ DOMAIN long' = DOMAIN long \cup {b} /\ long'[b] = call.val
      /\ \A q \in DOMAIN long : long'[q] = long[q]
  BY <1>1, <1>3, <1>4 DEF Put, Objects
<1>7. AreaTypeOK'
  <2>1. info' \in [DOMAIN info' -> Info]
    BY <1>1, <1>5, <1>6 DEF Put, Inv, Heap, AreaTypeOK
  <2>2. long' \in [DOMAIN long' -> Value]
    BY <1>1, <1>2, <1>6 DEF Put, Inv, Heap, AreaTypeOK
  <2> QED BY <1>1, <1>2, <1>3, <1>6, <2>1, <2>2 DEF Inv, Heap, AreaTypeOK
<1>8. NoOverlap'
  <2>1. Objects' = Objects \cup {p, b}
    BY <1>1, <1>6 DEF Objects
  <2>2. \A o \in Objects : ObjectSize(o)' = ObjectSize(o) /\ ObjectSize(o) \in Nat /\ o \in Nat
                            /\ ObjectSize(o) > 0
    BY <1>1, <1>3, <1>4, <1>6, ObjectFacts DEF ObjectSize, Objects, Inv, Offset
  <2>3. \A o : o = p => ObjectSize(o)' = InfoSize(call.key)
    BY <1>1, <1>4, <1>5, <1>6 DEF ObjectSize, Objects
  <2>4. \A o : o = b => ObjectSize(o)' = sz
    <3>1. b \notin DOMAIN node' /\ b \notin DOMAIN info' /\ LongSize(long'[b]) = sz
      BY <1>1, <1>3, <1>4, <1>6 DEF Objects
    <3> QED BY <3>1 DEF ObjectSize
  <2>5. \A o \in Objects' : /\ o + ObjectSize(o)' <= bytes_used'
                            /\ \A q \in Objects' : o < q => o + ObjectSize(o)' <= q
    BY <1>1, <1>2, <1>3, <1>4, <2>1, <2>2, <2>3, <2>4 DEF Inv, Heap, NoOverlap, Offset
  <2> QED BY <2>5 DEF NoOverlap
<1>9. /\ DOMAIN long \subseteq DOMAIN long' /\ DOMAIN long' \cap (DOMAIN node \cup {p}) = {}
      /\ DOMAIN long' \cap DOMAIN info = {}
      /\ p + r.rel \in DOMAIN long' /\ p + r.rel \notin DOMAIN long
  <2>1. b \notin DOMAIN long /\ b \notin DOMAIN node /\ b \notin DOMAIN info /\ p \notin DOMAIN long
    BY <1>3, <1>4 DEF Objects
  <2>2. p + r.rel = b
    BY <1>4, <1>5
  <2> QED BY <1>4, <1>6, <2>1, <2>2 DEF Inv, Heap, Apart
<1>10. /\ Heap' /\ p \in DOMAIN info' /\ info'[p] = r
       /\ \A o \in DOMAIN node' : node'[o].prop # p
  <2>1. node' = node
    BY <1>1
  <2> HIDE DEF r, p
  <2> QED BY <1>1, <1>2, <1>4, <1>5, <1>7, <1>8, <1>9, <2>1, NewInfo DEF Inv
<1>11. \A o \in DOMAIN node' : node'[o].prop # fresh'
  BY <1>1, <1>10
<1>12. ControlTypeOK' /\ Control' /\ Reserved'
  BY <1>1, <1>2, <1>4, <1>5, <1>10, <1>11
  DEF Inv, ControlTypeOK, Places, Control, Reserved, Unowned
<1> QED BY <1>10, <1>12 DEF Inv

-------------------------------------------------------------------------------
LEMMA NextInv == Inv /\ [Next]_vars => Inv'
<1> SUFFICES ASSUME Inv, [Next]_vars PROVE Inv'
  OBVIOUS
<1>1. CASE Request
  BY <1>1, RequestInv
<1>2. CASE Follow
  BY <1>2, FollowInv
<1>3. CASE Match
  BY <1>3, MatchInv
<1>4. CASE Miss \/ GrowTrieFull \/ ReadSlot \/ NothingToDelete \/ AllocFull \/ PruneDone
  BY <1>4, EndingInv
<1>5. CASE GrowTrie
  BY <1>5, GrowTrieInv
<1>6. CASE UpdateInPlace
  BY <1>6, UpdateInPlaceInv
<1>7. CASE Detach
  BY <1>7, DetachInv
<1>8. CASE Wipe
  BY <1>8, WipeInv
<1>9. CASE AllocInfo
  BY <1>9, AllocInfoInv
<1>10. CASE AllocLong
  BY <1>10, AllocLongInv
<1>11. CASE Link
  BY <1>11, LinkInv
<1>12. CASE Publish
  BY <1>12, PublishInv
<1>13. CASE \E p \in DOMAIN node, f \in Links : PruneNode(p, f)
  BY <1>13, PruneNodeInv
<1>14. CASE UNCHANGED vars
  <2>1. UNCHANGED area /\ UNCHANGED <<pc, call, cur, depth, fresh, ret>>
    BY <1>14 DEF vars, area
  <2>2. Heap'
    BY <2>1, SameArea DEF Inv
  <2> QED BY <2>1, <2>2 DEF Inv, area, ControlTypeOK, Control, Reserved, Objects, ObjectSize, Unowned
<1> QED
  BY <1>1, <1>2, <1>3, <1>4, <1>5, <1>6, <1>7, <1>8, <1>9, <1>10, <1>11, <1>12, <1>13, <1>14
  DEF Next, Step

\* The invariant holds of every area, whatever is looked up, set and deleted in it
\* and wherever AreaFull ends an operation.
THEOREM Invariance == Spec => []Inv
<1> QED BY InitInv, NextInv, PTL DEF Spec

\* Every offset an operation reads or writes stays inside data_[].
THEOREM TypeCorrect == Spec => []TypeOK
<1>1. Inv => TypeOK
  BY DEF Inv, Heap, TypeOK
<1> QED BY <1>1, Invariance, PTL

\* No two objects of prop_area.rs ever share a byte, and none reaches past
\* bytes_used: what is allocated next overwrites nothing.
THEOREM ObjectsApart == Spec => []NoOverlap
<1>1. Inv => NoOverlap
  BY DEF Inv, Heap
<1> QED BY <1>1, Invariance, PTL

\* No link of the trie dangles, after a replacement, a delete with its prune, or an
\* allocation that failed halfway: each leads up the area, to a node that is there.
THEOREM LinksLead == Spec => []TrieAscends
<1>1. Inv => TrieAscends
  BY DEF Inv, Heap
<1> QED BY <1>1, Invariance, PTL

\* Nor does the link from a node to its prop_info, also when a value is replaced by one
\* of the other layout: the prop_info it leads to is there, further up the area.
THEOREM OwnersLead == Spec => []OwnersAscend
<1>1. Inv => OwnersAscend
  BY DEF Inv, Heap
<1> QED BY <1>1, Invariance, PTL
===============================================================================
