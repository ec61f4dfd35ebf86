------------------------ MODULE PropAreaCompactProofs -------------------------
(***************************************************************************)
(* What a property area keeps true when it is compacted too, whatever its  *)
(* size, the keys and the values: proofs about PropAreaCompact.            *)
(*                                                                         *)
(* Between two operations every object has one referer and the serials     *)
(* tell the layout (Kept, beside Inv of PropAreaProofs).  The two scans of *)
(* compact_allocations give each record its new place (Planning); while    *)
(* the objects move the area is the image of what it was (Moving), which   *)
(* with the last move is a heap again, without a hole (Packed).            *)
(***************************************************************************)
EXTENDS PropAreaStore, PropAreaProofs, NaturalsInduction, WellFoundedInduction, FiniteSetTheorems

\* Every object is in use: a node has a link that leads to it, a prop_info a node that
\* owns it, a long value a prop_info; but for the prop_info an operation has in hand.
InHand(p) == pc \in {"wipe", "link"} /\ p = fresh
Parented  == \A o \in DOMAIN node : o = 0 \/ \E q \in DOMAIN node, f \in Links : node[q].link[f] = o
InUse     == \A p \in DOMAIN info : InHand(p) \/ \E o \in DOMAIN node : node[o].prop = p
Held      == \A l \in DOMAIN long : \E p \in DOMAIN info : info[p].rel # 0 /\ p + info[p].rel = l
Owned     == Parented /\ InUse /\ Held

\* What the serial of a prop_info says of its layout, once it is published.
Unpublished(p) == pc \in {"link", "publish_new"} /\ p = fresh
Told ==
  /\ \A p \in DOMAIN info : Unpublished(p) \/ (info[p].is_long <=> info[p].rel # 0)
  /\ \A p \in DOMAIN info : (pc = "publish" /\ p = fresh) \/ Unpublished(p)
                            \/ info[p].serial_len = info[p].val.len
  /\ \A p \in DOMAIN info : info[p].rel # 0 => /\ info[p].rel >= InfoSize(info[p].key)
                                               /\ info[p].val = LONG_LEGACY_ERROR
  /\ pc = "alloc_long" => IsLong(call.val)
  /\ pc \in {"link", "publish_new"} => (info[fresh].rel # 0 <=> IsLong(call.val))
  /\ pc \in {"link", "publish_new", "publish"} => (info[fresh].rel = 0 => info[fresh].val = call.val)

\* What lies below the first child of the root: nothing, or the room of the dirty backup.
FirstPlace(o) == o = PROP_TRIE_NODE_HEADER_SIZE \/ o >= INITIAL_BYTES_USED
RootKept ==
  /\ node[0].name = RootName /\ node[0].prop = 0
  /\ node[0].link["left"] = 0 /\ node[0].link["right"] = 0
  /\ node[0].link["children"] = 0 => FirstPlace(bytes_used)
  /\ node[0].link["children"] # 0 => FirstPlace(node[0].link["children"])
Below ==
  /\ pc = "idle" => depth = 0
  /\ pc = "descend" => depth = 0 \/ cur # 0
  /\ pc \in {"sibling", "wipe", "alloc_long", "link"} => cur # 0
  /\ pc \in {"alloc_long", "link"} => node[cur].prop = 0
  /\ pc \in {"wipe", "prune"} => bytes_used >= INITIAL_BYTES_USED

Kept == Owned /\ Told /\ RootKept /\ Below

LEMMA InitKept == ASSUME Init PROVE Kept
<1>1. /\ DOMAIN node = {0} /\ DOMAIN info = {} /\ DOMAIN long = {} /\ node[0] = NewNode(RootName)
      /\ bytes_used = INITIAL_BYTES_USED /\ pc = "idle" /\ depth = 0
  BY DEF Init
<1>2. node[0].name = RootName /\ node[0].prop = 0 /\ \A f \in Links : node[0].link[f] = 0
  BY <1>1 DEF NewNode
<1>3. RootKept
  <2>1. {"left", "right", "children"} \subseteq Links
    BY DEF Links
  <2> QED BY <1>1, <1>2, <2>1 DEF RootKept, FirstPlace, INITIAL_BYTES_USED,
       PROP_TRIE_NODE_HEADER_SIZE, DIRTY_BACKUP_SIZE
<1>4. Owned /\ Told
  BY <1>1 DEF Owned, Parented, InUse, Held, Told
<1>5. Below
  BY <1>1 DEF Below
<1> QED BY <1>3, <1>4, <1>5 DEF Kept

\* A step that leaves the area alone and has no prop_info in hand before or after.
Plain == {"idle", "descend", "sibling", "alloc_long", "prune", "collect", "plan"}
LEMMA SameKept ==
  ASSUME Kept, UNCHANGED area, pc \in Plain, pc' \in Plain, pc' # "alloc_long", Below'
  PROVE  Kept'
<1>1. UNCHANGED <<bytes_used, node, info, long>>
  BY DEF area
<1>2. Owned'
  BY <1>1 DEF Kept, Owned, Parented, InUse, Held, InHand, Plain
<1>3. Told'
  BY <1>1 DEF Kept, Told, Unpublished, Plain
<1>4. RootKept'
  BY <1>1 DEF Kept, RootKept, FirstPlace
<1> QED BY <1>2, <1>3, <1>4 DEF Kept

LEMMA EndedKept ==
  ASSUME Kept, Miss \/ GrowTrieFull \/ ReadSlot \/ NothingToDelete \/ AllocFull \/ PruneDone
  PROVE  Kept'
<1>1. /\ UNCHANGED area /\ pc \in Plain /\ pc' = "idle" /\ depth' = 0
  BY DEF Miss, GrowTrieFull, ReadSlot, NothingToDelete, AllocFull, PruneDone, Return, Walking,
    Arrived, Creating, Plain
<1> QED BY <1>1, SameKept DEF Plain, Below

LEMMA RequestKept == ASSUME Inv, Kept, Request PROVE Kept'
<1>1. PICK op, key, val : Begin(op, key, val)
  BY DEF Request, get_property, set_property, delete_property
<1>2. pc = "idle" /\ pc' = "descend" /\ UNCHANGED area /\ depth' = depth
  BY <1>1 DEF Begin, walk
<1>3. depth = 0
  BY <1>2 DEF Kept, Below
<1> QED BY <1>2, <1>3, SameKept DEF Plain, Below

LEMMA WalkKept == ASSUME Inv, Kept, Follow \/ Match PROVE Kept'
<1>1. CASE Follow
  <2>1. UNCHANGED area /\ pc \in Plain /\ pc' = "sibling" /\ cur' = NextLink
    BY <1>1 DEF Follow, Walking, Goto, Plain
  <2>2. cur' # 0
    BY <1>1, <2>1 DEF Follow
  <2> QED BY <2>1, <2>2, SameKept DEF Plain, Below
<1>2. CASE Match
  <2>1. UNCHANGED area /\ pc = "sibling" /\ pc' = "descend" /\ cur' = cur
    BY <1>2 DEF Match, Matched, Goto
  <2>2. cur' # 0
    BY <2>1 DEF Kept, Below
  <2> QED BY <2>1, <2>2, SameKept DEF Plain, Below
<1> QED BY <1>1, <1>2

LEMMA LeastOf ==
  ASSUME NEW T \in SUBSET Nat, T # {} PROVE \E m \in T : \A y \in T : m <= y
<1>1. PICK m \in T : \A y \in T : ~(<<y, m>> \in OpToRel(<, Nat))
  BY NatLessThanWellFounded, WFMin
<1>2. \A y \in T : ~(y < m)
  BY <1>1 DEF OpToRel
<1> QED
  BY <1>2

\* Nothing but the root lies before the root's first child.
LEMMA RootLeads ==
  ASSUME Heap, Parented, RootKept, NEW o \in DOMAIN node, o # 0
  PROVE  node[0].link["children"] # 0 /\ node[0].link["children"] <= o
<1> DEFINE c == node[0].link["children"]
           T == {q \in DOMAIN node : q # 0 /\ (c = 0 \/ q < c)}
<1>1. 0 \in DOMAIN node /\ DOMAIN node \subseteq Nat /\ c \in Nat
  BY DEF Heap, AreaTypeOK, Offset, Node, Links
<1>2. SUFFICES ASSUME T # {} PROVE FALSE
  BY <1>1
<1>3. PICK m \in T : \A y \in T : m <= y
  BY <1>1, <1>2, LeastOf
<1>4. PICK q \in DOMAIN node, f \in Links : node[q].link[f] = m
  BY <1>3 DEF Parented
<1>5. q < m
  BY <1>3, <1>4 DEF Heap, TrieAscends
<1>6. q # 0
  <2> SUFFICES ASSUME q = 0 PROVE FALSE
    OBVIOUS
  <2>1. f = "children"
    BY <1>3, <1>4 DEF RootKept, Links
  <2> QED BY <1>1, <1>3, <1>4, <2>1
<1>7. q \in T
  BY <1>1, <1>3, <1>5, <1>6
<1> QED BY <1>1, <1>3, <1>5, <1>7

LEMMA GrowTrieKept == ASSUME Inv, Kept, GrowTrie PROVE Kept'
<1> DEFINE b == bytes_used
<1>1. /\ Walking /\ NextLink = 0 /\ b + NodeSize(Target) <= DataSize /\ bytes_used' = b + NodeSize(Target)
      /\ node' = Put([node EXCEPT ![cur].link[Branch] = b], b, NewNode(Target))
      /\ cur' = b /\ depth' = depth + 1 /\ pc' = "descend"
      /\ UNCHANGED <<info, long, fresh, call, ret>>
  BY DEF GrowTrie, Goto, Fits, Bump
<1>2. /\ cur \in DOMAIN node /\ call.key \in Keys /\ Target \in Segment /\ Branch \in Links
      /\ node[cur].link[Branch] = 0
  BY <1>1, WalkFacts DEF NextLink
<1>3. /\ b \in Offset /\ b \notin Objects /\ b > 0 /\ NodeSize(Target) \in Nat
  BY <1>2, ObjectFacts, Sizes DEF Inv, Heap, AreaTypeOK, Offset, Objects
<1>4. /\ DOMAIN node' = DOMAIN node \cup {b} /\ b \notin DOMAIN node
      /\ node'[b].prop = 0 /\ \A f \in Links : node'[b].link[f] = 0
      /\ \A o \in DOMAIN node : node'[o].prop = node[o].prop /\ node'[o].name = node[o].name
      /\ \A o \in DOMAIN node : \A f \in Links :
           node'[o].link[f] = IF o = cur /\ f = Branch THEN b ELSE node[o].link[f]
  <2>1. \A o \in DOMAIN node : node[o] \in Node
    BY DEF Inv, Heap, AreaTypeOK
  <2>2. DOMAIN node' = DOMAIN node \cup {b} /\ b \notin DOMAIN node /\ node'[b] = NewNode(Target)
    BY <1>1, <1>3 DEF Put, Objects
  <2>3. ASSUME NEW o \in DOMAIN node, o # cur PROVE node'[o] = node[o]
    BY <1>1, <1>2, <2>2, <2>3 DEF Put
  <2>4. /\ node'[cur].prop = node[cur].prop /\ node'[cur].name = node[cur].name
        /\ node'[cur].link = [node[cur].link EXCEPT ![Branch] = b]
    BY <1>1, <1>2, <1>3, <2>1, <2>2 DEF Put, Node
  <2> QED BY <1>2, <2>1, <2>2, <2>3, <2>4 DEF Node, NewNode
<1>5. Owned'
  <2>1. Parented'
    <3> SUFFICES ASSUME NEW o \in DOMAIN node', o # 0
                 PROVE  \E q \in DOMAIN node', f \in Links : node'[q].link[f] = o
      BY DEF Parented
    <3>1. CASE o = b
      BY <3>1, <1>2, <1>4
    <3>2. CASE o \in DOMAIN node
      <4>1. PICK q \in DOMAIN node, f \in Links : node[q].link[f] = o
        BY <3>2 DEF Kept, Owned, Parented
      <4> QED BY <4>1, <1>2, <1>4
    <3> QED BY <3>1, <3>2, <1>4
  <2>2. InUse'
    <3>1. pc \in {"descend", "sibling"}
      BY <1>1 DEF Walking
    <3>2. \A p \in DOMAIN info : \E o \in DOMAIN node : node[o].prop = p
      BY <3>1 DEF Kept, Owned, InUse, InHand
    <3>3. \A p \in DOMAIN info : \E o \in DOMAIN node' : node'[o].prop = p
      BY <3>2, <1>4
    <3> QED BY <3>3, <1>1 DEF InUse
  <2>3. Held'
    BY <1>1 DEF Kept, Owned, Held
  <2> QED BY <2>1, <2>2, <2>3 DEF Owned
<1>6. Told'
  BY <1>1 DEF Kept, Told, Unpublished, Walking
<1>7. RootKept'
  <2>1. {"left", "right", "children"} \subseteq Links /\ 0 \in DOMAIN node
    BY DEF Links, Inv, Heap
  <2>2. cur = 0 => Branch = "children"
    BY <1>1 DEF Kept, Below, Branch, Walking
  <2>3. /\ node'[0].name = RootName /\ node'[0].prop = 0
        /\ node'[0].link["left"] = 0 /\ node'[0].link["right"] = 0
    <3>1. "left" # "children" /\ "right" # "children"
      OBVIOUS
    <3> QED BY <3>1, <2>1, <2>2, <1>4 DEF Kept, RootKept
  <2>4. CASE cur = 0
    <3>1. node'[0].link["children"] = b /\ node[0].link["children"] = 0
      BY <2>1, <2>2, <2>4, <1>2, <1>4
    <3> QED BY <3>1, <2>3, <1>3 DEF Kept, RootKept, FirstPlace
  <2>5. CASE cur # 0
    <3>1. node'[0].link["children"] = node[0].link["children"]
      BY <2>1, <2>5, <1>4
    <3>2. node[0].link["children"] # 0
      BY <2>5, <1>2, RootLeads DEF Inv, Kept, Owned
    <3> QED BY <3>1, <3>2, <2>3 DEF Kept, RootKept, FirstPlace
  <2> QED BY <2>4, <2>5
<1>8. Below'
  BY <1>1, <1>3 DEF Below
<1> QED BY <1>5, <1>6, <1>7, <1>8 DEF Kept

\* What a write to prop_infos and long values keeps when the trie stays as it is.
LEMMA SameNodesKept ==
  ASSUME Kept, node' = node, bytes_used' = bytes_used \/ node[0].link["children"] # 0,
         InUse', Held', Told', Below'
  PROVE  Kept'
<1>1. Parented' /\ RootKept'
  BY DEF Kept, Owned, Parented, RootKept, FirstPlace
<1> QED BY <1>1 DEF Kept, Owned

LEMMA UpdateInPlaceKept == ASSUME Inv, Kept, UpdateInPlace PROVE Kept'
<1>1. /\ Arrived /\ Slot # 0 /\ FitsInPlace(Slot, call.val) /\ fresh' = Slot /\ pc' = "publish"
      /\ UNCHANGED <<bytes_used, node, cur, depth, call, ret>> /\ pc = "descend"
  BY DEF UpdateInPlace, Goto, Arrived
<1>2. Slot \in DOMAIN info /\ Slot \in Offset /\ call.key \in Keys /\ call.val \in Value
  BY <1>1, SlotFacts
<1>3. \A p \in DOMAIN info : info[p] \in Info
  BY DEF Inv, Heap, AreaTypeOK
<1>4. /\ DOMAIN info' = DOMAIN info /\ DOMAIN long' = DOMAIN long
      /\ \A p \in DOMAIN info : /\ info'[p].rel = info[p].rel /\ info'[p].is_long = info[p].is_long
                                /\ info'[p].key = info[p].key
                                /\ info'[p].serial_len = info[p].serial_len
                                /\ p # Slot \/ info[Slot].is_long => info'[p] = info[p]
      /\ ~info[Slot].is_long => info'[Slot].val = call.val
  <2>1. CASE info[Slot].is_long
    BY <2>1 DEF UpdateInPlace
  <2>2. CASE ~info[Slot].is_long
    <3>1. info' = [info EXCEPT ![Slot].val = call.val] /\ long' = long
      BY <2>2 DEF UpdateInPlace
    <3> QED BY <3>1, <2>2, <1>2, <1>3 DEF Info
  <2> QED BY <2>1, <2>2
<1>5. info[Slot].is_long <=> info[Slot].rel # 0
  BY <1>1, <1>2 DEF Kept, Told, Unpublished
<1>6. InUse' /\ Held'
  BY <1>1, <1>4 DEF Kept, Owned, InUse, InHand, Held
<1>7. Told'
  <2>1. \A p \in DOMAIN info : /\ info'[p].is_long <=> info'[p].rel # 0
                               /\ p = Slot \/ info'[p].serial_len = info'[p].val.len
                               /\ info'[p].rel # 0 => /\ info'[p].rel >= InfoSize(info'[p].key)
                                                      /\ info'[p].val = LONG_LEGACY_ERROR
    BY <1>1, <1>4, <1>5 DEF Kept, Told, Unpublished
  <2>2. info'[Slot].rel = 0 => info'[Slot].val = call.val
    BY <1>2, <1>4, <1>5
  <2> QED BY <1>1, <1>4, <2>1, <2>2 DEF Told
<1>8. Below'
  BY <1>1 DEF Below
<1> QED BY <1>1, <1>6, <1>7, <1>8, SameNodesKept

LEMMA PublishKept == ASSUME Inv, Kept, Publish PROVE Kept'
<1>1. pc \in {"publish_new", "publish"} /\ fresh \in DOMAIN info
  BY DEF Publish, Inv, Control
<1>2. PICK is_long \in BOOLEAN : PublishLayout(is_long) /\ (is_long <=> info[fresh].rel # 0)
  <2>1. CASE pc = "publish_new" /\ PublishLayout(IsLong(call.val))
    <3>1. IsLong(call.val) \in BOOLEAN
      BY DEF IsLong
    <3> QED BY <2>1, <3>1 DEF Kept, Told
  <2>2. CASE pc = "publish" /\ PublishLayout(info[fresh].is_long)
    <3>1. info[fresh].is_long \in BOOLEAN
      BY <1>1 DEF Inv, Heap, AreaTypeOK, Info
    <3> QED BY <2>2, <3>1, <1>1 DEF Kept, Told, Unpublished
  <2> QED BY <2>1, <2>2 DEF Publish
<1>3. /\ info' = [info EXCEPT ![fresh].serial_len = SerialLen(is_long, call.val),
                              ![fresh].is_long = is_long]
      /\ pc' = "idle" /\ depth' = 0 /\ UNCHANGED <<bytes_used, node, long>>
  BY <1>2 DEF PublishLayout, Return
<1>4. /\ DOMAIN info' = DOMAIN info
      /\ \A p \in DOMAIN info : /\ info'[p].rel = info[p].rel /\ info'[p].key = info[p].key
                                /\ info'[p].val = info[p].val
                                /\ p # fresh => info'[p] = info[p]
      /\ info'[fresh].is_long = is_long /\ info'[fresh].serial_len = SerialLen(is_long, call.val)
  BY <1>1, <1>3 DEF Inv, Heap, AreaTypeOK, Info
<1>5. InUse' /\ Held'
  BY <1>1, <1>3, <1>4 DEF Kept, Owned, InUse, InHand, Held
<1>6. info'[fresh].serial_len = info'[fresh].val.len
  BY <1>1, <1>2, <1>4 DEF Kept, Told, SerialLen
<1>7. Told'
  <2>1. \A p \in DOMAIN info : /\ info'[p].is_long <=> info'[p].rel # 0
                               /\ info'[p].serial_len = info'[p].val.len
                               /\ info'[p].rel # 0 => /\ info'[p].rel >= InfoSize(info'[p].key)
                                                      /\ info'[p].val = LONG_LEGACY_ERROR
    <3> SUFFICES ASSUME NEW p \in DOMAIN info
                 PROVE  /\ info'[p].is_long <=> info'[p].rel # 0
                        /\ info'[p].serial_len = info'[p].val.len
                        /\ info'[p].rel # 0 => /\ info'[p].rel >= InfoSize(info'[p].key)
                                               /\ info'[p].val = LONG_LEGACY_ERROR
      OBVIOUS
    <3>1. CASE p = fresh
      BY <3>1, <1>2, <1>4, <1>6 DEF Kept, Told
    <3>2. CASE p # fresh
      BY <3>2, <1>1, <1>4 DEF Kept, Told, Unpublished
    <3> QED BY <3>1, <3>2
  <2> QED BY <1>3, <1>4, <2>1 DEF Told
<1>8. Below'
  BY <1>3 DEF Below
<1> QED BY <1>3, <1>5, <1>7, <1>8, SameNodesKept

\* A change of what the node cur owns keeps the trie.
LEMMA SetPropFacts ==
  ASSUME Heap, NEW x, cur \in DOMAIN node, node' = [node EXCEPT ![cur].prop = x]
  PROVE  /\ DOMAIN node' = DOMAIN node
         /\ \A o \in DOMAIN node : /\ node'[o].link = node[o].link /\ node'[o].name = node[o].name
                                   /\ node'[o].prop = IF o = cur THEN x ELSE node[o].prop
  BY DEF Heap, AreaTypeOK, Node

LEMMA DetachKept == ASSUME Inv, Kept, Detach PROVE Kept'
<1>1. /\ Arrived /\ Slot # 0 /\ node' = [node EXCEPT ![cur].prop = 0] /\ pc = "descend"
      /\ fresh' = Slot /\ pc' = "wipe"
      /\ UNCHANGED <<bytes_used, info, long, cur, depth, call, ret>>
  BY DEF Detach, Goto, Arrived
<1>2. cur \in DOMAIN node /\ Slot \in DOMAIN info /\ call.key \in Keys /\ 0 \in DOMAIN node
  BY <1>1, SlotFacts DEF Inv, Heap
<1>3. /\ DOMAIN node' = DOMAIN node
      /\ \A o \in DOMAIN node : /\ node'[o].link = node[o].link /\ node'[o].name = node[o].name
                                /\ node'[o].prop = IF o = cur THEN 0 ELSE node[o].prop
  BY <1>1, <1>2, SetPropFacts DEF Inv
<1>4. Owned'
  <2>1. Parented' /\ Held'
    BY <1>1, <1>3 DEF Kept, Owned, Parented, Held
  <2>2. InUse'
    BY <1>1, <1>2, <1>3 DEF Kept, Owned, InUse, InHand, Slot
  <2> QED BY <2>1, <2>2 DEF Owned
<1>5. Told'
  BY <1>1 DEF Kept, Told, Unpublished
<1>6. cur # 0
  <2>1. Len(call.key) > 0
    BY <1>2, KeysAssumption
  <2> QED BY <1>1, <2>1 DEF Arrived, Kept, Below
<1>7. RootKept'
  BY <1>1, <1>2, <1>3 DEF Kept, RootKept, FirstPlace
<1>8. bytes_used >= INITIAL_BYTES_USED
  <2>1. Slot \in Objects /\ 0 \in Objects /\ 0 < Slot /\ ObjectSize(Slot) = InfoSize(info[Slot].key)
    BY <1>1, <1>2, SlotFacts DEF Objects, ObjectSize, Inv, Heap, Apart, AreaTypeOK, Offset
  <2>2. ObjectSize(0) <= Slot /\ Slot + InfoSize(info[Slot].key) <= bytes_used
    <3>1. 0 + ObjectSize(0) <= Slot /\ Slot + ObjectSize(Slot) <= bytes_used
      BY <2>1 DEF Inv, Heap, NoOverlap
    <3>2. ObjectSize(0) \in Nat
      BY <2>1, ObjectFacts DEF Inv
    <3> QED BY <2>1, <3>1, <3>2
  <2>3. ObjectSize(0) >= 20 /\ InfoSize(info[Slot].key) >= 96
    <3>1. node[0].name.len \in Nat /\ KeyLen[info[Slot].key] \in Nat
      BY <1>2, KeyLenAssumption DEF Inv, Heap, AreaTypeOK, Node, Info, Segment, RootName
    <3>2. NodeSize(node[0].name) >= 20
      <4> DEFINE m == PROP_TRIE_NODE_HEADER_SIZE
                      + (IF node[0].name.len = 0 THEN 0 ELSE node[0].name.len + 1)
      <4>1. m \in Nat /\ m >= 20
        BY <3>1 DEF PROP_TRIE_NODE_HEADER_SIZE
      <4>2. m <= align_up(m) /\ align_up(m) \in Nat
        BY ONLY <4>1, AlignUp
      <4> QED BY <4>1, <4>2 DEF NodeSize
    <3>3. InfoSize(info[Slot].key) >= 96
      <4> DEFINE m == PROP_INFO_SIZE + KeyLen[info[Slot].key] + 1
      <4>1. m \in Nat /\ m >= 96
        BY <3>1 DEF PROP_INFO_SIZE
      <4>2. m <= align_up(m) /\ align_up(m) \in Nat
        BY ONLY <4>1, AlignUp
      <4> QED BY <4>1, <4>2 DEF InfoSize
    <3> QED BY <1>2, <3>2, <3>3 DEF ObjectSize
  <2>4. Slot \in Nat /\ bytes_used \in Nat /\ ObjectSize(0) \in Nat /\ InfoSize(info[Slot].key) \in Nat
    BY <2>1, ObjectFacts DEF Inv, Heap, AreaTypeOK, Offset
  <2> QED BY <2>2, <2>3, <2>4 DEF INITIAL_BYTES_USED, PROP_TRIE_NODE_HEADER_SIZE, DIRTY_BACKUP_SIZE
<1>9. Below'
  BY <1>1, <1>6, <1>8 DEF Below
<1> QED BY <1>4, <1>5, <1>7, <1>9 DEF Kept

LEMMA LinkKept == ASSUME Inv, Kept, Link PROVE Kept'
<1>1. /\ pc = "link" /\ node' = [node EXCEPT ![cur].prop = fresh] /\ pc' = "publish_new"
      /\ UNCHANGED <<bytes_used, info, long, cur, depth, fresh, call, ret>>
  BY DEF Link, Goto, walk
<1>2. cur \in DOMAIN node /\ cur # 0 /\ 0 \in DOMAIN node
  BY <1>1 DEF Inv, Control, Kept, Below, Heap
<1>3. /\ DOMAIN node' = DOMAIN node
      /\ \A o \in DOMAIN node : /\ node'[o].link = node[o].link /\ node'[o].name = node[o].name
                                /\ node'[o].prop = IF o = cur THEN fresh ELSE node[o].prop
  BY <1>1, <1>2, SetPropFacts DEF Inv
<1>4. Owned'
  <2>1. Parented' /\ Held'
    BY <1>1, <1>3 DEF Kept, Owned, Parented, Held
  <2>2. InUse'
    <3> SUFFICES ASSUME NEW p \in DOMAIN info PROVE \E o \in DOMAIN node : node'[o].prop = p
      BY <1>1, <1>3 DEF InUse
    <3>1. CASE p = fresh
      BY <3>1, <1>2, <1>3
    <3>2. CASE p # fresh
      <4>1. PICK o \in DOMAIN node : node[o].prop = p
        BY <3>2 DEF Kept, Owned, InUse, InHand
      <4>2. CASE o # cur
        BY <4>1, <4>2, <1>3
      <4>3. CASE o = cur
        BY <4>1, <4>3, <1>1, <1>2 DEF Kept, Below, Inv, Heap, Apart
      <4> QED BY <4>2, <4>3
    <3> QED BY <3>1, <3>2
  <2> QED BY <2>1, <2>2 DEF Owned
<1>5. Told'
  BY <1>1 DEF Kept, Told, Unpublished
<1>6. RootKept'
  BY <1>1, <1>2, <1>3 DEF Kept, RootKept, FirstPlace
<1>7. Below'
  BY <1>1 DEF Below
<1> QED BY <1>4, <1>5, <1>6, <1>7 DEF Kept

LEMMA WipeKept == ASSUME Inv, Kept, Wipe PROVE Kept'
<1> DEFINE l == fresh + info[fresh].rel
<1>1. /\ pc = "wipe" /\ info' = Drop(info, fresh)
      /\ long' = IF info[fresh].is_long THEN Drop(long, l) ELSE long
      /\ pc' \in {"descend", "prune"}
      /\ UNCHANGED <<bytes_used, node, cur, depth, call, ret>>
  BY DEF Wipe, Goto
<1>2. fresh \in DOMAIN info /\ Unowned(fresh) /\ cur # 0
  BY <1>1 DEF Inv, Control, Kept, Below
<1>3. DOMAIN info' = DOMAIN info \ {fresh} /\ \A p \in DOMAIN info' : info'[p] = info[p]
  BY <1>1 DEF Drop
<1>4. info[fresh].is_long <=> info[fresh].rel # 0
  BY <1>1, <1>2 DEF Kept, Told, Unpublished
<1>5. /\ DOMAIN long' \subseteq DOMAIN long
      /\ \A o \in DOMAIN long' : ~(info[fresh].rel # 0 /\ o = l)
  BY <1>1, <1>4 DEF Drop
<1>6. InUse'
  <2>1. \A p \in DOMAIN info : p # fresh => \E o \in DOMAIN node : node[o].prop = p
    BY DEF Kept, Owned, InUse, InHand
  <2> QED BY <2>1, <1>1, <1>3 DEF InUse
<1>7. Held'
  <2> SUFFICES ASSUME NEW o \in DOMAIN long'
               PROVE  \E p \in DOMAIN info' : info'[p].rel # 0 /\ p + info'[p].rel = o
    BY DEF Held
  <2>1. PICK p \in DOMAIN info : info[p].rel # 0 /\ p + info[p].rel = o
    BY <1>5 DEF Kept, Owned, Held
  <2>2. p # fresh
    BY <2>1, <1>5
  <2> QED BY <2>1, <2>2, <1>3
<1>8. Told'
  BY <1>1, <1>3 DEF Kept, Told, Unpublished
<1>9. Below'
  BY <1>1, <1>2 DEF Below, Kept
<1> QED BY <1>1, <1>6, <1>7, <1>8, <1>9, SameNodesKept

LEMMA AllocInfoKept == ASSUME Inv, Kept, AllocInfo PROVE Kept'
<1> DEFINE b == bytes_used
<1>1. /\ Arrived /\ bytes_used' = b + InfoSize(call.key) /\ fresh' = b /\ pc = "descend"
      /\ UNCHANGED <<node, long, cur, depth, call, ret>> /\ Slot = 0
  BY DEF AllocInfo, Creating, Fits, Bump, Goto, Arrived
<1>2. call.key \in Keys /\ cur \in DOMAIN node /\ cur # 0
  <2>1. call.key \in Keys /\ cur \in DOMAIN node
    BY <1>1, SlotFacts
  <2>2. Len(call.key) > 0
    BY <2>1, KeysAssumption
  <2> QED BY <1>1, <2>1, <2>2 DEF Arrived, Kept, Below
<1>3. node[0].link["children"] # 0
  BY <1>2, RootLeads DEF Inv, Kept, Owned
<1>4. b \notin DOMAIN info
  BY ObjectFacts DEF Inv, Objects
<1>5. \A p \in DOMAIN info : /\ \E o \in DOMAIN node : node[o].prop = p
                             /\ info[p].is_long <=> info[p].rel # 0
                             /\ info[p].serial_len = info[p].val.len
  BY <1>1 DEF Kept, Owned, InUse, InHand, Told, Unpublished
<1>6. CASE IsLong(call.val)
  <2>1. pc' = "alloc_long" /\ info' = info
    BY <1>6 DEF AllocInfo, Goto
  <2>2. InUse' /\ Held'
    BY <1>1, <1>5, <2>1 DEF Kept, Owned, InUse, Held
  <2>3. Told'
    BY <1>1, <2>1, <1>6, <1>5 DEF Kept, Told, Unpublished
  <2>4. Below'
    BY <1>1, <1>2, <2>1 DEF Below, Slot
  <2> QED BY <1>1, <1>3, <2>2, <2>3, <2>4, SameNodesKept
<1>7. CASE ~IsLong(call.val)
  <2> DEFINE r == InitialInfo(call.key, call.val, 0)
  <2>1. pc' = "link" /\ info' = Put(info, b, r)
    BY <1>7 DEF AllocInfo, Goto
  <2>2. DOMAIN info' = DOMAIN info \cup {b} /\ info'[b] = r /\ \A p \in DOMAIN info : info'[p] = info[p]
    BY <1>4, <2>1 DEF Put
  <2>3. r.rel = 0 /\ r.val = call.val
    BY DEF InitialInfo
  <2>4. InUse'
    BY <1>1, <1>5, <2>1, <2>2 DEF InUse, InHand
  <2>5. Held'
    <3> SUFFICES ASSUME NEW o \in DOMAIN long
                 PROVE  \E p \in DOMAIN info' : info'[p].rel # 0 /\ p + info'[p].rel = o
      BY <1>1 DEF Held
    <3>1. PICK p \in DOMAIN info : info[p].rel # 0 /\ p + info[p].rel = o
      BY DEF Kept, Owned, Held
    <3> QED BY <3>1, <2>2
  <2>6. Told'
    <3>1. \A p \in DOMAIN info' : p = fresh' \/ (p \in DOMAIN info /\ info'[p] = info[p])
      BY <1>1, <2>2
    <3>2. \A p \in DOMAIN info' : info'[p].rel # 0 => /\ info'[p].rel >= InfoSize(info'[p].key)
                                                      /\ info'[p].val = LONG_LEGACY_ERROR
      BY <3>1, <2>2, <2>3, <1>1 DEF Kept, Told
    <3>3. info'[fresh'].rel = 0 /\ info'[fresh'].val = call'.val
      BY <1>1, <2>2, <2>3
    <3> QED BY <1>1, <1>5, <1>7, <2>1, <3>1, <3>2, <3>3 DEF Told, Unpublished
  <2>7. Below'
    BY <1>1, <1>2, <2>1 DEF Below, Slot
  <2> QED BY <1>1, <1>3, <2>4, <2>5, <2>6, <2>7, SameNodesKept
<1> QED BY <1>6, <1>7

LEMMA AllocLongKept == ASSUME Inv, Kept, AllocLong PROVE Kept'
<1> DEFINE b == bytes_used
           p == fresh
           r == InitialInfo(call.key, LONG_LEGACY_ERROR, b - p)
<1>1. /\ pc = "alloc_long" /\ bytes_used' = b + LongSize(call.val) /\ pc' = "link"
      /\ long' = Put(long, b, call.val) /\ info' = Put(info, p, r)
      /\ UNCHANGED <<node, cur, depth, fresh, call, ret>>
  BY DEF AllocLong, Fits, Bump, Goto
<1>2. /\ cur \in DOMAIN node /\ cur # 0 /\ call.key \in Keys /\ p \in Nat /\ b \in Nat
      /\ p + InfoSize(call.key) <= b /\ \A o \in Objects : o + ObjectSize(o) <= p
      /\ IsLong(call.val) /\ node[cur].prop = 0 /\ InfoSize(call.key) \in Nat /\ InfoSize(call.key) > 0
  BY <1>1, Sizes DEF Inv, Control, ControlTypeOK, Offset, Heap, AreaTypeOK, Reserved, Kept, Below, Told
<1>3. node[0].link["children"] # 0
  BY <1>2, RootLeads DEF Inv, Kept, Owned
<1>4. p \notin DOMAIN info
  <2>1. \A o \in Objects : o < p
    BY <1>2, ObjectFacts DEF Inv, Offset
  <2> QED BY <1>2, <2>1 DEF Objects
<1>5. \A q \in DOMAIN info : /\ \E o \in DOMAIN node : node[o].prop = q
                             /\ info[q].is_long <=> info[q].rel # 0
                             /\ info[q].serial_len = info[q].val.len
  BY <1>1 DEF Kept, Owned, InUse, InHand, Told, Unpublished
<1>6. /\ DOMAIN info' = DOMAIN info \cup {p} /\ info'[p] = r /\ \A q \in DOMAIN info : info'[q] = info[q]
      /\ DOMAIN long' = DOMAIN long \cup {b}
  BY <1>1, <1>4 DEF Put
<1>7. /\ r.rel = b - p /\ r.rel # 0 /\ r.rel >= InfoSize(call.key) /\ p + r.rel = b
      /\ r.val = LONG_LEGACY_ERROR /\ r.key = call.key
  <2>1. r.rel = b - p /\ r.val = LONG_LEGACY_ERROR /\ r.key = call.key
    BY DEF InitialInfo
  <2> QED BY <2>1, <1>2
<1> HIDE DEF r, p
<1>8. InUse'
  BY <1>1, <1>5, <1>6 DEF InUse, InHand, p
<1>9. Held'
  <2> SUFFICES ASSUME NEW o \in DOMAIN long'
               PROVE  \E q \in DOMAIN info' : info'[q].rel # 0 /\ q + info'[q].rel = o
    BY DEF Held
  <2>1. CASE o = b
    BY <2>1, <1>6, <1>7
  <2>2. CASE o \in DOMAIN long
    <3>1. PICK q \in DOMAIN info : info[q].rel # 0 /\ q + info[q].rel = o
      BY <2>2 DEF Kept, Owned, Held
    <3> QED BY <3>1, <1>6
  <2> QED BY <2>1, <2>2, <1>6
<1>10. Told'
  <2>1. \A q \in DOMAIN info' : q = fresh' \/ (q \in DOMAIN info /\ info'[q] = info[q])
    BY <1>1, <1>6 DEF p
  <2>2. \A q \in DOMAIN info' : info'[q].rel # 0 => /\ info'[q].rel >= InfoSize(info'[q].key)
                                                    /\ info'[q].val = LONG_LEGACY_ERROR
    BY <2>1, <1>6, <1>7, <1>1 DEF Kept, Told, p
  <2>3. info'[fresh'].rel # 0 /\ IsLong(call'.val)
    BY <1>1, <1>2, <1>6, <1>7 DEF p
  <2> QED BY <1>1, <1>5, <2>1, <2>2, <2>3 DEF Told, Unpublished
<1>11. Below'
  BY <1>1, <1>2 DEF Below
<1> QED BY <1>1, <1>3, <1>8, <1>9, <1>10, <1>11, SameNodesKept

LEMMA PruneNodeKept ==
  ASSUME Inv, Kept, NEW p \in DOMAIN node, NEW f \in Links, PruneNode(p, f) PROVE Kept'
<1> DEFINE o == node[p].link[f]
<1>1. /\ pc = "prune" /\ o # 0 /\ Empty(o) /\ node' = Drop([node EXCEPT ![p].link[f] = 0], o)
      /\ pc' = "prune" /\ UNCHANGED <<bytes_used, info, long, cur, depth, fresh, call, ret>>
  BY DEF PruneNode, Goto, walk
<1>2. o \in DOMAIN node /\ p < o /\ o # p /\ 0 \in DOMAIN node
  BY <1>1 DEF Inv, Heap, TrieAscends, AreaTypeOK, Offset
<1>3. \A q \in DOMAIN node : node[q] \in Node
  BY DEF Inv, Heap, AreaTypeOK
<1>4. /\ DOMAIN node' = DOMAIN node \ {o}
      /\ \A q \in DOMAIN node' : node'[q].prop = node[q].prop /\ node'[q].name = node[q].name
      /\ \A q \in DOMAIN node' : \A g \in Links :
           node'[q].link[g] = IF q = p /\ g = f THEN 0 ELSE node[q].link[g]
  <2>1. DOMAIN node' = DOMAIN node \ {o}
    BY <1>1 DEF Drop
  <2>2. ASSUME NEW q \in DOMAIN node', q # p PROVE node'[q] = node[q]
    BY <1>1, <2>1, <2>2 DEF Drop
  <2>3. /\ node'[p].prop = node[p].prop /\ node'[p].name = node[p].name
        /\ node'[p].link = [node[p].link EXCEPT ![f] = 0]
    BY <1>1, <1>2, <1>3, <2>1 DEF Drop, Node
  <2> QED BY <1>3, <2>1, <2>2, <2>3 DEF Node
<1>5. Owned'
  <2>1. Parented'
    <3> SUFFICES ASSUME NEW x \in DOMAIN node', x # 0
                 PROVE  \E q \in DOMAIN node', g \in Links : node'[q].link[g] = x
      BY DEF Parented
    <3>1. PICK q \in DOMAIN node, g \in Links : node[q].link[g] = x
      BY <1>4 DEF Kept, Owned, Parented
    <3>2. q # o
      BY <3>1, <1>1 DEF Empty
    <3>3. ~(q = p /\ g = f)
      BY <3>1, <1>4
    <3> QED BY <3>1, <3>2, <3>3, <1>4
  <2>2. InUse'
    <3> SUFFICES ASSUME NEW x \in DOMAIN info PROVE \E q \in DOMAIN node' : node'[q].prop = x
      BY <1>1 DEF InUse
    <3>1. PICK q \in DOMAIN node : node[q].prop = x
      BY <1>1 DEF Kept, Owned, InUse, InHand
    <3>2. q # o
      BY <3>1, <1>1, <1>2 DEF Empty, Inv, Heap, Apart
    <3> QED BY <3>1, <3>2, <1>4
  <2>3. Held'
    BY <1>1 DEF Kept, Owned, Held
  <2> QED BY <2>1, <2>2, <2>3 DEF Owned
<1>6. Told'
  BY <1>1 DEF Kept, Told, Unpublished
<1>7. RootKept'
  <2>1. 0 # o
    BY <1>1
  <2>2. {"left", "right", "children"} \subseteq Links
    BY DEF Links
  <2>3. bytes_used >= INITIAL_BYTES_USED
    BY <1>1 DEF Kept, Below
  <2>4. 0 \in DOMAIN node' /\ node'[0].prop = node[0].prop /\ node'[0].name = node[0].name
        /\ \A g \in Links : node'[0].link[g] = 0 \/ node'[0].link[g] = node[0].link[g]
    BY <1>2, <1>4, <2>1
  <2> HIDE DEF o
  <2> QED BY <1>1, <2>2, <2>3, <2>4 DEF Kept, RootKept, FirstPlace
<1>8. Below'
  BY <1>1 DEF Below, Kept
<1> QED BY <1>5, <1>6, <1>7, <1>8 DEF Kept

\* What [Next]_vars keeps of it all.
LEMMA NextKept == ASSUME Inv, Kept, [Next]_vars PROVE Kept'
<1>1. CASE UNCHANGED vars
  <2>1. UNCHANGED <<bytes_used, node, info, long, pc, call, cur, depth, fresh>>
    BY <1>1 DEF vars
  <2> QED BY <2>1 DEF Kept, Owned, Parented, InUse, InHand, Held, Told, Unpublished, RootKept,
        FirstPlace, Below
<1>2. CASE Next
  BY <1>2, RequestKept, WalkKept, EndedKept, GrowTrieKept, UpdateInPlaceKept, DetachKept, WipeKept,
     AllocInfoKept, AllocLongKept, LinkKept, PublishKept, PruneNodeKept DEF Next, Step
<1> QED BY <1>1, <1>2

-------------------------------------------------------------------------------
\* A heap as a value: the objects as they lay before the compaction began to move them.
Area == [node |-> node, info |-> info, long |-> long]

Things(h) == DOMAIN h.node \cup DOMAIN h.info \cup DOMAIN h.long
SizeIn(h, o) ==
  IF o \in DOMAIN h.node THEN NodeSize(h.node[o].name)
  ELSE IF o \in DOMAIN h.info THEN InfoSize(h.info[o].key) ELSE LongSize(h.long[o])

\* What the heap of an area between two operations is.
Sorts(h) ==
  /\ DOMAIN h.node \subseteq Offset /\ h.node \in [DOMAIN h.node -> Node] /\ 0 \in DOMAIN h.node
  /\ DOMAIN h.info \subseteq Offset /\ h.info \in [DOMAIN h.info -> Info]
  /\ DOMAIN h.long \subseteq Offset /\ h.long \in [DOMAIN h.long -> Value]
  /\ DOMAIN h.node \cap DOMAIN h.info = {}
  /\ DOMAIN h.node \cap DOMAIN h.long = {}
  /\ DOMAIN h.info \cap DOMAIN h.long = {}
Tree(h) ==
  /\ \A o \in DOMAIN h.node : \A f \in Links :
       h.node[o].link[f] # 0 => h.node[o].link[f] \in DOMAIN h.node /\ o < h.node[o].link[f]
  /\ \A o, q \in DOMAIN h.node : \A f, g \in Links :
       h.node[o].link[f] # 0 /\ h.node[o].link[f] = h.node[q].link[g] => o = q /\ f = g
  /\ \A o \in DOMAIN h.node : o = 0 \/ \E q \in DOMAIN h.node, f \in Links : h.node[q].link[f] = o
Props(h) ==
  /\ \A o \in DOMAIN h.node :
       h.node[o].prop # 0 => h.node[o].prop \in DOMAIN h.info /\ o < h.node[o].prop
  /\ \A o, q \in DOMAIN h.node : h.node[o].prop # 0 /\ h.node[o].prop = h.node[q].prop => o = q
  /\ \A p \in DOMAIN h.info : \E o \in DOMAIN h.node : h.node[o].prop = p
Longs(h) ==
  /\ \A p \in DOMAIN h.info : h.info[p].rel # 0 =>
       /\ p + h.info[p].rel \in DOMAIN h.long /\ h.info[p].rel >= InfoSize(h.info[p].key)
       /\ h.info[p].val = LONG_LEGACY_ERROR
  /\ \A p, q \in DOMAIN h.info :
       h.info[p].rel # 0 /\ h.info[q].rel # 0 /\ p + h.info[p].rel = q + h.info[q].rel => p = q
  /\ \A l \in DOMAIN h.long : \E p \in DOMAIN h.info : h.info[p].rel # 0 /\ p + h.info[p].rel = l
Serials(h) ==
  \A p \in DOMAIN h.info : /\ h.info[p].is_long <=> h.info[p].rel # 0
                           /\ h.info[p].serial_len = h.info[p].val.len
Roots(h) ==
  /\ h.node[0].name = RootName /\ h.node[0].prop = 0
  /\ h.node[0].link["left"] = 0 /\ h.node[0].link["right"] = 0
  /\ h.node[0].link["children"] # 0 => FirstPlace(h.node[0].link["children"])
Spaced(h) ==
  \A o \in Things(h) : /\ o + SizeIn(h, o) <= bytes_used
                       /\ \A q \in Things(h) : o < q => o + SizeIn(h, o) <= q
Sound(h) == Sorts(h) /\ Tree(h) /\ Props(h) /\ Longs(h) /\ Serials(h) /\ Roots(h) /\ Spaced(h)

Calm == {"idle", "descend", "sibling", "collect", "plan"}
LEMMA AreaIs ==
  /\ Area.node = node /\ Area.info = info /\ Area.long = long
  /\ Things(Area) = Objects /\ \A o : SizeIn(Area, o) = ObjectSize(o)
  BY DEF Area, Things, SizeIn, Objects, ObjectSize

LEMMA SoundArea == ASSUME Inv, Kept, pc \in Calm PROVE Sound(Area)
<1>1. Sorts(Area)
  BY AreaIs DEF Sorts, Inv, Heap, AreaTypeOK, Apart
<1>2. Tree(Area)
  BY AreaIs DEF Tree, Inv, Heap, TrieAscends, OneParent, Kept, Owned, Parented
<1>3. Props(Area)
  BY AreaIs DEF Props, Inv, Heap, OwnersAscend, OneOwner, Kept, Owned, InUse, InHand, Calm
<1>4. Longs(Area)
  BY AreaIs DEF Longs, Inv, Heap, LongsHeld, Kept, Owned, Held, Told
<1>5. Serials(Area)
  BY AreaIs DEF Serials, Kept, Told, Unpublished, Calm
<1>6. Roots(Area)
  BY AreaIs DEF Roots, Kept, RootKept
<1>7. Spaced(Area)
  BY AreaIs DEF Spaced, Inv, Heap, NoOverlap
<1> QED BY <1>1, <1>2, <1>3, <1>4, <1>5, <1>6, <1>7 DEF Sound

LEMMA AreaSound ==
  ASSUME Sound(Area), bytes_used \in Offset
  PROVE  Heap /\ (pc \in Calm => Owned /\ Told)
<1>1. AreaTypeOK /\ Apart /\ 0 \in DOMAIN node
  BY AreaIs DEF Sound, Sorts, AreaTypeOK, Apart
<1>2. TrieAscends /\ OneParent /\ Parented
  BY AreaIs DEF Sound, Tree, TrieAscends, OneParent, Parented
<1>3. OwnersAscend /\ OneOwner /\ InUse
  BY AreaIs DEF Sound, Props, OwnersAscend, OneOwner, InUse
<1>4. LongsHeld /\ Held
  BY AreaIs DEF Sound, Longs, Serials, LongsHeld, Held
<1>5. NoOverlap
  BY AreaIs DEF Sound, Spaced, NoOverlap
<1>6. pc \in Calm => Told
  BY AreaIs DEF Sound, Serials, Longs, Told, Unpublished, Calm
<1> QED BY <1>1, <1>2, <1>3, <1>4, <1>5, <1>6 DEF Heap, Owned

\* Every object takes room.
LEMMA ThingFacts ==
  ASSUME NEW h, Sorts(h), NEW o \in Things(h)
  PROVE  o \in Offset /\ o \in Nat /\ SizeIn(h, o) \in Nat /\ SizeIn(h, o) > 0
<1>1. o \in Offset /\ o \in Nat
  BY DEF Sorts, Things, Offset
<1>2. CASE o \in DOMAIN h.node
  <2>1. h.node[o].name \in Segment \cup {RootName}
    BY <1>2 DEF Sorts, Node
  <2> QED BY <1>1, <1>2, <2>1, Sizes DEF SizeIn
<1>3. CASE o \notin DOMAIN h.node /\ o \in DOMAIN h.info
  <2>1. h.info[o].key \in Keys
    BY <1>3 DEF Sorts, Info
  <2> QED BY <1>1, <1>3, <2>1, Sizes DEF SizeIn
<1>4. CASE o \notin DOMAIN h.node /\ o \notin DOMAIN h.info
  <2>1. h.long[o] \in Value
    BY <1>4 DEF Sorts, Things
  <2> QED BY <1>1, <1>4, <2>1, Sizes DEF SizeIn
<1> QED BY <1>2, <1>3, <1>4

-------------------------------------------------------------------------------
\* A CompactRecord of a heap: the field of r.ref that leads to the object at r.off.
NodeRecord(h, r) == /\ r.field \in Links /\ r.ref \in DOMAIN h.node
                    /\ h.node[r.ref].link[r.field] = r.off /\ r.off # 0
InfoRecord(h, r) == /\ r.field = "prop" /\ r.ref \in DOMAIN h.node
                    /\ h.node[r.ref].prop = r.off /\ r.off # 0
LongRecord(h, r) == /\ r.field = "rel" /\ r.ref \in DOMAIN h.info
                    /\ h.info[r.ref].rel # 0 /\ r.ref + h.info[r.ref].rel = r.off
IsRecord(h, r) ==
  /\ r = CompactRecord(r.off, r.size, r.ref, r.field) /\ r.size = SizeIn(h, r.off)
  /\ NodeRecord(h, r) \/ InfoRecord(h, r) \/ LongRecord(h, r)

LEMMA RecordFacts ==
  ASSUME NEW h, Sound(h), NEW r, IsRecord(h, r)
  PROVE  /\ r.off \in Things(h) /\ r.ref \in Things(h) /\ r.ref < r.off /\ r.off \in Nat /\ r.off > 0
         /\ r.ref \in Nat /\ r.size \in Nat /\ r.size > 0 /\ r.size = SizeIn(h, r.off)
         /\ NodeRecord(h, r) => r.off \in DOMAIN h.node
         /\ InfoRecord(h, r) => r.off \in DOMAIN h.info
         /\ LongRecord(h, r) => r.off \in DOMAIN h.long
<1>4. /\ r.off \in Things(h) /\ r.ref \in Things(h)
      /\ NodeRecord(h, r) => r.off \in DOMAIN h.node
      /\ InfoRecord(h, r) => r.off \in DOMAIN h.info
      /\ LongRecord(h, r) => r.off \in DOMAIN h.long
  BY DEF IsRecord, NodeRecord, InfoRecord, LongRecord, Sound, Tree, Props, Longs, Things
<1>5. r.ref < r.off
  <2>1. CASE NodeRecord(h, r)
    BY <2>1 DEF NodeRecord, Sound, Tree
  <2>2. CASE InfoRecord(h, r)
    BY <2>2 DEF InfoRecord, Sound, Props
  <2>3. CASE LongRecord(h, r)
    <3>1. r.ref \in Nat /\ h.info[r.ref].rel \in Nat /\ h.info[r.ref].rel # 0
      BY <2>3 DEF LongRecord, Sound, Sorts, Info, Offset
    <3> QED BY <2>3, <3>1 DEF LongRecord
  <2> QED BY <2>1, <2>2, <2>3 DEF IsRecord
<1>6. r.off \in Nat /\ r.ref \in Nat /\ SizeIn(h, r.off) \in Nat /\ SizeIn(h, r.off) > 0
  BY <1>4, ThingFacts DEF Sound
<1> QED BY <1>4, <1>5, <1>6 DEF IsRecord

\* No object has two records.
LEMMA OneRecord ==
  ASSUME NEW h, Sound(h), NEW r, NEW q, IsRecord(h, r), IsRecord(h, q), r.off = q.off
  PROVE  r = q
<1>1. r.ref = q.ref /\ r.field = q.field
  <2>1. CASE NodeRecord(h, r)
    <3>1. NodeRecord(h, q)
      BY <2>1, RecordFacts DEF Sound, Sorts, IsRecord
    <3> QED BY <2>1, <3>1 DEF NodeRecord, Sound, Tree
  <2>2. CASE InfoRecord(h, r)
    <3>1. InfoRecord(h, q)
      BY <2>2, RecordFacts DEF Sound, Sorts, IsRecord
    <3> QED BY <2>2, <3>1 DEF InfoRecord, Sound, Props
  <2>3. CASE LongRecord(h, r)
    <3>1. LongRecord(h, q)
      BY <2>3, RecordFacts DEF Sound, Sorts, IsRecord
    <3> QED BY <2>3, <3>1 DEF LongRecord, Sound, Longs
  <2> QED BY <2>1, <2>2, <2>3 DEF IsRecord
<1>2. r.size = q.size
  BY DEF IsRecord
<1>3. r = CompactRecord(r.off, r.size, r.ref, r.field) /\ q = CompactRecord(q.off, q.size, q.ref, q.field)
  BY DEF IsRecord
<1> HIDE DEF IsRecord, Sound
<1> QED BY <1>1, <1>2, <1>3

\* And every object but the root has one.
LEMMA HasRecord ==
  ASSUME NEW h, Sound(h), NEW o \in Things(h), o # 0
  PROVE  \E r : IsRecord(h, r) /\ r.off = o
<1> DEFINE rec(ref, field) == CompactRecord(o, SizeIn(h, o), ref, field)
<1>1. \A ref, field : /\ rec(ref, field).off = o /\ rec(ref, field).size = SizeIn(h, o)
                      /\ rec(ref, field).ref = ref /\ rec(ref, field).field = field
                      /\ rec(ref, field) = CompactRecord(o, SizeIn(h, o), ref, field)
  BY DEF CompactRecord
<1> HIDE DEF rec
<1>2. CASE o \in DOMAIN h.node
  <2>1. PICK q \in DOMAIN h.node, f \in Links : h.node[q].link[f] = o
    BY <1>2 DEF Sound, Tree
  <2>2. NodeRecord(h, rec(q, f))
    BY <2>1, <1>1 DEF NodeRecord
  <2> QED BY <2>2, <1>1 DEF IsRecord
<1>3. CASE o \in DOMAIN h.info
  <2>1. PICK q \in DOMAIN h.node : h.node[q].prop = o
    BY <1>3 DEF Sound, Props
  <2>2. InfoRecord(h, rec(q, "prop"))
    BY <2>1, <1>1 DEF InfoRecord
  <2> QED BY <2>2, <1>1 DEF IsRecord
<1>4. CASE o \in DOMAIN h.long
  <2>1. PICK q \in DOMAIN h.info : h.info[q].rel # 0 /\ q + h.info[q].rel = o
    BY <1>4 DEF Sound, Longs
  <2>2. LongRecord(h, rec(q, "rel"))
    BY <2>1, <1>1 DEF LongRecord
  <2> QED BY <2>2, <1>1 DEF IsRecord
<1> QED BY <1>2, <1>3, <1>4 DEF Things

\* The walk of collect_compact_records_from comes to every node.
LEMMA AllReached ==
  ASSUME Sound(Area) PROVE Reached = DOMAIN node
<1>1. /\ DOMAIN node \subseteq Nat /\ 0 \in DOMAIN node
      /\ \A o \in DOMAIN node : \A f \in Links :
           node[o].link[f] # 0 => node[o].link[f] \in DOMAIN node /\ o < node[o].link[f]
      /\ \A o \in DOMAIN node : o = 0 \/ \E q \in DOMAIN node, f \in Links : node[q].link[f] = o
  BY AreaIs DEF Sound, Sorts, Tree, Offset
<1>2. SUFFICES ASSUME NEW o \in DOMAIN node, NEW S \in SUBSET DOMAIN node, 0 \in S,
                      ClosedUnderLinks(S), o \notin S
               PROVE  FALSE
  BY DEF Reached
<1>3. PICK m \in DOMAIN node \ S : \A y \in DOMAIN node \ S : m <= y
  <2>1. DOMAIN node \ S # {} /\ DOMAIN node \ S \in SUBSET Nat
    BY <1>1, <1>2
  <2> QED BY <2>1, LeastOf
<1>4. PICK q \in DOMAIN node, f \in Links : node[q].link[f] = m
  BY <1>1, <1>2, <1>3
<1>5. m # 0 /\ q < m
  BY <1>1, <1>2, <1>3, <1>4
<1>6. q \in S
  BY <1>1, <1>3, <1>4, <1>5
<1>7. m \in S
  BY <1>2, <1>4, <1>5, <1>6 DEF ClosedUnderLinks
<1> QED BY <1>3, <1>7

RootRecord == CompactRecord(0, NodeSize(node[0].name), 0, "none")

\* The records of a sound area: the root, the dirty backup, and one for each object.
LEMMA RecordsAre ==
  ASSUME Sound(Area)
  PROVE  /\ RootRecord \in Records /\ BackupRecord \subseteq Records
         /\ \A r \in Records : r = RootRecord \/ r \in BackupRecord \/ IsRecord(Area, r)
         /\ \A r : IsRecord(Area, r) => r \in Records
<1>1. Reached = DOMAIN node
  BY AllReached
<1> DEFINE P == {node[o].prop : o \in Owners(DOMAIN node)}
<1>2. P = DOMAIN info
  <2>1. \A o \in DOMAIN node : node[o].prop # 0 => node[o].prop \in DOMAIN info
    BY AreaIs DEF Sound, Props
  <2>2. \A p \in DOMAIN info : \E o \in DOMAIN node : node[o].prop = p /\ p # 0
    BY AreaIs DEF Sound, Props, Sorts
  <2> QED BY <2>1, <2>2 DEF Owners
<1>3. Records = BackupRecord \cup NodeRecords(DOMAIN node) \cup InfoRecords(DOMAIN node)
                  \cup LongRecords(DOMAIN node)
  BY <1>1 DEF Records
<1>4. \A p \in DOMAIN info : info[p].is_long <=> info[p].rel # 0
  BY AreaIs DEF Sound, Serials
<1>5. \A r : r \in NodeRecords(DOMAIN node) <=> r = RootRecord \/ (IsRecord(Area, r) /\ NodeRecord(Area, r))
  <2>1. ASSUME NEW r PROVE r \in NodeRecords(DOMAIN node) <=>
          r = RootRecord \/ \E o \in DOMAIN node, f \in Links :
             node[o].link[f] # 0 /\ r = CompactRecord(node[o].link[f], NodeSize(node[node[o].link[f]].name), o, f)
    <3> DEFINE rec(l) == CompactRecord(node[l[1]].link[l[2]], NodeSize(node[node[l[1]].link[l[2]]].name), l[1], l[2])
    <3>1. r \in NodeRecords(DOMAIN node) <=> r = RootRecord \/ \E l \in LinksOf(DOMAIN node) : r = rec(l)
      BY DEF NodeRecords, RootRecord
    <3>2. (\E l \in LinksOf(DOMAIN node) : r = rec(l)) <=>
            \E o \in DOMAIN node, f \in Links : node[o].link[f] # 0 /\ r = rec(<<o, f>>)
      BY DEF LinksOf
    <3> QED BY <3>1, <3>2
  <2>2. ASSUME NEW o \in DOMAIN node, NEW f \in Links, node[o].link[f] # 0
        PROVE SizeIn(Area, node[o].link[f]) = NodeSize(node[node[o].link[f]].name)
    <3>1. node[o].link[f] \in DOMAIN node
      BY <2>2, AreaIs DEF Sound, Tree
    <3> QED BY <3>1, AreaIs DEF ObjectSize
  <2>3. ASSUME NEW r, IsRecord(Area, r), NodeRecord(Area, r) PROVE r \in NodeRecords(DOMAIN node)
    <3>1. /\ r.ref \in DOMAIN node /\ r.field \in Links /\ node[r.ref].link[r.field] = r.off /\ r.off # 0
          /\ r = CompactRecord(r.off, r.size, r.ref, r.field) /\ r.size = SizeIn(Area, r.off)
      BY <2>3, AreaIs DEF IsRecord, NodeRecord
    <3>2. r = CompactRecord(node[r.ref].link[r.field], NodeSize(node[node[r.ref].link[r.field]].name), r.ref, r.field)
      BY <3>1, <2>2
    <3> QED BY <3>1, <3>2, <2>1
  <2>4. ASSUME NEW r, r \in NodeRecords(DOMAIN node), r # RootRecord PROVE IsRecord(Area, r) /\ NodeRecord(Area, r)
    <3>1. PICK o \in DOMAIN node, f \in Links :
             node[o].link[f] # 0 /\ r = CompactRecord(node[o].link[f], NodeSize(node[node[o].link[f]].name), o, f)
      BY <2>1, <2>4
    <3>2. r.off = node[o].link[f] /\ r.ref = o /\ r.field = f /\ r.size = NodeSize(node[node[o].link[f]].name)
      BY <3>1 DEF CompactRecord
    <3>3. NodeRecord(Area, r)
      BY <3>1, <3>2, AreaIs DEF NodeRecord
    <3>4. r.size = SizeIn(Area, r.off) /\ r = CompactRecord(r.off, r.size, r.ref, r.field)
      BY <3>1, <3>2, <2>2
    <3> QED BY <3>3, <3>4 DEF IsRecord
  <2>5. RootRecord \in NodeRecords(DOMAIN node)
    BY <2>1
  <2> QED BY <2>3, <2>4, <2>5
<1>6. \A r : r \in InfoRecords(DOMAIN node) <=> IsRecord(Area, r) /\ InfoRecord(Area, r)
  <2>1. ASSUME NEW r PROVE r \in InfoRecords(DOMAIN node) <=>
          \E o \in DOMAIN node :
             node[o].prop # 0 /\ r = CompactRecord(node[o].prop, InfoSize(info[node[o].prop].key), o, "prop")
    BY DEF InfoRecords, Owners
  <2>2. ASSUME NEW o \in DOMAIN node, node[o].prop # 0
        PROVE SizeIn(Area, node[o].prop) = InfoSize(info[node[o].prop].key)
    <3>1. node[o].prop \in DOMAIN info /\ node[o].prop \notin DOMAIN node
      BY <2>2, AreaIs DEF Sound, Props, Sorts
    <3> QED BY <3>1, AreaIs DEF ObjectSize
  <2>3. ASSUME NEW r, IsRecord(Area, r), InfoRecord(Area, r) PROVE r \in InfoRecords(DOMAIN node)
    <3>1. /\ r.ref \in DOMAIN node /\ r.field = "prop" /\ node[r.ref].prop = r.off /\ r.off # 0
          /\ r = CompactRecord(r.off, r.size, r.ref, r.field) /\ r.size = SizeIn(Area, r.off)
      BY <2>3, AreaIs DEF IsRecord, InfoRecord
    <3>2. r = CompactRecord(node[r.ref].prop, InfoSize(info[node[r.ref].prop].key), r.ref, "prop")
      BY <3>1, <2>2
    <3> QED BY <3>1, <3>2, <2>1
  <2>4. ASSUME NEW r, r \in InfoRecords(DOMAIN node) PROVE IsRecord(Area, r) /\ InfoRecord(Area, r)
    <3>1. PICK o \in DOMAIN node :
             node[o].prop # 0 /\ r = CompactRecord(node[o].prop, InfoSize(info[node[o].prop].key), o, "prop")
      BY <2>1, <2>4
    <3>2. r.off = node[o].prop /\ r.ref = o /\ r.field = "prop" /\ r.size = InfoSize(info[node[o].prop].key)
      BY <3>1 DEF CompactRecord
    <3>3. InfoRecord(Area, r)
      BY <3>1, <3>2, AreaIs DEF InfoRecord
    <3>4. r.size = SizeIn(Area, r.off) /\ r = CompactRecord(r.off, r.size, r.ref, r.field)
      BY <3>1, <3>2, <2>2
    <3> QED BY <3>3, <3>4 DEF IsRecord
  <2> QED BY <2>3, <2>4
<1>7. \A r : r \in LongRecords(DOMAIN node) <=> IsRecord(Area, r) /\ LongRecord(Area, r)
  <2>1. ASSUME NEW r PROVE r \in LongRecords(DOMAIN node) <=>
          \E p \in DOMAIN info :
             info[p].rel # 0 /\ r = CompactRecord(p + info[p].rel, LongSize(long[p + info[p].rel]), p, "rel")
    BY <1>2, <1>4 DEF LongRecords
  <2>2. ASSUME NEW p \in DOMAIN info, info[p].rel # 0
        PROVE SizeIn(Area, p + info[p].rel) = LongSize(long[p + info[p].rel])
    <3>1. p + info[p].rel \in DOMAIN long /\ p + info[p].rel \notin DOMAIN node /\ p + info[p].rel \notin DOMAIN info
      BY <2>2, AreaIs DEF Sound, Longs, Sorts
    <3> QED BY <3>1, AreaIs DEF ObjectSize
  <2>3. ASSUME NEW r, IsRecord(Area, r), LongRecord(Area, r) PROVE r \in LongRecords(DOMAIN node)
    <3>1. /\ r.ref \in DOMAIN info /\ r.field = "rel" /\ info[r.ref].rel # 0 /\ r.ref + info[r.ref].rel = r.off
          /\ r = CompactRecord(r.off, r.size, r.ref, r.field) /\ r.size = SizeIn(Area, r.off)
      BY <2>3, AreaIs DEF IsRecord, LongRecord
    <3>2. r = CompactRecord(r.ref + info[r.ref].rel, LongSize(long[r.ref + info[r.ref].rel]), r.ref, "rel")
      BY <3>1, <2>2
    <3> QED BY <3>1, <3>2, <2>1
  <2>4. ASSUME NEW r, r \in LongRecords(DOMAIN node) PROVE IsRecord(Area, r) /\ LongRecord(Area, r)
    <3>1. PICK p \in DOMAIN info :
             info[p].rel # 0 /\ r = CompactRecord(p + info[p].rel, LongSize(long[p + info[p].rel]), p, "rel")
      BY <2>1, <2>4
    <3>2. r.off = p + info[p].rel /\ r.ref = p /\ r.field = "rel" /\ r.size = LongSize(long[p + info[p].rel])
      BY <3>1 DEF CompactRecord
    <3>3. LongRecord(Area, r)
      BY <3>1, <3>2, AreaIs DEF LongRecord
    <3>4. r.size = SizeIn(Area, r.off) /\ r = CompactRecord(r.off, r.size, r.ref, r.field)
      BY <3>1, <3>2, <2>2
    <3> QED BY <3>3, <3>4 DEF IsRecord
  <2> QED BY <2>3, <2>4
<1>8. \A r : IsRecord(Area, r) => NodeRecord(Area, r) \/ InfoRecord(Area, r) \/ LongRecord(Area, r)
  BY DEF IsRecord
<1> HIDE DEF P
<1> QED BY <1>3, <1>5, <1>6, <1>7, <1>8

-------------------------------------------------------------------------------
LEMMA GreatestOf ==
  ASSUME NEW n \in Nat, NEW T \in SUBSET (0..n), T # {} PROVE \E m \in T : \A y \in T : y <= m
<1> DEFINE U == {n - y : y \in T}
<1>1. U \in SUBSET Nat /\ U # {}
  <2>1. \A y \in T : y \in 0..n
    OBVIOUS
  <2>2. \A y \in 0..n : n - y \in Nat
    OBVIOUS
  <2>3. PICK y \in T : TRUE
    OBVIOUS
  <2>4. n - y \in U
    OBVIOUS
  <2> QED
    BY <2>1, <2>2, <2>4
<1>2. PICK u \in U : \A v \in U : u <= v
  <2> HIDE DEF U
  <2> QED
    BY <1>1, LeastOf
<1>3. PICK m \in T : u = n - m
  OBVIOUS
<1>4. \A y \in T : n - m <= n - y
  BY <1>2, <1>3
<1>5. \A y \in T : y \in 0..n /\ m \in 0..n
  OBVIOUS
<1> QED
  BY <1>4, <1>5

\* Nothing but the root lies before the root's first child.
LEMMA FirstChild ==
  ASSUME NEW h, Sound(h), NEW o \in Things(h), o # 0
  PROVE  h.node[0].link["children"] # 0 /\ h.node[0].link["children"] <= o
<1> DEFINE c == h.node[0].link["children"]
           T == {q \in Things(h) : q # 0 /\ (c = 0 \/ q < c)}
<1>1. 0 \in DOMAIN h.node /\ Things(h) \subseteq Nat /\ c \in Nat
  <2>1. 0 \in DOMAIN h.node /\ "children" \in Links
    BY DEF Sound, Sorts, Links
  <2>2. c \in Nat
    BY <2>1 DEF Sound, Sorts, Node, Offset
  <2> QED BY <2>1, <2>2, ThingFacts DEF Sound
<1>2. SUFFICES ASSUME T # {} PROVE FALSE
  BY <1>1
<1>3. PICK m \in T : \A y \in T : m <= y
  BY <1>1, <1>2, LeastOf
<1>4. PICK r : IsRecord(h, r) /\ r.off = m
  BY <1>3, HasRecord
<1>5. r.ref \in Things(h) /\ r.ref < m /\ r.ref \in Nat /\ m \in Nat
  BY <1>4, RecordFacts
<1>6. r.ref = 0
  <2> SUFFICES ASSUME r.ref # 0 PROVE FALSE
    OBVIOUS
  <2>1. r.ref \in T
    BY <1>1, <1>3, <1>5
  <2> QED BY <1>3, <1>5, <2>1
<1>7. NodeRecord(h, r) /\ r.field = "children"
  <2>1. ~InfoRecord(h, r)
    BY <1>6 DEF InfoRecord, Sound, Roots
  <2>2. ~LongRecord(h, r)
    BY <1>6 DEF LongRecord, Sound, Sorts
  <2>3. NodeRecord(h, r)
    BY <1>4, <2>1, <2>2 DEF IsRecord
  <2> QED BY <2>3, <1>6 DEF NodeRecord, Sound, Roots, Links
<1>8. m = c
  BY <1>4, <1>6, <1>7 DEF NodeRecord
<1> QED BY <1>1, <1>3, <1>8

\* Where the first scan begins; in an area that holds more than the root the guess
\* has_dirty_backup makes is right, and its room below the first child.
FirstIn(h) == IF h.node[0].link["children"] = PROP_TRIE_NODE_HEADER_SIZE
              THEN PROP_TRIE_NODE_HEADER_SIZE ELSE INITIAL_BYTES_USED

LEMMA Numbers ==
  /\ PROP_TRIE_NODE_HEADER_SIZE = 20 /\ DIRTY_BACKUP_SIZE = 92 /\ INITIAL_BYTES_USED = 112
  /\ DataSize \in Nat /\ DataSize >= 112
  BY DataSizeAssumption DEF PROP_TRIE_NODE_HEADER_SIZE, DIRTY_BACKUP_SIZE, INITIAL_BYTES_USED

LEMMA FirstFacts ==
  ASSUME Sound(Area), bytes_used \in Offset, RootKept
  PROVE  /\ FirstOffset \in {PROP_TRIE_NODE_HEADER_SIZE, INITIAL_BYTES_USED}
         /\ FirstOffset <= bytes_used
         /\ node[0].link["children"] # 0 => FirstOffset = FirstIn(Area)
         /\ \A r \in BackupRecord : r.off = PROP_TRIE_NODE_HEADER_SIZE /\ r.off + r.size = FirstOffset
<1>1. FirstOffset \in {PROP_TRIE_NODE_HEADER_SIZE, INITIAL_BYTES_USED}
  BY DEF FirstOffset
<1>2. FirstOffset <= bytes_used
  <2>1. CASE node[0].link["children"] = 0
    BY <2>1, Numbers DEF RootKept, FirstPlace, FirstOffset, has_dirty_backup, Offset
  <2>2. CASE node[0].link["children"] # 0
    <3> DEFINE c == node[0].link["children"]
    <3>1. c \in DOMAIN node
      BY <2>2, AreaIs DEF Sound, Sorts, Tree, Links
    <3>2. c \in Things(Area) /\ c \in Nat /\ SizeIn(Area, c) \in Nat
      <4>1. c \in Things(Area)
        BY <3>1, AreaIs DEF Things
      <4> QED BY <4>1, ThingFacts DEF Sound
    <3>3. c + SizeIn(Area, c) <= bytes_used
      BY <3>2 DEF Sound, Spaced
    <3>4. c <= bytes_used
      BY <3>2, <3>3 DEF Offset
    <3>5. FirstOffset <= c
      BY <2>2, <3>2, Numbers DEF RootKept, FirstPlace, FirstOffset, has_dirty_backup
    <3> QED BY <1>1, <3>2, <3>4, <3>5, Numbers DEF Offset
  <2> QED BY <2>1, <2>2
<1>3. node[0].link["children"] # 0 => FirstOffset = FirstIn(Area)
  BY AreaIs DEF FirstOffset, has_dirty_backup, FirstIn
<1>4. \A r \in BackupRecord : r.off = PROP_TRIE_NODE_HEADER_SIZE /\ r.off + r.size = FirstOffset
  BY DEF BackupRecord, CompactRecord, FirstOffset, INITIAL_BYTES_USED
<1> QED BY <1>1, <1>2, <1>3, <1>4

\* cursor of the first scan: where the objects before an offset end.
LEMMA EndFacts ==
  ASSUME Sound(Area), bytes_used \in Offset, RootKept, NEW x \in Nat
  PROVE  /\ EndBefore(Records, x) \in Nat /\ FirstOffset <= EndBefore(Records, x)
         /\ \A o \in Objects : o < x => o + ObjectSize(o) <= EndBefore(Records, x)
         /\ \/ EndBefore(Records, x) = FirstOffset
            \/ \E o \in Objects : o < x /\ o + ObjectSize(o) = EndBefore(Records, x)
<1> DEFINE E == {r.off + r.size : r \in {q \in Records : q.off < x}}
           S == {FirstOffset} \cup E
<1>1. \A o \in Objects : /\ o \in Nat /\ ObjectSize(o) \in Nat /\ ObjectSize(o) > 0
                         /\ o + ObjectSize(o) <= bytes_used
  BY AreaIs, ThingFacts DEF Sound, Spaced
<1>2. 0 \in Objects /\ RootRecord.off = 0 /\ RootRecord.size = ObjectSize(0)
  BY AreaIs DEF Sound, Sorts, Objects, RootRecord, CompactRecord, ObjectSize
<1>3. \A o \in Objects : o < x => o + ObjectSize(o) \in E
  <2> SUFFICES ASSUME NEW o \in Objects, o < x PROVE o + ObjectSize(o) \in E
    OBVIOUS
  <2>1. PICK r \in Records : r.off = o /\ r.size = ObjectSize(o)
    <3>1. CASE o = 0
      BY <3>1, <1>2, RecordsAre
    <3>2. CASE o # 0
      <4>1. PICK r : IsRecord(Area, r) /\ r.off = o
        BY <3>2, AreaIs, HasRecord
      <4> QED BY <4>1, RecordsAre, AreaIs DEF IsRecord
    <3> QED BY <3>1, <3>2
  <2> QED BY <2>1
<1>4. \A e \in E : e = FirstOffset \/ \E o \in Objects : o < x /\ o + ObjectSize(o) = e
  <2> SUFFICES ASSUME NEW r \in Records, r.off < x
               PROVE  r.off + r.size = FirstOffset \/ \E o \in Objects : o < x /\ o + ObjectSize(o) = r.off + r.size
    OBVIOUS
  <2>1. CASE r = RootRecord
    BY <2>1, <1>2
  <2>2. CASE r \in BackupRecord
    BY <2>2, FirstFacts
  <2>3. CASE IsRecord(Area, r)
    <3>1. r.off \in Objects /\ r.size = ObjectSize(r.off)
      BY <2>3, RecordFacts, AreaIs
    <3> QED BY <3>1
  <2> QED BY <2>1, <2>2, <2>3, RecordsAre
<1>5. FirstOffset \in 0..DataSize
  BY FirstFacts, Numbers
<1>6. S \in SUBSET (0..DataSize) /\ S # {} /\ FirstOffset \in S
  <2>1. \A o \in Objects : o + ObjectSize(o) \in 0..DataSize
    BY <1>1, Numbers DEF Offset
  <2> HIDE DEF E
  <2> QED BY <1>4, <1>5, <2>1
<1>7. PICK m \in S : \A y \in S : y <= m
  <2>1. DataSize \in Nat
    BY Numbers
  <2> QED BY <2>1, <1>6, GreatestOf
<1> HIDE DEF E
<1>8. MaxOf(S) \in S /\ \A y \in S : y <= MaxOf(S)
  BY <1>7 DEF MaxOf
<1>9. EndBefore(Records, x) = MaxOf(S)
  BY DEF EndBefore, E
<1>10. MaxOf(S) \in Nat
  BY <1>6, <1>8
<1> QED BY <1>3, <1>4, <1>6, <1>8, <1>9, <1>10

\* An object that lies behind no hole lies where another ends, or where the scan begins.
LEMMA NoHoleBefore ==
  ASSUME Sound(Area), bytes_used \in Offset, RootKept, NEW o \in Objects,
         \A r \in BehindHole(Records) : r.off # o
  PROVE  o <= FirstOffset \/ \E q \in Objects : q < o /\ q + ObjectSize(q) = o
<1>1. CASE o = 0
  BY <1>1, FirstFacts, Numbers
<1>2. CASE o # 0
  <2>1. PICK r : IsRecord(Area, r) /\ r.off = o
    BY <1>2, AreaIs, HasRecord
  <2>2. r \in Records /\ o \in Nat
    BY <2>1, RecordsAre, RecordFacts
  <2>3. ~(o > EndBefore(Records, o))
    BY <2>1, <2>2 DEF BehindHole
  <2>4. EndBefore(Records, o) \in Nat /\ o <= EndBefore(Records, o)
    BY <2>2, <2>3, EndFacts
  <2>5. CASE EndBefore(Records, o) = FirstOffset
    BY <2>4, <2>5
  <2>6. CASE \E q \in Objects : q < o /\ q + ObjectSize(q) = EndBefore(Records, o)
    <3>1. PICK q \in Objects : q < o /\ q + ObjectSize(q) = EndBefore(Records, o)
      BY <2>6
    <3>2. q + ObjectSize(q) <= o
      BY <3>1, AreaIs DEF Sound, Spaced
    <3>3. q + ObjectSize(q) = o
      BY <3>1, <3>2, <2>2, <2>4
    <3> QED BY <3>1, <3>3
  <2> QED BY <2>2, <2>5, <2>6, EndFacts
<1> QED BY <1>1, <1>2

\* A record behind a hole is an object's.
LEMMA BehindFacts ==
  ASSUME Sound(Area), bytes_used \in Offset, RootKept, NEW r \in Records,
         FirstOffset < r.off
  PROVE  IsRecord(Area, r)
<1>1. r # RootRecord
  BY FirstFacts, Numbers DEF RootRecord, CompactRecord
<1>2. r \notin BackupRecord
  <2> SUFFICES ASSUME r \in BackupRecord PROVE FALSE
    OBVIOUS
  <2>1. r.off = 20 /\ FirstOffset \in {20, 112}
    BY FirstFacts, Numbers
  <2> QED BY <2>1
<1> QED BY <1>1, <1>2, RecordsAre

-------------------------------------------------------------------------------
\* No room is left between the objects, or behind them.
Packed ==
  /\ FirstOffset <= bytes_used
  /\ \A o \in Objects : o <= FirstOffset \/ \E q \in Objects : q < o /\ q + ObjectSize(q) = o
  /\ bytes_used = FirstOffset \/ \E q \in Objects : q + ObjectSize(q) = bytes_used

\* The objects that move are those behind b, where the objects that stay end.
Moves(o) == \E r \in recs : r.off = o
Ledger(h, b) ==
  /\ recs # {} /\ \A r \in recs : IsRecord(h, r) /\ r.off > b
  /\ b \in Nat /\ FirstIn(h) <= b
  /\ \A o \in Things(h) : Moves(o) \/ (o + SizeIn(h, o) <= b /\ \A r \in recs : o < r.off)
  /\ \A o \in Things(h) :
       Moves(o) \/ o <= FirstIn(h) \/ \E q \in Things(h) : q < o /\ q + SizeIn(h, q) = o
  /\ b = FirstIn(h) \/ \E q \in Things(h) : ~Moves(q) /\ q + SizeIn(h, q) = b

\* The new places given so far, to the records not in T: one behind the other from b
\* to cursor, in the order of the old ones, each before the old one.
Placed(b, T) ==
  /\ T \subseteq recs /\ \A r \in recs \ T, q \in T : r.off < q.off
  /\ DOMAIN remap = {r.off : r \in recs \ T}
  /\ \A r \in recs \ T : /\ remap[r.off] \in Nat /\ b <= remap[r.off] /\ remap[r.off] < r.off
                         /\ remap[r.off] + r.size <= cursor
  /\ \A r, q \in recs \ T : r.off < q.off => remap[r.off] + r.size <= remap[q.off]
  /\ cursor \in Nat /\ b <= cursor /\ \A q \in T : cursor < q.off
  /\ \A r \in recs \ T : \/ remap[r.off] = b
                         \/ \E q \in recs \ T : q.off < r.off /\ remap[q.off] + q.size = remap[r.off]
  /\ cursor = b \/ \E q \in recs \ T : remap[q.off] + q.size = cursor

Planning == \E b : Ledger(Area, b) /\ Placed(b, todo)

LEMMA LowestFacts ==
  ASSUME NEW S, S # {}, \A r \in S : r.off \in Nat
  PROVE  Lowest(S) \in S /\ \A q \in S : Lowest(S).off <= q.off
<1> DEFINE T == {r.off : r \in S}
<1>1. T \in SUBSET Nat /\ T # {}
  OBVIOUS
<1>2. PICK m \in T : \A y \in T : m <= y
  <2> HIDE DEF T
  <2> QED BY <1>1, LeastOf
<1>3. PICK r \in S : \A q \in S : r.off <= q.off
  BY <1>2
<1> QED BY <1>3 DEF Lowest

LEMMA CollectHolesPlans ==
  ASSUME Inv, Kept, CollectHoles PROVE Inv' /\ Kept' /\ Planning'
<1> DEFINE first == Lowest(BehindHole(Records))
           b == EndBefore(Records, first.off)
<1>1. /\ pc = "collect" /\ BehindHole(Records) # {} /\ recs' = {r \in Records : r.off >= first.off}
      /\ todo' = recs' /\ cursor' = b /\ remap' = NoMap /\ pc' = "plan"
      /\ UNCHANGED <<area, walk, call, ret>>
  BY DEF CollectHoles, Goto
<1>2. Sound(Area) /\ bytes_used \in Offset /\ RootKept
  BY <1>1, SoundArea DEF Calm, Inv, Heap, AreaTypeOK, Kept
<1>3. UNCHANGED <<bytes_used, node, info, long, cur, depth, fresh, call, ret>>
  BY <1>1 DEF area, walk
<1>4. Inv'
  BY <1>1, <1>3, SameArea DEF Inv, ControlTypeOK, Places, Control, Reserved, area
<1>5. Kept'
  BY <1>1, SameKept DEF Plain, Below
<1>6. \A r \in BehindHole(Records) :
         r \in Records /\ IsRecord(Area, r) /\ r.off \in Nat /\ r.off > EndBefore(Records, r.off)
  <2> SUFFICES ASSUME NEW r \in Records, r.off > EndBefore(Records, r.off)
               PROVE  IsRecord(Area, r) /\ r.off \in Nat
    BY DEF BehindHole
  <2>1. r.off \in Nat
    <3>1. RootRecord.off \in Nat /\ \A q \in BackupRecord : q.off \in Nat
      BY Numbers DEF RootRecord, BackupRecord, CompactRecord
    <3>2. \A q : IsRecord(Area, q) => q.off \in Nat
      BY <1>2, RecordFacts
    <3> QED BY <1>2, <3>1, <3>2, RecordsAre
  <2>2. EndBefore(Records, r.off) \in Nat /\ FirstOffset <= EndBefore(Records, r.off) /\ FirstOffset \in Nat
    BY <1>2, <2>1, EndFacts, FirstFacts, Numbers
  <2>3. FirstOffset < r.off
    BY <2>1, <2>2
  <2> QED BY <1>2, <2>1, <2>3, BehindFacts
<1>7. first \in BehindHole(Records) /\ \A r \in BehindHole(Records) : first.off <= r.off
  BY <1>1, <1>6, LowestFacts
<1>8. /\ IsRecord(Area, first) /\ first \in Records /\ first.off \in Nat /\ first.off > b
      /\ b \in Nat /\ FirstOffset <= b /\ FirstOffset \in Nat
  BY <1>2, <1>6, <1>7, EndFacts, FirstFacts, Numbers
<1>9. PICK x : x = first.off /\ x \in Nat
  BY <1>8
<1>10. PICK e : e = b
  OBVIOUS
<1>11. \A r : r \in recs' <=> IsRecord(Area, r) /\ r.off >= x
  <2>1. \A r \in Records : r.off >= x => FirstOffset < r.off \/ ~(r.off \in Nat)
    BY <1>8, <1>9
  <2>2. \A r \in Records : r.off >= x => IsRecord(Area, r)
    <3> SUFFICES ASSUME NEW r \in Records, r.off >= x PROVE IsRecord(Area, r)
      OBVIOUS
    <3>1. CASE r = RootRecord
      BY <3>1, <1>8, <1>9, FirstFacts, <1>2, Numbers DEF RootRecord, CompactRecord
    <3>2. CASE r \in BackupRecord
      <4>1. r.off = 20
        BY <3>2, <1>2, FirstFacts, Numbers
      <4>2. FirstOffset < r.off
        BY <4>1, <1>8, <1>9
      <4> QED BY <4>2, <1>2, BehindFacts
    <3> QED BY <3>1, <3>2, <1>2, RecordsAre
  <2> QED BY <1>1, <1>2, <1>9, <2>2, RecordsAre
<1>12. node[0].link["children"] # 0 /\ FirstOffset = FirstIn(Area)
  <2>1. first.off \in Things(Area) /\ first.off # 0
    BY <1>2, <1>8, RecordFacts
  <2> QED BY <1>2, <2>1, FirstChild, FirstFacts, AreaIs
<1>13. \A o \in Objects : /\ o \in Nat
                          /\ o >= x => \E r \in recs' : r.off = o
                          /\ o < x => o + ObjectSize(o) <= e /\ \A r \in recs' : o < r.off
  <2> SUFFICES ASSUME NEW o \in Objects
               PROVE  /\ o \in Nat
                      /\ o >= x => \E r \in recs' : r.off = o
                      /\ o < x => o + ObjectSize(o) <= e /\ \A r \in recs' : o < r.off
    OBVIOUS
  <2>1. o \in Nat
    BY <1>2, AreaIs, ThingFacts DEF Sound
  <2>2. CASE o >= x
    <3>1. o # 0
      BY <2>1, <2>2, <1>8, <1>9
    <3>2. PICK r : IsRecord(Area, r) /\ r.off = o
      BY <3>1, <1>2, AreaIs, HasRecord
    <3> QED BY <2>1, <2>2, <3>2, <1>9, <1>11
  <2>3. CASE o < x
    <3>1. o + ObjectSize(o) <= e
      BY <1>2, <1>9, <1>10, <2>3, EndFacts
    <3>2. \A r \in recs' : o < r.off
      <4> SUFFICES ASSUME NEW r \in recs' PROVE o < r.off
        OBVIOUS
      <4>1. r.off >= x /\ r.off \in Nat
        BY <1>2, <1>11, RecordFacts
      <4> QED BY <4>1, <2>1, <2>3, <1>9
    <3> QED BY <3>1, <3>2, <2>1, <2>3, <1>9
  <2> QED BY <2>1, <2>2, <2>3, <1>9
<1>14. Area' = Area /\ (\A o \in Things(Area) : SizeIn(Area, o) = ObjectSize(o)) /\ Things(Area) = Objects
  BY <1>3, AreaIs DEF Area
<1>15. Ledger(Area, e)'
  <2>1. recs' # {} /\ \A r \in recs' : IsRecord(Area, r) /\ r.off > e
    <3>1. first \in recs'
      BY <1>8, <1>9, <1>11
    <3>2. \A r \in recs' : r.off > e
      <4> SUFFICES ASSUME NEW r \in recs' PROVE r.off > e
        OBVIOUS
      <4>1. r.off >= x /\ r.off \in Nat
        BY <1>2, <1>11, RecordFacts
      <4> QED BY <4>1, <1>8, <1>9, <1>10
    <3> QED BY <3>1, <3>2, <1>11
  <2>2. e \in Nat /\ FirstIn(Area) <= e
    BY <1>8, <1>10, <1>12
  <2>3. \A o \in Things(Area) : (\E r \in recs' : r.off = o)
           \/ (o + SizeIn(Area, o) <= e /\ \A r \in recs' : o < r.off)
    <3> SUFFICES ASSUME NEW o \in Objects
                 PROVE  (\E r \in recs' : r.off = o) \/ (o + ObjectSize(o) <= e /\ \A r \in recs' : o < r.off)
      BY <1>14
    <3>1. o >= x \/ o < x
      BY <1>9, <1>13
    <3> QED BY <3>1, <1>13
  <2>4. \A o \in Things(Area) :
          (\E r \in recs' : r.off = o) \/ o <= FirstIn(Area)
          \/ \E q \in Things(Area) : q < o /\ q + SizeIn(Area, q) = o
    <3> SUFFICES ASSUME NEW o \in Objects, ~(\E r \in recs' : r.off = o)
                 PROVE  o <= FirstOffset \/ \E q \in Objects : q < o /\ q + ObjectSize(q) = o
      BY <1>12, <1>14
    <3>1. o \in Nat /\ o < x
      BY <1>2, <1>9, <1>13, AreaIs, ThingFacts DEF Sound
    <3>2. \A r \in BehindHole(Records) : r.off # o
      BY <3>1, <1>6, <1>7, <1>9
    <3> QED BY <3>2, <1>2, NoHoleBefore
  <2>5. e = FirstIn(Area) \/ \E q \in Things(Area) : ~(\E r \in recs' : r.off = q) /\ q + SizeIn(Area, q) = e
    <3>1. e = FirstOffset \/ \E o \in Objects : o < x /\ o + ObjectSize(o) = e
      BY <1>2, <1>9, <1>10, EndFacts
    <3>2. \A o \in Objects : o < x => ~(\E r \in recs' : r.off = o)
      <4> SUFFICES ASSUME NEW o \in Objects, o < x, NEW r \in recs', r.off = o PROVE FALSE
        OBVIOUS
      <4>1. o < r.off /\ o \in Nat
        BY <1>13
      <4> QED BY <4>1
    <3> QED BY <3>1, <3>2, <1>12, <1>14
  <2> QED BY <2>1, <2>2, <2>3, <2>4, <2>5, <1>14 DEF Ledger, Moves
<1>16. Placed(e, todo)'
  <2>1. recs' \ todo' = {} /\ DOMAIN remap' = {} /\ cursor' = e /\ e \in Nat
    BY <1>1, <1>8, <1>10 DEF NoMap
  <2>2. \A q \in todo' : e < q.off
    <3> SUFFICES ASSUME NEW r \in recs' PROVE e < r.off
      BY <1>1
    <3>1. r.off >= x /\ r.off \in Nat
      BY <1>2, <1>11, RecordFacts
    <3> QED BY <3>1, <1>8, <1>9, <1>10
  <2> QED BY <1>1, <2>1, <2>2 DEF Placed
<1>17. Planning'
  BY <1>14, <1>15, <1>16 DEF Planning
<1> QED BY <1>4, <1>5, <1>17

-------------------------------------------------------------------------------
LEMMA RootSize == NodeSize(RootName) = 20
  BY DEF NodeSize, RootName, align_up, PROP_TRIE_NODE_HEADER_SIZE

\* The scan that finds no hole leaves the objects, and takes the room behind them.
LEMMA CollectPackedInv ==
  ASSUME Inv, Kept, CollectPacked PROVE Inv' /\ Kept' /\ Packed'
<1> DEFINE end == EndBefore(Records, DataSize + 1)
<1>1. /\ pc = "collect" /\ BehindHole(Records) = {} /\ UNCHANGED <<node, info, long>>
      /\ pc' = "idle" /\ call' = NoCall /\ cur' = 0 /\ depth' = 0 /\ fresh' = 0
  BY DEF CollectPacked, Return
<1>2. Sound(Area) /\ bytes_used \in Offset /\ bytes_used \in Nat /\ RootKept
  BY <1>1, SoundArea DEF Calm, Inv, Heap, AreaTypeOK, Kept, Offset
<1>3. /\ end \in Nat /\ FirstOffset <= end
      /\ \A o \in Objects : o + ObjectSize(o) <= end
      /\ end = FirstOffset \/ \E o \in Objects : o + ObjectSize(o) = end
  <2>1. DataSize + 1 \in Nat
    BY Numbers
  <2>2. \A o \in Objects : o < DataSize + 1
    BY <1>2, ObjectFacts, Numbers DEF Inv, Offset
  <2> QED BY <1>2, <2>1, <2>2, EndFacts
<1>4. end <= bytes_used
  BY <1>2, <1>3, FirstFacts, AreaIs DEF Sound, Spaced
<1>5. bytes_used' = end /\ \E is \in Status : Return(is, NoValue)
  <2>1. CASE end < bytes_used
    BY <2>1 DEF CollectPacked, Status
  <2>2. CASE ~(end < bytes_used)
    <3>1. bytes_used' = bytes_used /\ Return("no_holes", NoValue)
      BY <2>2 DEF CollectPacked
    <3> QED BY <3>1, <2>2, <1>2, <1>3, <1>4 DEF Status
  <2> QED BY <2>1, <2>2
<1>6. Objects' = Objects /\ \A o : ObjectSize(o)' = ObjectSize(o)
  BY <1>1 DEF Objects, ObjectSize
<1>7. Heap'
  <2>1. bytes_used' \in Offset
    <3>1. end \in 0..DataSize
      <4> HIDE DEF end
      <4> QED BY <1>2, <1>3, <1>4, Numbers DEF Offset
    <3> QED BY <3>1, <1>5 DEF Offset
  <2>2. NoOverlap'
    BY <1>3, <1>5, <1>6 DEF Inv, Heap, NoOverlap
  <2>3. AreaTypeOK'
    BY <1>1, <2>1 DEF Inv, Heap, AreaTypeOK
  <2> QED BY <1>1, <2>2, <2>3 DEF Inv, Heap, Apart, TrieAscends, OneParent, OwnersAscend, OneOwner, LongsHeld
<1>8. Inv'
  BY <1>5, <1>7, EndedInv, NoValueIsAValue
<1>9. FirstOffset' = FirstOffset /\ RootKept'
  <2>1. CASE node[0].link["children"] # 0
    BY <1>1, <1>2, <2>1 DEF FirstOffset, has_dirty_backup, RootKept, FirstPlace
  <2>2. CASE node[0].link["children"] = 0
    <3>1. end = FirstOffset
      <4>1. Objects = {0}
        BY <2>2, <1>2, AreaIs, FirstChild DEF Sound, Sorts, Things
      <4>2. ObjectSize(0) = 20
        <5>1. 0 \in DOMAIN node /\ node[0].name = RootName
          BY <1>2, AreaIs DEF Sound, Sorts, RootKept
        <5> QED BY <5>1, RootSize DEF ObjectSize
      <4>3. FirstOffset \in {20, 112}
        BY <1>2, FirstFacts, Numbers
      <4> QED BY <4>1, <4>2, <4>3, <1>3
    <3>2. has_dirty_backup <=> bytes_used = INITIAL_BYTES_USED
      BY <2>2 DEF has_dirty_backup
    <3>3. has_dirty_backup' <=> end = INITIAL_BYTES_USED
      BY <2>2, <1>1, <1>5 DEF has_dirty_backup
    <3>4. FirstOffset = INITIAL_BYTES_USED <=> has_dirty_backup
      BY Numbers DEF FirstOffset
    <3>5. FirstOffset' = FirstOffset
      BY <3>1, <3>2, <3>3, <3>4 DEF FirstOffset
    <3>6. FirstPlace(end)
      BY <3>1, <1>2, FirstFacts, Numbers DEF FirstPlace
    <3> QED BY <3>5, <3>6, <1>1, <1>2, <1>5, <2>2 DEF RootKept, FirstPlace
  <2> QED BY <2>1, <2>2
<1>10. Kept'
  <2>1. Owned'
    BY <1>1 DEF Kept, Owned, Parented, InUse, InHand, Held
  <2>2. Told'
    BY <1>1 DEF Kept, Told, Unpublished
  <2>3. Below'
    BY <1>1 DEF Below
  <2> QED BY <1>9, <2>1, <2>2, <2>3 DEF Kept
<1>11. Packed'
  <2>1. \A o \in Objects : o <= FirstOffset \/ \E q \in Objects : q < o /\ q + ObjectSize(q) = o
    BY <1>1, <1>2, NoHoleBefore
  <2> QED BY <2>1, <1>3, <1>5, <1>6, <1>9 DEF Packed
<1> QED BY <1>8, <1>10, <1>11

\* One turn of the loop that gives each record its new place.
LEMMA PlanMoveInv ==
  ASSUME Inv, Kept, Planning, PlanMove PROVE Planning'
<1> DEFINE r == Lowest(todo)
<1>1. /\ pc = "plan" /\ todo # {} /\ remap' = Put(remap, r.off, cursor) /\ cursor' = cursor + r.size
      /\ todo' = todo \ {r} /\ UNCHANGED <<bytes_used, node, info, long, recs>>
  BY DEF PlanMove, vars
<1>2. PICK b : Ledger(Area, b) /\ Placed(b, todo)
  BY DEF Planning
<1>3. Sound(Area)
  BY <1>1, SoundArea DEF Calm
<1>4. \A q \in recs : IsRecord(Area, q) /\ q.off \in Nat /\ q.size \in Nat /\ q.size > 0
  BY <1>2, <1>3, RecordFacts DEF Ledger
<1>5. r \in todo /\ todo \subseteq recs /\ \A q \in todo : r.off <= q.off
  BY <1>1, <1>2, <1>4, LowestFacts DEF Placed
<1>6. PICK x : x = r
  OBVIOUS
<1> HIDE DEF r
<1>7. \A q \in todo' : x.off < q.off /\ x.off + x.size <= q.off
  <2> SUFFICES ASSUME NEW q \in todo, q # x PROVE x.off < q.off /\ x.off + x.size <= q.off
    BY <1>1, <1>6
  <2>1. x \in recs /\ q \in recs /\ x.off <= q.off
    BY <1>5, <1>6
  <2>2. x.off # q.off
    BY <2>1, <1>3, <1>4, OneRecord
  <2>3. x.off < q.off
    BY <2>1, <2>2, <1>4
  <2>4. x.off \in Things(Area) /\ q.off \in Things(Area) /\ x.size = SizeIn(Area, x.off)
    BY <2>1, <1>3, <1>4, RecordFacts
  <2> QED BY <2>3, <2>4, <1>3 DEF Sound, Spaced
<1>8. /\ recs \ todo' = (recs \ todo) \cup {x} /\ x \notin recs \ todo /\ x \in recs
      /\ \A q \in recs \ todo : q.off < x.off
  BY <1>1, <1>2, <1>5, <1>6 DEF Placed
<1>9. /\ DOMAIN remap' = DOMAIN remap \cup {x.off} /\ remap'[x.off] = cursor
      /\ \A q \in recs \ todo : remap'[q.off] = remap[q.off]
  <2>1. remap' = Put(remap, x.off, cursor)
    BY <1>1, <1>6
  <2>2. \A q \in recs \ todo : q.off # x.off /\ q.off \in DOMAIN remap
    BY <1>2, <1>4, <1>8 DEF Placed
  <2> QED BY <2>1, <2>2 DEF Put
<1>10. /\ cursor \in Nat /\ b \in Nat /\ b <= cursor /\ cursor < x.off /\ x.off \in Nat /\ x.size \in Nat
       /\ x.size > 0 /\ cursor' = cursor + x.size
  BY <1>1, <1>2, <1>4, <1>5, <1>6, <1>8 DEF Placed, Ledger
<1>11. Placed(b, todo)'
  <2>1. todo' \subseteq recs' /\ \A s \in recs' \ todo', q \in todo' : s.off < q.off
    <3> SUFFICES ASSUME NEW s \in recs \ todo', NEW q \in todo' PROVE s.off < q.off
      BY <1>1, <1>5
    <3>1. CASE s = x
      BY <3>1, <1>7
    <3>2. CASE s \in recs \ todo
      BY <3>2, <1>1, <1>2 DEF Placed
    <3> QED BY <3>1, <3>2, <1>8
  <2>2. DOMAIN remap' = {s.off : s \in recs' \ todo'}
    BY <1>1, <1>2, <1>8, <1>9 DEF Placed
  <2>3. \A s \in recs' \ todo' : /\ remap'[s.off] \in Nat /\ b <= remap'[s.off] /\ remap'[s.off] < s.off
                                 /\ remap'[s.off] + s.size <= cursor'
    <3> SUFFICES ASSUME NEW s \in recs \ todo'
                 PROVE  /\ remap'[s.off] \in Nat /\ b <= remap'[s.off] /\ remap'[s.off] < s.off
                        /\ remap'[s.off] + s.size <= cursor'
      BY <1>1
    <3>1. CASE s = x
      BY <3>1, <1>9, <1>10
    <3>2. CASE s \in recs \ todo
      <4>1. /\ remap[s.off] \in Nat /\ b <= remap[s.off] /\ remap[s.off] < s.off
            /\ remap[s.off] + s.size <= cursor /\ s.size \in Nat
        BY <3>2, <1>2, <1>4 DEF Placed
      <4> QED BY <3>2, <4>1, <1>9, <1>10
    <3> QED BY <3>1, <3>2, <1>8
  <2>4. \A s, q \in recs' \ todo' : s.off < q.off => remap'[s.off] + s.size <= remap'[q.off]
    <3> SUFFICES ASSUME NEW s \in recs \ todo', NEW q \in recs \ todo', s.off < q.off
                 PROVE  remap'[s.off] + s.size <= remap'[q.off]
      BY <1>1
    <3>1. s \in recs \ todo
      <4> SUFFICES ASSUME s = x PROVE FALSE
        BY <1>8
      <4>1. q.off <= x.off /\ q.off \in Nat
        BY <1>4, <1>8
      <4> QED BY <4>1, <1>10
    <3>2. CASE q = x
      BY <3>1, <3>2, <1>2, <1>9 DEF Placed
    <3>3. CASE q \in recs \ todo
      BY <3>1, <3>3, <1>2, <1>9 DEF Placed
    <3> QED BY <3>2, <3>3, <1>8
  <2>5. cursor' \in Nat /\ b <= cursor' /\ \A q \in todo' : cursor' < q.off
    <3> SUFFICES ASSUME NEW q \in todo' PROVE cursor' < q.off
      BY <1>10
    <3>1. x.off + x.size <= q.off /\ q.off \in Nat
      BY <1>1, <1>4, <1>5, <1>7
    <3> QED BY <3>1, <1>10
  <2>6. \A s \in recs' \ todo' :
           \/ remap'[s.off] = b
           \/ \E q \in recs' \ todo' : q.off < s.off /\ remap'[q.off] + q.size = remap'[s.off]
    <3> SUFFICES ASSUME NEW s \in recs \ todo', remap'[s.off] # b
                 PROVE  \E q \in recs \ todo' : q.off < s.off /\ remap'[q.off] + q.size = remap'[s.off]
      BY <1>1
    <3>1. CASE s = x
      <4>1. PICK q \in recs \ todo : remap[q.off] + q.size = cursor
        BY <3>1, <1>2, <1>9 DEF Placed
      <4> QED BY <4>1, <3>1, <1>8, <1>9
    <3>2. CASE s \in recs \ todo
      <4>1. PICK q \in recs \ todo : q.off < s.off /\ remap[q.off] + q.size = remap[s.off]
        BY <3>2, <1>2, <1>9 DEF Placed
      <4> QED BY <4>1, <3>2, <1>8, <1>9
    <3> QED BY <3>1, <3>2, <1>8
  <2>7. \E q \in recs' \ todo' : remap'[q.off] + q.size = cursor'
    BY <1>1, <1>8, <1>9, <1>10
  <2> HIDE DEF Placed
  <2> QED BY <2>1, <2>2, <2>3, <2>4, <2>5, <2>6, <2>7 DEF Placed
<1>12. Ledger(Area, b)'
  BY <1>1, <1>2 DEF Ledger, Moves, Area, IsRecord, NodeRecord, InfoRecord, LongRecord, Things, SizeIn
<1>13. Area' = Area
  BY <1>1 DEF Area
<1> QED BY <1>11, <1>12 DEF Planning

-------------------------------------------------------------------------------
(***************************************************************************)
(* While objects move, the area is what lay in it before, with each object *)
(* that has moved at its new place, and each field that leads to it        *)
(* patched; the distance to a long value that has not moved is still that  *)
(* between the old places.                                                 *)
(***************************************************************************)
Left(o) == \E r \in todo : r.off = o
At(o)   == IF Left(o) THEN o ELSE Remapped(o)
OldLong(h, p) == p + h.info[p].rel
Rel(h, p) == IF h.info[p].rel = 0 \/ Left(OldLong(h, p)) THEN h.info[p].rel
             ELSE At(OldLong(h, p)) - At(p)

Image(h) ==
  /\ DOMAIN node = {At(o) : o \in DOMAIN h.node} /\ node = [o \in DOMAIN node |-> node[o]]
  /\ DOMAIN info = {At(o) : o \in DOMAIN h.info} /\ info = [o \in DOMAIN info |-> info[o]]
  /\ DOMAIN long = {At(o) : o \in DOMAIN h.long} /\ long = [o \in DOMAIN long |-> long[o]]
  /\ \A o \in DOMAIN h.node :
       node[At(o)] = [name |-> h.node[o].name, prop |-> At(h.node[o].prop),
                      link |-> [f \in Links |-> At(h.node[o].link[f])]]
  /\ \A p \in DOMAIN h.info :
       info[At(p)] = [key |-> h.info[p].key, serial_len |-> h.info[p].serial_len,
                      is_long |-> h.info[p].is_long, val |-> h.info[p].val, rel |-> Rel(h, p)]
  /\ \A l \in DOMAIN h.long : long[At(l)] = h.long[l]

LastLeft == todo \subseteq recs /\ \A r \in recs \ todo, q \in todo : r.off < q.off

Ready(h, b) == Sound(h) /\ Ledger(h, b) /\ Placed(b, {}) /\ LastLeft /\ bytes_used \in Offset

\* What moves keeps its order, and every object its room.
LEMMA AtFacts ==
  ASSUME NEW h, NEW b, Ready(h, b)
  PROVE  /\ At(0) = 0
         /\ \A o \in Things(h) : /\ At(o) \in Nat /\ At(o) <= o
                                 /\ ~Moves(o) => At(o) = o
                                 /\ Moves(o) => At(o) >= b
         /\ \A o, q \in Things(h) : o < q => At(o) + SizeIn(h, o) <= At(q)
<1>1. \A r \in recs : /\ IsRecord(h, r) /\ r.off \in Things(h) /\ r.off \in Nat /\ r.off > 0 /\ r.off > b
                      /\ r.size = SizeIn(h, r.off)
  BY RecordFacts DEF Ready, Ledger
<1>2. b \in Nat /\ DOMAIN remap = {r.off : r \in recs}
  BY DEF Ready, Ledger, Placed
<1>3. \A o : Left(o) => Moves(o)
  BY DEF Ready, LastLeft, Left, Moves
<1>4. \A o : ~Moves(o) => At(o) = o
  BY <1>2, <1>3 DEF At, Remapped, Moves
<1>5. \A o : Left(o) => At(o) = o
  BY DEF At
<1>6. \A o : Moves(o) /\ ~Left(o) => \E r \in recs \ todo : r.off = o /\ At(o) = remap[r.off]
  <2> SUFFICES ASSUME NEW o, Moves(o), ~Left(o) PROVE \E r \in recs \ todo : r.off = o /\ At(o) = remap[r.off]
    OBVIOUS
  <2>1. PICK r \in recs : r.off = o
    BY DEF Moves
  <2>2. r \notin todo
    BY <2>1 DEF Left
  <2> QED BY <2>1, <2>2, <1>2 DEF At, Remapped
<1>7. \A r \in recs : remap[r.off] \in Nat /\ b <= remap[r.off] /\ remap[r.off] < r.off
  BY DEF Ready, Placed
<1>8. \A o \in Things(h) : o \in Nat /\ SizeIn(h, o) \in Nat /\ SizeIn(h, o) > 0
  BY ThingFacts DEF Ready, Sound
<1>9. At(0) = 0
  BY <1>1, <1>4 DEF Moves
<1>10. \A o \in Things(h) : At(o) \in Nat /\ At(o) <= o /\ (Moves(o) => At(o) >= b)
  <2> SUFFICES ASSUME NEW o \in Things(h) PROVE At(o) \in Nat /\ At(o) <= o /\ (Moves(o) => At(o) >= b)
    OBVIOUS
  <2>1. CASE ~Moves(o)
    BY <2>1, <1>4, <1>8
  <2>2. CASE Left(o)
    BY <2>2, <1>1, <1>2, <1>3, <1>5, <1>8 DEF Moves
  <2>3. CASE Moves(o) /\ ~Left(o)
    BY <2>3, <1>1, <1>2, <1>6, <1>7, <1>8
  <2> QED BY <2>1, <2>2, <2>3
<1>11. ASSUME NEW o \in Things(h), NEW q \in Things(h), o < q PROVE At(o) + SizeIn(h, o) <= At(q)
  <2>1. /\ o \in Nat /\ q \in Nat /\ SizeIn(h, o) \in Nat /\ At(o) \in Nat /\ At(q) \in Nat /\ At(o) <= o
        /\ o + SizeIn(h, o) <= q
    BY <1>8, <1>10, <1>11 DEF Ready, Sound, Spaced
  <2>2. CASE ~Moves(q) \/ Left(q)
    <3>1. At(q) = q
      BY <2>2, <1>4, <1>5
    <3> QED BY <2>1, <3>1
  <2>3. CASE Moves(q) /\ ~Left(q)
    <3>1. PICK r \in recs \ todo : r.off = q /\ At(q) = remap[r.off]
      BY <2>3, <1>6
    <3>2. CASE ~Moves(o)
      <4>1. At(o) = o /\ o + SizeIn(h, o) <= b
        BY <3>2, <1>4 DEF Ready, Ledger
      <4>2. b <= At(q)
        BY <3>1, <1>7
      <4> QED BY <4>1, <4>2, <2>1, <1>2
    <3>3. CASE Moves(o) /\ ~Left(o)
      <4>1. PICK s \in recs \ todo : s.off = o /\ At(o) = remap[s.off]
        BY <3>3, <1>6
      <4>2. s.off < r.off /\ s.size = SizeIn(h, o)
        BY <3>1, <4>1, <1>1, <1>11
      <4> QED BY <3>1, <4>1, <4>2 DEF Ready, Placed
    <3>4. CASE Left(o)
      <4>1. PICK s \in todo : s.off = o
        BY <3>4 DEF Left
      <4>2. r.off < s.off
        BY <3>1, <4>1 DEF Ready, LastLeft
      <4> QED BY <3>1, <4>1, <4>2, <2>1, <1>11
    <3> QED BY <3>2, <3>3, <3>4
  <2> QED BY <2>2, <2>3
<1> QED BY <1>4, <1>9, <1>10, <1>11

LEMMA AtOne ==
  ASSUME NEW h, NEW b, Ready(h, b)
  PROVE  /\ \A o, q \in Things(h) : At(o) = At(q) => o = q
         /\ \A o, q \in Things(h) : o < q => At(o) < At(q)
         /\ \A o \in Things(h) : At(o) \in Offset /\ (At(o) = 0 <=> o = 0)
         /\ 0 \in Things(h)
<1>1. \A o \in Things(h) : /\ o \in Nat /\ SizeIn(h, o) \in Nat /\ SizeIn(h, o) > 0
                           /\ o \in Offset /\ At(o) \in Nat /\ At(o) <= o
  BY ThingFacts, AtFacts DEF Ready, Sound
<1>2. \A o, q \in Things(h) : o < q => At(o) < At(q)
  <2> SUFFICES ASSUME NEW o \in Things(h), NEW q \in Things(h), o < q PROVE At(o) < At(q)
    OBVIOUS
  <2>1. At(o) + SizeIn(h, o) <= At(q)
    BY AtFacts
  <2> QED BY <1>1, <2>1
<1>3. \A o, q \in Things(h) : At(o) = At(q) => o = q
  <2> SUFFICES ASSUME NEW o \in Things(h), NEW q \in Things(h), At(o) = At(q) PROVE o = q
    OBVIOUS
  <2>1. ~(o < q) /\ ~(q < o)
    BY <1>1, <1>2
  <2> QED BY <1>1, <2>1
<1>4. 0 \in Things(h) /\ At(0) = 0
  BY AtFacts DEF Ready, Sound, Sorts, Things
<1>5. \A o \in Things(h) : At(o) \in Offset
  BY <1>1, Numbers DEF Offset
<1> QED BY <1>2, <1>3, <1>4, <1>5

-------------------------------------------------------------------------------
\* The heap at the places its objects are moved to.
LEMMA ImageNode ==
  ASSUME NEW h, NEW b, Ready(h, b), Image(h), NEW o \in DOMAIN h.node
  PROVE  /\ h.node[o] \in Node /\ At(o) \in DOMAIN node /\ node[At(o)] \in Node
         /\ node[At(o)].name = h.node[o].name /\ node[At(o)].prop = At(h.node[o].prop)
         /\ \A f \in Links : node[At(o)].link[f] = At(h.node[o].link[f])
         /\ \A f \in Links : h.node[o].link[f] \in Things(h)
         /\ h.node[o].prop \in Things(h)
<1>1. h.node[o] \in Node
  BY DEF Ready, Sound, Sorts
<1>2. 0 \in Things(h)
  BY AtOne
<1>3. \A f \in Links : h.node[o].link[f] \in Things(h)
  BY <1>2 DEF Ready, Sound, Tree, Things
<1>4. h.node[o].prop \in Things(h)
  BY <1>2 DEF Ready, Sound, Props, Things
<1>5. At(o) \in DOMAIN node
  BY DEF Image
<1>6. PICK n : n = node[At(o)]
  OBVIOUS
<1>7. n = [name |-> h.node[o].name, prop |-> At(h.node[o].prop),
           link |-> [f \in Links |-> At(h.node[o].link[f])]]
  BY <1>6 DEF Image
<1>8. /\ n.name = h.node[o].name /\ n.prop = At(h.node[o].prop)
      /\ \A f \in Links : n.link[f] = At(h.node[o].link[f])
  BY <1>7
<1>9. n \in Node
  <2>1. At(h.node[o].prop) \in Offset /\ \A f \in Links : At(h.node[o].link[f]) \in Offset
    BY <1>3, <1>4, AtOne
  <2>2. h.node[o].name \in Segment \cup {RootName}
    BY <1>1 DEF Node
  <2> QED BY <1>7, <2>1, <2>2 DEF Node
<1> QED BY <1>1, <1>3, <1>4, <1>5, <1>6, <1>8, <1>9

LEMMA ImageInfo ==
  ASSUME NEW h, NEW b, Ready(h, b), Image(h), NEW p \in DOMAIN h.info
  PROVE  /\ h.info[p] \in Info /\ At(p) \in DOMAIN info /\ info[At(p)] \in Info
         /\ info[At(p)].key = h.info[p].key /\ info[At(p)].val = h.info[p].val
         /\ info[At(p)].serial_len = h.info[p].serial_len
         /\ info[At(p)].is_long = h.info[p].is_long
         /\ info[At(p)].rel = Rel(h, p) /\ (Rel(h, p) = 0 <=> h.info[p].rel = 0)
         /\ h.info[p].rel # 0 => OldLong(h, p) \in DOMAIN h.long
         /\ h.info[p].rel # 0 /\ todo = {} => At(p) + Rel(h, p) = At(OldLong(h, p))
         /\ h.info[p].rel # 0 /\ ~Left(OldLong(h, p)) => At(p) + Rel(h, p) = At(OldLong(h, p))
<1>1. h.info[p] \in Info /\ p \in Things(h)
  BY DEF Ready, Sound, Sorts, Things
<1>2. h.info[p].rel \in Offset
  BY <1>1 DEF Info
<1>3. At(p) \in DOMAIN info
  BY DEF Image
<1>4. PICK n : n = info[At(p)]
  OBVIOUS
<1>5. n = [key |-> h.info[p].key, serial_len |-> h.info[p].serial_len,
           is_long |-> h.info[p].is_long, val |-> h.info[p].val, rel |-> Rel(h, p)]
  BY <1>4 DEF Image
<1>6. h.info[p].rel # 0 => OldLong(h, p) \in DOMAIN h.long /\ p < OldLong(h, p)
  <2>1. p \in Nat /\ h.info[p].rel \in Nat
    BY <1>1, <1>2, ThingFacts DEF Offset, Ready, Sound
  <2> QED BY <2>1 DEF OldLong, Ready, Sound, Longs
<1>7. ASSUME h.info[p].rel # 0, ~Left(OldLong(h, p))
      PROVE  Rel(h, p) \in Offset /\ Rel(h, p) # 0 /\ At(p) + Rel(h, p) = At(OldLong(h, p))
  <2>1. PICK l \in Things(h) : l = OldLong(h, p) /\ p < l
    BY <1>6, <1>7 DEF Things
  <2>2. At(p) < At(l) /\ At(p) \in Offset /\ At(l) \in Offset
    BY <1>1, <2>1, AtOne
  <2>3. Rel(h, p) = At(l) - At(p)
    BY <1>7, <2>1 DEF Rel
  <2> QED BY <2>1, <2>2, <2>3, Numbers DEF Offset
<1>8. ASSUME h.info[p].rel = 0 \/ Left(OldLong(h, p)) PROVE Rel(h, p) = h.info[p].rel
  BY <1>8 DEF Rel
<1>9. Rel(h, p) \in Offset /\ (Rel(h, p) = 0 <=> h.info[p].rel = 0)
  BY <1>2, <1>7, <1>8
<1>10. n \in Info
  BY <1>1, <1>5, <1>9 DEF Info
<1>11. todo = {} => ~Left(OldLong(h, p))
  BY DEF Left
<1> QED BY <1>1, <1>3, <1>4, <1>5, <1>6, <1>7, <1>9, <1>10, <1>11

LEMMA ImageThings ==
  ASSUME NEW h, NEW b, Ready(h, b), Image(h)
  PROVE  /\ Things(Area) = {At(o) : o \in Things(h)}
         /\ \A o \in Things(h) : SizeIn(Area, At(o)) = SizeIn(h, o)
         /\ \A o \in Things(h) : /\ At(o) \in DOMAIN node <=> o \in DOMAIN h.node
                                 /\ At(o) \in DOMAIN info <=> o \in DOMAIN h.info
                                 /\ At(o) \in DOMAIN long <=> o \in DOMAIN h.long
<1>1. DOMAIN h.node \subseteq Things(h) /\ DOMAIN h.info \subseteq Things(h) /\ DOMAIN h.long \subseteq Things(h)
  BY DEF Things
<1>2. /\ DOMAIN node = {At(o) : o \in DOMAIN h.node} /\ DOMAIN info = {At(o) : o \in DOMAIN h.info}
      /\ DOMAIN long = {At(o) : o \in DOMAIN h.long}
  BY DEF Image
<1>3. \A o, q \in Things(h) : At(o) = At(q) => o = q
  BY AtOne
<1>4. Things(Area) = {At(o) : o \in Things(h)}
  BY <1>1, <1>2, AreaIs DEF Things
<1>5. \A o \in Things(h) : /\ At(o) \in DOMAIN node <=> o \in DOMAIN h.node
                           /\ At(o) \in DOMAIN info <=> o \in DOMAIN h.info
                           /\ At(o) \in DOMAIN long <=> o \in DOMAIN h.long
  BY <1>1, <1>2, <1>3
<1>6. ASSUME NEW o \in Things(h) PROVE SizeIn(Area, At(o)) = SizeIn(h, o)
  <2>1. CASE o \in DOMAIN h.node
    BY <2>1, <1>5, ImageNode, AreaIs DEF SizeIn
  <2>2. CASE o \notin DOMAIN h.node /\ o \in DOMAIN h.info
    BY <2>2, <1>5, ImageInfo, AreaIs DEF SizeIn
  <2>3. CASE o \notin DOMAIN h.node /\ o \notin DOMAIN h.info
    <3>1. o \in DOMAIN h.long /\ long[At(o)] = h.long[o]
      BY <2>3 DEF Things, Image
    <3> QED BY <2>3, <3>1, <1>5, AreaIs DEF SizeIn
  <2> QED BY <2>1, <2>2, <2>3
<1> QED BY <1>4, <1>5, <1>6

LEMMA ImageSorts ==
  ASSUME NEW h, NEW b, Ready(h, b), Image(h) PROVE Sorts(Area)
<1>1. /\ DOMAIN node = {At(o) : o \in DOMAIN h.node} /\ DOMAIN info = {At(o) : o \in DOMAIN h.info}
      /\ DOMAIN long = {At(o) : o \in DOMAIN h.long}
  BY DEF Image
<1>2. DOMAIN h.node \subseteq Things(h) /\ DOMAIN h.info \subseteq Things(h) /\ DOMAIN h.long \subseteq Things(h)
  BY DEF Things
<1>3. \A o \in Things(h) : At(o) \in Offset
  BY AtOne
<1>4. DOMAIN node \subseteq Offset /\ DOMAIN info \subseteq Offset /\ DOMAIN long \subseteq Offset
  BY <1>1, <1>2, <1>3
<1>5. node \in [DOMAIN node -> Node]
  <2>1. \A o \in DOMAIN node : node[o] \in Node
    BY <1>1, ImageNode
  <2>2. node = [o \in DOMAIN node |-> node[o]]
    BY DEF Image
  <2> QED BY <2>1, <2>2
<1>6. info \in [DOMAIN info -> Info]
  <2>1. \A o \in DOMAIN info : info[o] \in Info
    BY <1>1, ImageInfo
  <2>2. info = [o \in DOMAIN info |-> info[o]]
    BY DEF Image
  <2> QED BY <2>1, <2>2
<1>7. long \in [DOMAIN long -> Value]
  <2>1. \A o \in DOMAIN h.long : long[At(o)] \in Value
    BY DEF Image, Ready, Sound, Sorts
  <2>2. \A o \in DOMAIN long : long[o] \in Value
    BY <1>1, <2>1
  <2>3. long = [o \in DOMAIN long |-> long[o]]
    BY DEF Image
  <2> QED BY <2>2, <2>3
<1>8. 0 \in DOMAIN node
  <2>1. 0 \in DOMAIN h.node /\ At(0) = 0
    BY AtFacts DEF Ready, Sound, Sorts
  <2> QED BY <1>1, <2>1
<1>9. /\ DOMAIN h.node \cap DOMAIN h.info = {} /\ DOMAIN h.node \cap DOMAIN h.long = {}
      /\ DOMAIN h.info \cap DOMAIN h.long = {}
  BY DEF Ready, Sound, Sorts
<1>10. /\ DOMAIN node \cap DOMAIN info = {} /\ DOMAIN node \cap DOMAIN long = {}
       /\ DOMAIN info \cap DOMAIN long = {}
  <2>1. \A o, q \in Things(h) : At(o) = At(q) => o = q
    BY AtOne
  <2> QED BY <1>1, <1>2, <1>9, <2>1
<1> QED BY <1>4, <1>5, <1>6, <1>7, <1>8, <1>10, AreaIs DEF Sorts

LEMMA ImageTree ==
  ASSUME NEW h, NEW b, Ready(h, b), Image(h) PROVE Tree(Area) /\ Props(Area)
<1>1. /\ DOMAIN node = {At(o) : o \in DOMAIN h.node} /\ DOMAIN info = {At(o) : o \in DOMAIN h.info}
  BY DEF Image
<1>2. DOMAIN h.node \subseteq Things(h) /\ DOMAIN h.info \subseteq Things(h)
  BY DEF Things
<1>3. /\ \A o, q \in Things(h) : At(o) = At(q) => o = q
      /\ \A o, q \in Things(h) : o < q => At(o) < At(q)
      /\ \A o \in Things(h) : At(o) = 0 <=> o = 0
  BY AtOne
<1>4. /\ \A o \in DOMAIN h.node : node[At(o)].prop = At(h.node[o].prop) /\ h.node[o].prop \in Things(h)
      /\ \A o \in DOMAIN h.node : \A f \in Links :
           node[At(o)].link[f] = At(h.node[o].link[f]) /\ h.node[o].link[f] \in Things(h)
  BY ImageNode
<1>5. \A o \in DOMAIN node : \A f \in Links :
        node[o].link[f] # 0 => node[o].link[f] \in DOMAIN node /\ o < node[o].link[f]
  <2> SUFFICES ASSUME NEW o \in DOMAIN h.node, NEW f \in Links, node[At(o)].link[f] # 0
               PROVE  node[At(o)].link[f] \in DOMAIN node /\ At(o) < node[At(o)].link[f]
    BY <1>1
  <2>1. h.node[o].link[f] # 0
    BY <1>3, <1>4
  <2>2. h.node[o].link[f] \in DOMAIN h.node /\ o < h.node[o].link[f]
    BY <2>1 DEF Ready, Sound, Tree
  <2> QED BY <2>2, <1>1, <1>2, <1>3, <1>4
<1>6. \A o, q \in DOMAIN node : \A f, g \in Links :
        node[o].link[f] # 0 /\ node[o].link[f] = node[q].link[g] => o = q /\ f = g
  <2> SUFFICES ASSUME NEW o \in DOMAIN h.node, NEW q \in DOMAIN h.node, NEW f \in Links, NEW g \in Links,
                      node[At(o)].link[f] # 0, node[At(o)].link[f] = node[At(q)].link[g]
               PROVE  At(o) = At(q) /\ f = g
    BY <1>1
  <2>1. h.node[o].link[f] # 0 /\ h.node[o].link[f] = h.node[q].link[g]
    BY <1>3, <1>4
  <2> QED BY <2>1 DEF Ready, Sound, Tree
<1>7. \A o \in DOMAIN node : o = 0 \/ \E q \in DOMAIN node, f \in Links : node[q].link[f] = o
  <2> SUFFICES ASSUME NEW o \in DOMAIN h.node, At(o) # 0
               PROVE  \E q \in DOMAIN node, f \in Links : node[q].link[f] = At(o)
    BY <1>1
  <2>1. o # 0
    BY <1>2, <1>3
  <2>2. PICK q \in DOMAIN h.node, f \in Links : h.node[q].link[f] = o
    BY <2>1 DEF Ready, Sound, Tree
  <2> QED BY <2>2, <1>1, <1>4
<1>8. Tree(Area)
  BY <1>5, <1>6, <1>7, AreaIs DEF Tree
<1>9. \A o \in DOMAIN node : node[o].prop # 0 => node[o].prop \in DOMAIN info /\ o < node[o].prop
  <2> SUFFICES ASSUME NEW o \in DOMAIN h.node, node[At(o)].prop # 0
               PROVE  node[At(o)].prop \in DOMAIN info /\ At(o) < node[At(o)].prop
    BY <1>1
  <2>1. h.node[o].prop # 0
    BY <1>3, <1>4
  <2>2. h.node[o].prop \in DOMAIN h.info /\ o < h.node[o].prop
    BY <2>1 DEF Ready, Sound, Props
  <2> QED BY <2>2, <1>1, <1>2, <1>3, <1>4
<1>10. \A o, q \in DOMAIN node : node[o].prop # 0 /\ node[o].prop = node[q].prop => o = q
  <2> SUFFICES ASSUME NEW o \in DOMAIN h.node, NEW q \in DOMAIN h.node,
                      node[At(o)].prop # 0, node[At(o)].prop = node[At(q)].prop
               PROVE  At(o) = At(q)
    BY <1>1
  <2>1. h.node[o].prop # 0 /\ h.node[o].prop = h.node[q].prop
    BY <1>3, <1>4
  <2> QED BY <2>1 DEF Ready, Sound, Props
<1>11. \A p \in DOMAIN info : \E o \in DOMAIN node : node[o].prop = p
  <2> SUFFICES ASSUME NEW p \in DOMAIN h.info PROVE \E o \in DOMAIN node : node[o].prop = At(p)
    BY <1>1
  <2>1. PICK o \in DOMAIN h.node : h.node[o].prop = p
    BY DEF Ready, Sound, Props
  <2> QED BY <2>1, <1>1, <1>4
<1>12. Props(Area)
  BY <1>9, <1>10, <1>11, AreaIs DEF Props
<1> QED BY <1>8, <1>12

LEMMA ImageLongs ==
  ASSUME NEW h, NEW b, Ready(h, b), Image(h)
  PROVE  Serials(Area) /\ (todo = {} => Longs(Area))
<1>1. /\ DOMAIN info = {At(o) : o \in DOMAIN h.info} /\ DOMAIN long = {At(o) : o \in DOMAIN h.long}
  BY DEF Image
<1>2. DOMAIN h.long \subseteq Things(h) /\ DOMAIN h.info \subseteq Things(h)
  BY DEF Things
<1>3. \A p \in DOMAIN h.info :
         /\ info[At(p)].key = h.info[p].key /\ info[At(p)].val = h.info[p].val
         /\ info[At(p)].serial_len = h.info[p].serial_len /\ info[At(p)].is_long = h.info[p].is_long
         /\ info[At(p)].rel = 0 <=> h.info[p].rel = 0
  BY ImageInfo
<1>4. Serials(Area)
  <2>1. \A p \in DOMAIN h.info : /\ info[At(p)].is_long <=> info[At(p)].rel # 0
                                 /\ info[At(p)].serial_len = info[At(p)].val.len
    BY <1>3 DEF Ready, Sound, Serials
  <2> QED BY <1>1, <2>1, AreaIs DEF Serials
<1>5. ASSUME todo = {} PROVE Longs(Area)
  <2>1. \A p \in DOMAIN h.info : h.info[p].rel # 0 =>
           At(p) + info[At(p)].rel = At(OldLong(h, p)) /\ OldLong(h, p) \in DOMAIN h.long
    BY <1>5, ImageInfo
  <2>2. \A p \in DOMAIN info : info[p].rel # 0 =>
          /\ p + info[p].rel \in DOMAIN long /\ info[p].rel >= InfoSize(info[p].key)
          /\ info[p].val = LONG_LEGACY_ERROR
    <3> SUFFICES ASSUME NEW p \in DOMAIN h.info, info[At(p)].rel # 0
                 PROVE  /\ At(p) + info[At(p)].rel \in DOMAIN long
                        /\ info[At(p)].rel >= InfoSize(info[At(p)].key)
                        /\ info[At(p)].val = LONG_LEGACY_ERROR
      BY <1>1
    <3>1. h.info[p].rel # 0
      BY <1>3
    <3>2. PICK l \in DOMAIN h.long : l = OldLong(h, p)
      BY <2>1, <3>1
    <3>3. At(p) + info[At(p)].rel = At(l)
      BY <2>1, <3>1, <3>2
    <3>4. info[At(p)].val = LONG_LEGACY_ERROR
      BY <1>3, <3>1 DEF Ready, Sound, Longs
    <3>5. PICK n : n = info[At(p)].rel /\ n \in Nat
      BY ImageInfo DEF Info, Offset
    <3>6. p \in Nat /\ h.info[p].rel \in Nat /\ p \in Things(h) /\ l \in Things(h) /\ h.info[p].rel > 0
      <4>1. h.info[p].rel \in Nat
        BY ImageInfo DEF Info, Offset
      <4>2. p \in Things(h) /\ l \in Things(h)
        BY <1>2
      <4> QED BY <3>1, <4>1, <4>2, ThingFacts DEF Ready, Sound
    <3>7. p < l
      BY <3>2, <3>6 DEF OldLong
    <3>8. At(p) + SizeIn(h, p) <= At(l)
      BY <3>6, <3>7, AtFacts
    <3>9. SizeIn(h, p) = InfoSize(h.info[p].key)
      BY DEF SizeIn, Ready, Sound, Sorts
    <3>10. SizeIn(h, p) \in Nat /\ At(p) \in Nat /\ At(l) \in Nat
      BY <3>6, ThingFacts, AtFacts DEF Ready, Sound
    <3>11. n >= InfoSize(h.info[p].key)
      BY <3>3, <3>5, <3>8, <3>9, <3>10
    <3> QED BY <1>1, <1>3, <3>3, <3>4, <3>5, <3>11
  <2>3. \A p, q \in DOMAIN info :
          info[p].rel # 0 /\ info[q].rel # 0 /\ p + info[p].rel = q + info[q].rel => p = q
    <3> SUFFICES ASSUME NEW p \in DOMAIN h.info, NEW q \in DOMAIN h.info,
                        info[At(p)].rel # 0, info[At(q)].rel # 0,
                        At(p) + info[At(p)].rel = At(q) + info[At(q)].rel
                 PROVE  At(p) = At(q)
      BY <1>1
    <3>1. h.info[p].rel # 0 /\ h.info[q].rel # 0
      BY <1>3
    <3>2. PICK l \in DOMAIN h.long, k \in DOMAIN h.long :
            l = OldLong(h, p) /\ k = OldLong(h, q) /\ At(l) = At(k)
      BY <2>1, <3>1
    <3>3. l = k
      BY <3>2, <1>2, AtOne
    <3> QED BY <3>1, <3>2, <3>3 DEF OldLong, Ready, Sound, Longs
  <2>4. \A l \in DOMAIN long : \E p \in DOMAIN info : info[p].rel # 0 /\ p + info[p].rel = l
    <3> SUFFICES ASSUME NEW l \in DOMAIN h.long
                 PROVE  \E p \in DOMAIN info : info[p].rel # 0 /\ p + info[p].rel = At(l)
      BY <1>1
    <3>1. PICK p \in DOMAIN h.info : h.info[p].rel # 0 /\ OldLong(h, p) = l
      BY DEF OldLong, Ready, Sound, Longs
    <3> QED BY <3>1, <2>1, <1>1, <1>3
  <2> QED BY <2>2, <2>3, <2>4, AreaIs DEF Longs
<1> QED BY <1>4, <1>5

LEMMA ImageRoots ==
  ASSUME NEW h, NEW b, Ready(h, b), Image(h)
  PROVE  /\ Roots(Area) /\ Spaced(Area) /\ node[0].link["children"] # 0
         /\ FirstIn(Area) = FirstIn(h)
<1> DEFINE c == h.node[0].link["children"]
<1>1. 0 \in DOMAIN h.node /\ At(0) = 0 /\ {"left", "right", "children"} \subseteq Links
  BY AtFacts DEF Ready, Sound, Sorts, Links
<1>2. /\ node[0].name = h.node[0].name /\ node[0].prop = At(h.node[0].prop)
      /\ \A f \in Links : node[0].link[f] = At(h.node[0].link[f])
      /\ c \in Things(h)
  BY <1>1, ImageNode
<1>3. c # 0
  <2>1. PICK r \in recs : IsRecord(h, r)
    BY DEF Ready, Ledger
  <2>2. r.off \in Things(h) /\ r.off # 0
    BY <2>1, RecordFacts DEF Ready
  <2> QED BY <2>2, FirstChild DEF Ready
<1>4. FirstPlace(c)
  BY <1>3 DEF Ready, Sound, Roots
<1>5. /\ b \in Nat /\ FirstIn(h) <= b /\ At(c) \in Nat /\ c \in Nat
      /\ ~Moves(c) => At(c) = c
      /\ Moves(c) => At(c) >= b /\ c > b
  <2>1. Moves(c) => c > b
    BY DEF Ready, Ledger, Moves
  <2>2. c \in Nat
    BY <1>2, ThingFacts DEF Ready, Sound
  <2> QED BY <1>2, <2>1, <2>2, AtFacts DEF Ready, Ledger
<1>6. FirstPlace(At(c)) /\ At(c) # 0 /\ (At(c) = 20 <=> c = 20)
  BY <1>4, <1>5, Numbers DEF FirstPlace, FirstIn
<1>7. Roots(Area)
  BY <1>1, <1>2, <1>6, AreaIs DEF Roots, Ready, Sound
<1>8. FirstIn(Area) = FirstIn(h) /\ node[0].link["children"] # 0
  BY <1>1, <1>2, <1>6, Numbers, AreaIs DEF FirstIn
<1>9. Spaced(Area)
  <2>1. \A o \in Things(h) : At(o) + SizeIn(h, o) <= bytes_used
    <3> SUFFICES ASSUME NEW o \in Things(h) PROVE At(o) + SizeIn(h, o) <= bytes_used
      OBVIOUS
    <3>1. o + SizeIn(h, o) <= bytes_used /\ At(o) <= o /\ o \in Nat /\ At(o) \in Nat /\ SizeIn(h, o) \in Nat
      BY ThingFacts, AtFacts DEF Ready, Sound, Spaced
    <3> QED BY <3>1 DEF Ready, Offset
  <2>2. \A o, q \in Things(h) : At(o) < At(q) => At(o) + SizeIn(h, o) <= At(q)
    <3> SUFFICES ASSUME NEW o \in Things(h), NEW q \in Things(h), At(o) < At(q)
                 PROVE  At(o) + SizeIn(h, o) <= At(q)
      OBVIOUS
    <3>1. o \in Nat /\ q \in Nat /\ At(o) \in Nat /\ At(q) \in Nat
      BY ThingFacts, AtFacts DEF Ready, Sound
    <3>2. o < q
      <4> SUFFICES ASSUME ~(o < q) PROVE FALSE
        OBVIOUS
      <4>1. o = q \/ q < o
        BY <3>1
      <4>2. At(q) <= At(o)
        BY <4>1, <3>1, AtOne
      <4> QED BY <4>2, <3>1
    <3> QED BY <3>2, AtFacts
  <2> QED BY <2>1, <2>2, ImageThings DEF Spaced
<1> QED BY <1>7, <1>8, <1>9

-------------------------------------------------------------------------------
Moving == \E h, b : Ready(h, b) /\ Image(h)

\* Before the first object moves, each is at its place.
LEMMA PlanDoneInv ==
  ASSUME Inv, Kept, Planning, PlanDone PROVE Moving'
<1>1. /\ pc = "plan" /\ todo = {} /\ todo' = recs
      /\ UNCHANGED <<bytes_used, node, info, long, recs, cursor, remap>>
  BY DEF PlanDone, area
<1>2. Sound(Area) /\ bytes_used \in Offset
  BY <1>1, SoundArea DEF Calm, Inv, Heap, AreaTypeOK
<1>3. PICK b : Ledger(Area, b) /\ Placed(b, {})
  BY <1>1 DEF Planning
<1>4. PICK h : h = Area
  OBVIOUS
<1>5. Sound(h) /\ Ledger(h, b) /\ h.node = node /\ h.info = info /\ h.long = long
  BY <1>2, <1>3, <1>4, AreaIs
<1>6. Ready(h, b)'
  <2>1. Sound(h)'
    BY <1>1, <1>5 DEF Sound, Sorts, Tree, Props, Longs, Serials, Roots, Spaced, FirstPlace
  <2>2. Ledger(h, b)'
    BY <1>1, <1>5 DEF Ledger, Moves
  <2>3. Placed(b, {})'
    BY <1>1, <1>3 DEF Placed
  <2>4. LastLeft'
    BY <1>1 DEF LastLeft
  <2> QED BY <1>1, <1>2, <2>1, <2>2, <2>3, <2>4 DEF Ready
<1>7. \A o : At(o)' = o
  BY <1>1, <1>3 DEF At, Left, Remapped, Placed
<1>8. \A p \in DOMAIN h.info : Rel(h, p)' = h.info[p].rel
  <2> SUFFICES ASSUME NEW p \in DOMAIN h.info PROVE Rel(h, p)' = h.info[p].rel
    OBVIOUS
  <2>1. p \in Nat /\ h.info[p].rel \in Nat
    BY <1>5 DEF Sound, Sorts, Info, Offset
  <2>2. OldLong(h, p) - p = h.info[p].rel
    BY <2>1 DEF OldLong
  <2>3. Rel(h, p)' = h.info[p].rel \/ Rel(h, p)' = OldLong(h, p) - p
    BY <1>7 DEF Rel, OldLong
  <2> QED BY <2>2, <2>3
<1>9. Image(h)'
  <2>1. /\ node = [o \in DOMAIN node |-> node[o]] /\ info = [o \in DOMAIN info |-> info[o]]
        /\ long = [o \in DOMAIN long |-> long[o]]
    BY <1>5 DEF Sound, Sorts
  <2>2. \A o \in DOMAIN node : node[o] = [name |-> node[o].name, prop |-> node[o].prop,
                                          link |-> [f \in Links |-> node[o].link[f]]]
    <3> SUFFICES ASSUME NEW n \in Node
                 PROVE  n = [name |-> n.name, prop |-> n.prop, link |-> [f \in Links |-> n.link[f]]]
      BY <1>5 DEF Sound, Sorts
    <3>1. n.link = [f \in Links |-> n.link[f]]
      BY DEF Node
    <3>2. PICK k : k = n.link
      OBVIOUS
    <3>3. n = [name |-> n.name, prop |-> n.prop, link |-> k]
      BY <3>2 DEF Node
    <3> QED BY <3>1, <3>2, <3>3
  <2>3. \A p \in DOMAIN info : info[p] = [key |-> info[p].key, serial_len |-> info[p].serial_len,
                                          is_long |-> info[p].is_long, val |-> info[p].val,
                                          rel |-> info[p].rel]
    <3> SUFFICES ASSUME NEW n \in Info
                 PROVE  n = [key |-> n.key, serial_len |-> n.serial_len, is_long |-> n.is_long,
                             val |-> n.val, rel |-> n.rel]
      BY <1>5 DEF Sound, Sorts
    <3> QED BY DEF Info
  <2>4. \A D : D = {At(o)' : o \in D}
    BY <1>7
  <2>5. PICK n, i, l : n = node /\ i = info /\ l = long /\ n = node' /\ i = info' /\ l = long'
    BY <1>1
  <2>6. /\ DOMAIN n = {At(o)' : o \in DOMAIN n} /\ DOMAIN i = {At(o)' : o \in DOMAIN i}
        /\ DOMAIN l = {At(o)' : o \in DOMAIN l}
    BY <2>4
  <2>7. \A o \in DOMAIN n : n[At(o)'] = [name |-> n[o].name, prop |-> At(n[o].prop)',
                                         link |-> [f \in Links |-> At(n[o].link[f])']]
    <3> SUFFICES ASSUME NEW o \in DOMAIN n
                 PROVE  n[At(o)'] = [name |-> n[o].name, prop |-> At(n[o].prop)',
                                     link |-> [f \in Links |-> At(n[o].link[f])']]
      OBVIOUS
    <3>1. [f \in Links |-> At(n[o].link[f])'] = [f \in Links |-> n[o].link[f]]
      BY <1>7
    <3>2. n[At(o)'] = n[o] /\ At(n[o].prop)' = n[o].prop
      BY <1>7
    <3> QED BY <2>2, <2>5, <3>1, <3>2
  <2>8. \A p \in DOMAIN i : i[At(p)'] = [key |-> i[p].key, serial_len |-> i[p].serial_len,
                                         is_long |-> i[p].is_long, val |-> i[p].val, rel |-> Rel(h, p)']
    <3> SUFFICES ASSUME NEW p \in DOMAIN i
                 PROVE  i[At(p)'] = [key |-> i[p].key, serial_len |-> i[p].serial_len,
                                     is_long |-> i[p].is_long, val |-> i[p].val, rel |-> Rel(h, p)']
      OBVIOUS
    <3>1. i[At(p)'] = i[p] /\ Rel(h, p)' = i[p].rel
      BY <1>5, <1>7, <1>8, <2>5
    <3> QED BY <2>3, <2>5, <3>1
  <2>9. \A k \in DOMAIN l : l[At(k)'] = l[k]
    BY <1>7
  <2>10. h.node = n /\ h.info = i /\ h.long = l
    BY <1>5, <2>5
  <2>11. /\ n = [o \in DOMAIN n |-> n[o]] /\ i = [o \in DOMAIN i |-> i[o]]
         /\ l = [o \in DOMAIN l |-> l[o]]
    BY <2>1, <2>5
  <2>12. n = node' /\ i = info' /\ l = long'
    BY <2>5
  <2> QED BY <2>6, <2>7, <2>8, <2>9, <2>10, <2>11, <2>12 DEF Image
<1> QED BY <1>6, <1>9 DEF Moving

\* Where an object is once the lowest that is left, r, has moved.
To(r, o) == IF o = r.off THEN remap[r.off] ELSE At(o)

LEMMA NextMove ==
  ASSUME NEW h, NEW b, Ready(h, b), NEW r, r = Lowest(todo), todo # {}, todo' = todo \ {r},
         UNCHANGED <<bytes_used, recs, cursor, remap>>
  PROVE  /\ r \in todo /\ r \in recs /\ IsRecord(h, r)
         /\ Left(r.off) /\ At(r.off) = r.off /\ Remapped(r.off) = remap[r.off]
         /\ Remapped(r.ref) = At(r.ref)
         /\ Ready(h, b)' /\ \A o : At(o)' = To(r, o)
         /\ \A o : Left(o)' <=> Left(o) /\ o # r.off
<1>1. todo \subseteq recs /\ \A q \in recs : IsRecord(h, q) /\ q.off \in Nat /\ q.ref < q.off /\ q.ref \in Nat
  BY RecordFacts DEF Ready, LastLeft, Ledger
<1>2. r \in todo /\ \A q \in todo : r.off <= q.off
  BY <1>1, LowestFacts
<1>3. r \in recs /\ IsRecord(h, r)
  BY <1>1, <1>2
<1>4. \A q \in todo : q.off = r.off => q = r
  BY <1>1, <1>3, OneRecord DEF Ready
<1>5. Left(r.off) /\ At(r.off) = r.off
  BY <1>2 DEF Left, At
<1>6. Remapped(r.off) = remap[r.off]
  BY <1>3 DEF Remapped, Ready, Placed
<1>7. ~Left(r.ref)
  <2> SUFFICES ASSUME NEW q \in todo, q.off = r.ref PROVE FALSE
    BY DEF Left
  <2>1. r.off <= q.off /\ r.ref < r.off /\ r.off \in Nat /\ r.ref \in Nat
    BY <1>1, <1>2, <1>3
  <2> QED BY <2>1
<1>8. Remapped(r.ref) = At(r.ref)
  BY <1>7 DEF At
<1>9. \A o : Left(o)' <=> Left(o) /\ o # r.off
  BY <1>2, <1>4 DEF Left
<1>10. \A o : At(o)' = To(r, o)
  BY <1>6, <1>9 DEF At, To, Remapped
<1>11. Ready(h, b)'
  <2>1. Sound(h)'
    BY DEF Ready, Sound, Sorts, Tree, Props, Longs, Serials, Roots, Spaced, FirstPlace
  <2>2. Ledger(h, b)'
    BY DEF Ready, Ledger, Moves
  <2>3. Placed(b, {})'
    BY DEF Ready, Placed
  <2>4. LastLeft'
    <3>1. \A s \in recs \ todo', q \in todo' : s.off < q.off
      <4> SUFFICES ASSUME NEW s \in recs \ todo', NEW q \in todo' PROVE s.off < q.off
        OBVIOUS
      <4>1. CASE s \notin todo
        BY <4>1 DEF Ready, LastLeft
      <4>2. CASE s = r
        <5>1. r.off <= q.off /\ q.off # r.off /\ q.off \in Nat /\ r.off \in Nat
          BY <1>1, <1>2, <1>3, <1>4
        <5> QED BY <4>2, <5>1
      <4> QED BY <4>1, <4>2
    <3> QED BY <1>1, <3>1 DEF LastLeft
  <2> QED BY <2>1, <2>2, <2>3, <2>4 DEF Ready
<1> QED BY <1>2, <1>3, <1>5, <1>6, <1>8, <1>9, <1>10, <1>11

InOrder ==
  \A h, b : Ready(h, b) => \A x, y \in Things(h) : x < y => At(x) + SizeIn(h, x) <= At(y)
LEMMA OrderNext == InOrder'
<1>1. InOrder
  BY AtFacts DEF InOrder
<1> QED BY <1>1, PTL

LEMMA AtFactsNext ==
  ASSUME NEW h, NEW b, Ready(h, b)'
  PROVE  \A x, y \in Things(h) : x < y => At(x)' + SizeIn(h, x) <= At(y)'
BY OrderNext DEF InOrder

\* The copy destroys nothing but what it takes away: no object left lies in its way.
LEMMA NothingLost ==
  ASSUME NEW h, NEW b, Ready(h, b), Image(h), NEW r, r = Lowest(todo), todo # {}, todo' = todo \ {r},
         UNCHANGED <<bytes_used, recs, cursor, remap>>
  PROVE  \A o \in Things(h) : At(o) \in Lost(r.off, remap[r.off], r.size) <=> o = r.off
<1>1. /\ IsRecord(h, r) /\ At(r.off) = r.off /\ Ready(h, b)' /\ \A o : At(o)' = To(r, o)
  BY NextMove
<1>2. r.off \in Things(h) /\ r.size = SizeIn(h, r.off)
  BY <1>1, RecordFacts DEF Ready
<1>3. r.off \in Lost(r.off, remap[r.off], r.size)
  BY DEF Lost
<1>4. ASSUME NEW o \in Things(h), o # r.off PROVE At(o) \notin Lost(r.off, remap[r.off], r.size)
  <2>1. /\ At(o)' = At(o) /\ At(r.off)' = remap[r.off]
    BY <1>1, <1>4 DEF To
  <2>2. At(o) # r.off
    BY <1>1, <1>2, <1>4, AtOne
  <2>3. ObjectSize(At(o)) = SizeIn(h, o)
    BY ImageThings, AreaIs
  <2>4. /\ o \in Nat /\ r.off \in Nat /\ At(o) \in Nat /\ SizeIn(h, o) \in Nat /\ r.size \in Nat
    BY <1>2, ThingFacts, AtFacts DEF Ready, Sound
  <2>5. remap[r.off] \in Nat
    BY <1>1, NextMove DEF Ready, Placed
  <2>6. o < r.off => At(o) + SizeIn(h, o) <= remap[r.off]
    <3>1. \A x, y \in Things(h) : x < y => At(x)' + SizeIn(h, x) <= At(y)'
      BY <1>1, AtFactsNext
    <3> QED BY <1>2, <2>1, <3>1
  <2>7. r.off < o => remap[r.off] + r.size <= At(o)
    <3>1. \A x, y \in Things(h) : x < y => At(x)' + SizeIn(h, x) <= At(y)'
      BY <1>1, AtFactsNext
    <3> QED BY <1>2, <2>1, <3>1
  <2>8. ~(At(o) < remap[r.off] + r.size /\ remap[r.off] < At(o) + ObjectSize(At(o)))
    BY <1>4, <2>3, <2>4, <2>5, <2>6, <2>7
  <2> QED BY <2>2, <2>8 DEF Lost
<1> QED BY <1>1, <1>3, <1>4

-------------------------------------------------------------------------------
\* One turn of the loop that moves: r is the lowest object left.
Turn(h, b, r) ==
  /\ Ready(h, b) /\ Image(h) /\ r = Lowest(todo) /\ todo # {} /\ todo' = todo \ {r}
  /\ UNCHANGED <<bytes_used, recs, cursor, remap>>

LEMMA TurnFacts ==
  ASSUME NEW h, NEW b, NEW r, Turn(h, b, r)
  PROVE  /\ Ready(h, b)' /\ IsRecord(h, r) /\ r.off \in Things(h) /\ r.ref \in Things(h) /\ r.off # 0
         /\ r.ref # r.off /\ Left(r.off) /\ At(r.off) = r.off
         /\ Remapped(r.off) = To(r, r.off) /\ Remapped(r.ref) = At(r.ref)
         /\ \A o : At(o)' = To(r, o)
         /\ \A o : o # r.off => To(r, o) = At(o)
         /\ \A o : Left(o)' <=> Left(o) /\ o # r.off
         /\ \A o \in Things(h) : At(o) \in Lost(r.off, Remapped(r.off), r.size) <=> o = r.off
         /\ \A o \in Things(h) : o # r.off => At(o) # Remapped(r.off)
<1>1. /\ Ready(h, b)' /\ IsRecord(h, r) /\ Left(r.off) /\ At(r.off) = r.off
      /\ Remapped(r.off) = remap[r.off] /\ Remapped(r.ref) = At(r.ref)
      /\ \A o : At(o)' = To(r, o)
      /\ \A o : Left(o)' <=> Left(o) /\ o # r.off
  BY NextMove DEF Turn
<1>2. /\ r.off \in Things(h) /\ r.ref \in Things(h) /\ r.ref < r.off /\ r.off \in Nat /\ r.ref \in Nat
      /\ r.off > 0
  BY <1>1, RecordFacts DEF Turn, Ready
<1>3. \A o \in Things(h) : At(o) \in Lost(r.off, remap[r.off], r.size) <=> o = r.off
  BY NothingLost DEF Turn
<1>4. ASSUME NEW o \in Things(h), o # r.off PROVE At(o) # remap[r.off]
  <2>1. At(o)' = At(o) /\ At(r.off)' = remap[r.off]
    BY <1>1, <1>4 DEF To
  <2>2. /\ o \in Nat /\ At(o) \in Nat /\ SizeIn(h, o) \in Nat /\ SizeIn(h, o) > 0
        /\ SizeIn(h, r.off) \in Nat /\ SizeIn(h, r.off) > 0
    BY <1>2, ThingFacts, AtFacts DEF Turn, Ready, Sound
  <2>3. \A x, y \in Things(h) : x < y => At(x)' + SizeIn(h, x) <= At(y)'
    BY <1>1, AtFactsNext
  <2>4. CASE o < r.off
    <3>1. At(o) + SizeIn(h, o) <= remap[r.off]
      BY <1>2, <2>1, <2>3, <2>4
    <3> QED BY <2>2, <3>1
  <2>5. CASE r.off < o
    <3>1. remap[r.off] + SizeIn(h, r.off) <= At(o)
      BY <1>2, <2>1, <2>3, <2>5
    <3>2. remap[r.off] \in Nat
      BY <1>1, NextMove DEF Turn, Ready, Placed
    <3> QED BY <2>2, <3>1, <3>2
  <2> QED BY <1>2, <1>4, <2>2, <2>4, <2>5
<1> QED BY <1>1, <1>2, <1>3, <1>4 DEF To

\* The copy of one kind of object, its fields patched already.
InPlace(h, D, g) == D \subseteq Things(h) /\ DOMAIN g = {At(o) : o \in D}
Carried(r, D, g, G) ==
  /\ DOMAIN G = {To(r, o) : o \in D} /\ G = [x \in DOMAIN G |-> G[x]]
  /\ \A o \in D : G[To(r, o)] = g[At(o)]
LEMMA MovedFacts ==
  ASSUME NEW h, NEW b, NEW r, Turn(h, b, r), NEW g, NEW D, InPlace(h, D, g),
         NEW G, G = Moved(g, r.off, Remapped(r.off), r.size)
  PROVE  Carried(r, D, g, G)
<1>0. D \subseteq Things(h) /\ DOMAIN g = {At(o) : o \in D}
  BY DEF InPlace
<1> DEFINE to == Remapped(r.off)
           kept == DOMAIN g \ Lost(r.off, to, r.size)
           S == kept \cup (IF r.off \in DOMAIN g THEN {to} ELSE {})
<1>1. /\ r.off \in Things(h) /\ At(r.off) = r.off /\ to = To(r, r.off)
      /\ \A o : o # r.off => To(r, o) = At(o)
      /\ \A o \in Things(h) : At(o) \in Lost(r.off, to, r.size) <=> o = r.off
      /\ \A o \in Things(h) : o # r.off => At(o) # to
  BY TurnFacts
<1>2. \A o, q \in Things(h) : At(o) = At(q) => o = q
  BY AtOne DEF Turn
<1>3. kept = {At(o) : o \in D \ {r.off}}
  BY <1>0, <1>1
<1>4. r.off \in DOMAIN g <=> r.off \in D
  BY <1>0, <1>1, <1>2
<1>5. G = [x \in S |-> IF x \in kept THEN g[x] ELSE g[r.off]]
  BY DEF Moved
<1> HIDE DEF kept, to
<1>6. S = {To(r, o) : o \in D}
  <2>1. CASE r.off \in D
    <3>1. S = kept \cup {to}
      BY <2>1, <1>4
    <3> QED BY <2>1, <3>1, <1>1, <1>3
  <2>2. CASE r.off \notin D
    <3>1. S = kept
      BY <2>2, <1>4
    <3> QED BY <2>2, <3>1, <1>1, <1>3
  <2> QED BY <2>1, <2>2
<1> HIDE DEF S
<1>7. DOMAIN G = S /\ G = [x \in DOMAIN G |-> G[x]]
  BY <1>5
<1>8. ASSUME NEW o \in D PROVE G[To(r, o)] = g[At(o)]
  <2>1. To(r, o) \in S
    BY <1>6
  <2>2. CASE o # r.off
    <3>1. To(r, o) = At(o) /\ At(o) \in kept
      BY <2>2, <1>1, <1>3
    <3> QED BY <2>1, <3>1, <1>5
  <2>3. CASE o = r.off
    <3>1. To(r, o) = to /\ At(o) = r.off
      BY <2>3, <1>1
    <3>2. to \notin kept
      <4> SUFFICES ASSUME NEW q \in D \ {r.off}, At(q) = to PROVE FALSE
        BY <1>3
      <4> QED BY <1>0, <1>1
    <3> QED BY <2>1, <3>1, <3>2, <1>5
  <2> QED BY <2>2, <2>3
<1> QED BY <1>6, <1>7, <1>8 DEF Carried

\* The patched nodes lead to where r is moved.
LEMMA PatchNode ==
  ASSUME NEW h, NEW b, NEW r, Turn(h, b, r)
  PROVE  /\ DOMAIN PatchedNode(r) = DOMAIN node
         /\ \A o \in DOMAIN h.node :
              PatchedNode(r)[At(o)] =
                [name |-> h.node[o].name, prop |-> To(r, h.node[o].prop),
                 link |-> [f \in Links |-> To(r, h.node[o].link[f])]]
<1>1. /\ IsRecord(h, r) /\ r.off \in Things(h) /\ r.off # 0
      /\ Remapped(r.off) = To(r, r.off) /\ Remapped(r.ref) = At(r.ref)
      /\ \A o : o # r.off => To(r, o) = At(o)
  BY TurnFacts
<1>2. Sound(h) /\ DOMAIN node = {At(o) : o \in DOMAIN h.node}
  BY DEF Turn, Ready, Image
<1>3. \A o, q \in DOMAIN h.node : At(o) = At(q) => o = q
  BY AtOne DEF Turn, Things
<1>4. \A o \in DOMAIN h.node :
        node[At(o)] = [name |-> h.node[o].name, prop |-> At(h.node[o].prop),
                       link |-> [f \in Links |-> At(h.node[o].link[f])]]
  BY DEF Turn, Image
<1>5. {"prop", "rel"} \cap Links = {}
  BY DEF Links
<1>6. /\ \A o \in DOMAIN h.node : h.node[o].prop = 0 \/ h.node[o].prop \in DOMAIN h.info
      /\ \A o \in DOMAIN h.node : \A f \in Links :
           h.node[o].link[f] = 0 \/ h.node[o].link[f] \in DOMAIN h.node
  BY <1>2 DEF Sound, Tree, Props
<1>7. /\ DOMAIN h.node \cap DOMAIN h.info = {} /\ DOMAIN h.node \cap DOMAIN h.long = {}
      /\ DOMAIN h.info \cap DOMAIN h.long = {}
  BY <1>2 DEF Sound, Sorts
<1>8. CASE LongRecord(h, r)
  <2>1. r.off \in DOMAIN h.long /\ r.field = "rel"
    BY <1>1, <1>2, <1>8, RecordFacts DEF LongRecord
  <2>2. PatchedNode(r) = node
    BY <2>1, <1>5 DEF PatchedNode
  <2>3. \A o \in DOMAIN h.node : /\ To(r, h.node[o].prop) = At(h.node[o].prop)
                                 /\ \A f \in Links : To(r, h.node[o].link[f]) = At(h.node[o].link[f])
    BY <2>1, <1>1, <1>6, <1>7
  <2> QED BY <2>2, <2>3, <1>4
<1>9. CASE InfoRecord(h, r)
  <2>1. r.off \in DOMAIN h.info /\ r.field = "prop" /\ r.ref \in DOMAIN h.node /\ h.node[r.ref].prop = r.off
    BY <1>1, <1>2, <1>9, RecordFacts DEF InfoRecord
  <2>2. PatchedNode(r) = [node EXCEPT ![At(r.ref)].prop = To(r, r.off)]
    BY <2>1, <1>1, <1>2 DEF PatchedNode
  <2>3. \A o \in DOMAIN h.node : \A f \in Links : To(r, h.node[o].link[f]) = At(h.node[o].link[f])
    BY <2>1, <1>1, <1>6, <1>7
  <2>4. \A o \in DOMAIN h.node : o # r.ref => h.node[o].prop # r.off
    BY <2>1, <1>1, <1>2 DEF Sound, Props
  <2>5. ASSUME NEW o \in DOMAIN h.node
        PROVE  PatchedNode(r)[At(o)] = [name |-> h.node[o].name, prop |-> To(r, h.node[o].prop),
                                        link |-> [f \in Links |-> To(r, h.node[o].link[f])]]
    <3>1. [f \in Links |-> To(r, h.node[o].link[f])] = [f \in Links |-> At(h.node[o].link[f])]
      BY <2>3
    <3>2. At(o) \in DOMAIN node
      BY <1>2
    <3>3. CASE o = r.ref
      <4>1. PatchedNode(r)[At(o)] = [node[At(o)] EXCEPT !.prop = To(r, r.off)]
        BY <2>2, <3>2, <3>3
      <4>2. PICK n, k, l : /\ n = node[At(o)] /\ k = h.node[o].name
                           /\ l = [f \in Links |-> To(r, h.node[o].link[f])]
        OBVIOUS
      <4>3. n = [name |-> k, prop |-> At(h.node[o].prop), link |-> l]
        BY <4>2, <3>1, <1>4
      <4>4. [n EXCEPT !.prop = To(r, r.off)] = [name |-> k, prop |-> To(r, r.off), link |-> l]
        BY <4>3
      <4>5. h.node[o].prop = r.off
        BY <3>3, <2>1
      <4> QED BY <4>1, <4>2, <4>4, <4>5
    <3>4. CASE o # r.ref
      <4>1. At(o) # At(r.ref)
        BY <3>4, <2>1, <1>3
      <4>2. PatchedNode(r)[At(o)] = node[At(o)]
        BY <2>2, <3>2, <4>1
      <4>3. To(r, h.node[o].prop) = At(h.node[o].prop)
        BY <3>4, <2>4, <1>1
      <4> QED BY <4>2, <4>3, <3>1, <1>4
    <3> QED BY <3>3, <3>4
  <2> QED BY <2>2, <2>5
<1>10. CASE NodeRecord(h, r)
  <2>1. /\ r.off \in DOMAIN h.node /\ r.field \in Links /\ r.ref \in DOMAIN h.node
        /\ h.node[r.ref].link[r.field] = r.off
    BY <1>1, <1>2, <1>10, RecordFacts DEF NodeRecord
  <2>2. PatchedNode(r) = [node EXCEPT ![At(r.ref)].link[r.field] = To(r, r.off)]
    <3>1. Remapped(r.ref) \in DOMAIN node /\ r.field # "prop"
      BY <2>1, <1>1, <1>2, <1>5
    <3> QED BY <2>1, <3>1, <1>1 DEF PatchedNode
  <2>3. \A o \in DOMAIN h.node : To(r, h.node[o].prop) = At(h.node[o].prop)
    BY <2>1, <1>1, <1>6, <1>7
  <2>4. \A o \in DOMAIN h.node : \A f \in Links :
          h.node[o].link[f] = r.off => o = r.ref /\ f = r.field
    <3> SUFFICES ASSUME NEW o \in DOMAIN h.node, NEW f \in Links, h.node[o].link[f] = r.off
                 PROVE  o = r.ref /\ f = r.field
      OBVIOUS
    <3> QED BY <2>1, <1>1, <1>2 DEF Sound, Tree
  <2>5. ASSUME NEW o \in DOMAIN h.node
        PROVE  PatchedNode(r)[At(o)] = [name |-> h.node[o].name, prop |-> To(r, h.node[o].prop),
                                        link |-> [f \in Links |-> To(r, h.node[o].link[f])]]
    <3>1. At(o) \in DOMAIN node
      BY <1>2
    <3>2. CASE o = r.ref
      <4>1. PatchedNode(r)[At(o)] = [node[At(o)] EXCEPT !.link[r.field] = To(r, r.off)]
        BY <2>2, <3>1, <3>2
      <4>2. \A f \in Links : To(r, h.node[o].link[f]) =
               IF f = r.field THEN To(r, r.off) ELSE At(h.node[o].link[f])
        BY <2>1, <2>4, <3>2, <1>1
      <4>3. PICK l : l = [f \in Links |-> At(h.node[o].link[f])]
        OBVIOUS
      <4>4. [l EXCEPT ![r.field] = To(r, r.off)] = [f \in Links |-> To(r, h.node[o].link[f])]
        BY <4>2, <4>3
      <4>5. node[At(o)] = [name |-> h.node[o].name, prop |-> To(r, h.node[o].prop), link |-> l]
        BY <1>4, <2>3, <4>3
      <4>6. PatchedNode(r)[At(o)] =
              [name |-> h.node[o].name, prop |-> To(r, h.node[o].prop),
               link |-> [l EXCEPT ![r.field] = To(r, r.off)]]
        BY <4>1, <4>5
      <4> QED BY <4>4, <4>6
    <3>3. CASE o # r.ref
      <4>1. At(o) # At(r.ref)
        BY <3>3, <2>1, <1>3
      <4>2. PatchedNode(r)[At(o)] = node[At(o)]
        BY <2>2, <3>1, <4>1
      <4>3. [f \in Links |-> To(r, h.node[o].link[f])] = [f \in Links |-> At(h.node[o].link[f])]
        BY <3>3, <2>4, <1>1
      <4> QED BY <4>2, <4>3, <2>3, <1>4
    <3> QED BY <3>2, <3>3
  <2> QED BY <2>2, <2>5
<1> QED BY <1>1, <1>8, <1>9, <1>10 DEF IsRecord

\* The distances to the long values: patched when the value moves.
LEMMA PatchInfo ==
  ASSUME NEW h, NEW b, NEW r, Turn(h, b, r)
  PROVE  /\ DOMAIN PatchedInfo(r) = DOMAIN info
         /\ \A p \in DOMAIN h.info :
              PatchedInfo(r)[At(p)] =
                [key |-> h.info[p].key, serial_len |-> h.info[p].serial_len,
                 is_long |-> h.info[p].is_long, val |-> h.info[p].val, rel |-> Rel(h, p)']
<1>1. /\ IsRecord(h, r) /\ r.off \in Things(h) /\ r.off # 0 /\ Left(r.off)
      /\ Remapped(r.off) = To(r, r.off) /\ Remapped(r.ref) = At(r.ref)
      /\ \A o : At(o)' = To(r, o)
      /\ \A o : o # r.off => To(r, o) = At(o)
      /\ \A o : Left(o)' <=> Left(o) /\ o # r.off
  BY TurnFacts
<1>2. Sound(h) /\ DOMAIN info = {At(o) : o \in DOMAIN h.info}
  BY DEF Turn, Ready, Image
<1>3. \A o, q \in DOMAIN h.info : At(o) = At(q) => o = q
  BY AtOne DEF Turn, Things
<1>4. \A p \in DOMAIN h.info :
        info[At(p)] = [key |-> h.info[p].key, serial_len |-> h.info[p].serial_len,
                       is_long |-> h.info[p].is_long, val |-> h.info[p].val, rel |-> Rel(h, p)]
  BY DEF Turn, Image
<1>5. \A p \in DOMAIN h.info : h.info[p].rel # 0 =>
        OldLong(h, p) \in DOMAIN h.long /\ p < OldLong(h, p) /\ p \in Nat /\ OldLong(h, p) \in Nat
  <2> SUFFICES ASSUME NEW p \in DOMAIN h.info, h.info[p].rel # 0
               PROVE  OldLong(h, p) \in DOMAIN h.long /\ p < OldLong(h, p) /\ p \in Nat /\ OldLong(h, p) \in Nat
    OBVIOUS
  <2>1. p \in Nat /\ h.info[p].rel \in Nat
    BY <1>2 DEF Sound, Sorts, Info, Offset
  <2> QED BY <2>1, <1>2 DEF OldLong, Sound, Longs
<1>6. ASSUME NEW p \in DOMAIN h.info, h.info[p].rel # 0, OldLong(h, p) # r.off PROVE Rel(h, p)' = Rel(h, p)
  <2> DEFINE l == OldLong(h, p)
  <2>1. Rel(h, p)' = IF Left(l)' THEN h.info[p].rel ELSE At(l)' - At(p)'
    BY <1>6 DEF Rel, OldLong
  <2>2. Rel(h, p) = IF Left(l) THEN h.info[p].rel ELSE At(l) - At(p)
    BY <1>6 DEF Rel
  <2>3. (Left(l)' <=> Left(l)) /\ At(l)' = At(l)
    BY <1>1, <1>6
  <2>4. ~Left(l) => p # r.off
    <3> SUFFICES ASSUME ~Left(l), p = r.off PROVE FALSE
      OBVIOUS
    <3>1. r \in recs /\ r \in todo
      BY NextMove DEF Turn
    <3>2. p < l /\ l \in Things(h) /\ p \in Nat /\ l \in Nat
      BY <1>5, <1>6 DEF Things
    <3>3. Moves(l)
      <4> SUFFICES ASSUME ~Moves(l) PROVE FALSE
        OBVIOUS
      <4>1. l < r.off
        BY <3>1, <3>2 DEF Turn, Ready, Ledger
      <4> QED BY <3>2, <4>1
    <3>4. PICK s \in recs : s.off = l
      BY <3>3 DEF Moves
    <3>5. s \notin todo
      BY <3>4 DEF Left
    <3>6. l < p
      BY <3>1, <3>4, <3>5 DEF Turn, Ready, LastLeft
    <3> QED BY <3>2, <3>6
  <2>5. ~Left(l) => At(p)' = At(p)
    BY <1>1, <2>4
  <2> QED BY <2>1, <2>2, <2>3, <2>5
<1>7. \A p \in DOMAIN h.info : h.info[p].rel = 0 => Rel(h, p)' = Rel(h, p)
  BY DEF Rel
<1>8. CASE NodeRecord(h, r) \/ InfoRecord(h, r)
  <2>1. PatchedInfo(r) = info
    BY <1>8 DEF PatchedInfo, NodeRecord, InfoRecord, Links
  <2>2. r.off \notin DOMAIN h.long
    BY <1>1, <1>2, <1>8, RecordFacts DEF Sound, Sorts
  <2>3. \A p \in DOMAIN h.info : Rel(h, p)' = Rel(h, p)
    BY <2>2, <1>5, <1>6, <1>7
  <2> QED BY <2>1, <2>3, <1>4
<1>9. CASE LongRecord(h, r)
  <2>1. /\ r.off \in DOMAIN h.long /\ r.field = "rel" /\ r.ref \in DOMAIN h.info
        /\ h.info[r.ref].rel # 0 /\ OldLong(h, r.ref) = r.off
    BY <1>1, <1>2, <1>9, RecordFacts DEF LongRecord, OldLong
  <2>2. PatchedInfo(r) = [info EXCEPT ![At(r.ref)].rel = To(r, r.off) - At(r.ref)]
    BY <2>1, <1>1, <1>2 DEF PatchedInfo
  <2>3. \A p \in DOMAIN h.info : p # r.ref => Rel(h, p)' = Rel(h, p)
    <3> SUFFICES ASSUME NEW p \in DOMAIN h.info, p # r.ref, h.info[p].rel # 0 PROVE Rel(h, p)' = Rel(h, p)
      BY <1>7
    <3>1. OldLong(h, p) # r.off
      BY <2>1, <1>2 DEF OldLong, Sound, Longs
    <3> QED BY <3>1, <1>6
  <2>4. Rel(h, r.ref)' = To(r, r.off) - At(r.ref)
    <3>1. ~Left(r.off)' /\ At(r.off)' = To(r, r.off) /\ At(r.ref)' = At(r.ref)
      BY <1>1, TurnFacts
    <3>2. OldLong(h, r.ref)' = r.off
      BY <2>1 DEF OldLong
    <3> QED BY <2>1, <3>1, <3>2 DEF Rel
  <2>5. ASSUME NEW p \in DOMAIN h.info
        PROVE  PatchedInfo(r)[At(p)] =
                 [key |-> h.info[p].key, serial_len |-> h.info[p].serial_len,
                  is_long |-> h.info[p].is_long, val |-> h.info[p].val, rel |-> Rel(h, p)']
    <3>1. At(p) \in DOMAIN info
      BY <1>2
    <3>2. CASE p = r.ref
      <4>1. PatchedInfo(r)[At(p)] = [info[At(p)] EXCEPT !.rel = To(r, r.off) - At(r.ref)]
        BY <2>2, <3>1, <3>2
      <4>2. PICK n, m, t : n = info[At(p)] /\ m = h.info[p] /\ t = To(r, r.off) - At(r.ref)
        OBVIOUS
      <4>3. n = [key |-> m.key, serial_len |-> m.serial_len, is_long |-> m.is_long, val |-> m.val,
                 rel |-> Rel(h, p)]
        BY <4>2, <1>4
      <4>4. [n EXCEPT !.rel = t] =
              [key |-> m.key, serial_len |-> m.serial_len, is_long |-> m.is_long, val |-> m.val, rel |-> t]
        BY <4>3
      <4> QED BY <4>1, <4>2, <4>4, <3>2, <2>4
    <3>3. CASE p # r.ref
      <4>1. At(p) # At(r.ref)
        BY <3>3, <2>1, <1>3
      <4>2. PatchedInfo(r)[At(p)] = info[At(p)]
        BY <2>2, <3>1, <4>1
      <4> QED BY <4>2, <3>3, <2>3, <1>4
    <3> QED BY <3>2, <3>3
  <2> QED BY <2>2, <2>5
<1> QED BY <1>1, <1>8, <1>9 DEF IsRecord

\* Each turn leaves the area the same heap, with one more object at its new place.
LEMMA MoveObjectInv ==
  ASSUME NEW h, NEW b, Ready(h, b), Image(h), MoveObject PROVE Ready(h, b)' /\ Image(h)'
<1> DEFINE r == Lowest(todo)
<1>1. PICK x : x = r
  OBVIOUS
<1>2. /\ Turn(h, b, x)
      /\ node' = Moved(PatchedNode(x), x.off, Remapped(x.off), x.size)
      /\ info' = Moved(PatchedInfo(x), x.off, Remapped(x.off), x.size)
      /\ long' = Moved(long, x.off, Remapped(x.off), x.size)
  BY <1>1 DEF MoveObject, Turn
<1> HIDE DEF r
<1>3. Ready(h, b)' /\ \A o : At(o)' = To(x, o)
  BY <1>2, TurnFacts
<1>4. /\ DOMAIN h.node \subseteq Things(h) /\ DOMAIN h.info \subseteq Things(h)
      /\ DOMAIN h.long \subseteq Things(h)
  BY DEF Things
<1>5. /\ DOMAIN node = {At(o) : o \in DOMAIN h.node} /\ DOMAIN info = {At(o) : o \in DOMAIN h.info}
      /\ DOMAIN long = {At(o) : o \in DOMAIN h.long}
  BY DEF Image
<1>6. /\ DOMAIN node' = {To(x, o) : o \in DOMAIN h.node} /\ node' = [o \in DOMAIN node' |-> node'[o]]
      /\ \A o \in DOMAIN h.node : node'[To(x, o)] = PatchedNode(x)[At(o)]
  <2>1. DOMAIN PatchedNode(x) = {At(o) : o \in DOMAIN h.node}
    BY <1>2, <1>5, PatchNode
  <2>2. PICK g, G, D : g = PatchedNode(x) /\ G = node' /\ D = DOMAIN h.node
    OBVIOUS
  <2>3. InPlace(h, D, g) /\ G = Moved(g, x.off, Remapped(x.off), x.size)
    BY <2>1, <2>2, <1>2, <1>4 DEF InPlace
  <2>4. Carried(x, D, g, G)
    BY <2>3, <1>2, MovedFacts
  <2> QED BY <2>2, <2>4 DEF Carried
<1>7. /\ DOMAIN info' = {To(x, o) : o \in DOMAIN h.info} /\ info' = [o \in DOMAIN info' |-> info'[o]]
      /\ \A o \in DOMAIN h.info : info'[To(x, o)] = PatchedInfo(x)[At(o)]
  <2>1. DOMAIN PatchedInfo(x) = {At(o) : o \in DOMAIN h.info}
    BY <1>2, <1>5, PatchInfo
  <2>2. PICK g, G, D : g = PatchedInfo(x) /\ G = info' /\ D = DOMAIN h.info
    OBVIOUS
  <2>3. InPlace(h, D, g) /\ G = Moved(g, x.off, Remapped(x.off), x.size)
    BY <2>1, <2>2, <1>2, <1>4 DEF InPlace
  <2>4. Carried(x, D, g, G)
    BY <2>3, <1>2, MovedFacts
  <2> QED BY <2>2, <2>4 DEF Carried
<1>8. /\ DOMAIN long' = {To(x, o) : o \in DOMAIN h.long} /\ long' = [o \in DOMAIN long' |-> long'[o]]
      /\ \A o \in DOMAIN h.long : long'[To(x, o)] = long[At(o)]
  <2>2. PICK g, G, D : g = long /\ G = long' /\ D = DOMAIN h.long
    OBVIOUS
  <2>3. InPlace(h, D, g) /\ G = Moved(g, x.off, Remapped(x.off), x.size)
    BY <2>2, <1>2, <1>4, <1>5 DEF InPlace
  <2>4. Carried(x, D, g, G)
    BY <2>3, <1>2, MovedFacts
  <2> QED BY <2>2, <2>4 DEF Carried
<1>9. PICK n, i, l : n = node' /\ i = info' /\ l = long'
  OBVIOUS
<1>10. /\ DOMAIN n = {At(o)' : o \in DOMAIN h.node} /\ n = [o \in DOMAIN n |-> n[o]]
       /\ DOMAIN i = {At(o)' : o \in DOMAIN h.info} /\ i = [o \in DOMAIN i |-> i[o]]
       /\ DOMAIN l = {At(o)' : o \in DOMAIN h.long} /\ l = [o \in DOMAIN l |-> l[o]]
  <2>1. DOMAIN n = {At(o)' : o \in DOMAIN h.node} /\ n = [o \in DOMAIN n |-> n[o]]
    BY <1>3, <1>6, <1>9
  <2>2. DOMAIN i = {At(o)' : o \in DOMAIN h.info} /\ i = [o \in DOMAIN i |-> i[o]]
    BY <1>3, <1>7, <1>9
  <2>3. DOMAIN l = {At(o)' : o \in DOMAIN h.long} /\ l = [o \in DOMAIN l |-> l[o]]
    BY <1>3, <1>8, <1>9
  <2> QED BY <2>1, <2>2, <2>3
<1>11. \A o \in DOMAIN h.node :
         n[At(o)'] = [name |-> h.node[o].name, prop |-> At(h.node[o].prop)',
                      link |-> [f \in Links |-> At(h.node[o].link[f])']]
  <2> SUFFICES ASSUME NEW o \in DOMAIN h.node
               PROVE  n[At(o)'] = [name |-> h.node[o].name, prop |-> At(h.node[o].prop)',
                                   link |-> [f \in Links |-> At(h.node[o].link[f])']]
    OBVIOUS
  <2>1. n[At(o)'] = [name |-> h.node[o].name, prop |-> To(x, h.node[o].prop),
                     link |-> [f \in Links |-> To(x, h.node[o].link[f])]]
    BY <1>2, <1>3, <1>6, <1>9, PatchNode
  <2>2. [f \in Links |-> To(x, h.node[o].link[f])] = [f \in Links |-> At(h.node[o].link[f])']
    BY <1>3
  <2>3. To(x, h.node[o].prop) = At(h.node[o].prop)'
    BY <1>3
  <2> QED BY <2>1, <2>2, <2>3
<1>12. \A p \in DOMAIN h.info :
         i[At(p)'] = [key |-> h.info[p].key, serial_len |-> h.info[p].serial_len,
                      is_long |-> h.info[p].is_long, val |-> h.info[p].val, rel |-> Rel(h, p)']
  BY <1>2, <1>3, <1>7, <1>9, PatchInfo
<1>13. \A k \in DOMAIN h.long : l[At(k)'] = h.long[k]
  BY <1>3, <1>8, <1>9 DEF Image
<1>14. Image(h)'
  BY <1>9, <1>10, <1>11, <1>12, <1>13 DEF Image
<1> QED BY <1>3, <1>14

-------------------------------------------------------------------------------
\* With every object at its new place the area is a heap again, and packed.
LEMMA MoveDoneInv ==
  ASSUME Moving, MoveDone PROVE Inv' /\ Kept' /\ Packed'
<1>1. /\ pc = "move" /\ todo = {} /\ bytes_used' = cursor /\ Return("moved", NoValue)
      /\ UNCHANGED <<node, info, long>>
      /\ pc' = "idle" /\ call' = NoCall /\ cur' = 0 /\ depth' = 0 /\ fresh' = 0
  BY DEF MoveDone, Return
<1>2. PICK h, b : Ready(h, b) /\ Image(h)
  BY DEF Moving
<1>3. /\ Sorts(Area) /\ Tree(Area) /\ Props(Area) /\ Longs(Area) /\ Serials(Area) /\ Roots(Area)
      /\ Spaced(Area) /\ node[0].link["children"] # 0 /\ FirstIn(Area) = FirstIn(h)
  BY <1>1, <1>2, ImageSorts, ImageTree, ImageLongs, ImageRoots
<1>4. Sound(Area) /\ bytes_used \in Offset /\ Heap
  BY <1>2, <1>3, AreaSound DEF Sound, Ready
<1>5. /\ Objects = {At(o) : o \in Things(h)} /\ \A o \in Things(h) : ObjectSize(At(o)) = SizeIn(h, o)
  BY <1>2, ImageThings, AreaIs
<1>6. \A o \in Things(h) : /\ o \in Nat /\ SizeIn(h, o) \in Nat /\ SizeIn(h, o) > 0
                           /\ o + SizeIn(h, o) <= bytes_used
                           /\ At(o) \in Nat /\ (~Moves(o) => At(o) = o)
  BY <1>2, ThingFacts, AtFacts DEF Ready, Sound, Spaced
<1>7. \A r \in recs : /\ r.off \in Things(h) /\ r.size = SizeIn(h, r.off) /\ At(r.off) = remap[r.off]
                      /\ remap[r.off] \in Nat /\ b <= remap[r.off] /\ remap[r.off] < r.off
                      /\ remap[r.off] + r.size <= cursor /\ r.off > b
  <2> SUFFICES ASSUME NEW r \in recs
               PROVE  /\ r.off \in Things(h) /\ r.size = SizeIn(h, r.off) /\ At(r.off) = remap[r.off]
                      /\ remap[r.off] \in Nat /\ b <= remap[r.off] /\ remap[r.off] < r.off
                      /\ remap[r.off] + r.size <= cursor /\ r.off > b
    OBVIOUS
  <2>1. IsRecord(h, r) /\ r.off > b
    BY <1>2 DEF Ready, Ledger
  <2>2. r.off \in Things(h) /\ r.size = SizeIn(h, r.off)
    BY <1>2, <2>1, RecordFacts DEF Ready
  <2>3. /\ remap[r.off] \in Nat /\ b <= remap[r.off] /\ remap[r.off] < r.off
        /\ remap[r.off] + r.size <= cursor /\ r.off \in DOMAIN remap
    BY <1>2 DEF Ready, Placed
  <2>4. At(r.off) = remap[r.off]
    BY <1>1, <2>3 DEF At, Left, Remapped
  <2> QED BY <2>1, <2>2, <2>3, <2>4
<1>8. b \in Nat /\ cursor \in Nat /\ b <= cursor /\ FirstIn(h) <= b /\ bytes_used \in Nat
  BY <1>2, <1>4 DEF Ready, Ledger, Placed, Offset
<1>9. \A o \in Things(h) : At(o) + SizeIn(h, o) <= cursor
  <2> SUFFICES ASSUME NEW o \in Things(h) PROVE At(o) + SizeIn(h, o) <= cursor
    OBVIOUS
  <2>1. CASE Moves(o)
    BY <2>1, <1>7 DEF Moves
  <2>2. CASE ~Moves(o)
    <3>1. At(o) = o /\ o + SizeIn(h, o) <= b
      BY <2>2, <1>2, <1>6 DEF Ready, Ledger
    <3> QED BY <3>1, <1>6, <1>8
  <2> QED BY <2>1, <2>2
<1>10. cursor <= bytes_used
  <2>1. cursor = b \/ \E q \in recs : remap[q.off] + q.size = cursor
    BY <1>2 DEF Ready, Placed
  <2>2. PICK q \in recs : cursor = b \/ remap[q.off] + q.size = cursor
    BY <2>1, <1>2 DEF Ready, Ledger
  <2>3. PICK o \in Things(h) : o = q.off /\ q.size = SizeIn(h, o) /\ remap[q.off] < o /\ remap[q.off] \in Nat /\ o > b
    BY <2>2, <1>7
  <2> QED BY <2>2, <2>3, <1>6, <1>8
<1>11. Heap'
  <2>1. bytes_used' \in Offset
    BY <1>1, <1>4, <1>8, <1>10, Numbers DEF Offset
  <2>2. NoOverlap'
    <3>1. \A o \in Objects : o + ObjectSize(o) <= cursor
      BY <1>5, <1>9
    <3>2. Objects' = Objects /\ \A o : ObjectSize(o)' = ObjectSize(o)
      BY <1>1 DEF Objects, ObjectSize
    <3> QED BY <3>1, <3>2, <1>1, <1>4 DEF Heap, NoOverlap
  <2>3. AreaTypeOK'
    BY <1>1, <1>4, <2>1 DEF Heap, AreaTypeOK
  <2> QED BY <1>1, <1>4, <2>2, <2>3 DEF Heap, Apart, TrieAscends, OneParent, OwnersAscend, OneOwner, LongsHeld
<1>12. Inv'
  BY <1>1, <1>11, EndedInv, NoValueIsAValue DEF Status
<1>13. Kept'
  <2>1. Owned'
    <3>1. Parented'
      BY <1>1, <1>3, AreaIs DEF Tree, Parented
    <3>2. InUse'
      BY <1>1, <1>3, AreaIs DEF Props, InUse
    <3>3. Held'
      BY <1>1, <1>3, AreaIs DEF Longs, Held
    <3> QED BY <3>1, <3>2, <3>3 DEF Owned
  <2>2. Told'
    BY <1>1, <1>3, AreaIs DEF Longs, Serials, Told, Unpublished
  <2>3. RootKept'
    BY <1>1, <1>3, AreaIs DEF Roots, RootKept, FirstPlace
  <2>4. Below'
    BY <1>1 DEF Below
  <2> QED BY <2>1, <2>2, <2>3, <2>4 DEF Kept
<1>14. FirstOffset' = FirstIn(h)
  BY <1>1, <1>3, AreaIs DEF FirstOffset, has_dirty_backup, FirstIn
<1>15. \A o \in Things(h) : At(o) <= FirstIn(h)
           \/ \E q \in Things(h) : At(q) < At(o) /\ At(q) + SizeIn(h, q) = At(o)
  <2> SUFFICES ASSUME NEW o \in Things(h), ~(At(o) <= FirstIn(h))
               PROVE  \E q \in Things(h) : At(q) < At(o) /\ At(q) + SizeIn(h, q) = At(o)
    OBVIOUS
  <2>1. CASE ~Moves(o)
    <3>1. At(o) = o
      BY <2>1, <1>6
    <3>2. PICK q \in Things(h) : q < o /\ q + SizeIn(h, q) = o
      BY <2>1, <3>1, <1>2 DEF Ready, Ledger
    <3>3. ~Moves(q)
      <4> SUFFICES ASSUME NEW r \in recs, r.off = q PROVE FALSE
        BY DEF Moves
      <4>1. o < r.off
        BY <2>1, <1>2 DEF Ready, Ledger
      <4> QED BY <4>1, <3>2, <1>6
    <3> QED BY <3>1, <3>2, <3>3, <1>6
  <2>2. CASE Moves(o)
    <3>1. PICK r \in recs : r.off = o
      BY <2>2 DEF Moves
    <3>2. At(o) = remap[r.off]
      BY <3>1, <1>7
    <3>3. CASE remap[r.off] = b
      <4>1. PICK q \in Things(h) : ~Moves(q) /\ q + SizeIn(h, q) = b
        BY <1>2, <1>8, <3>2, <3>3 DEF Ready, Ledger
      <4>2. At(q) = q /\ q \in Nat /\ SizeIn(h, q) \in Nat /\ SizeIn(h, q) > 0
        BY <4>1, <1>6
      <4> QED BY <4>1, <4>2, <3>2, <3>3
    <3>4. CASE remap[r.off] # b
      <4>1. PICK q \in recs : q.off < r.off /\ remap[q.off] + q.size = remap[r.off]
        BY <3>4, <1>2 DEF Ready, Placed
      <4>2. PICK x \in Things(h) : /\ x = q.off /\ At(x) = remap[q.off] /\ SizeIn(h, x) = q.size
                                   /\ At(x) \in Nat /\ SizeIn(h, x) \in Nat /\ SizeIn(h, x) > 0
        BY <1>6, <1>7
      <4> QED BY <4>1, <4>2, <3>2
    <3> QED BY <3>3, <3>4
  <2> QED BY <2>1, <2>2
<1>16. cursor = FirstIn(h) \/ \E q \in Things(h) : At(q) + SizeIn(h, q) = cursor
  <2>1. CASE cursor = b
    <3>1. b = FirstIn(h) \/ \E q \in Things(h) : ~Moves(q) /\ q + SizeIn(h, q) = b
      BY <1>2 DEF Ready, Ledger
    <3> QED BY <2>1, <3>1, <1>6
  <2>2. CASE cursor # b
    <3>1. PICK q \in recs : remap[q.off] + q.size = cursor
      BY <2>2, <1>2 DEF Ready, Placed
    <3> QED BY <3>1, <1>7
  <2> QED BY <2>1, <2>2
<1>17. Packed'
  <2>1. FirstIn(h) <= cursor
    <3>1. FirstIn(h) \in Nat
      BY Numbers DEF FirstIn
    <3> QED BY <3>1, <1>8
  <2>2. Objects' = Objects /\ \A o : ObjectSize(o)' = ObjectSize(o)
    BY <1>1 DEF Objects, ObjectSize
  <2>3. \A o \in Objects : o <= FirstIn(h) \/ \E q \in Objects : q < o /\ q + ObjectSize(q) = o
    BY <1>5, <1>15
  <2>4. cursor = FirstIn(h) \/ \E q \in Objects : q + ObjectSize(q) = cursor
    BY <1>5, <1>16
  <2> QED BY <1>1, <1>14, <2>1, <2>2, <2>3, <2>4 DEF Packed
<1> QED BY <1>12, <1>13, <1>17

-------------------------------------------------------------------------------
Compacted == {"no_holes", "adjusted", "moved"}
CInv ==
  /\ ControlTypeOK
  /\ pc # "move" => Inv /\ Kept
  /\ pc = "plan" => Planning
  /\ pc = "move" => Moving
  /\ pc = "idle" /\ ret.is \in Compacted => Packed

LEMMA InitCInv == CInit => CInv
<1> SUFFICES ASSUME CInit PROVE CInv
  OBVIOUS
<1>1. Init /\ pc = "idle" /\ ret.is = "ok"
  BY DEF CInit, Init, Result
<1> QED BY <1>1, InitInv, InitKept DEF CInv, Compacted, Inv

\* The operations of PropArea do not compact.
LEMMA StepFacts ==
  ASSUME Step
  PROVE  /\ pc \notin {"collect", "plan", "move"} /\ pc' \notin {"plan", "move"}
         /\ pc' = "idle" => ret'.is \notin Compacted
<1>1. CASE Follow \/ Match \/ GrowTrie \/ UpdateInPlace \/ Detach \/ Wipe \/ AllocInfo \/ AllocLong
           \/ Link \/ \E p \in DOMAIN node, f \in Links : PruneNode(p, f)
  BY <1>1 DEF Follow, Match, GrowTrie, UpdateInPlace, Detach, Wipe, AllocInfo, AllocLong, Link,
     PruneNode, Goto, Walking, Matched, Arrived, Creating
<1>2. CASE Miss \/ GrowTrieFull \/ ReadSlot \/ NothingToDelete \/ AllocFull \/ Publish \/ PruneDone
  <2>1. pc \notin {"collect", "plan", "move"}
    BY <1>2 DEF Miss, GrowTrieFull, ReadSlot, NothingToDelete, AllocFull, Publish, PruneDone, Walking,
       Arrived, Creating
  <2>2. PICK is, val : Return(is, val) /\ is \in {"absent", "full", "found", "ok", "deleted"}
    BY <1>2 DEF Miss, GrowTrieFull, ReadSlot, NothingToDelete, AllocFull, Publish, PublishLayout, PruneDone
  <2>3. pc' = "idle" /\ ret'.is = is
    BY <2>2 DEF Return, Result
  <2> QED BY <2>1, <2>2, <2>3 DEF Compacted
<1> QED BY <1>1, <1>2 DEF Step

LEMMA RequestFacts ==
  ASSUME Request PROVE pc = "idle" /\ pc' = "descend"
BY DEF Request, get_property, set_property, delete_property, Begin

LEMMA CompactRequestInv ==
  ASSUME Inv, Kept, compact_allocations PROVE Inv' /\ Kept' /\ pc' = "collect"
<1>1. /\ pc = "idle" /\ pc' = "collect" /\ UNCHANGED area /\ UNCHANGED <<cur, depth, fresh>>
      /\ call' = [NoCall EXCEPT !.op = "compact"] /\ ret' = Result("pending", NoValue)
  BY DEF compact_allocations, walk
<1>2. ControlTypeOK'
  BY <1>1, NoValueIsAValue DEF Inv, ControlTypeOK, Places, Call, NoCall, Ops, Result, Status
<1>3. Inv'
  BY <1>1, <1>2, SameArea DEF Inv, Control, Reserved
<1>4. Kept'
  BY <1>1, SameKept DEF Plain, Below
<1> QED BY <1>1, <1>3, <1>4

\* The area and the control are left alone.
LEMMA SameInv ==
  ASSUME Inv, Kept, UNCHANGED vars PROVE Inv' /\ Kept'
<1>1. [Next]_vars
  OBVIOUS
<1> QED BY <1>1, NextInv, NextKept

LEMMA SameMoving ==
  ASSUME UNCHANGED cAll
  PROVE  (Planning => Planning') /\ (Moving => Moving') /\ (Packed => Packed')
<1>1. UNCHANGED <<bytes_used, node, info, long, recs, todo, cursor, remap>>
  BY DEF cAll, vars, cvars
<1>2. Area' = Area
  BY <1>1 DEF Area
<1>3. ASSUME Planning PROVE Planning'
  <2>1. PICK b : Ledger(Area, b) /\ Placed(b, todo)
    BY <1>3 DEF Planning
  <2>2. Ledger(Area, b)'
    BY <1>1, <1>2, <2>1 DEF Ledger, Moves, Area, IsRecord, NodeRecord, InfoRecord, LongRecord, Things, SizeIn
  <2>3. Placed(b, todo)'
    BY <1>1, <2>1 DEF Placed
  <2> QED BY <2>2, <2>3 DEF Planning
<1>4. ASSUME Moving PROVE Moving'
  <2>1. PICK h, b : Ready(h, b) /\ Image(h)
    BY <1>4 DEF Moving
  <2>2. Ready(h, b)'
    <3>1. Sound(h)'
      BY <1>1, <2>1 DEF Ready, Sound, Sorts, Tree, Props, Longs, Serials, Roots, Spaced, FirstPlace
    <3>2. Ledger(h, b)'
      BY <1>1, <2>1 DEF Ready, Ledger, Moves
    <3>3. Placed(b, {})'
      BY <1>1, <2>1 DEF Ready, Placed
    <3>4. LastLeft'
      BY <1>1, <2>1 DEF Ready, LastLeft
    <3> QED BY <1>1, <2>1, <3>1, <3>2, <3>3, <3>4 DEF Ready
  <2>3. \A o : At(o)' = At(o) /\ (Left(o)' <=> Left(o))
    BY <1>1 DEF At, Left, Remapped
  <2>4. \A p : Rel(h, p)' = Rel(h, p)
    BY <2>3 DEF Rel, OldLong
  <2>5. Image(h)'
    BY <1>1, <2>1, <2>3, <2>4 DEF Image
  <2> QED BY <2>2, <2>5 DEF Moving
<1>5. ASSUME Packed PROVE Packed'
  <2>1. Objects' = Objects /\ FirstOffset' = FirstOffset /\ \A o : ObjectSize(o)' = ObjectSize(o)
    BY <1>1 DEF Objects, ObjectSize, FirstOffset, has_dirty_backup
  <2> QED BY <1>1, <1>5, <2>1 DEF Packed
<1> QED BY <1>3, <1>4, <1>5

LEMMA NextCInv == CInv /\ [CNext]_cAll => CInv'
<1> SUFFICES ASSUME CInv, [CNext]_cAll PROVE CInv'
  OBVIOUS
<1>1. CASE UNCHANGED cAll
  <2>1. UNCHANGED <<vars, pc, call, cur, depth, fresh, ret>>
    BY <1>1 DEF cAll, vars
  <2>2. ControlTypeOK'
    BY <2>1 DEF CInv, ControlTypeOK
  <2>3. pc' # "move" => Inv' /\ Kept'
    BY <2>1, SameInv DEF CInv
  <2> QED BY <1>1, <2>1, <2>2, <2>3, SameMoving DEF CInv
<1>2. CASE AreaStep
  <2>1. Step /\ [Next]_vars
    BY <1>2 DEF AreaStep, Next
  <2>2. Inv' /\ Kept'
    BY <2>1, StepFacts, NextInv, NextKept DEF CInv
  <2> QED BY <2>1, <2>2, StepFacts DEF CInv, Inv
<1>3. CASE Request
  <2>1. Inv' /\ Kept' /\ pc' = "descend"
    BY <1>3, RequestFacts, RequestInv, RequestKept DEF CInv
  <2> QED BY <2>1 DEF CInv, Inv
<1>4. CASE compact_allocations
  <2>1. pc = "idle"
    BY <1>4 DEF compact_allocations
  <2>2. Inv' /\ Kept' /\ pc' = "collect"
    BY <1>4, <2>1, CompactRequestInv DEF CInv
  <2> QED BY <2>2 DEF CInv, Inv
<1>5. CASE CollectPacked
  <2>1. pc = "collect" /\ pc' = "idle"
    BY <1>5 DEF CollectPacked, Return
  <2> QED BY <1>5, <2>1, CollectPackedInv DEF CInv, Inv
<1>6. CASE CollectHoles
  <2>1. pc = "collect" /\ pc' = "plan"
    BY <1>6 DEF CollectHoles, Goto
  <2> QED BY <1>6, <2>1, CollectHolesPlans DEF CInv, Inv
<1>7. CASE PlanMove
  <2>1. pc = "plan" /\ UNCHANGED vars /\ pc' = pc
    BY <1>7 DEF PlanMove, vars
  <2> QED BY <1>7, <2>1, PlanMoveInv, SameInv DEF CInv, Inv
<1>8. CASE PlanDone
  <2>1. pc = "plan" /\ pc' = "move" /\ UNCHANGED <<call, cur, depth, fresh, ret>>
    BY <1>8 DEF PlanDone, Goto, walk
  <2>2. ControlTypeOK'
    BY <2>1 DEF CInv, ControlTypeOK, Places
  <2> QED BY <1>8, <2>1, <2>2, PlanDoneInv DEF CInv
<1>9. CASE MoveObject
  <2>1. pc = "move" /\ pc' = "move" /\ UNCHANGED <<call, cur, depth, fresh, ret>>
    BY <1>9 DEF MoveObject, walk
  <2>2. ControlTypeOK'
    BY <2>1 DEF CInv, ControlTypeOK
  <2>3. Moving'
    BY <1>9, <2>1, MoveObjectInv DEF CInv, Moving
  <2> QED BY <2>1, <2>2, <2>3 DEF CInv
<1>10. CASE MoveDone
  <2>1. pc = "move" /\ pc' = "idle"
    BY <1>10 DEF MoveDone, Return
  <2> QED BY <1>10, <2>1, MoveDoneInv DEF CInv, Inv
<1> QED BY <1>1, <1>2, <1>3, <1>4, <1>5, <1>6, <1>7, <1>8, <1>9, <1>10
        DEF CNext, CRequest, CStep, CompactStep

-------------------------------------------------------------------------------
\* A map from S onto T that takes no two to one.
LEMMA SameCount ==
  ASSUME NEW S, NEW T, IsFiniteSet(T), NEW f \in [S -> T],
         \A x, y \in S : f[x] = f[y] => x = y, \A t \in T : \E s \in S : f[s] = t
  PROVE  Cardinality(S) = Cardinality(T)
<1>1. f \in Injection(S, T)
  BY DEF Injection, IsInjective
<1>2. f \in Surjection(S, T)
  BY DEF Surjection
<1> HIDE DEF Injection, Surjection
<1> QED BY <1>1, <1>2, FS_Injection

LEMMA OneEach ==
  ASSUME Sound(Area)
  PROVE  /\ Cardinality(LinksOf(DOMAIN node)) = Cardinality(DOMAIN node) - 1
         /\ Cardinality(DOMAIN info) = Cardinality(Owners(DOMAIN node))
<1>1. DOMAIN node \subseteq Offset /\ DOMAIN info \subseteq Offset /\ 0 \in DOMAIN node
  BY AreaIs DEF Sound, Sorts
<1>2. IsFiniteSet(DOMAIN node) /\ IsFiniteSet(DOMAIN info)
  <2>1. IsFiniteSet(Offset)
    BY Numbers, FS_Interval DEF Offset
  <2> QED BY <1>1, <2>1, FS_Subset
<1>3. Cardinality(LinksOf(DOMAIN node)) = Cardinality(DOMAIN node \ {0})
  <2> DEFINE S == LinksOf(DOMAIN node)
             T == DOMAIN node \ {0}
             f == [l \in S |-> node[l[1]].link[l[2]]]
  <2>1. IsFiniteSet(T)
    BY <1>2, FS_RemoveElement
  <2>2. \A l \in S : l = <<l[1], l[2]>> /\ l[1] \in DOMAIN node /\ l[2] \in Links /\ node[l[1]].link[l[2]] # 0
    BY DEF LinksOf
  <2>3. \A o \in DOMAIN node : \A g \in Links : node[o].link[g] # 0 => <<o, g>> \in S
    BY DEF LinksOf
  <2> HIDE DEF S
  <2>4. f \in [S -> T]
    BY <2>2, AreaIs DEF Sound, Tree
  <2>5. \A x, y \in S : f[x] = f[y] => x = y
    <3> SUFFICES ASSUME NEW x \in S, NEW y \in S, f[x] = f[y] PROVE x = y
      OBVIOUS
    <3>1. node[x[1]].link[x[2]] = node[y[1]].link[y[2]]
      OBVIOUS
    <3>2. x[1] = y[1] /\ x[2] = y[2]
      BY <2>2, <3>1, AreaIs DEF Sound, Tree
    <3> QED BY <2>2, <3>2
  <2>6. \A t \in T : \E s \in S : f[s] = t
    <3> SUFFICES ASSUME NEW t \in DOMAIN node, t # 0 PROVE \E s \in S : f[s] = t
      OBVIOUS
    <3>1. PICK q \in DOMAIN node, g \in Links : node[q].link[g] = t
      BY AreaIs DEF Sound, Tree
    <3>2. PICK s \in S : s = <<q, g>>
      BY <2>3, <3>1
    <3> QED BY <3>1, <3>2
  <2> HIDE DEF T, f
  <2>7. Cardinality(S) = Cardinality(T)
    BY <2>1, <2>4, <2>5, <2>6, SameCount
  <2> QED BY <2>7 DEF S, T
<1>4. Cardinality(Owners(DOMAIN node)) = Cardinality(DOMAIN info)
  <2> DEFINE S == Owners(DOMAIN node)
             T == DOMAIN info
             f == [o \in S |-> node[o].prop]
  <2>1. \A o : o \in S <=> o \in DOMAIN node /\ node[o].prop # 0
    BY DEF Owners
  <2> HIDE DEF S
  <2>2. f \in [S -> T]
    BY <2>1, AreaIs DEF Sound, Props
  <2>3. \A x, y \in S : f[x] = f[y] => x = y
    BY <2>1, AreaIs DEF Sound, Props
  <2>4. \A t \in T : \E s \in S : f[s] = t
    <3> SUFFICES ASSUME NEW t \in DOMAIN info PROVE \E s \in S : f[s] = t
      OBVIOUS
    <3>1. t # 0
      BY AreaIs DEF Sound, Sorts
    <3>2. PICK s \in DOMAIN node : node[s].prop = t
      BY AreaIs DEF Sound, Props
    <3> QED BY <2>1, <3>1, <3>2
  <2> HIDE DEF f
  <2>5. Cardinality(S) = Cardinality(T)
    BY <1>2, <2>2, <2>3, <2>4, SameCount
  <2> QED BY <2>5 DEF S
<1>5. Cardinality(DOMAIN node) - 1 = Cardinality(DOMAIN node \ {0})
  BY <1>1, <1>2, FS_RemoveElement
<1> QED BY <1>3, <1>4, <1>5

LEMMA OwnedAll == CInv => EveryObjectOwned
<1> SUFFICES ASSUME CInv, pc = "idle"
             PROVE  /\ Cardinality(LinksOf(DOMAIN node)) = Cardinality(DOMAIN node) - 1
                    /\ Reached = DOMAIN node
                    /\ DOMAIN info = {node[o].prop : o \in Owners(DOMAIN node)}
                    /\ Cardinality(DOMAIN info) = Cardinality(Owners(DOMAIN node))
                    /\ DOMAIN long = {p + info[p].rel : p \in {q \in DOMAIN info : info[q].is_long}}
  BY DEF EveryObjectOwned
<1>1. Sound(Area)
  BY SoundArea DEF CInv, Calm
<1>2. DOMAIN info = {node[o].prop : o \in Owners(DOMAIN node)}
  <2>1. \A o \in DOMAIN node : node[o].prop # 0 => node[o].prop \in DOMAIN info
    BY <1>1, AreaIs DEF Sound, Props
  <2>2. \A p \in DOMAIN info : \E o \in DOMAIN node : node[o].prop = p /\ p # 0
    BY <1>1, AreaIs DEF Sound, Props, Sorts
  <2> QED BY <2>1, <2>2 DEF Owners
<1>3. DOMAIN long = {p + info[p].rel : p \in {q \in DOMAIN info : info[q].is_long}}
  <2>1. /\ \A p \in DOMAIN info : info[p].is_long <=> info[p].rel # 0
        /\ \A p \in DOMAIN info : info[p].rel # 0 => p + info[p].rel \in DOMAIN long
        /\ \A l \in DOMAIN long : \E p \in DOMAIN info : info[p].rel # 0 /\ p + info[p].rel = l
    BY <1>1, AreaIs DEF Sound, Longs, Serials
  <2> QED BY <2>1
<1> QED BY <1>1, <1>2, <1>3, AllReached, OneEach

LEMMA SerialsTell == CInv => SerialTellsLayout
<1> SUFFICES ASSUME CInv, pc = "idle", NEW p \in DOMAIN info
             PROVE  /\ info[p].is_long <=> info[p].rel # 0
                    /\ info[p].is_long => info[p].rel >= InfoSize(info[p].key)
                    /\ info[p].serial_len = info[p].val.len
  BY DEF SerialTellsLayout
<1>1. Sound(Area)
  BY SoundArea DEF CInv, Calm
<1> QED BY <1>1, AreaIs DEF Sound, Longs, Serials

LEMMA NoHole == CInv => CompactLeavesNoHole
<1> SUFFICES ASSUME CInv, pc = "idle", ret.is \in Compacted
             PROVE  Holes(Records) = {} /\ {r.off : r \in Records \ BackupRecord} = Objects
  BY DEF CompactLeavesNoHole, Compacted
<1>1. Sound(Area) /\ Packed /\ bytes_used \in Offset /\ RootKept
  BY SoundArea DEF CInv, Calm, Inv, Heap, AreaTypeOK, Kept
<1>2. \A o \in Objects : /\ o \in Nat /\ ObjectSize(o) \in Nat /\ ObjectSize(o) > 0
                         /\ o + ObjectSize(o) <= bytes_used
  BY <1>1, AreaIs, ThingFacts DEF Sound, Spaced
<1>3. \A r \in Records : r.off \in Nat
  <2>1. RootRecord.off \in Nat /\ \A q \in BackupRecord : q.off \in Nat
    BY Numbers DEF RootRecord, BackupRecord, CompactRecord
  <2>2. \A q : IsRecord(Area, q) => q.off \in Nat
    BY <1>1, RecordFacts
  <2> QED BY <1>1, <2>1, <2>2, RecordsAre
<1>4. BehindHole(Records) = {}
  <2> SUFFICES ASSUME NEW r \in Records, r.off > EndBefore(Records, r.off) PROVE FALSE
    BY DEF BehindHole
  <2>1. PICK x : x = r.off /\ x \in Nat
    BY <1>3
  <2>2. /\ EndBefore(Records, x) \in Nat /\ FirstOffset <= EndBefore(Records, x)
        /\ \A o \in Objects : o < x => o + ObjectSize(o) <= EndBefore(Records, x)
    BY <1>1, <2>1, EndFacts
  <2>3. FirstOffset < x
    BY <1>1, <2>1, <2>2, FirstFacts, Numbers
  <2>4. x \in Objects
    BY <1>1, <2>1, <2>3, BehindFacts, RecordFacts, AreaIs
  <2>5. PICK q \in Objects : q < x /\ q + ObjectSize(q) = x
    BY <1>1, <2>1, <2>3, <2>4, FirstFacts, Numbers DEF Packed
  <2> QED BY <2>1, <2>2, <2>5
<1>5. EndBefore(Records, DataSize + 1) = bytes_used
  <2>1. DataSize + 1 \in Nat /\ \A o \in Objects : o < DataSize + 1
    BY <1>1, <1>2, Numbers DEF Offset
  <2>2. PICK e : e = EndBefore(Records, DataSize + 1)
    OBVIOUS
  <2>3. /\ e \in Nat /\ FirstOffset <= e /\ \A o \in Objects : o + ObjectSize(o) <= e
        /\ e = FirstOffset \/ \E o \in Objects : o + ObjectSize(o) = e
    BY <1>1, <2>1, <2>2, EndFacts
  <2>4. e <= bytes_used
    BY <1>1, <1>2, <2>3, FirstFacts
  <2>5. bytes_used <= e
    BY <1>1, <2>3 DEF Packed
  <2> QED BY <1>1, <2>2, <2>3, <2>4, <2>5 DEF Offset
<1>6. Holes(Records) = {}
  BY <1>4, <1>5 DEF Holes
<1>7. {r.off : r \in Records \ BackupRecord} = Objects
  <2>1. \A r \in Records \ BackupRecord : r.off \in Objects
    <3>1. RootRecord.off = 0 /\ 0 \in Objects
      BY <1>1, AreaIs DEF RootRecord, CompactRecord, Sound, Sorts, Things
    <3>2. \A r : IsRecord(Area, r) => r.off \in Objects
      BY <1>1, RecordFacts, AreaIs
    <3> QED BY <1>1, <3>1, <3>2, RecordsAre
  <2>2. \A o \in Objects : \E r \in Records \ BackupRecord : r.off = o
    <3>1. RootRecord.off = 0 /\ RootRecord \in Records \ BackupRecord
      <4>1. RootRecord.off = 0 /\ \A r \in BackupRecord : r.off = 20
        BY <1>1, FirstFacts, Numbers DEF RootRecord, CompactRecord
      <4> QED BY <1>1, <4>1, RecordsAre
    <3>2. \A r : IsRecord(Area, r) => r \in Records \ BackupRecord
      <4>1. \A r \in BackupRecord : r.field = "none"
        BY DEF BackupRecord, CompactRecord
      <4>2. \A r : IsRecord(Area, r) => r.field # "none"
        BY DEF IsRecord, NodeRecord, InfoRecord, LongRecord, Links
      <4> QED BY <1>1, <4>1, <4>2, RecordsAre
    <3>3. \A o \in Objects : o # 0 => \E r : IsRecord(Area, r) /\ r.off = o
      BY <1>1, HasRecord, AreaIs
    <3> QED BY <3>1, <3>2, <3>3
  <2> QED BY <2>1, <2>2
<1> QED BY <1>6, <1>7

\* Also while objects move, the area is a heap but for the distances to long values.
LEMMA AlwaysHeap == CInv => TypeOK /\ TrieAscends /\ OwnersAscend /\ NoOverlap
<1> SUFFICES ASSUME CInv PROVE TypeOK /\ TrieAscends /\ OwnersAscend /\ NoOverlap
  OBVIOUS
<1>1. CASE pc # "move"
  BY <1>1 DEF CInv, Inv, Heap, TypeOK
<1>2. CASE pc = "move"
  <2>1. PICK h, b : Ready(h, b) /\ Image(h)
    BY <1>2 DEF CInv, Moving
  <2>2. Sorts(Area) /\ Tree(Area) /\ Props(Area) /\ Spaced(Area) /\ bytes_used \in Offset
    BY <2>1, ImageSorts, ImageTree, ImageRoots DEF Ready
  <2>3. TypeOK
    BY <2>2, AreaIs DEF CInv, TypeOK, AreaTypeOK, Sorts
  <2>4. TrieAscends /\ OwnersAscend /\ NoOverlap
    BY <2>2, AreaIs DEF Tree, Props, Spaced, TrieAscends, OwnersAscend, NoOverlap
  <2> QED BY <2>3, <2>4
<1> QED BY <1>1, <1>2

-------------------------------------------------------------------------------
\* The invariant holds of every area, whatever is set, deleted and compacted in it, and
\* in the middle of a compaction too.
THEOREM CompactInvariance == CSpec => []CInv
<1> QED BY InitCInv, NextCInv, PTL DEF CSpec

\* compact_allocations keeps every offset inside data_[], also those it writes while
\* objects are still at their old places.
THEOREM CompactTyped == CSpec => []TypeOK
<1> QED BY CompactInvariance, AlwaysHeap, PTL

\* No copy of compact_allocations overwrites an object that has not moved yet: no two
\* objects share a byte before, between and after the moves.
THEOREM CompactApart == CSpec => []NoOverlap
<1> QED BY CompactInvariance, AlwaysHeap, PTL

\* After each move the links of the trie lead to nodes that are there, up the area: the
\* link to what moved is patched in its referer's new place.
THEOREM CompactLinksLead == CSpec => []TrieAscends
<1> QED BY CompactInvariance, AlwaysHeap, PTL

\* So do the links from the nodes to their prop_infos.
THEOREM CompactOwnersLead == CSpec => []OwnersAscend
<1> QED BY CompactInvariance, AlwaysHeap, PTL

\* Whatever sequence of sets, deletes, failures and compactions an area has been
\* through, between two of them each object has exactly one referer and is reached from
\* the root: prune_trie and wipe_prop_info leave nothing behind.
THEOREM NothingOrphaned == CSpec => []EveryObjectOwned
<1> QED BY CompactInvariance, OwnedAll, PTL

\* The serial that set_property publishes tells the layout of the value, also after the
\* value was replaced in place, replaced by one of the other layout, or moved.
THEOREM SerialsTellLayout == CSpec => []SerialTellsLayout
<1> QED BY CompactInvariance, SerialsTell, PTL

\* After compact_allocations, whichever way it ended, scan_allocations finds no hole
\* between the objects or behind them, and has a record of each.
THEOREM CompactPacks == CSpec => []CompactLeavesNoHole
<1> QED BY CompactInvariance, NoHole, PTL
===============================================================================
