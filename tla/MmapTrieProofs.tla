----------------------------- MODULE MmapTrieProofs -----------------------------
(***************************************************************************)
(* What the live trie keeps true whatever its size, the keys, the values,  *)
(* the number of writers and how often one of them is killed: proofs about *)
(* MmapTrie.                                                               *)
(***************************************************************************)
EXTENDS MmapTrie, SequenceTheorems, TLAPS

LEMMA AlignUp ==
  ASSUME NEW m \in Nat, NEW n \in Nat
  PROVE  /\ align_up(n) \in Nat /\ n <= align_up(n)
         /\ m <= n => align_up(m) <= align_up(n)
         /\ m <= align_up(n) => align_up(m) <= align_up(n)
  BY DEF align_up

\* Every object takes at least a byte, and what is wiped takes no more than before.
LEMMA NodeSizes ==
  ASSUME NEW name, name.len \in Nat
  PROVE  NodeSize(name) \in Nat /\ NodeSize(name) > 0 /\ NodeSize(RootName) <= NodeSize(name)
<1> DEFINE n == PROP_TRIE_NODE_HEADER_SIZE + (IF name.len = 0 THEN 0 ELSE name.len + 1)
           m == PROP_TRIE_NODE_HEADER_SIZE
<1>1. n \in Nat /\ m \in Nat /\ m > 0 /\ m <= n
  BY DEF PROP_TRIE_NODE_HEADER_SIZE
<1>2. align_up(n) \in Nat /\ align_up(m) \in Nat /\ m <= align_up(m) /\ align_up(m) <= align_up(n)
  BY ONLY <1>1, AlignUp
<1>3. NodeSize(RootName) = align_up(m)
  BY DEF NodeSize, RootName, align_up, PROP_TRIE_NODE_HEADER_SIZE
<1> QED
  BY <1>1, <1>2, <1>3 DEF NodeSize

LEMMA KeySizes ==
  ASSUME NEW key \in Keys
  PROVE  InfoSize(key) \in Nat /\ InfoSize(key) > 0 /\ PROP_INFO_SIZE <= InfoSize(key) /\ key # <<>>
<1> DEFINE n == PROP_INFO_SIZE + KeyLen[key] + 1
<1>1. n \in Nat /\ PROP_INFO_SIZE \in Nat /\ PROP_INFO_SIZE > 0 /\ PROP_INFO_SIZE <= n
  BY KeyLenAssumption DEF PROP_INFO_SIZE
<1>2. align_up(n) \in Nat /\ n <= align_up(n)
  BY ONLY <1>1, AlignUp
<1>3. key # <<>>
  BY KeysAssumption
<1> QED
  BY <1>1, <1>2, <1>3 DEF InfoSize

LEMMA LongSizes ==
  ASSUME NEW v \in Value, NEW u \in Value
  PROVE  /\ LongSize(v) \in Nat /\ LongSize(v) > 0
         /\ u.len <= LongSize(v) - 1 => LongSize(u) <= LongSize(v)
<1> DEFINE m == u.len + 1
           n == v.len + 1
<1>1. m \in Nat /\ n \in Nat /\ n > 0
  BY DEF Value
<1>2. align_up(n) \in Nat /\ n <= align_up(n) /\ (m <= align_up(n) => align_up(m) <= align_up(n))
  BY ONLY <1>1, AlignUp
<1>3. u.len <= align_up(n) - 1 => m <= align_up(n)
  BY <1>1, <1>2 DEF Value
<1> QED
  BY <1>1, <1>2, <1>3 DEF LongSize

-------------------------------------------------------------------------------
(***************************************************************************)
(* The inductive invariant.                                                *)
(***************************************************************************)
\* What lies in data_[]: the nodes, the prop_infos, and the long value of a prop_info
\* that has one, each from its start to its end.
Kinds == {"node", "info", "long"}
Held(k) == IF k = "node" THEN DOMAIN node
           ELSE IF k = "info" THEN DOMAIN info ELSE {p \in DOMAIN info : info[p].rel # 0}
Start(k, o) == IF k = "long" THEN o + info[o].rel ELSE o
KeySize(key) == IF key = <<>> THEN PROP_INFO_SIZE ELSE InfoSize(key)
Size(k, o) == IF k = "node" THEN NodeSize(node[o].name)
              ELSE IF k = "info" THEN KeySize(info[o].key) ELSE LongSize(info[o].val)
End(k, o) == Start(k, o) + Size(k, o)

Spread ==
  \A k, l \in Kinds : \A o \in Held(k), q \in Held(l) :
    /\ End(k, o) <= bytes_used
    /\ k # l \/ o # q => End(k, o) <= Start(l, q) \/ End(l, q) <= Start(k, o)

AreaType ==
  /\ bytes_used \in Offset /\ 0 \in DOMAIN node
  /\ DOMAIN node \subseteq Offset /\ node \in [DOMAIN node -> Node]
  /\ DOMAIN info \subseteq Offset /\ info \in [DOMAIN info -> Info]

\* The single writer: whoever is in a call is alone in it.
OneCall == \A v, w \in Writers : v # w => wr[v] = Idle \/ wr[w] = Idle

\* What a call may rely on, wherever it stands: x is its record.
Pruning == {"prune", "prune_header", "prune_unlink"}
Stands(x) ==
  /\ x.pc = "idle" => x = Idle
  /\ x.pc # "idle" => x.key \in Keys /\ x.op # "none" /\ x.cur \in DOMAIN node
  /\ x.pc \in {"sibling", "new_node", "link"} => x.depth < Len(x.key)
  /\ x.pc \in {"new_node", "link", "new_info", "alloc_long", "new_long", "publish"} => x.op = "upsert"
  /\ x.pc \in Pruning \cup {"wipe"} => x.op = "remove"

\* What was allocated is still free, and what is not linked yet is there.
Allocated(x) ==
  /\ x.pc \in {"new_node", "new_info", "new_long"} => x.room = bytes_used
  /\ x.pc = "new_node" => x.room + NodeSize(x.key[x.depth + 1]) <= DataSize
  /\ x.pc = "new_info" => x.room + InfoSize(x.key) <= DataSize
  /\ x.pc = "new_long" => x.room + LongSize(x.val) <= DataSize
  /\ x.pc = "link" => x.fresh \in DOMAIN node /\ x.cur < x.fresh
  /\ x.pc \in {"alloc_long", "new_long", "publish"} => x.fresh \in DOMAIN info /\ x.cur < x.fresh
  /\ x.pc \in {"alloc_long", "new_long"} =>
       /\ info[x.fresh].rel = 0 /\ x.fresh + InfoSize(x.key) <= bytes_used
       /\ \A k \in Kinds : \A o \in Held(k) : k # "info" \/ o # x.fresh => End(k, o) <= x.fresh
  /\ x.pc = "wipe" => x.fresh \in DOMAIN info

\* The frames of prune_trie lead from node to node, up the area: all but the last one
\* stand at the link they went down.
Leads(p, trie) ==
  /\ Len(p) > 0
  /\ \A i \in DOMAIN p : p[i].at \in DOMAIN trie
  /\ \A i, j \in DOMAIN p : i < j =>
       /\ p[i].at < p[j].at /\ p[i].link \in 1..3
       /\ j = i + 1 => trie[p[i].at].link[Order[p[i].link]] = p[j].at
Path(x) ==
  x.pc \in Pruning =>
    /\ Leads(x.path, node)
    /\ x.pc = "prune_unlink" => Len(x.path) > 1

Walker == \A w \in Writers : wr[w] \in CallRecord /\ Stands(wr[w]) /\ Allocated(wr[w]) /\ Path(wr[w])

Reader ==
  /\ rd \in LookupRecord /\ rd.cur \in DOMAIN node
  /\ rd.at # "idle" => rd.key \in Keys
  /\ rd.at \in {"sibling", "load"} => rd.depth < Len(rd.key)

Counted == kills \in Nat /\ ret \in {"pending", "ok", "removed", "absent", "full", "too_long", "killed"}

Inv == AreaType /\ Spread /\ LinksLead /\ OneCall /\ wr \in [Writers -> CallRecord] /\ Walker /\ Reader /\ Counted

-------------------------------------------------------------------------------
(***************************************************************************)
(* Objects and the room they take.                                         *)
(***************************************************************************)
LEMMA Typed ==
  ASSUME AreaType
  PROVE  /\ \A o \in DOMAIN node : /\ node[o] \in Node /\ o \in Offset /\ node[o].name.len \in Nat
                                   /\ node[o].prop \in Offset
                                   /\ \A f \in Links : node[o].link[f] \in Offset
         /\ \A p \in DOMAIN info : /\ info[p] \in Info /\ p \in Offset /\ info[p].rel \in Nat
                                   /\ info[p].key \in Keys \cup {<<>>} /\ info[p].val \in Value
         /\ bytes_used \in Nat /\ bytes_used <= DataSize /\ DataSize \in Nat
         /\ \A n \in Offset : n \in Nat /\ n <= DataSize
<1>1. ASSUME NEW o \in DOMAIN node
      PROVE  /\ node[o] \in Node /\ o \in Offset /\ node[o].name.len \in Nat
             /\ node[o].prop \in Offset /\ \A f \in Links : node[o].link[f] \in Offset
  <2>1. node[o] \in Node /\ o \in Offset
    BY DEF AreaType
  <2>2. node[o].name \in Name
    BY <2>1 DEF Node
  <2>3. node[o].name.len \in Nat
    BY <2>2, DataSizeAssumption DEF Name, Segment, Offset
  <2> QED
    BY <2>1, <2>3 DEF Node
<1>2. ASSUME NEW p \in DOMAIN info
      PROVE  /\ info[p] \in Info /\ p \in Offset /\ info[p].rel \in Nat
             /\ info[p].key \in Keys \cup {<<>>} /\ info[p].val \in Value
  BY DataSizeAssumption DEF AreaType, Info, Offset
<1>3. \A n \in Offset : n \in Nat /\ n <= DataSize
  BY DataSizeAssumption DEF Offset
<1> QED
  BY <1>1, <1>2, <1>3, DataSizeAssumption DEF AreaType

LEMMA Objects ==
  ASSUME AreaType, Spread, NEW k \in Kinds, NEW o \in Held(k)
  PROVE  /\ Start(k, o) \in Nat /\ Size(k, o) \in Nat /\ Size(k, o) > 0 /\ o <= Start(k, o)
         /\ End(k, o) \in Nat /\ End(k, o) <= bytes_used /\ o < End(k, o)
<1>1. CASE k = "node"
  <2>1. o \in Nat /\ NodeSize(node[o].name) \in Nat /\ NodeSize(node[o].name) > 0
    BY <1>1, Typed, NodeSizes DEF Held
  <2> QED
    BY <1>1, <2>1 DEF Start, Size, End, Spread
<1>2. CASE k = "info"
  <2>1. o \in Nat /\ KeySize(info[o].key) \in Nat /\ KeySize(info[o].key) > 0
    BY <1>2, Typed, KeySizes DEF Held, KeySize, PROP_INFO_SIZE
  <2> QED
    BY <1>2, <2>1 DEF Start, Size, End, Spread
<1>3. CASE k = "long"
  <2>1. o \in Nat /\ info[o].rel \in Nat /\ LongSize(info[o].val) \in Nat /\ LongSize(info[o].val) > 0
    BY <1>3, Typed, LongSizes DEF Held
  <2> QED
    BY <1>3, <2>1 DEF Start, Size, End, Spread
<1> QED
  BY <1>1, <1>2, <1>3 DEF Kinds

LEMMA Below ==
  ASSUME AreaType, Spread
  PROVE  /\ \A o \in DOMAIN node : o \in Nat /\ o < bytes_used
         /\ \A p \in DOMAIN info : p \in Nat /\ p < bytes_used
<1>1. ASSUME NEW k \in {"node", "info"}, NEW o \in Held(k) PROVE o \in Nat /\ o < bytes_used
  <2>1. k \in Kinds /\ Start(k, o) = o
    BY DEF Kinds, Start
  <2>2. Start(k, o) \in Nat /\ End(k, o) \in Nat /\ End(k, o) <= bytes_used /\ o < End(k, o)
    BY <2>1, Objects
  <2> QED
    BY <2>1, <2>2, Typed
<1> QED
  BY <1>1 DEF Held

\* A step that writes the object o of kind k above all others, or none, and lets the
\* others shrink or go, leaves them apart.
LEMMA SpreadKept ==
  ASSUME AreaType, Spread, NEW k, NEW o, bytes_used' \in Nat, bytes_used <= bytes_used',
         \A l \in Kinds : \A q \in Held(l)' : l # k \/ q # o =>
           /\ q \in Held(l) /\ Start(l, q)' = Start(l, q)
           /\ Size(l, q)' \in Nat /\ Size(l, q)' <= Size(l, q)
           /\ k \in Kinds /\ o \in Held(k)' => End(l, q) <= Start(k, o)',
         k \in Kinds /\ o \in Held(k)' => /\ Start(k, o)' \in Nat /\ Size(k, o)' \in Nat
                                         /\ End(k, o)' <= bytes_used'
  PROVE  Spread'
<1> SUFFICES ASSUME NEW l \in Kinds, NEW m \in Kinds, NEW q \in Held(l)', NEW r \in Held(m)'
             PROVE  /\ End(l, q)' <= bytes_used'
                    /\ l # m \/ q # r => End(l, q)' <= Start(m, r)' \/ End(m, r)' <= Start(l, q)'
  BY DEF Spread
<1>1. ASSUME NEW j \in Kinds, NEW p \in Held(j)', j # k \/ p # o
      PROVE  /\ p \in Held(j) /\ Start(j, p)' = Start(j, p) /\ Start(j, p) \in Nat
             /\ End(j, p)' \in Nat /\ End(j, p)' <= End(j, p) /\ End(j, p) \in Nat
             /\ End(j, p) <= bytes_used
             /\ k \in Kinds /\ o \in Held(k)' => End(j, p) <= Start(k, o)'
  BY <1>1, Objects DEF End
<1>2. bytes_used \in Nat
  BY Typed
<1>3. ASSUME l # k \/ q # o PROVE End(l, q)' <= bytes_used'
  BY <1>1, <1>2, <1>3
<1>4. CASE (l # k \/ q # o) /\ (m # k \/ r # o)
  <2>1. l # m \/ q # r => End(l, q) <= Start(m, r) \/ End(m, r) <= Start(l, q)
    BY <1>1, <1>4 DEF Spread
  <2> QED
    BY <1>1, <1>3, <1>4, <2>1
<1>5. CASE ~(l # k \/ q # o) /\ (m # k \/ r # o)
  BY <1>1, <1>5
<1>6. CASE (l # k \/ q # o) /\ ~(m # k \/ r # o)
  BY <1>1, <1>3, <1>6
<1>7. CASE ~(l # k \/ q # o) /\ ~(m # k \/ r # o)
  BY <1>7
<1> QED
  BY <1>4, <1>5, <1>6, <1>7

-------------------------------------------------------------------------------
(***************************************************************************)
(* Calls.                                                                  *)
(***************************************************************************)
LEMMA IdleStands ==
  Idle \in CallRecord /\ Stands(Idle) /\ Allocated(Idle) /\ Path(Idle)
<1>1. Idle \in CallRecord
  BY DataSizeAssumption DEF Idle, CallRecord, Places, NoValue, Value, Offset, Links
<1> QED
  BY <1>1 DEF Idle, Stands, Allocated, Path, Pruning

LEMMA IdleStandsNext == Stands(Idle)' /\ Allocated(Idle)' /\ Path(Idle)'
  BY DEF Idle, Stands, Allocated, Path, Pruning

\* The record of a call, where only its writer moves.
LEMMA CallStep ==
  ASSUME OneCall, wr \in [Writers -> CallRecord], NEW w \in Writers, \A v \in Writers \ {w} : wr[v] = Idle,
         NEW c \in CallRecord, wr' = [wr EXCEPT ![w] = c],
         Stands(c)', Allocated(c)', Path(c)'
  PROVE  OneCall' /\ wr' \in [Writers -> CallRecord] /\ Walker'
<1>1. \A v \in Writers : wr'[v] = IF v = w THEN c ELSE Idle
  OBVIOUS
<1>2. wr' \in [Writers -> CallRecord]
  OBVIOUS
<1>3. OneCall'
  BY <1>1 DEF OneCall
<1>4. Walker'
  BY <1>1, IdleStands, IdleStandsNext DEF Walker
<1> QED
  BY <1>2, <1>3, <1>4

LEMMA Alone ==
  ASSUME Inv, NEW w \in Writers, wr[w].pc # "idle"
  PROVE  /\ \A v \in Writers \ {w} : wr[v] = Idle
         /\ wr[w] \in CallRecord /\ Stands(wr[w]) /\ Allocated(wr[w]) /\ Path(wr[w])
<1>1. wr[w] # Idle
  BY DEF Idle
<1> QED
  BY <1>1 DEF Inv, OneCall, Walker

\* What a reader holds stays.
LEMMA ReaderKept ==
  ASSUME Reader, rd' = rd, DOMAIN node \subseteq DOMAIN node' PROVE Reader'
  BY DEF Reader

Rested == AreaType /\ Spread /\ LinksLead

LEMMA RestedKept ==
  ASSUME Rested, UNCHANGED area PROVE Rested'
  BY DEF Rested, area, AreaType, Spread, LinksLead, Held, Start, Size, End

\* A step of a call in terms of the record it leaves.
LEMMA Step ==
  ASSUME Inv, NEW w \in Writers, wr[w].pc # "idle", NEW c \in CallRecord, wr' = [wr EXCEPT ![w] = c],
         Rested', Stands(c)', Allocated(c)', Path(c)',
         rd' = rd, DOMAIN node \subseteq DOMAIN node', Counted'
  PROVE  Inv'
<1>1. OneCall' /\ wr' \in [Writers -> CallRecord] /\ Walker'
  BY Alone, CallStep DEF Inv
<1>2. Reader'
  BY ReaderKept DEF Inv
<1> QED
  BY <1>1, <1>2 DEF Inv, Rested

\* The calls end.
LEMMA Returns ==
  ASSUME Inv, NEW w \in Writers, wr[w].pc # "idle", UNCHANGED area, rd' = rd,
         NEW is \in {"ok", "removed", "absent", "full", "too_long", "killed"}, Return(w, is), kills' \in Nat
  PROVE  Inv'
<1>1. Rested'
  BY RestedKept DEF Inv, Rested
<1>2. wr' = [wr EXCEPT ![w] = Idle] /\ Counted' /\ node' = node
  BY DEF Return, Counted, area
<1> QED
  BY <1>1, <1>2, Step, IdleStands, IdleStandsNext

LEMMA RequestInv ==
  ASSUME Inv, NEW w \in Writers, Request(w), UNCHANGED <<kills, rd>> PROVE Inv'
<1>1. PICK op \in {"upsert", "remove"}, key \in Keys, val \in Value : Begin(w, op, key, val)
  BY ValuesAssumption DEF Request, upsert, remove_with_prune, NoValue, Value
<1> DEFINE c == [Idle EXCEPT !.pc = "descend", !.op = op, !.key = key, !.val = val]
<1>2. wr' = [wr EXCEPT ![w] = c] /\ UNCHANGED area /\ ret' = "pending"
  BY <1>1 DEF Begin
<1>3. c \in CallRecord /\ c.pc = "descend" /\ c.key = key /\ c.op = op /\ c.cur = 0
  BY IdleStands DEF Idle, CallRecord, Places
<1>4. Rested' /\ 0 \in DOMAIN node' /\ DOMAIN node' = DOMAIN node
  BY <1>2, RestedKept DEF Inv, Rested, AreaType, area
<1>5. Stands(c)' /\ Allocated(c)' /\ Path(c)'
  BY <1>3, <1>4 DEF Stands, Allocated, Path, Pruning
<1>6. \A v \in Writers \ {w} : wr[v] = Idle
  <2>1. \A v \in Writers \ {w} : wr[v].pc = "idle"
    BY <1>1 DEF Begin, SingleWriter
  <2> QED
    BY <2>1 DEF Inv, Walker, Stands
<1> HIDE DEF c
<1>7. OneCall' /\ wr' \in [Writers -> CallRecord] /\ Walker'
  BY <1>2, <1>3, <1>5, <1>6, CallStep DEF Inv
<1>8. Reader' /\ Counted'
  BY <1>2, <1>4, ReaderKept DEF Inv, Counted
<1> QED
  BY <1>4, <1>7, <1>8 DEF Inv, Rested

\* A step of a call that stores nothing in the area.
LEMMA Moves ==
  ASSUME Inv, NEW w \in Writers, wr[w].pc # "idle", UNCHANGED area, kills' = kills, rd' = rd,
         NEW c \in CallRecord, Become(w, c), Stands(c), Allocated(c), Path(c)
  PROVE  Inv'
<1>1. Rested'
  BY RestedKept DEF Inv, Rested
<1>2. wr' = [wr EXCEPT ![w] = c] /\ Counted' /\ node' = node /\ info' = info /\ bytes_used' = bytes_used
  BY DEF Become, Counted, area, Inv
<1>3. Stands(c)' /\ Allocated(c)' /\ Path(c)'
  BY <1>2 DEF Stands, Allocated, Path, Held, End, Start, Size
<1> QED
  BY <1>1, <1>2, <1>3, Step

\* What a walking call finds: its node, its target and the links are all there.
LEMMA Walks ==
  ASSUME Inv, NEW w \in Writers, Walking(w) \/ wr[w].pc = "sibling"
  PROVE  /\ wr[w].pc # "idle" /\ wr[w].key \in Keys /\ wr[w].depth < Len(wr[w].key)
         /\ wr[w].cur \in DOMAIN node /\ Target(wr[w]) \in Segment
         /\ Way(w) \in Links
         /\ LinkOf(w) # 0 => LinkOf(w) \in DOMAIN node /\ wr[w].cur < LinkOf(w)
<1>1. wr[w].pc # "idle"
  BY DEF Walking
<1>2. wr[w] \in CallRecord /\ Stands(wr[w])
  BY <1>1, Alone
<1>3. wr[w].key \in Keys /\ wr[w].cur \in DOMAIN node /\ wr[w].depth < Len(wr[w].key)
  BY <1>1, <1>2 DEF Stands, Walking
<1>4. wr[w].depth \in Nat
  BY <1>2 DEF CallRecord
<1>5. Target(wr[w]) \in Segment
  <2>1. wr[w].key \in Seq(Segment)
    BY <1>3, KeysAssumption
  <2> QED
    BY <1>3, <1>4, <2>1 DEF Target
<1>6. Way(w) \in Links
  BY DEF Way, Branch, Links
<1> QED
  BY <1>1, <1>3, <1>5, <1>6 DEF LinkOf, Inv, LinksLead

\* The record of a call that walks.
LEMMA WalkRecord ==
  ASSUME NEW c, c.pc \in {"descend", "sibling"}, c.key \in Keys, c.op # "none",
         c.cur \in DOMAIN node, c.pc = "sibling" => c.depth < Len(c.key)
  PROVE  Stands(c) /\ Allocated(c) /\ Path(c)
<1>1. Stands(c)
  BY DEF Stands, Pruning
<1> QED
  BY <1>1 DEF Allocated, Path, Pruning

LEMMA FollowInv ==
  ASSUME Inv, NEW w \in Writers, Follow(w), UNCHANGED <<kills, rd>> PROVE Inv'
<1>1. PICK x \in CallRecord : x = wr[w]
  BY DEF Inv, Walker
<1>2. PICK l \in DOMAIN node : l = LinkOf(w)
  BY Walks DEF Follow
<1> DEFINE c == [x EXCEPT !.pc = "sibling", !.cur = l]
<1>3. x.pc # "idle" /\ x.key \in Keys /\ x.depth < Len(x.key)
  BY <1>1, Walks DEF Follow
<1>4. Stands(x)
  BY <1>1, <1>3, Alone
<1>5. l \in Offset
  BY DEF Inv, AreaType
<1>6. c \in CallRecord
  BY <1>5 DEF CallRecord, Places
<1>7. c.pc = "sibling" /\ c.key = x.key /\ c.op = x.op /\ c.cur = l /\ c.depth = x.depth
  BY DEF CallRecord
<1>8. Become(w, c) /\ UNCHANGED area
  BY <1>1, <1>2 DEF Follow
<1> HIDE DEF c
<1>9. Stands(c) /\ Allocated(c) /\ Path(c)
  BY <1>3, <1>4, <1>7, WalkRecord DEF Stands
<1> QED
  BY <1>1, <1>3, <1>6, <1>8, <1>9, Moves

LEMMA MatchInv ==
  ASSUME Inv, NEW w \in Writers, Match(w), UNCHANGED <<kills, rd>> PROVE Inv'
<1>1. PICK x \in CallRecord : x = wr[w]
  BY DEF Inv, Walker
<1>d. PICK d \in Nat : d = x.depth + 1
  BY DEF CallRecord
<1> DEFINE c == [x EXCEPT !.pc = "descend", !.depth = d]
<1>2. x.pc # "idle" /\ x.key \in Keys /\ x.cur \in DOMAIN node
  BY <1>1, Walks DEF Match
<1>3. Stands(x)
  BY <1>1, <1>2, Alone
<1>4. c \in CallRecord /\ c.pc = "descend" /\ c.key = x.key /\ c.op = x.op /\ c.cur = x.cur
  BY DEF CallRecord, Places
<1>5. Become(w, c) /\ UNCHANGED area
  BY <1>1, <1>d DEF Match
<1> HIDE DEF c
<1>6. Stands(c) /\ Allocated(c) /\ Path(c)
  BY <1>2, <1>3, <1>4, WalkRecord DEF Stands
<1> QED
  BY <1>1, <1>2, <1>4, <1>5, <1>6, Moves

\* allocate: the room is checked against the size that is stored later.
LEMMA AllocateInv ==
  ASSUME Inv, NEW w \in Writers, wr[w].pc # "idle", UNCHANGED <<kills, rd>>,
         NEW size, NEW c, Allocate(w, size, c),
         \A room \in Offset : room = bytes_used /\ room + size <= DataSize =>
           LET d == [c EXCEPT !.room = room] IN
           d \in CallRecord /\ Stands(d) /\ Allocated(d) /\ Path(d)
  PROVE  Inv'
<1>1. CASE bytes_used + size <= DataSize
  <2>1. bytes_used \in Offset
    BY DEF Inv, AreaType
  <2>2. PICK d : d = [c EXCEPT !.room = bytes_used]
    OBVIOUS
  <2>3. d \in CallRecord /\ Stands(d) /\ Allocated(d) /\ Path(d)
    BY <1>1, <2>1, <2>2
  <2>4. Become(w, d) /\ UNCHANGED area
    BY <1>1, <2>2 DEF Allocate
  <2> QED
    BY <2>3, <2>4, Moves
<1>2. CASE ~(bytes_used + size <= DataSize)
  BY <1>2, Returns DEF Allocate, Inv, Counted
<1> QED
  BY <1>1, <1>2

LEMMA AllocNodeInv ==
  ASSUME Inv, NEW w \in Writers, AllocNode(w), UNCHANGED <<kills, rd>> PROVE Inv'
<1>1. PICK x \in CallRecord : x = wr[w]
  BY DEF Inv, Walker
<1>2. PICK way \in Links : way = Way(w)
  BY Walks DEF AllocNode
<1> DEFINE c == [x EXCEPT !.pc = "new_node", !.way = way]
<1>3. x.pc # "idle" /\ x.key \in Keys /\ x.depth < Len(x.key) /\ x.op = "upsert"
  BY <1>1, Walks DEF AllocNode
<1>4. Stands(x)
  BY <1>1, <1>3, Alone
<1>5. ASSUME NEW room \in Offset, room = bytes_used, room + NodeSize(Target(x)) <= DataSize
      PROVE  LET d == [c EXCEPT !.room = room] IN
             d \in CallRecord /\ Stands(d) /\ Allocated(d) /\ Path(d)
  BY <1>3, <1>4, <1>5 DEF CallRecord, Places, Stands, Allocated, Path, Pruning, Target
<1>6. Allocate(w, NodeSize(Target(x)), c)
  BY <1>1, <1>2 DEF AllocNode
<1> HIDE DEF c
<1> QED
  BY <1>1, <1>3, <1>5, <1>6, AllocateInv

\* A call that has arrived.
LEMMA Arrives ==
  ASSUME Inv, NEW w \in Writers, Arrived(w)
  PROVE  /\ wr[w].pc # "idle" /\ wr[w] \in CallRecord /\ Stands(wr[w])
         /\ wr[w].key \in Keys /\ wr[w].cur \in DOMAIN node
         /\ Slot(w) # 0 => Slot(w) \in DOMAIN info /\ wr[w].cur < Slot(w)
<1>1. wr[w].pc = "descend"
  BY DEF Arrived
<1> QED
  BY <1>1, Alone DEF Stands, Slot, Inv, LinksLead

LEMMA AllocInfoInv ==
  ASSUME Inv, NEW w \in Writers, AllocInfo(w), UNCHANGED <<kills, rd>> PROVE Inv'
<1>1. PICK x \in CallRecord : x = wr[w]
  BY DEF Inv, Walker
<1> DEFINE c == [x EXCEPT !.pc = "new_info"]
<1>2. x.pc # "idle" /\ x.key \in Keys /\ x.op = "upsert" /\ Stands(x)
  BY <1>1, Arrives DEF AllocInfo
<1>3. ASSUME NEW room \in Offset, room = bytes_used, room + InfoSize(x.key) <= DataSize
      PROVE  LET d == [c EXCEPT !.room = room] IN
             d \in CallRecord /\ Stands(d) /\ Allocated(d) /\ Path(d)
  BY <1>2, <1>3 DEF CallRecord, Places, Stands, Allocated, Path, Pruning
<1>4. Allocate(w, InfoSize(x.key), c)
  BY <1>1 DEF AllocInfo
<1> HIDE DEF c
<1> QED
  BY <1>1, <1>2, <1>3, <1>4, AllocateInv

LEMMA AllocLongInv ==
  ASSUME Inv, NEW w \in Writers, AllocLong(w), UNCHANGED <<kills, rd>> PROVE Inv'
<1>1. PICK x \in CallRecord : x = wr[w]
  BY DEF Inv, Walker
<1> DEFINE c == [x EXCEPT !.pc = "new_long"]
<1>2. x.pc = "alloc_long" /\ Stands(x) /\ Allocated(x)
  BY <1>1, Alone DEF AllocLong
<1>3. ASSUME NEW room \in Offset, room = bytes_used, room + LongSize(x.val) <= DataSize
      PROVE  LET d == [c EXCEPT !.room = room] IN
             d \in CallRecord /\ Stands(d) /\ Allocated(d) /\ Path(d)
  BY <1>2, <1>3 DEF CallRecord, Places, Stands, Allocated, Path, Pruning
<1>4. Allocate(w, LongSize(x.val), c)
  BY <1>1 DEF AllocLong
<1> HIDE DEF c
<1> QED
  BY <1>1, <1>2, <1>3, <1>4, AllocateInv

\* The calls that find nothing to do, and those whose writer dies.
LEMMA EndsInv ==
  ASSUME Inv, NEW w \in Writers, UNCHANGED rd,
         ((Miss(w) \/ NoSlot(w) \/ Done(w)) /\ UNCHANGED kills) \/ Kill(w)
  PROVE  Inv'
<1>1. kills \in Nat /\ kills' \in Nat
  BY DEF Inv, Counted, Kill
<1>2. CASE Miss(w) /\ UNCHANGED kills
  BY <1>1, <1>2, Returns DEF Miss, Walking
<1>3. CASE NoSlot(w) /\ UNCHANGED kills
  BY <1>1, <1>3, Returns DEF NoSlot, Arrived
<1>4. CASE Done(w) /\ UNCHANGED kills
  <2>1. PICK is \in {"ok", "removed"} : Return(w, is)
    BY <1>4 DEF Done
  <2> QED
    BY <1>1, <1>4, <2>1, Returns DEF Done
<1>5. CASE Kill(w)
  BY <1>1, <1>5, Returns DEF Kill
<1> QED
  BY <1>2, <1>3, <1>4, <1>5

-------------------------------------------------------------------------------
(***************************************************************************)
(* The steps that store something.                                         *)
(***************************************************************************)
\* A node is rewritten in place and takes no more room than before.
LEMMA Rewrite ==
  ASSUME AreaType, Spread, NEW o \in DOMAIN node, NEW n \in Node,
         NodeSize(n.name) \in Nat, NodeSize(n.name) <= NodeSize(node[o].name),
         node' = [node EXCEPT ![o] = n], UNCHANGED <<bytes_used, info>>
  PROVE  /\ AreaType' /\ Spread' /\ DOMAIN node' = DOMAIN node
         /\ \A q \in DOMAIN node : node'[q] = IF q = o THEN n ELSE node[q]
<1>1. DOMAIN node' = DOMAIN node /\ \A q \in DOMAIN node : node'[q] = IF q = o THEN n ELSE node[q]
  OBVIOUS
<1>2. AreaType'
  BY <1>1 DEF AreaType
<1>3. Spread'
  <2>1. ASSUME NEW l \in Kinds, NEW q \in Held(l)'
        PROVE  /\ q \in Held(l) /\ Start(l, q)' = Start(l, q)
               /\ Size(l, q)' \in Nat /\ Size(l, q)' <= Size(l, q)
    <3>1. CASE l = "node"
      <4>1. q \in DOMAIN node /\ Size(l, q) = NodeSize(node[q].name) /\ Size(l, q)' = NodeSize(node'[q].name)
        BY <3>1, <1>1 DEF Held, Size
      <4>2. Size(l, q) \in Nat
        BY <3>1, <4>1, Objects DEF Held
      <4>3. Held(l) = DOMAIN node /\ Start(l, q)' = q /\ Start(l, q) = q
        BY <3>1 DEF Held, Start
      <4> QED
        BY <1>1, <4>1, <4>2, <4>3
    <3>2. CASE l # "node"
      <4>1. q \in Held(l) /\ Start(l, q)' = Start(l, q) /\ Size(l, q)' = Size(l, q)
        BY <3>2 DEF Held, Start, Size
      <4> QED
        BY <4>1, Objects
    <3> QED
      BY <3>1, <3>2
  <2>2. "none" \notin Kinds
    BY DEF Kinds
  <2>3. bytes_used' = bytes_used /\ bytes_used \in Nat
    BY Typed
  <2> QED
    BY <2>1, <2>2, <2>3, SpreadKept
<1> QED
  BY <1>1, <1>2, <1>3

\* A prop_info is rewritten in place: it keeps its name or loses it, and it keeps its
\* long value, no longer than before, or loses it.
LEMMA RewriteInfo ==
  ASSUME AreaType, Spread, NEW p \in DOMAIN info, NEW i \in Info,
         i.key = info[p].key \/ i.key = <<>>,
         i.rel = 0 \/ (i.rel = info[p].rel /\ LongSize(i.val) <= LongSize(info[p].val)),
         info' = [info EXCEPT ![p] = i], UNCHANGED <<bytes_used, node>>
  PROVE  /\ AreaType' /\ Spread' /\ DOMAIN info' = DOMAIN info
         /\ \A q \in DOMAIN info : info'[q] = IF q = p THEN i ELSE info[q]
<1>1. DOMAIN info' = DOMAIN info /\ \A q \in DOMAIN info : info'[q] = IF q = p THEN i ELSE info[q]
  OBVIOUS
<1>2. AreaType'
  BY <1>1 DEF AreaType
<1>3. Spread'
  <2>1. ASSUME NEW l \in Kinds, NEW q \in Held(l)'
        PROVE  /\ q \in Held(l) /\ Start(l, q)' = Start(l, q)
               /\ Size(l, q)' \in Nat /\ Size(l, q)' <= Size(l, q)
    <3>1. CASE l = "node"
      <4>1. q \in Held(l) /\ Start(l, q)' = Start(l, q) /\ Size(l, q)' = Size(l, q)
        BY <3>1 DEF Held, Start, Size
      <4> QED
        BY <4>1, Objects
    <3>2. CASE l = "info"
      <4>1. /\ q \in Held(l) /\ Start(l, q)' = Start(l, q)
            /\ Size(l, q) = KeySize(info[q].key) /\ Size(l, q)' = KeySize(info'[q].key)
        BY <3>2, <1>1 DEF Held, Start, Size
      <4>2. KeySize(info[q].key) \in Nat /\ KeySize(<<>>) \in Nat /\ KeySize(<<>>) <= KeySize(info[q].key)
        <5>1. info[q].key \in Keys \cup {<<>>}
          BY <3>2, <4>1, Typed DEF Held
        <5> QED
          BY <5>1, KeySizes DEF KeySize, PROP_INFO_SIZE
      <4>3. info'[q].key = info[q].key \/ info'[q].key = <<>>
        BY <1>1, <3>2, <4>1 DEF Held
      <4> QED
        BY <4>1, <4>2, <4>3
    <3>3. CASE l = "long"
      <4>1. q \in DOMAIN info /\ info'[q].rel # 0
        BY <3>3, <1>1 DEF Held
      <4>2. /\ info[q].rel = info'[q].rel /\ q \in Held(l) /\ Start(l, q)' = Start(l, q)
            /\ Size(l, q) = LongSize(info[q].val) /\ Size(l, q)' = LongSize(info'[q].val)
        BY <3>3, <4>1, <1>1 DEF Held, Start, Size
      <4>3. LongSize(info'[q].val) \in Nat /\ LongSize(info[q].val) \in Nat
        <5>1. info'[q].val \in Value /\ info[q].val \in Value
          BY <4>1, <1>1, Typed DEF Info
        <5> QED
          BY <5>1, LongSizes
      <4>4. LongSize(info'[q].val) <= LongSize(info[q].val)
        BY <1>1, <4>1, <4>3
      <4> QED
        BY <4>2, <4>3, <4>4
    <3> QED
      BY <3>1, <3>2, <3>3 DEF Kinds
  <2>2. "none" \notin Kinds
    BY DEF Kinds
  <2>3. bytes_used' = bytes_used /\ bytes_used \in Nat
    BY Typed
  <2> QED
    BY <2>1, <2>2, <2>3, SpreadKept
<1> QED
  BY <1>1, <1>2, <1>3

LEMMA NewNodeInv ==
  ASSUME Inv, NEW w \in Writers, new_trie_node(w), UNCHANGED <<kills, rd>> PROVE Inv'
<1>1. PICK x \in CallRecord : x = wr[w]
  BY DEF Inv, Walker
<1> DEFINE t == x.key[x.depth + 1]
           n == NodeSize(t)
           new == [ZeroNode EXCEPT !.name = t]
<1>2. x.pc = "new_node" /\ Stands(x) /\ Allocated(x)
  BY <1>1, Alone DEF new_trie_node
<1>3. /\ x.key \in Keys /\ x.op = "upsert" /\ x.cur \in DOMAIN node /\ x.depth < Len(x.key)
      /\ x.room = bytes_used /\ x.room + n <= DataSize
  BY <1>2 DEF Stands, Allocated
<1>4. t \in Segment
  <2>1. x.key \in Seq(Segment) /\ x.depth \in Nat
    BY <1>3, KeysAssumption DEF CallRecord
  <2> QED
    BY <1>3, <2>1
<1>5. n \in Nat /\ n > 0
  BY <1>4, NodeSizes DEF Segment
<1>6. /\ AreaType /\ Spread /\ LinksLead
      /\ bytes_used \in Nat /\ bytes_used <= DataSize /\ DataSize \in Nat
  BY Typed DEF Inv
<1>7. /\ bytes_used' = bytes_used + n /\ node' = Put(node, x.room, new) /\ info' = info
      /\ ret' = ret /\ wr' = [wr EXCEPT ![w] = [x EXCEPT !.pc = "link", !.fresh = x.room, !.room = 0]]
  BY <1>1, <1>3 DEF new_trie_node, Store, Target, Become
<1>8. new \in Node /\ new.name = t /\ new.prop = 0 /\ \A f \in Links : new.link[f] = 0
  BY <1>4, DataSizeAssumption DEF ZeroNode, Node, Name, Offset, Links
<1> HIDE DEF t, n, new
<1>9. /\ DOMAIN node' = DOMAIN node \cup {x.room} /\ x.room \in Offset
      /\ \A o \in DOMAIN node' : node'[o] = IF o = x.room THEN new ELSE node[o]
  BY <1>5, <1>6, <1>3, <1>7 DEF Put, Offset
<1>10. AreaType'
  <2>1. bytes_used' \in Offset
    BY <1>3, <1>5, <1>6, <1>7 DEF Offset
  <2>2. \A o \in DOMAIN node' : node'[o] \in Node
    BY <1>6, <1>8, <1>9 DEF AreaType
  <2>3. node' \in [DOMAIN node' -> Node]
    BY <2>2, <1>7 DEF Put
  <2> QED
    BY <2>1, <2>3, <1>6, <1>7, <1>9 DEF AreaType
<1>11. Spread'
  <2>1. ASSUME NEW l \in Kinds, NEW q \in Held(l)', l # "node" \/ q # x.room
        PROVE  q \in Held(l) /\ Start(l, q)' = Start(l, q) /\ Size(l, q)' = Size(l, q)
    BY <2>1, <1>7, <1>9 DEF Held, Start, Size
  <2>2. Start("node", x.room)' = x.room /\ Size("node", x.room)' = n /\ End("node", x.room)' = bytes_used'
    BY <1>3, <1>7, <1>8, <1>9 DEF Start, Size, End, n
  <2>3. \A l \in Kinds : \A q \in Held(l)' : l # "node" \/ q # x.room =>
           /\ q \in Held(l) /\ Start(l, q)' = Start(l, q)
           /\ Size(l, q)' \in Nat /\ Size(l, q)' <= Size(l, q)
           /\ End(l, q) <= Start("node", x.room)'
    BY <2>1, <2>2, <1>3, <1>6, Objects
  <2> QED
    BY <2>2, <2>3, <1>3, <1>5, <1>6, <1>7, SpreadKept
<1>12. LinksLead'
  BY <1>6, <1>7, <1>8, <1>9 DEF LinksLead
<1>13. PICK c : c = [x EXCEPT !.pc = "link", !.fresh = x.room, !.room = 0]
  OBVIOUS
<1>14. c \in CallRecord
  <2>1. 0 \in Offset
    BY DataSizeAssumption DEF Offset
  <2> QED
    BY <2>1, <1>9, <1>13 DEF CallRecord, Places
<1>15. /\ c.pc = "link" /\ c.key = x.key /\ c.op = x.op /\ c.cur = x.cur /\ c.depth = x.depth
       /\ c.fresh = x.room
  BY <1>13 DEF CallRecord
<1>16. Stands(c)'
  BY <1>3, <1>9, <1>15 DEF Stands, Pruning
<1>17. Allocated(c)' /\ Path(c)'
  <2>1. x.cur < x.room
    BY <1>3, <1>6, Below
  <2> QED
    BY <2>1, <1>9, <1>15 DEF Allocated, Path, Pruning
<1>18. Counted'
  BY <1>7 DEF Inv, Counted
<1> QED
  BY <1>1, <1>2, <1>7, <1>9, <1>10, <1>11, <1>12, <1>13, <1>14, <1>16, <1>17, <1>18, Step DEF Rested

LEMMA LinkNodeInv ==
  ASSUME Inv, NEW w \in Writers, LinkNode(w), UNCHANGED <<kills, rd>> PROVE Inv'
<1>1. PICK x \in CallRecord : x = wr[w]
  BY DEF Inv, Walker
<1>2. x.pc = "link" /\ Stands(x) /\ Allocated(x)
  BY <1>1, Alone DEF LinkNode
<1>3. /\ x.key \in Keys /\ x.op = "upsert" /\ x.cur \in DOMAIN node /\ x.depth < Len(x.key)
      /\ x.fresh \in DOMAIN node /\ x.cur < x.fresh
  BY <1>2 DEF Stands, Allocated
<1>4. AreaType /\ Spread /\ LinksLead
  BY DEF Inv
<1>5. /\ node[x.cur] \in Node /\ node[x.cur].name.len \in Nat /\ x.way \in Links /\ x.fresh \in Offset
      /\ DOMAIN node[x.cur].link = Links
  BY <1>3, <1>4, Typed DEF CallRecord, Node
<1>6. PICK n : n = [node[x.cur] EXCEPT !.link[x.way] = x.fresh]
  OBVIOUS
<1>7. /\ n \in Node /\ n.name = node[x.cur].name /\ n.prop = node[x.cur].prop
      /\ \A f \in Links : n.link[f] = IF f = x.way THEN x.fresh ELSE node[x.cur].link[f]
  BY <1>5, <1>6 DEF Node
<1>8. PICK d \in Nat : d = x.depth + 1
  BY DEF CallRecord
<1>9. PICK c : c = [x EXCEPT !.pc = "descend", !.cur = x.fresh, !.depth = d, !.fresh = 0, !.way = "children"]
  OBVIOUS
<1>10. /\ node' = [node EXCEPT ![x.cur] = n] /\ UNCHANGED <<bytes_used, info>>
       /\ ret' = ret /\ wr' = [wr EXCEPT ![w] = c]
  BY <1>1, <1>6, <1>8, <1>9 DEF LinkNode, Become
<1>11. /\ AreaType' /\ Spread' /\ DOMAIN node' = DOMAIN node
       /\ \A q \in DOMAIN node : node'[q] = IF q = x.cur THEN n ELSE node[q]
  <2>1. NodeSize(n.name) \in Nat /\ NodeSize(n.name) = NodeSize(node[x.cur].name)
    BY <1>5, <1>7, NodeSizes
  <2>2. NodeSize(n.name) <= NodeSize(node[x.cur].name)
    BY <2>1
  <2>3. node' = [node EXCEPT ![x.cur] = n] /\ UNCHANGED <<bytes_used, info>>
    BY <1>10
  <2> QED
    BY <2>1, <2>2, <2>3, <1>3, <1>4, <1>7, Rewrite
<1>12. LinksLead'
  BY <1>3, <1>4, <1>7, <1>10, <1>11 DEF LinksLead
<1>13. c \in CallRecord
  <2>1. 0 \in Offset
    BY DataSizeAssumption DEF Offset
  <2> QED
    BY <2>1, <1>5, <1>9 DEF CallRecord, Places, Links
<1>14. c.pc = "descend" /\ c.key = x.key /\ c.op = x.op /\ c.cur = x.fresh
  BY <1>9 DEF CallRecord
<1>15. Stands(c)' /\ Allocated(c)' /\ Path(c)'
  BY <1>3, <1>11, <1>14 DEF Stands, Allocated, Path, Pruning
<1>16. Counted'
  BY <1>10 DEF Inv, Counted
<1> QED
  BY <1>1, <1>2, <1>10, <1>11, <1>12, <1>13, <1>15, <1>16, Step DEF Rested

LEMMA UpdateInv ==
  ASSUME Inv, NEW w \in Writers, update(w), UNCHANGED <<kills, rd>> PROVE Inv'
<1>1. PICK x \in CallRecord : x = wr[w]
  BY DEF Inv, Walker
<1>2. /\ x.pc # "idle" /\ Stands(x) /\ x.key \in Keys /\ x.cur \in DOMAIN node
      /\ Slot(w) \in DOMAIN info /\ x.op = "upsert"
  BY <1>1, Arrives DEF update
<1>3. CASE FitsInPlace(Slot(w), x.val)
  <2>1. PICK p \in DOMAIN info : p = Slot(w)
    BY <1>2
  <2>2. PICK i : i = [info[p] EXCEPT !.val = x.val]
    OBVIOUS
  <2>3. PICK c : c = [x EXCEPT !.pc = "done"]
    OBVIOUS
  <2>4. /\ info' = [info EXCEPT ![p] = i] /\ UNCHANGED <<bytes_used, node>>
        /\ ret' = ret /\ wr' = [wr EXCEPT ![w] = c]
    BY <1>1, <1>3, <2>1, <2>2, <2>3 DEF update, Become
  <2>5. AreaType /\ Spread /\ LinksLead /\ info[p] \in Info /\ x.val \in Value
    BY Typed DEF Inv, CallRecord
  <2>6. i \in Info /\ i.key = info[p].key /\ i.rel = info[p].rel /\ i.val = x.val
    BY <2>2, <2>5 DEF Info
  <2>7. i.rel # 0 => LongSize(i.val) <= LongSize(info[p].val)
    <3>1. ASSUME i.rel # 0 PROVE x.val.len <= LongSize(info[p].val) - 1
      BY <3>1, <1>3, <2>1, <2>6 DEF FitsInPlace
    <3>2. info[p].val \in Value
      BY <2>5 DEF Info
    <3> QED
      BY <3>1, <3>2, <2>5, <2>6, LongSizes
  <2>8. AreaType' /\ Spread' /\ DOMAIN info' = DOMAIN info /\ node' = node
    BY <2>4, <2>5, <2>6, <2>7, RewriteInfo
  <2>9. LinksLead'
    BY <2>5, <2>8 DEF LinksLead
  <2>10. c \in CallRecord /\ c.pc = "done" /\ c.key = x.key /\ c.op = x.op /\ c.cur = x.cur
    BY <2>3 DEF CallRecord, Places
  <2>11. Stands(c)' /\ Allocated(c)' /\ Path(c)'
    BY <1>2, <2>8, <2>10 DEF Stands, Allocated, Path, Pruning
  <2>12. Counted'
    BY <2>4 DEF Inv, Counted
  <2> QED
    BY <1>1, <1>2, <2>4, <2>8, <2>9, <2>10, <2>11, <2>12, Step DEF Rested
<1>4. CASE ~FitsInPlace(Slot(w), x.val)
  <2>1. Return(w, "too_long") /\ UNCHANGED area /\ kills' \in Nat
    BY <1>1, <1>4 DEF update, area, Inv, Counted
  <2> QED
    BY <1>1, <1>2, <2>1, Returns
<1> QED
  BY <1>3, <1>4

LEMMA NewInfoInv ==
  ASSUME Inv, NEW w \in Writers, new_prop_info(w), UNCHANGED <<kills, rd>> PROVE Inv'
<1>1. PICK x \in CallRecord : x = wr[w]
  BY DEF Inv, Walker
<1>2. x.pc = "new_info" /\ Stands(x) /\ Allocated(x)
  BY <1>1, Alone DEF new_prop_info
<1>3. PICK n : n = InfoSize(x.key)
  OBVIOUS
<1>4. /\ x.key \in Keys /\ x.op = "upsert" /\ x.cur \in DOMAIN node
      /\ x.room = bytes_used /\ x.room + n <= DataSize
  BY <1>2, <1>3 DEF Stands, Allocated
<1>5. n \in Nat /\ n > 0 /\ PROP_INFO_SIZE <= n /\ PROP_INFO_SIZE \in Nat
  BY <1>3, <1>4, KeySizes DEF PROP_INFO_SIZE
<1>6. /\ AreaType /\ Spread /\ LinksLead
      /\ bytes_used \in Nat /\ bytes_used <= DataSize /\ DataSize \in Nat
  BY Typed DEF Inv
<1>7. PICK i \in {ZeroInfo, FullInfo(w, 0)}, pc \in {"alloc_long", "publish"} :
        /\ (i = ZeroInfo /\ pc = "alloc_long") \/ (i = FullInfo(w, 0) /\ pc = "publish")
        /\ info' = Put(info, x.room, i)
        /\ wr' = [wr EXCEPT ![w] = [x EXCEPT !.pc = pc, !.fresh = x.room, !.room = 0]]
  BY <1>1 DEF new_prop_info, Become
<1>8. bytes_used' = bytes_used + n /\ node' = node /\ ret' = ret
  BY <1>1, <1>3, <1>4 DEF new_prop_info, Store, Become
<1>9. 0 \in Offset
  BY DataSizeAssumption DEF Offset
<1>10. i \in Info /\ i.rel = 0 /\ KeySize(i.key) \in Nat /\ KeySize(i.key) <= n
  <2>1. CASE i = ZeroInfo
    <3>1. i.key = <<>> /\ i.rel = 0 /\ i.val = NoValue
      BY <2>1 DEF ZeroInfo
    <3>2. i \in Info
      BY <2>1, <1>9 DEF ZeroInfo, NoValue, Info, Value
    <3> QED
      BY <3>1, <3>2, <1>5 DEF KeySize
  <2>2. CASE i = FullInfo(w, 0)
    <3>1. i.key = x.key /\ i.rel = 0 /\ i.val = x.val
      BY <2>2, <1>1 DEF FullInfo
    <3>2. i \in Info
      BY <2>2, <1>1, <1>4, <1>9 DEF FullInfo, Info, CallRecord
    <3>3. KeySize(i.key) = n
      BY <3>1, <1>3, <1>4, KeySizes DEF KeySize
    <3> QED
      BY <3>1, <3>2, <3>3, <1>5
  <2> QED
    BY <2>1, <2>2
<1>11. /\ DOMAIN info' = DOMAIN info \cup {x.room} /\ x.room \in Offset
       /\ \A p \in DOMAIN info' : info'[p] = IF p = x.room THEN i ELSE info[p]
  BY <1>5, <1>6, <1>4, <1>7 DEF Put, Offset
<1>12. AreaType'
  <2>1. bytes_used' \in Offset
    BY <1>4, <1>5, <1>6, <1>8 DEF Offset
  <2>2. \A p \in DOMAIN info' : info'[p] \in Info
    BY <1>6, <1>10, <1>11 DEF AreaType
  <2>3. info' \in [DOMAIN info' -> Info]
    BY <2>2, <1>7 DEF Put
  <2> QED
    BY <2>1, <2>3, <1>6, <1>8, <1>11 DEF AreaType
<1>13. \A l \in Kinds : \A q \in Held(l)' : l # "info" \/ q # x.room =>
         /\ q \in Held(l) /\ Start(l, q)' = Start(l, q)
         /\ Size(l, q)' \in Nat /\ Size(l, q)' <= Size(l, q)
         /\ End(l, q) <= x.room /\ End(l, q)' <= x.room
  <2>1. ASSUME NEW l \in Kinds, NEW q \in Held(l)', l # "info" \/ q # x.room
        PROVE  q \in Held(l) /\ Start(l, q)' = Start(l, q) /\ Size(l, q)' = Size(l, q)
    BY <2>1, <1>8, <1>10, <1>11 DEF Held, Start, Size
  <2> QED
    BY <2>1, <1>4, <1>6, Objects DEF End
<1>14. Spread'
  <2>1. Start("info", x.room)' = x.room /\ Size("info", x.room)' = KeySize(i.key)
    BY <1>11 DEF Start, Size
  <2>2. End("info", x.room)' <= bytes_used'
    BY <2>1, <1>4, <1>5, <1>6, <1>8, <1>10 DEF End
  <2> QED
    BY <2>1, <2>2, <1>4, <1>5, <1>6, <1>8, <1>10, <1>13, SpreadKept
<1>15. LinksLead'
  BY <1>6, <1>8, <1>11 DEF LinksLead
<1>16. PICK c : c = [x EXCEPT !.pc = pc, !.fresh = x.room, !.room = 0]
  OBVIOUS
<1>17. c \in CallRecord
  BY <1>7, <1>9, <1>11, <1>16 DEF CallRecord, Places
<1>18. /\ c.pc = pc /\ c.key = x.key /\ c.op = x.op /\ c.cur = x.cur /\ c.fresh = x.room
  BY <1>16 DEF CallRecord
<1>19. Stands(c)'
  BY <1>4, <1>7, <1>8, <1>18 DEF Stands, Pruning
<1>20. Path(c)'
  BY <1>7, <1>18 DEF Path, Pruning
<1>21. Allocated(c)'
  <2>1. x.cur < x.room
    BY <1>4, <1>6, Below
  <2>2. x.room + InfoSize(x.key) <= bytes_used'
    BY <1>3, <1>4, <1>5, <1>6, <1>8
  <2> QED
    BY <2>1, <2>2, <1>7, <1>10, <1>11, <1>13, <1>18 DEF Allocated
<1>22. Counted'
  BY <1>8 DEF Inv, Counted
<1> QED
  BY <1>1, <1>2, <1>7, <1>8, <1>12, <1>14, <1>15, <1>16, <1>17, <1>19, <1>20, <1>21, <1>22, Step DEF Rested

\* The prop_info gets its name and, behind everything else, its long value.
LEMMA NewLongInv ==
  ASSUME Inv, NEW w \in Writers, new_prop_info_long(w), UNCHANGED <<kills, rd>> PROVE Inv'
<1>1. PICK x \in CallRecord : x = wr[w]
  BY DEF Inv, Walker
<1>2. x.pc = "new_long" /\ Stands(x) /\ Allocated(x)
  BY <1>1, Alone DEF new_prop_info_long
<1>3. PICK n, s, p : n = InfoSize(x.key) /\ s = LongSize(x.val) /\ p = x.fresh
  OBVIOUS
<1>4. /\ x.key \in Keys /\ x.op = "upsert" /\ x.cur \in DOMAIN node /\ x.val \in Value
      /\ x.room = bytes_used /\ x.room + s <= DataSize
      /\ p \in DOMAIN info /\ x.cur < p /\ info[p].rel = 0 /\ p + n <= bytes_used
      /\ \A k \in Kinds : \A o \in Held(k) : k # "info" \/ o # p => End(k, o) <= p
  BY <1>2, <1>3 DEF Stands, Allocated, CallRecord
<1>5. /\ n \in Nat /\ n > 0 /\ s \in Nat /\ s > 0
  BY <1>3, <1>4, KeySizes, LongSizes
<1>6. /\ AreaType /\ Spread /\ LinksLead
      /\ bytes_used \in Nat /\ bytes_used <= DataSize /\ DataSize \in Nat /\ p \in Nat
  BY <1>4, Typed, Below DEF Inv
<1>7. PICK i, rel : rel = x.room - p /\ i = [key |-> x.key, val |-> x.val, rel |-> rel]
  OBVIOUS
<1>8. PICK c : c = [x EXCEPT !.pc = "publish", !.room = 0]
  OBVIOUS
<1>9. /\ bytes_used' = bytes_used + s /\ node' = node /\ info' = [info EXCEPT ![p] = i]
      /\ ret' = ret /\ wr' = [wr EXCEPT ![w] = c]
  BY <1>1, <1>3, <1>4, <1>7, <1>8 DEF new_prop_info_long, Store, Become, FullInfo
<1>10. rel \in Nat /\ rel # 0 /\ rel \in Offset /\ p + rel = bytes_used
  BY <1>4, <1>5, <1>6, <1>7 DEF Offset
<1>11. i \in Info /\ i.key = x.key /\ i.val = x.val /\ i.rel = rel
  BY <1>4, <1>7, <1>10 DEF Info
<1>12. DOMAIN info' = DOMAIN info /\ \A q \in DOMAIN info : info'[q] = IF q = p THEN i ELSE info[q]
  BY <1>4, <1>9
<1>13. AreaType'
  <2>1. bytes_used' \in Offset
    BY <1>4, <1>5, <1>6, <1>9 DEF Offset
  <2>2. info' \in [DOMAIN info -> Info]
    BY <1>6, <1>9, <1>11 DEF AreaType
  <2> QED
    BY <2>1, <2>2, <1>6, <1>9, <1>12 DEF AreaType
<1>14. Spread'
  <2>1. ASSUME NEW k \in Kinds, NEW o \in Held(k)', k = "node" \/ o # p
        PROVE  /\ Start(k, o)' = Start(k, o) /\ End(k, o)' = End(k, o) /\ o \in Held(k)
               /\ Start(k, o) \in Nat /\ End(k, o) \in Nat /\ End(k, o) <= p /\ Start(k, o) < End(k, o)
    <3>1. Start(k, o)' = Start(k, o) /\ Size(k, o)' = Size(k, o) /\ o \in Held(k)
      BY <2>1, <1>9, <1>12 DEF Held, Start, Size
    <3>2. End(k, o) <= p
      BY <3>1, <2>1, <1>4
    <3>3. Start(k, o) \in Nat /\ Size(k, o) \in Nat /\ Size(k, o) > 0
      BY <3>1, <1>6, Objects
    <3> QED
      BY <3>1, <3>2, <3>3 DEF End
  <2>2. Start("info", p)' = p /\ End("info", p)' = p + n
    BY <1>3, <1>4, <1>11, <1>12, KeySizes DEF Start, Size, End, KeySize
  <2>3. Start("long", p)' = bytes_used /\ End("long", p)' = bytes_used'
    BY <1>3, <1>4, <1>9, <1>10, <1>11, <1>12 DEF Start, Size, End
  <2> SUFFICES ASSUME NEW l \in Kinds, NEW m \in Kinds, NEW q \in Held(l)', NEW r \in Held(m)'
               PROVE  /\ End(l, q)' <= bytes_used'
                      /\ l # m \/ q # r => End(l, q)' <= Start(m, r)' \/ End(m, r)' <= Start(l, q)'
    BY DEF Spread
  <2>4. p + n <= bytes_used /\ bytes_used < bytes_used' /\ bytes_used' \in Nat
    BY <1>4, <1>5, <1>6, <1>9
  <2>5. CASE (l = "node" \/ q # p) /\ (m = "node" \/ r # p)
    <3>1. l # m \/ q # r => End(l, q) <= Start(m, r) \/ End(m, r) <= Start(l, q)
      BY <2>1, <2>5, <1>6 DEF Spread
    <3>2. End(l, q)' <= p /\ End(l, q)' \in Nat
      BY <2>1, <2>5
    <3>3. End(l, q)' <= bytes_used'
      BY <3>2, <2>4, <1>5, <1>6
    <3> QED
      BY <2>1, <2>5, <3>1, <3>3
  <2>6. CASE (l = "node" \/ q # p) /\ ~(m = "node" \/ r # p)
    <3>1. End(l, q)' <= p /\ End(l, q)' \in Nat
      BY <2>1, <2>6
    <3>2. Start(m, r)' = p \/ Start(m, r)' = bytes_used
      BY <2>2, <2>3, <2>6 DEF Kinds
    <3> QED
      BY <3>1, <3>2, <2>4, <1>5, <1>6
  <2>7. CASE ~(l = "node" \/ q # p) /\ (m = "node" \/ r # p)
    <3>1. End(m, r)' <= p /\ End(m, r)' \in Nat
      BY <2>1, <2>7
    <3>2. (Start(l, q)' = p /\ End(l, q)' = p + n) \/ (Start(l, q)' = bytes_used /\ End(l, q)' = bytes_used')
      BY <2>2, <2>3, <2>7 DEF Kinds
    <3> QED
      BY <3>1, <3>2, <2>4, <1>5, <1>6
  <2>8. CASE ~(l = "node" \/ q # p) /\ ~(m = "node" \/ r # p)
    BY <2>2, <2>3, <2>4, <2>8, <1>5, <1>6 DEF Kinds
  <2> QED
    BY <2>5, <2>6, <2>7, <2>8
<1>15. LinksLead'
  BY <1>6, <1>9, <1>12 DEF LinksLead
<1>16. c \in CallRecord
  <2>1. 0 \in Offset
    BY DataSizeAssumption DEF Offset
  <2> QED
    BY <2>1, <1>8 DEF CallRecord, Places
<1>17. c.pc = "publish" /\ c.key = x.key /\ c.op = x.op /\ c.cur = x.cur /\ c.fresh = p
  BY <1>3, <1>8 DEF CallRecord
<1>18. Stands(c)' /\ Allocated(c)' /\ Path(c)'
  BY <1>4, <1>9, <1>12, <1>17 DEF Stands, Allocated, Path, Pruning
<1>19. Counted'
  BY <1>9 DEF Inv, Counted
<1> QED
  BY <1>1, <1>2, <1>9, <1>13, <1>14, <1>15, <1>16, <1>18, <1>19, Step DEF Rested

\* add links the prop_info, remove_with_prune detaches it.
LEMMA SetProp ==
  ASSUME AreaType, Spread, LinksLead, NEW o \in DOMAIN node, NEW p \in Offset,
         p # 0 => p \in DOMAIN info /\ o < p,
         node' = [node EXCEPT ![o].prop = p], UNCHANGED <<bytes_used, info>>
  PROVE  Rested' /\ DOMAIN node' = DOMAIN node
<1>1. node[o] \in Node /\ node[o].name.len \in Nat
  BY Typed
<1>2. PICK n : n = [node[o] EXCEPT !.prop = p]
  OBVIOUS
<1>3. n \in Node /\ n.name = node[o].name /\ n.prop = p /\ n.link = node[o].link
  BY <1>1, <1>2 DEF Node
<1>4. NodeSize(n.name) \in Nat /\ NodeSize(n.name) = NodeSize(node[o].name)
  BY <1>1, <1>3, NodeSizes
<1>5. NodeSize(n.name) <= NodeSize(node[o].name)
  BY <1>4
<1>6. node' = [node EXCEPT ![o] = n]
  BY <1>2
<1>7. /\ AreaType' /\ Spread' /\ DOMAIN node' = DOMAIN node
      /\ \A q \in DOMAIN node : node'[q] = IF q = o THEN n ELSE node[q]
  BY <1>3, <1>4, <1>5, <1>6, Rewrite
<1>8. LinksLead'
  BY <1>3, <1>7 DEF LinksLead
<1> QED
  BY <1>7, <1>8 DEF Rested

LEMMA PublishInv ==
  ASSUME Inv, NEW w \in Writers, Publish(w), UNCHANGED <<kills, rd>> PROVE Inv'
<1>1. PICK x \in CallRecord : x = wr[w]
  BY DEF Inv, Walker
<1>2. x.pc = "publish" /\ Stands(x) /\ Allocated(x)
  BY <1>1, Alone DEF Publish
<1>3. /\ x.key \in Keys /\ x.op = "upsert" /\ x.cur \in DOMAIN node
      /\ x.fresh \in DOMAIN info /\ x.cur < x.fresh /\ x.fresh \in Offset
  BY <1>2 DEF Stands, Allocated, CallRecord
<1>4. PICK c : c = [x EXCEPT !.pc = "done"]
  OBVIOUS
<1>5. /\ node' = [node EXCEPT ![x.cur].prop = x.fresh] /\ UNCHANGED <<bytes_used, info>>
      /\ ret' = ret /\ wr' = [wr EXCEPT ![w] = c]
  BY <1>1, <1>4 DEF Publish, Become
<1>6. Rested' /\ DOMAIN node' = DOMAIN node
  <2>1. PICK p \in Offset : p = x.fresh
    BY <1>3
  <2> QED
    BY <2>1, <1>3, <1>5, SetProp DEF Inv
<1>7. c \in CallRecord /\ c.pc = "done" /\ c.key = x.key /\ c.op = x.op /\ c.cur = x.cur
  BY <1>4 DEF CallRecord, Places
<1>8. Stands(c)' /\ Allocated(c)' /\ Path(c)'
  BY <1>3, <1>6, <1>7 DEF Stands, Allocated, Path, Pruning
<1>9. Counted'
  BY <1>5 DEF Inv, Counted
<1> QED
  BY <1>1, <1>2, <1>5, <1>6, <1>7, <1>8, <1>9, Step

LEMMA DetachInv ==
  ASSUME Inv, NEW w \in Writers, Detach(w), UNCHANGED <<kills, rd>> PROVE Inv'
<1>1. PICK x \in CallRecord : x = wr[w]
  BY DEF Inv, Walker
<1>2. PICK p \in DOMAIN info : p = Slot(w)
  BY Arrives DEF Detach
<1>3. /\ x.pc # "idle" /\ Stands(x) /\ x.key \in Keys /\ x.op = "remove" /\ x.cur \in DOMAIN node
  BY <1>1, Arrives DEF Detach
<1>4. PICK c : c = [x EXCEPT !.pc = "wipe", !.fresh = p]
  OBVIOUS
<1>5. /\ node' = [node EXCEPT ![x.cur].prop = 0] /\ UNCHANGED <<bytes_used, info>>
      /\ ret' = ret /\ wr' = [wr EXCEPT ![w] = c]
  BY <1>1, <1>2, <1>4 DEF Detach, Become
<1>6. Rested' /\ DOMAIN node' = DOMAIN node
  <2>1. 0 \in Offset
    BY DataSizeAssumption DEF Offset
  <2> QED
    BY <2>1, <1>3, <1>5, SetProp DEF Inv
<1>7. c \in CallRecord
  <2>1. p \in Offset
    BY Typed DEF Inv
  <2> QED
    BY <2>1, <1>4 DEF CallRecord, Places
<1>8. c.pc = "wipe" /\ c.key = x.key /\ c.op = x.op /\ c.cur = x.cur /\ c.fresh = p
  BY <1>4 DEF CallRecord
<1>9. Stands(c)' /\ Allocated(c)' /\ Path(c)'
  BY <1>3, <1>5, <1>6, <1>8 DEF Stands, Allocated, Path, Pruning
<1>10. Counted'
  BY <1>5 DEF Inv, Counted
<1> QED
  BY <1>1, <1>3, <1>5, <1>6, <1>7, <1>9, <1>10, Step

LEMMA WipeInv ==
  ASSUME Inv, NEW w \in Writers, Wipe(w), UNCHANGED <<kills, rd>> PROVE Inv'
<1>1. PICK x \in CallRecord : x = wr[w]
  BY DEF Inv, Walker
<1>2. x.pc = "wipe" /\ Stands(x) /\ Allocated(x)
  BY <1>1, Alone DEF Wipe
<1>3. x.key \in Keys /\ x.op = "remove" /\ x.fresh \in DOMAIN info
  BY <1>2 DEF Stands, Allocated, Pruning
<1>4. PICK path : path = <<[at |-> 0, link |-> 1]>>
  OBVIOUS
<1>5. PICK c : c = [x EXCEPT !.pc = "prune", !.fresh = 0, !.cur = 0, !.depth = 0, !.path = path]
  OBVIOUS
<1>6. /\ info' = [info EXCEPT ![x.fresh] = ZeroInfo] /\ UNCHANGED <<bytes_used, node>>
      /\ ret' = ret /\ wr' = [wr EXCEPT ![w] = c]
  BY <1>1, <1>4, <1>5 DEF Wipe, Become
<1>7. 0 \in Offset
  BY DataSizeAssumption DEF Offset
<1>8. ZeroInfo \in Info /\ ZeroInfo.key = <<>> /\ ZeroInfo.rel = 0
  BY <1>7 DEF ZeroInfo, NoValue, Info, Value
<1>9. AreaType' /\ Spread' /\ DOMAIN info' = DOMAIN info
  BY <1>3, <1>6, <1>8, RewriteInfo DEF Inv
<1>10. LinksLead' /\ 0 \in DOMAIN node'
  BY <1>6, <1>9 DEF LinksLead, Inv, AreaType
<1>11. path \in Seq([at : Offset, link : 1..4]) /\ Len(path) = 1 /\ path[1].at = 0 /\ DOMAIN path = {1}
  <2>1. [at |-> 0, link |-> 1] \in [at : Offset, link : 1..4]
    BY <1>7
  <2> QED
    BY <1>4, <2>1
<1>12. c \in CallRecord
  BY <1>5, <1>7, <1>11 DEF CallRecord, Places
<1>13. c.pc = "prune" /\ c.key = x.key /\ c.op = x.op /\ c.cur = 0 /\ c.path = path
  BY <1>5 DEF CallRecord
<1>14. Stands(c)' /\ Allocated(c)' /\ Path(c)'
  <2>1. Stands(c)' /\ Allocated(c)'
    BY <1>3, <1>10, <1>13 DEF Stands, Allocated, Pruning
  <2>2. \A i \in DOMAIN path : i = 1
    BY <1>11
  <2>3. \A i, j \in DOMAIN path : ~(i < j)
    BY <2>2
  <2>4. /\ Len(path) > 0 /\ c.pc # "prune_unlink" /\ c.path = path
        /\ \A i \in DOMAIN path : path[i].at = 0
    BY <2>2, <1>11, <1>13
  <2>5. Path(c)'
    BY <2>3, <2>4, <1>10, Zenon DEF Path, Leads
  <2> QED
    BY <2>1, <2>5
<1>15. Counted'
  BY <1>6 DEF Inv, Counted
<1> QED
  BY <1>1, <1>2, <1>6, <1>9, <1>10, <1>12, <1>14, <1>15, Step DEF Rested

-------------------------------------------------------------------------------
(***************************************************************************)
(* prune_trie.                                                             *)
(***************************************************************************)
Visit == [at : Offset, link : 1..4]

LEMMA VisitType ==
  /\ \A a \in Offset, i \in 1..4 : [at |-> a, link |-> i] \in Visit
  /\ \A v \in Visit : v.at \in Offset /\ v.link \in 1..4 /\ v = [at |-> v.at, link |-> v.link]
  BY DEF Visit

LEMMA Visits ==
  ASSUME Inv, NEW w \in Writers, wr[w].pc \in Pruning
  PROVE  /\ wr[w].pc # "idle" /\ wr[w] \in CallRecord /\ Stands(wr[w]) /\ Path(wr[w])
         /\ wr[w].key \in Keys /\ wr[w].op = "remove" /\ wr[w].cur \in DOMAIN node
         /\ wr[w].path \in Seq(Visit) /\ Len(wr[w].path) \in Nat /\ Len(wr[w].path) > 0
         /\ DOMAIN wr[w].path = 1..Len(wr[w].path)
         /\ Frame(w).at \in DOMAIN node /\ Frame(w).link \in 1..4
<1>1. wr[w].pc # "idle"
  BY DEF Pruning
<1>2. wr[w] \in CallRecord /\ Stands(wr[w]) /\ Path(wr[w])
  BY <1>1, Alone
<1>3. wr[w].key \in Keys /\ wr[w].op = "remove" /\ wr[w].cur \in DOMAIN node
  BY <1>1, <1>2 DEF Stands
<1>4. wr[w].path \in Seq(Visit)
  BY <1>2 DEF CallRecord, Visit
<1>5. PICK p \in Seq(Visit) : p = wr[w].path
  BY <1>4
<1>6. Len(p) \in Nat /\ DOMAIN p = 1..Len(p)
  OBVIOUS
<1>7. Len(p) > 0 /\ \A i \in DOMAIN p : p[i].at \in DOMAIN node
  BY <1>2, <1>5 DEF Path, Leads
<1>8. Len(p) \in DOMAIN p /\ p[Len(p)] \in Visit
  BY <1>6, <1>7
<1>9. Frame(w) = p[Len(p)]
  BY <1>5 DEF Frame
<1> QED
  BY <1>1, <1>2, <1>3, <1>4, <1>5, <1>6, <1>7, <1>8, <1>9 DEF Visit

\* The record of a call that goes on pruning: its path leads up the area.
LEMMA PruneRecord ==
  ASSUME NEW c, c.pc \in Pruning, c.key \in Keys, c.op = "remove", c.cur \in DOMAIN node
  PROVE  Stands(c) /\ Allocated(c)
<1>1. Stands(c)
  BY DEF Stands, Pruning
<1>2. Allocated(c)
  BY DEF Allocated, Pruning
<1> QED
  BY <1>1, <1>2

\* The link that prune_trie goes down is the first one not taken yet.
FirstAhead(fr) == CHOOSE i \in Ahead(fr) : \A j \in Ahead(fr) : i <= j

LEMMA FirstIsAhead ==
  ASSUME NEW fr, fr.link \in 1..4, Ahead(fr) # {}
  PROVE  /\ FirstAhead(fr) \in Ahead(fr) /\ FirstAhead(fr) \in 1..3
         /\ \A j \in Ahead(fr) : FirstAhead(fr) <= j
<1>1. PICK A : A = Ahead(fr)
  OBVIOUS
<1>2. A # {} /\ \A j \in A : j = 1 \/ j = 2 \/ j = 3
  BY <1>1 DEF Ahead
<1>3. \E i \in A : \A j \in A : i <= j
  <2>1. CASE 1 \in A
    BY <1>2, <2>1
  <2>2. CASE 1 \notin A /\ 2 \in A
    BY <1>2, <2>2
  <2>3. CASE 1 \notin A /\ 2 \notin A
    <3>1. \A j \in A : j = 3
      BY <1>2, <2>3
    <3>2. 3 \in A /\ \A j \in A : 3 <= j
      BY <1>2, <3>1
    <3> QED
      BY <3>2
  <2> QED
    BY <2>1, <2>2, <2>3
<1> QED
  BY <1>1, <1>2, <1>3 DEF FirstAhead

\* The path one frame longer, and one frame shorter.
Down(p, l, i) == LET down == Append(p, [at |-> l, link |-> 1]) IN [down EXCEPT ![Len(down) - 1].link = i]
Up(p) == LET up == SubSeq(p, 1, Len(p) - 1) IN [up EXCEPT ![Len(up)].link = @ + 1]

IsDown(path, p, l, i) ==
  LET k == Len(p) IN
  /\ path \in Seq(Visit) /\ Len(path) = k + 1 /\ DOMAIN path = 1..(k + 1)
  /\ path[k + 1] = [at |-> l, link |-> 1] /\ path[k] = [at |-> p[k].at, link |-> i]
  /\ \A j \in 1..(k - 1) : path[j] = p[j]
IsUp(path, p) ==
  LET k == Len(p) IN
  /\ path \in Seq(Visit) /\ Len(path) = k - 1 /\ DOMAIN path = 1..(k - 1)
  /\ path[k - 1] = [at |-> p[k - 1].at, link |-> p[k - 1].link + 1]
  /\ \A j \in 1..(k - 2) : path[j] = p[j]

LEMMA Deeper ==
  ASSUME NEW p \in Seq(Visit), NEW l \in Offset, NEW i \in 1..3, Len(p) > 0
  PROVE  IsDown(Down(p, l, i), p, l, i)
<1>0. PICK k \in Nat : k = Len(p) /\ k > 0
  OBVIOUS
<1>1. PICK e \in Visit : e = [at |-> l, link |-> 1]
  <2>1. 1 \in 1..4
    OBVIOUS
  <2>2. [at |-> l, link |-> 1] \in Visit
    BY <2>1, VisitType
  <2> QED
    BY <2>2
<1>2. PICK down : down = Append(p, e)
  OBVIOUS
<1>3. /\ down \in Seq(Visit) /\ Len(down) = k + 1 /\ down[k + 1] = e
      /\ \A j \in 1..k : down[j] = p[j]
  BY <1>0, <1>2, AppendProperties
<1>4. p[k] \in Visit /\ down[k] = p[k] /\ k \in 1..Len(down) /\ Len(down) - 1 = k
  BY <1>0, <1>3, ElementOfSeq
<1>5. PICK d \in Visit : d = [at |-> p[k].at, link |-> i]
  <2>1. i \in 1..4
    OBVIOUS
  <2>2. [at |-> p[k].at, link |-> i] \in Visit
    BY <2>1, <1>4, VisitType
  <2> QED
    BY <2>2
<1>6. [down[k] EXCEPT !.link = i] = d
  BY <1>4, <1>5 DEF Visit
<1>7. PICK path : path = [down EXCEPT ![k] = d]
  OBVIOUS
<1>8. path = Down(p, l, i)
  BY <1>1, <1>2, <1>4, <1>6, <1>7 DEF Down
<1>9. /\ path \in Seq(Visit) /\ Len(path) = k + 1
      /\ \A j \in 1..(k + 1) : path[j] = IF j = k THEN d ELSE down[j]
  <2> HIDE <1>8
  <2>1. 1..Len(down) = 1..(k + 1)
    BY <1>3
  <2> QED
    BY <1>3, <1>4, <1>7, <2>1, ExceptSeq
<1>10. DOMAIN path = 1..(k + 1)
  BY <1>9
<1>11. path[k] = d /\ path[k + 1] = e /\ \A j \in 1..(k - 1) : path[j] = p[j]
  BY <1>0, <1>3, <1>9
<1>12. IsDown(path, p, l, i)
  BY <1>0, <1>1, <1>5, <1>9, <1>10, <1>11 DEF IsDown
<1> QED
  BY <1>8, <1>12

LEMMA Shallower ==
  ASSUME NEW p \in Seq(Visit), Len(p) > 1, p[Len(p) - 1].link \in 1..3
  PROVE  IsUp(Up(p), p) /\ SubSeq(p, 1, Len(p) - 1) # <<>>
<1>0. PICK k \in Nat : k = Len(p) /\ k > 1 /\ p[k - 1].link \in 1..3
  OBVIOUS
<1>1. PICK up : up = SubSeq(p, 1, k - 1)
  OBVIOUS
<1>2. \A j \in 1..(k - 1) : p[j] \in Visit
  BY <1>0, ElementOfSeq
<1>3. up \in Seq(Visit) /\ Len(up) = k - 1 /\ \A j \in 1..(k - 1) : up[j] = p[j]
  BY <1>0, <1>1, <1>2, SubSeqProperties
<1>4. k - 1 \in 1..Len(up) /\ up[k - 1] = p[k - 1] /\ up[k - 1] \in Visit /\ up # <<>>
  BY <1>0, <1>2, <1>3
<1>5. PICK d \in Visit : d = [at |-> p[k - 1].at, link |-> p[k - 1].link + 1]
  <2>1. p[k - 1].link + 1 \in 1..4
    BY <1>0
  <2> QED
    BY <1>4, <2>1 DEF Visit
<1>6. [up[k - 1] EXCEPT !.link = @ + 1] = d
  BY <1>4, <1>5 DEF Visit
<1>7. PICK path : path = [up EXCEPT ![k - 1] = d]
  OBVIOUS
<1>8. path = Up(p)
  BY <1>0, <1>1, <1>3, <1>6, <1>7 DEF Up
<1>9. /\ path \in Seq(Visit) /\ Len(path) = k - 1
      /\ \A j \in 1..(k - 1) : path[j] = IF j = k - 1 THEN d ELSE up[j]
  <2> HIDE <1>8
  <2> QED
    BY <1>0, <1>3, <1>4, <1>7, ExceptSeq
<1>10. DOMAIN path = 1..(k - 1)
  BY <1>9
<1>11. path[k - 1] = d /\ \A j \in 1..(k - 2) : path[j] = p[j]
  BY <1>0, <1>3, <1>9
<1>12. IsUp(path, p)
  BY <1>0, <1>5, <1>9, <1>10, <1>11 DEF IsUp
<1> QED
  BY <1>0, <1>1, <1>4, <1>8, <1>12

LEMMA PruneIntoInv ==
  ASSUME Inv, NEW w \in Writers, PruneInto(w), UNCHANGED <<kills, rd>> PROVE Inv'
<1>1. PICK x \in CallRecord : x = wr[w]
  BY DEF Inv, Walker
<1> USE DEF PruneInto, Visiting, Pruning
<1>2. PICK p \in Seq(Visit), k \in Nat, o \in DOMAIN node : p = x.path /\ k = Len(p) /\ o = Frame(w).at
  BY <1>1, Visits
<1>3. /\ x.pc = "prune" /\ x.key \in Keys /\ x.op = "remove" /\ x.cur \in DOMAIN node
      /\ k > 0 /\ DOMAIN p = 1..k /\ Path(x)
  BY <1>1, <1>2, Visits
<1>4. Frame(w) = p[k] /\ p[k].at = o /\ p[k].link \in 1..4
  BY <1>1, <1>2, Visits DEF Frame
<1>5. PICK i \in 1..3 : i = FirstAhead(Frame(w)) /\ i \in Ahead(Frame(w))
  BY <1>4, FirstIsAhead
<1>6. PICK l : l = node[o].link[Order[i]]
  OBVIOUS
<1>7. l \in DOMAIN node /\ o < l /\ l \in Offset /\ o \in Offset
  <2>1. Order[i] \in Links
    BY DEF Order, Links
  <2>2. l # 0
    BY <1>2, <1>5, <1>6 DEF Ahead
  <2> QED
    BY <2>1, <2>2, <1>6 DEF Inv, LinksLead, AreaType
<1>8. PICK path : path = Down(p, l, i)
  OBVIOUS
<1>9. /\ path \in Seq(Visit) /\ Len(path) = k + 1 /\ DOMAIN path = 1..(k + 1)
      /\ path[k + 1] = [at |-> l, link |-> 1] /\ path[k] = [at |-> p[k].at, link |-> i]
      /\ \A j \in 1..(k - 1) : path[j] = p[j]
  <2>1. IsDown(path, p, l, i)
    BY <1>2, <1>3, <1>7, <1>8, Deeper
  <2> QED
    BY <2>1, <1>2 DEF IsDown
<1>10. path[k].at = o /\ path[k].link = i /\ path[k + 1].at = l
  BY <1>4, <1>9
<1>11. PICK c : c = [x EXCEPT !.path = path]
  OBVIOUS
<1>12. Become(w, c) /\ UNCHANGED area
  BY <1>1, <1>2, <1>5, <1>6, <1>8, <1>11 DEF FirstAhead, Down
<1>13. c \in CallRecord /\ c.pc = "prune" /\ c.key = x.key /\ c.op = x.op /\ c.cur = x.cur /\ c.path = path
  BY <1>3, <1>9, <1>11 DEF CallRecord, Visit
<1>14. Path(c)
  <2>1. Len(path) > 0
    BY <1>2, <1>9
  <2>2. ASSUME NEW j \in 1..(k - 1)
        PROVE  j \in DOMAIN p /\ path[j].at \in DOMAIN node /\ path[j].at < o /\ path[j].link \in 1..3
    <3>1. j \in DOMAIN p /\ k \in DOMAIN p /\ j < k
      BY <1>2, <1>3
    <3>2. p[j].at \in DOMAIN node /\ p[j].at < p[k].at /\ p[j].link \in 1..3
      BY <3>1, <1>2, <1>3 DEF Path, Leads
    <3> QED
      BY <3>1, <3>2, <1>4, <1>9
  <2>3. \A j \in 1..(k - 1) : path[j].at \in Nat /\ o \in Nat /\ l \in Nat
    BY <2>2, <1>7, Typed DEF Inv
  <2>4. \A j \in DOMAIN path : j = k + 1 \/ j = k \/ j \in 1..(k - 1)
    BY <1>2, <1>9
  <2>5. \A j \in DOMAIN path : path[j].at \in DOMAIN node
    BY <2>2, <2>4, <1>7, <1>10
  <2>6. ASSUME NEW h \in DOMAIN path, NEW j \in DOMAIN path, h < j
        PROVE  /\ path[h].at < path[j].at /\ path[h].link \in 1..3
               /\ j = h + 1 => node[path[h].at].link[Order[path[h].link]] = path[j].at
    <3>1. CASE j \in 1..(k - 1)
      <4>1. h \in 1..(k - 1)
        BY <2>4, <2>6, <3>1
      <4>2. h \in DOMAIN p /\ j \in DOMAIN p /\ path[h] = p[h] /\ path[j] = p[j]
        BY <2>2, <3>1, <4>1, <1>9
      <4> QED
        BY <2>6, <4>2, <1>2, <1>3 DEF Path, Leads
    <3>2. CASE j = k
      <4>1. h \in 1..(k - 1) /\ k \in DOMAIN p
        BY <2>4, <2>6, <3>2, <1>3
      <4>2. h \in DOMAIN p /\ path[h] = p[h]
        BY <2>2, <4>1, <1>9
      <4> QED
        BY <2>6, <3>2, <4>1, <4>2, <1>2, <1>3, <1>4, <1>10 DEF Path, Leads
    <3>3. CASE j = k + 1 /\ h = k
      BY <3>3, <1>6, <1>7, <1>10
    <3>4. CASE j = k + 1 /\ h # k
      <4>1. h \in 1..(k - 1) /\ j # h + 1
        BY <2>4, <2>6, <3>4
      <4> QED
        BY <2>2, <2>3, <3>4, <4>1, <1>7, <1>10
    <3> QED
      BY <2>4, <3>1, <3>2, <3>3, <3>4
  <2> QED
    BY <2>1, <2>5, <2>6, <1>13 DEF Path, Leads
<1>15. Stands(c) /\ Allocated(c)
  BY <1>3, <1>13, PruneRecord
<1> QED
  BY <1>1, <1>3, <1>12, <1>13, <1>14, <1>15, Moves

\* One frame up the path still leads, whatever became of the node it comes back from
\* and of the link it came by.
LEMMA LeadsUp ==
  ASSUME NEW old, NEW new, DOMAIN new = DOMAIN old, NEW p \in Seq(Visit), Len(p) > 1, Leads(p, old),
         \A j \in 1..(Len(p) - 2) : new[p[j].at].link = old[p[j].at].link
  PROVE  Up(p) \in Seq(Visit) /\ Leads(Up(p), new) /\ SubSeq(p, 1, Len(p) - 1) # <<>>
<1>1. PICK k \in Nat : k = Len(p) /\ k > 1
  OBVIOUS
<1>2. DOMAIN p = 1..k
  BY <1>1
<1>3. p[k - 1].link \in 1..3
  <2>1. k - 1 \in DOMAIN p /\ k \in DOMAIN p /\ k - 1 < k
    BY <1>1, <1>2
  <2> QED
    BY <2>1 DEF Leads
<1>4. PICK q : q = Up(p)
  OBVIOUS
<1>5. IsUp(q, p) /\ SubSeq(p, 1, k - 1) # <<>>
  BY <1>1, <1>3, <1>4, Shallower
<1>6. /\ q \in Seq(Visit) /\ Len(q) = k - 1 /\ DOMAIN q = 1..(k - 1)
      /\ q[k - 1].at = p[k - 1].at /\ \A j \in 1..(k - 2) : q[j] = p[j]
  BY <1>1, <1>5 DEF IsUp
<1>7. \A j \in 1..(k - 1) : j \in DOMAIN p /\ q[j].at = p[j].at
  BY <1>1, <1>2, <1>6
<1>8. Leads(q, new)
  <2>1. Len(q) > 0
    BY <1>1, <1>6
  <2>2. \A j \in DOMAIN q : q[j].at \in DOMAIN new
    BY <1>6, <1>7 DEF Leads
  <2>3. ASSUME NEW i \in DOMAIN q, NEW j \in DOMAIN q, i < j
        PROVE  /\ q[i].at < q[j].at /\ q[i].link \in 1..3
               /\ j = i + 1 => new[q[i].at].link[Order[q[i].link]] = q[j].at
    <3>1. i \in 1..(k - 2) /\ q[i] = p[i]
      BY <2>3, <1>1, <1>6
    <3>2. i \in DOMAIN p /\ j \in DOMAIN p /\ q[j].at = p[j].at
      BY <3>1, <1>6, <1>7
    <3>3. new[p[i].at].link = old[p[i].at].link
      BY <3>1, <1>1
    <3> QED
      BY <2>3, <3>1, <3>2, <3>3 DEF Leads
  <2> QED
    BY <2>1, <2>2, <2>3 DEF Leads
<1> QED
  BY <1>1, <1>4, <1>5, <1>6, <1>8

LEMMA BackUp ==
  ASSUME NEW w, NEW call, Back(w, call), SubSeq(wr[w].path, 1, Len(wr[w].path) - 1) # <<>>
  PROVE  Become(w, [call EXCEPT !.path = Up(wr[w].path)])
<1>1. PICK up : up = SubSeq(wr[w].path, 1, Len(wr[w].path) - 1)
  OBVIOUS
<1>2. Become(w, [call EXCEPT !.path = [up EXCEPT ![Len(up)].link = @ + 1]])
  BY <1>1 DEF Back
<1> QED
  BY <1>1, <1>2 DEF Up

LEMMA PruneKeepInv ==
  ASSUME Inv, NEW w \in Writers, PruneKeep(w), UNCHANGED <<kills, rd>> PROVE Inv'
<1>1. PICK x \in CallRecord : x = wr[w]
  BY DEF Inv, Walker
<1>2. wr[w].pc \in Pruning /\ wr[w].pc = "prune"
  BY DEF PruneKeep, Visited, Pruning
<1>3. PICK p \in Seq(Visit), k \in Nat : p = x.path /\ k = Len(p)
  BY <1>1, <1>2, Visits
<1>4. /\ x.key \in Keys /\ x.op = "remove" /\ x.cur \in DOMAIN node /\ k > 0 /\ Path(x) /\ x.pc # "idle"
  BY <1>1, <1>2, <1>3, Visits
<1>5. CASE k = 1
  <2>1. SubSeq(p, 1, k - 1) = <<>>
    BY <1>3, <1>5, SubSeqEmpty
  <2>2. PICK c : c = [[x EXCEPT !.pc = "done"] EXCEPT !.path = <<>>]
    OBVIOUS
  <2>3. Become(w, c) /\ UNCHANGED area
    BY <2>1, <2>2, <1>1, <1>3, <1>5 DEF PruneKeep, Back
  <2>4. c \in CallRecord
    BY <2>2, EmptySeq DEF CallRecord, Places
  <2>5. c.pc = "done" /\ c.key = x.key /\ c.op = x.op /\ c.cur = x.cur
    BY <2>2 DEF CallRecord
  <2>6. Stands(c) /\ Allocated(c) /\ Path(c)
    BY <2>5, <1>4 DEF Stands, Allocated, Path, Pruning
  <2> QED
    BY <2>3, <2>4, <2>6, <1>1, <1>4, Moves
<1>6. CASE k > 1
  <2>1. Leads(p, node)
    BY <1>1, <1>2, <1>3, <1>4 DEF Path
  <2>2. PICK q : q = Up(p)
    OBVIOUS
  <2>3. q \in Seq(Visit) /\ Leads(q, node) /\ SubSeq(p, 1, k - 1) # <<>>
    <3>1. PICK trie : trie = node
      OBVIOUS
    <3> QED
      BY <2>1, <2>2, <3>1, <1>3, <1>6, LeadsUp
  <2>4. PICK c : c = [[x EXCEPT !.pc = "prune"] EXCEPT !.path = q]
    OBVIOUS
  <2>5. Become(w, c) /\ UNCHANGED area
    <3>1. Back(w, [x EXCEPT !.pc = "prune"]) /\ UNCHANGED area
      <4>1. PICK pc : pc = IF Len(wr[w].path) = 1 THEN "done" ELSE "prune"
        OBVIOUS
      <4>2. pc = "prune"
        <5>1. Len(wr[w].path) = k
          BY <1>1, <1>3
        <5>2. k # 1
          BY <1>6
        <5> QED
          BY <4>1, <5>1, <5>2
      <4>3. Back(w, [wr[w] EXCEPT !.pc = pc]) /\ UNCHANGED area
        BY <4>1 DEF PruneKeep
      <4> QED
        BY <4>2, <4>3, <1>1
    <3>2. Become(w, [[x EXCEPT !.pc = "prune"] EXCEPT !.path = Up(p)])
      BY <3>1, <2>3, <1>1, <1>3, BackUp
    <3> QED
      BY <3>1, <3>2, <2>2, <2>4
  <2>6. c \in CallRecord
    BY <2>3, <2>4 DEF CallRecord, Places, Visit
  <2>7. c.pc = "prune" /\ c.key = x.key /\ c.op = x.op /\ c.cur = x.cur /\ c.path = q
    BY <2>4 DEF CallRecord
  <2>8. Stands(c) /\ Allocated(c)
    BY <2>7, <1>4, PruneRecord DEF Pruning
  <2>9. Path(c)
    BY <2>3, <2>7 DEF Path
  <2> QED
    BY <2>5, <2>6, <2>8, <2>9, <1>1, <1>4, Moves
<1> QED
  BY <1>4, <1>5, <1>6

LEMMA LeadsKept ==
  ASSUME NEW old, NEW new, DOMAIN new = DOMAIN old, NEW p \in Seq(Visit), Leads(p, old),
         \A j \in 1..(Len(p) - 1) : new[p[j].at].link = old[p[j].at].link
  PROVE  Leads(p, new)
<1>1. PICK k \in Nat : k = Len(p) /\ DOMAIN p = 1..k
  OBVIOUS
<1>2. ASSUME NEW i \in DOMAIN p, NEW j \in DOMAIN p, i < j
      PROVE  new[p[i].at].link = old[p[i].at].link
  BY <1>1, <1>2
<1> QED
  BY <1>2 DEF Leads

\* The frames below the last one stand at other nodes.
LEMMA LastIsAlone ==
  ASSUME NEW trie, NEW p \in Seq(Visit), Leads(p, trie), NEW j \in 1..(Len(p) - 1)
  PROVE  p[j].at # p[Len(p)].at
<1>1. PICK k \in Nat : k = Len(p) /\ DOMAIN p = 1..k
  OBVIOUS
<1>2. j \in DOMAIN p /\ k \in DOMAIN p /\ j < k
  BY <1>1
<1>3. p[j] \in Visit /\ p[k] \in Visit
  BY <1>1, <1>2
<1>4. p[j].at \in Nat /\ p[k].at \in Nat
  BY <1>3, VisitType, DataSizeAssumption DEF Offset
<1>5. p[j].at < p[k].at
  BY <1>2 DEF Leads
<1> QED
  BY <1>1, <1>4, <1>5

LEMMA PruneWipeNameInv ==
  ASSUME Inv, NEW w \in Writers, PruneWipeName(w), UNCHANGED <<kills, rd>> PROVE Inv'
<1>1. PICK x \in CallRecord : x = wr[w]
  BY DEF Inv, Walker
<1>2. wr[w].pc \in Pruning /\ wr[w].pc = "prune"
  BY DEF PruneWipeName, Visited, Pruning
<1>3. PICK p \in Seq(Visit), o \in DOMAIN node : p = x.path /\ o = Frame(w).at
  BY <1>1, <1>2, Visits
<1>4. /\ x.key \in Keys /\ x.op = "remove" /\ x.cur \in DOMAIN node /\ Path(x) /\ x.pc # "idle"
      /\ Leads(p, node)
  BY <1>1, <1>2, <1>3, Visits DEF Path
<1>5. PICK n : n = [node[o] EXCEPT !.name.text = 0]
  OBVIOUS
<1>6. node[o] \in Node /\ node[o].name.len \in Nat /\ node[o].name \in Name
  BY Typed DEF Inv, Node
<1>7. n.name = [len |-> node[o].name.len, text |-> 0] /\ n.prop = node[o].prop /\ n.link = node[o].link
  <2>1. DOMAIN node[o].name = {"len", "text"}
    BY <1>6 DEF Name, Segment
  <2>2. [node[o].name EXCEPT !.text = 0] = [len |-> node[o].name.len, text |-> 0]
    BY <1>6 DEF Name, Segment
  <2> QED
    BY <2>2, <1>5, <1>6 DEF Node
<1>8. n \in Node
  <2>1. [len |-> node[o].name.len, text |-> 0] \in Name
    BY <1>6 DEF Name, Segment
  <2> QED
    BY <2>1, <1>5, <1>6, <1>7 DEF Node
<1>9. PICK c : c = [x EXCEPT !.pc = "prune_header"]
  OBVIOUS
<1>10. /\ node' = [node EXCEPT ![o] = n] /\ UNCHANGED <<bytes_used, info>>
       /\ ret' = ret /\ wr' = [wr EXCEPT ![w] = c]
  BY <1>1, <1>3, <1>5, <1>9 DEF PruneWipeName, Become
<1>11. /\ AreaType' /\ Spread' /\ DOMAIN node' = DOMAIN node
       /\ \A q \in DOMAIN node : node'[q] = IF q = o THEN n ELSE node[q]
  <2>1. NodeSize(n.name) = NodeSize(node[o].name)
    BY <1>7 DEF NodeSize
  <2>2. NodeSize(n.name) \in Nat /\ NodeSize(n.name) <= NodeSize(node[o].name)
    BY <2>1, <1>6, NodeSizes
  <2>3. node' = [node EXCEPT ![o] = n] /\ UNCHANGED <<bytes_used, info>>
    BY <1>10
  <2> QED
    BY <2>2, <2>3, <1>8, Rewrite DEF Inv
<1>12. LinksLead'
  BY <1>7, <1>10, <1>11 DEF LinksLead, Inv
<1>13. c \in CallRecord /\ c.pc = "prune_header" /\ c.key = x.key /\ c.op = x.op /\ c.cur = x.cur /\ c.path = p
  BY <1>3, <1>9 DEF CallRecord, Places
<1>14. Stands(c)' /\ Allocated(c)'
  BY <1>4, <1>11, <1>13 DEF Stands, Allocated, Pruning
<1>15. Path(c)'
  <2>1. PICK old, new : old = node /\ new = node'
    OBVIOUS
  <2>2. \A q \in DOMAIN old : new[q].link = old[q].link
    BY <2>1, <1>7, <1>11
  <2>3. \A j \in 1..(Len(p) - 1) : p[j].at \in DOMAIN old
    BY <2>1, <1>4 DEF Leads
  <2>4. Leads(p, new)
    BY <2>1, <2>2, <2>3, <1>4, <1>11, LeadsKept
  <2> QED
    BY <2>1, <2>4, <1>13 DEF Path
<1>16. Counted'
  BY <1>10 DEF Inv, Counted
<1> QED
  BY <1>1, <1>4, <1>10, <1>11, <1>12, <1>13, <1>14, <1>15, <1>16, Step DEF Rested

LEMMA PruneWipeHeaderInv ==
  ASSUME Inv, NEW w \in Writers, PruneWipeHeader(w), UNCHANGED <<kills, rd>> PROVE Inv'
<1>1. PICK x \in CallRecord : x = wr[w]
  BY DEF Inv, Walker
<1>2. wr[w].pc \in Pruning /\ wr[w].pc = "prune_header"
  BY DEF PruneWipeHeader, Pruning
<1>3. PICK p \in Seq(Visit), k \in Nat, o \in DOMAIN node : p = x.path /\ k = Len(p) /\ o = Frame(w).at /\ o = p[k].at
  BY <1>1, <1>2, Visits DEF Frame
<1>4. /\ x.key \in Keys /\ x.op = "remove" /\ x.cur \in DOMAIN node /\ x.pc # "idle" /\ k > 0
      /\ Leads(p, node)
  BY <1>1, <1>2, <1>3, Visits DEF Path
<1>5. ZeroNode \in Node /\ ZeroNode.name = RootName /\ ZeroNode.prop = 0 /\ \A f \in Links : ZeroNode.link[f] = 0
  BY DataSizeAssumption DEF ZeroNode, Node, Name, Offset, RootName
<1>6. node' = [node EXCEPT ![o] = ZeroNode] /\ UNCHANGED <<bytes_used, info>>
  BY <1>3 DEF PruneWipeHeader
<1>7. /\ AreaType' /\ Spread' /\ DOMAIN node' = DOMAIN node
      /\ \A q \in DOMAIN node : node'[q] = IF q = o THEN ZeroNode ELSE node[q]
  <2>1. NodeSize(RootName) \in Nat /\ NodeSize(RootName) <= NodeSize(node[o].name)
    <3>1. node[o].name.len \in Nat /\ RootName.len \in Nat
      BY Typed DEF Inv, RootName
    <3> QED
      BY <3>1, NodeSizes
  <2> QED
    BY <2>1, <1>5, <1>6, Rewrite DEF Inv
<1>8. LinksLead'
  BY <1>5, <1>6, <1>7 DEF LinksLead, Inv
<1>9. CASE k = 1
  <2>1. SubSeq(p, 1, k - 1) = <<>>
    BY <1>3, <1>9, SubSeqEmpty
  <2>2. PICK c : c = [[x EXCEPT !.pc = "done"] EXCEPT !.path = <<>>]
    OBVIOUS
  <2>3. Become(w, c)
    <3>1. Len(wr[w].path) = 1 /\ SubSeq(wr[w].path, 1, Len(wr[w].path) - 1) = <<>>
      BY <2>1, <1>1, <1>3, <1>9
    <3>2. Back(w, [wr[w] EXCEPT !.pc = "done"])
      BY <3>1 DEF PruneWipeHeader
    <3>3. Become(w, [[wr[w] EXCEPT !.pc = "done"] EXCEPT !.path = <<>>])
      BY <3>1, <3>2 DEF Back
    <3> QED
      BY <3>3, <2>2, <1>1
  <2>4. c \in CallRecord
    BY <2>2, EmptySeq DEF CallRecord, Places
  <2>5. c.pc = "done" /\ c.key = x.key /\ c.op = x.op /\ c.cur = x.cur
    BY <2>2 DEF CallRecord
  <2>6. Stands(c)' /\ Allocated(c)' /\ Path(c)'
    BY <2>5, <1>4, <1>7 DEF Stands, Allocated, Path, Pruning
  <2>7. Counted' /\ wr' = [wr EXCEPT ![w] = c]
    BY <2>3 DEF Inv, Counted, Become
  <2> QED
    BY <2>4, <2>6, <2>7, <1>1, <1>4, <1>7, <1>8, Step DEF Rested
<1>10. CASE k > 1
  <2>1. PICK c : c = [x EXCEPT !.pc = "prune_unlink"]
    OBVIOUS
  <2>2. Become(w, c)
    <3>1. Len(wr[w].path) # 1
      BY <1>1, <1>3, <1>10
    <3> QED
      BY <3>1, <2>1, <1>1 DEF PruneWipeHeader
  <2>3. c \in CallRecord /\ c.pc = "prune_unlink" /\ c.key = x.key /\ c.op = x.op /\ c.cur = x.cur /\ c.path = p
    BY <2>1, <1>3 DEF CallRecord, Places
  <2>4. Stands(c)' /\ Allocated(c)'
    BY <2>3, <1>4, <1>7 DEF Stands, Allocated, Pruning
  <2>5. Path(c)'
    <3>1. PICK old, new : old = node /\ new = node'
      OBVIOUS
    <3>2. ASSUME NEW j \in 1..(Len(p) - 1) PROVE new[p[j].at].link = old[p[j].at].link
      <4>1. p[j].at # o
        BY <1>3, <1>4, LastIsAlone
      <4>2. p[j].at \in DOMAIN node
        BY <1>4 DEF Leads
      <4> QED
        BY <4>1, <4>2, <3>1, <1>7
    <3>3. Leads(p, new)
      BY <3>1, <3>2, <1>4, <1>7, LeadsKept
    <3> QED
      BY <3>1, <3>3, <2>3, <1>3, <1>10 DEF Path
  <2>6. Counted' /\ wr' = [wr EXCEPT ![w] = c]
    BY <2>2 DEF Inv, Counted, Become
  <2> QED
    BY <2>3, <2>4, <2>5, <2>6, <1>1, <1>4, <1>7, <1>8, Step DEF Rested
<1> QED
  BY <1>4, <1>9, <1>10

LEMMA PruneUnlinkInv ==
  ASSUME Inv, NEW w \in Writers, PruneUnlink(w), UNCHANGED <<kills, rd>> PROVE Inv'
<1>1. PICK x \in CallRecord : x = wr[w]
  BY DEF Inv, Walker
<1>2. wr[w].pc \in Pruning /\ wr[w].pc = "prune_unlink"
  BY DEF PruneUnlink, Pruning
<1>3. PICK p \in Seq(Visit), k \in Nat : p = x.path /\ k = Len(p)
  BY <1>1, <1>2, Visits
<1>4. /\ x.key \in Keys /\ x.op = "remove" /\ x.cur \in DOMAIN node /\ x.pc # "idle" /\ k > 1
      /\ Leads(p, node)
  BY <1>1, <1>2, <1>3, Visits DEF Path
<1>5. k - 1 \in DOMAIN p /\ k \in DOMAIN p /\ k - 1 < k
  BY <1>3, <1>4
<1>6. PICK o \in DOMAIN node, f \in Links : o = p[k - 1].at /\ f = Order[p[k - 1].link]
  <2>1. p[k - 1].at \in DOMAIN node /\ p[k - 1].link \in 1..3
    BY <1>4, <1>5 DEF Leads
  <2>2. Order[p[k - 1].link] \in Links
    BY <2>1 DEF Order, Links
  <2> QED
    BY <2>1, <2>2
<1>7. PICK n : n = [node[o] EXCEPT !.link[f] = 0]
  OBVIOUS
<1>8. node[o] \in Node /\ node[o].name.len \in Nat /\ 0 \in Offset
  BY Typed, DataSizeAssumption DEF Inv, Offset
<1>9. /\ n \in Node /\ n.name = node[o].name /\ n.prop = node[o].prop
      /\ \A g \in Links : n.link[g] = IF g = f THEN 0 ELSE node[o].link[g]
  BY <1>7, <1>8 DEF Node
<1>10. node' = [node EXCEPT ![o] = n] /\ UNCHANGED <<bytes_used, info>>
  <2>1. Above(w) = p[k - 1]
    BY <1>1, <1>3 DEF Above
  <2>2. node' = [node EXCEPT ![o].link[f] = 0]
    BY <2>1, <1>6 DEF PruneUnlink
  <2> QED
    BY <2>2, <1>7 DEF PruneUnlink
<1>11. /\ AreaType' /\ Spread' /\ DOMAIN node' = DOMAIN node
       /\ \A q \in DOMAIN node : node'[q] = IF q = o THEN n ELSE node[q]
  <2>1. NodeSize(n.name) \in Nat /\ NodeSize(n.name) = NodeSize(node[o].name)
    BY <1>8, <1>9, NodeSizes
  <2>2. NodeSize(n.name) <= NodeSize(node[o].name)
    BY <2>1
  <2> QED
    BY <2>1, <2>2, <1>9, <1>10, Rewrite DEF Inv
<1>12. LinksLead'
  BY <1>9, <1>10, <1>11 DEF LinksLead, Inv
<1>13. PICK q : q = Up(p)
  OBVIOUS
<1>14. q \in Seq(Visit) /\ Leads(q, node)' /\ SubSeq(p, 1, k - 1) # <<>>
  <2>1. PICK old, new : old = node /\ new = node'
    OBVIOUS
  <2>2. ASSUME NEW j \in 1..(Len(p) - 2) PROVE new[p[j].at].link = old[p[j].at].link
    <3>1. j \in DOMAIN p /\ j < k - 1
      BY <1>3
    <3>2. p[j].at \in DOMAIN node /\ p[j].at < o
      BY <3>1, <1>4, <1>5, <1>6 DEF Leads
    <3>3. p[j].at # o
      BY <3>2, Typed DEF Inv
    <3> QED
      BY <3>2, <3>3, <2>1, <1>11
  <2>3. Up(p) \in Seq(Visit) /\ Leads(Up(p), new) /\ SubSeq(p, 1, Len(p) - 1) # <<>>
    BY <2>1, <2>2, <1>3, <1>4, <1>11, LeadsUp
  <2> QED
    BY <2>1, <2>3, <1>3, <1>13
<1>15. PICK c : c = [[x EXCEPT !.pc = "prune"] EXCEPT !.path = q]
  OBVIOUS
<1>16. Counted' /\ wr' = [wr EXCEPT ![w] = c]
  <2>1. Back(w, [x EXCEPT !.pc = "prune"])
    BY <1>1 DEF PruneUnlink
  <2>2. Become(w, [[x EXCEPT !.pc = "prune"] EXCEPT !.path = Up(p)])
    BY <2>1, <1>1, <1>3, <1>14, BackUp
  <2> QED
    BY <2>2, <1>13, <1>15 DEF Become, Inv, Counted
<1>17. c \in CallRecord
  BY <1>14, <1>15 DEF CallRecord, Places, Visit
<1>18. c.pc = "prune" /\ c.key = x.key /\ c.op = x.op /\ c.cur = x.cur /\ c.path = q
  BY <1>15 DEF CallRecord
<1>19. Stands(c)' /\ Allocated(c)'
  BY <1>4, <1>11, <1>18 DEF Stands, Allocated, Pruning
<1>20. Path(c)'
  BY <1>14, <1>18 DEF Path
<1> QED
  BY <1>1, <1>4, <1>10, <1>11, <1>12, <1>16, <1>17, <1>19, <1>20, Step DEF Rested

-------------------------------------------------------------------------------
(***************************************************************************)
(* Lookups, and the steps together.                                        *)
(***************************************************************************)
LEMMA ReadInv ==
  ASSUME Inv, Read, UNCHANGED <<area, wr, ret, kills>> PROVE Inv'
<1>1. UNCHANGED area /\ wr' = wr /\ node' = node /\ info' = info /\ bytes_used' = bytes_used
  BY DEF area
<1>2. Rested'
  BY <1>1, RestedKept DEF Inv, Rested
<1>3. OneCall' /\ wr' \in [Writers -> CallRecord]
  BY <1>1 DEF Inv, OneCall
<1>4. Walker'
  BY <1>1 DEF Inv, Walker, Stands, Allocated, Path, Held, End, Start, Size
<1>5. Counted'
  BY DEF Inv, Counted
<1>6. Reader'
  <2>1. PICK r : r = rd
    OBVIOUS
  <2>2. r \in LookupRecord /\ r.cur \in DOMAIN node /\ (r.at # "idle" => r.key \in Keys)
        /\ (r.at \in {"sibling", "load"} => r.depth < Len(r.key))
    BY <2>1 DEF Inv, Reader
  <2>3. 0 \in DOMAIN node /\ 0 \in Offset
    BY DataSizeAssumption DEF Inv, AreaType, Offset
  <2>4. r.depth \in Nat
    BY <2>2 DEF LookupRecord
  <2>5. CASE \E key \in Keys : find(key)
    <3>1. PICK key \in Keys : rd' = [NoLookup EXCEPT !.at = "descend", !.key = key]
      BY <2>5 DEF find
    <3> QED
      BY <3>1, <1>1, <2>3 DEF Reader, NoLookup, LookupRecord, Links
  <2>6. CASE \E p \in Offset : EndLookup(p)
    BY <2>6, <1>1, <2>3 DEF EndLookup, Reader, NoLookup, LookupRecord, Links
  <2>7. CASE ReadLink
    <3>1. r.way \in Links /\ r.at # "idle" /\ r.depth < Len(r.key)
      BY <2>1, <2>2, <2>7 DEF ReadLink, LookupRecord
    <3>2. PICK o : o = node[r.cur].link[r.way]
      OBVIOUS
    <3>3. CASE o = 0
      BY <2>1, <2>3, <2>6, <2>7, <3>2, <3>3 DEF ReadLink
    <3>4. CASE o # 0
      <4>1. o \in DOMAIN node /\ o \in Offset
        BY <2>2, <3>1, <3>2, <3>4 DEF Inv, LinksLead, AreaType
      <4>2. rd' = [r EXCEPT !.at = "sibling", !.cur = o, !.way = "children"]
        BY <2>1, <2>7, <3>2, <3>4 DEF ReadLink
      <4> QED
        BY <1>1, <2>2, <3>1, <4>1, <4>2 DEF Reader, LookupRecord, Links
    <3> QED
      BY <3>3, <3>4
  <2>8. CASE ReadName
    <3>1. r.at = "sibling"
      BY <2>1, <2>8 DEF ReadName
    <3>2. CASE node[r.cur].name = Target(r)
      <4>1. PICK d \in Nat : d = r.depth + 1
        BY <2>4
      <4>2. rd' = [r EXCEPT !.at = "descend", !.depth = d]
        BY <2>1, <2>8, <3>2, <4>1 DEF ReadName
      <4> QED
        BY <1>1, <2>2, <3>1, <4>2 DEF Reader, LookupRecord
    <3>3. CASE node[r.cur].name # Target(r)
      <4>1. PICK way \in Links : rd' = [r EXCEPT !.at = "load", !.way = way]
        BY <2>1, <2>8, <3>3 DEF ReadName, Branch, Links
      <4> QED
        BY <1>1, <2>2, <3>1, <4>1 DEF Reader, LookupRecord
    <3> QED
      BY <3>2, <3>3
  <2>9. CASE ReadProp
    <3>1. node[rd.cur].prop \in Offset
      BY <2>1, <2>2, Typed DEF Inv
    <3> QED
      BY <2>6, <2>9, <3>1 DEF ReadProp
  <2> QED
    BY <2>5, <2>7, <2>8, <2>9 DEF Read
<1> QED
  BY <1>2, <1>3, <1>4, <1>5, <1>6 DEF Inv, Rested

LEMMA InitInv ==
  Init => Inv
<1> SUFFICES ASSUME Init PROVE Inv
  OBVIOUS
<1>1. 0 \in Offset /\ INITIAL_BYTES_USED \in Offset /\ INITIAL_BYTES_USED = 112
  BY DataSizeAssumption DEF Offset, INITIAL_BYTES_USED, PROP_TRIE_NODE_HEADER_SIZE, DIRTY_BACKUP_SIZE
<1>2. ZeroNode \in Node /\ ZeroNode.name = RootName /\ ZeroNode.prop = 0 /\ \A f \in Links : ZeroNode.link[f] = 0
  BY <1>1 DEF ZeroNode, Node, Name, Offset, RootName
<1>3. bytes_used = 112 /\ DOMAIN node = {0} /\ node[0] = ZeroNode /\ DOMAIN info = {}
  BY <1>1 DEF Init
<1>4. AreaType
  <2>1. node \in [DOMAIN node -> Node] /\ info \in [DOMAIN info -> Info]
    BY <1>2 DEF Init
  <2> QED
    BY <2>1, <1>1, <1>3 DEF AreaType, Init
<1>5. Spread
  <2>1. NodeSize(RootName) = 20
    BY DEF NodeSize, RootName, align_up, PROP_TRIE_NODE_HEADER_SIZE
  <2>2. \A k \in Kinds : \A o \in Held(k) : k = "node" /\ o = 0
    BY <1>3 DEF Kinds, Held
  <2>3. End("node", 0) = 20
    BY <2>1, <1>2, <1>3 DEF End, Start, Size
  <2> QED
    BY <2>2, <2>3, <1>3 DEF Spread
<1>6. LinksLead
  BY <1>2, <1>3 DEF LinksLead
<1>7. OneCall /\ wr \in [Writers -> CallRecord] /\ Walker
  BY IdleStands DEF Init, OneCall, Walker
<1>8. Reader
  BY <1>1, <1>3 DEF Init, Reader, NoLookup, LookupRecord, Links
<1>9. Counted
  BY DEF Init, Counted
<1> QED
  BY <1>4, <1>5, <1>6, <1>7, <1>8, <1>9 DEF Inv

LEMMA NextInv ==
  Inv /\ [Next]_vars => Inv'
<1> SUFFICES ASSUME Inv, [Next]_vars PROVE Inv'
  OBVIOUS
<1>1. ASSUME NEW w \in Writers, Request(w) \/ Call(w), UNCHANGED <<kills, rd>> PROVE Inv'
  <2>1. CASE Request(w)
    BY <2>1, <1>1, RequestInv
  <2>2. CASE Follow(w) \/ Match(w) \/ AllocNode(w) \/ AllocInfo(w) \/ AllocLong(w)
    BY <2>2, <1>1, FollowInv, MatchInv, AllocNodeInv, AllocInfoInv, AllocLongInv
  <2>3. CASE Miss(w) \/ NoSlot(w) \/ Done(w)
    BY <2>3, <1>1, EndsInv
  <2>4. CASE new_trie_node(w) \/ LinkNode(w) \/ update(w) \/ new_prop_info(w) \/ new_prop_info_long(w)
    BY <2>4, <1>1, NewNodeInv, LinkNodeInv, UpdateInv, NewInfoInv, NewLongInv
  <2>5. CASE Publish(w) \/ Detach(w) \/ Wipe(w)
    BY <2>5, <1>1, PublishInv, DetachInv, WipeInv
  <2>6. CASE PruneInto(w) \/ PruneKeep(w) \/ PruneWipeName(w) \/ PruneWipeHeader(w) \/ PruneUnlink(w)
    BY <2>6, <1>1, PruneIntoInv, PruneKeepInv, PruneWipeNameInv, PruneWipeHeaderInv, PruneUnlinkInv
  <2> QED
    BY <2>1, <2>2, <2>3, <2>4, <2>5, <2>6, <1>1 DEF Call
<1>2. ASSUME NEW w \in Writers, Kill(w), UNCHANGED rd PROVE Inv'
  BY <1>2, EndsInv
<1>3. CASE Read /\ UNCHANGED <<area, wr, ret, kills>>
  BY <1>3, ReadInv
<1>4. CASE UNCHANGED vars
  <2>1. UNCHANGED area /\ wr' = wr /\ rd' = rd /\ ret' = ret /\ kills' = kills
        /\ node' = node /\ info' = info /\ bytes_used' = bytes_used
    BY <1>4 DEF vars, area
  <2>2. Rested' /\ OneCall' /\ wr' \in [Writers -> CallRecord] /\ Reader' /\ Counted'
    BY <2>1, RestedKept DEF Inv, Rested, OneCall, Reader, Counted
  <2>3. Walker'
    BY <2>1 DEF Inv, Walker, Stands, Allocated, Path, Held, End, Start, Size
  <2> QED
    BY <2>2, <2>3 DEF Inv, Rested
<1> QED
  BY <1>1, <1>2, <1>3, <1>4 DEF Next

\* Every link leads further up the area to an object that is there, whatever a killed
\* writer left: no lookup reads what is not an object, and every walk ends
\* (traverse_trie, prune_trie).
THEOREM WalksEnd == Spec => []LinksLead
<1>1. Inv => LinksLead
  BY DEF Inv
<1> QED
  BY <1>1, InitInv, NextInv, PTL DEF Spec

\* allocate never gives the same bytes twice, whatever a killed writer had taken: the
\* nodes, the prop_infos and the long values lie apart, all of them below bytes_used.
THEOREM BytesGivenOnce == Spec => []NoOverlap
<1>1. Inv => NoOverlap
  <2> SUFFICES ASSUME Inv, NEW x \in Extents, NEW y \in Extents
               PROVE  /\ x.off + x.size <= bytes_used
                      /\ x # y => x.off + x.size <= y.off \/ y.off + y.size <= x.off
    BY DEF NoOverlap
  <2>1. ASSUME NEW e \in Extents
        PROVE  \E k \in Kinds : \E o \in Held(k) : e = [off |-> Start(k, o), size |-> Size(k, o)]
    <3>1. CASE \E o \in DOMAIN node : e = [off |-> o, size |-> NodeSize(node[o].name)]
      BY <3>1 DEF Kinds, Held, Start, Size
    <3>2. CASE \E p \in DOMAIN info :
                 e = [off |-> p, size |-> IF info[p].key = <<>> THEN PROP_INFO_SIZE ELSE InfoSize(info[p].key)]
      BY <3>2 DEF Kinds, Held, Start, Size, KeySize
    <3>3. CASE \E p \in {q \in DOMAIN info : info[q].rel # 0} :
                 e = [off |-> p + info[p].rel, size |-> LongSize(info[p].val)]
      BY <3>3 DEF Kinds, Held, Start, Size
    <3> QED
      BY <3>1, <3>2, <3>3 DEF Extents
  <2>2. PICK k \in Kinds : \E o \in Held(k) : x = [off |-> Start(k, o), size |-> Size(k, o)]
    BY <2>1
  <2>3. PICK o \in Held(k) : x = [off |-> Start(k, o), size |-> Size(k, o)]
    BY <2>2
  <2>4. PICK l \in Kinds : \E q \in Held(l) : y = [off |-> Start(l, q), size |-> Size(l, q)]
    BY <2>1
  <2>5. PICK q \in Held(l) : y = [off |-> Start(l, q), size |-> Size(l, q)]
    BY <2>4
  <2>6. x # y => k # l \/ o # q
    BY <2>3, <2>5
  <2> QED
    BY <2>3, <2>5, <2>6 DEF Inv, Spread, End
<1> QED
  BY <1>1, InitInv, NextInv, PTL DEF Spec
===============================================================================
