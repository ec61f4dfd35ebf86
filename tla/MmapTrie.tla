------------------------------- MODULE MmapTrie -------------------------------
(***************************************************************************)
(* The trie and the allocator of MmapPropArea, the area that is mapped by  *)
(* every process (crates/prop-rs-android/src/mmap_prop_area.rs).  Writers  *)
(* add and remove properties while readers (find, and the libc of every    *)
(* process) walk the links without a lock.  There is one writer at a time, *)
(* as the comments of the code demand; it may be killed after any store,   *)
(* and the next one takes the area as it is.                               *)
(*                                                                         *)
(* One step is one store that others can see, or one load of a link.  The  *)
(* bytes of an object not linked yet are written in one step, and so is    *)
(* the update of a value, whose protocol SharedProp has in full.  Nothing  *)
(* is ever freed: a wiped object stays what zeroed bytes read as.          *)
(***************************************************************************)
EXTENDS PropLayout

CONSTANTS
  DataSize,   \* bytes of data_[]
  Writers,    \* the processes that write
  MaxKills    \* bound of a run: how often a writer is killed

ASSUME DataSizeAssumption == DataSize \in Nat /\ DataSize >= INITIAL_BYTES_USED

\* Segments hold no NUL: a name whose bytes were zeroed equals none of them.
ASSUME TextAssumption == \A k \in Keys : \A i \in DOMAIN k : k[i].text > 0

VARIABLES
  bytes_used,   \* the header field: where the next object is allocated
  node,         \* offset -> trie node
  info,         \* offset -> prop_info
  wr,           \* writer -> the call it is in
  ret,          \* how the last call of a writer ended
  kills,        \* how many writers were killed
  rd,           \* the lookup of a reader
  window        \* history: what the trie held for its key since it began

area == <<bytes_used, node, info>>
vars == <<bytes_used, node, info, wr, ret, kills, rd, window>>

Links     == {"left", "right", "children"}
NoValue   == [len |-> 0, text |-> 0]
ZeroNode  == [name |-> RootName, prop |-> 0, link |-> [f \in Links |-> 0]]
ZeroInfo  == [key |-> <<>>, val |-> NoValue, rel |-> 0]

\* A call: pc is where it stands, cur and depth the walk, room what allocate read of
\* bytes_used, way the link being followed or set, fresh the new object, path the
\* recursion of prune_trie.
Idle == [pc |-> "idle", op |-> "none", key |-> <<>>, val |-> NoValue,
         cur |-> 0, depth |-> 0, room |-> 0, way |-> "children", fresh |-> 0, path |-> <<>>]

NoLookup == [at |-> "idle", key |-> <<>>, cur |-> 0, depth |-> 0, way |-> "children", got |-> 0]

-------------------------------------------------------------------------------
AnyWriter(w) == TRUE   \* faulty variant
\* bump_area_serial_and_wake: "Must only be called by the single writer."
SingleWriter(w) == \A v \in Writers \ {w} : wr[v].pc = "idle"

Begin(w, op, key, val) ==
  /\ wr[w].pc = "idle" /\ SingleWriter(w)
  /\ wr' = [wr EXCEPT ![w] = [Idle EXCEPT !.pc = "descend", !.op = op, !.key = key, !.val = val]]
  /\ ret' = "pending"
  /\ UNCHANGED area

\* upsert looks first and then adds or updates.  Its first walk only loads, and the
\* walk of add goes the same way and updates what it finds: one walk stands for both.
upsert(w, key, val)       == Begin(w, "upsert", key, val)
remove_with_prune(w, key) == Begin(w, "remove", key, NoValue)

Become(w, call) == wr' = [wr EXCEPT ![w] = call] /\ UNCHANGED ret
Return(w, is)   == wr' = [wr EXCEPT ![w] = Idle] /\ ret' = is

\* The process of the writer dies: the mapping keeps what was stored.
Kill(w) ==
  /\ wr[w].pc # "idle" /\ kills < MaxKills /\ kills' = kills + 1
  /\ Return(w, "killed")
  /\ UNCHANGED area

-------------------------------------------------------------------------------
(***************************************************************************)
(* traverse_trie and find_trie_node, for a writer and for a lookup: x is   *)
(* its record.  At "descend" the node cur stands for the first depth       *)
(* segments; at "sibling" cur is a node of the search tree in which the    *)
(* next segment is looked for.                                             *)
(***************************************************************************)
Target(x) == x.key[x.depth + 1]

\* cmp_name
Branch(x) == IF Before(Target(x), node[x.cur].name) THEN "left" ELSE "right"

Arrived(w) == wr[w].pc = "descend" /\ wr[w].depth = Len(wr[w].key)
Walking(w) == \/ wr[w].pc = "descend" /\ wr[w].depth < Len(wr[w].key)
              \/ wr[w].pc = "sibling" /\ node[wr[w].cur].name # Target(wr[w])
Way(w)  == IF wr[w].pc = "descend" THEN "children" ELSE Branch(wr[w])
LinkOf(w) == node[wr[w].cur].link[Way(w)]

Follow(w) ==
  /\ Walking(w) /\ LinkOf(w) # 0
  /\ Become(w, [wr[w] EXCEPT !.pc = "sibling", !.cur = LinkOf(w)])
  /\ UNCHANGED area

Match(w) ==
  /\ wr[w].pc = "sibling" /\ node[wr[w].cur].name = Target(wr[w])
  /\ Become(w, [wr[w] EXCEPT !.pc = "descend", !.depth = @ + 1])
  /\ UNCHANGED area

Miss(w) ==
  /\ Walking(w) /\ LinkOf(w) = 0 /\ wr[w].op = "remove"
  /\ Return(w, "absent")
  /\ UNCHANGED area

-------------------------------------------------------------------------------
(***************************************************************************)
(* allocate: bytes_used is loaded and checked, and stored in another step. *)
(***************************************************************************)
AllocateToTheBrim(w, size, call) ==   \* faulty variant
  /\ IF bytes_used <= DataSize
     THEN Become(w, [call EXCEPT !.room = bytes_used]) ELSE Return(w, "full")
  /\ UNCHANGED area
Allocate(w, size, call) ==
  /\ IF bytes_used + size <= DataSize
     THEN Become(w, [call EXCEPT !.room = bytes_used]) ELSE Return(w, "full")
  /\ UNCHANGED area

Store(w, size) == bytes_used' = wr[w].room + size

AllocNode(w) ==
  /\ Walking(w) /\ LinkOf(w) = 0 /\ wr[w].op = "upsert"
  /\ Allocate(w, NodeSize(Target(wr[w])), [wr[w] EXCEPT !.pc = "new_node", !.way = Way(w)])

new_trie_node(w) ==
  /\ wr[w].pc = "new_node" /\ Store(w, NodeSize(Target(wr[w])))
  /\ node' = Put(node, wr[w].room, [ZeroNode EXCEPT !.name = Target(wr[w])])
  /\ Become(w, [wr[w] EXCEPT !.pc = "link", !.fresh = wr[w].room, !.room = 0])
  /\ UNCHANGED info

\* store_trie_ptr, with Release: whoever sees the link sees the node.
LinkNode(w) ==
  /\ wr[w].pc = "link"
  /\ node' = [node EXCEPT ![wr[w].cur].link[wr[w].way] = wr[w].fresh]
  /\ Become(w, [wr[w] EXCEPT !.pc = "descend", !.cur = wr[w].fresh, !.depth = @ + 1,
                             !.fresh = 0, !.way = "children"])
  /\ UNCHANGED <<bytes_used, info>>

-------------------------------------------------------------------------------
Slot(w) == node[wr[w].cur].prop

NoSlot(w) ==
  /\ Arrived(w) /\ Slot(w) = 0 /\ wr[w].op = "remove"
  /\ Return(w, "absent")
  /\ UNCHANGED area

\* update: a long value may take the aligned room of the one it replaces.
FitsInPlace(p, val) ==
  IF info[p].rel # 0 THEN val.len <= LongSize(info[p].val) - 1 ELSE ~IsLong(val)

update(w) ==
  /\ Arrived(w) /\ Slot(w) # 0 /\ wr[w].op = "upsert"
  /\ IF FitsInPlace(Slot(w), wr[w].val)
     THEN /\ info' = [info EXCEPT ![Slot(w)].val = wr[w].val]
          /\ Become(w, [wr[w] EXCEPT !.pc = "done"])
     ELSE Return(w, "too_long") /\ UNCHANGED info
  /\ UNCHANGED <<bytes_used, node>>

AllocInfoLinked(w) ==   \* faulty variant: the link is set before the prop_info is there
  /\ Arrived(w) /\ Slot(w) = 0 /\ wr[w].op = "upsert"
  /\ bytes_used + InfoSize(wr[w].key) <= DataSize
  /\ node' = [node EXCEPT ![wr[w].cur].prop = bytes_used]
  /\ Become(w, [wr[w] EXCEPT !.pc = "new_info", !.room = bytes_used])
  /\ UNCHANGED <<bytes_used, info>>
AllocInfo(w) ==
  /\ Arrived(w) /\ Slot(w) = 0 /\ wr[w].op = "upsert"
  /\ Allocate(w, InfoSize(wr[w].key), [wr[w] EXCEPT !.pc = "new_info"])

FullInfo(w, rel) == [key |-> wr[w].key, val |-> wr[w].val, rel |-> rel]

\* new_prop_info_inline, and the first allocation of new_prop_info_long.
new_prop_info(w) ==
  /\ wr[w].pc = "new_info" /\ Store(w, InfoSize(wr[w].key))
  /\ IF IsLong(wr[w].val)
     THEN /\ Become(w, [wr[w] EXCEPT !.pc = "alloc_long", !.fresh = wr[w].room, !.room = 0])
          /\ info' = Put(info, wr[w].room, ZeroInfo)
     ELSE /\ Become(w, [wr[w] EXCEPT !.pc = "publish", !.fresh = wr[w].room, !.room = 0])
          /\ info' = Put(info, wr[w].room, FullInfo(w, 0))
  /\ UNCHANGED node

AllocLong(w) ==
  wr[w].pc = "alloc_long" /\ Allocate(w, LongSize(wr[w].val), [wr[w] EXCEPT !.pc = "new_long"])

new_prop_info_long(w) ==
  /\ wr[w].pc = "new_long" /\ Store(w, LongSize(wr[w].val))
  /\ info' = [info EXCEPT ![wr[w].fresh] = FullInfo(w, wr[w].room - wr[w].fresh)]
  /\ Become(w, [wr[w] EXCEPT !.pc = "publish", !.room = 0])
  /\ UNCHANGED node

\* add: the prop_info is linked, with Release.
Publish(w) ==
  /\ wr[w].pc = "publish"
  /\ node' = [node EXCEPT ![wr[w].cur].prop = wr[w].fresh]
  /\ Become(w, [wr[w] EXCEPT !.pc = "done"])
  /\ UNCHANGED <<bytes_used, info>>

\* The area serial is bumped (SharedProp) and the call returns Ok.
Done(w) ==
  /\ wr[w].pc = "done" /\ Return(w, IF wr[w].op = "upsert" THEN "ok" ELSE "removed")
  /\ UNCHANGED area

-------------------------------------------------------------------------------
\* remove_with_prune detaches the prop_info first, then wipes it.
Detach(w) ==
  /\ Arrived(w) /\ Slot(w) # 0 /\ wr[w].op = "remove"
  /\ node' = [node EXCEPT ![wr[w].cur].prop = 0]
  /\ Become(w, [wr[w] EXCEPT !.pc = "wipe", !.fresh = Slot(w)])
  /\ UNCHANGED <<bytes_used, info>>

Wipe(w) ==
  /\ wr[w].pc = "wipe"
  /\ info' = [info EXCEPT ![wr[w].fresh] = ZeroInfo]
  /\ Become(w, [wr[w] EXCEPT !.pc = "prune", !.fresh = 0, !.cur = 0, !.depth = 0,
                             !.path = <<[at |-> 0, link |-> 1]>>])
  /\ UNCHANGED <<bytes_used, node>>

-------------------------------------------------------------------------------
(***************************************************************************)
(* prune_trie(0), depth first.  The last frame of path is the node being   *)
(* visited and which of its links, in the order of the code, is next.      *)
(***************************************************************************)
Order == <<"children", "left", "right">>

Frame(w) == wr[w].path[Len(wr[w].path)]
Above(w) == wr[w].path[Len(wr[w].path) - 1]

AheadButRight(fr) == {i \in fr.link..2 : node[fr.at].link[Order[i]] # 0}   \* faulty variant
Ahead(fr) == {i \in fr.link..3 : node[fr.at].link[Order[i]] # 0}

Visiting(w) == wr[w].pc = "prune" /\ Ahead(Frame(w)) # {}
Visited(w)  == wr[w].pc = "prune" /\ Ahead(Frame(w)) = {}

PruneInto(w) ==
  /\ Visiting(w)
  /\ LET i == CHOOSE i \in Ahead(Frame(w)) : \A j \in Ahead(Frame(w)) : i <= j
         below == Append(wr[w].path, [at |-> node[Frame(w).at].link[Order[i]], link |-> 1])
     IN  Become(w, [wr[w] EXCEPT !.path = [below EXCEPT ![Len(below) - 1].link = i]])
  /\ UNCHANGED area

RedundantWithoutRight(o) ==   \* faulty variant
  node[o].prop = 0 /\ node[o].link.children = 0 /\ node[o].link.left = 0
\* is_leaf and no property: every subtree it had was pruned.
Redundant(o) == node[o].prop = 0 /\ \A f \in Links : node[o].link[f] = 0

\* The frame above goes on with its next link.
Back(w, call) ==
  LET up == SubSeq(wr[w].path, 1, Len(wr[w].path) - 1) IN
  Become(w, [call EXCEPT !.path =
               IF up = <<>> THEN <<>> ELSE [up EXCEPT ![Len(up)].link = @ + 1]])

PruneKeep(w) ==
  /\ Visited(w) /\ ~Redundant(Frame(w).at)
  /\ Back(w, [wr[w] EXCEPT !.pc = IF Len(wr[w].path) = 1 THEN "done" ELSE "prune"])
  /\ UNCHANGED area

\* write_bytes over the name, which keeps its length ...
PruneWipeName(w) ==
  /\ Visited(w) /\ Redundant(Frame(w).at)
  /\ node' = [node EXCEPT ![Frame(w).at].name.text = 0]
  /\ Become(w, [wr[w] EXCEPT !.pc = "prune_header"])
  /\ UNCHANGED <<bytes_used, info>>

\* ... then over the header.  The root has no parent.
PruneWipeHeader(w) ==
  /\ wr[w].pc = "prune_header"
  /\ node' = [node EXCEPT ![Frame(w).at] = ZeroNode]
  /\ IF Len(wr[w].path) = 1 THEN Back(w, [wr[w] EXCEPT !.pc = "done"])
     ELSE Become(w, [wr[w] EXCEPT !.pc = "prune_unlink"])
  /\ UNCHANGED <<bytes_used, info>>

\* The parent clears the link to what was wiped.
PruneUnlink(w) ==
  /\ wr[w].pc = "prune_unlink"
  /\ node' = [node EXCEPT ![Above(w).at].link[Order[Above(w).link]] = 0]
  /\ Back(w, [wr[w] EXCEPT !.pc = "prune"])
  /\ UNCHANGED <<bytes_used, info>>

-------------------------------------------------------------------------------
(***************************************************************************)
(* A lookup: find, or __system_property_find in any process.  The name of  *)
(* a node is compared in one step and the link loaded in the next.         *)
(***************************************************************************)
find(key) ==
  /\ rd.at = "idle"
  /\ rd' = [NoLookup EXCEPT !.at = "descend", !.key = key]

EndLookup(p) == rd' = [NoLookup EXCEPT !.got = p]

ReadLink ==
  /\ \/ rd.at = "descend" /\ rd.depth < Len(rd.key)
     \/ rd.at = "load"
  /\ LET o == node[rd.cur].link[rd.way] IN
     IF o = 0 THEN EndLookup(0)
     ELSE rd' = [rd EXCEPT !.at = "sibling", !.cur = o, !.way = "children"]

ReadName ==
  /\ rd.at = "sibling"
  /\ rd' = IF node[rd.cur].name = Target(rd)
           THEN [rd EXCEPT !.at = "descend", !.depth = @ + 1]
           ELSE [rd EXCEPT !.at = "load", !.way = Branch(rd)]

ReadProp ==
  /\ rd.at = "descend" /\ rd.depth = Len(rd.key)
  /\ EndLookup(node[rd.cur].prop)

-------------------------------------------------------------------------------
\* What a lookup would find if nobody else moved.
Lookup(key) ==
  LET walk[o \in DOMAIN node] ==
        [d \in 1..Len(key) |->
          IF node[o].name = key[d]
          THEN IF d = Len(key) THEN node[o].prop
               ELSE IF node[o].link.children = 0 THEN 0 ELSE walk[node[o].link.children][d + 1]
          ELSE LET l == node[o].link[IF Before(key[d], node[o].name) THEN "left" ELSE "right"]
               IN  IF l = 0 THEN 0 ELSE walk[l][d]]
  IN  IF node[0].link.children = 0 THEN 0 ELSE walk[node[0].link.children][1]

Watch ==
  window' = IF rd'.at = "idle" THEN {} ELSE window \cup {Lookup(rd.key)'}

Init ==
  /\ bytes_used = INITIAL_BYTES_USED
  /\ node = [o \in {0} |-> ZeroNode] /\ info = [o \in {} |-> ZeroInfo]
  /\ wr = [w \in Writers |-> Idle] /\ ret = "ok" /\ kills = 0
  /\ rd = NoLookup /\ window = {}

Request(w) == \E key \in Keys : \/ remove_with_prune(w, key)
                                \/ \E val \in Values : upsert(w, key, val)

Call(w) ==
  \/ Follow(w) \/ Match(w) \/ Miss(w) \/ AllocNode(w) \/ new_trie_node(w) \/ LinkNode(w)
  \/ NoSlot(w) \/ update(w) \/ AllocInfo(w) \/ new_prop_info(w) \/ AllocLong(w)
  \/ new_prop_info_long(w) \/ Publish(w) \/ Done(w) \/ Detach(w) \/ Wipe(w)
  \/ PruneInto(w) \/ PruneKeep(w) \/ PruneWipeName(w) \/ PruneWipeHeader(w) \/ PruneUnlink(w)

Read == (\E key \in Keys : find(key)) \/ ReadLink \/ ReadName \/ ReadProp

Next ==
  /\ \/ \E w \in Writers : (Request(w) \/ Call(w)) /\ UNCHANGED <<kills, rd>>
     \/ \E w \in Writers : Kill(w) /\ UNCHANGED rd
     \/ Read /\ UNCHANGED <<area, wr, ret, kills>>
  /\ Watch

Spec == Init /\ [][Next]_vars

-------------------------------------------------------------------------------
Offset == 0..DataSize
Name   == Segment \cup {[len |-> n, text |-> 0] : n \in 0..DataSize}
Places == {"idle", "descend", "sibling", "new_node", "link", "new_info", "alloc_long", "new_long",
           "publish", "done", "wipe", "prune", "prune_header", "prune_unlink"}
Node   == [name : Name, prop : Offset, link : [Links -> Offset]]
Info   == [key : Keys \cup {<<>>}, val : Value, rel : Offset]
CallRecord ==
  [pc : Places, op : {"none", "upsert", "remove"}, key : Keys \cup {<<>>}, val : Value,
   cur : Offset, depth : Nat, room : Offset, way : Links, fresh : Offset,
   path : Seq([at : Offset, link : 1..4])]
LookupRecord ==
  [at : {"idle", "descend", "sibling", "load"}, key : Keys \cup {<<>>}, cur : Offset,
   depth : Nat, way : Links, got : Offset]

\* Offsets stay inside data_[], and every object and every record has its type.
TypeOK ==
  /\ bytes_used \in Offset
  /\ DOMAIN node \subseteq Offset /\ node \in [DOMAIN node -> Node]
  /\ DOMAIN info \subseteq Offset /\ info \in [DOMAIN info -> Info]
  /\ wr \in [Writers -> CallRecord] /\ rd \in LookupRecord
  /\ kills \in Nat /\ window \subseteq Offset
  /\ ret \in {"pending", "ok", "removed", "absent", "full", "too_long", "killed"}

\* What was published is there and lies further up the area: no lookup, of a reader or
\* of a writer, reads bytes that are not an object yet, and every walk ends, whatever
\* a killed writer left behind.
LinksLead ==
  \A o \in DOMAIN node :
    /\ \A f \in Links : node[o].link[f] # 0 => node[o].link[f] \in DOMAIN node /\ o < node[o].link[f]
    /\ node[o].prop # 0 => node[o].prop \in DOMAIN info /\ o < node[o].prop

Extents ==
  {[off |-> o, size |-> NodeSize(node[o].name)] : o \in DOMAIN node}
  \cup {[off |-> p, size |-> IF info[p].key = <<>> THEN PROP_INFO_SIZE ELSE InfoSize(info[p].key)]
          : p \in DOMAIN info}
  \cup {[off |-> p + info[p].rel, size |-> LongSize(info[p].val)]
          : p \in {q \in DOMAIN info : info[q].rel # 0}}

\* allocate never gives the same bytes twice, and everything given lies below
\* bytes_used: what a reader still holds is its own prop_info, blank or not.
NoOverlap ==
  \A x, y \in Extents : /\ x.off + x.size <= bytes_used
                        /\ x # y => x.off + x.size <= y.off \/ y.off + y.size <= x.off

\* A remove that returned leaves no node that holds nothing and leads nowhere, not
\* even one that a killed writer or a full area left before.
RemoveLeavesNoDeadNode ==
  ret = "removed" =>
    \A o \in DOMAIN node, f \in Links : node[o].link[f] # 0 => ~Redundant(node[o].link[f])

Active == {w \in Writers : wr[w].pc # "idle"}
Now    == IF Active = {} THEN Idle ELSE wr[CHOOSE w \in Active : TRUE]
Stage  == IF Active = {} THEN "idle"
          ELSE IF Now.pc \in {"done", "wipe", "prune", "prune_header", "prune_unlink"} THEN "done"
          ELSE "called"

Live == INSTANCE LiveStore
          WITH store <- [k \in Keys |-> Lookup(k)], stage <- Stage,
               call <- [op |-> Now.op, key |-> Now.key], reading <- rd.key, got <- rd.got

\* The trie is a map under one writer and lock-free readers: each call takes effect in
\* one step, a kill loses no property and brings none back, a reader finds what was
\* there all along and returns nothing that was not there during its walk.
ImplementsLiveStore == Live!SSpec
===============================================================================
