----------------------------- MODULE PropAreaStore -----------------------------
(***************************************************************************)
(* PropAreaCompact implements PropStore: the map is what a search for each *)
(* key finds.                                                              *)
(***************************************************************************)
EXTENDS PropAreaCompact

\* find_sibling and traverse_trie from node[0], as one function of the key;
\* 0 when there is no such node (the root is no key's node).
FindSibling(first, seg) ==
  LET at[o \in DOMAIN node] ==
        IF node[o].name = seg THEN o
        ELSE LET l == node[o].link[IF Before(seg, node[o].name) THEN "left" ELSE "right"]
             IN  IF l = 0 THEN 0 ELSE at[l]
  IN  at[first]

TraverseTrie(key) ==
  LET at[d \in 0..Len(key)] ==
        IF d = 0 THEN 0
        ELSE LET up == at[d - 1] IN
             IF (d > 1 /\ up = 0) \/ node[up].link.children = 0 THEN 0
             ELSE FindSibling(node[up].link.children, key[d])
  IN  at[Len(key)]

PropOf(key) == LET o == TraverseTrie(key) IN IF o = 0 THEN 0 ELSE node[o].prop

\* Where the long value of the prop_info at p lies; while objects move, one that
\* has not moved yet is where its record says, behind the back of its prop_info.
Waiting(p) ==
  {r \in todo : /\ pc = "move" /\ r.field = "rel" /\ Remapped(r.ref) = p
                /\ \A q \in todo : q.off # r.ref}
LongOf(p) ==
  IF Waiting(p) # {} THEN (CHOOSE r \in Waiting(p) : TRUE).off ELSE p + info[p].rel
ValueOf(p) ==
  IF info[p].rel = 0 THEN info[p].val
  ELSE IF LongOf(p) \in DOMAIN long THEN long[LongOf(p)] ELSE NoValue

Found == {k \in Keys : PropOf(k) # 0}

\* for_each_property: the nodes it calls back for.
Listed == Owners(Reached)

\* scan_allocations: where the holes between its objects, and behind them, begin.
Holes(R) ==
  {EndBefore(R, r.off) : r \in BehindHole(R)} \cup ({EndBefore(R, DataSize + 1)} \ {bytes_used})

Stage ==
  IF pc = "idle" THEN "idle"
  ELSE IF pc \in {"publish", "publish_new", "prune"} \/ (pc = "wipe" /\ call.op = "delete")
  THEN "done" ELSE "called"

Store == INSTANCE PropStore
           WITH store <- [k \in Found |-> ValueOf(PropOf(k))], stage <- Stage, reply <- ret

\* Gets, sets, deletes and compactions, with the failures of each, behave as a map.
ImplementsStore == Store!SSpec

\* Every call returns: the walks, the pruning and the loops of a compaction end.
EveryCallReturns == pc # "idle" ~> pc = "idle"

-------------------------------------------------------------------------------
\* Between operations for_each_property lists exactly the properties get_property
\* finds, each once and under its own key: the search order of the siblings, the
\* links and the names agree.
LookupAgreesWithIteration ==
  pc = "idle" =>
    /\ {info[node[o].prop].key : o \in Listed} = Found
    /\ \A o \in Listed : PropOf(info[node[o].prop].key) = node[o].prop

\* Between operations every object is in use: each node but the root has one link
\* to it, each prop_info one node, each long value one prop_info.  Deleting and
\* pruning, replacing and failing never leave an object nobody refers to.
EveryObjectOwned ==
  pc = "idle" =>
    /\ Cardinality(LinksOf(DOMAIN node)) = Cardinality(DOMAIN node) - 1
    /\ Reached = DOMAIN node
    /\ DOMAIN info = {node[o].prop : o \in Owners(DOMAIN node)}
    /\ Cardinality(DOMAIN info) = Cardinality(Owners(DOMAIN node))
    /\ DOMAIN long = {p + info[p].rel : p \in {q \in DOMAIN info : info[q].is_long}}

\* Between operations the serial tells the layout: kLongFlag exactly when the
\* value lies out of line behind the prop_info's name, and the length a reader
\* copies the inline value with.
SerialTellsLayout ==
  pc = "idle" =>
    \A p \in DOMAIN info :
      /\ info[p].is_long <=> info[p].rel # 0
      /\ info[p].is_long => info[p].rel >= InfoSize(info[p].key)
      /\ info[p].serial_len = info[p].val.len

\* After a compaction scan_allocations finds no hole, between the objects or
\* behind them, and every object is where its record says.
CompactLeavesNoHole ==
  pc = "idle" /\ ret.is \in {"no_holes", "adjusted", "moved"} =>
    LET R == Records IN
    /\ Holes(R) = {}
    /\ {r.off : r \in R \ BackupRecord} = Objects

\* The bytes behind the root that create() reserves for the dirty backup are never
\* given to an object.  compact_allocations guesses whether they are reserved, and
\* guesses wrong in an area whose last property was deleted.
BackupRoomReserved == \A o \in Objects \ {0} : o >= INITIAL_BYTES_USED
===============================================================================
