------------------------------- MODULE PropArea -------------------------------
(***************************************************************************)
(* PropArea of crates/prop-rs/src/prop_area.rs: a bump-allocated area that *)
(* holds a trie of name segments.  The children of a node form a binary    *)
(* search tree linked by left and right, and a node may own a prop_info,   *)
(* which may own an out-of-line long value.                                *)
(*                                                                         *)
(* The area is a file or a mapping, so every write of it outlives the      *)
(* process: one step here is one object written, moved or wiped together   *)
(* with the link to it, or one turn of a loop, and a state between two     *)
(* steps is what a process that stops there leaves behind.                 *)
(***************************************************************************)
EXTENDS PropLayout, FiniteSets

CONSTANT DataSize   \* bytes of data_[]

ASSUME DataSizeAssumption == DataSize \in Nat /\ DataSize >= INITIAL_BYTES_USED

VARIABLES
  bytes_used,   \* the header field: where the next object is allocated
  node,         \* offset -> trie node
  info,         \* offset -> prop_info
  long,         \* offset -> long value
  pc,           \* where the operation under way stands
  call,         \* the operation under way
  cur,          \* the trie node the walk stands at
  depth,        \* how many segments of the key the walk has matched
  fresh,        \* the prop_info being created, updated or wiped
  ret           \* how the last operation ended

area    == <<bytes_used, node, info, long>>
walk    == <<cur, depth, fresh>>
vars    == <<bytes_used, node, info, long, pc, call, cur, depth, fresh, ret>>

Links   == {"left", "right", "children"}
NoValue == [len |-> 0, text |-> 0]
NoCall  == [op |-> "none", key |-> <<>>, val |-> NoValue]

NewNode(name) == [name |-> name, prop |-> 0, link |-> [f \in Links |-> 0]]

\* A prop_info: its key, the length byte and the kLongFlag of its serial, the
\* inline value, and the distance to its long value (0 in the inline layout).
InitialInfo(key, val, rel) ==
  [key |-> key, serial_len |-> 0, is_long |-> FALSE, val |-> val, rel |-> rel]

-------------------------------------------------------------------------------
Result(is, val) == [is |-> is, val |-> val]

Return(is, val) ==
  /\ pc' = "idle" /\ call' = NoCall /\ ret' = Result(is, val)
  /\ cur' = 0 /\ depth' = 0 /\ fresh' = 0

Goto(l) == pc' = l /\ UNCHANGED <<call, ret>>

Begin(op, key, val) ==
  /\ pc = "idle"
  /\ call' = [op |-> op, key |-> key, val |-> val]
  /\ pc' = "descend" /\ ret' = Result("pending", NoValue)
  /\ UNCHANGED <<area, walk>>

get_property(key)      == Begin("get", key, NoValue)
set_property(key, val) == Begin("set", key, val)
delete_property(key)   == Begin("delete", key, NoValue)

\* allocate_obj: the check against data_size, then the bump of bytes_used.
FitsBeforeTheBump(size) == bytes_used < DataSize   \* faulty variant
Fits(size) == bytes_used + size <= DataSize
Bump(size) == bytes_used' = bytes_used + size

-------------------------------------------------------------------------------
(***************************************************************************)
(* traverse_trie and ensure_traverse_trie.  At "descend" the node cur      *)
(* stands for the first depth segments; at "sibling" cur is a node of the  *)
(* search tree in which the next segment is looked for.                    *)
(***************************************************************************)
Target  == call.key[depth + 1]
Arrived == pc = "descend" /\ depth = Len(call.key)
Matched == pc = "sibling" /\ node[cur].name = Target
Walking == \/ pc = "descend" /\ depth < Len(call.key)
           \/ pc = "sibling" /\ node[cur].name # Target

BranchByBytesAlone ==   \* faulty variant: insertion forgets that shorter comes first
  IF pc = "descend" THEN "children"
  ELSE IF call.op = "set" /\ Target.text < node[cur].name.text THEN "left"
  ELSE IF call.op # "set" /\ Before(Target, node[cur].name) THEN "left" ELSE "right"
Branch == IF pc = "descend" THEN "children"
          ELSE IF Before(Target, node[cur].name) THEN "left" ELSE "right"
NextLink == node[cur].link[Branch]

Follow ==
  /\ Walking /\ NextLink # 0
  /\ cur' = NextLink /\ Goto("sibling")
  /\ UNCHANGED <<area, depth, fresh>>

Match ==
  /\ Matched
  /\ depth' = depth + 1 /\ Goto("descend")
  /\ UNCHANGED <<area, cur, fresh>>

\* A lookup that meets a null link: Ok(None), Ok(false).
Miss ==
  /\ Walking /\ NextLink = 0 /\ call.op # "set"
  /\ Return("absent", NoValue)
  /\ UNCHANGED area

\* create_trie_node, then the null link is made to point at it.
GrowTrie ==
  /\ Walking /\ NextLink = 0 /\ call.op = "set" /\ Fits(NodeSize(Target))
  /\ Bump(NodeSize(Target))
  /\ node' = Put([node EXCEPT ![cur].link[Branch] = bytes_used], bytes_used, NewNode(Target))
  /\ cur' = bytes_used /\ depth' = depth + 1 /\ Goto("descend")
  /\ UNCHANGED <<info, long, fresh>>

\* AreaFull while the trie grows: the nodes made so far stay.
GrowTrieFull ==
  /\ Walking /\ NextLink = 0 /\ call.op = "set" /\ ~Fits(NodeSize(Target))
  /\ Return("full", NoValue)
  /\ UNCHANGED area

-------------------------------------------------------------------------------
Slot == node[cur].prop

\* read_prop_record: the long value when the serial carries kLongFlag.
ReadValue(p) == IF info[p].is_long THEN long[p + info[p].rel] ELSE info[p].val

ReadSlot ==
  /\ Arrived /\ call.op = "get"
  /\ IF Slot = 0 THEN Return("absent", NoValue) ELSE Return("found", ReadValue(Slot))
  /\ UNCHANGED area

NothingToDelete ==
  /\ Arrived /\ call.op = "delete" /\ Slot = 0
  /\ Return("absent", NoValue)
  /\ UNCHANGED area

\* The value fits where the old one lies: under PROP_VALUE_MAX inline, and
\* no longer than the string now there in the long layout.
FitsInPlace(p, val) ==
  IF info[p].is_long THEN val.len <= ReadValue(p).len ELSE ~IsLong(val)

UpdateInPlace ==
  /\ Arrived /\ call.op = "set" /\ Slot # 0 /\ FitsInPlace(Slot, call.val)
  /\ IF info[Slot].is_long
     THEN long' = [long EXCEPT ![Slot + info[Slot].rel] = call.val] /\ UNCHANGED info
     ELSE info' = [info EXCEPT ![Slot].val = call.val] /\ UNCHANGED long
  /\ fresh' = Slot /\ Goto("publish")
  /\ UNCHANGED <<bytes_used, node, cur, depth>>

DetachKeepingTheLink ==   \* faulty variant
  /\ Arrived /\ Slot # 0
  /\ call.op = "delete" \/ (call.op = "set" /\ ~FitsInPlace(Slot, call.val))
  /\ fresh' = Slot /\ Goto("wipe")
  /\ UNCHANGED <<area, cur, depth>>
\* node.prop = 0, by a delete or by a set whose value does not fit in place.
Detach ==
  /\ Arrived /\ Slot # 0
  /\ \/ call.op = "delete"
     \/ call.op = "set" /\ ~FitsInPlace(Slot, call.val)
  /\ node' = [node EXCEPT ![cur].prop = 0]
  /\ fresh' = Slot /\ Goto("wipe")
  /\ UNCHANGED <<bytes_used, info, long, cur, depth>>

WipeKeepingLong ==   \* faulty variant
  /\ pc = "wipe"
  /\ info' = Drop(info, fresh) /\ long' = long
  /\ fresh' = 0 /\ Goto(IF call.op = "set" THEN "descend" ELSE "prune")
  /\ UNCHANGED <<bytes_used, node, cur, depth>>

\* wipe_prop_info.  A set goes on to create, a delete goes on to prune.
Wipe ==
  /\ pc = "wipe"
  /\ info' = Drop(info, fresh)
  /\ long' = IF info[fresh].is_long THEN Drop(long, fresh + info[fresh].rel) ELSE long
  /\ fresh' = 0 /\ Goto(IF call.op = "set" THEN "descend" ELSE "prune")
  /\ UNCHANGED <<bytes_used, node, cur, depth>>

-------------------------------------------------------------------------------
(***************************************************************************)
(* create_prop_info_no_serial, the link to it, and the serial.             *)
(***************************************************************************)
Creating == Arrived /\ call.op = "set" /\ Slot = 0

AllocInfo ==
  /\ Creating /\ Fits(InfoSize(call.key))
  /\ Bump(InfoSize(call.key)) /\ fresh' = bytes_used
  /\ IF IsLong(call.val)
     THEN Goto("alloc_long") /\ UNCHANGED info
     ELSE /\ info' = Put(info, bytes_used, InitialInfo(call.key, call.val, 0))
          /\ Goto("link")
  /\ UNCHANGED <<node, long, cur, depth>>

\* write_long_layout_no_serial: the long value is allocated behind its prop_info.
AllocLong ==
  /\ pc = "alloc_long" /\ Fits(LongSize(call.val))
  /\ Bump(LongSize(call.val))
  /\ long' = Put(long, bytes_used, call.val)
  /\ info' = Put(info, fresh, InitialInfo(call.key, LONG_LEGACY_ERROR, bytes_used - fresh))
  /\ Goto("link")
  /\ UNCHANGED <<node, cur, depth, fresh>>

\* AreaFull: the room of a prop_info already allocated stays taken, zeroed.
AllocFull ==
  /\ \/ Creating /\ ~Fits(InfoSize(call.key))
     \/ pc = "alloc_long" /\ ~Fits(LongSize(call.val))
  /\ Return("full", NoValue)
  /\ UNCHANGED area

Link ==
  /\ pc = "link"
  /\ node' = [node EXCEPT ![cur].prop = fresh] /\ Goto("publish_new")
  /\ UNCHANGED <<bytes_used, info, long, walk>>

\* set_property publishes the serial last: a new property takes its layout
\* from the value, an updated one keeps the layout it has.
SerialLen(is_long, val) == IF is_long THEN LONG_LEGACY_ERROR.len ELSE val.len

PublishLayout(is_long) ==
  /\ info' = [info EXCEPT ![fresh].serial_len = SerialLen(is_long, call.val),
                          ![fresh].is_long = is_long]
  /\ Return("ok", NoValue)
  /\ UNCHANGED <<bytes_used, node, long>>

PublishByValue ==   \* faulty variant: an update takes its layout from the value too
  pc \in {"publish_new", "publish"} /\ PublishLayout(IsLong(call.val))
Publish ==
  \/ pc = "publish_new" /\ PublishLayout(IsLong(call.val))
  \/ pc = "publish" /\ PublishLayout(info[fresh].is_long)

-------------------------------------------------------------------------------
(***************************************************************************)
(* prune_trie: a node that owns nothing and leads nowhere is zeroed and    *)
(* the link to it cleared, bottom-up, until none is left.  The code visits *)
(* children, left, right; the order of unrelated subtrees is left open.    *)
(***************************************************************************)
Empty(o) == node[o].prop = 0 /\ \A f \in Links : node[o].link[f] = 0

PruneKeepingTheLink(p, f) ==   \* faulty variant
  LET o == node[p].link[f] IN
  /\ pc = "prune" /\ o # 0 /\ o \in DOMAIN node /\ Empty(o)
  /\ node' = Drop(node, o)
  /\ Goto("prune")
  /\ UNCHANGED <<bytes_used, info, long, walk>>
PruneDoingNothing(p, f) ==   \* faulty variant
  /\ pc = "prune" /\ node[p].link[f] # 0 /\ Empty(node[p].link[f])
  /\ UNCHANGED vars
PruneNode(p, f) ==
  LET o == node[p].link[f] IN
  /\ pc = "prune" /\ o # 0 /\ Empty(o)
  /\ node' = Drop([node EXCEPT ![p].link[f] = 0], o)
  /\ Goto("prune")
  /\ UNCHANGED <<bytes_used, info, long, walk>>

PruneDone ==
  /\ pc = "prune"
  /\ \A p \in DOMAIN node, f \in Links : node[p].link[f] # 0 => ~Empty(node[p].link[f])
  /\ Return("deleted", NoValue)
  /\ UNCHANGED area

-------------------------------------------------------------------------------
\* PropArea::create
Init ==
  /\ bytes_used = INITIAL_BYTES_USED
  /\ node = [o \in {0} |-> NewNode(RootName)]
  /\ info = [o \in {} |-> InitialInfo(<<>>, NoValue, 0)]
  /\ long = [o \in {} |-> NoValue]
  /\ pc = "idle" /\ call = NoCall /\ cur = 0 /\ depth = 0 /\ fresh = 0
  /\ ret = Result("ok", NoValue)

Request ==
  \E key \in Keys :
    \/ get_property(key)
    \/ delete_property(key)
    \/ \E val \in Values : set_property(key, val)

Step ==
  \/ Follow \/ Match \/ Miss \/ GrowTrie \/ GrowTrieFull
  \/ ReadSlot \/ NothingToDelete \/ UpdateInPlace \/ Detach \/ Wipe
  \/ AllocInfo \/ AllocLong \/ AllocFull \/ Link \/ Publish
  \/ \E p \in DOMAIN node, f \in Links : PruneNode(p, f)
  \/ PruneDone

Next == Request \/ Step

\* An operation runs to its end: nothing in the code waits.
Spec == Init /\ [][Next]_vars /\ WF_vars(Step)

-------------------------------------------------------------------------------
Objects == DOMAIN node \cup DOMAIN info \cup DOMAIN long
ObjectSize(o) ==
  IF o \in DOMAIN node THEN NodeSize(node[o].name)
  ELSE IF o \in DOMAIN info THEN InfoSize(info[o].key) ELSE LongSize(long[o])

Offset == 0..DataSize
Ops    == {"none", "get", "set", "delete", "compact"}
Places == {"idle", "descend", "sibling", "wipe", "alloc_long", "link", "publish_new",
           "publish", "prune", "collect", "plan", "move"}
Node   == [name : Segment \cup {RootName}, prop : Offset, link : [Links -> Offset]]
Info   == [key : Keys, serial_len : Nat, is_long : BOOLEAN, val : Value, rel : Offset]
Call   == [op : Ops, key : Keys \cup {<<>>}, val : Value]
Status == {"ok", "full", "absent", "found", "deleted", "pending",
           "no_holes", "adjusted", "moved"}

AreaTypeOK ==
  /\ bytes_used \in Offset
  /\ DOMAIN node \subseteq Offset /\ node \in [DOMAIN node -> Node]
  /\ DOMAIN info \subseteq Offset /\ info \in [DOMAIN info -> Info]
  /\ DOMAIN long \subseteq Offset /\ long \in [DOMAIN long -> Value]

ControlTypeOK ==
  /\ pc \in Places /\ call \in Call
  /\ cur \in Offset /\ depth \in Nat /\ fresh \in Offset
  /\ ret \in [is : Status, val : Value]

\* Offsets stay inside data_[], and every object and control variable has its type.
TypeOK == AreaTypeOK /\ ControlTypeOK

\* A link of the trie leads to a node that is there, further up the area: the
\* walks end, and a referer is always moved before what it refers to.
TrieAscends ==
  \A o \in DOMAIN node, f \in Links :
    node[o].link[f] # 0 => node[o].link[f] \in DOMAIN node /\ o < node[o].link[f]

\* The same of the link from a node to its prop_info.
OwnersAscend ==
  \A o \in DOMAIN node :
    node[o].prop # 0 => node[o].prop \in DOMAIN info /\ o < node[o].prop

\* Objects never share a byte and all lie below bytes_used, where the next
\* allocation begins.
NoOverlap ==
  \A o \in Objects : /\ o + ObjectSize(o) <= bytes_used
                     /\ \A q \in Objects : o < q => o + ObjectSize(o) <= q
===============================================================================
