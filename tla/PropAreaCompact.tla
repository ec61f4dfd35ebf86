---------------------------- MODULE PropAreaCompact ----------------------------
(***************************************************************************)
(* PropArea with compact_allocations: the pass that packs the live objects *)
(* behind the first hole, in the order they lie in, patching the field     *)
(* that refers to each object as it moves.                                 *)
(***************************************************************************)
EXTENDS PropArea

VARIABLES
  recs,     \* the CompactRecords at or behind the first hole
  todo,     \* those the running loop has not come to yet
  cursor,   \* new_cursor
  remap     \* offset_remap: old offset -> new offset

cvars == <<recs, todo, cursor, remap>>
cAll  == <<vars, cvars>>

MaxOf(S)  == CHOOSE x \in S : \A y \in S : y <= x
Lowest(S) == CHOOSE r \in S : \A q \in S : r.off <= q.off
NoMap     == [o \in {} |-> 0]

-------------------------------------------------------------------------------
\* has_dirty_backup: a guess from where the root's first child lies.
has_dirty_backup ==
  IF node[0].link.children = 0 THEN bytes_used = INITIAL_BYTES_USED
  ELSE node[0].link.children # PROP_TRIE_NODE_HEADER_SIZE

FirstOffset == IF has_dirty_backup THEN INITIAL_BYTES_USED ELSE PROP_TRIE_NODE_HEADER_SIZE

\* The nodes collect_compact_records_from comes to, from the root.
ClosedUnderLinks(S) == \A o \in S, f \in Links : node[o].link[f] # 0 => node[o].link[f] \in S
Reached ==
  {o \in DOMAIN node : \A S \in SUBSET DOMAIN node :
                          (0 \in S /\ ClosedUnderLinks(S)) => o \in S}

CompactRecord(off, size, ref, field) ==
  [off |-> off, size |-> size, ref |-> ref, field |-> field]

LinksOf(R) == {l \in R \X Links : node[l[1]].link[l[2]] # 0}
Owners(R)  == {o \in R : node[o].prop # 0}

NodeRecords(R) ==
  {CompactRecord(0, NodeSize(node[0].name), 0, "none")} \cup
  {CompactRecord(node[l[1]].link[l[2]], NodeSize(node[node[l[1]].link[l[2]]].name), l[1], l[2]) :
     l \in LinksOf(R)}
InfoRecords(R) ==
  {CompactRecord(node[o].prop, InfoSize(info[node[o].prop].key), o, "prop") :
     o \in Owners(R)}
LongRecordsForgotten(R) == {}   \* faulty variant
LongRecords(R) ==
  LET P == {node[o].prop : o \in Owners(R)} IN
  {CompactRecord(p + info[p].rel, LongSize(long[p + info[p].rel]), p, "rel") :
     p \in {q \in P : info[q].is_long}}
BackupRecord ==
  IF has_dirty_backup
  THEN {CompactRecord(PROP_TRIE_NODE_HEADER_SIZE, DIRTY_BACKUP_SIZE, 0, "none")} ELSE {}

Records == BackupRecord \cup NodeRecords(Reached) \cup InfoRecords(Reached)
             \cup LongRecords(Reached)

\* Where the records that lie before offset off end: cursor in the first scan.
EndBefore(R, off) ==
  MaxOf({FirstOffset} \cup {r.off + r.size : r \in {q \in R : q.off < off}})
BehindHole(R) == {r \in R : r.off > EndBefore(R, r.off)}

-------------------------------------------------------------------------------
compact_allocations ==
  /\ pc = "idle"
  /\ call' = [NoCall EXCEPT !.op = "compact"] /\ pc' = "collect"
  /\ ret' = Result("pending", NoValue)
  /\ UNCHANGED <<area, walk, cvars>>

\* No interior hole: NoHoles, or AdjustedBytesUsed when room is left at the end.
CollectPacked ==
  /\ pc = "collect" /\ BehindHole(Records) = {}
  /\ LET end == EndBefore(Records, DataSize + 1) IN
     IF end < bytes_used
     THEN bytes_used' = end /\ Return("adjusted", NoValue)
     ELSE bytes_used' = bytes_used /\ Return("no_holes", NoValue)
  /\ UNCHANGED <<node, info, long, cvars>>

CollectHoles ==
  /\ pc = "collect" /\ BehindHole(Records) # {}
  /\ LET first == Lowest(BehindHole(Records)) IN
     /\ recs' = {r \in Records : r.off >= first.off} /\ todo' = recs'
     /\ cursor' = EndBefore(Records, first.off)
  /\ remap' = NoMap /\ Goto("plan")
  /\ UNCHANGED <<area, walk>>

\* The first loop gives each record its new place.
PlanMove ==
  /\ pc = "plan" /\ todo # {}
  /\ LET r == Lowest(todo) IN
     /\ remap' = Put(remap, r.off, cursor)
     /\ cursor' = cursor + r.size
     /\ todo' = todo \ {r}
  /\ UNCHANGED <<vars, recs>>

PlanDone ==
  /\ pc = "plan" /\ todo = {}
  /\ todo' = recs /\ Goto("move")
  /\ UNCHANGED <<area, walk, recs, cursor, remap>>

Remapped(o) == IF o \in DOMAIN remap THEN remap[o] ELSE o

\* The field that refers to r, in its referer's new place; a referer that is
\* not there yet is not patched (the write would be lost under its own move).
PatchedNode(r) ==
  IF r.field = "prop" /\ Remapped(r.ref) \in DOMAIN node
  THEN [node EXCEPT ![Remapped(r.ref)].prop = Remapped(r.off)]
  ELSE IF r.field \in Links /\ Remapped(r.ref) \in DOMAIN node
  THEN [node EXCEPT ![Remapped(r.ref)].link[r.field] = Remapped(r.off)] ELSE node
PatchedInfoFromTheOldPlace(r) ==   \* faulty variant: relative to where the referer was
  IF r.field = "rel" /\ Remapped(r.ref) \in DOMAIN info
  THEN [info EXCEPT ![Remapped(r.ref)].rel = Remapped(r.off) - r.ref] ELSE info
PatchedInfo(r) ==
  IF r.field = "rel" /\ Remapped(r.ref) \in DOMAIN info
  THEN [info EXCEPT ![Remapped(r.ref)].rel = Remapped(r.off) - Remapped(r.ref)] ELSE info

\* Copying size bytes from from to to destroys what lies there; the bytes left
\* at from are no object any more, for the field that led to them is patched.
Lost(from, to, size) ==
  {from} \cup {o \in Objects : o < to + size /\ to < o + ObjectSize(o)}
Moved(h, from, to, size) ==
  LET kept == DOMAIN h \ Lost(from, to, size) IN
  [o \in kept \cup (IF from \in DOMAIN h THEN {to} ELSE {}) |->
     IF o \in kept THEN h[o] ELSE h[from]]

MoveObject ==
  /\ pc = "move" /\ todo # {}
  /\ LET r == Lowest(todo) IN
     /\ node' = Moved(PatchedNode(r), r.off, Remapped(r.off), r.size)
     /\ info' = Moved(PatchedInfo(r), r.off, Remapped(r.off), r.size)
     /\ long' = Moved(long, r.off, Remapped(r.off), r.size)
     /\ todo' = todo \ {r}
  /\ UNCHANGED <<bytes_used, pc, call, ret, walk, recs, cursor, remap>>

MoveDoneKeepingTheTail ==   \* faulty variant
  /\ pc = "move" /\ todo = {}
  /\ bytes_used' = bytes_used /\ Return("moved", NoValue)
  /\ recs' = {} /\ cursor' = 0 /\ remap' = NoMap
  /\ UNCHANGED <<node, info, long, todo>>

\* The tail is zeroed and bytes_used lowered.
MoveDone ==
  /\ pc = "move" /\ todo = {}
  /\ bytes_used' = cursor /\ Return("moved", NoValue)
  /\ recs' = {} /\ cursor' = 0 /\ remap' = NoMap
  /\ UNCHANGED <<node, info, long, todo>>

-------------------------------------------------------------------------------
CInit == Init /\ recs = {} /\ todo = {} /\ cursor = 0 /\ remap = NoMap

CompactStep ==
  \/ CollectPacked \/ CollectHoles \/ PlanMove \/ PlanDone \/ MoveObject \/ MoveDone

AreaStep == Step /\ UNCHANGED cvars
CRequest == (Request /\ UNCHANGED cvars) \/ compact_allocations
CStep    == AreaStep \/ CompactStep
CNext    == CRequest \/ CStep

\* An operation runs to its end: nothing in the code waits.
CSpec == CInit /\ [][CNext]_cAll /\ WF_cAll(CStep)
===============================================================================
