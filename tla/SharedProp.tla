------------------------------ MODULE SharedProp ------------------------------
(***************************************************************************)
(* One property of a live area (crates/prop-rs-android/src/                *)
(* mmap_prop_area.rs): a process sets and deletes it in shared memory,     *)
(* store by store, while other processes read it.  Every access is         *)
(* sequentially consistent.                                                *)
(*                                                                         *)
(* The trie is left out (see PropArea): the node of the property is there, *)
(* and prop is its link.  A value is two cells, so that a copy may be torn *)
(* between them.  A prop_info is never allocated twice.                    *)
(***************************************************************************)
EXTENDS PropSerial, Sequences

CONSTANTS
  Values,     \* what callers write; 0 is the empty string, whose bytes are zero
  ValLen,     \* the length of each
  ReadModes,  \* how readers read: a subset of {"libc", "read_prop"}
  MaxCalls,   \* bound: sets and deletes made
  MaxInfos,   \* bound: the prop_infos there is room for
  MaxKills,   \* bound: writers killed in the middle of a call
  MaxOthers   \* bound: changes of other properties by another process

ASSUME ValuesAssumption == Values \subseteq Nat
ASSUME ValLenAssumption == ValLen \in [Values \cup {0} -> Nat] /\ ValLen[0] = 0
ASSUME BoundsAssumption == /\ MaxCalls \in Nat /\ MaxInfos \in Nat
                           /\ MaxKills \in Nat /\ MaxOthers \in Nat
                           /\ ReadModes \subseteq {"libc", "read_prop"}

VARIABLES
  prop,          \* the node's link: 0, or which prop_info
  info,          \* the prop_infos allocated so far
  area_serial,   \* the serial of the global serial area
  wpc, wcall, wat, wserial, wload, calls, kills,   \* the writer
  opc, oload, others,                              \* a writer of other properties
  rpc, rmode, rat, rserial, rcells, rsilent        \* a reader

shared == <<prop, info, area_serial>>
writer == <<wpc, wcall, wat, wserial, wload, calls, kills>>
other  == <<opc, oload, others>>
reader == <<rpc, rmode, rat, rserial, rcells, rsilent>>
svars  == <<shared, writer, other, reader>>

PROP_VALUE_MAX        == 92
LONG_LEGACY_ERROR_LEN == 50
NoCall == [op |-> "none", val |-> 0]

IsLong(v) == ValLen[v] >= PROP_VALUE_MAX
LayoutLenOfTheValue(v, is_long) == ValLen[v]   \* faulty variant
LayoutLen(v, is_long) == IF is_long THEN LONG_LEGACY_ERROR_LEN ELSE ValLen[v]

\* cells and strlen stand for the inline value or for the long value.
NewInfo(v) ==
  [serial |-> compose_initial_serial(LayoutLen(v, IsLong(v)), IsLong(v)),
   cells  |-> <<v, v>>, strlen |-> ValLen[v]]
Wiped == [serial |-> 0, cells |-> <<0, 0>>, strlen |-> 0]

-------------------------------------------------------------------------------
WGoto(l) == wpc' = l /\ UNCHANGED <<wload, calls, kills, other, reader>>
WEnd ==
  /\ wpc' = "idle" /\ wcall' = NoCall /\ wat' = 0 /\ wserial' = 0 /\ wload' = 0
  /\ UNCHANGED <<calls, kills, other, reader>>

\* sys_prop::set and sys_prop::delete, called on a shared area.
Call(op, v) ==
  /\ wpc = "idle" /\ calls < MaxCalls
  /\ calls' = calls + 1 /\ wcall' = [op |-> op, val |-> v]
  /\ wpc' = IF op = "set" THEN "upsert" ELSE "remove"
  /\ UNCHANGED <<shared, wat, wserial, wload, kills, other, reader>>

\* upsert: update what find returns, or add.
Upsert ==
  /\ wpc = "upsert"
  /\ IF prop # 0
     THEN WGoto("validate") /\ wat' = prop /\ wcall' = [wcall EXCEPT !.op = "update"]
     ELSE WGoto("add") /\ wat' = 0 /\ wcall' = [wcall EXCEPT !.op = "add"]
  /\ UNCHANGED <<shared, wserial>>

\* add: the prop_info is written whole before the link to it.
AddInfo ==
  /\ wpc = "add" /\ Len(info) < MaxInfos
  /\ info' = Append(info, NewInfo(wcall.val)) /\ wat' = Len(info')
  /\ WGoto("link") /\ UNCHANGED <<prop, area_serial, wcall, wserial>>

\* Other properties may have filled the area; what add allocated before is lost.
AddFull ==
  /\ wpc = "add"
  /\ WEnd /\ UNCHANGED shared

AddLinkUnannounced ==   \* faulty variant: a new property is linked and nobody is told
  /\ wpc = "link"
  /\ prop' = wat /\ WEnd /\ UNCHANGED <<info, area_serial>>
AddLink ==
  /\ wpc = "link"
  /\ prop' = wat
  /\ WGoto("bump") /\ UNCHANGED <<info, area_serial, wcall, wat, wserial>>

-------------------------------------------------------------------------------
\* update: a long value may grow into the padding of its allocation.
Capacity(strlen) == ((strlen + 4) \div 4) * 4 - 1
FitsLayout(i, v) ==
  IF HasLongFlag(info[i].serial) THEN ValLen[v] <= Capacity(info[i].strlen) ELSE ~IsLong(v)

TooLongAfterDirty ==   \* faulty variant: the dirty bit is set before the check
  /\ wpc = "validate" /\ ~FitsLayout(wat, wcall.val)
  /\ info' = [info EXCEPT ![wat].serial = SetDirty(info[wat].serial)]
  /\ WEnd /\ UNCHANGED <<prop, area_serial>>
TooLong ==
  /\ wpc = "validate" /\ ~FitsLayout(wat, wcall.val)
  /\ WEnd /\ UNCHANGED shared

Validate ==
  /\ wpc = "validate" /\ FitsLayout(wat, wcall.val)
  /\ wserial' = info[wat].serial
  /\ WGoto("dirty") /\ UNCHANGED <<shared, wcall, wat>>

StoreSerial(s) ==
  info' = [info EXCEPT ![wat].serial = s] /\ UNCHANGED <<prop, area_serial>>
Layout(Composed(_, _, _)) ==
  LET is_long == HasLongFlag(wserial) IN
  Composed(wserial, LayoutLen(wcall.val, is_long), is_long)

MarkDirtyForgotten ==   \* faulty variant
  /\ wpc = "dirty"
  /\ wserial' = SetDirty(wserial)
  /\ WGoto("head") /\ UNCHANGED <<shared, wcall, wat>>
MarkDirty ==
  /\ wpc = "dirty"
  /\ wserial' = SetDirty(wserial) /\ StoreSerial(wserial')
  /\ WGoto("head") /\ UNCHANGED <<wcall, wat>>

WriteHead ==
  /\ wpc = "head"
  /\ info' = [info EXCEPT ![wat].cells[1] = wcall.val]
  /\ WGoto("tail") /\ UNCHANGED <<prop, area_serial, wcall, wat, wserial>>

WriteTailForgettingVisible ==   \* faulty variant: the hidden serial is the only one stored
  /\ wpc = "tail"
  /\ info' = [info EXCEPT ![wat].cells[2] = wcall.val, ![wat].strlen = ValLen[wcall.val]]
  /\ WGoto("bump") /\ UNCHANGED <<prop, area_serial, wcall, wat, wserial>>
WriteTail ==
  /\ wpc = "tail"
  /\ info' = [info EXCEPT ![wat].cells[2] = wcall.val, ![wat].strlen = ValLen[wcall.val]]
  /\ WGoto("visible") /\ UNCHANGED <<prop, area_serial, wcall, wat, wserial>>

VisibleWithTheOldLength ==   \* faulty variant
  /\ wpc = "visible"
  /\ StoreSerial(wserial + 1)
  /\ WGoto("bump") /\ UNCHANGED <<wcall, wat, wserial>>
PublishVisible ==
  /\ wpc = "visible"
  /\ StoreSerial(Layout(compose_visible_serial))
  /\ WGoto("bump") /\ UNCHANGED <<wcall, wat, wserial>>

\* bump_area_serial_and_wake: a load, then a store and the wake.
BumpLoad ==
  /\ wpc = "bump"
  /\ wload' = area_serial /\ wpc' = "store"
  /\ UNCHANGED <<shared, wcall, wat, wserial, calls, kills, other, reader>>

BumpStore ==
  /\ wpc = "store"
  /\ area_serial' = wload + 1
  /\ \/ wcall.op = "update" /\ WGoto("hide") /\ UNCHANGED <<wcall, wat, wserial>>
     \/ wcall.op # "update" /\ WEnd
  /\ UNCHANGED <<prop, info>>

Silenced ==   \* the writer changes wat without a serial to tell a reader of it
  rsilent' = (rsilent \/ (rpc \in {"head", "tail", "check"} /\ rat = wat))

\* The counter is put back, and a reader cannot tell that it ever moved.
Hide ==
  /\ wpc = "hide"
  /\ StoreSerial(Layout(compose_hidden_serial))
  /\ Silenced
  /\ wpc' = "idle" /\ wcall' = NoCall /\ wat' = 0 /\ wserial' = 0 /\ wload' = 0
  /\ UNCHANGED <<calls, kills, other, rpc, rmode, rat, rserial, rcells>>

-------------------------------------------------------------------------------
\* remove
RemoveNothing ==
  /\ wpc = "remove" /\ prop = 0
  /\ WEnd /\ UNCHANGED shared

Detach ==
  /\ wpc = "remove" /\ prop # 0
  /\ wat' = prop /\ prop' = 0
  /\ WGoto("wipe") /\ UNCHANGED <<info, area_serial, wcall, wserial>>

\* A long value is wiped before the serial that leads to it, and the memset of the
\* header may wipe an inline value before its serial.
WipeValue ==
  /\ wpc = "wipe"
  /\ info' = [info EXCEPT ![wat].cells = <<0, 0>>, ![wat].strlen = 0]
  /\ Silenced
  /\ wpc' = "wipe_header"
  /\ UNCHANGED <<prop, area_serial, wcall, wat, wserial, wload, calls, kills, other,
                 rpc, rmode, rat, rserial, rcells>>

WipeHeader ==
  /\ wpc = "wipe_header" \/ (wpc = "wipe" /\ ~HasLongFlag(info[wat].serial))
  /\ info' = [info EXCEPT ![wat] = Wiped]
  /\ WGoto("bump") /\ UNCHANGED <<prop, area_serial, wcall, wat, wserial>>

\* The writer is killed, whatever it was doing; a later call is another process.
Kill ==
  /\ wpc # "idle" /\ kills < MaxKills
  /\ kills' = kills + 1
  /\ wpc' = "idle" /\ wcall' = NoCall /\ wat' = 0 /\ wserial' = 0 /\ wload' = 0
  /\ UNCHANGED <<shared, calls, other, reader>>

\* Another process changes another property and bumps the same global serial.
OtherLoad ==
  /\ opc = "idle" /\ others < MaxOthers
  /\ opc' = "store" /\ oload' = area_serial
  /\ UNCHANGED <<shared, writer, others, reader>>

OtherStore ==
  /\ opc = "store"
  /\ area_serial' = oload + 1
  /\ opc' = "idle" /\ oload' = 0 /\ others' = others + 1
  /\ UNCHANGED <<prop, info, writer, reader>>

-------------------------------------------------------------------------------
(***************************************************************************)
(* A reader: libc's __system_property_read_callback, which takes a clean   *)
(* serial, copies the value and starts again when the serial has changed,  *)
(* or read_prop, which takes whatever serial it finds and copies once.     *)
(***************************************************************************)
RGoto(l) == rpc' = l /\ UNCHANGED <<shared, writer, other, rmode, rat>>

ReadFind(mode) ==
  /\ rpc \in {"idle", "done"} /\ prop # 0
  /\ rpc' = "load" /\ rmode' = mode /\ rat' = prop
  /\ rserial' = 0 /\ rcells' = <<0, 0>> /\ rsilent' = FALSE
  /\ UNCHANGED <<shared, writer, other>>

ReadLoad ==
  /\ rpc = "load"
  /\ rmode = "libc" => ~Dirty(info[rat].serial)
  /\ rserial' = info[rat].serial /\ rcells' = <<0, 0>> /\ rsilent' = FALSE
  /\ RGoto("head")

ReadHead ==
  /\ rpc = "head"
  /\ rcells' = [rcells EXCEPT ![1] = info[rat].cells[1]]
  /\ RGoto("tail") /\ UNCHANGED <<rserial, rsilent>>

ReadTail ==
  /\ rpc = "tail"
  /\ rcells' = [rcells EXCEPT ![2] = info[rat].cells[2]]
  /\ RGoto(IF rmode = "libc" THEN "check" ELSE "done") /\ UNCHANGED <<rserial, rsilent>>

ReadCheck ==
  /\ rpc = "check"
  /\ RGoto(IF info[rat].serial = rserial THEN "done" ELSE "load")
  /\ UNCHANGED <<rserial, rcells, rsilent>>

-------------------------------------------------------------------------------
Init ==
  /\ prop = 0 /\ info = <<>> /\ area_serial = 0
  /\ wpc = "idle" /\ wcall = NoCall /\ wat = 0 /\ wserial = 0 /\ wload = 0
  /\ calls = 0 /\ kills = 0
  /\ opc = "idle" /\ oload = 0 /\ others = 0
  /\ rpc = "idle" /\ rmode = "libc" /\ rat = 0 /\ rserial = 0 /\ rcells = <<0, 0>>
  /\ rsilent = FALSE

Request == Call("delete", 0) \/ \E v \in Values : Call("set", v)

WriterStep ==
  \/ Upsert \/ AddInfo \/ AddFull \/ AddLink
  \/ TooLong \/ Validate \/ MarkDirty \/ WriteHead \/ WriteTail \/ PublishVisible
  \/ BumpLoad \/ BumpStore \/ Hide
  \/ RemoveNothing \/ Detach \/ WipeValue \/ WipeHeader

ReaderStep == ReadLoad \/ ReadHead \/ ReadTail \/ ReadCheck

Next ==
  \/ Request \/ WriterStep \/ Kill \/ OtherLoad \/ OtherStore
  \/ \E mode \in ReadModes : ReadFind(mode)
  \/ ReaderStep

\* A writer or reader that is not killed goes on: neither waits for the other,
\* but for libc's reader of a dirty serial.
Spec == Init /\ [][Next]_svars /\ WF_svars(WriterStep) /\ WF_svars(ReaderStep)

-------------------------------------------------------------------------------
Cells  == Values \cup {0}
Serial == 0 .. (PROP_VALUE_MAX * LengthUnit - 1)
TypeOK ==
  /\ prop \in 0..Len(info) /\ Len(info) <= MaxInfos /\ area_serial \in Nat
  /\ \A i \in DOMAIN info :
       info[i] \in [serial : Serial, cells : Cells \X Cells, strlen : Nat]
  /\ wcall \in [op : {"none", "set", "add", "update", "delete"}, val : Cells]
  /\ wat \in 0..Len(info) /\ wserial \in Serial /\ wload \in Nat
  /\ rat \in 0..Len(info) /\ rserial \in Serial /\ rcells \in Cells \X Cells /\ rsilent \in BOOLEAN

\* What a reader makes of a serial and the cells it copied is a value, not a mixture.
Whole(serial, cells) ==
  \/ serial_len(serial) = 0
  \/ cells[1] = cells[2] /\ (HasLongFlag(serial) \/ serial_len(serial) = ValLen[cells[1]])

\* A linked property whose serial is clean holds one whole value of the length and
\* the layout the serial tells, even after a writer was killed at any store and
\* another went on from there.
CleanSerialMeansWholeValue ==
  prop # 0 /\ ~Dirty(info[prop].serial) => Whole(info[prop].serial, info[prop].cells)

\* No read ever returns a mixture of two values.
NoTornRead == rpc = "done" => Whole(rserial, rcells)

\* A reader that checks the serial again is deceived only by the two writes that do
\* not move it on: the hidden serial, and the wipe of a deleted value;
\* a value already wiped it takes for the empty string.
TornOnlyBehindASilentWrite == rpc = "done" /\ rmode = "libc" /\ ~rsilent => NoTornRead \/ rcells = <<0, 0>>

\* A call that was not killed leaves no trace in the serial: the counter of a property
\* that only direct writes have touched is 0 again, and never dirty, after an update
\* that succeeded and after one refused for its length.
NoTraceAtRest ==
  wpc = "idle" /\ kills = 0 => \A i \in DOMAIN info : Counter(info[i].serial) \in {0, PROP_INFO_LONG_FLAG}

\* The global serial moves only when the change it announces can be seen: the new
\* value linked and its serial clean, or the deleted property detached and wiped.
ChangeSeenBeforeItIsAnnounced ==
  [][wpc = "store" /\ area_serial' # area_serial =>
       \/ wcall.op = "delete" /\ prop = 0 /\ info[wat] = Wiped
       \/ /\ wcall.op \in {"add", "update"} /\ prop = wat /\ ~Dirty(info[wat].serial)
          /\ info[wat].cells = <<wcall.val, wcall.val>>
          /\ Whole(info[wat].serial, info[wat].cells)]_svars

\* The global serial never goes back, so a change of it cannot be missed.
AreaSerialAdvances == [][area_serial' >= area_serial]_svars

\* A reader gets an answer, unless a writer was killed and may have left the serial
\* dirty.
ReadReturns == rpc = "load" ~> (rpc = "done" \/ kills > 0)
===============================================================================
