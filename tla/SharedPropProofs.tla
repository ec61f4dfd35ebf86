---------------------------- MODULE SharedPropProofs ----------------------------
(***************************************************************************)
(* What holds of a live property for any values, lengths, number of calls, *)
(* of killed writers and of changes by others; and what holds of a process *)
(* that waits for it.                                                      *)
(***************************************************************************)
EXTENDS PropWait, SequenceTheorems, TLAPS

Info == [serial : Serial, cells : Cells \X Cells, strlen : Nat]

\* A serial that is clean, and what it promises of the cells.
Clean(i)   == ~Dirty(info[i].serial)
WholeAt(i) == Whole(info[i].serial, info[i].cells)

Writing == {"head", "tail", "visible"}
Updating == {"validate", "dirty", "hide"} \cup Writing
Places == {"idle", "upsert", "add", "link", "bump", "store", "remove", "wipe", "wipe_header"} \cup Updating

WriterType ==
  /\ info \in Seq(Info) /\ prop \in 0..Len(info) /\ Len(info) <= MaxInfos /\ area_serial \in Nat
  /\ wpc \in Places /\ wcall \in [op : {"none", "set", "add", "update", "delete"}, val : Cells]
  /\ wat \in 0..Len(info) /\ wserial \in Serial /\ wload \in Nat
  /\ calls \in Nat /\ kills \in Nat /\ kills <= MaxKills
  /\ opc \in {"idle", "store"} /\ oload \in Nat /\ others \in Nat

ReaderType ==
  /\ rpc \in {"idle", "load", "head", "tail", "check", "done"} /\ rmode \in {"libc", "read_prop"}
  /\ rat \in 0..Len(info) /\ rserial \in Serial /\ rcells \in Cells \X Cells /\ rsilent \in BOOLEAN
  /\ rpc # "idle" => rat # 0

(***************************************************************************)
(* The writer.                                                             *)
(***************************************************************************)
\* Where the writer stands, and with what: an update works on the linked prop_info, a
\* removal on one that is linked no more, an add on one that is not linked yet.
Standing ==
  /\ wpc # "idle" => wcall.op # "none"
  /\ wpc = "upsert" => wcall.op = "set"
  /\ wpc \in {"add", "link"} => wcall.op = "add"
  /\ wpc \in Updating => wcall.op = "update"
  /\ wpc \in {"remove", "wipe", "wipe_header"} => wcall.op = "delete"
  /\ wpc \in {"bump", "store"} => wcall.op \in {"add", "update", "delete"}
  /\ wpc \notin {"idle", "upsert", "add", "remove"} => wat # 0
  /\ wpc \in Updating => wat = prop
  /\ wpc = "link" => wat # prop
  /\ wpc \in {"wipe", "wipe_header"} => prop = 0

\* The value, as it is stored and announced.
Stored(i) == Clean(i) /\ info[i].cells = <<wcall.val, wcall.val>> /\ WholeAt(i)
Progress ==
  /\ wpc = "link" => Stored(wat)
  /\ wpc = "dirty" => wserial = info[wat].serial /\ (HasLongFlag(wserial) \/ ~IsLong(wcall.val))
  /\ wpc \in Writing => /\ wserial = info[wat].serial /\ Dirty(wserial)
                        /\ HasLongFlag(wserial) \/ ~IsLong(wcall.val)
  /\ wpc = "tail" => info[wat].cells[1] = wcall.val
  /\ wpc = "visible" => info[wat].cells = <<wcall.val, wcall.val>>
  /\ wpc = "wipe_header" => info[wat].cells = <<0, 0>>
  /\ wpc = "hide" => Stored(wat)
  /\ wpc \in {"bump", "store"} /\ wcall.op # "delete" => prop = wat /\ Stored(wat)
  /\ wpc \in {"bump", "store"} /\ wcall.op = "delete" => prop = 0 /\ info[wat] = Wiped
  /\ wpc \in {"bump", "store", "hide"} /\ wcall.op = "update" =>
       /\ Dirty(wserial) /\ (HasLongFlag(wserial) \/ ~IsLong(wcall.val))
       /\ serial_len(info[wat].serial) = LayoutLen(wcall.val, HasLongFlag(wserial))

\* A prop_info that is linked no more may have been left wiped but for its serial.
AllWhole ==
  /\ prop # 0 /\ Clean(prop) => WholeAt(prop)
  /\ \A i \in DOMAIN info : Clean(i) => WholeAt(i) \/ info[i].cells = <<0, 0>>

WInv == WriterType /\ Standing /\ Progress /\ AllWhole

\* Without kills the counters stand at 0 again when no update is under way.
AtZero(s) == Counter(s) \in {0, PROP_INFO_LONG_FLAG}
Moving == wcall.op = "update" /\ wpc \in Writing \cup {"bump", "store", "hide"}
Traceless ==
  kills = 0 =>
    /\ \A i \in DOMAIN info : AtZero(info[i].serial) \/ (i = wat /\ Moving)
    /\ wpc = "dirty" => AtZero(wserial)
    /\ Moving => AtZero(ClearDirty(wserial))

(***************************************************************************)
(* The reader.                                                             *)
(***************************************************************************)
\* How far the counter has moved, the flag apart.  Only a killed writer leaves it moved.
Moves(s) == Counter(s) % PROP_INFO_LONG_FLAG
Ahead(i) == IF i = wat /\ Moving THEN IF wpc \in Writing THEN 1 ELSE 2 ELSE 0
Few == 2 * kills + 2 < PROP_INFO_LONG_FLAG
FewMoves ==
  Few =>
    /\ \A i \in DOMAIN info : Moves(info[i].serial) <= 2 * kills + Ahead(i)
    /\ Moving => Moves(wserial) <= 2 * kills + 1
    /\ Moving /\ wpc \notin Writing => Moves(info[wat].serial) = Moves(wserial) + 1

Counts == Traceless /\ FewMoves

\* Nothing will ever link it (again).
Dead(i) == i # prop /\ ~(wpc = "link" /\ wat = i)

Copied ==
  /\ rpc \in {"tail", "check"} => rcells[1] = info[rat].cells[1]
  /\ rpc = "check" => rcells[2] = info[rat].cells[2]

\* What became of the prop_info since its serial was loaded, if no silent write came:
\* nothing; or the serial moved on; or it was wiped.
Trail ==
  Few /\ rmode = "libc" /\ ~rsilent /\ rpc \in {"head", "tail", "check"} =>
    \/ serial_len(rserial) = 0
    \/ info[rat].serial = rserial /\ ~Dirty(rserial) /\ Copied
    \/ Moves(rserial) < Moves(info[rat].serial)
    \/ info[rat].serial = 0 /\ rserial # 0 /\ Dead(rat)

Found == rpc # "idle" => rat = prop \/ Dead(rat)

Honest == Few /\ rpc = "done" /\ rmode = "libc" /\ ~rsilent => Whole(rserial, rcells) \/ rcells = <<0, 0>>

RInv == Trail /\ Found /\ Honest

(***************************************************************************)
(* The waiter.                                                             *)
(***************************************************************************)
Sleeps == {"load_find", "load_look", "sleep_find", "sleep_look"}
WaiterType ==
  /\ qpc \in {"idle", "find", "look", "read", "done"} \cup Sleeps
  /\ qinfo \in 0..Len(info) /\ qglobal \in Nat /\ qret \in BOOLEAN /\ qmet \in BOOLEAN /\ qwindow \in BOOLEAN
  /\ qpc \in {"look", "read", "load_look", "sleep_look"} => qinfo # 0 /\ qold.given
  /\ qinfo # 0 => qinfo = prop \/ Dead(qinfo)

Unseen == qpc \in {"load_find", "load_look"} \/ (qpc \in {"sleep_find", "sleep_look"} /\ qglobal = area_serial)

\* While no bump has come since the waiter looked, the property is as it saw it, or its
\* change is still to be announced.
Awake ==
  kills = 0 /\ others = 0 =>
    /\ wpc = "store" => wload = area_serial
    /\ qpc \in {"sleep_find", "sleep_look"} => qglobal <= area_serial
    /\ Unseen /\ ~qwindow =>
       /\ qpc \in {"load_find", "sleep_find"} => prop = 0 \/ wpc \in {"bump", "store"}
       /\ qpc \in {"load_look", "sleep_look"} /\ qinfo = prop =>
            Read(qinfo) = qold.val \/ wpc \in Writing \cup {"bump", "store"}

-------------------------------------------------------------------------------
\* The arithmetic of serials.  Facts with the numbers and facts with intervals are kept
\* apart: an interval between large numbers is more than the prover can take.
LEMMA Units == PROP_INFO_LONG_FLAG = 65536 /\ LengthUnit = 16777216
  BY SMT DEF PROP_INFO_LONG_FLAG, LengthUnit

LEMMA SerialRange == \A s : s \in Serial <=> s \in Nat /\ s < 92 * LengthUnit
<1>1. ASSUME NEW n \in Nat, NEW s PROVE s \in 0..(n - 1) <=> s \in Nat /\ s < n
  BY SMT
<1>2. 92 * LengthUnit \in Nat
  BY Units, SMT
<1> QED
  BY <1>1, <1>2, Zenon DEF Serial, PROP_VALUE_MAX

IsCounter(c) == c \in Nat /\ c < LengthUnit

\* The parts of a serial, and what of it lies in the counter.
LEMMA SerialParts ==
  ASSUME NEW s \in Serial
  PROVE  /\ serial_len(s) \in Nat /\ serial_len(s) < 92 /\ IsCounter(Counter(s))
         /\ s = serial_len(s) * LengthUnit + Counter(s)
         /\ HasLongFlag(s) <=> HasLongFlag(Counter(s))
         /\ Dirty(s) <=> Dirty(Counter(s))
<1>0. s \in Nat /\ s < 92 * LengthUnit
  BY SerialRange, Zenon
<1>1. s \in Nat /\ s < 92 * 16777216
  BY <1>0, Units, SMT
<1>2. serial_len(s) = s \div 16777216 /\ Counter(s) = s % 16777216
  BY Units, SMT DEF serial_len, Counter
<1>3. /\ s \div 16777216 \in Nat /\ s \div 16777216 < 92 /\ s % 16777216 \in Nat /\ s % 16777216 < 16777216
      /\ s = (s \div 16777216) * 16777216 + (s % 16777216)
  BY <1>1, SMT
<1>4. s \div 65536 = (s \div 16777216) * 256 + ((s % 16777216) \div 65536)
  BY <1>1, SMT
<1>5. (s \div 65536) % 2 = ((s % 16777216) \div 65536) % 2
  BY <1>1, <1>4, SMT
<1>6. s % 2 = (s % 16777216) % 2
  BY <1>1, SMT
<1> QED
  BY <1>2, <1>3, <1>5, <1>6, Units, SMT DEF HasLongFlag, Dirty, IsCounter

\* What Compose puts together can be taken apart again.
LEMMA ComposedSerial ==
  ASSUME NEW len \in Nat, len < 92, NEW is_long \in BOOLEAN, NEW c, IsCounter(c)
  PROVE  LET s == Compose(len, is_long, c) IN
         /\ s \in Serial /\ serial_len(s) = len
         /\ Counter(s) = IF is_long /\ ~HasLongFlag(c) THEN c + PROP_INFO_LONG_FLAG ELSE c
         /\ HasLongFlag(s) <=> is_long \/ HasLongFlag(c)
         /\ Dirty(s) <=> Dirty(c)
<1> DEFINE d == IF is_long /\ ~HasLongFlag(c) THEN c + 65536 ELSE c
           s == len * 16777216 + d
<1>1. c \in Nat /\ c < 16777216
  BY Units, SMT DEF IsCounter
<1>2. HasLongFlag(c) <=> (c \div 65536) % 2 = 1
  BY Units, SMT DEF HasLongFlag
<1>3. /\ d \in Nat /\ d < 16777216
      /\ (d \div 65536) % 2 = 1 <=> is_long \/ (c \div 65536) % 2 = 1
      /\ d % 2 = c % 2
  BY <1>1, <1>2, SMT
<1>4. Compose(len, is_long, c) = s
  BY Units, SMT DEF Compose
<1> HIDE DEF d
<1>5. s \in Nat /\ s < 92 * 16777216 /\ s \div 16777216 = len /\ s % 16777216 = d
  BY <1>1, <1>3, SMT
<1>6. s \in Serial
  <2>1. s \in Nat /\ s < 92 * LengthUnit
    BY <1>5, Units, SMT
  <2> QED
    BY <2>1, SerialRange, SMT
<1>10. serial_len(s) = len /\ Counter(s) = d
  BY <1>5, Units, SMT DEF serial_len, Counter
<1>7. (HasLongFlag(s) <=> HasLongFlag(d)) /\ (Dirty(s) <=> Dirty(d))
  BY <1>6, <1>10, SerialParts, SMT
<1>8. d = IF is_long /\ ~HasLongFlag(c) THEN c + PROP_INFO_LONG_FLAG ELSE c
  BY Units, SMT DEF d
<1>9. (HasLongFlag(d) <=> (d \div 65536) % 2 = 1) /\ (Dirty(d) <=> Dirty(c))
  BY <1>3, Units, SMT DEF HasLongFlag, Dirty
<1> QED
  BY <1>2, <1>3, <1>4, <1>6, <1>7, <1>8, <1>9, <1>10, SMT

\* Setting the dirty bit touches nothing else.
LEMMA SetDirtyKeeps ==
  ASSUME NEW s \in Serial
  PROVE  LET t == SetDirty(s) IN
         /\ t \in Serial /\ Dirty(t) /\ serial_len(t) = serial_len(s)
         /\ HasLongFlag(t) <=> HasLongFlag(s)
         /\ Counter(t) = IF Dirty(s) THEN Counter(s) ELSE Counter(s) + 1
         /\ Counter(ClearDirty(t)) = Counter(ClearDirty(s))
<1>0. s \in Nat /\ s < 92 * LengthUnit
  BY SerialRange, Zenon
<1>1. s \in Nat /\ s < 92 * 16777216
  BY <1>0, Units, SMT
<1>2. CASE Dirty(s)
  BY <1>2, SMT DEF SetDirty
<1>3. CASE ~Dirty(s)
  <2>1. SetDirty(s) = s + 1 /\ s % 2 = 0
    BY <1>1, <1>3, SMT DEF SetDirty, Dirty
  <2>2. s + 1 < 92 * 16777216 /\ (s + 1) % 2 = 1
    BY <1>1, <2>1, SMT
  <2>3. (s + 1) \div 16777216 = s \div 16777216 /\ (s + 1) % 16777216 = (s % 16777216) + 1
    BY <1>1, <2>1, SMT
  <2>4. (s + 1) \div 65536 = s \div 65536
    BY <1>1, <2>1, SMT
  <2>5. Dirty(s + 1) /\ ClearDirty(s + 1) = s /\ ClearDirty(s) = s
    BY <1>1, <2>1, <2>2, SMT DEF ClearDirty, Dirty
  <2>8. s + 1 \in Nat /\ s + 1 < 92 * LengthUnit
    BY <1>1, <2>2, Units, SMT
  <2>9. s + 1 \in Serial
    BY <2>8, SerialRange, Zenon
  <2>6. serial_len(s + 1) = serial_len(s) /\ Counter(s + 1) = Counter(s) + 1
    BY <2>3, Units, SMT DEF serial_len, Counter
  <2>7. HasLongFlag(s + 1) <=> HasLongFlag(s)
    BY <2>4, Units, SMT DEF HasLongFlag
  <2> QED
    BY <1>3, <2>1, <2>5, <2>6, <2>7, <2>9, Zenon
<1> QED
  BY <1>2, <1>3, Zenon

\* The next counter of a dirty serial is clean, and so is the one put back.
LEMMA Counters ==
  ASSUME NEW s \in Serial, Dirty(s)
  PROVE  LET on == Counter(Counter(s) + 1) off == Counter(ClearDirty(s)) IN
         /\ IsCounter(on) /\ IsCounter(off)
         /\ ~Dirty(on) /\ ~Dirty(off)
         /\ off = Counter(s) - 1
         /\ HasLongFlag(off) <=> HasLongFlag(s)
<1>0. s \in Nat /\ s < 92 * LengthUnit
  BY SerialRange, Zenon
<1>1. s \in Nat /\ s < 92 * 16777216 /\ s % 2 = 1
  BY <1>0, Units, SMT DEF Dirty
<1>2. /\ s % 16777216 \in Nat /\ s % 16777216 < 16777216 /\ (s % 16777216) % 2 = 1
      /\ (s - 1) % 16777216 = (s % 16777216) - 1 /\ (s - 1) \div 65536 = s \div 65536
  BY <1>1, SMT
<1>3. ClearDirty(s) = s - 1 /\ s - 1 \in Serial
  <2>1. ClearDirty(s) = s - 1 /\ s - 1 \in Nat /\ s - 1 < 92 * LengthUnit
    BY <1>1, Units, SMT DEF ClearDirty, Dirty
  <2> QED
    BY <2>1, SerialRange, Zenon
<1>4. /\ ((s % 16777216) + 1) % 16777216 \in Nat /\ ((s % 16777216) + 1) % 16777216 < 16777216
      /\ (((s % 16777216) + 1) % 16777216) % 2 = 0 /\ ((s % 16777216) - 1) % 2 = 0
  BY <1>2, SMT
<1>5. HasLongFlag(Counter(s - 1)) <=> HasLongFlag(s)
  <2>1. HasLongFlag(Counter(s - 1)) <=> HasLongFlag(s - 1)
    BY <1>3, SerialParts, Zenon
  <2>2. HasLongFlag(s - 1) <=> HasLongFlag(s)
    BY <1>2, Units, SMT DEF HasLongFlag
  <2> QED
    BY <2>1, <2>2, SMT
<1>6. Counter(s) = s % 16777216 /\ Counter(s - 1) = (s % 16777216) - 1
      /\ Counter(Counter(s) + 1) = ((s % 16777216) + 1) % 16777216
  BY <1>2, Units, SMT DEF Counter
<1>7. IsCounter(Counter(Counter(s) + 1)) /\ IsCounter(Counter(s - 1))
  <2>1. IsCounter(Counter(s - 1))
    BY <1>3, SerialParts, Zenon
  <2>2. IsCounter(Counter(Counter(s) + 1))
    BY <1>4, <1>6, Units, SMT DEF IsCounter
  <2> QED
    BY <2>1, <2>2, SMT
<1>8. ~Dirty(Counter(Counter(s) + 1)) /\ ~Dirty(Counter(s - 1))
  BY <1>4, <1>6, SMT DEF Dirty
<1>9. Counter(s - 1) = Counter(s) - 1
  BY <1>6, SMT
<1> QED
  BY <1>3, <1>5, <1>7, <1>8, <1>9, Zenon

-------------------------------------------------------------------------------
(***************************************************************************)
(* The serials that the writer composes.                                   *)
(***************************************************************************)
LEMMA LayoutLens ==
  ASSUME NEW v \in Cells, NEW is_long \in BOOLEAN, is_long \/ ~IsLong(v)
  PROVE  /\ LayoutLen(v, is_long) \in Nat /\ LayoutLen(v, is_long) < 92
         /\ ~is_long => LayoutLen(v, is_long) = ValLen[v]
  BY ValLenAssumption DEF Cells, IsLong, PROP_VALUE_MAX, LayoutLen, LONG_LEGACY_ERROR_LEN

\* A serial composed of a value's length and a clean counter is clean and whole.
LEMMA ComposedWhole ==
  ASSUME NEW v \in Cells, NEW is_long \in BOOLEAN, is_long \/ ~IsLong(v), NEW c, IsCounter(c), ~Dirty(c)
  PROVE  LET s == Compose(LayoutLen(v, is_long), is_long, c) IN
         /\ s \in Serial /\ ~Dirty(s) /\ serial_len(s) = LayoutLen(v, is_long)
         /\ Whole(s, <<v, v>>)
<1> DEFINE s == Compose(LayoutLen(v, is_long), is_long, c)
<1>1. /\ s \in Serial /\ ~Dirty(s) /\ serial_len(s) = LayoutLen(v, is_long)
      /\ HasLongFlag(s) <=> is_long \/ HasLongFlag(c)
  BY LayoutLens, ComposedSerial
<1>2. <<v, v>>[1] = v /\ <<v, v>>[2] = v
  OBVIOUS
<1> HIDE DEF s
<1>3. Whole(s, <<v, v>>)
  BY <1>1, <1>2, LayoutLens DEF Whole
<1> QED
  BY <1>1, <1>3 DEF s

LEMMA ZeroCounter == IsCounter(0) /\ ~Dirty(0) /\ ~HasLongFlag(0)
<1>1. 0 < LengthUnit /\ ~(0 \div PROP_INFO_LONG_FLAG) % 2 = 1
  BY Units, SMT
<1> QED
  BY <1>1, SMT DEF IsCounter, Dirty, HasLongFlag

LEMMA NewInfoFacts ==
  ASSUME NEW v \in Cells
  PROVE  /\ NewInfo(v) \in Info /\ NewInfo(v).cells = <<v, v>>
         /\ ~Dirty(NewInfo(v).serial) /\ Whole(NewInfo(v).serial, <<v, v>>)
         /\ AtZero(NewInfo(v).serial)
<1> DEFINE s == compose_initial_serial(LayoutLen(v, IsLong(v)), IsLong(v))
<1>0. IsLong(v) \in BOOLEAN /\ ValLen[v] \in Nat
  BY ValLenAssumption DEF IsLong, Cells
<1>1. s \in Serial /\ ~Dirty(s) /\ Whole(s, <<v, v>>)
  BY <1>0, ZeroCounter, ComposedWhole DEF compose_initial_serial
<1>2. Counter(s) = IF IsLong(v) THEN 0 + PROP_INFO_LONG_FLAG ELSE 0
  BY <1>0, ZeroCounter, LayoutLens, ComposedSerial DEF compose_initial_serial
<1>3. PROP_INFO_LONG_FLAG \in Nat
  BY Units, SMT
<1>4. AtZero(s)
  BY <1>2, <1>3 DEF AtZero
<1> HIDE DEF s
<1>5. NewInfo(v) = [serial |-> s, cells |-> <<v, v>>, strlen |-> ValLen[v]]
  BY DEF NewInfo, s
<1> QED
  BY <1>0, <1>1, <1>4, <1>5 DEF Info

LEMMA WipedFacts ==
  /\ Wiped \in Info /\ Wiped.serial = 0 /\ Wiped.cells = <<0, 0>> /\ 0 \in Serial
  /\ ~Dirty(0) /\ serial_len(0) = 0 /\ AtZero(0) /\ Moves(0) = 0
<1>1. 0 < 92 * LengthUnit /\ 0 \div LengthUnit = 0 /\ 0 % LengthUnit = 0
  BY Units, SMT
<1>2. 0 % PROP_INFO_LONG_FLAG = 0
  BY Units, SMT
<1>3. 0 \in Serial
  BY <1>1, SerialRange, Zenon
<1>4. Counter(0) = 0 /\ serial_len(0) = 0 /\ AtZero(0) /\ Moves(0) = 0
  BY <1>1, <1>2 DEF Counter, serial_len, AtZero, Moves
<1> QED
  BY <1>3, <1>4, ZeroCounter DEF Wiped, Info, Cells
\* The serial that wakes the waiters.
LEMMA VisibleFacts ==
  ASSUME NEW s \in Serial, Dirty(s), NEW v \in Cells, HasLongFlag(s) \/ ~IsLong(v)
  PROVE  LET is_long == HasLongFlag(s)
             t == compose_visible_serial(s, LayoutLen(v, is_long), is_long) IN
         /\ t \in Serial /\ ~Dirty(t) /\ serial_len(t) = LayoutLen(v, is_long)
         /\ Whole(t, <<v, v>>)
         /\ Moves(s) + 1 < PROP_INFO_LONG_FLAG => Moves(t) = Moves(s) + 1
<1> DEFINE is_long == HasLongFlag(s)
           t == compose_visible_serial(s, LayoutLen(v, is_long), is_long)
           c == Counter(Counter(s) + 1)
<1>0. is_long \in BOOLEAN
  BY DEF HasLongFlag
<1>1. IsCounter(c) /\ ~Dirty(c)
  BY Counters
<1>2. t = Compose(LayoutLen(v, is_long), is_long, c)
  BY DEF compose_visible_serial
<1>3. LayoutLen(v, is_long) \in Nat /\ LayoutLen(v, is_long) < 92
  BY <1>0, LayoutLens
<1> HIDE DEF is_long, c
<1>4. t \in Serial /\ ~Dirty(t) /\ serial_len(t) = LayoutLen(v, is_long) /\ Whole(t, <<v, v>>)
  BY <1>0, <1>1, <1>2, ComposedWhole DEF is_long
<1>5. Counter(t) = IF is_long /\ ~HasLongFlag(c) THEN c + PROP_INFO_LONG_FLAG ELSE c
  BY <1>0, <1>1, <1>2, <1>3, ComposedSerial
<1>6. ASSUME Moves(s) + 1 < PROP_INFO_LONG_FLAG PROVE Moves(t) = Moves(s) + 1
  <2> DEFINE n == Counter(s)
  <2>1. n \in Nat /\ n < 16777216
    BY SerialParts, Units, SMT DEF IsCounter
  <2> HIDE DEF n
  <2>2. (n % 65536) + 1 < 65536
    BY <1>6, Units, SMT DEF Moves, n
  <2>3. (n + 1) % 65536 = (n % 65536) + 1
    BY <2>1, <2>2, SMT
  <2>4. n + 1 < 16777216 \/ (n + 1) % 65536 = 0
    BY <2>1, SMT
  <2>5. n + 1 < 16777216
    BY <2>1, <2>3, <2>4, SMT
  <2>6. (n + 1) % 16777216 = n + 1
    BY <2>1, <2>5, SMT
  <2>7. c = n + 1
    BY <2>6, Units, SMT DEF c, n, Counter
  <2>8. (n + 1 + 65536) % 65536 = (n + 1) % 65536
    BY <2>1, SMT
  <2>9. Counter(t) % 65536 = (n + 1) % 65536
    BY <1>5, <2>7, <2>8, Units, SMT
  <2> QED
    BY <2>3, <2>9, Units, SMT DEF Moves, n
<1> QED
  BY <1>4, <1>6 DEF is_long

\* The serial that takes the move back.
LEMMA HiddenFacts ==
  ASSUME NEW s \in Serial, Dirty(s), NEW v \in Cells, HasLongFlag(s) \/ ~IsLong(v)
  PROVE  LET is_long == HasLongFlag(s)
             t == compose_hidden_serial(s, LayoutLen(v, is_long), is_long) IN
         /\ t \in Serial /\ ~Dirty(t) /\ serial_len(t) = LayoutLen(v, is_long)
         /\ Whole(t, <<v, v>>) /\ Counter(t) = Counter(ClearDirty(s))
         /\ Moves(t) <= Moves(s)
<1> DEFINE is_long == HasLongFlag(s)
           t == compose_hidden_serial(s, LayoutLen(v, is_long), is_long)
           c == Counter(ClearDirty(s))
<1>0. is_long \in BOOLEAN
  BY DEF HasLongFlag
<1>1. IsCounter(c) /\ ~Dirty(c) /\ (HasLongFlag(c) <=> is_long) /\ c = Counter(s) - 1
  BY Counters
<1>2. t = Compose(LayoutLen(v, is_long), is_long, c)
  BY DEF compose_hidden_serial
<1>3. LayoutLen(v, is_long) \in Nat /\ LayoutLen(v, is_long) < 92
  BY <1>0, LayoutLens
<1> HIDE DEF is_long, c
<1>4. t \in Serial /\ ~Dirty(t) /\ serial_len(t) = LayoutLen(v, is_long) /\ Whole(t, <<v, v>>)
  BY <1>0, <1>1, <1>2, ComposedWhole DEF is_long
<1>5. Counter(t) = c
  BY <1>0, <1>1, <1>2, <1>3, ComposedSerial
<1>6. Moves(t) <= Moves(s)
  <2> DEFINE n == Counter(s)
  <2>1. n \in Nat /\ n % 2 = 1
    BY SerialParts, SMT DEF IsCounter, Dirty
  <2> HIDE DEF n
  <2>2. (n - 1) % 65536 <= n % 65536
    BY <2>1, SMT
  <2>3. Counter(t) = n - 1
    BY <1>1, <1>5 DEF n
  <2> QED
    BY <2>2, <2>3, Units, SMT DEF Moves, n
<1> QED
  BY <1>4, <1>5, <1>6 DEF is_long, c

\* How the dirty bit moves the counter.
LEMMA DirtyMoves ==
  ASSUME NEW s \in Serial
  PROVE  /\ Moves(s) \in Nat
         /\ Moves(SetDirty(s)) = IF Dirty(s) THEN Moves(s) ELSE Moves(s) + 1
         /\ Dirty(s) <=> Moves(s) % 2 = 1
<1> DEFINE n == Counter(s)
<1>1. n \in Nat /\ (Dirty(s) <=> n % 2 = 1)
  BY SerialParts, SMT DEF IsCounter, Dirty
<1>2. Counter(SetDirty(s)) = IF Dirty(s) THEN n ELSE n + 1
  BY SetDirtyKeeps
<1> HIDE DEF n
<1>3. /\ n % 65536 \in Nat /\ (n % 65536) % 2 = n % 2
      /\ n % 2 = 0 => (n + 1) % 65536 = (n % 65536) + 1
      /\ n % 2 \in {0, 1}
  BY <1>1, SMT
<1>4. Moves(s) = n % 65536
  BY Units, SMT DEF Moves, n
<1>5. Moves(SetDirty(s)) = IF Dirty(s) THEN n % 65536 ELSE (n + 1) % 65536
  BY <1>2, Units, SMT DEF Moves
<1> QED
  BY <1>1, <1>3, <1>4, <1>5, SMT

-------------------------------------------------------------------------------
(***************************************************************************)
(* The invariant of the writer.                                            *)
(***************************************************************************)
\* Only the prop_info i changes, and becomes r.
Changed(i, r) ==
  /\ info' \in Seq(Info) /\ Len(info') = Len(info) /\ DOMAIN info' = DOMAIN info
  /\ info'[i] = r /\ \A j \in DOMAIN info : j # i => info'[j] = info[j]

LEMMA Change ==
  ASSUME info \in Seq(Info), NEW i \in 1..Len(info), NEW r \in Info,
         info' = [info EXCEPT ![i] = r]
  PROVE  Changed(i, r)
<1>1. DOMAIN info = 1..Len(info) /\ Len(info) \in Nat
  OBVIOUS
<1> QED
  BY <1>1, ExceptSeq DEF Changed

LEMMA AtWork ==
  ASSUME WriterType, wat # 0
  PROVE  /\ wat \in 1..Len(info) /\ wat \in DOMAIN info /\ DOMAIN info = 1..Len(info)
         /\ info[wat] \in Info /\ info[wat].serial \in Serial /\ info[wat].cells \in Cells \X Cells
         /\ info[wat].cells = <<info[wat].cells[1], info[wat].cells[2]>>
         /\ wcall.val \in Cells
<1>1. /\ wat \in 1..Len(info) /\ DOMAIN info = 1..Len(info) /\ info[wat] \in Info
      /\ wcall.val \in Cells
  BY DEF WriterType
<1>2. info[wat].serial \in Serial /\ info[wat].cells \in Cells \X Cells
  BY <1>1 DEF Info
<1>3. info[wat].cells = <<info[wat].cells[1], info[wat].cells[2]>>
  BY <1>2
<1> QED
  BY <1>1, <1>2, <1>3

\* The writer stores a serial, writes a cell, or wipes.
LEMMA ChangeSerial ==
  ASSUME WriterType, wat # 0, NEW s \in Serial, info' = [info EXCEPT ![wat].serial = s]
  PROVE  Changed(wat, [info[wat] EXCEPT !.serial = s])
<1>1. [info[wat] EXCEPT !.serial = s] \in Info
  BY AtWork DEF Info
<1>2. info' = [info EXCEPT ![wat] = [info[wat] EXCEPT !.serial = s]]
  BY AtWork
<1> QED
  BY <1>1, <1>2, AtWork, Change DEF WriterType

LEMMA InitWInv == Init => WInv
<1> SUFFICES ASSUME Init PROVE WInv
  OBVIOUS
<1>1. 0 \in Serial /\ 0 \in Cells
  BY WipedFacts DEF Cells
<1>2. WriterType
  BY <1>1, BoundsAssumption DEF Init, WriterType, Places, NoCall
<1>3. Standing /\ Progress /\ AllWhole
  BY DEF Init, Standing, Progress, AllWhole, NoCall, Updating, Writing
<1> QED
  BY <1>2, <1>3 DEF WInv

LEMMA EndKeeps ==
  ASSUME WInv, UNCHANGED <<prop, info>>, area_serial' \in Nat,
         wpc' = "idle" /\ wcall' = NoCall /\ wat' = 0 /\ wserial' = 0 /\ wload' = 0,
         calls' = calls, kills' \in Nat, kills' <= MaxKills,
         opc' = opc, oload' = oload, others' = others
  PROVE  WInv'
<1>1. 0 \in Serial /\ 0 \in Cells
  BY WipedFacts DEF Cells
<1>2. WriterType'
  BY <1>1 DEF WInv, WriterType, Places, NoCall
<1>3. Standing' /\ Progress' /\ AllWhole'
  BY DEF WInv, Standing, Progress, AllWhole, NoCall, Updating, Writing, Whole, Clean, WholeAt
<1> QED
  BY <1>2, <1>3 DEF WInv

\* Requests, and the steps that only look.
LEMMA CallStep ==
  ASSUME WInv, Request PROVE WInv'
<1> USE DEF WInv, Standing, Progress, AllWhole, Updating, Writing, Whole, Clean, WholeAt, Stored
<1>1. PICK op \in {"set", "delete"}, v \in Cells : Call(op, v)
  BY DEF Request, Cells
<1>2. WriterType'
  BY <1>1 DEF Call, WriterType, shared, writer, other, Places
<1>3. Standing' /\ Progress' /\ AllWhole'
  BY <1>1 DEF Call, shared, other
<1> QED
  BY <1>2, <1>3

LEMMA LookStep ==
  ASSUME WInv, Upsert \/ Validate \/ BumpLoad PROVE WInv'
<1> USE DEF Updating, Writing, WGoto, shared, other
<1>1. ASSUME Upsert PROVE WInv'
  <2>1. WriterType' /\ Standing'
    BY <1>1 DEF WInv, Upsert, WriterType, Standing, Places
  <2>2. Progress' /\ AllWhole'
    BY <1>1 DEF WInv, Upsert, Progress, AllWhole, Whole, Clean, WholeAt, Stored
  <2> QED
    BY <2>1, <2>2 DEF WInv
<1>2. ASSUME Validate PROVE WInv'
  <2>1. wat # 0
    BY <1>2 DEF WInv, Standing, Validate
  <2>2. WriterType' /\ Standing'
    BY <1>2, <2>1, AtWork DEF WInv, Validate, WriterType, Standing, Places
  <2>3. Progress' /\ AllWhole'
    BY <1>2 DEF WInv, Validate, FitsLayout, Progress, AllWhole, Whole, Clean, WholeAt, Stored
  <2> QED
    BY <2>2, <2>3 DEF WInv
<1>3. ASSUME BumpLoad PROVE WInv'
  <2>1. WriterType' /\ Standing'
    BY <1>3 DEF WInv, BumpLoad, WriterType, Standing, Places
  <2>2. Progress' /\ AllWhole'
    BY <1>3 DEF WInv, BumpLoad, Progress, AllWhole, Whole, Clean, WholeAt, Stored
  <2> QED
    BY <2>1, <2>2 DEF WInv
<1> QED
  BY <1>1, <1>2, <1>3

\* A new prop_info, not linked yet.
LEMMA AddInfoStep ==
  ASSUME WInv, AddInfo PROVE WInv'
<1> USE DEF Updating, Writing, WGoto, other
<1>0. wcall.val \in Cells /\ info \in Seq(Info) /\ Len(info) \in Nat /\ DOMAIN info = 1..Len(info)
  BY DEF WInv, WriterType
<1> DEFINE r == NewInfo(wcall.val)
<1>1. r \in Info /\ r.cells = <<wcall.val, wcall.val>> /\ ~Dirty(r.serial) /\ Whole(r.serial, r.cells)
  BY <1>0, NewInfoFacts
<1> HIDE DEF r
<1>2. /\ info' = Append(info, r) /\ info' \in Seq(Info) /\ Len(info') = Len(info) + 1
      /\ DOMAIN info' = 1..(Len(info) + 1) /\ wat' = Len(info) + 1
      /\ info'[Len(info) + 1] = r /\ \A i \in DOMAIN info : info'[i] = info[i]
  BY <1>0, <1>1, AppendProperties DEF AddInfo, r
<1>3. WriterType'
  <2>1. Len(info') <= MaxInfos
    BY <1>0, <1>2, BoundsAssumption DEF AddInfo
  <2>2. wat' \in 0..Len(info') /\ prop' \in 0..Len(info') /\ wpc' = "link"
    BY <1>0, <1>2 DEF WInv, WriterType, AddInfo
  <2> QED
    BY <1>2, <2>1, <2>2 DEF WInv, AddInfo, WriterType, Places
<1>4. Standing'
  BY <1>0, <1>2 DEF WInv, AddInfo, Standing, WriterType
<1>5. prop # 0 => prop \in DOMAIN info
  BY <1>0 DEF WInv, WriterType
<1>6. Progress'
  BY <1>1, <1>2 DEF AddInfo, Progress, Stored, Clean, WholeAt
<1>7. AllWhole'
  BY <1>0, <1>1, <1>2, <1>5 DEF WInv, AddInfo, AllWhole, Clean, WholeAt
<1> QED
  BY <1>3, <1>4, <1>6, <1>7 DEF WInv

LEMMA AddLinkStep ==
  ASSUME WInv, AddLink PROVE WInv'
<1> USE DEF Updating, Writing, WGoto, other
<1>1. WriterType' /\ Standing'
  BY DEF WInv, AddLink, WriterType, Standing, Places
<1>2. Progress' /\ AllWhole'
  BY DEF WInv, AddLink, Standing, Progress, AllWhole, Stored, Clean, WholeAt
<1> QED
  BY <1>1, <1>2 DEF WInv

\* The four stores of an update.
LEMMA MarkDirtyStep ==
  ASSUME WInv, MarkDirty PROVE WInv'
<1> USE DEF Updating, Writing, WGoto, other, StoreSerial
<1>0. wpc = "dirty" /\ wat # 0 /\ wat = prop /\ wserial \in Serial
  BY DEF WInv, Standing, MarkDirty, WriterType
<1> DEFINE s == SetDirty(wserial)
<1>1. s \in Serial /\ Dirty(s) /\ (HasLongFlag(s) <=> HasLongFlag(wserial))
  BY <1>0, SetDirtyKeeps
<1>2. wserial' = s /\ info' = [info EXCEPT ![wat].serial = s]
  BY DEF MarkDirty
<1> HIDE DEF s
<1> DEFINE r == [info[wat] EXCEPT !.serial = s]
<1>3. Changed(wat, r) /\ r.serial = s
  BY <1>0, <1>1, <1>2, ChangeSerial, AtWork DEF WInv, Info
<1> HIDE DEF r
<1>4. WriterType'
  BY <1>0, <1>1, <1>2, <1>3 DEF WInv, MarkDirty, WriterType, Places, Changed
<1>5. Standing'
  BY <1>0 DEF WInv, MarkDirty, Standing
<1>6. Progress'
  BY <1>0, <1>1, <1>2, <1>3 DEF WInv, MarkDirty, Progress, Changed
<1>7. AllWhole'
  BY <1>0, <1>1, <1>3 DEF WInv, MarkDirty, AllWhole, Changed, Clean, WholeAt
<1> QED
  BY <1>4, <1>5, <1>6, <1>7 DEF WInv

LEMMA WriteHeadStep ==
  ASSUME WInv, WriteHead PROVE WInv'
<1> USE DEF Updating, Writing, WGoto, other
<1>0. wpc = "head" /\ wat # 0 /\ wat = prop
  BY DEF WInv, Standing, WriteHead
<1> DEFINE r == [info[wat] EXCEPT !.cells = [info[wat].cells EXCEPT ![1] = wcall.val]]
<1>1. info' = [info EXCEPT ![wat] = r]
  BY <1>0, AtWork DEF WInv, WriteHead
<1>2. r \in Info /\ r.serial = info[wat].serial /\ r.cells[1] = wcall.val
  BY <1>0, AtWork DEF WInv, Info
<1> HIDE DEF r
<1>3. Changed(wat, r)
  BY <1>0, <1>1, <1>2, Change, AtWork DEF WInv, WriterType
<1>4. WriterType'
  BY <1>0, <1>3 DEF WInv, WriteHead, WriterType, Places, Changed
<1>5. Standing'
  BY <1>0 DEF WInv, WriteHead, Standing
<1>6. Progress'
  BY <1>0, <1>2, <1>3 DEF WInv, WriteHead, Progress, Changed
<1>7. AllWhole'
  BY <1>0, <1>2, <1>3 DEF WInv, WriteHead, Progress, AllWhole, Changed, Clean, WholeAt
<1> QED
  BY <1>4, <1>5, <1>6, <1>7 DEF WInv

LEMMA WriteTailStep ==
  ASSUME WInv, WriteTail PROVE WInv'
<1> USE DEF Updating, Writing, WGoto, other
<1>0. wpc = "tail" /\ wat # 0 /\ wat = prop
  BY DEF WInv, Standing, WriteTail
<1> DEFINE r == [info[wat] EXCEPT !.cells = <<wcall.val, wcall.val>>, !.strlen = ValLen[wcall.val]]
<1>1. info' = [info EXCEPT ![wat] = r]
  <2>1. info[wat].cells[1] = wcall.val
    BY <1>0 DEF WInv, Progress
  <2>2. [info[wat].cells EXCEPT ![2] = wcall.val] = <<wcall.val, wcall.val>>
    BY <1>0, <2>1, AtWork DEF WInv
  <2> QED
    BY <1>0, <2>2, AtWork DEF WInv, WriteTail
<1>2. r \in Info /\ r.serial = info[wat].serial /\ r.cells = <<wcall.val, wcall.val>>
  BY <1>0, AtWork, ValLenAssumption DEF WInv, Info, Cells
<1> HIDE DEF r
<1>3. Changed(wat, r)
  BY <1>0, <1>1, <1>2, Change, AtWork DEF WInv, WriterType
<1>4. WriterType'
  BY <1>0, <1>3 DEF WInv, WriteTail, WriterType, Places, Changed
<1>5. Standing'
  BY <1>0 DEF WInv, WriteTail, Standing
<1>6. Progress'
  BY <1>0, <1>2, <1>3 DEF WInv, WriteTail, Progress, Changed
<1>7. AllWhole'
  BY <1>0, <1>2, <1>3 DEF WInv, WriteTail, Progress, AllWhole, Changed, Clean, WholeAt
<1> QED
  BY <1>4, <1>5, <1>6, <1>7 DEF WInv

LEMMA PublishVisibleStep ==
  ASSUME WInv, PublishVisible PROVE WInv'
<1> USE DEF Updating, Writing, WGoto, other, StoreSerial
<1>0. /\ wpc = "visible" /\ wat # 0 /\ wat = prop /\ wserial \in Serial /\ wcall.val \in Cells
      /\ Dirty(wserial) /\ (HasLongFlag(wserial) \/ ~IsLong(wcall.val)) /\ wcall.op = "update"
      /\ info[wat].cells = <<wcall.val, wcall.val>>
  BY DEF WInv, Standing, Progress, PublishVisible, WriterType
<1> DEFINE s == Layout(compose_visible_serial)
<1>1. /\ s \in Serial /\ ~Dirty(s) /\ Whole(s, <<wcall.val, wcall.val>>)
      /\ serial_len(s) = LayoutLen(wcall.val, HasLongFlag(wserial))
  BY <1>0, VisibleFacts DEF Layout
<1>2. info' = [info EXCEPT ![wat].serial = s]
  BY DEF PublishVisible
<1> HIDE DEF s
<1> DEFINE r == [info[wat] EXCEPT !.serial = s]
<1>3. Changed(wat, r) /\ r.serial = s /\ r.cells = <<wcall.val, wcall.val>>
  BY <1>0, <1>1, <1>2, ChangeSerial, AtWork DEF WInv, Info
<1> HIDE DEF r
<1>4. WriterType'
  BY <1>0, <1>3 DEF WInv, PublishVisible, WriterType, Places, Changed
<1>5. Standing'
  BY <1>0 DEF WInv, PublishVisible, Standing
<1>6. Progress'
  BY <1>0, <1>1, <1>3 DEF PublishVisible, Progress, Stored, Changed, Clean, WholeAt
<1>7. AllWhole'
  BY <1>0, <1>1, <1>3 DEF WInv, PublishVisible, AllWhole, Changed, Clean, WholeAt
<1> QED
  BY <1>4, <1>5, <1>6, <1>7 DEF WInv

LEMMA BumpStoreStep ==
  ASSUME WInv, BumpStore PROVE WInv'
<1>1. CASE wcall.op = "update" /\ WGoto("hide") /\ UNCHANGED <<wcall, wat, wserial>>
  <2> USE DEF Updating, Writing, WGoto, other
  <2>1. wpc = "store" /\ UNCHANGED <<prop, info>> /\ area_serial' = wload + 1
    BY DEF BumpStore
  <2>2. WriterType' /\ Standing'
    BY <1>1, <2>1 DEF WInv, WriterType, Standing, Progress, Places
  <2>3. Progress' /\ AllWhole'
    BY <1>1, <2>1 DEF WInv, Progress, AllWhole, Stored, Clean, WholeAt, Whole
  <2> QED
    BY <2>2, <2>3 DEF WInv
<1>2. CASE WEnd
  BY <1>2, EndKeeps DEF BumpStore, WEnd, WInv, WriterType, other
<1> QED
  BY <1>1, <1>2 DEF BumpStore

LEMMA HideStep ==
  ASSUME WInv, Hide PROVE WInv'
<1> USE DEF Updating, Writing, other, StoreSerial
<1>0. /\ wpc = "hide" /\ wat # 0 /\ wat = prop /\ wserial \in Serial /\ wcall.val \in Cells
      /\ wcall.op = "update" /\ Dirty(wserial) /\ (HasLongFlag(wserial) \/ ~IsLong(wcall.val))
      /\ info[wat].cells = <<wcall.val, wcall.val>>
  BY DEF WInv, Standing, Progress, Stored, Hide, WriterType
<1> DEFINE s == Layout(compose_hidden_serial)
<1>1. s \in Serial /\ ~Dirty(s) /\ Whole(s, <<wcall.val, wcall.val>>)
  BY <1>0, HiddenFacts DEF Layout
<1>2. info' = [info EXCEPT ![wat].serial = s]
  BY DEF Hide
<1> HIDE DEF s
<1> DEFINE r == [info[wat] EXCEPT !.serial = s]
<1>3. Changed(wat, r) /\ r.serial = s /\ r.cells = <<wcall.val, wcall.val>>
  BY <1>0, <1>1, <1>2, ChangeSerial, AtWork DEF WInv, Info
<1> HIDE DEF r
<1>4. WriterType'
  BY <1>0, <1>3, WipedFacts DEF WInv, Hide, WriterType, Places, Changed, NoCall, Cells
<1>5. Standing'
  BY DEF Hide, Standing, NoCall
<1>6. Progress'
  BY DEF Hide, Progress
<1>7. AllWhole'
  BY <1>0, <1>1, <1>3 DEF WInv, Hide, AllWhole, Changed, Clean, WholeAt
<1> QED
  BY <1>4, <1>5, <1>6, <1>7 DEF WInv

\* The removal: what is wiped is linked no more.
LEMMA DetachStep ==
  ASSUME WInv, Detach PROVE WInv'
<1> USE DEF Updating, Writing, WGoto, other
<1>1. WriterType' /\ Standing'
  BY DEF WInv, Detach, WriterType, Standing, Places
<1>2. Progress' /\ AllWhole'
  BY DEF WInv, Detach, Progress, AllWhole, Clean, WholeAt
<1> QED
  BY <1>1, <1>2 DEF WInv

LEMMA WipeValueStep ==
  ASSUME WInv, WipeValue PROVE WInv'
<1> USE DEF Updating, Writing, other
<1>0. wpc = "wipe" /\ wat # 0 /\ prop = 0 /\ wcall.op = "delete"
  BY DEF WInv, Standing, WipeValue
<1> DEFINE r == [info[wat] EXCEPT !.cells = <<0, 0>>, !.strlen = 0]
<1>1. info' = [info EXCEPT ![wat] = r]
  BY <1>0, AtWork DEF WInv, WipeValue
<1>2. r \in Info /\ r.cells = <<0, 0>>
  BY <1>0, AtWork DEF WInv, Info, Cells
<1> HIDE DEF r
<1>3. Changed(wat, r)
  BY <1>0, <1>1, <1>2, Change, AtWork DEF WInv, WriterType
<1>4. WriterType'
  BY <1>0, <1>3 DEF WInv, WipeValue, WriterType, Places, Changed
<1>5. Standing' /\ Progress'
  BY <1>0, <1>2, <1>3 DEF WInv, WipeValue, Standing, Progress, Changed
<1>6. AllWhole'
  BY <1>0, <1>2, <1>3 DEF WInv, WipeValue, AllWhole, Changed, Clean, WholeAt
<1> QED
  BY <1>4, <1>5, <1>6 DEF WInv

LEMMA WipeHeaderStep ==
  ASSUME WInv, WipeHeader PROVE WInv'
<1> USE DEF Updating, Writing, WGoto, other
<1>0. wpc \in {"wipe", "wipe_header"} /\ wat # 0 /\ prop = 0 /\ wcall.op = "delete"
  BY DEF WInv, Standing, WipeHeader
<1>1. info' = [info EXCEPT ![wat] = Wiped]
  BY DEF WipeHeader
<1>3. Changed(wat, Wiped)
  BY <1>0, <1>1, Change, AtWork, WipedFacts DEF WInv, WriterType
<1>4. WriterType'
  BY <1>0, <1>3 DEF WInv, WipeHeader, WriterType, Places, Changed
<1>5. Standing' /\ Progress'
  BY <1>0, <1>3 DEF WInv, WipeHeader, Standing, Progress, Changed
<1>6. AllWhole'
  BY <1>0, <1>3, WipedFacts DEF WInv, WipeHeader, AllWhole, Changed, Clean, WholeAt
<1> QED
  BY <1>4, <1>5, <1>6 DEF WInv

\* The ends of a call, a kill, and what others do.
LEMMA EndStep ==
  ASSUME WInv, AddFull \/ TooLong \/ RemoveNothing \/ Kill PROVE WInv'
<1>1. kills \in Nat /\ kills <= MaxKills /\ area_serial \in Nat /\ MaxKills \in Nat
  BY BoundsAssumption DEF WInv, WriterType
<1>2. CASE AddFull \/ TooLong \/ RemoveNothing
  BY <1>1, <1>2, EndKeeps DEF AddFull, TooLong, RemoveNothing, WEnd, shared, other
<1>3. CASE Kill
  BY <1>1, <1>3, EndKeeps DEF Kill, shared, other
<1> QED
  BY <1>2, <1>3

LEMMA OtherStep ==
  ASSUME WInv, UNCHANGED <<prop, info, writer>>,
         area_serial' \in Nat, opc' \in {"idle", "store"}, oload' \in Nat, others' \in Nat
  PROVE  WInv'
<1>1. WriterType'
  BY DEF WInv, WriterType, writer
<1>2. Standing' /\ Progress' /\ AllWhole'
  BY DEF WInv, Standing, Progress, AllWhole, writer, Whole, Clean, WholeAt, Stored
<1> QED
  BY <1>1, <1>2 DEF WInv

LEMMA WInvNext == WInv /\ [Next]_svars => WInv'
<1> SUFFICES ASSUME WInv, [Next]_svars PROVE WInv'
  OBVIOUS
<1>0. area_serial \in Nat /\ opc \in {"idle", "store"} /\ oload \in Nat /\ others \in Nat
  BY DEF WInv, WriterType
<1>1. CASE Request
  BY <1>1, CallStep
<1>2. CASE WriterStep
  BY <1>2, LookStep, AddInfoStep, AddLinkStep, MarkDirtyStep, WriteHeadStep, WriteTailStep,
     PublishVisibleStep, BumpStoreStep, HideStep, DetachStep, WipeValueStep, WipeHeaderStep,
     EndStep DEF WriterStep
<1>3. CASE Kill
  BY <1>3, EndStep
<1>4. CASE OtherLoad
  BY <1>0, <1>4, OtherStep DEF OtherLoad, shared
<1>5. CASE OtherStore
  BY <1>0, <1>5, OtherStep DEF OtherStore
<1>6. CASE ReaderStep \/ \E mode \in ReadModes : ReadFind(mode)
  BY <1>0, <1>6, OtherStep DEF ReaderStep, ReadFind, ReadLoad, ReadHead, ReadTail, ReadCheck,
     RGoto, shared, other
<1>7. CASE UNCHANGED svars
  BY <1>0, <1>7, OtherStep DEF svars, shared, other
<1> QED
  BY <1>1, <1>2, <1>3, <1>4, <1>5, <1>6, <1>7 DEF Next

LEMMA WInvariance == Spec => []WInv
  BY InitWInv, WInvNext, PTL DEF Spec

(***************************************************************************)
(* A linked property whose serial is clean holds a whole value of the      *)
(* length and layout that the serial tells, after any number of updates,   *)
(* kills and deletes (MmapPropArea::update).                               *)
(***************************************************************************)
THEOREM CleanMeansWhole == Spec => []CleanSerialMeansWholeValue
<1>1. WInv => CleanSerialMeansWholeValue
  BY DEF WInv, AllWhole, Clean, WholeAt, CleanSerialMeansWholeValue
<1> QED
  BY <1>1, WInvariance, PTL

(***************************************************************************)
(* The global serial announces only what can be seen, as long as nobody    *)
(* else moves it (bump_area_serial_and_wake comes last).                   *)
(***************************************************************************)
THEOREM SeenBeforeAnnounced == Spec => ChangeSeenBeforeItIsAnnounced
<1>1. WInv => (wpc = "store" =>
        \/ wcall.op = "delete" /\ prop = 0 /\ info[wat] = Wiped
        \/ /\ wcall.op \in {"add", "update"} /\ prop = wat /\ ~Dirty(info[wat].serial)
           /\ info[wat].cells = <<wcall.val, wcall.val>>
           /\ Whole(info[wat].serial, info[wat].cells))
  BY DEF WInv, Standing, Progress, Stored, Clean, WholeAt
<1> QED
  BY <1>1, WInvariance, PTL DEF ChangeSeenBeforeItIsAnnounced

-------------------------------------------------------------------------------
(***************************************************************************)
(* The types of the reader, and TypeOK.                                    *)
(***************************************************************************)
\* What the stores of the writer leave, once it has a prop_info.
Store == MarkDirty \/ WriteHead \/ WriteTail \/ PublishVisible \/ Hide \/ WipeValue \/ WipeHeader

\* The steps of the writer and of other processes that leave the prop_infos alone.
Rest ==
  \/ Request \/ Upsert \/ AddFull \/ AddLink \/ TooLong \/ Validate \/ BumpLoad \/ BumpStore
  \/ RemoveNothing \/ Detach \/ Kill \/ OtherLoad \/ OtherStore

LEMMA RestKeeps == Rest => UNCHANGED <<info, reader>>
  BY DEF Rest, Request, Call, Upsert, AddFull, AddLink, TooLong, Validate, BumpLoad, BumpStore,
     RemoveNothing, Detach, Kill, OtherLoad, OtherStore, WGoto, WEnd, shared, writer

LEMMA Steps ==
  ASSUME [Next]_svars
  PROVE  \/ Rest /\ UNCHANGED <<info, reader>>
         \/ AddInfo /\ UNCHANGED reader
         \/ Store /\ UNCHANGED <<rpc, rmode, rat, rserial, rcells>> /\ (rsilent' = rsilent \/ Silenced)
         \/ ReaderStep \/ \E mode \in ReadModes : ReadFind(mode)
         \/ UNCHANGED svars
<1>1. CASE Request
  BY <1>1 DEF Request, Call, Rest, shared, writer, other, reader
<1>2. CASE WriterStep
  BY <1>2 DEF WriterStep, Rest, Store, Upsert, AddInfo, AddFull, AddLink, TooLong, Validate, MarkDirty,
     WriteHead, WriteTail, PublishVisible, BumpLoad, BumpStore, Hide, RemoveNothing, Detach, WipeValue,
     WipeHeader, WGoto, WEnd, shared, reader
<1>3. CASE Kill \/ OtherLoad \/ OtherStore
  BY <1>3 DEF Kill, OtherLoad, OtherStore, Rest, shared, reader
<1> QED
  BY <1>1, <1>2, <1>3 DEF Next

LEMMA Adds ==
  ASSUME WInv, AddInfo
  PROVE  /\ wat' = Len(info) + 1 /\ Len(info') = Len(info) + 1 /\ Len(info) \in Nat
         /\ DOMAIN info = 1..Len(info) /\ DOMAIN info' = 1..(Len(info) + 1)
         /\ info'[Len(info) + 1] = NewInfo(wcall.val) /\ wcall.val \in Cells
         /\ \A i \in DOMAIN info : info'[i] = info[i]
<1>1. wcall.val \in Cells /\ info \in Seq(Info) /\ Len(info) \in Nat /\ DOMAIN info = 1..Len(info)
  BY DEF WInv, WriterType
<1>2. NewInfo(wcall.val) \in Info
  BY <1>1, NewInfoFacts
<1> QED
  BY <1>1, <1>2, AppendProperties DEF AddInfo

LEMMA Stores ==
  ASSUME WInv, Store
  PROVE  /\ wat # 0 /\ wat \in DOMAIN info
         /\ Len(info') = Len(info) /\ DOMAIN info' = DOMAIN info
         /\ \A i \in DOMAIN info : i # wat => info'[i] = info[i]
         /\ MarkDirty => info'[wat] = [info[wat] EXCEPT !.serial = SetDirty(wserial)]
         /\ WriteHead => info'[wat].serial = info[wat].serial
         /\ WriteTail => info'[wat].serial = info[wat].serial
         /\ PublishVisible => info'[wat] = [info[wat] EXCEPT !.serial = Layout(compose_visible_serial)]
         /\ Hide => info'[wat] = [info[wat] EXCEPT !.serial = Layout(compose_hidden_serial)]
         /\ WipeValue => info'[wat].serial = info[wat].serial
         /\ WipeHeader => info'[wat] = Wiped
<1>1. wat # 0
  BY DEF Store, WInv, Standing, MarkDirty, WriteHead, WriteTail, PublishVisible, Hide, WipeValue,
     WipeHeader, Updating, Writing
<1>2. wat \in DOMAIN info /\ info[wat] \in Info /\ Len(info) \in Nat /\ DOMAIN info = 1..Len(info)
  BY <1>1, AtWork DEF WInv
<1>3. ASSUME NEW r, info' = [info EXCEPT ![wat] = r]
      PROVE  /\ Len(info') = Len(info) /\ DOMAIN info' = DOMAIN info /\ info'[wat] = r
             /\ \A i \in DOMAIN info : i # wat => info'[i] = info[i]
  BY <1>2, <1>3 DEF WInv, WriterType
<1>4. PICK r : /\ info' = [info EXCEPT ![wat] = r]
               /\ MarkDirty => r = [info[wat] EXCEPT !.serial = SetDirty(wserial)]
               /\ WriteHead => r.serial = info[wat].serial
               /\ WriteTail => r.serial = info[wat].serial
               /\ PublishVisible => r = [info[wat] EXCEPT !.serial = Layout(compose_visible_serial)]
               /\ Hide => r = [info[wat] EXCEPT !.serial = Layout(compose_hidden_serial)]
               /\ WipeValue => r.serial = info[wat].serial
               /\ WipeHeader => r = Wiped
  <2>1. CASE MarkDirty
    BY <1>2, <2>1 DEF MarkDirty, WriteHead, WriteTail, PublishVisible, Hide, WipeValue, WipeHeader, StoreSerial
  <2>2. CASE WriteHead
    <3> DEFINE r == [info[wat] EXCEPT !.cells = [info[wat].cells EXCEPT ![1] = wcall.val]]
    <3>1. info' = [info EXCEPT ![wat] = r] /\ r.serial = info[wat].serial
      BY <1>2, <2>2 DEF WriteHead, Info
    <3> QED
      BY <2>2, <3>1 DEF MarkDirty, WriteHead, WriteTail, PublishVisible, Hide, WipeValue, WipeHeader
  <2>3. CASE WriteTail
    <3> DEFINE r == [info[wat] EXCEPT !.cells = [info[wat].cells EXCEPT ![2] = wcall.val],
                                      !.strlen = ValLen[wcall.val]]
    <3>1. info' = [info EXCEPT ![wat] = r] /\ r.serial = info[wat].serial
      BY <1>2, <2>3 DEF WriteTail, Info
    <3> QED
      BY <2>3, <3>1 DEF MarkDirty, WriteHead, WriteTail, PublishVisible, Hide, WipeValue, WipeHeader
  <2>4. CASE PublishVisible
    BY <1>2, <2>4 DEF MarkDirty, WriteHead, WriteTail, PublishVisible, Hide, WipeValue, WipeHeader, StoreSerial
  <2>5. CASE Hide
    BY <1>2, <2>5 DEF MarkDirty, WriteHead, WriteTail, PublishVisible, Hide, WipeValue, WipeHeader, StoreSerial
  <2>6. CASE WipeValue
    <3> DEFINE r == [info[wat] EXCEPT !.cells = <<0, 0>>, !.strlen = 0]
    <3>1. info' = [info EXCEPT ![wat] = r] /\ r.serial = info[wat].serial
      BY <1>2, <2>6 DEF WipeValue, Info
    <3> QED
      BY <2>6, <3>1 DEF MarkDirty, WriteHead, WriteTail, PublishVisible, Hide, WipeValue, WipeHeader, WGoto
  <2>7. CASE WipeHeader
    BY <1>2, <2>7 DEF MarkDirty, WriteHead, WriteTail, PublishVisible, Hide, WipeValue, WipeHeader, WGoto
  <2> QED
    BY <2>1, <2>2, <2>3, <2>4, <2>5, <2>6, <2>7 DEF Store
<1> QED
  BY <1>1, <1>2, <1>3, <1>4, Zenon

LEMMA InfoTyped ==
  ASSUME WInv, NEW i \in DOMAIN info
  PROVE  info[i].serial \in Serial /\ info[i].cells \in Cells \X Cells
<1>1. info[i] \in Info
  BY DEF WInv, WriterType
<1> QED
  BY <1>1 DEF Info

LEMMA InfoGrows ==
  ASSUME WInv, [Next]_svars PROVE Len(info) <= Len(info')
<1>1. Len(info) \in Nat
  BY DEF WInv, WriterType
<1>2. ReaderStep \/ (\E mode \in ReadModes : ReadFind(mode)) \/ UNCHANGED svars => info' = info
  BY DEF ReaderStep, ReadFind, ReadLoad, ReadHead, ReadTail, ReadCheck, RGoto, svars, shared
<1> QED
  BY <1>1, <1>2, Steps, Stores, Adds

LEMMA KillsGrow ==
  ASSUME WInv, [Next]_svars PROVE kills \in Nat /\ kills' \in Nat /\ kills <= kills'
<1>1. kills \in Nat /\ kills' \in Nat
  BY WInvNext DEF WInv, WriterType
<1>2. kills' = kills \/ Kill
  BY DEF Next, Request, Call, WriterStep, Upsert, AddInfo, AddFull, AddLink, TooLong, Validate, MarkDirty,
     WriteHead, WriteTail, PublishVisible, BumpLoad, BumpStore, Hide, RemoveNothing, Detach, WipeValue,
     WipeHeader, OtherLoad, OtherStore, ReaderStep, ReadFind, ReadLoad, ReadHead, ReadTail, ReadCheck,
     WGoto, WEnd, RGoto, writer, svars
<1> QED
  BY <1>1, <1>2 DEF Kill

LEMMA InitReaderType == Init => ReaderType
<1> SUFFICES ASSUME Init PROVE ReaderType
  OBVIOUS
<1>1. 0 \in Serial /\ 0 \in Cells /\ <<0, 0>> \in Cells \X Cells
  BY WipedFacts DEF Cells
<1>2. 0 \in 0..Len(info)
  BY DEF Init
<1> QED
  BY <1>1, <1>2 DEF Init, ReaderType

LEMMA ReaderTypeNext == WInv /\ ReaderType /\ [Next]_svars => ReaderType'
<1> SUFFICES ASSUME WInv, ReaderType, [Next]_svars PROVE ReaderType'
  OBVIOUS
<1>0. Len(info) \in Nat /\ Len(info') \in Nat /\ Len(info) <= Len(info') /\ WInv'
  BY InfoGrows, WInvNext DEF WInv, WriterType
<1>1. rat \in 0..Len(info') /\ 0 \in Serial /\ <<0, 0>> \in Cells \X Cells
  BY <1>0, WipedFacts DEF ReaderType, Cells
<1>2. rpc # "idle" => rat \in DOMAIN info /\ info[rat].serial \in Serial /\ info[rat].cells \in Cells \X Cells
  <2>1. rpc # "idle" => rat \in DOMAIN info
    BY DEF WInv, WriterType, ReaderType
  <2> QED
    BY <2>1, InfoTyped
<1>3. CASE UNCHANGED <<rpc, rmode, rat, rserial, rcells>> /\ (rsilent' = rsilent \/ Silenced)
  BY <1>1, <1>3 DEF ReaderType, Silenced
<1>4. ASSUME NEW mode \in ReadModes, ReadFind(mode) PROVE ReaderType'
  BY <1>0, <1>1, <1>4, BoundsAssumption DEF ReadFind, ReaderType, WInv, WriterType, shared
<1>5. CASE ReadLoad
  BY <1>0, <1>1, <1>2, <1>5 DEF ReadLoad, RGoto, ReaderType, shared
<1>6. CASE ReadHead
  BY <1>0, <1>1, <1>2, <1>6 DEF ReadHead, RGoto, ReaderType, shared
<1>7. CASE ReadTail
  BY <1>0, <1>1, <1>2, <1>7 DEF ReadTail, RGoto, ReaderType, shared
<1>8. CASE ReadCheck
  BY <1>0, <1>1, <1>2, <1>8 DEF ReadCheck, RGoto, ReaderType, shared
<1>9. CASE UNCHANGED svars
  BY <1>3, <1>9 DEF svars, reader
<1> QED
  BY <1>3, <1>4, <1>5, <1>6, <1>7, <1>8, <1>9, Steps DEF ReaderStep, reader

LEMMA ReaderTypeInvariance == Spec => []ReaderType
  BY InitReaderType, ReaderTypeNext, WInvariance, PTL DEF Spec

(***************************************************************************)
(* Types: every link leads to a prop_info, and a serial stays a 32-bit     *)
(* word, whatever is written and whoever is killed.                        *)
(***************************************************************************)
THEOREM Typed == Spec => []TypeOK
<1>1. WInv /\ ReaderType => TypeOK
  <2> SUFFICES ASSUME WInv, ReaderType PROVE TypeOK
    OBVIOUS
  <2>1. \A i \in DOMAIN info : info[i] \in Info
    BY DEF WInv, WriterType
  <2> QED
    BY <2>1 DEF WInv, WriterType, ReaderType, TypeOK, Info
<1> QED
  BY <1>1, WInvariance, ReaderTypeInvariance, PTL

-------------------------------------------------------------------------------
(***************************************************************************)
(* The counters.                                                           *)
(***************************************************************************)
LEMMA AtZeroFacts ==
  ASSUME NEW s \in Serial, AtZero(s)
  PROVE  ~Dirty(s) /\ ClearDirty(s) = s /\ Moves(s) = 0
<1>1. Counter(s) = 0 \/ Counter(s) = 65536
  BY Units, SMT DEF AtZero
<1>2. ~Dirty(s)
  <2>1. ~Dirty(Counter(s))
    BY <1>1, SMT DEF Dirty
  <2> QED
    BY <2>1, SerialParts, Zenon
<1>3. Moves(s) = 0
  BY <1>1, Units, SMT DEF Moves
<1> QED
  BY <1>2, <1>3, Zenon DEF ClearDirty

\* The writer goes on, ends or is killed: the counters are what they were.
LEMMA CountsRest ==
  ASSUME WInv, Counts, Rest, info' = info PROVE Counts'
<1> USE DEF Moving, Writing
<1>1. kills \in Nat /\ (wpc = "validate" => wat \in DOMAIN info) /\ DOMAIN info = 1..Len(info)
  BY AtWork DEF WInv, Standing, Updating, WriterType
<1>2. \/ Kill
      \/ /\ kills' = kills /\ (Moving' <=> Moving)
         /\ Moving => wat' = wat /\ wserial' = wserial /\ (wpc' \in Writing <=> wpc \in Writing)
         /\ wpc' = "dirty" => \/ wpc = "dirty" /\ wserial' = wserial
                              \/ Validate
  <2>1. CASE Request \/ Upsert \/ AddFull \/ TooLong \/ RemoveNothing \/ Detach
    BY <2>1 DEF Request, Call, Upsert, AddFull, TooLong, RemoveNothing, Detach, WGoto, WEnd
  <2>2. CASE AddLink \/ Validate \/ BumpLoad \/ OtherLoad \/ OtherStore
    BY <2>2 DEF WInv, Standing, AddLink, Validate, BumpLoad, OtherLoad, OtherStore, WGoto, writer
  <2>3. CASE BumpStore
    BY <2>3 DEF BumpStore, WGoto, WEnd
  <2> QED
    BY <2>1, <2>2, <2>3 DEF Rest
<1>3. CASE Kill
  <2>1. kills' = kills + 1 /\ ~Moving' /\ wpc' # "dirty" /\ (Few' => Few)
    BY <1>1, <1>3, Units, SMT DEF Kill, Few
  <2>2. Traceless'
    BY <1>1, <2>1 DEF Traceless
  <2>3. \A i \in DOMAIN info : Moves(info[i].serial) \in Nat
    BY InfoTyped, DirtyMoves
  <2>4. FewMoves'
    <3> HIDE DEF Moving
    <3> SUFFICES ASSUME Few', NEW i \in DOMAIN info PROVE Moves(info[i].serial) <= 2 * kills'
      BY <1>1, <2>1 DEF FewMoves, Ahead
    <3>1. Moves(info[i].serial) <= 2 * kills + Ahead(i) /\ Ahead(i) \in {0, 1, 2}
      BY <2>1 DEF Counts, FewMoves, Ahead
    <3> QED
      BY <1>1, <2>1, <2>3, <3>1
  <2> QED
    BY <2>2, <2>4 DEF Counts
<1>4. CASE /\ kills' = kills /\ (Moving' <=> Moving)
           /\ Moving => wat' = wat /\ wserial' = wserial /\ (wpc' \in Writing <=> wpc \in Writing)
           /\ wpc' = "dirty" => \/ wpc = "dirty" /\ wserial' = wserial
                                \/ Validate
  <2>1. wpc' = "dirty" /\ Traceless /\ kills = 0 => AtZero(wserial')
    BY <1>1, <1>4 DEF Validate, Traceless
  <2> HIDE DEF Moving, Writing
  <2>2. Traceless'
    BY <1>4, <2>1 DEF Counts, Traceless
  <2>3. FewMoves'
    BY <1>4 DEF Counts, FewMoves, Few, Ahead
  <2> QED
    BY <2>2, <2>3 DEF Counts
<1> QED
  BY <1>2, <1>3, <1>4

LEMMA CountsAdd ==
  ASSUME WInv, Counts, AddInfo PROVE Counts'
<1>1. /\ wpc' = "link" /\ kills' = kills /\ kills \in Nat /\ wcall' = wcall
      /\ AtZero(NewInfo(wcall.val).serial) /\ NewInfo(wcall.val).serial \in Serial
  BY Adds, NewInfoFacts DEF AddInfo, WGoto, WInv, WriterType, Info
<1>2. ~Moving /\ ~Moving'
  BY <1>1 DEF AddInfo, Moving, Writing
<1>3. Moves(NewInfo(wcall.val).serial) = 0
  BY <1>1, AtZeroFacts
<1>4. \A i \in DOMAIN info' : i \in DOMAIN info \/ info'[i] = NewInfo(wcall.val)
  BY Adds
<1>5. Traceless'
  BY <1>1, <1>2, <1>4, Adds DEF Counts, Traceless
<1>6. FewMoves'
  BY <1>1, <1>2, <1>3, <1>4, Adds DEF Counts, FewMoves, Few, Ahead
<1> QED
  BY <1>5, <1>6 DEF Counts

\* The stores that leave the serials alone, and the wipe of the header.
LEMMA CountsWrite ==
  ASSUME WInv, Counts, WriteHead \/ WriteTail \/ WipeValue PROVE Counts'
<1>1. /\ Store /\ wat' = wat /\ wserial' = wserial /\ kills' = kills /\ wcall' = wcall
      /\ (Moving' <=> Moving) /\ (wpc' \in Writing <=> wpc \in Writing) /\ wpc' # "dirty"
  BY DEF Store, WriteHead, WriteTail, WipeValue, WGoto, Moving, Writing
<1>2. /\ DOMAIN info' = DOMAIN info /\ wat \in DOMAIN info
      /\ \A i \in DOMAIN info : info'[i].serial = info[i].serial
  BY <1>1, Stores
<1>3. Traceless'
  BY <1>1, <1>2 DEF Counts, Traceless
<1>4. FewMoves'
  BY <1>1, <1>2 DEF Counts, FewMoves, Few, Ahead
<1> QED
  BY <1>3, <1>4 DEF Counts

LEMMA CountsWipe ==
  ASSUME WInv, Counts, WipeHeader PROVE Counts'
<1>1. /\ Store /\ wat' = wat /\ kills' = kills /\ ~Moving /\ ~Moving' /\ wpc' # "dirty" /\ kills \in Nat
  BY DEF Store, WipeHeader, WGoto, Moving, Writing, WInv, Standing, WriterType
<1>2. /\ DOMAIN info' = DOMAIN info /\ wat \in DOMAIN info
      /\ \A i \in DOMAIN info : i # wat => info'[i] = info[i]
      /\ AtZero(info'[wat].serial) /\ Moves(info'[wat].serial) = 0
  BY <1>1, Stores, WipedFacts
<1>3. Traceless'
  BY <1>1, <1>2 DEF Counts, Traceless
<1>4. FewMoves'
  BY <1>1, <1>2 DEF Counts, FewMoves, Few, Ahead
<1> QED
  BY <1>3, <1>4 DEF Counts

\* The dirty bit moves the counter by at most one.
LEMMA CountsDirty ==
  ASSUME WInv, Counts, MarkDirty PROVE Counts'
<1> DEFINE s == info[wat].serial
           t == SetDirty(s)
<1>1. /\ Store /\ wat' = wat /\ kills' = kills /\ kills \in Nat /\ wcall' = wcall
      /\ ~Moving /\ Moving' /\ wpc' \in Writing /\ wpc' # "dirty" /\ wserial' = t
  BY DEF Store, MarkDirty, WGoto, Moving, Writing, WInv, Standing, Updating, Progress, WriterType
<1>2. /\ DOMAIN info' = DOMAIN info /\ wat \in DOMAIN info /\ s \in Serial
      /\ \A i \in DOMAIN info : i # wat => info'[i] = info[i]
      /\ info'[wat].serial = t
  <2>1. wserial = s /\ s \in Serial
    BY <1>1, Stores, InfoTyped DEF MarkDirty, WInv, Progress
  <2>2. info[wat] \in Info
    BY <1>1, Stores, AtWork DEF WInv
  <2> QED
    BY <1>1, <2>1, <2>2, Stores DEF Info
<1>3. Counter(ClearDirty(t)) = Counter(ClearDirty(s))
  BY <1>2, SetDirtyKeeps
<1>4. Moves(s) \in Nat /\ Moves(t) <= Moves(s) + 1
  BY <1>2, DirtyMoves
<1>5. Traceless'
  <2>1. kills = 0 => AtZero(s)
    BY <1>1, <1>2 DEF Counts, Traceless
  <2>2. kills = 0 => AtZero(ClearDirty(t))
    BY <1>2, <1>3, <2>1, AtZeroFacts DEF AtZero
  <2> HIDE DEF s, t
  <2> QED
    BY <1>1, <1>2, <2>2 DEF Counts, Traceless
<1>6. FewMoves'
  <2>1. Few => Moves(s) <= 2 * kills /\ \A i \in DOMAIN info : i # wat => Moves(info[i].serial) <= 2 * kills
    BY <1>1, <1>2 DEF Counts, FewMoves, Ahead
  <2>2. Few => Moves(t) <= 2 * kills + 1
    BY <1>1, <1>2, <1>4, <2>1, SetDirtyKeeps, DirtyMoves
  <2> HIDE DEF s, t
  <2>3. Few' <=> Few
    BY <1>1 DEF Few
  <2> QED
    BY <1>1, <1>2, <2>1, <2>2, <2>3 DEF FewMoves, Ahead
<1> QED
  BY <1>5, <1>6 DEF Counts

\* The serial that wakes moves it once more ...
LEMMA CountsVisible ==
  ASSUME WInv, Counts, PublishVisible PROVE Counts'
<1> DEFINE t == Layout(compose_visible_serial)
<1>1. /\ Store /\ wat' = wat /\ kills' = kills /\ kills \in Nat /\ wcall' = wcall /\ wserial' = wserial
      /\ Moving /\ Moving' /\ wpc' \notin Writing /\ wpc \in Writing /\ wpc' # "dirty"
  BY DEF Store, PublishVisible, WGoto, Moving, Writing, WInv, Standing, Updating, WriterType
<1>2. /\ DOMAIN info' = DOMAIN info /\ wat \in DOMAIN info
      /\ \A i \in DOMAIN info : i # wat => info'[i] = info[i]
      /\ info'[wat].serial = t
  BY <1>1, InfoTyped, AtWork, Stores DEF WInv, Info
<1>3. wserial \in Serial /\ Moves(wserial) \in Nat
  BY DirtyMoves DEF WInv, WriterType
<1>4. Few => Moves(t) = Moves(wserial) + 1 /\ Moves(wserial) <= 2 * kills + 1
  <2>1. Few => Moves(wserial) <= 2 * kills + 1
    BY <1>1 DEF Counts, FewMoves
  <2>2. Few => Moves(wserial) + 1 < PROP_INFO_LONG_FLAG
    BY <1>1, <1>3, <2>1, Units, SMT DEF Few
  <2>3. Dirty(wserial) /\ (HasLongFlag(wserial) \/ ~IsLong(wcall.val)) /\ wcall.val \in Cells
    BY DEF WInv, PublishVisible, Progress, Writing, WriterType
  <2> QED
    BY <1>3, <2>1, <2>2, <2>3, VisibleFacts DEF Layout
<1> HIDE DEF t
<1>5. Traceless'
  BY <1>1, <1>2 DEF Counts, Traceless
<1>6. FewMoves'
  <2>1. Few' <=> Few
    BY <1>1 DEF Few
  <2> QED
    BY <1>1, <1>2, <1>3, <1>4, <2>1 DEF Counts, FewMoves, Ahead
<1> QED
  BY <1>5, <1>6 DEF Counts

\* ... and the hidden one puts it back.
LEMMA CountsHide ==
  ASSUME WInv, Counts, Hide PROVE Counts'
<1> DEFINE t == Layout(compose_hidden_serial)
<1>1. /\ Store /\ kills' = kills /\ kills \in Nat /\ Moving /\ ~Moving' /\ wpc' # "dirty"
  BY DEF Store, Hide, Moving, Writing, WInv, Standing, Updating, WriterType
<1>2. /\ DOMAIN info' = DOMAIN info /\ wat \in DOMAIN info
      /\ \A i \in DOMAIN info : i # wat => info'[i] = info[i]
      /\ info'[wat].serial = t
  BY <1>1, InfoTyped, AtWork, Stores DEF WInv, Info
<1>3. wserial \in Serial /\ Moves(wserial) \in Nat
  BY DirtyMoves DEF WInv, WriterType
<1>4. /\ t \in Serial /\ ~Dirty(t) /\ Counter(t) = Counter(ClearDirty(wserial))
      /\ Moves(t) <= Moves(wserial) /\ Moves(t) \in Nat /\ Moves(t) % 2 # 1
  <2>1. /\ Dirty(wserial) /\ (HasLongFlag(wserial) \/ ~IsLong(wcall.val)) /\ wcall.val \in Cells
    BY DEF WInv, Hide, Standing, Progress, Updating, WriterType
  <2> QED
    BY <1>3, <2>1, HiddenFacts, DirtyMoves DEF Layout
<1> HIDE DEF t
<1>5. Traceless'
  <2>1. kills = 0 => AtZero(t)
    BY <1>1, <1>4 DEF Counts, Traceless, AtZero
  <2> QED
    BY <1>1, <1>2, <2>1 DEF Counts, Traceless
<1>6. FewMoves'
  <2>1. Few' <=> Few
    BY <1>1 DEF Few
  <2>2. Few => Moves(wserial) <= 2 * kills + 1
    BY <1>1 DEF Counts, FewMoves
  <2>3. Few => Moves(t) <= 2 * kills
    BY <1>1, <1>3, <1>4, <2>2
  <2> QED
    BY <1>1, <1>2, <2>1, <2>3 DEF Counts, FewMoves, Ahead
<1> QED
  BY <1>5, <1>6 DEF Counts

LEMMA CountsInvariance == Spec => []Counts
<1>1. Init => Counts
  BY DEF Init, Counts, Traceless, FewMoves, Moving, Writing, NoCall
<1>2. WInv /\ Counts /\ [Next]_svars => Counts'
  <2> SUFFICES ASSUME WInv, Counts, [Next]_svars PROVE Counts'
    OBVIOUS
  <2>1. CASE ReaderStep \/ (\E mode \in ReadModes : ReadFind(mode)) \/ UNCHANGED svars
    <3>1. UNCHANGED <<info, writer>>
      BY <2>1 DEF ReaderStep, ReadFind, ReadLoad, ReadHead, ReadTail, ReadCheck, RGoto, svars, shared
    <3> QED
      BY <3>1 DEF writer, Counts, Traceless, FewMoves, Moving, Few, Ahead
  <2> QED
    BY <2>1, Steps, CountsRest, CountsAdd, CountsWrite, CountsWipe, CountsDirty, CountsVisible,
       CountsHide DEF Store
<1> QED
  BY <1>1, <1>2, WInvariance, PTL DEF Spec

(***************************************************************************)
(* A call that was not killed puts the counter back, whichever way it ends *)
(* (compose_hidden_serial).                                                *)
(***************************************************************************)
THEOREM Untraced == Spec => []NoTraceAtRest
<1>1. Counts => NoTraceAtRest
  BY DEF Counts, Traceless, Moving, Writing, AtZero, NoTraceAtRest
<1> QED
  BY <1>1, CountsInvariance, PTL

-------------------------------------------------------------------------------
(***************************************************************************)
(* What a reader can tell from the serial.                                 *)
(***************************************************************************)
\* A prop_info that is linked no more is never linked again.
LEMMA DeadStays ==
  ASSUME WInv, [Next]_svars, NEW i \in DOMAIN info
  PROVE  (Dead(i) => Dead(i)') /\ (i = prop => i = prop' \/ Dead(i)')
<1>1. i # 0 /\ i # Len(info) + 1
  BY DEF WInv, WriterType
<1>2. CASE Rest
  BY <1>1, <1>2 DEF Rest, Dead, Request, Call, Upsert, AddFull, AddLink, TooLong, Validate, BumpLoad, BumpStore,
     RemoveNothing, Detach, Kill, OtherLoad, OtherStore, WGoto, WEnd, shared, writer
<1>3. CASE AddInfo
  BY <1>1, <1>3, Adds DEF AddInfo, Dead
<1>4. CASE Store
  BY <1>4 DEF Store, Dead, MarkDirty, WriteHead, WriteTail, PublishVisible, Hide, WipeValue, WipeHeader,
     WGoto, StoreSerial
<1>5. CASE ReaderStep \/ (\E mode \in ReadModes : ReadFind(mode)) \/ UNCHANGED svars
  BY <1>5 DEF Dead, ReaderStep, ReadFind, ReadLoad, ReadHead, ReadTail, ReadCheck, RGoto, svars, shared, writer
<1> QED
  BY <1>2, <1>3, <1>4, <1>5, Steps

\* The serial moves on with every store that is not silent; once it is linked no more, a
\* prop_info is only wiped.
LEMMA SerialTells ==
  ASSUME WInv, Counts, [Next]_svars, NEW i \in DOMAIN info, Few'
  PROVE  \/ info'[i] = info[i]
         \/ Silenced /\ i = wat
         \/ Dead(i) /\ i = wat /\ info'[i].serial = 0
         \/ /\ ~Dead(i) /\ Moves(info'[i].serial) >= Moves(info[i].serial)
            /\ Dirty(info[i].serial) \/ Moves(info'[i].serial) > Moves(info[i].serial)
<1>1. CASE Rest \/ ReaderStep \/ (\E mode \in ReadModes : ReadFind(mode)) \/ UNCHANGED svars
  <2>1. info' = info
    BY <1>1, RestKeeps DEF ReaderStep, ReadFind, ReadLoad, ReadHead, ReadTail, ReadCheck, RGoto, svars, shared
  <2> QED
    BY <2>1
<1>2. CASE AddInfo
  BY <1>2, Adds
<1>3. CASE Store /\ i # wat
  BY <1>3, Stores
<1>4. CASE (Hide \/ WipeValue) /\ i = wat
  BY <1>4 DEF Hide, WipeValue
<1>5. CASE (WriteHead \/ WriteTail) /\ i = wat
  <2>1. Dirty(info[i].serial) /\ wat = prop /\ info'[i].serial = info[i].serial /\ wpc # "link"
    BY <1>5, Stores DEF Store, WriteHead, WriteTail, WInv, Standing, Progress, Updating, Writing
  <2>2. Moves(info[i].serial) \in Nat
    BY InfoTyped, DirtyMoves
  <2> QED
    BY <1>5, <2>1, <2>2 DEF Dead
<1>6. CASE MarkDirty /\ i = wat
  <2>1. /\ wserial = info[i].serial /\ wat = prop /\ info'[i].serial = SetDirty(info[i].serial)
        /\ wpc # "link" /\ info[i].serial \in Serial
    BY <1>6, Stores, InfoTyped, AtWork DEF Store, MarkDirty, WInv, Standing, Progress, Updating, Info
  <2> QED
    BY <1>6, <2>1, DirtyMoves DEF Dead
<1>7. CASE PublishVisible /\ i = wat
  <2>1. /\ wserial = info[i].serial /\ wat = prop /\ Dirty(info[i].serial) /\ wpc # "link"
        /\ wpc' \notin Writing /\ Moving' /\ wserial' = wserial /\ wat' = wat
    BY <1>7 DEF PublishVisible, WInv, Standing, Progress, Updating, Writing, WGoto, Moving
  <2>2. Moves(info'[i].serial) = Moves(wserial) + 1
    BY <1>7, <2>1, CountsVisible DEF Counts, FewMoves
  <2>3. Moves(info[i].serial) \in Nat
    BY InfoTyped, DirtyMoves
  <2> QED
    BY <1>7, <2>1, <2>2, <2>3 DEF Dead
<1>8. CASE WipeHeader /\ i = wat
  BY <1>1, <1>8, Stores, WipedFacts DEF Store, WipeHeader, WInv, Standing, Dead
<1> QED
  BY <1>1, <1>2, <1>3, <1>4, <1>5, <1>6, <1>7, <1>8, Steps DEF Store

LEMMA InitRInv == Init => RInv
  BY DEF Init, RInv, Trail, Found, Honest

\* A writer or another process goes on.
LEMMA ReaderWaits ==
  ASSUME WInv, Counts, ReaderType, RInv, [Next]_svars,
         UNCHANGED <<rpc, rmode, rat, rserial, rcells>>, rsilent' = rsilent \/ Silenced
  PROVE  RInv'
<1>1. rpc # "idle" => rat \in DOMAIN info
  BY DEF WInv, WriterType, ReaderType
<1>2. Few' => Few
  <2>1. kills \in Nat /\ kills' \in Nat /\ kills <= kills'
    BY KillsGrow
  <2>2. ASSUME NEW k \in Nat, NEW m \in Nat, k <= m, 2 * m + 2 < PROP_INFO_LONG_FLAG
        PROVE  2 * k + 2 < PROP_INFO_LONG_FLAG
    BY <2>2, Units, SMT
  <2> QED
    BY <2>1, <2>2, Zenon DEF Few
<1>3. Found'
  BY <1>1, DeadStays DEF RInv, Found
<1>4. Honest'
  BY <1>2 DEF RInv, Honest, Silenced
<1>5. Trail'
  <2> SUFFICES ASSUME Few', rmode = "libc", ~rsilent', rpc \in {"head", "tail", "check"}, serial_len(rserial) # 0
               PROVE  \/ info'[rat].serial = rserial /\ ~Dirty(rserial) /\ Copied'
                      \/ Moves(rserial) < Moves(info'[rat].serial)
                      \/ info'[rat].serial = 0 /\ rserial # 0 /\ Dead(rat)'
    BY DEF Trail
  <2>1. rat \in DOMAIN info /\ ~rsilent /\ ~(Silenced /\ rat = wat)
    BY <1>1 DEF Silenced, ReaderType
  <2>2. /\ Moves(rserial) \in Nat /\ Moves(info[rat].serial) \in Nat
        /\ rserial # 0
    BY <2>1, InfoTyped, DirtyMoves, WipedFacts DEF ReaderType
  <2>3. \/ info[rat].serial = rserial /\ ~Dirty(rserial) /\ Copied
        \/ Moves(rserial) < Moves(info[rat].serial)
        \/ info[rat].serial = 0 /\ rserial # 0 /\ Dead(rat)
    BY <1>2, <2>1 DEF RInv, Trail
  <2>4. CASE info'[rat] = info[rat]
    BY <2>1, <2>3, <2>4, DeadStays DEF Copied
  <2>5. CASE Dead(rat) /\ info'[rat].serial = 0
    BY <2>1, <2>2, <2>5, DeadStays
  <2>6. CASE /\ ~Dead(rat) /\ Moves(info'[rat].serial) >= Moves(info[rat].serial)
             /\ Dirty(info[rat].serial) \/ Moves(info'[rat].serial) > Moves(info[rat].serial)
             /\ Moves(info'[rat].serial) \in Nat
    BY <2>2, <2>3, <2>6
  <2>7. Moves(info'[rat].serial) \in Nat
    <3>1. info' \in Seq(Info) /\ rat \in DOMAIN info'
      BY <2>1, WInvNext, InfoGrows DEF WInv, WriterType
    <3>2. info'[rat] \in Info
      BY <3>1
    <3>3. info'[rat].serial \in Serial
      BY <3>2 DEF Info
    <3> QED
      BY <3>3, DirtyMoves
  <2> QED
    BY <2>1, <2>4, <2>5, <2>6, <2>7, SerialTells
<1> QED
  BY <1>3, <1>4, <1>5 DEF RInv

\* The reader goes on: what it finds is what the writer left.
LEMMA ReaderGoes ==
  ASSUME WInv, ReaderType, RInv, ReaderStep \/ \E mode \in ReadModes : ReadFind(mode)
  PROVE  RInv'
<1>0. UNCHANGED <<info, prop, wpc, wat, kills>> /\ (Few' <=> Few)
  BY DEF ReaderStep, ReadFind, ReadLoad, ReadHead, ReadTail, ReadCheck, RGoto, shared, writer, Few
<1>1. rpc # "idle" => rat \in DOMAIN info
  BY DEF WInv, WriterType, ReaderType
<1>2. Found'
  BY <1>0, <1>1 DEF RInv, Found, Dead, ReaderStep, ReadFind, ReadLoad, ReadHead, ReadTail, ReadCheck, RGoto
<1>3. CASE (\E mode \in ReadModes : ReadFind(mode)) \/ ReadLoad
  BY <1>0, <1>2, <1>3 DEF RInv, Trail, Honest, Copied, ReadFind, ReadLoad, RGoto
<1>4. CASE ReadHead
  <2>1. rcells' = [rcells EXCEPT ![1] = info[rat].cells[1]] /\ rcells'[1] = info[rat].cells[1]
    BY <1>4 DEF ReadHead, ReaderType
  <2>2. Trail'
    BY <1>0, <1>4, <2>1 DEF RInv, Trail, Copied, ReadHead, RGoto, Dead
  <2> QED
    BY <1>2, <1>4, <2>2 DEF RInv, Honest, ReadHead, RGoto
<1>5. CASE ReadTail
  <2>1. rcells'[1] = rcells[1] /\ rcells'[2] = info[rat].cells[2]
    BY <1>5 DEF ReadTail, ReaderType
  <2>2. Trail'
    BY <1>0, <1>5, <2>1 DEF RInv, Trail, Copied, ReadTail, RGoto, Dead
  <2> QED
    BY <1>2, <1>5, <2>2 DEF RInv, Honest, ReadTail, RGoto
<1>6. CASE ReadCheck
  <2>1. Trail'
    BY <1>6 DEF Trail, ReadCheck, RGoto
  <2>2. ASSUME Few, rmode = "libc", ~rsilent, info[rat].serial = rserial
        PROVE  Whole(rserial, rcells) \/ rcells = <<0, 0>>
    <3>1. rat \in DOMAIN info /\ rpc = "check"
      BY <1>1, <1>6 DEF ReadCheck
    <3>2. Moves(rserial) \in Nat
      BY DirtyMoves DEF ReaderType
    <3>3. CASE serial_len(rserial) = 0
      BY <3>3 DEF Whole
    <3>4. CASE ~Dirty(rserial) /\ Copied
      <4>1. rcells = info[rat].cells
        BY <3>1, <3>4, InfoTyped DEF Copied, ReaderType
      <4> QED
        BY <2>2, <3>1, <3>4, <4>1 DEF WInv, AllWhole, Clean, WholeAt
    <3> QED
      BY <2>2, <3>1, <3>2, <3>3, <3>4 DEF RInv, Trail
  <2>3. Honest'
    BY <1>0, <1>6, <2>2 DEF Honest, ReadCheck, RGoto
  <2> QED
    BY <1>2, <2>1, <2>3 DEF RInv
<1> QED
  BY <1>3, <1>4, <1>5, <1>6 DEF ReaderStep

LEMMA RInvariance == Spec => []RInv
<1>1. WInv /\ ReaderType /\ Counts /\ RInv /\ [Next]_svars => RInv'
  <2> SUFFICES ASSUME WInv, ReaderType, Counts, RInv, [Next]_svars PROVE RInv'
    OBVIOUS
  <2>1. \/ ReaderStep \/ \E mode \in ReadModes : ReadFind(mode)
        \/ UNCHANGED <<rpc, rmode, rat, rserial, rcells>> /\ (rsilent' = rsilent \/ Silenced)
    BY Steps DEF svars, reader
  <2> QED
    BY <2>1, ReaderGoes, ReaderWaits
<1> QED
  BY <1>1, InitRInv, WInvariance, ReaderTypeInvariance, CountsInvariance, PTL DEF Spec

(***************************************************************************)
(* A reader that checks the serial again is deceived only by a silent      *)
(* write, unless so many writers were killed in the middle of an update,   *)
(* each leaving the counter two moves further on, that its low 16 bits     *)
(* came round or reached the flag.                                         *)
(***************************************************************************)
THEOREM OnlySilentWritesTear ==
  ASSUME MaxKills < 32767
  PROVE  Spec => []TornOnlyBehindASilentWrite
<1>1. WInv => Few
  <2>1. ASSUME NEW k \in Nat, k <= MaxKills PROVE 2 * k + 2 < PROP_INFO_LONG_FLAG
    BY <2>1, BoundsAssumption, Units, SMT
  <2>2. WInv => kills \in Nat /\ kills <= MaxKills
    BY DEF WInv, WriterType
  <2> QED
    BY <2>1, <2>2, SMT DEF Few
<1>2. WInv /\ RInv => TornOnlyBehindASilentWrite
  BY <1>1 DEF RInv, Honest, TornOnlyBehindASilentWrite, NoTornRead
<1> QED
  BY <1>2, WInvariance, RInvariance, PTL

-------------------------------------------------------------------------------
(***************************************************************************)
(* The waiter.                                                             *)
(***************************************************************************)
Waits == WaitRequest \/ WaiterStep \/ Expire

LEMMA WaitsKeep == Waits => UNCHANGED svars
  BY DEF Waits, WaitRequest, Wait, WaiterStep, GiveUp, Find, StartRead, Look, LoadGlobal, Wake, Timeout,
     Expire, QReturn, QGoto

LEMMA WaitingSteps ==
  ASSUME [WNext]_wvars
  PROVE  /\ [Next]_svars
         /\ \/ Waits /\ Record
            \/ /\ UNCHANGED <<qpc, qold, qinfo, qglobal, qret>>
               /\ (Window /\ Record) \/ UNCHANGED <<svars, qwindow, qmet>>
<1>1. CASE WNext
  BY <1>1, WaitsKeep DEF WNext, Others, Waits
<1>2. CASE UNCHANGED wvars
  BY <1>2 DEF wvars, waiter
<1> QED
  BY <1>1, <1>2

LEMMA WaitersWInvariance == WSpec => []WInv
<1>1. WInit => Init
  BY DEF WInit
<1>2. WInv /\ [WNext]_wvars => WInv'
  BY WaitingSteps, WInvNext
<1> QED
  BY <1>1, <1>2, InitWInv, PTL DEF WSpec

LEMMA WaiterTypeInvariance == WSpec => []WaiterType
<1>1. WInit => WaiterType
  <2> SUFFICES ASSUME WInit PROVE WaiterType
    OBVIOUS
  <2>1. 0 \in 0..Len(info)
    BY DEF WInit, Init
  <2>2. qpc = "idle" /\ qinfo = 0 /\ qglobal = 0 /\ qret = FALSE /\ qmet = FALSE /\ qwindow = FALSE
    BY DEF WInit
  <2> QED
    BY <2>1, <2>2 DEF WaiterType, Sleeps
<1>2. WInv /\ WaiterType /\ [WNext]_wvars => WaiterType'
  <2> SUFFICES ASSUME WInv, WaiterType, [WNext]_wvars PROVE WaiterType'
    OBVIOUS
  <2>1. CASE Waits /\ Record
    <3>1. UNCHANGED <<prop, info, wpc, wat, area_serial>> /\ prop \in 0..Len(info) /\ area_serial \in Nat
      BY <2>1, WaitsKeep DEF svars, shared, writer, WInv, WriterType
    <3>2. qmet' \in BOOLEAN
      BY <2>1 DEF Record
    <3>3. CASE WaitRequest \/ Expire
      BY <3>1, <3>2, <3>3 DEF WaitRequest, Wait, Expire, WaiterType, Sleeps, Dead
    <3>4. CASE GiveUp \/ Timeout
      BY <3>1, <3>2, <3>4 DEF GiveUp, Timeout, QReturn, QGoto, WaiterType, Sleeps, Dead
    <3>5. CASE Find
      BY <3>1, <3>2, <3>5 DEF Find, QGoto, WaiterType, Sleeps, Dead
    <3>6. CASE StartRead \/ Wake
      BY <3>1, <3>2, <3>6 DEF StartRead, Wake, QGoto, WaiterType, Sleeps, Dead
    <3>7. CASE Look
      BY <3>1, <3>2, <3>7 DEF Look, QGoto, WaiterType, Sleeps, Dead
    <3>8. CASE LoadGlobal
      BY <3>1, <3>2, <3>8 DEF LoadGlobal, QGoto, WaiterType, Sleeps, Dead
    <3> QED
      BY <2>1, <3>3, <3>4, <3>5, <3>6, <3>7, <3>8 DEF Waits, WaiterStep
  <2>2. CASE /\ UNCHANGED <<qpc, qold, qinfo, qglobal, qret>>
             /\ (Window /\ Record) \/ UNCHANGED <<svars, qwindow, qmet>>
    <3>1. qmet' \in BOOLEAN /\ qwindow' \in BOOLEAN
      BY <2>2 DEF Window, Record, WaiterType
    <3>2. /\ Len(info) <= Len(info') /\ Len(info) \in Nat /\ Len(info') \in Nat /\ DOMAIN info = 1..Len(info)
      BY InfoGrows, WaitingSteps, WInvNext DEF WInv, WriterType
    <3>3. ASSUME NEW i \in DOMAIN info, i = qinfo PROVE i = prop' \/ Dead(i)'
      BY <3>3, WaitingSteps, DeadStays DEF WaiterType, Dead
    <3>4. qinfo' # 0 => qinfo' = prop' \/ Dead(qinfo)'
      BY <2>2, <3>2, <3>3 DEF WaiterType, Dead
    <3> QED
      BY <2>2, <3>1, <3>2, <3>4 DEF WaiterType
  <2> QED
    BY <2>1, <2>2, WaitingSteps
<1> QED
  BY <1>1, <1>2, WaitersWInvariance, PTL DEF WSpec

(***************************************************************************)
(* wait returns true only for a property whose value has been another than *)
(* the old one since it was found, or that was deleted (sys_prop::wait).   *)
(***************************************************************************)
THEOREM TrueWasEarned == WSpec => []TrueIsEarned
<1>1. WInit => TrueIsEarned
  BY DEF WInit, TrueIsEarned
<1>2. WInv /\ WaiterType /\ TrueIsEarned /\ [WNext]_wvars => TrueIsEarned'
  <2> SUFFICES ASSUME WInv, WaiterType, TrueIsEarned, [WNext]_wvars PROVE TrueIsEarned'
    OBVIOUS
  <2>1. CASE Waits /\ Record
    <3>1. UNCHANGED <<prop, info>>
      BY <2>1, WaitsKeep DEF svars, shared
    <3>2. CASE WaitRequest \/ Expire
      BY <2>1, <3>2 DEF WaitRequest, Wait, Expire, TrueIsEarned
    <3>3. CASE GiveUp \/ Timeout
      BY <3>3 DEF GiveUp, Timeout, QReturn, QGoto, TrueIsEarned
    <3>4. CASE Find
      BY <2>1, <3>1, <3>4 DEF Find, QGoto, TrueIsEarned, Record, Met
    <3>5. CASE StartRead \/ Wake \/ LoadGlobal
      BY <3>5 DEF StartRead, Wake, LoadGlobal, QGoto, TrueIsEarned
    <3>6. CASE Look
      BY <2>1, <3>1, <3>6 DEF Look, QGoto, TrueIsEarned, Record, Met, WaiterType, Differs, Read
    <3> QED
      BY <2>1, <3>2, <3>3, <3>4, <3>5, <3>6 DEF Waits, WaiterStep
  <2>2. CASE /\ UNCHANGED <<qpc, qold, qinfo, qglobal, qret>>
             /\ (Window /\ Record) \/ UNCHANGED <<svars, qwindow, qmet>>
    BY <2>2 DEF Record, TrueIsEarned
  <2> QED
    BY <2>1, <2>2, WaitingSteps
<1> QED
  BY <1>1, <1>2, WaitersWInvariance, WaiterTypeInvariance, PTL DEF WSpec

\* What the waiter does itself.
LEMMA AwakeWaiting ==
  ASSUME WInv, WaiterType, Awake, Waits PROVE Awake'
<1>1. UNCHANGED <<prop, info, wpc, wload, kills, others, area_serial>>
  BY WaitsKeep DEF svars, shared, writer, other
<1>2. area_serial \in Nat
  BY DEF WInv, WriterType
<1>3. CASE WaitRequest \/ GiveUp \/ StartRead \/ Wake \/ Timeout
  BY <1>1, <1>3 DEF WaitRequest, Wait, GiveUp, StartRead, Wake, Timeout, QReturn, QGoto, Awake, Unseen
<1>4. CASE Expire
  BY <1>1, <1>4 DEF Expire, Awake, Unseen, Read
<1>5. CASE Find
  BY <1>1, <1>5 DEF Find, QGoto, Awake, Unseen
<1>6. CASE Look
  BY <1>1, <1>6 DEF Look, QGoto, Awake, Unseen, Differs, Read
<1>7. CASE LoadGlobal
  BY <1>1, <1>2, <1>7 DEF LoadGlobal, QGoto, Awake, Unseen, Read
<1> QED
  BY <1>3, <1>4, <1>5, <1>6, <1>7 DEF Waits, WaiterStep

\* What the others do: as long as the global serial does not move, only the steps that
\* are announced next change what the waiter looked at.
SerialKept ==
  \/ kills' # 0 \/ others' # 0
  \/ /\ kills = 0 /\ others = 0 /\ area_serial' = area_serial
     /\ wpc' = "store" => wload' = area_serial
LEMMA AwakeKept ==
  ASSUME Awake, Window, UNCHANGED <<qpc, qold, qinfo, qglobal>>, SerialKept,
         prop = 0 \/ wpc \in {"bump", "store"} => prop' = 0 \/ wpc' \in {"bump", "store"},
         qinfo = prop' /\ qpc \in {"load_look", "sleep_look"} =>
           /\ qinfo = prop
           /\ Read(qinfo) = qold.val \/ wpc \in Writing \cup {"bump", "store"}
                => Read(qinfo)' = qold.val \/ wpc' \in Writing \cup {"bump", "store"}
  PROVE  Awake'
  BY DEF SerialKept, Awake, Unseen, Window

LEMMA AwakeRest ==
  ASSUME WInv, WaiterType, Awake, Window, UNCHANGED <<qpc, qold, qinfo, qglobal>>, Rest, ~BumpStore
  PROVE  Awake'
<1> SUFFICES ASSUME kills' = 0, others' = 0 PROVE Awake'
  BY DEF Awake
<1>0. info' = info /\ kills \in Nat /\ others \in Nat
  BY RestKeeps DEF WInv, WriterType
<1>1. ~Kill /\ ~OtherStore
  BY <1>0 DEF Kill, OtherStore
<1>2. CASE Request \/ Upsert \/ AddFull \/ TooLong \/ Validate \/ RemoveNothing \/ OtherLoad
  <2>1. /\ UNCHANGED <<prop, kills, others, area_serial>>
        /\ wpc' = "store" => wpc = "store" /\ wload' = wload
        /\ wpc \in Writing \cup {"bump", "store"} => wpc' = wpc
    BY <1>2 DEF Request, Call, Upsert, AddFull, TooLong, Validate, RemoveNothing, OtherLoad, WGoto, WEnd,
       shared, writer, other, Writing
  <2>2. SerialKept
    BY <2>1 DEF SerialKept, Awake
  <2> QED
    BY <1>0, <2>1, <2>2, AwakeKept DEF Read, Writing
<1>3. CASE BumpLoad
  <2>1. SerialKept /\ prop' = prop /\ wpc \in {"bump", "store"} /\ wpc' \in {"bump", "store"}
    BY <1>3 DEF BumpLoad, SerialKept, shared, other
  <2> QED
    BY <2>1, AwakeKept
<1>4. CASE AddLink
  <2>1. SerialKept /\ prop' = wat /\ wpc' = "bump"
    BY <1>4 DEF AddLink, SerialKept, WGoto, other
  <2>2. qpc \in {"load_look", "sleep_look"} => qinfo # prop'
    BY <1>4, <2>1 DEF AddLink, WaiterType, WInv, Standing, Dead
  <2> QED
    BY <2>1, <2>2, AwakeKept
<1>5. CASE Detach
  <2>1. SerialKept /\ prop' = 0
    BY <1>5 DEF Detach, SerialKept, WGoto, other
  <2>2. qpc \in {"load_look", "sleep_look"} => qinfo # prop'
    BY <2>1 DEF WaiterType
  <2> QED
    BY <2>1, <2>2, AwakeKept
<1> QED
  BY <1>1, <1>2, <1>3, <1>4, <1>5 DEF Rest

\* The bump itself: either the waiter still has to load the global serial, and it is in
\* the window, or it sleeps on a serial that is gone.
LEMMA AwakeBump ==
  ASSUME WInv, WaiterType, Awake, Window, UNCHANGED <<qpc, qold, qinfo, qglobal>>, BumpStore
  PROVE  Awake'
<1> SUFFICES ASSUME kills' = 0, others' = 0 PROVE Awake'
  BY DEF Awake
<1>1. /\ area_serial \in Nat /\ wload = area_serial /\ area_serial' = wload + 1 /\ wpc' # "store"
      /\ qpc \in {"sleep_find", "sleep_look"} => qglobal <= area_serial
  BY DEF BumpStore, WGoto, WEnd, other, Awake, WInv, WriterType
<1>2. Unseen' => qwindow'
  <2>0. area_serial' # area_serial
    BY <1>1
  <2>1. qpc \in {"load_find", "load_look"} => qwindow'
    BY <2>0 DEF Window
  <2>2. ASSUME qpc \in {"sleep_find", "sleep_look"} PROVE qglobal' # area_serial'
    BY <1>1, <2>2 DEF WaiterType
  <2> QED
    BY <2>1, <2>2 DEF Unseen
<1>3. qpc \in {"sleep_find", "sleep_look"} => qglobal' <= area_serial'
  BY <1>1 DEF WaiterType
<1> QED
  BY <1>1, <1>2, <1>3 DEF Awake

\* The stores: those of an update come before its bump, but for the hidden serial, which
\* tells the same length; those of a removal and of an add are not on what is linked.
LEMMA AwakeStore ==
  ASSUME WInv, WaiterType, Awake, Window, UNCHANGED <<qpc, qold, qinfo, qglobal>>, Store \/ AddInfo
  PROVE  Awake'
<1> SUFFICES ASSUME kills' = 0, others' = 0 PROVE Awake'
  BY DEF Awake
<1>1. UNCHANGED <<prop, kills, others, area_serial>> /\ wpc' # "store" /\ wpc \notin {"bump", "store"}
  BY DEF Store, AddInfo, MarkDirty, WriteHead, WriteTail, PublishVisible, Hide, WipeValue, WipeHeader,
     StoreSerial, WGoto, other
<1>2. SerialKept
  BY <1>1 DEF SerialKept
<1>3. qpc \in {"load_look", "sleep_look"} => qinfo \in DOMAIN info
  BY DEF WaiterType, WInv, WriterType
<1>4. CASE AddInfo
  <2>1. qpc \in {"load_look", "sleep_look"} => info'[qinfo] = info[qinfo]
    BY <1>3, <1>4, Adds
  <2>2. wpc \notin Writing
    BY <1>4 DEF AddInfo, Writing
  <2> QED
    BY <1>1, <1>2, <2>1, <2>2, AwakeKept DEF Read
<1>5. CASE MarkDirty \/ WriteHead \/ WriteTail \/ PublishVisible
  <2>1. wpc' \in Writing \cup {"bump", "store"}
    BY <1>5 DEF MarkDirty, WriteHead, WriteTail, PublishVisible, WGoto, Writing
  <2> QED
    BY <1>1, <1>2, <2>1, AwakeKept
<1>6. CASE Hide
  <2>1. wpc \notin Writing
    BY <1>6 DEF Hide, Writing
  <2>2. /\ info'[wat].cells = info[wat].cells
        /\ serial_len(info'[wat].serial) = serial_len(info[wat].serial)
    <3>1. /\ Dirty(wserial) /\ (HasLongFlag(wserial) \/ ~IsLong(wcall.val)) /\ wcall.val \in Cells
          /\ serial_len(info[wat].serial) = LayoutLen(wcall.val, HasLongFlag(wserial)) /\ wserial \in Serial
      BY <1>6 DEF WInv, Hide, Standing, Progress, Updating, WriterType
    <3>2. serial_len(Layout(compose_hidden_serial)) = LayoutLen(wcall.val, HasLongFlag(wserial))
      BY <3>1, HiddenFacts DEF Layout
    <3>3. info'[wat] = [info[wat] EXCEPT !.serial = Layout(compose_hidden_serial)] /\ info[wat] \in Info
      BY <1>6, Stores, AtWork DEF Store, WInv
    <3> QED
      BY <3>1, <3>2, <3>3 DEF Info
  <2>3. \A i \in DOMAIN info : i # wat => info'[i] = info[i]
    BY <1>6, Stores DEF Store
  <2>4. qpc \in {"load_look", "sleep_look"} => Read(qinfo)' = Read(qinfo)
    BY <1>3, <2>2, <2>3 DEF Read
  <2> QED
    BY <1>1, <1>2, <2>1, <2>4, AwakeKept
<1>7. CASE WipeValue \/ WipeHeader
  <2>1. prop = 0
    BY <1>7 DEF WipeValue, WipeHeader, WInv, Standing
  <2>2. qpc \in {"load_look", "sleep_look"} => qinfo # prop'
    BY <1>1, <2>1 DEF WaiterType
  <2> QED
    BY <1>1, <1>2, <2>2, AwakeKept
<1> QED
  BY <1>4, <1>5, <1>6, <1>7 DEF Store

LEMMA AwakeInvariance == WSpec => []Awake
<1>1. WInit => Awake
  BY DEF WInit, Init, Awake, Unseen
<1>2. WInv /\ WaiterType /\ Awake /\ [WNext]_wvars => Awake'
  <2> SUFFICES ASSUME WInv, WaiterType, Awake, [WNext]_wvars PROVE Awake'
    OBVIOUS
  <2>1. CASE UNCHANGED <<svars, qwindow, qmet>> /\ UNCHANGED <<qpc, qold, qinfo, qglobal, qret>>
    BY <2>1 DEF svars, shared, writer, other, Awake, Unseen, Read
  <2>2. CASE UNCHANGED <<qpc, qold, qinfo, qglobal, qret>> /\ Window
    <3>1. CASE ReaderStep \/ (\E mode \in ReadModes : ReadFind(mode)) \/ UNCHANGED svars
      <4>1. UNCHANGED <<shared, writer, other>>
        BY <3>1 DEF ReaderStep, ReadFind, ReadLoad, ReadHead, ReadTail, ReadCheck, RGoto, svars
      <4>2. SerialKept \/ kills # 0 \/ others # 0
        BY <4>1 DEF SerialKept, Awake, shared, writer, other
      <4> QED
        BY <2>2, <4>1, <4>2, AwakeKept DEF Read, Writing, shared, writer, other, Awake
    <3> QED
      BY <2>2, <3>1, Steps, WaitingSteps, AwakeRest, AwakeBump, AwakeStore
  <2> QED
    BY <2>1, <2>2, WaitingSteps, AwakeWaiting
<1> QED
  BY <1>1, <1>2, WaitersWInvariance, WaiterTypeInvariance, PTL DEF WSpec

(***************************************************************************)
(* As long as nobody is killed and nobody else moves the global serial, a  *)
(* waiter sleeps through a change of what it waits for only if that was    *)
(* announced between its look and its load of the global serial            *)
(* (sys_prop::wait, bump_area_serial_and_wake).                            *)
(***************************************************************************)
THEOREM OnlyTheWindow == WSpec => []OnlyTheWindowLosesAWakeup
<1>1. WaiterType /\ Awake => OnlyTheWindowLosesAWakeup
  BY DEF WaiterType, Awake, Unseen, OnlyTheWindowLosesAWakeup, Holds, Writing
<1> QED
  BY <1>1, WaiterTypeInvariance, AwakeInvariance, PTL
===============================================================================
