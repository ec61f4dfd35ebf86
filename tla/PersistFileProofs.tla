--------------------------- MODULE PersistFileProofs ---------------------------
(***************************************************************************)
(* No file is ever torn; calls that do not overlap change their own key    *)
(* only and what they return Ok for survives: for any number of processes, *)
(* keys, values, failures and kills.                                       *)
(***************************************************************************)
EXTENDS PersistFile, TLAPS

Contents == [Keys -> Values \cup {Absent}]
Labels   == {"none", "right", "new"}
Places   == {"idle", "detect", "unlink", "label", "load", "write", "rename", "remove",
             "rename_again", "set_label"}
CallType == [op : {"none", "set", "delete"}, key : Keys, val : Values \cup {Absent}]
ProcType == [pc : Places, call : CallType, legacy : BOOLEAN, label : Labels,
             recs : Contents, tmp : Contents]

StateType ==
  /\ proto \in [there : BOOLEAN, recs : Contents, label : Labels]
  /\ legacy \in Contents
  /\ proc \in [Procs -> ProcType]

HistoryType ==
  refusals \in Nat /\ durable \in [Keys -> Values \cup {Absent, Unknown}]

TypeInv == StateType /\ HistoryType

(***************************************************************************)
(* What a process that is not overlapped holds is made from the file as it *)
(* is: one process at a time works on the protobuf file, nobody is in the  *)
(* fallback, and what is about to be renamed differs from the file in the  *)
(* key of the call only, or is a legacy file that a failing check_proto    *)
(* has led to.                                                             *)
(***************************************************************************)
Alone == proto.there => \A p, q \in Procs : ~At(p, "idle") /\ ~At(q, "idle") => p = q

Fresh(p) ==
  /\ proc[p].pc \notin {"remove", "rename_again"}
  /\ proc[p].pc \in {"idle", "detect", "label", "load"} => ~proc[p].legacy
  /\ proc[p].pc \in {"idle", "detect"} \/ proc[p].legacy => proc[p].label = "none"
  /\ proc[p].pc \in {"label", "load", "set_label"} => proto.there
  /\ proc[p].pc = "unlink" => proc[p].call.val = Absent
  /\ proc[p].call.op # "set" => proc[p].call.val = Absent
  /\ proc[p].pc \in {"write", "rename"} /\ ~proc[p].legacy
       => proto.there /\ proc[p].recs = Changed(proto.recs, proc[p].call)
  /\ proc[p].pc = "rename" => proc[p].tmp = Bytes(p)
  /\ proc[p].pc = "set_label" => proto.recs[proc[p].call.key] = proc[p].call.val

\* What was promised is in the files, but for the key of a call that has replaced the
\* protobuf file and has not returned, and those of calls that went astray.
Settled(k) ==
  \/ k \in strayed
  \/ durable[k] \in {Unknown, View[k]}
  \/ \E p \in Procs : At(p, "set_label") /\ proc[p].call.key = k

Ordered == Alone /\ (\A p \in Procs : Fresh(p)) /\ \A k \in Keys : Settled(k)

OrderInv == Orderly => Ordered

Inv == TypeInv /\ OrderInv

-------------------------------------------------------------------------------
\* The values Idle and Empty have their types.
LEMMA IdleType ==
  /\ Empty \in Contents
  /\ NoProto \in [there : BOOLEAN, recs : Contents, label : Labels]
  /\ Idle \in ProcType
<1>1. Empty \in Contents
  BY DEF Empty, Contents
<1>2. NoCall \in CallType
  BY KeysAssumption DEF NoCall, CallType
<1> QED BY <1>1, <1>2 DEF NoProto, Labels, Idle, ProcType, Places

\* A change in memory keeps the records well-formed.
LEMMA ChangedType ==
  ASSUME NEW recs \in Contents, NEW c \in CallType PROVE Changed(recs, c) \in Contents
BY DEF Changed, Contents, CallType

\* What write_bytes_atomically is given is whole.
LEMMA BytesType == ASSUME StateType, NEW p \in Procs PROVE Bytes(p) \in Contents
<1>1. proc[p] \in ProcType
  BY DEF StateType
<1>2. proc[p].call \in CallType /\ proc[p].recs \in Contents
  BY <1>1 DEF ProcType
<1> QED BY <1>2, IdleType, ChangedType DEF Bytes

\* A device starts in a state that has all of it.
THEOREM InitInv == Init => Inv
<1> SUFFICES ASSUME Init PROVE Inv
  OBVIOUS
<1>1. StateType
  <2>1. proto \in [there : BOOLEAN, recs : Contents, label : Labels] /\ legacy \in Contents
    BY IdleType DEF Init, Contents, Labels
  <2> QED BY <2>1, IdleType DEF Init, StateType
<1>2. HistoryType
  BY <1>1 DEF Init, StateType, HistoryType, View, Contents
<1>3. OrderInv
  BY DEF Init, OrderInv, Ordered, Alone, Fresh, Settled, At, Idle, NoCall
<1> QED BY <1>1, <1>2, <1>3 DEF Inv, TypeInv

\* Ok, Err and Kill leave their process idle, which is well-formed.
LEMMA ReturnType ==
  ASSUME StateType, NEW p \in Procs, proc' = [proc EXCEPT ![p] = Idle]
  PROVE  proc' \in [Procs -> ProcType]
BY IdleType DEF StateType

\* So does a step that only moves the process on.
LEMMA GotoType ==
  ASSUME StateType, NEW p \in Procs, NEW l \in Places, Goto(p, l)
  PROVE  proc' \in [Procs -> ProcType]
BY DEF StateType, ProcType, Goto

\* Replace writes whole contents, given that the temporary file holds them.
LEMMA ReplaceType ==
  ASSUME StateType, NEW p \in Procs, Replace(p)
  PROVE  /\ proto' \in [there : BOOLEAN, recs : Contents, label : Labels]
         /\ legacy' \in Contents
<1>1. proc[p].tmp \in Contents /\ proc[p].call.key \in Keys
  BY DEF StateType, ProcType, CallType
<1>2. CASE proc[p].legacy
  <2>1. proto' = proto /\ legacy' = [legacy EXCEPT ![proc[p].call.key] = proc[p].tmp[proc[p].call.key]]
    BY <1>2 DEF Replace
  <2>2. proc[p].tmp[proc[p].call.key] \in Values \cup {Absent}
    BY <1>1 DEF Contents
  <2> QED BY <2>1, <2>2 DEF StateType, Contents
<1>3. CASE ~proc[p].legacy
  <2>1. legacy' = legacy /\ proto' = [there |-> TRUE, recs |-> proc[p].tmp, label |-> "new"]
    BY <1>3 DEF Replace
  <2> QED BY <2>1, <1>1 DEF StateType, Labels
<1> QED BY <1>2, <1>3

\* No call, failure or kill stores anything but whole contents.
LEMMA TypeStep == StateType /\ [Next]_vars => StateType'
<1> SUFFICES ASSUME StateType, [Next]_vars PROVE StateType'
  OBVIOUS
<1>1. CASE UNCHANGED vars
  BY <1>1 DEF vars, files, StateType
<1>2. ASSUME NEW p \in Procs, Request(p) PROVE StateType'
  <2>1. PICK op \in {"set", "delete"}, k \in Keys, v \in Values \cup {Absent} : Call(p, op, k, v)
    BY <1>2 DEF Request
  <2>2. [op |-> op, key |-> k, val |-> v] \in CallType
    BY DEF CallType
  <2>3. proc' \in [Procs -> ProcType]
    <3> DEFINE c == [op |-> op, key |-> k, val |-> v]
    <3>1. proc' = [proc EXCEPT ![p] = [[proc[p] EXCEPT !.pc = "detect"] EXCEPT !.call = c]]
      BY <2>1 DEF Call, StateType
    <3>2. [[proc[p] EXCEPT !.pc = "detect"] EXCEPT !.call = c] \in ProcType
      BY <2>2 DEF StateType, ProcType, Places
    <3> QED BY <3>1, <3>2 DEF StateType
  <2> QED BY <2>1, <2>3 DEF Call, files, StateType
<1>3. ASSUME NEW p \in Procs, Step(p) PROVE StateType'
  <2>0. proc[p] \in ProcType /\ proc[p].call \in CallType
    BY DEF StateType, ProcType
  <2>1. CASE Detect(p) \/ DetectFails(p)
    <3>1. CASE Goto(p, "label") \/ Goto(p, "unlink")
      BY <2>1, <3>1, GotoType DEF Detect, DetectFails, files, StateType, Places
    <3>2. CASE proc' = [proc EXCEPT ![p].pc = "write", ![p].legacy = TRUE]
      <4>1. proc' \in [Procs -> ProcType]
        BY <3>2 DEF StateType, ProcType, Places
      <4> QED BY <2>1, <4>1 DEF Detect, DetectFails, files, StateType
    <3> QED BY <2>1, <3>1, <3>2 DEF Detect, DetectFails, TakeLegacy
  <2>2. CASE Unlink(p)
    BY <2>2, ReturnType DEF Unlink, Ok, StateType, Contents
  <2>3. CASE ReadLabel(p)
    <3>1. proc' \in [Procs -> ProcType]
      BY <2>3 DEF ReadLabel, StateType, ProcType, Places
    <3> QED BY <2>3, <3>1 DEF ReadLabel, files, StateType
  <2>11. CASE ReadLabelFails(p)
    BY <2>11, GotoType DEF ReadLabelFails, files, StateType, Places
  <2>12. CASE SetLabelFails(p)
    BY <2>12, ReturnType DEF SetLabelFails, Ok, files, StateType
  <2>4. CASE Load(p)
    <3>1. Changed(proto.recs, proc[p].call) \in Contents
      BY <2>0, ChangedType DEF StateType
    <3>2. proc' \in [Procs -> ProcType]
      BY <2>4, <3>1 DEF Load, Loaded, StateType, ProcType, Places
    <3> QED BY <2>4, <3>2 DEF Load, files, StateType
  <2>5. CASE LoadFails(p) \/ WriteFails(p) \/ RenameFails(p) \/ RemoveNothing(p) \/ RemoveFails(p)
    BY <2>5, ReturnType DEF LoadFails, WriteFails, RenameFails, RemoveNothing, RemoveFails, Err,
       files, StateType
  <2>6. CASE WriteTmp(p)
    <3>1. proc' \in [Procs -> ProcType]
      BY <2>6, BytesType DEF WriteTmp, StateType, ProcType, Places
    <3> QED BY <2>6, <3>1 DEF WriteTmp, files, StateType
  <2>7. CASE Rename(p)
    <3>1. proc' \in [Procs -> ProcType]
      BY <2>7, ReturnType, GotoType DEF Rename, Ok, Places
    <3> QED BY <2>7, <3>1, ReplaceType DEF Rename, StateType
  <2>8. CASE RenameRefused(p)
    <3>1. proc' \in [Procs -> ProcType]
      BY <2>8, ReturnType, GotoType DEF RenameRefused, Err, Places
    <3> QED BY <2>8, <3>1 DEF RenameRefused, files, StateType
  <2>9. CASE RemoveTarget(p)
    <3>1. proc' \in [Procs -> ProcType]
      BY <2>9, GotoType DEF RemoveTarget, Places
    <3>2. proto' \in [there : BOOLEAN, recs : Contents, label : Labels] /\ legacy' \in Contents
      BY <2>9, IdleType DEF RemoveTarget, StateType, Contents
    <3> QED BY <3>1, <3>2 DEF StateType
  <2>10. CASE SetLabel(p)
    <3>1. proto' \in [there : BOOLEAN, recs : Contents, label : Labels]
      BY <2>10, <2>0 DEF SetLabel, StateType, ProcType
    <3> QED BY <2>10, <3>1, ReturnType DEF SetLabel, Ok, StateType
  <2> QED BY <1>3, <2>1, <2>2, <2>3, <2>4, <2>5, <2>6, <2>7, <2>8, <2>9, <2>10,
         <2>11, <2>12 DEF Step
<1>4. ASSUME NEW p \in Procs, Kill(p) PROVE StateType'
  BY <1>4, ReturnType DEF Kill, files, StateType
<1> QED BY <1>1, <1>2, <1>3, <1>4 DEF Next

\* No step stores anything but values in the history, and refusals are counted.
LEMMA HistoryStep == TypeInv /\ [Next]_vars => HistoryType'
<1> SUFFICES ASSUME TypeInv, [Next]_vars PROVE HistoryType'
  OBVIOUS
<1>1. CASE UNCHANGED vars
  BY <1>1 DEF vars, counts, history, TypeInv, HistoryType
<1>2. ASSUME NEW p \in Procs, Ok(p) PROVE durable' \in [Keys -> Values \cup {Absent, Unknown}]
  <2>1. proc[p].call.val \in Values \cup {Absent}
    BY DEF TypeInv, StateType, ProcType, CallType
  <2> QED BY <1>2, <2>1 DEF Ok, TypeInv, HistoryType
<1>3. ASSUME NEW p \in Procs, Request(p) PROVE HistoryType'
  BY <1>3 DEF Request, Call, TypeInv, HistoryType
<1>4. ASSUME NEW p \in Procs, Step(p) PROVE HistoryType'
  BY <1>2, <1>4 DEF Step, Detect, DetectFails, Unlink, ReadLabel, ReadLabelFails,
     SetLabelFails, Load, LoadFails, WriteTmp, WriteFails,
     Rename, RenameFails, RenameRefused, RemoveTarget, RemoveNothing, RemoveFails, SetLabel, Fault,
     Err, counts, history, TypeInv, HistoryType
<1>5. ASSUME NEW p \in Procs, Kill(p) PROVE HistoryType'
  BY <1>5 DEF Kill, TypeInv, HistoryType
<1> QED BY <1>1, <1>3, <1>4, <1>5 DEF Next

-------------------------------------------------------------------------------
\* Overlapping calls and refused renames are not forgotten.
LEMMA Calm == TypeInv /\ [Next]_vars /\ Orderly' => Orderly
<1> SUFFICES ASSUME TypeInv, [Next]_vars, Orderly' PROVE Orderly
  OBVIOUS
<1> USE DEF TypeInv, HistoryType, Orderly
<1>1. CASE UNCHANGED vars
  BY <1>1 DEF vars, counts, history
<1>2. ASSUME NEW p \in Procs, Request(p) PROVE Orderly
  BY <1>2 DEF Request, Call
<1>3. ASSUME NEW p \in Procs, Step(p) PROVE Orderly
  BY <1>3 DEF Step, Detect, DetectFails, Unlink, ReadLabel, ReadLabelFails,
     SetLabelFails, Load, LoadFails, WriteTmp, WriteFails, Rename,
     RenameFails, RenameRefused, RemoveTarget, RemoveNothing, RemoveFails, SetLabel, Fault, Ok,
     Err, counts, history
<1>4. ASSUME NEW p \in Procs, Kill(p) PROVE Orderly
  BY <1>4 DEF Kill
<1> QED BY <1>1, <1>2, <1>3, <1>4 DEF Next

\* A step of one process leaves the others alone and fresh, when it replaces the protobuf
\* file only if there was one: then the others are idle.
LEMMA OthersStayFresh ==
  ASSUME StateType, Ordered, NEW p \in Procs, ~At(p, "idle"),
         proc' \in [Procs -> ProcType], \A q \in Procs \ {p} : proc'[q] = proc[q],
         \/ proto' = proto
         \/ proto.there /\ proto'.there,
         Fresh(p)'
  PROVE  Alone' /\ \A q \in Procs : Fresh(q)'
<1>1. Alone'
  BY DEF Ordered, Alone, At
<1>2. ASSUME NEW q \in Procs, q # p PROVE Fresh(q)'
  <2>1. proc'[q] = proc[q] /\ Fresh(q)
    BY <1>2 DEF Ordered
  <2>2. CASE proto' = proto
    BY <2>1, <2>2 DEF Fresh, Bytes
  <2>3. CASE proto.there /\ proto'.there
    <3>1. proc[q].pc = "idle"
      BY <1>2, <2>3 DEF Ordered, Alone, At
    <3> QED BY <2>1, <3>1 DEF Fresh
  <2> QED BY <2>2, <2>3
<1> QED BY <1>1, <1>2

\* An idle process is fresh.
LEMMA IdleFresh == ASSUME NEW p \in Procs, proc'[p] = Idle PROVE Fresh(p)'
BY DEF Fresh, Idle, NoCall

\* A step that changes neither the files nor the history, of a process that has yet to
\* replace its file, breaks no promise.
LEMMA QuietStep ==
  ASSUME Ordered, NEW p \in Procs, ~At(p, "set_label"),
         \A q \in Procs \ {p} : proc'[q] = proc[q],
         durable' = durable, strayed' = strayed, View' = View
  PROVE  \A k \in Keys : Settled(k)'
BY DEF Ordered, Settled, At

\* A call that returns Ok keeps the promise it makes, when it has changed what a process
\* reads for its key, to its value, or is astray, and for no other key.
LEMMA OkStep ==
  ASSUME TypeInv, Ordered, NEW p \in Procs, Ok(p),
         Astray(p) \/ View'[proc[p].call.key] = proc[p].call.val,
         \A k \in Keys : k # proc[p].call.key => View'[k] = View[k]
  PROVE  \A k \in Keys : Settled(k)'
<1> SUFFICES ASSUME NEW k \in Keys PROVE Settled(k)'
  OBVIOUS
<1>1. proc' = [proc EXCEPT ![p] = Idle]
  BY DEF Ok
<1>2. CASE k = proc[p].call.key
  <2>1. durable'[k] \in {Unknown, proc[p].call.val}
    BY <1>2 DEF Ok, TypeInv, HistoryType
  <2>2. Astray(p) => k \in strayed'
    BY <1>2 DEF Ok
  <2> QED BY <1>2, <2>1, <2>2 DEF Settled
<1>3. CASE k # proc[p].call.key
  <2>1. durable'[k] = durable[k]
    BY <1>3 DEF Ok, TypeInv, HistoryType
  <2>2. View'[k] = View[k]
    BY <1>3
  <2>3. ASSUME NEW q \in Procs, At(q, "set_label"), proc[q].call.key = k
        PROVE  At(q, "set_label")' /\ proc'[q].call.key = k
    BY <1>1, <1>3, <2>3 DEF TypeInv, StateType, At
  <2>4. k \in strayed => k \in strayed'
    BY <1>3 DEF Ok
  <2> QED BY <2>1, <2>2, <2>3, <2>4 DEF Ordered, Settled
<1> QED BY <1>2, <1>3

\* What a step does to what a process reads: its key gets its value, or nothing changes,
\* which is so when the step is astray.
Puts(p) ==
  \A k \in Keys : View'[k] = IF k = proc[p].call.key /\ ~Astray(p) THEN proc[p].call.val
                            ELSE View[k]

\* A delete on legacy files removes the file of its key.
LEMMA UnlinkView == ASSUME TypeInv, Ordered, NEW p \in Procs, Unlink(p) PROVE Puts(p)
<1>1. proc[p].call.val = Absent /\ At(p, "unlink")
  BY DEF Ordered, Fresh, Unlink, At
<1>2. CASE proto.there
  BY <1>1, <1>2 DEF Unlink, View, Astray, Puts
<1>3. CASE ~proto.there
  <2>1. View = legacy /\ View' = [legacy EXCEPT ![proc[p].call.key] = Absent]
    BY <1>3 DEF Unlink, View
  <2> QED BY <1>1, <1>3, <2>1 DEF TypeInv, StateType, Contents, Puts, Astray
<1> QED BY <1>2, <1>3

\* A rename puts the value of the call in place, in a file that is otherwise the one there,
\* or beside it.
LEMMA RenameView ==
  ASSUME TypeInv, Ordered, NEW p \in Procs, Rename(p)
  PROVE  /\ At(p, "rename")
         /\ proto.there => proto'.there
         /\ proto' = proto \/ proto.there
         /\ proc[p].label # "none" => proto'.there /\ ~Astray(p)
         /\ Puts(p)
<1>1. At(p, "rename") /\ Fresh(p) /\ proc[p].legacy \in BOOLEAN
  BY DEF Ordered, Fresh, Rename, At, TypeInv, StateType, ProcType
<1>2. /\ ~proc[p].legacy => proto.there /\ proc[p].recs = Changed(proto.recs, proc[p].call)
      /\ proc[p].tmp = Bytes(p)
      /\ Astray(p) <=> proto.there /\ proc[p].legacy
  BY <1>1 DEF Fresh, At, Astray
<1>3. proc[p].call \in CallType /\ proc[p].call.key \in Keys
  BY DEF TypeInv, StateType, ProcType, CallType
<1>4. CASE ~proc[p].legacy
  <2>1. proto' = [there |-> TRUE, recs |-> proc[p].tmp, label |-> "new"] /\ ~Astray(p)
    BY <1>2, <1>4 DEF Rename, Replace
  <2>2. proc[p].tmp = Changed(proto.recs, proc[p].call) /\ proto.there
    BY <1>2, <1>4 DEF Bytes
  <2>3. View = proto.recs /\ View' = [proto.recs EXCEPT ![proc[p].call.key] = proc[p].call.val]
    BY <1>4, <2>1, <2>2 DEF View, Changed
  <2>4. proto.recs \in Contents
    BY DEF TypeInv, StateType
  <2>5. Puts(p)
    BY <2>1, <2>3, <2>4 DEF Contents, Puts
  <2> QED BY <1>1, <2>1, <2>2, <2>5
<1>5. CASE proc[p].legacy
  <2>1. proto' = proto /\ legacy' = [legacy EXCEPT ![proc[p].call.key] = proc[p].tmp[proc[p].call.key]]
    BY <1>5 DEF Rename, Replace
  <2>2. proc[p].label = "none"
    BY <1>1, <1>5 DEF Fresh, At
  <2>3. CASE proto.there
    <3>1. View' = View /\ Astray(p)
      BY <1>2, <1>5, <2>1, <2>3 DEF View
    <3> QED BY <1>1, <2>1, <2>2, <3>1 DEF Puts
  <2>4. CASE ~proto.there
    <3>1. proc[p].tmp[proc[p].call.key] = proc[p].call.val /\ ~Astray(p)
      BY <1>2, <1>3, <1>5, <2>4 DEF Bytes, Changed, Empty
    <3>2. View = legacy /\ View' = [legacy EXCEPT ![proc[p].call.key] = proc[p].call.val]
      BY <2>1, <2>4, <3>1 DEF View
    <3>3. Puts(p)
      BY <3>1, <3>2 DEF TypeInv, StateType, Contents, Puts
    <3> QED BY <1>1, <2>1, <2>2, <2>4, <3>3
  <2> QED BY <2>3, <2>4
<1> QED BY <1>1, <1>4, <1>5

\* The value a call has just put in place is there for its label step to confirm.
LEMMA SetLabelView ==
  ASSUME TypeInv, Ordered, NEW p \in Procs, SetLabel(p) \/ SetLabelFails(p)
  PROVE  /\ proto.there /\ proto'.there /\ At(p, "set_label")
         /\ \A k \in Keys : View'[k] = View[k]
         /\ View[proc[p].call.key] = proc[p].call.val
<1>1. /\ proto.there /\ proto.recs[proc[p].call.key] = proc[p].call.val
      /\ At(p, "set_label")
  BY DEF Ordered, Fresh, SetLabel, SetLabelFails, At
<1>2. proto' = proto \/ proto' = [proto EXCEPT !.label = proc[p].label]
  BY <1>1 DEF SetLabel, SetLabelFails, files
<1>3. proto'.there /\ proto'.recs = proto.recs
  BY <1>2, <1>1 DEF TypeInv, StateType
<1> QED BY <1>1, <1>3 DEF View

-------------------------------------------------------------------------------
\* A call that starts keeps calls in order, when it overlaps no other.
LEMMA RequestStep ==
  ASSUME TypeInv, StateType', Ordered, Orderly', NEW p \in Procs, Request(p)
  PROVE  Ordered'
<1>1. PICK op \in {"set", "delete"}, k \in Keys, v \in Values \cup {Absent} :
        Call(p, op, k, v) /\ (op = "delete" => v = Absent)
  BY DEF Request
<1> DEFINE c == [op |-> op, key |-> k, val |-> v]
<1>2. proc'[p] = [[proc[p] EXCEPT !.pc = "detect"] EXCEPT !.call = c]
  BY <1>1 DEF Call, TypeInv, StateType
<1>3. /\ proc'[p].pc = "detect" /\ proc'[p].call = c
      /\ proc'[p].legacy = proc[p].legacy /\ proc'[p].label = proc[p].label
  BY <1>2 DEF TypeInv, StateType, ProcType
<1>4. /\ proto' = proto /\ legacy' = legacy /\ durable' = durable /\ strayed' = strayed
      /\ \A q \in Procs \ {p} : proc'[q] = proc[q]
      /\ At(p, "idle")
  BY <1>1 DEF Call, files, TypeInv, StateType
<1>5. proto.there => \A q \in Procs : At(q, "idle")
  BY <1>1 DEF Call, Orderly
<1>6. Alone'
  BY <1>4, <1>5 DEF Alone, At
<1>7. Fresh(p)'
  BY <1>1, <1>3, <1>4 DEF Ordered, Fresh, At
<1>8. ASSUME NEW q \in Procs, q # p PROVE Fresh(q)'
  BY <1>4, <1>8 DEF Ordered, Fresh, Bytes
<1>9. \A j \in Keys : Settled(j)'
  BY <1>4, QuietStep DEF At, View
<1> QED BY <1>6, <1>7, <1>8, <1>9 DEF Ordered

\* A process that is killed breaks no promise but the one it was about to make.
LEMMA KillStep ==
  ASSUME TypeInv, StateType', Ordered, NEW p \in Procs, Kill(p)
  PROVE  Ordered'
<1>1. /\ proc' = [proc EXCEPT ![p] = Idle] /\ proto' = proto /\ legacy' = legacy
      /\ durable' = [durable EXCEPT ![proc[p].call.key] = Unknown] /\ ~At(p, "idle")
      /\ strayed' = strayed
  BY DEF Kill, files
<1>2. Alone' /\ \A q \in Procs : Fresh(q)'
  BY <1>1, OthersStayFresh, IdleFresh DEF TypeInv, StateType
<1>3. ASSUME NEW k \in Keys PROVE Settled(k)'
  BY <1>1 DEF Ordered, Settled, View, At, TypeInv, StateType, HistoryType
<1> QED BY <1>2, <1>3 DEF Ordered

\* Every step of a call under way keeps calls in order.
LEMMA OrderStep ==
  ASSUME TypeInv, StateType', Ordered, Orderly', NEW p \in Procs, Step(p)
  PROVE  Ordered'
<1>0. proc' \in [Procs -> ProcType] /\ proc[p] \in ProcType /\ proc \in [Procs -> ProcType]
  BY DEF TypeInv, StateType
<1>1. ASSUME ~At(p, "idle"), NEW x, proc' = [proc EXCEPT ![p] = x],
             proto' = proto \/ (proto.there /\ proto'.there), Fresh(p)'
      PROVE  Alone' /\ \A q \in Procs : Fresh(q)'
  BY <1>0, <1>1, OthersStayFresh DEF TypeInv
<1>2. ASSUME ~At(p, "idle"), ~At(p, "set_label"), NEW x, proc' = [proc EXCEPT ![p] = x],
             UNCHANGED <<files, durable, strayed>>, Fresh(p)'
      PROVE  Ordered'
  <2>1. \A k \in Keys : Settled(k)'
    BY <1>0, <1>2, QuietStep DEF files, View
  <2> QED BY <1>1, <1>2, <2>1 DEF Ordered, files
<1>3. ASSUME ~At(p, "idle"), ~At(p, "set_label"), Err(p), UNCHANGED files PROVE Ordered'
  BY <1>0, <1>2, <1>3, IdleFresh DEF Err, history
<1>4. CASE Detect(p) \/ DetectFails(p)
  <2>0. At(p, "detect") /\ UNCHANGED <<files, durable, strayed>> /\ Fresh(p)
    BY <1>4 DEF Detect, DetectFails, files, history, Ordered
  <2>1. CASE Goto(p, "label") /\ proto.there
    <3>1. Fresh(p)'
      BY <1>0, <2>0, <2>1 DEF Fresh, Goto, At, files, ProcType
    <3> QED BY <1>2, <2>0, <2>1, <3>1 DEF Goto, At
  <2>2. CASE proc' = [proc EXCEPT ![p].pc = "write", ![p].legacy = TRUE]
    <3>1. proc' = [proc EXCEPT ![p] = [[proc[p] EXCEPT !.pc = "write"] EXCEPT !.legacy = TRUE]]
      BY <1>0, <2>2
    <3>2. /\ proc'[p].pc = "write" /\ proc'[p].legacy /\ proc'[p].call = proc[p].call
          /\ proc'[p].label = proc[p].label
      BY <1>0, <3>1 DEF ProcType
    <3>3. Fresh(p)'
      BY <1>0, <2>0, <3>2 DEF Fresh, At, files, ProcType
    <3> QED BY <1>2, <2>0, <3>1, <3>3 DEF At
  <2>3. CASE Goto(p, "unlink") /\ proc[p].call.op # "set"
    <3>1. proc[p].call.op \in {"none", "set", "delete"}
      BY <1>0 DEF ProcType, CallType
    <3>2. proc[p].call.val = Absent
      BY <2>0, <2>3, <3>1 DEF Fresh, At
    <3>3. Fresh(p)'
      BY <1>0, <2>0, <2>3, <3>2 DEF Fresh, Goto, At, files, ProcType
    <3> QED BY <1>2, <2>0, <2>3, <3>3 DEF Goto, At
  <2> QED BY <1>4, <2>1, <2>2, <2>3 DEF Detect, DetectFails, TakeLegacy
<1>5. CASE Unlink(p)
  <2>1. \A k \in Keys : Settled(k)'
    BY <1>5, OkStep, UnlinkView DEF Unlink, Puts, TypeInv, StateType, ProcType, CallType
  <2>2. Fresh(p)'
    BY <1>0, <1>5, IdleFresh DEF Unlink, Ok
  <2> QED BY <1>1, <1>5, <2>1, <2>2 DEF Unlink, Ok, At, Ordered
<1>6. CASE ReadLabel(p)
  <2>1. proc' = [proc EXCEPT ![p] = [[proc[p] EXCEPT !.pc = "load"] EXCEPT !.label = proto.label]]
    BY <1>0, <1>6 DEF ReadLabel
  <2>2. /\ proc'[p].pc = "load" /\ proc'[p].legacy = proc[p].legacy
        /\ proc'[p].call = proc[p].call
    BY <1>0, <2>1 DEF ProcType
  <2>3. Fresh(p)'
    BY <1>6, <2>2 DEF Ordered, Fresh, ReadLabel, At, files
  <2> QED BY <1>2, <1>6, <2>1, <2>3 DEF ReadLabel, At, history
<1>14. CASE ReadLabelFails(p)
  <2>1. Fresh(p)'
    BY <1>0, <1>14 DEF Ordered, Fresh, ReadLabelFails, Goto, At, files, ProcType
  <2> QED BY <1>2, <1>14, <2>1 DEF ReadLabelFails, Goto, At
<1>7. CASE Load(p)
  <2> DEFINE r == Changed(proto.recs, proc[p].call)
  <2>1. proc' = [proc EXCEPT ![p] = [[proc[p] EXCEPT !.pc = "write"] EXCEPT !.recs = r]]
    BY <1>0, <1>7 DEF Load, Loaded
  <2>2. /\ proc'[p].pc = "write" /\ proc'[p].legacy = proc[p].legacy
        /\ proc'[p].call = proc[p].call /\ proc'[p].recs = r
    BY <1>0, <2>1 DEF ProcType
  <2>3. Fresh(p)'
    <3>1. ~proc[p].legacy /\ proc[p].legacy \in BOOLEAN /\ proto.there
      BY <1>0, <1>7 DEF Ordered, Fresh, Load, At, ProcType
    <3>2. proc'[p].recs = Changed(proto.recs, proc[p].call)'
      BY <1>7, <2>2 DEF Load, files, Changed
    <3> QED BY <1>7, <2>2, <3>1, <3>2 DEF Ordered, Fresh, Load, files
  <2> QED BY <1>2, <1>7, <2>1, <2>3 DEF Load, At, history
<1>8. CASE LoadFails(p) \/ WriteFails(p) \/ RenameFails(p) \/ RemoveNothing(p) \/ RemoveFails(p)
  BY <1>3, <1>8 DEF LoadFails, WriteFails, RenameFails, RemoveNothing, RemoveFails, At
<1>9. CASE WriteTmp(p)
  <2>1. proc' = [proc EXCEPT ![p] = [[proc[p] EXCEPT !.pc = "rename"] EXCEPT !.tmp = Bytes(p)]]
    BY <1>0, <1>9 DEF WriteTmp
  <2>2. /\ proc'[p].pc = "rename" /\ proc'[p].legacy = proc[p].legacy
        /\ proc'[p].call = proc[p].call /\ proc'[p].recs = proc[p].recs
        /\ proc'[p].label = proc[p].label /\ proc'[p].tmp = Bytes(p)
    BY <1>0, <2>1 DEF ProcType
  <2>3. Fresh(p)'
    BY <1>9, <2>2 DEF Ordered, Fresh, WriteTmp, At, files, Bytes
  <2> QED BY <1>2, <1>9, <2>1, <2>3 DEF WriteTmp, At, history
<1>10. CASE Rename(p)
  <2>0. ~At(p, "idle")
    BY <1>10, RenameView DEF At
  <2>1. CASE proc[p].label = "none"
    <3>1. Ok(p)
      BY <1>10, <2>1 DEF Rename
    <3>2. \A k \in Keys : Settled(k)'
      BY <1>10, <3>1, OkStep, RenameView DEF Puts, TypeInv, StateType, ProcType, CallType
    <3>3. Fresh(p)'
      BY <1>0, <3>1, IdleFresh DEF Ok
    <3> QED BY <1>1, <1>10, <2>0, <3>1, <3>2, <3>3, RenameView DEF Ok, Ordered
  <2>2. CASE proc[p].label # "none"
    <3>1. Goto(p, "set_label") /\ durable' = durable /\ strayed' = strayed
      BY <1>10, <2>2 DEF Rename, history
    <3>2. /\ proc'[p].pc = "set_label" /\ proc'[p].legacy = proc[p].legacy
          /\ proc'[p].call = proc[p].call /\ proc'[p].label = proc[p].label
      BY <1>0, <3>1 DEF Goto, ProcType
    <3>3. proto'.there /\ View'[proc[p].call.key] = proc[p].call.val
      BY <1>0, <1>10, <2>2, RenameView DEF ProcType, CallType, Puts
    <3>4. ~proc[p].legacy
      BY <1>10, <2>2, RenameView DEF Ordered, Fresh, At
    <3>5. Fresh(p)'
      BY <3>2, <3>3, <3>4, <1>10 DEF Ordered, Fresh, View
    <3>6. ASSUME NEW k \in Keys PROVE Settled(k)'
      <4>1. CASE k = proc[p].call.key
        BY <3>2, <4>1 DEF Settled, At
      <4>2. CASE k # proc[p].call.key
        <5>1. View'[k] = View[k]
          BY <1>10, <4>2, RenameView DEF Puts
        <5>2. \A q \in Procs \ {p} : proc'[q] = proc[q]
          BY <1>0, <3>1 DEF Goto
        <5> QED BY <3>1, <4>2, <5>1, <5>2 DEF Ordered, Settled, At
      <4> QED BY <4>1, <4>2
    <3> QED BY <1>1, <1>10, <2>0, <3>1, <3>5, <3>6, RenameView DEF Goto, Ordered
  <2> QED BY <2>1, <2>2
<1>11. CASE RenameRefused(p)
  BY <1>11 DEF RenameRefused, Orderly, TypeInv, HistoryType
<1>12. CASE RemoveTarget(p)
  BY <1>12 DEF RemoveTarget, Ordered, Fresh, At
<1>13. CASE SetLabel(p) \/ SetLabelFails(p)
  <2>0. Ok(p)
    BY <1>13 DEF SetLabel, SetLabelFails
  <2>1. \A k \in Keys : Settled(k)'
    BY <1>0, <1>13, <2>0, OkStep, SetLabelView DEF ProcType, CallType
  <2>2. Fresh(p)'
    BY <1>0, <2>0, IdleFresh DEF Ok
  <2> QED BY <1>1, <1>13, <2>0, <2>1, <2>2, SetLabelView DEF Ok, At, Ordered
<1> QED BY <1>4, <1>5, <1>6, <1>7, <1>8, <1>9, <1>10, <1>11, <1>12, <1>13, <1>14 DEF Step

-------------------------------------------------------------------------------
\* The parts above, put together: types, order and promises are kept by every step.
THEOREM Invariance == Spec => []Inv
<1>1. Inv /\ [Next]_vars => Inv'
  <2> SUFFICES ASSUME Inv, [Next]_vars PROVE Inv'
    OBVIOUS
  <2>1. TypeInv'
    BY TypeStep, HistoryStep DEF Inv, TypeInv
  <2>2. ASSUME Orderly' PROVE Ordered'
    <3>1. Ordered
      BY <2>2, Calm DEF Inv, OrderInv
    <3>2. CASE UNCHANGED vars
      BY <3>1, <3>2 DEF vars, files, history, Ordered, Alone, Fresh, Settled, At, Bytes, View
    <3> QED BY <2>1, <2>2, <3>1, <3>2, RequestStep, KillStep, OrderStep DEF Inv, TypeInv, Next
  <2> QED BY <2>1, <2>2 DEF Inv, OrderInv
<1> QED BY <1>1, InitInv, PTL DEF Spec

\* The name of a file never leads to one that was not written to its end, however many
\* processes, failing system calls and kills there are: what is renamed in place is always
\* a temporary file with whole contents.
THEOREM WholeFiles == Spec => []FileIsWhole
<1>1. Inv => FileIsWhole
  BY ValuesAssumption DEF Inv, TypeInv, StateType, Contents, FileIsWhole, Torn, Absent
<1> QED BY <1>1, Invariance, PTL

\* A value whose set returned Ok, and the absence of one whose delete did, stays until the
\* next call on that key, and a process that starts during that call reads the old value or
\* the new, when calls on the protobuf file do not overlap and no rename is refused; but for
\* the keys whose last call went to a legacy file beside the protobuf file.
THEOREM PromisesKept == Spec => []SetSurvivesInOrder
<1>1. ASSUME Inv, Orderly, NEW k \in Keys \ strayed PROVE OldOrNew(k)
  <2>1. Settled(k) /\ \A p \in Procs : Fresh(p)
    BY <1>1 DEF Inv, OrderInv, Ordered
  <2>2. ASSUME NEW p \in Procs, At(p, "set_label"), proc[p].call.key = k
        PROVE  View[k] = proc[p].call.val
    BY <2>1, <2>2 DEF Fresh, At, View
  <2> QED BY <2>1, <2>2 DEF Settled, OldOrNew, At
<1>2. Inv => SetSurvivesInOrder
  BY <1>1 DEF SetSurvivesInOrder
<1> QED BY <1>2, Invariance, PTL

\* A call changes what a process would read for its own key only, and to the value it was
\* given; calls that fail or are killed change nothing else.
THEOREM OwnKeyOnly == Spec => CallChangesItsKeyOnly
<1> DEFINE A == Orderly' => \A k \in Keys : View'[k] # View[k] => ChangedByItsCall(k)
<1>1. Inv /\ [Next]_vars => [A]_vars
  <2> SUFFICES ASSUME Inv, [Next]_vars, Orderly'
               PROVE  \A k \in Keys : View'[k] # View[k] => ChangedByItsCall(k)
    OBVIOUS
  <2>0. Ordered /\ TypeInv
    BY Calm DEF Inv, OrderInv
  <2>1. CASE UNCHANGED files
    BY <2>1 DEF files, View
  <2>2. ASSUME NEW p \in Procs, Unlink(p)
        PROVE  \A k \in Keys : View'[k] # View[k] => ChangedByItsCall(k)
    BY <2>0, <2>2, UnlinkView DEF Unlink, At, ChangedByItsCall, Puts
  <2>3. ASSUME NEW p \in Procs, Rename(p)
        PROVE  \A k \in Keys : View'[k] # View[k] => ChangedByItsCall(k)
    BY <2>0, <2>3, RenameView DEF At, ChangedByItsCall, Puts
  <2>4. ASSUME NEW p \in Procs, SetLabel(p) PROVE \A k \in Keys : View'[k] = View[k]
    BY <2>0, <2>4, SetLabelView
  <2>5. ASSUME NEW p \in Procs, RemoveTarget(p) PROVE FALSE
    BY <2>0, <2>5 DEF RemoveTarget, Ordered, Fresh, At
  <2>6. ASSUME ~UNCHANGED files
        PROVE  \E p \in Procs : Unlink(p) \/ Rename(p) \/ SetLabel(p) \/ RemoveTarget(p)
    BY <2>6 DEF Next, Request, Call, Step, Kill, Detect, DetectFails, ReadLabel, ReadLabelFails,
       SetLabelFails, Load, LoadFails, WriteTmp, WriteFails, RenameFails, RenameRefused, RemoveNothing, RemoveFails, vars
  <2> QED BY <2>1, <2>2, <2>3, <2>4, <2>5, <2>6
<1> QED BY <1>1, Invariance, PTL DEF Spec, CallChangesItsKeyOnly

-------------------------------------------------------------------------------
(***************************************************************************)
(* The label.  As long as no failure or kill has taken it, a new protobuf  *)
(* file has the wrong one only while the call that renamed it is about to  *)
(* give it the old one, which it still holds.                              *)
(***************************************************************************)
Holding(x) ==
  \/ x.pc \in {"load", "write", "rename"} /\ ~x.legacy
  \/ x.pc = "set_label"

Labelled ==
  /\ proto.there => proto.label = "right" \/ \E p \in Procs : At(p, "set_label")
  /\ \A p \in Procs : Holding(proc[p]) => proc[p].label = "right"

LabelInv == Orderly /\ ~unlabelled => Labelled

\* A step of one process that leaves the protobuf file alone keeps it labelled.
LEMMA SameFile ==
  ASSUME Labelled, NEW p \in Procs, \A q \in Procs \ {p} : proc'[q] = proc[q],
         proto' = proto, ~At(p, "set_label"),
         Holding(proc'[p]) => proc'[p].label = "right"
  PROVE  Labelled'
BY DEF Labelled, At

LEMMA LabelStep ==
  ASSUME TypeInv, StateType', Ordered, Labelled, Orderly', ~unlabelled',
         NEW p \in Procs, Request(p) \/ Step(p) \/ Kill(p)
  PROVE  Labelled'
<1>0. /\ proc \in [Procs -> ProcType] /\ proc[p] \in ProcType /\ Fresh(p) /\ refusals \in Nat
      /\ proto \in [there : BOOLEAN, recs : Contents, label : Labels]
      /\ Holding(proc[p]) => proc[p].label = "right"
  BY DEF TypeInv, StateType, HistoryType, Ordered, Labelled
<1>1. ASSUME Err(p) \/ Ok(p), proto' = proto, ~At(p, "set_label") PROVE Labelled'
  <2>1. proc' = [proc EXCEPT ![p] = Idle]
    BY <1>1 DEF Err, Ok
  <2>2. proc'[p].pc = "idle" /\ \A q \in Procs \ {p} : proc'[q] = proc[q]
    BY <2>1, <1>0 DEF Idle
  <2> QED BY <1>1, <2>2, SameFile DEF Holding
<1>2. CASE Request(p)
  <2>1. PICK op, k, v : Call(p, op, k, v)
    BY <1>2 DEF Request
  <2>2. proc'[p] = [[proc[p] EXCEPT !.pc = "detect"] EXCEPT !.call = [op |-> op, key |-> k, val |-> v]]
    BY <2>1, <1>0 DEF Call
  <2>3. proc'[p].pc = "detect"
    BY <2>2, <1>0 DEF ProcType
  <2> QED BY <2>1, <2>3, <1>0, SameFile DEF Call, At, files, Holding
<1>3. CASE Detect(p) \/ DetectFails(p)
  <2>0. At(p, "detect") /\ UNCHANGED files
    BY <1>3 DEF Detect, DetectFails
  <2>1. CASE Goto(p, "label") \/ Goto(p, "unlink")
    BY <1>0, <2>0, <2>1, SameFile DEF Goto, At, files, Holding, ProcType
  <2>2. CASE proc' = [proc EXCEPT ![p].pc = "write", ![p].legacy = TRUE]
    <3>1. proc'[p] = [[proc[p] EXCEPT !.pc = "write"] EXCEPT !.legacy = TRUE]
      BY <1>0, <2>2
    <3>2. proc'[p].pc = "write" /\ proc'[p].legacy
      BY <1>0, <3>1 DEF ProcType
    <3> QED BY <1>0, <2>0, <2>2, <3>2, SameFile DEF At, files, Holding
  <2> QED BY <1>3, <2>1, <2>2 DEF Detect, DetectFails, TakeLegacy
<1>4. CASE Unlink(p)
  BY <1>1, <1>4 DEF Unlink, At
<1>5. CASE ReadLabel(p)
  <2>1. proto.there /\ \A q \in Procs : ~At(q, "set_label")
    BY <1>0, <1>5 DEF ReadLabel, Fresh, Ordered, Alone, At
  <2>2. proc'[p] = [[proc[p] EXCEPT !.pc = "load"] EXCEPT !.label = proto.label]
    BY <1>0, <1>5 DEF ReadLabel
  <2>3. proc'[p].label = "right"
    BY <1>0, <2>1, <2>2 DEF ProcType, Labelled
  <2> QED BY <1>0, <1>5, <2>3, SameFile DEF ReadLabel, At, files
<1>6. CASE Load(p)
  <2>1. PICK r : proc' = [proc EXCEPT ![p].pc = "write", ![p].recs = r]
    BY <1>6 DEF Load, Loaded
  <2>2. proc'[p] = [[proc[p] EXCEPT !.pc = "write"] EXCEPT !.recs = r]
    BY <1>0, <2>1
  <2>3. proc'[p].legacy = proc[p].legacy /\ proc'[p].label = proc[p].label /\ proc'[p].pc = "write"
    BY <1>0, <2>2 DEF ProcType
  <2> QED BY <1>0, <1>6, <2>1, <2>3, SameFile DEF Load, At, files, Holding
<1>7. CASE LoadFails(p) \/ WriteFails(p) \/ RenameFails(p) \/ RemoveNothing(p) \/ RemoveFails(p)
  BY <1>1, <1>7 DEF LoadFails, WriteFails, RenameFails, RemoveNothing, RemoveFails, At, files
<1>8. CASE WriteTmp(p)
  <2>1. proc'[p] = [[proc[p] EXCEPT !.pc = "rename"] EXCEPT !.tmp = Bytes(p)]
    BY <1>0, <1>8 DEF WriteTmp
  <2>2. proc'[p].legacy = proc[p].legacy /\ proc'[p].label = proc[p].label /\ proc'[p].pc = "rename"
    BY <1>0, <2>1 DEF ProcType
  <2> QED BY <1>0, <1>8, <2>2, SameFile DEF WriteTmp, At, files, Holding
<1>9. CASE Rename(p)
  <2>1. At(p, "rename")
    BY <1>0, <1>9 DEF Rename, Fresh, At
  <2>2. CASE proc[p].legacy
    <3>1. proto' = proto /\ Ok(p)
      BY <1>0, <1>9, <2>2 DEF Rename, Replace, Fresh
    <3> QED BY <1>1, <2>1, <3>1 DEF At
  <2>3. CASE ~proc[p].legacy
    <3>1. proc[p].label = "right"
      BY <1>0, <2>1, <2>3 DEF Holding, At
    <3>2. proc' = [proc EXCEPT ![p].pc = "set_label"]
      BY <1>9, <3>1 DEF Rename, Goto
    <3>3. proc'[p].pc = "set_label" /\ proc'[p].label = "right"
      BY <1>0, <3>1, <3>2 DEF ProcType
    <3> QED BY <1>0, <3>2, <3>3 DEF Labelled, At
  <2> QED BY <2>2, <2>3
<1>10. CASE RenameRefused(p)
  BY <1>0, <1>10 DEF RenameRefused, Orderly
<1>11. CASE RemoveTarget(p)
  BY <1>0, <1>11 DEF RemoveTarget, Fresh, At
<1>12. CASE SetLabel(p)
  <2>1. proc[p].label = "right" /\ proto.there
    BY <1>0, <1>12 DEF SetLabel, Holding, At, Fresh
  <2>2. proto'.label = "right"
    BY <1>0, <1>12, <2>1 DEF SetLabel
  <2>3. proc'[p].pc = "idle" /\ \A q \in Procs \ {p} : proc'[q] = proc[q]
    BY <1>0, <1>12 DEF SetLabel, Ok, Idle
  <2> QED BY <2>2, <2>3 DEF Labelled, Holding
<1>13. CASE ReadLabelFails(p) \/ SetLabelFails(p)
  BY <1>13 DEF ReadLabelFails, SetLabelFails
<1>14. CASE Kill(p)
  <2>1. ~At(p, "set_label") /\ proto' = proto /\ proc' = [proc EXCEPT ![p] = Idle]
    BY <1>14 DEF Kill, files
  <2>2. proc'[p].pc = "idle" /\ \A q \in Procs \ {p} : proc'[q] = proc[q]
    BY <1>0, <2>1 DEF Idle
  <2> QED BY <2>1, <2>2, SameFile DEF Holding
<1> QED BY <1>2, <1>3, <1>4, <1>5, <1>6, <1>7, <1>8, <1>9, <1>10, <1>11, <1>12, <1>13, <1>14
        DEF Step

\* A call that is not cut off between the rename and the label relabels the protobuf file
\* before it returns: between calls the file has the SELinux label it always had, as long as
\* no call has failed to read or to set it, whatever else fails or is killed.
THEOREM LabelStays == Spec => []LabelKept
<1>1. Init => LabelInv
  <2> SUFFICES ASSUME Init PROVE LabelInv
    OBVIOUS
  <2>1. proto.there => proto.label = "right"
    <3>1. CASE proto \in [there : {TRUE}, recs : [Keys -> Values \cup {Absent}], label : {"right"}]
      BY <3>1
    <3>2. CASE proto = NoProto
      BY <3>2 DEF NoProto
    <3> QED BY <3>1, <3>2 DEF Init
  <2>2. \A p \in Procs : proc[p].pc = "idle"
    BY DEF Init, Idle
  <2> QED BY <2>1, <2>2 DEF Init, LabelInv, Labelled, Holding
<1>2. Inv /\ Inv' /\ LabelInv /\ [Next]_vars => LabelInv'
  <2> SUFFICES ASSUME Inv, Inv', LabelInv, [Next]_vars PROVE LabelInv'
    OBVIOUS
  <2>1. CASE UNCHANGED vars
    BY <2>1 DEF vars, files, counts, history, LabelInv, Labelled, Orderly, At
  <2>2. ASSUME NEW p \in Procs, Request(p) \/ Step(p) \/ Kill(p) PROVE LabelInv'
    <3>1. unlabelled => unlabelled'
      BY <2>2 DEF Request, Call, Step, Detect, DetectFails, Unlink, ReadLabel, ReadLabelFails,
         Load, LoadFails, WriteTmp, WriteFails, Rename, RenameFails, RenameRefused, RemoveTarget,
         RemoveNothing, RemoveFails, SetLabel, SetLabelFails, Err, history, Kill
    <3>2. ASSUME Orderly', ~unlabelled' PROVE Labelled'
      <4>1. Orderly
        BY <3>2, Calm DEF Inv
      <4> QED BY <2>2, <3>1, <3>2, <4>1, LabelStep DEF Inv, OrderInv, LabelInv, TypeInv
    <3> QED BY <3>2 DEF LabelInv
  <2> QED BY <2>1, <2>2 DEF Next
<1>3. LabelInv => LabelKept
  BY DEF LabelInv, Labelled, LabelKept, At
<1> QED BY <1>1, <1>2, <1>3, Invariance, PTL DEF Spec
===============================================================================
