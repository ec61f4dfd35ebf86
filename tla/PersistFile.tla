------------------------------ MODULE PersistFile ------------------------------
(***************************************************************************)
(* persist_set_prop and persist_delete_prop                                *)
(* (crates/prop-rs-android/src/persist.rs) on the files of                 *)
(* crates/prop-rs/src/persistent_prop.rs: one protobuf file with all       *)
(* properties, or else one legacy file for each.  Processes call them at   *)
(* once, system calls fail and processes are killed between any two.       *)
(*                                                                         *)
(* A rename is atomic and temporary names are unique and never read.  The  *)
(* sorted records of the protobuf file are a function of the keys.         *)
(***************************************************************************)
EXTENDS Integers

CONSTANTS
  Procs, Keys, Values,   \* values are positive
  MaxCalls, MaxKills,    \* bounds
  MaxFaults,             \* bound: system calls that fail
  MaxRefusals            \* bound: renames refused with AlreadyExists or PermissionDenied

ASSUME KeysAssumption   == Keys # {}
ASSUME ValuesAssumption == Values \subseteq Nat \ {0}
ASSUME BoundsAssumption == {MaxCalls, MaxKills, MaxFaults, MaxRefusals} \subseteq Nat

VARIABLES
  proto,      \* the protobuf file: whether it is there, its records, its SELinux label
  legacy,     \* the legacy files: the value of each, Absent when it is not there
  proc,       \* what each process is doing
  calls, kills, faults, refusals,
  durable,    \* history: the value of the last call on a key that returned, or Unknown
  strayed,    \* history: keys whose last call that returned Ok worked on a legacy file
              \* beside a protobuf file
  unlabelled, \* history: a label was not read or not set, by a failure or by a kill
  overlapped  \* history: two calls on the protobuf file were under way at once

files   == <<proto, legacy>>
counts  == <<calls, kills, faults, refusals>>
history == <<durable, strayed, unlabelled, overlapped>>
vars    == <<files, proc, counts, history>>

Absent  == 0
Torn    == -1    \* what a file holds that was not written to its end
Unknown == -2

Empty    == [k \in Keys |-> Absent]
TornRecs == [k \in Keys |-> Torn]
NoProto  == [there |-> FALSE, recs |-> Empty, label |-> "none"]
NoCall   == [op |-> "none", key |-> CHOOSE k \in Keys : TRUE, val |-> Absent]

\* label is original_label, recs the file in memory, tmp what the temporary file holds.
Idle == [pc |-> "idle", call |-> NoCall, legacy |-> FALSE, label |-> "none",
         recs |-> Empty, tmp |-> Empty]

\* What a process that starts now would read.
View == IF proto.there THEN proto.recs ELSE legacy

-------------------------------------------------------------------------------
At(p, l)   == proc[p].pc = l
Goto(p, l) == proc' = [proc EXCEPT ![p].pc = l]
InFlight(k) == \E p \in Procs : proc[p].pc # "idle" /\ proc[p].call.key = k

\* What p works on is not what the next process reads.
Astray(p) == proto.there /\ (proc[p].legacy \/ At(p, "unlink"))

\* A call that returns Ok, and one that returns Err.
Ok(p) ==
  LET c == proc[p].call IN
  /\ proc' = [proc EXCEPT ![p] = Idle]
  /\ durable' = [durable EXCEPT ![c.key] =
       IF \E q \in Procs \ {p} : proc[q].pc # "idle" /\ proc[q].call.key = c.key
       THEN Unknown ELSE c.val]
  /\ strayed' = IF Astray(p) THEN strayed \cup {c.key} ELSE strayed \ {c.key}
  /\ UNCHANGED overlapped
Err(p) == proc' = [proc EXCEPT ![p] = Idle] /\ UNCHANGED history

Fault ==
  faults < MaxFaults /\ faults' = faults + 1 /\ UNCHANGED <<calls, kills, refusals>>

\* persist_set_prop(key, val); persist_delete_prop(key) has no value.
Call(p, op, key, val) ==
  /\ At(p, "idle") /\ calls < MaxCalls
  /\ calls' = calls + 1
  /\ proc' = [proc EXCEPT ![p].pc = "detect",
                          ![p].call = [op |-> op, key |-> key, val |-> val]]
  /\ overlapped' = (overlapped \/ (proto.there /\ \E q \in Procs : ~At(q, "idle")))
  /\ UNCHANGED <<files, kills, faults, refusals, durable, strayed, unlabelled>>

\* legacy_set_prop or legacy_delete_prop
TakeLegacy(p) ==
  IF proc[p].call.op = "set"
  THEN proc' = [proc EXCEPT ![p].pc = "write", ![p].legacy = TRUE]
  ELSE Goto(p, "unlink")

\* check_proto
Detect(p) ==
  /\ At(p, "detect")
  /\ IF proto.there THEN Goto(p, "label") ELSE TakeLegacy(p)
  /\ UNCHANGED <<files, counts, history>>

\* Path::exists says no also of a file that cannot be looked at.
DetectFails(p) ==
  /\ At(p, "detect") /\ Fault
  /\ TakeLegacy(p) /\ UNCHANGED <<files, history>>

\* legacy_delete_prop: a file that is not there is no error.
Unlink(p) ==
  /\ At(p, "unlink")
  /\ legacy' = [legacy EXCEPT ![proc[p].call.key] = Absent]
  /\ Ok(p) /\ UNCHANGED <<proto, counts, unlabelled>>

ReadLabel(p) ==
  /\ At(p, "label")
  /\ proc' = [proc EXCEPT ![p].pc = "load", ![p].label = proto.label]
  /\ UNCHANGED <<files, counts, history>>

\* A label that cannot be read is not put back.
ReadLabelFails(p) ==
  /\ At(p, "label") /\ Fault
  /\ Goto(p, "load") /\ unlabelled' = TRUE
  /\ UNCHANGED <<files, durable, strayed, overlapped>>

\* load_or_default, then set or delete in memory: no file is an empty file.
Changed(recs, c) == [recs EXCEPT ![c.key] = c.val]
Loaded(p, recs) ==
  proc' = [proc EXCEPT ![p].pc = "write", ![p].recs = Changed(recs, proc[p].call)]

Load(p) ==
  /\ At(p, "load")
  /\ Loaded(p, proto.recs)
  /\ UNCHANGED <<files, counts, history>>

LoadFailsUnnoticed(p) ==   \* faulty variant: every error is taken for a missing file
  /\ At(p, "load") /\ Fault
  /\ Loaded(p, Empty) /\ UNCHANGED <<files, history>>
LoadFails(p) ==
  /\ At(p, "load") /\ Fault
  /\ Err(p) /\ UNCHANGED files

-------------------------------------------------------------------------------
(***************************************************************************)
(* write_bytes_atomically: a temporary file is written and synced, then    *)
(* renamed over the target, which is the protobuf file or the legacy file  *)
(* of the key.                                                             *)
(***************************************************************************)
Bytes(p) ==
  IF proc[p].legacy THEN Changed(Empty, proc[p].call) ELSE proc[p].recs

WriteTmp(p) ==
  /\ At(p, "write")
  /\ proc' = [proc EXCEPT ![p].pc = "rename", ![p].tmp = Bytes(p)]
  /\ UNCHANGED <<files, counts, history>>

WriteFailsUnnoticed(p) ==   \* faulty variant
  /\ At(p, "write") /\ Fault
  /\ proc' = [proc EXCEPT ![p].pc = "rename", ![p].tmp = TornRecs]
  /\ UNCHANGED <<files, history>>
WriteFailsWithOk(p) ==   \* faulty variant
  /\ At(p, "write") /\ Fault
  /\ Ok(p) /\ UNCHANGED <<files, unlabelled>>
WriteFails(p) ==
  /\ At(p, "write") /\ Fault
  /\ Err(p) /\ UNCHANGED files

\* The new protobuf file has the label of any new file until it is given the old one.
Replace(p) ==
  IF proc[p].legacy
  THEN legacy' = [legacy EXCEPT ![proc[p].call.key] = proc[p].tmp[proc[p].call.key]]
       /\ UNCHANGED proto
  ELSE proto' = [there |-> TRUE, recs |-> proc[p].tmp, label |-> "new"]
       /\ UNCHANGED legacy

RenameWithoutLabel(p) ==   \* faulty variant
  /\ At(p, "rename")
  /\ Replace(p) /\ Ok(p) /\ UNCHANGED <<counts, unlabelled>>
Rename(p) ==
  /\ At(p, "rename") \/ At(p, "rename_again")
  /\ Replace(p)
  /\ IF proc[p].label = "none" THEN Ok(p) /\ UNCHANGED unlabelled
     ELSE Goto(p, "set_label") /\ UNCHANGED history
  /\ UNCHANGED counts

RenameFails(p) ==
  /\ At(p, "rename") \/ At(p, "rename_again")
  /\ Fault /\ Err(p) /\ UNCHANGED files

TargetThere(p) ==
  IF proc[p].legacy THEN legacy[proc[p].call.key] # Absent ELSE proto.there

\* A rename that is refused is tried again once the target is removed.  A target that
\* cannot be looked at is none, which ends as RenameFails does.
RenameRefused(p) ==
  /\ At(p, "rename") /\ refusals < MaxRefusals
  /\ refusals' = refusals + 1 /\ UNCHANGED <<files, calls, kills, faults>>
  /\ IF TargetThere(p) THEN Goto(p, "remove") /\ UNCHANGED history ELSE Err(p)

RemoveTarget(p) ==
  /\ At(p, "remove") /\ TargetThere(p)
  /\ IF proc[p].legacy
     THEN legacy' = [legacy EXCEPT ![proc[p].call.key] = Absent] /\ UNCHANGED proto
     ELSE proto' = NoProto /\ UNCHANGED legacy
  /\ Goto(p, "rename_again") /\ UNCHANGED <<counts, history>>

RemoveNothing(p) ==
  /\ At(p, "remove") /\ ~TargetThere(p)
  /\ Err(p) /\ UNCHANGED <<files, counts>>

\* Also an Unlink that fails.
RemoveFails(p) ==
  /\ At(p, "remove") \/ At(p, "unlink")
  /\ Fault /\ Err(p) /\ UNCHANGED files

\* set_selinux_label, on whatever file has the name now.
SetLabel(p) ==
  /\ At(p, "set_label")
  /\ proto' = IF proto.there THEN [proto EXCEPT !.label = proc[p].label] ELSE proto
  /\ Ok(p) /\ UNCHANGED <<legacy, counts, unlabelled>>

\* Its errors are ignored.
SetLabelFails(p) ==
  /\ At(p, "set_label") /\ Fault
  /\ Ok(p) /\ unlabelled' = TRUE /\ UNCHANGED files

Kill(p) ==
  /\ ~At(p, "idle") /\ kills < MaxKills
  /\ kills' = kills + 1
  /\ proc' = [proc EXCEPT ![p] = Idle]
  /\ durable' = [durable EXCEPT ![proc[p].call.key] = Unknown]
  /\ unlabelled' = (unlabelled \/ At(p, "set_label"))
  /\ UNCHANGED <<files, calls, faults, refusals, strayed, overlapped>>

-------------------------------------------------------------------------------
\* A device has one format or the other.
Init ==
  /\ \/ /\ proto \in [there : {TRUE}, recs : [Keys -> Values \cup {Absent}], label : {"right"}]
        /\ legacy = Empty
     \/ proto = NoProto /\ legacy \in [Keys -> Values \cup {Absent}]
  /\ proc = [p \in Procs |-> Idle]
  /\ calls = 0 /\ kills = 0 /\ faults = 0 /\ refusals = 0
  /\ durable = View /\ strayed = {} /\ unlabelled = FALSE /\ overlapped = FALSE

Request(p) ==
  \E k \in Keys : Call(p, "delete", k, Absent) \/ \E v \in Values : Call(p, "set", k, v)

Step(p) ==
  \/ Detect(p) \/ DetectFails(p) \/ Unlink(p)
  \/ ReadLabel(p) \/ ReadLabelFails(p) \/ Load(p) \/ LoadFails(p)
  \/ WriteTmp(p) \/ WriteFails(p)
  \/ Rename(p) \/ RenameFails(p) \/ RenameRefused(p) \/ RemoveTarget(p) \/ RemoveNothing(p)
  \/ RemoveFails(p)
  \/ SetLabel(p) \/ SetLabelFails(p)

Next == \E p \in Procs : Request(p) \/ Step(p) \/ Kill(p)

Spec == Init /\ [][Next]_vars

-------------------------------------------------------------------------------
\* The name of a file never leads to one that was not written to its end: no failure of
\* a system call and no kill, of any process at any point, tears a file.
FileIsWhole == \A k \in Keys : proto.recs[k] # Torn /\ legacy[k] # Torn

\* One call at a time, or any number on legacy files, with no rename refused.
Orderly == ~overlapped /\ refusals = 0

\* What a process would read for k becomes the value of a call on k that replaces or
\* removes a file.
ChangedByItsCall(k) ==
  \E p \in Procs : /\ proc[p].pc \in {"rename", "unlink"} /\ proc[p].call.key = k
                   /\ View'[k] = proc[p].call.val

\* A call changes what a process would read for its own key only, when it replaces or
\* removes a file, and to the value it was given: other properties are kept, also by
\* calls that fail or are killed.
CallChangesItsKeyOnly ==
  [][Orderly' => \A k \in Keys : View'[k] # View[k] => ChangedByItsCall(k)]_vars

\* A value whose set returned Ok, and the absence of one whose delete did, stays until
\* the next call on that key.
SetSurvives == \A k \in Keys : ~InFlight(k) => durable[k] \in {Unknown, View[k]}

\* While a call on k is under way, a process that starts reads the old value or the new.
OldOrNew(k) ==
  \/ durable[k] \in {Unknown, View[k]}
  \/ \E p \in Procs : /\ ~At(p, "idle") /\ proc[p].call.key = k
                      /\ View[k] = proc[p].call.val

\* When calls come one at a time and no rename is refused, what returned Ok stays until
\* the next call on that key is under way, and is then the old value or the new one,
\* whatever fails or is killed.  Excepted are the keys whose own last call took a
\* protobuf file that it could not look at for none (check_proto): nothing that happens
\* to one key takes back another.
SetSurvivesInOrder == Orderly => \A k \in Keys \ strayed : OldOrNew(k)

\* Between calls the protobuf file has the label it always had (persist_set_prop), unless
\* calls overlapped, a rename was refused, a call on the label failed, or a process was
\* killed between the rename and the label: no other failure and no other kill takes it.
LabelKept ==
  Orderly /\ ~unlabelled /\ proto.there /\ (\A p \in Procs : At(p, "idle")) =>
    proto.label = "right"
===============================================================================
