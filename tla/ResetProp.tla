------------------------------ MODULE ResetProp ------------------------------
(***************************************************************************)
(* The operations of resetprop (crates/prop-rs-android/src/resetprop.rs):  *)
(* set, delete and load_props change the live areas (sys_prop.rs: the main *)
(* area, then the one of appcompat_override) and then, with -p and for     *)
(* persist.*, the files of PersistFile.  Processes run at once, calls fail *)
(* and processes are killed on the way, and the device reboots: memory is  *)
(* lost and init fills it from the files.                                  *)
(*                                                                         *)
(* An upsert or a remove of one area is one step here: SharedProp and      *)
(* MmapTrie have what is in it.  init is itself one of the processes, with *)
(* the sets that go through property_service: it persists persist.*.       *)
(***************************************************************************)
EXTENDS PersistFile, Sequences

CONSTANTS
  Names,        \* of all properties; Keys are those of persist.*
  Strip,        \* strip_appcompat_prefix: what a name is called in the override area
  Files,        \* the files that load_props is given, as sequences of names and values
  HasOverride,  \* whether there is an appcompat_override directory
  MaxOps, MaxMisses, MaxReboots   \* bounds: operations, failing areas, reboots

ASSUME NamesAssumption == Keys \subseteq Names /\ Strip \in [Names -> Names]
ASSUME FilesAssumption == Files \subseteq Seq(Names \X Values) /\ HasOverride \in BOOLEAN

VARIABLES
  mem,        \* what the main areas hold
  override,   \* what the areas of appcompat_override hold
  rp,         \* process -> the operation it is in
  ops, misses, reboots,
  promised,   \* history: what a -p call that returned has left in memory and file
  expected    \* history: what the last call that returned has left in the override area

live      == <<mem, override>>
resetVars == <<live, rp, ops, misses, reboots, promised, expected>>

NoOp == [pc |-> "idle", op |-> "none", name |-> CHOOSE n \in Names : TRUE, val |-> Absent,
         flag |-> FALSE, lines |-> <<>>, alone |-> TRUE, stored |-> TRUE]

\* A disjunct of this module that leaves the files alone.
FilesAlone == UNCHANGED vars

-------------------------------------------------------------------------------
(***************************************************************************)
(* An operation of p: it is alone if no other on the same property, or on  *)
(* one of the same name in the override area, is under way at any moment.  *)
(***************************************************************************)
Shares(m, n) == Strip[m] = Strip[n]
Busy(p)      == rp[p].pc # "idle"

Enter(p, op, n, v, flag, lines) ==
  /\ rp' = [q \in Procs |->
       IF q = p THEN [NoOp EXCEPT !.pc = "main", !.op = op, !.name = n, !.val = v, !.flag = flag,
         !.lines = lines,
         !.alone = \A o \in Procs \ {p} : Busy(o) => ~Shares(rp[o].name, n)]
       ELSE [rp[q] EXCEPT !.alone = @ /\ ~(Busy(q) /\ Shares(rp[q].name, n))]]
  /\ promised' = [k \in Keys |-> IF k = n THEN Unknown ELSE promised[k]]
  /\ expected' = [expected EXCEPT ![Strip[n]] = Unknown]

Begin(p, op, n, v, flag, lines) ==
  /\ ~Busy(p) /\ ops < MaxOps
  /\ ops' = ops + 1
  /\ Enter(p, op, n, v, flag, lines)
  /\ UNCHANGED <<live, misses, reboots>> /\ FilesAlone

set(p, n, v, flag) == Begin(p, "set", n, v, flag, <<>>)
delete(p, n, flag) == Begin(p, "delete", n, Absent, flag, <<>>)

\* load_props sets the properties of the lines in turn.
load_props(p, flag) ==
  \E f \in Files : f # <<>> /\ Begin(p, "set", Head(f)[1], Head(f)[2], flag, Tail(f))

\* flag is -p, and for a set also that it goes round property_service (skip_svc), which
\* otherwise persists the value itself, as another process here.
Persists(p) == rp[p].flag /\ rp[p].name \in Keys

\* An operation returns an error, at which load_props stops.
Fails(p) == rp' = [rp EXCEPT ![p] = NoOp] /\ UNCHANGED <<promised, expected>>

\* It returns that nothing was deleted.
ReturnsFalse(p) == Fails(p)

\* The file or the lack of it is done, and so is the line.
NextLine(p) ==
  /\ rp[p].pc = "next"
  /\ LET o == rp[p] IN
     IF o.lines = <<>>
     THEN rp' = [rp EXCEPT ![p] = NoOp] /\ UNCHANGED <<promised, expected>>
     ELSE Enter(p, o.op, Head(o.lines)[1], Head(o.lines)[2], o.flag, Tail(o.lines))
  /\ UNCHANGED <<live, ops, misses, reboots>> /\ FilesAlone

\* Ok, or Ok(true).
Succeeds(p) ==
  LET o == rp[p] IN
  /\ rp' = [rp EXCEPT ![p].pc = "next"]
  /\ promised' = [k \in Keys |->
       IF k = o.name /\ o.alone /\ Persists(p) THEN o.val ELSE promised[k]]
  /\ expected' = IF o.alone /\ o.stored THEN [expected EXCEPT ![Strip[o.name]] = o.val]
                 ELSE expected

-------------------------------------------------------------------------------
(***************************************************************************)
(* sys_prop::set and sys_prop::delete.                                     *)
(***************************************************************************)
MainArea(p) ==
  /\ rp[p].pc = "main"
  /\ mem' = [mem EXCEPT ![rp[p].name] = rp[p].val]
  /\ rp' = [rp EXCEPT ![p].pc = IF HasOverride THEN "override" ELSE "main_done",
                      ![p].op = IF @ = "delete" /\ mem[rp[p].name] = Absent THEN "none" ELSE @]
  /\ UNCHANGED <<override, ops, misses, reboots, promised, expected>> /\ FilesAlone

\* The area cannot be mapped, or has no room.
MainAreaFails(p) ==
  /\ rp[p].pc = "main" /\ misses < MaxMisses /\ misses' = misses + 1
  /\ Fails(p)
  /\ UNCHANGED <<live, ops, reboots>> /\ FilesAlone

OverrideUnstripped(p) ==   \* faulty variant
  /\ rp[p].pc = "override"
  /\ override' = [override EXCEPT ![rp[p].name] = rp[p].val]
  /\ rp' = [rp EXCEPT ![p].pc = "main_done"]
  /\ UNCHANGED <<mem, ops, misses, reboots, promised, expected>> /\ FilesAlone
OverrideArea(p) ==
  /\ rp[p].pc = "override"
  /\ override' = [override EXCEPT ![Strip[rp[p].name]] = rp[p].val]
  /\ rp' = [rp EXCEPT ![p].pc = "main_done"]
  /\ UNCHANGED <<mem, ops, misses, reboots, promised, expected>> /\ FilesAlone

\* Errors of the second area are dropped.
OverrideAreaFails(p) ==
  /\ rp[p].pc = "override" /\ misses < MaxMisses /\ misses' = misses + 1
  /\ rp' = [rp EXCEPT ![p].pc = "main_done", ![p].stored = FALSE]
  /\ UNCHANGED <<live, ops, reboots, promised, expected>> /\ FilesAlone

\* Back in resetprop: a delete that found nothing in memory leaves the file alone.
Memory(p) ==
  /\ rp[p].pc = "main_done"
  /\ IF rp[p].op = "none" THEN ReturnsFalse(p)
     ELSE IF Persists(p) THEN rp' = [rp EXCEPT ![p].pc = "persist"] /\ UNCHANGED <<promised, expected>>
     ELSE Succeeds(p)
  /\ UNCHANGED <<live, ops, misses, reboots>> /\ FilesAlone

-------------------------------------------------------------------------------
(***************************************************************************)
(* persist_set_prop and persist_delete_prop.                               *)
(***************************************************************************)
Persist(p) ==
  /\ rp[p].pc = "persist"
  /\ Call(p, rp[p].op, rp[p].name, rp[p].val)
  /\ rp' = [rp EXCEPT ![p].pc = "file"]
  /\ UNCHANGED <<live, ops, misses, reboots, promised, expected>>

Within(p) == ~(At(p, "idle")') /\ UNCHANGED <<rp, promised, expected>>

FileStep(p) ==
  /\ rp[p].pc = "file"
  /\ Detect(p) \/ DetectFails(p) \/ Unlink(p) \/ ReadLabel(p) \/ ReadLabelFails(p) \/ Load(p)
     \/ WriteTmp(p) \/ Rename(p) \/ RemoveTarget(p) \/ SetLabel(p) \/ SetLabelFails(p)
  /\ Within(p) \/ (At(p, "idle")' /\ Succeeds(p))
  /\ UNCHANGED <<live, ops, misses, reboots>>

FileStepFailsUnnoticed(p) ==   \* faulty variant: let _ = persist_set_prop(..)
  /\ rp[p].pc = "file"
  /\ LoadFails(p) \/ WriteFails(p) \/ RenameFails(p) \/ RenameRefused(p) \/ RemoveNothing(p)
     \/ RemoveFails(p)
  /\ Within(p) \/ (At(p, "idle")' /\ Succeeds(p))
  /\ UNCHANGED <<live, ops, misses, reboots>>
FileStepFails(p) ==
  /\ rp[p].pc = "file"
  /\ LoadFails(p) \/ WriteFails(p) \/ RenameFails(p) \/ RenameRefused(p) \/ RemoveNothing(p)
     \/ RemoveFails(p)
  /\ Within(p) \/ (At(p, "idle")' /\ Fails(p))
  /\ UNCHANGED <<live, ops, misses, reboots>>

-------------------------------------------------------------------------------
KillProcess(p) ==
  /\ Busy(p)
  /\ Fails(p)
  /\ IF At(p, "idle") THEN FilesAlone ELSE Kill(p)
  /\ UNCHANGED <<live, ops, misses, reboots>>

\* Every process is gone.  init loads what a process would read from the files; the
\* other properties are what they were at the first boot.
Reboot ==
  /\ reboots < MaxReboots /\ \A p \in Procs : ~Busy(p)
  /\ reboots' = reboots + 1
  /\ mem' = [n \in Names |-> IF n \in Keys THEN View[n] ELSE Absent]
  /\ override' = mem' /\ expected' = mem'
  /\ UNCHANGED <<rp, ops, misses, promised>> /\ FilesAlone

Booted == [n \in Names |-> IF n \in Keys THEN View[n] ELSE Absent]

ResetInit ==
  /\ Init
  /\ mem = Booted /\ override = Booted /\ expected = Booted
  /\ rp = [p \in Procs |-> NoOp]
  /\ ops = 0 /\ misses = 0 /\ reboots = 0
  /\ promised = [k \in Keys |-> View[k]]

Operation(p) ==
  \/ \E n \in Names, flag \in BOOLEAN :
       delete(p, n, flag) \/ \E v \in Values : set(p, n, v, flag)
  \/ \E flag \in BOOLEAN : load_props(p, flag)

Progress(p) ==
  \/ NextLine(p) \/ MainArea(p) \/ MainAreaFails(p) \/ OverrideArea(p) \/ OverrideAreaFails(p)
  \/ Memory(p) \/ Persist(p) \/ FileStep(p) \/ FileStepFails(p)

ResetNext == \/ \E p \in Procs : Operation(p) \/ Progress(p) \/ KillProcess(p)
             \/ Reboot

ResetSpec == ResetInit /\ [][ResetNext]_<<vars, resetVars>>

-------------------------------------------------------------------------------
\* Once a set or a delete with -p of a persist.* property has returned Ok or Ok(true),
\* memory and file agree on it until the next operation on it, so that no reboot undoes
\* it; when no other operation on it was under way, and the files' own proviso holds
\* (resetprop.rs, set and delete).  What a call has put into a legacy file beside a
\* protobuf file that it could not look at, init does not read.
PromisesSurviveReboot ==
  Orderly => \A k \in Keys \ strayed : promised[k] # Unknown =>
    mem[k] = promised[k] /\ View[k] = promised[k]

\* The override area holds for a name what the last call on it, or on its
\* ro.appcompat_override. alias, has written, unless that write failed unseen (sys_prop.rs,
\* set and delete).
OverrideFollows ==
  HasOverride => \A n \in Names : expected[n] \in {Unknown, override[n]}
===============================================================================
