------------------------------- MODULE Sysprop -------------------------------
(***************************************************************************)
(* The commands of sysprop (tools/sysprop/src/main.rs): each is a process  *)
(* that loads the property context, opens the area files it is led to and  *)
(* works on them, and then maybe on the persistent property file.  Areas   *)
(* may be missing, unreadable or corrupt; calls of the system fail, and a  *)
(* process may be killed between any two steps.                            *)
(*                                                                         *)
(* PropArea has what happens within an area, PersistFile how the file is   *)
(* written; here an area is what its properties are and whether it has     *)
(* holes, and the file is replaced in one step, or lost.  Processes run    *)
(* one after the other.  The rules do not change: only the first process   *)
(* loads them.                                                             *)
(***************************************************************************)
EXTENDS PropContext

CONSTANTS
  Devices,    \* where a behaviour may start: a root, its areas and its persistent file, and
              \* (a bound) how many commands it has
  Paths,      \* the area files that a command may be given, whether they are there or not
  Values,     \* positive
  Capacity,   \* how many properties fit in an area
  MaxKills, MaxFaults   \* bounds

ASSUME ValuesAssumption == Values \subseteq Nat \ {0}
ASSUME BoundsAssumption == {Capacity, MaxKills, MaxFaults} \subseteq Nat

Absent == 0
Held(props) == {k \in Keys : props[k] # Absent}

\* What is wrong with an area that is there: the file may not be opened, or not for
\* writing; PropArea::new rejects its header; or its trie leads nowhere.
Unusable == {"denied", "garbage"}
AreaKinds == Unusable \cup {"readonly", "broken", "ok"}

Props == [Keys -> Values \cup {Absent}]
Area  == {a \in [is : AreaKinds, props : Props, holes : BOOLEAN] :
            Cardinality(Held(a.props)) <= Capacity}
Pfile == [is : {"missing", "bad", "ok"}, props : Props]

ASSUME KeysAssumption == IsFiniteSet(Keys) /\ Keys # {}
ASSUME DevicesAssumption ==
  \A d \in Devices : /\ d.root \in Root /\ \A p \in DOMAIN d.areas : d.areas[p] \in Area
                     /\ d.pfile \in Pfile /\ d.calls \in Nat

VARIABLES
  areas,    \* path -> area file, of those that are there
  pfile,    \* the persistent property file
  cmd,      \* the command that runs, or the last one that did
  exit,     \* how it ended
  before,   \* history: the stores when it began
  left,     \* how many commands may still be given
  kills, faults

stores == <<areas, pfile>>
counts == <<left, kills, faults>>
vars   == <<contextVars, stores, cmd, exit, before, counts>>

NoProps == [k \in Keys |-> Absent]
SomeKey == CHOOSE k \in Keys : TRUE
NoCommand == [pc |-> "exited", op |-> "none", via |-> "none", key |-> SomeKey, val |-> Absent,
              flag |-> FALSE, todo |-> <<>>, props |-> NoProps, shown |-> {}, found |-> FALSE]

-------------------------------------------------------------------------------
(***************************************************************************)
(* A command: op is what it does, via how it gets to its areas ("route" by *)
(* its key, "all" contexts, a "context" that is named, the "path" of a     *)
(* file, or the persistent "file"), and flag is -p, or the compact of      *)
(* area del.                                                               *)
(***************************************************************************)
Running == cmd.pc # "exited"
At(pc)  == cmd.pc = pc
Goto(pc) == cmd' = [cmd EXCEPT !.pc = pc] /\ UNCHANGED exit

Exit(how) == cmd' = [cmd EXCEPT !.pc = "exited", !.todo = <<>>] /\ exit' = how

Fault == faults < MaxFaults /\ faults' = faults + 1 /\ UNCHANGED <<left, kills>>

Invoke(c) ==
  /\ ~Running /\ left > 0
  /\ left' = left - 1
  /\ cmd' = [c EXCEPT !.pc = CASE c.via = "file" -> "file" [] c.via = "path" -> "area"
                                 [] OTHER -> "context"]
  /\ exit' = "none" /\ before' = stores
  /\ UNCHANGED <<contextVars, stores, kills, faults>>

Ask(op, via) == [NoCommand EXCEPT !.op = op, !.via = via]

\* get, set and del go by the key, with -p also or only to the persistent file.
KeyCommands ==
  \/ \E k \in Keys : Invoke([Ask("get", "route") EXCEPT !.key = k])
  \/ \E k \in Keys : Invoke([Ask("get", "file") EXCEPT !.key = k, !.flag = TRUE])
  \/ \E k \in Keys, v \in Values, flag \in BOOLEAN :
       Invoke([Ask("set", "route") EXCEPT !.key = k, !.val = v, !.flag = flag])
  \/ \E k \in Keys, flag \in BOOLEAN :
       Invoke([Ask("del", "route") EXCEPT !.key = k, !.flag = flag])

\* list, scan and compact, of all areas or one; dump-context and area list are a list
\* of one.
AreaCommands ==
  \/ \E op \in {"list", "scan", "compact"} : Invoke(Ask(op, "all"))
  \/ \E op \in {"list", "scan", "compact", "dump"}, p \in Paths :
       Invoke([Ask(op, "context") EXCEPT !.todo = <<p>>])
  \/ Invoke([Ask("list", "file") EXCEPT !.flag = TRUE])

\* area --path (with --context it is the same, once the path is known) and
\* persistent-file.
PathCommands ==
  \/ \E k \in Keys, p \in Paths :
       Invoke([Ask("get", "path") EXCEPT !.key = k, !.todo = <<p>>])
  \/ \E k \in Keys, p \in Paths, v \in Values :
       Invoke([Ask("set", "path") EXCEPT !.key = k, !.val = v, !.todo = <<p>>])
  \/ \E k \in Keys, p \in Paths, flag \in BOOLEAN :
       Invoke([Ask("del", "path") EXCEPT !.key = k, !.flag = flag, !.todo = <<p>>])
  \/ \E k \in Keys, v \in Values :
       Invoke([Ask("set", "file") EXCEPT !.key = k, !.val = v])
  \/ \E k \in Keys, op \in {"get", "del"} : Invoke([Ask(op, "file") EXCEPT !.key = k])
  \/ Invoke(Ask("list", "file"))

\* What a refused rename leaves that has removed its target, and cannot rename again.
Lost == [is |-> "missing", props |-> NoProps]

Kill ==
  /\ Running /\ kills < MaxKills
  /\ kills' = kills + 1 /\ Exit("killed")
  /\ pfile' = pfile \/ (At("save") /\ pfile' = Lost)
  /\ UNCHANGED <<contextVars, areas, before, left, faults>>

-------------------------------------------------------------------------------
(***************************************************************************)
(* load_context, and where the command goes from there.                    *)
(***************************************************************************)
LoadContext ==
  /\ At("context") /\ LoadStep
  /\ UNCHANGED <<stores, cmd, exit, before, counts>>

LoadContextFails ==
  /\ At("context") /\ Failed
  /\ Exit("error") /\ UNCHANGED <<contextVars, stores, before, counts>>

RouteOf(key) == context_file_path(Route(key))

Resolve ==
  /\ At("context") /\ Ready
  /\ cmd' = [cmd EXCEPT !.pc = "area",
       !.todo = CASE cmd.via = "route" -> <<RouteOf(cmd.key)>>
                  [] cmd.via = "all"   -> prop_area_files
                  [] OTHER             -> <<context_file_path(cmd.todo[1])>>]
  /\ UNCHANGED <<contextVars, stores, exit, before, counts>>

-------------------------------------------------------------------------------
(***************************************************************************)
(* The area at the head of todo.                                           *)
(***************************************************************************)
path == Head(cmd.todo)
area == areas[path]

Writes == cmd.op \in {"set", "del", "compact"}
Specific == cmd.via # "all"

Missing == path \notin DOMAIN areas
Opens == ~Missing /\ area.is \notin Unusable /\ ~(Writes /\ area.is = "readonly")

\* The next area, and the end of the loop.
Continue == cmd' = [cmd EXCEPT !.pc = "area", !.todo = Tail(@)] /\ UNCHANGED exit

Visiting == At("area") /\ cmd.todo # <<>>

AllVisited ==
  /\ At("area") /\ cmd.todo = <<>>
  /\ Exit("ok") /\ UNCHANGED <<contextVars, stores, before, counts>>

\* record_area_open_error: one area that cannot be opened is no error among many.
OpenFails ==
  /\ Visiting /\ ~Opens
  /\ IF ~Specific THEN Continue
     ELSE Exit(IF cmd.op = "dump" /\ Missing THEN "ok" ELSE "error")
  /\ UNCHANGED <<contextVars, stores, before, counts>>

Opened(op) == Visiting /\ Opens /\ cmd.op = op

\* A lookup in a broken area may also fail.
Lookup ==
  /\ Opened("get")
  /\ \/ Exit(IF area.props[cmd.key] # Absent THEN "ok" ELSE "notfound")
     \/ area.is = "broken" /\ Exit("error")
  /\ UNCHANGED <<contextVars, stores, before, counts>>

\* for_each_property has shown some of the properties when it fails.
Properties == {<<k, area.props[k]>> : k \in Held(area.props)}

List ==
  /\ cmd.op \in {"list", "dump"} /\ Opened(cmd.op) /\ area.is # "broken"
  /\ cmd' = [cmd EXCEPT !.todo = Tail(@), !.shown = @ \cup Properties]
  /\ UNCHANGED <<contextVars, stores, exit, before, counts>>

ListBrokenAndGoOn ==   \* faulty variant: as scan does
  /\ cmd.op \in {"list", "dump"} /\ Opened(cmd.op) /\ area.is = "broken"
  /\ IF Specific THEN Exit("error") ELSE Continue
  /\ UNCHANGED <<contextVars, stores, before, counts>>
ListBroken ==
  /\ cmd.op \in {"list", "dump"} /\ Opened(cmd.op) /\ area.is = "broken"
  /\ Exit("error") /\ UNCHANGED <<contextVars, stores, before, counts>>

\* scan and compact go on after an area whose objects make no sense.
Scan ==
  /\ Opened("scan")
  /\ IF area.is = "broken" /\ Specific THEN Exit("error") ELSE Continue
  /\ UNCHANGED <<contextVars, stores, before, counts>>

CompactBrokenEndsTheLoop ==   \* faulty variant
  /\ Opened("compact") /\ area.is = "broken"
  /\ Exit(IF Specific THEN "error" ELSE "ok")
  /\ UNCHANGED <<contextVars, stores, before, counts>>
CompactBroken ==
  /\ Opened("compact") /\ area.is = "broken"
  /\ IF Specific THEN Exit("error") ELSE Continue
  /\ UNCHANGED <<contextVars, stores, before, counts>>

Compact ==
  /\ Opened("compact") /\ area.is # "broken"
  /\ areas' = [areas EXCEPT ![path].holes = FALSE]
  /\ Goto("flush") /\ UNCHANGED <<contextVars, pfile, before, counts>>

\* A bound.  Sizes are left out: whether there is room or not, a set may find none.
HasRoomForOneMore ==   \* faulty variant
  Cardinality(Held(area.props)) <= Capacity
HasRoom == area.props[cmd.key] # Absent
           \/ Cardinality(Held(area.props)) < Capacity

\* A value of another size leaves its old place behind.
Set ==
  /\ Opened("set") /\ HasRoom
  /\ \E hole \in {area.holes, area.holes \/ area.props[cmd.key] # Absent} :
       areas' = [areas EXCEPT ![path].props[cmd.key] = cmd.val, ![path].holes = hole]
  /\ Goto("flush") /\ UNCHANGED <<contextVars, pfile, before, counts>>

\* The key loses its value, and nothing has the place.
Detach ==
  /\ area.props[cmd.key] # Absent
  /\ areas' = [areas EXCEPT ![path].props[cmd.key] = Absent, ![path].holes = TRUE]

\* A value that does not fit where the old one is, is given a new place once that is gone.
SetFailsUnnoticed ==   \* faulty variant
  /\ Opened("set") /\ (UNCHANGED areas \/ Detach)
  /\ Goto("flush") /\ UNCHANGED <<contextVars, pfile, before, counts>>
SetFails ==
  /\ Opened("set") /\ (UNCHANGED areas \/ Detach)
  /\ Exit("error") /\ UNCHANGED <<contextVars, pfile, before, counts>>

\* Only persist.* is in the file.
Persistent == cmd.via = "route" /\ cmd.flag /\ Under(Persist, cmd.key)

Delete ==
  /\ Opened("del") /\ area.props[cmd.key] # Absent
  /\ areas' = [areas EXCEPT ![path].props[cmd.key] = Absent,
                            ![path].holes = ~(cmd.via = "path" /\ cmd.flag)]
  /\ cmd' = [cmd EXCEPT !.pc = "flush", !.found = TRUE]
  /\ UNCHANGED <<contextVars, exit, pfile, before, counts>>

DeleteNothing ==
  /\ Opened("del") /\ area.props[cmd.key] = Absent
  /\ IF Persistent THEN Goto("flush") ELSE Exit("notfound")
  /\ UNCHANGED <<contextVars, stores, before, counts>>

\* The walk to the key; or what comes after it is detached: the wipe, the pruning, the
\* compaction of area del.
DeleteFails ==
  /\ Opened("del") /\ area.is = "broken" /\ (UNCHANGED areas \/ Detach)
  /\ Exit("error")
  /\ UNCHANGED <<contextVars, pfile, before, counts>>

-------------------------------------------------------------------------------
\* msync.  What was stored in the mapping is in the file already.
Flush ==
  /\ At("flush")
  /\ CASE cmd.op = "compact" -> Continue
       [] Persistent         -> Goto("file")
       [] OTHER              -> Exit("ok")
  /\ UNCHANGED <<contextVars, stores, before, counts>>

FlushFails ==
  /\ At("flush") /\ Fault
  /\ IF Specific THEN Exit("error") ELSE Continue
  /\ UNCHANGED <<contextVars, stores, before>>

-------------------------------------------------------------------------------
(***************************************************************************)
(* The persistent property file, for -p and persistent-file.               *)
(***************************************************************************)
\* load, or load_or_default, for which a missing file is an empty one: persistent-file
\* get, del and list take the former.
Loadable == \/ pfile.is = "ok"
            \/ pfile.is = "missing" /\ (cmd.flag \/ cmd.op = "set")
Loads    == At("file") /\ Loadable

LoadFails ==
  /\ At("file") /\ ~Loadable
  /\ Exit("error") /\ UNCHANGED <<contextVars, stores, before, counts>>

FileGet ==
  /\ Loads /\ cmd.op = "get"
  /\ Exit(IF pfile.props[cmd.key] # Absent THEN "ok" ELSE "notfound")
  /\ UNCHANGED <<contextVars, stores, before, counts>>

FileList ==
  /\ Loads /\ cmd.op = "list"
  /\ Exit("ok") /\ UNCHANGED <<contextVars, stores, before, counts>>

FileSet ==
  /\ Loads /\ cmd.op = "set"
  /\ cmd' = [cmd EXCEPT !.pc = "save", !.props = [pfile.props EXCEPT ![cmd.key] = cmd.val]]
  /\ UNCHANGED <<contextVars, stores, exit, before, counts>>

FileDeleteNeedsBoth ==   \* faulty variant
  /\ Loads /\ cmd.op = "del"
  /\ IF ~cmd.found \/ pfile.props[cmd.key] = Absent THEN Exit("notfound")
     ELSE /\ cmd' = [cmd EXCEPT !.pc = "save", !.props = [pfile.props EXCEPT ![cmd.key] = Absent]]
          /\ UNCHANGED exit
  /\ UNCHANGED <<contextVars, stores, before, counts>>
FileDelete ==
  /\ Loads /\ cmd.op = "del"
  /\ IF ~cmd.found /\ pfile.props[cmd.key] = Absent THEN Exit("notfound")
     ELSE /\ cmd' = [cmd EXCEPT !.pc = "save", !.props = [pfile.props EXCEPT ![cmd.key] = Absent]]
          /\ UNCHANGED exit
  /\ UNCHANGED <<contextVars, stores, before, counts>>

Save ==
  /\ At("save")
  /\ pfile' = [is |-> "ok", props |-> cmd.props]
  /\ Exit("ok") /\ UNCHANGED <<contextVars, areas, before, counts>>

SaveFailsUnnoticed ==   \* faulty variant
  /\ At("save") /\ Fault
  /\ Exit("ok") /\ UNCHANGED <<contextVars, stores, before>>
SaveFails ==
  /\ At("save") /\ Fault
  /\ Exit("error") /\ pfile' \in {pfile, Lost}
  /\ UNCHANGED <<contextVars, areas, before>>

-------------------------------------------------------------------------------
Init ==
  /\ \E d \in Devices : ContextInit(d.root) /\ areas = d.areas /\ pfile = d.pfile
                         /\ left = d.calls
  /\ cmd = NoCommand /\ exit = "none" /\ before = stores
  /\ kills = 0 /\ faults = 0

Next ==
  \/ KeyCommands \/ AreaCommands \/ PathCommands \/ Kill
  \/ LoadContext \/ LoadContextFails \/ Resolve
  \/ AllVisited \/ OpenFails
  \/ Lookup \/ List \/ ListBroken \/ Scan \/ Compact \/ CompactBroken
  \/ Set \/ SetFails \/ Delete \/ DeleteNothing \/ DeleteFails
  \/ Flush \/ FlushFails
  \/ LoadFails \/ FileGet \/ FileList \/ FileSet \/ FileDelete \/ Save \/ SaveFails

Spec == Init /\ [][Next]_vars

-------------------------------------------------------------------------------
(***************************************************************************)
(* What the commands promise.                                              *)
(***************************************************************************)
TypeOK ==
  /\ \A p \in DOMAIN areas : areas[p] \in Area
  /\ pfile \in Pfile
  /\ cmd.pc \in {"exited", "context", "area", "flush", "file", "save"}
  /\ cmd.key \in Keys /\ cmd.val \in Values \cup {Absent}
  /\ exit \in {"none", "ok", "notfound", "error", "killed"} /\ (Running => exit = "none")
  /\ left \in Nat /\ kills \in 0..MaxKills /\ faults \in 0..MaxFaults

Succeeded(op, via) == ~Running /\ exit = "ok" /\ cmd.op = op /\ cmd.via = via

\* What get would print for k, if its area can be opened.
WouldGet(k) == IF RouteOf(k) \notin DOMAIN areas \/ areas[RouteOf(k)].is \in Unusable THEN Absent
               ELSE areas[RouteOf(k)].props[k]

\* A list of all areas that reports no error has shown every property that get finds,
\* whatever is wrong with other areas; but for properties that no rule of a Split root
\* fits, whose context is in no list (cmd_list, prop_area_files).
ListShowsWhatGetFinds ==
  Succeeded("list", "all") => \A k \in Keys :
    \/ WouldGet(k) = Absent \/ <<k, WouldGet(k)>> \in cmd.shown
    \/ storage.type = "Split" /\ Route(k) = DEFAULT_CONTEXT

\* A compaction of all areas that reports no error has passed over none for the sake of
\* another: each one that it could write has no hole left (cmd_compact).
CompactReachesAll ==
  Succeeded("compact", "all") =>
    \A i \in DOMAIN prop_area_files :
      LET p == context_file_path(prop_area_files[i]) IN
      p \in DOMAIN areas /\ areas[p].is = "ok" => ~areas[p].holes

\* After set -p or del -p of a persist.* property that reports no error, the area and
\* the file agree about it (cmd_set, cmd_del).
BothStoresAgree ==
  (Succeeded("set", "route") \/ Succeeded("del", "route")) /\ Persistent =>
    /\ areas[RouteOf(cmd.key)].props[cmd.key] = cmd.val
    /\ pfile.props[cmd.key] = cmd.val

\* A command that says that the property was not found has changed nothing, in either
\* store (cmd_del, which looks into both before it decides).
NotFoundChangesNothing == ~Running /\ exit = "notfound" => stores = before

\* set -p and del -p change the file only to what the area holds already: a kill or a
\* failure in between leaves the file behind, never ahead (cmd_set, cmd_del).  A file that
\* is lost to a refused rename is behind on every key.
FileFollowsArea ==
  [][pfile' # pfile /\ pfile'.is = "ok" /\ cmd.via = "route" =>
       pfile'.props[cmd.key] = areas[RouteOf(cmd.key)].props[cmd.key]]_vars
===============================================================================
