----------------------------- MODULE SyspropProofs -----------------------------
(***************************************************************************)
(* What sysprop does to the two stores, for any devices, rules, keys and   *)
(* values, however areas and files are damaged and wherever commands fail  *)
(* or are killed: a command that says "not found" has changed nothing, and *)
(* one that works on both stores leaves them in agreement, or the file     *)
(* behind the area; a compaction of all areas reaches all of them, and a   *)
(* list of all shows what get finds.  Before that, what both rest on: the  *)
(* rules are kept longest first, the lookup in them finds the best one,    *)
(* and so does the walk through the trie of property_info.                 *)
(***************************************************************************)
EXTENDS Sysprop, FiniteSetTheorems, SequenceTheorems, WellFoundedInduction, TLAPS

\* The fields of a command that the steps look at, or keep.
IsCommand(c) ==
  {"pc", "op", "via", "key", "val", "flag", "todo", "shown", "props", "found"} \subseteq DOMAIN c

\* A get never finds anything to change, and a del has found nothing while it has an area
\* ahead of it.  A del goes to one area, so it comes to none after that.
Finding ==
  /\ cmd.op = "get" => ~cmd.found
  /\ cmd.op = "del" => cmd.via # "all"
  /\ cmd.op = "del" /\ cmd.pc \in {"context", "area"} => ~cmd.found

\* As long as a get or a del has not found the property, it has changed nothing.
Untouched ==
  /\ Running /\ cmd.op \in {"get", "del"} /\ ~cmd.found => stores = before
  /\ NotFoundChangesNothing

Inv == IsCommand(cmd) /\ Finding /\ Untouched

USE DEF IsCommand

LEMMA InvInit == ASSUME Init PROVE Inv
BY DEF Init, Inv, NoCommand, Finding, Untouched, NotFoundChangesNothing, Running

-------------------------------------------------------------------------------
(***************************************************************************)
(* What a command is when it is given.                                     *)
(***************************************************************************)
Asked(c) == IsCommand(c) /\ ~c.found /\ (c.op = "del" => c.via # "all")

LEMMA InvokeStep == ASSUME Inv, NEW c, Asked(c), Invoke(c) PROVE Inv'
BY DEF Inv, Invoke, Asked, Finding, Untouched, NotFoundChangesNothing, Running, stores

LEMMA KeyStep == ASSUME Inv, KeyCommands PROVE Inv'
<1> DEFINE Goes(c) == Asked(c) /\ Invoke(c)
<1>1. PICK c : Goes(c)
  BY DEF KeyCommands, Ask, NoCommand, Asked
<1> QED BY <1>1, InvokeStep

LEMMA AreaStep == ASSUME Inv, AreaCommands PROVE Inv'
<1> DEFINE Goes(c) == Asked(c) /\ Invoke(c)
<1>1. PICK c : Goes(c)
  BY DEF AreaCommands, Ask, NoCommand, Asked
<1> QED BY <1>1, InvokeStep

LEMMA PathStep == ASSUME Inv, PathCommands PROVE Inv'
<1> DEFINE Goes(c) == Asked(c) /\ Invoke(c)
<1>1. PICK c : Goes(c)
  BY DEF PathCommands, Ask, NoCommand, Asked
<1> QED BY <1>1, InvokeStep

-------------------------------------------------------------------------------
(***************************************************************************)
(* The steps of a command that runs.                                       *)
(***************************************************************************)
LEMMA ContextStep ==
  ASSUME Inv, Kill \/ LoadContext \/ LoadContextFails \/ Resolve PROVE Inv'
BY DEF Inv, Finding, Untouched, NotFoundChangesNothing, Running, stores, At, Exit,
       Kill, LoadContext, LoadContextFails, Resolve

LEMMA VisitStep ==
  ASSUME Inv, AllVisited \/ OpenFails \/ List \/ ListBroken \/ Scan \/ Compact \/ CompactBroken
  PROVE  Inv'
BY DEF Inv, Finding, Untouched, NotFoundChangesNothing, Running, stores, At, Exit, Goto,
       Continue, Visiting, Opened, AllVisited, OpenFails, List, ListBroken, Scan, Compact,
       CompactBroken

\* A get is over, and has changed nothing whatever it says.
LEMMA LookupStep == ASSUME Inv, Lookup PROVE Inv'
BY DEF Inv, Finding, Untouched, NotFoundChangesNothing, Running, stores, At, Exit,
       Visiting, Opened, Lookup

LEMMA SetStep == ASSUME Inv, Set \/ SetFails PROVE Inv'
BY DEF Inv, Finding, Untouched, NotFoundChangesNothing, Running, stores, At, Exit, Goto,
       Visiting, Opened, Set, SetFails

\* What a delete takes out of an area, it has found.
LEMMA DeleteStep == ASSUME Inv, Delete \/ DeleteNothing \/ DeleteFails PROVE Inv'
BY DEF Inv, Finding, Untouched, NotFoundChangesNothing, Running, stores, At, Exit, Goto,
       Visiting, Opened, Delete, DeleteNothing, DeleteFails

LEMMA FlushStep == ASSUME Inv, Flush \/ FlushFails PROVE Inv'
BY DEF Inv, Finding, Untouched, NotFoundChangesNothing, Running, stores, At, Exit, Goto,
       Continue, Specific, Flush, FlushFails

\* Only here is a del that found nothing in an area still at work.
LEMMA FileStep ==
  ASSUME Inv, LoadFails \/ FileGet \/ FileList \/ FileSet \/ FileDelete PROVE Inv'
BY DEF Inv, Finding, Untouched, NotFoundChangesNothing, Running, stores, At, Exit,
       Loads, LoadFails, FileGet, FileList, FileSet, FileDelete

LEMMA SaveStep == ASSUME Inv, Save \/ SaveFails PROVE Inv'
BY DEF Inv, Finding, Untouched, NotFoundChangesNothing, Running, stores, At, Exit,
       Save, SaveFails

LEMMA InvNext == ASSUME Inv, [Next]_vars PROVE Inv'
<1>1. CASE UNCHANGED vars
  BY <1>1 DEF Inv, Finding, Untouched, NotFoundChangesNothing, Running, vars, stores
<1>2. CASE Next
  BY <1>2, KeyStep, AreaStep, PathStep, ContextStep, VisitStep, LookupStep, SetStep,
     DeleteStep, FlushStep, FileStep, SaveStep DEF Next
<1> QED BY <1>1, <1>2

(***************************************************************************)
(* A command that says that the property was not found has changed neither *)
(* an area nor the file (cmd_get, cmd_del and their area and               *)
(* persistent-file forms).                                                 *)
(***************************************************************************)
THEOREM NothingChanged == Spec => []NotFoundChangesNothing
<1>1. Init => Inv
  BY InvInit
<1>2. Inv /\ [Next]_vars => Inv'
  BY InvNext
<1>3. Inv => NotFoundChangesNothing
  BY DEF Inv, Untouched
<1> QED BY <1>1, <1>2, <1>3, PTL DEF Spec

-------------------------------------------------------------------------------
(***************************************************************************)
(* The areas and the file.                                                 *)
(***************************************************************************)
LEMMA HeldFinite ==
  ASSUME NEW props PROVE IsFiniteSet(Held(props)) /\ Cardinality(Held(props)) \in Nat
<1>1. Held(props) \subseteq Keys
  BY DEF Held
<1>2. IsFiniteSet(Held(props))
  BY <1>1, FS_Subset, KeysAssumption
<1> QED BY <1>2, FS_CardinalityType

\* A property that is there already, or that is taken away, needs no room.
LEMMA RoomKept ==
  ASSUME NEW props \in Props, NEW k \in Keys, NEW v \in Values \cup {Absent},
         v = Absent \/ props[k] # Absent
  PROVE  Cardinality(Held([props EXCEPT ![k] = v])) <= Cardinality(Held(props))
<1> DEFINE new == [props EXCEPT ![k] = v]
<1>1. Held(new) \subseteq Held(props)
  BY DEF Held, Props
<1>2. Cardinality(Held(new)) <= Cardinality(Held(props))
  BY <1>1, HeldFinite, FS_Subset
<1> QED BY <1>2

\* A property that is not there takes one place.
LEMMA RoomTaken ==
  ASSUME NEW props \in Props, NEW k \in Keys, NEW v \in Values \cup {Absent}
  PROVE  Cardinality(Held([props EXCEPT ![k] = v])) <= Cardinality(Held(props)) + 1
<1> DEFINE new == [props EXCEPT ![k] = v]
           more == Held(props) \cup {k}
<1>1. Held(new) \subseteq more
  BY DEF Held, Props
<1>2. IsFiniteSet(more) /\ Cardinality(more) <= Cardinality(Held(props)) + 1
  BY HeldFinite, FS_AddElement
<1>3. Cardinality(Held(new)) <= Cardinality(more)
  BY <1>1, <1>2, FS_Subset
<1> QED BY <1>2, <1>3, HeldFinite, FS_CardinalityType

LEMMA PropsAfter ==
  ASSUME NEW props \in Props, NEW k \in Keys, NEW v \in Values \cup {Absent}
  PROVE  /\ [props EXCEPT ![k] = v] \in Props
         /\ [props EXCEPT ![k] = v][k] = v
BY DEF Props

\* What Set and Delete make of the areas.
Put(was, p, k, v, hole) == [was EXCEPT ![p].props[k] = v, ![p].holes = hole]

LEMMA AreasChanged ==
  ASSUME NEW was, \A q \in DOMAIN was : was[q] \in Area, NEW p \in DOMAIN was,
         NEW k \in Keys, NEW v \in Values \cup {Absent}, NEW hole \in BOOLEAN,
         v = Absent \/ was[p].props[k] # Absent \/ Cardinality(Held(was[p].props)) < Capacity,
         NEW now, now = Put(was, p, k, v, hole)
  PROVE  /\ DOMAIN now = DOMAIN was
         /\ \A q \in DOMAIN now : now[q] \in Area
         /\ now[p].props[k] = v
<1> DEFINE a == was[p]
           new == [a.props EXCEPT ![k] = v]
<1>1. a \in [is : AreaKinds, props : Props, holes : BOOLEAN] /\ Cardinality(Held(a.props)) <= Capacity
  BY DEF Area
<1>2. new \in Props /\ new[k] = v
  BY <1>1, PropsAfter
<1>3. DOMAIN now = DOMAIN was /\ \A q \in DOMAIN now : q # p => now[q] = was[q]
  BY DEF Put
<1>4. now[p] = [is |-> a.is, props |-> new, holes |-> hole]
  BY <1>1 DEF Put
<1>5. Cardinality(Held(new)) <= Capacity
  <2>1. Capacity \in Nat /\ Cardinality(Held(a.props)) \in Nat /\ Cardinality(Held(new)) \in Nat
    BY BoundsAssumption, HeldFinite
  <2>2. a.props \in Props
    BY <1>1
  <2>3. CASE v = Absent \/ a.props[k] # Absent
    BY <2>1, <2>2, <2>3, <1>1, RoomKept
  <2>4. CASE Cardinality(Held(a.props)) < Capacity
    BY <2>1, <2>2, <2>4, RoomTaken
  <2> QED BY <2>3, <2>4
<1>6. now[p] \in Area
  BY <1>1, <1>2, <1>4, <1>5 DEF Area
<1> QED BY <1>2, <1>3, <1>4, <1>6

LEMMA HolesFilled ==
  ASSUME NEW was, \A q \in DOMAIN was : was[q] \in Area, NEW p \in DOMAIN was,
         NEW now, now = [was EXCEPT ![p].holes = FALSE]
  PROVE  /\ DOMAIN now = DOMAIN was
         /\ \A q \in DOMAIN now : now[q] \in Area
BY DEF Area

-------------------------------------------------------------------------------
(***************************************************************************)
(* Both stores.  A command that goes by the key changes the area of that   *)
(* key first; what it brings to the file is what that area then holds.     *)
(***************************************************************************)
Landed(k) == RouteOf(k) \in DOMAIN areas /\ areas[RouteOf(k)].props[k] = cmd.val

\* By the key come get, set and del; the last two have changed the area, or found that
\* there is nothing to change, when they get to the flush and to the file.
Heading ==
  \A k \in Keys : cmd.via = "route" /\ cmd.key = k =>
    /\ cmd.op \in {"get", "set", "del"}
    /\ cmd.op = "get" => ~cmd.flag
    /\ cmd.op = "del" => cmd.val = Absent
    /\ cmd.pc \in {"area", "flush"} => cmd.todo = <<RouteOf(k)>>
    /\ cmd.pc \in {"flush", "file", "save"} => cmd.op # "get" /\ Landed(k)
    /\ cmd.pc = "save" => cmd.props[k] = cmd.val

Carried == cmd.pc = "save" => cmd.props \in Props

\* BothStoresAgree, for a key that does not change.
Agreed ==
  \A k \in Keys :
    ~Running /\ exit = "ok" /\ cmd.op \in {"set", "del"} /\ Persistent /\ cmd.key = k =>
      Landed(k) /\ pfile.props[k] = cmd.val

Works == IsCommand(cmd) /\ TypeOK /\ Carried /\ Heading /\ Agreed

LEMMA SameRoute == ASSUME UNCHANGED storage, NEW k PROVE RouteOf(k)' = RouteOf(k)
BY DEF RouteOf, context_file_path, Route

LEMMA WorksInit == ASSUME Init PROVE Works
<1>1. PICK d \in Devices : areas = d.areas /\ pfile = d.pfile /\ left = d.calls
  BY DEF Init
<1>2. SomeKey \in Keys
  BY KeysAssumption DEF SomeKey
<1>3. cmd = NoCommand /\ exit = "none" /\ kills = 0 /\ faults = 0
  BY DEF Init
<1>4. /\ \A p \in DOMAIN areas : areas[p] \in Area
      /\ pfile \in Pfile /\ left \in Nat
  BY <1>1, DevicesAssumption
<1>5. IsCommand(cmd) /\ cmd.pc = "exited" /\ cmd.via = "none" /\ cmd.key \in Keys /\ cmd.val = Absent
  BY <1>2, <1>3 DEF NoCommand
<1>6. TypeOK
  BY <1>3, <1>4, <1>5, BoundsAssumption DEF TypeOK, Running
<1> QED BY <1>3, <1>5, <1>6 DEF Works, Carried, Heading, Agreed, Persistent

\* A command as it is given.
Proper(c) ==
  /\ IsCommand(c) /\ c.key \in Keys /\ c.val \in Values \cup {Absent}
  /\ c.via = "route" => /\ c.op \in {"get", "set", "del"}
                        /\ c.op = "get" => ~c.flag
                        /\ c.op = "del" => c.val = Absent

LEMMA WorksInvoke == ASSUME Works, NEW c, Proper(c), Invoke(c) PROVE Works'
<1>1. PICK pc \in {"file", "area", "context"} :
        cmd' = [c EXCEPT !.pc = pc] /\ (c.via = "route" => pc = "context")
  <2>1. CASE c.via = "file"
    BY <2>1 DEF Invoke
  <2>2. CASE c.via = "path"
    BY <2>2 DEF Invoke
  <2>3. CASE c.via \notin {"file", "path"}
    BY <2>3 DEF Invoke
  <2> QED BY <2>1, <2>2, <2>3
<1>2. IsCommand(cmd)' /\ Carried' /\ Heading' /\ Agreed'
  BY <1>1 DEF Proper, Carried, Heading, Agreed, Running
<1>3. /\ cmd'.pc \in {"file", "area", "context"} /\ cmd'.key \in Keys
      /\ cmd'.val \in Values \cup {Absent}
  BY <1>1 DEF Proper
<1>4. /\ UNCHANGED <<areas, pfile, kills, faults>> /\ exit' = "none"
      /\ left > 0 /\ left' = left - 1
  BY DEF Invoke, stores
<1>5. TypeOK'
  BY <1>3, <1>4 DEF Works, TypeOK, Running
<1> QED BY <1>2, <1>5 DEF Works

LEMMA WorksKey == ASSUME Works, KeyCommands PROVE Works'
<1> DEFINE Goes(c) == Proper(c) /\ Invoke(c)
<1>1. PICK c : Goes(c)
  BY KeysAssumption DEF KeyCommands, Ask, NoCommand, Proper
<1> QED BY <1>1, WorksInvoke

LEMMA WorksArea == ASSUME Works, AreaCommands PROVE Works'
<1> DEFINE Goes(c) == Proper(c) /\ Invoke(c)
<1>1. SomeKey \in Keys
  BY KeysAssumption DEF SomeKey
<1>2. PICK c : Goes(c)
  BY <1>1 DEF AreaCommands, Ask, NoCommand, Proper
<1> QED BY <1>2, WorksInvoke

LEMMA WorksPath == ASSUME Works, PathCommands PROVE Works'
<1> DEFINE Goes(c) == Proper(c) /\ Invoke(c)
<1>1. SomeKey \in Keys
  BY KeysAssumption DEF SomeKey
<1>2. PICK c : Goes(c)
  BY <1>1 DEF PathCommands, Ask, NoCommand, Proper
<1> QED BY <1>2, WorksInvoke

\* A command that ends without having worked on both stores promises nothing of them.
LEMMA WorksExit ==
  ASSUME Works, NEW how \in {"ok", "notfound", "error", "killed"}, Exit(how),
         UNCHANGED <<areas, pfile, left>>, kills' \in 0..MaxKills, faults' \in 0..MaxFaults,
         how = "ok" => cmd.op \notin {"set", "del"} \/ ~Persistent
  PROVE  Works'
<1>1. cmd' = [cmd EXCEPT !.pc = "exited", !.todo = <<>>] /\ exit' = how
  BY DEF Exit
<1>2. /\ IsCommand(cmd)' /\ cmd'.pc = "exited" /\ cmd'.key = cmd.key /\ cmd'.val = cmd.val
      /\ cmd'.op = cmd.op /\ cmd'.via = cmd.via /\ cmd'.flag = cmd.flag
  BY <1>1 DEF Works
<1>3. TypeOK'
  BY <1>1, <1>2, BoundsAssumption DEF Works, TypeOK, Running
<1>4. Carried' /\ Heading'
  BY <1>2 DEF Works, Carried, Heading
<1>5. Agreed'
  BY <1>1, <1>2 DEF Agreed, Persistent, Under
<1> QED BY <1>2, <1>3, <1>4, <1>5 DEF Works

\* One that fails promises nothing, whatever it leaves.
LEMMA WorksFails ==
  ASSUME Works, NEW how \in {"error", "killed"}, Exit(how), UNCHANGED left,
         \A q \in DOMAIN areas' : areas'[q] \in Area, pfile' \in Pfile,
         kills' \in 0..MaxKills, faults' \in 0..MaxFaults
  PROVE  Works'
<1>1. /\ IsCommand(cmd)' /\ cmd'.pc = "exited" /\ cmd'.key = cmd.key /\ cmd'.val = cmd.val
      /\ cmd'.op = cmd.op /\ cmd'.via = cmd.via /\ cmd'.flag = cmd.flag /\ exit' = how
  BY DEF Works, Exit
<1>2. TypeOK'
  BY <1>1 DEF Works, TypeOK, Running
<1> QED BY <1>1, <1>2 DEF Works, Carried, Heading, Agreed

\* The command as it goes on.
GoesOn(pc, todo) ==
  /\ IsCommand(cmd)' /\ cmd'.pc = pc /\ cmd'.todo = todo
  /\ cmd'.key = cmd.key /\ cmd'.val = cmd.val /\ cmd'.op = cmd.op
  /\ cmd'.via = cmd.via /\ cmd'.flag = cmd.flag

LEMMA WorksGoto ==
  ASSUME Works, Running, NEW pc \in {"area", "flush", "file"}, NEW todo, GoesOn(pc, todo),
         UNCHANGED <<storage, areas, pfile, exit, left>>,
         kills' \in 0..MaxKills, faults' \in 0..MaxFaults,
         cmd.via = "route" =>
           /\ pc = "file" \/ todo = <<RouteOf(cmd.key)>>
           /\ pc # "area" => cmd.op # "get" /\ Landed(cmd.key)
  PROVE  Works'
<1>1. /\ IsCommand(cmd)' /\ cmd'.pc = pc /\ cmd'.key = cmd.key /\ cmd'.val = cmd.val
      /\ cmd'.op = cmd.op /\ cmd'.via = cmd.via /\ cmd'.flag = cmd.flag /\ cmd'.todo = todo
  BY DEF GoesOn
<1>2. TypeOK'
  BY <1>1, BoundsAssumption DEF Works, TypeOK, Running
<1>3. Carried' /\ Agreed'
  BY <1>1 DEF Works, Carried, Agreed, Running
<1>4. Heading'
  BY <1>1, SameRoute DEF Works, Heading, Landed
<1> QED BY <1>1, <1>2, <1>3, <1>4 DEF Works

\* The bounds that most steps leave as they are.
LEMMA SameCounts ==
  ASSUME Works, UNCHANGED counts
  PROVE  UNCHANGED left /\ kills' \in 0..MaxKills /\ faults' \in 0..MaxFaults
BY DEF Works, TypeOK, counts

LEMMA OneMoreFault ==
  ASSUME Works, Fault
  PROVE  UNCHANGED left /\ kills' \in 0..MaxKills /\ faults' \in 0..MaxFaults
BY BoundsAssumption DEF Works, TypeOK, Fault

LEMMA LostIsAFile == Lost \in Pfile
BY DEF Lost, Pfile, Props, NoProps

LEMMA WorksContext == ASSUME Works, Kill \/ LoadContext \/ LoadContextFails \/ Resolve PROVE Works'
<1>1. CASE Kill
  <2>1. kills' \in 0..MaxKills /\ faults' \in 0..MaxFaults
    BY <1>1, BoundsAssumption DEF Works, TypeOK, Kill
  <2>2. Exit("killed") /\ UNCHANGED <<areas, left>> /\ (pfile' = pfile \/ pfile' = Lost)
    BY <1>1 DEF Kill
  <2>3. pfile' \in Pfile /\ \A q \in DOMAIN areas' : areas'[q] \in Area
    BY <2>2, LostIsAFile DEF Works, TypeOK
  <2> QED BY <2>1, <2>2, <2>3, WorksFails
<1>2. CASE LoadContext
  <2>1. cmd.pc = "context" /\ UNCHANGED <<areas, pfile, cmd, exit, left, kills, faults>>
    BY <1>2 DEF LoadContext, At, stores, counts
  <2>2. TypeOK' /\ IsCommand(cmd)' /\ Carried' /\ Agreed'
    BY <2>1 DEF Works, TypeOK, Running, Carried, Agreed
  <2>3. Heading'
    BY <2>1 DEF Works, Heading
  <2> QED BY <2>2, <2>3 DEF Works
<1>3. CASE LoadContextFails
  BY <1>3, SameCounts, WorksExit DEF LoadContextFails, stores
<1>4. CASE Resolve
  <2>1. PICK todo : /\ cmd' = [cmd EXCEPT !.pc = "area", !.todo = todo]
                    /\ cmd.via = "route" => todo = <<RouteOf(cmd.key)>>
    <3>1. CASE cmd.via = "route"
      BY <1>4, <3>1 DEF Resolve
    <3>2. CASE cmd.via = "all"
      BY <1>4, <3>2 DEF Resolve
    <3>3. CASE cmd.via \notin {"route", "all"}
      BY <1>4, <3>3 DEF Resolve
    <3> QED BY <3>1, <3>2, <3>3
  <2>2. GoesOn("area", todo)
    BY <2>1 DEF Works, GoesOn
  <2>3. Running /\ UNCHANGED <<storage, areas, pfile, exit>>
    BY <1>4 DEF Resolve, Running, At, stores, contextVars
  <2>4. UNCHANGED left /\ kills' \in 0..MaxKills /\ faults' \in 0..MaxFaults
    BY <1>4, SameCounts DEF Resolve
  <2> QED BY <2>1, <2>2, <2>3, <2>4, WorksGoto
<1> QED BY <1>1, <1>2, <1>3, <1>4

\* By the key, an area is the one that the key leads to.
LEMMA OwnArea ==
  ASSUME Works, At("area") \/ At("flush"), cmd.via = "route"
  PROVE  path = RouteOf(cmd.key) /\ cmd.todo = <<RouteOf(cmd.key)>>
BY DEF Works, Heading, TypeOK, At, path

LEMMA WorksContinue ==
  ASSUME Works, Running, Continue, ~(cmd.via = "route"), UNCHANGED <<contextVars, stores, counts>>
  PROVE  Works'
<1>1. GoesOn("area", Tail(cmd.todo)) /\ UNCHANGED exit
  BY DEF Works, GoesOn, Continue
<1>2. UNCHANGED left /\ kills' \in 0..MaxKills /\ faults' \in 0..MaxFaults
  BY SameCounts
<1>3. UNCHANGED <<storage, areas, pfile>>
  BY DEF contextVars, stores
<1> QED BY <1>1, <1>2, <1>3, WorksGoto

LEMMA WorksVisit ==
  ASSUME Works, AllVisited \/ OpenFails \/ List \/ ListBroken \/ Scan \/ CompactBroken
  PROVE  Works'
<1>1. UNCHANGED <<contextVars, stores, counts>> /\ Running /\ At("area")
  BY DEF AllVisited, OpenFails, List, ListBroken, Scan, CompactBroken, Opened, Visiting, At, Running
<1>2. CASE Continue /\ ~(cmd.via = "route")
  BY <1>1, <1>2, WorksContinue
<1>3. CASE \E how \in {"ok", "error"} :
             Exit(how) /\ (how = "ok" => cmd.todo = <<>> \/ cmd.op = "dump")
  <2>1. PICK how \in {"ok", "error"} :
             Exit(how) /\ (how = "ok" => cmd.todo = <<>> \/ cmd.op = "dump")
    BY <1>3
  <2>2. how = "ok" => cmd.op \notin {"set", "del"} \/ ~Persistent
    <3>1. CASE cmd.via = "route"
      <4>1. cmd.todo # <<>>
        <5>1. \A x : <<x>> # <<>>
          OBVIOUS
        <5> QED BY <1>1, <3>1, <5>1, OwnArea
      <4> QED BY <2>1, <4>1
    <3>2. CASE ~(cmd.via = "route")
      BY <3>2 DEF Persistent
    <3> QED BY <3>1, <3>2
  <2> QED BY <1>1, <2>1, <2>2, SameCounts, WorksExit DEF stores
<1>4. CASE List
  <2>1. ~(cmd.via = "route")
    BY <1>4 DEF Works, Heading, TypeOK, List
  <2>2. GoesOn("area", Tail(cmd.todo)) /\ UNCHANGED exit
    BY <1>1, <1>4 DEF Works, GoesOn, List, At
  <2> QED BY <1>1, <2>1, <2>2, SameCounts, WorksGoto DEF contextVars, stores
<1>5. OpenFails \/ ListBroken \/ Scan \/ CompactBroken => <1>2!1 \/ <1>3!1
  BY <1>1 DEF OpenFails, ListBroken, Scan, CompactBroken, Specific, Works, Heading, TypeOK, Opened
<1>6. AllVisited => <1>3!1
  BY DEF AllVisited
<1> QED BY <1>2, <1>3, <1>4, <1>5, <1>6

LEMMA WorksLookup == ASSUME Works, Lookup PROVE Works'
<1>1. PICK how \in {"ok", "notfound", "error"} : Exit(how)
  BY DEF Lookup
<1>2. UNCHANGED stores /\ UNCHANGED counts /\ cmd.op = "get"
  BY DEF Lookup, Opened
<1> QED BY <1>1, <1>2, SameCounts, WorksExit DEF stores

LEMMA WorksCompact == ASSUME Works, Compact PROVE Works'
<1>1. At("area") /\ path \in DOMAIN areas /\ cmd.op = "compact" /\ Goto("flush")
  BY DEF Compact, Opened, Visiting, Opens, Missing
<1>2. areas' = [areas EXCEPT ![path].holes = FALSE] /\ UNCHANGED <<pfile, exit, counts>>
  BY DEF Compact, Goto
<1>3. \A q \in DOMAIN areas' : areas'[q] \in Area
  BY <1>1, <1>2, HolesFilled DEF Works, TypeOK
<1>4. GoesOn("flush", cmd.todo)
  BY <1>1 DEF Works, GoesOn, Goto
<1>5. ~(cmd.via = "route")
  BY <1>1 DEF Works, Heading, TypeOK
<1>6. UNCHANGED left /\ kills' \in 0..MaxKills /\ faults' \in 0..MaxFaults
  BY <1>2, SameCounts
<1>7. TypeOK'
  BY <1>2, <1>3, <1>4, <1>6, <1>1 DEF Works, TypeOK, GoesOn, Running, At
<1> QED BY <1>4, <1>5, <1>7 DEF Works, Carried, Heading, Agreed, GoesOn, Running

\* Set and Delete put the value into the area that is at the head of todo.
LEMMA WorksPut ==
  ASSUME Works, At("area"), path \in DOMAIN areas, cmd.op # "get",
         NEW v \in Values \cup {Absent}, cmd.via = "route" => v = cmd.val,
         v = Absent \/ area.props[cmd.key] # Absent \/ Cardinality(Held(area.props)) < Capacity,
         NEW hole \in BOOLEAN,
         areas' = [areas EXCEPT ![path].props[cmd.key] = v, ![path].holes = hole],
         GoesOn("flush", cmd.todo), UNCHANGED <<contextVars, pfile, exit, counts>>
  PROVE  Works'
<1>1. cmd.key \in Keys
  BY DEF Works, TypeOK
<1>2. /\ DOMAIN areas' = DOMAIN areas
      /\ \A q \in DOMAIN areas' : areas'[q] \in Area
      /\ areas'[path].props[cmd.key] = v
  <2> DEFINE now == areas'
  <2>1. \A q \in DOMAIN areas : areas[q] \in Area
    BY DEF Works, TypeOK
  <2> HIDE DEF now
  <2>2. now = Put(areas, path, cmd.key, v, hole)
    BY DEF now, Put
  <2>3. v = Absent \/ areas[path].props[cmd.key] # Absent
        \/ Cardinality(Held(areas[path].props)) < Capacity
    BY DEF area
  <2>4. /\ DOMAIN now = DOMAIN areas
        /\ \A q \in DOMAIN now : now[q] \in Area
        /\ now[path].props[cmd.key] = v
    BY <1>1, <2>1, <2>2, <2>3, AreasChanged
  <2> QED BY <2>4 DEF now
<1>3. UNCHANGED left /\ kills' \in 0..MaxKills /\ faults' \in 0..MaxFaults
  BY SameCounts
<1>4. TypeOK'
  BY <1>2, <1>3 DEF Works, TypeOK, GoesOn, Running, At
<1>5. cmd.via = "route" => path = RouteOf(cmd.key) /\ cmd.todo = <<RouteOf(cmd.key)>>
  BY OwnArea
<1>6. Heading'
  <2> SUFFICES ASSUME NEW k \in Keys, cmd'.via = "route" /\ cmd'.key = k
               PROVE  Heading!(k)!2'
    BY DEF Heading
  <2>1. cmd.via = "route" /\ cmd.key = k /\ RouteOf(k)' = RouteOf(k)
    BY SameRoute DEF GoesOn, contextVars
  <2>2. Landed(k)' /\ cmd'.todo = <<RouteOf(k)>>
    BY <1>2, <1>5, <2>1 DEF Landed, GoesOn
  <2> QED BY <2>1, <2>2 DEF Works, Heading, GoesOn
<1>7. Carried' /\ Agreed' /\ IsCommand(cmd)'
  BY DEF Carried, Agreed, GoesOn, Running
<1> QED BY <1>4, <1>6, <1>7 DEF Works

LEMMA WorksSet == ASSUME Works, Set PROVE Works'
<1>1. /\ At("area") /\ path \in DOMAIN areas /\ cmd.op = "set" /\ Goto("flush") /\ HasRoom
      /\ UNCHANGED <<contextVars, pfile, counts>>
  BY DEF Set, Opened, Visiting, Opens, Missing
<1>2. PICK hole \in {area.holes, area.holes \/ area.props[cmd.key] # Absent} :
        areas' = [areas EXCEPT ![path].props[cmd.key] = cmd.val, ![path].holes = hole]
  BY DEF Set
<1>3. area.holes \in BOOLEAN
  BY <1>1 DEF Works, TypeOK, area, Area
<1>4. hole \in BOOLEAN
  BY <1>2, <1>3
<1>5. cmd.val \in Values \cup {Absent}
  BY DEF Works, TypeOK
<1>6. GoesOn("flush", cmd.todo) /\ UNCHANGED exit
  BY <1>1 DEF Works, GoesOn, Goto
<1>7. area.props[cmd.key] # Absent \/ Cardinality(Held(area.props)) < Capacity
  BY <1>1 DEF HasRoom
<1> QED BY <1>1, <1>2, <1>4, <1>5, <1>6, <1>7, WorksPut

LEMMA WorksDelete == ASSUME Works, Delete PROVE Works'
<1>1. /\ At("area") /\ path \in DOMAIN areas /\ cmd.op = "del"
      /\ UNCHANGED <<contextVars, exit, pfile, counts>>
      /\ cmd' = [cmd EXCEPT !.pc = "flush", !.found = TRUE]
  BY DEF Delete, Opened, Visiting, Opens, Missing
<1>2. PICK hole \in BOOLEAN :
        areas' = [areas EXCEPT ![path].props[cmd.key] = Absent, ![path].holes = hole]
  BY DEF Delete
<1>3. GoesOn("flush", cmd.todo)
  BY <1>1 DEF Works, GoesOn
<1>4. cmd.via = "route" => cmd.val = Absent
  BY <1>1 DEF Works, Heading, TypeOK
<1> QED BY <1>1, <1>2, <1>3, <1>4, WorksPut

\* By the key, an area without the property is what a del wants it to be.
LEMMA WorksDeleteNothing == ASSUME Works, DeleteNothing PROVE Works'
<1>1. /\ At("area") /\ path \in DOMAIN areas /\ cmd.op = "del" /\ area.props[cmd.key] = Absent
      /\ UNCHANGED <<contextVars, stores, counts>> /\ Running
  BY DEF DeleteNothing, Opened, Visiting, Opens, Missing, At, Running
<1>2. CASE Exit("notfound")
  BY <1>1, <1>2, SameCounts, WorksExit DEF stores
<1>3. CASE Goto("flush")
  <2>1. GoesOn("flush", cmd.todo) /\ UNCHANGED exit
    BY <1>1, <1>3 DEF Works, GoesOn, Goto
  <2>2. cmd.via = "route" => cmd.todo = <<RouteOf(cmd.key)>> /\ Landed(cmd.key)
    BY <1>1, OwnArea DEF Works, Heading, TypeOK, Landed, area
  <2> QED BY <1>1, <2>1, <2>2, SameCounts, WorksGoto DEF stores, contextVars
<1> QED BY <1>2, <1>3 DEF DeleteNothing

\* A key that is detached leaves an area of the same kind.
LEMMA WorksDetached ==
  ASSUME Works, path \in DOMAIN areas, UNCHANGED areas \/ Detach
  PROVE  \A q \in DOMAIN areas' : areas'[q] \in Area
<1>1. (\A q \in DOMAIN areas : areas[q] \in Area) /\ cmd.key \in Keys
  BY DEF Works, TypeOK
<1>2. CASE UNCHANGED areas
  BY <1>1, <1>2
<1>3. CASE Detach
  <2>1. ASSUME NEW now, NEW p \in DOMAIN areas, NEW k \in Keys,
               now = Put(areas, p, k, Absent, TRUE)
        PROVE  \A q \in DOMAIN now : now[q] \in Area
    BY <1>1, <2>1, AreasChanged
  <2>2. areas' = Put(areas, path, cmd.key, Absent, TRUE)
    BY <1>3 DEF Detach, Put
  <2> QED BY <1>1, <2>1, <2>2
<1> QED BY <1>2, <1>3

LEMMA WorksDeleteOrSetFails == ASSUME Works, DeleteFails \/ SetFails PROVE Works'
<1>1. /\ path \in DOMAIN areas /\ (UNCHANGED areas \/ Detach)
      /\ Exit("error") /\ UNCHANGED <<pfile, counts>>
  BY DEF DeleteFails, SetFails, Opened, Visiting, Opens, Missing
<1>2. pfile' \in Pfile
  BY <1>1 DEF Works, TypeOK
<1> QED BY <1>1, <1>2, WorksDetached, SameCounts, WorksFails

LEMMA WorksFlush == ASSUME Works, Flush \/ FlushFails PROVE Works'
<1>1. At("flush") /\ Running /\ UNCHANGED <<contextVars, stores>>
  BY DEF Flush, FlushFails, At, Running
<1>2. UNCHANGED left /\ kills' \in 0..MaxKills /\ faults' \in 0..MaxFaults
  BY SameCounts, OneMoreFault DEF Flush, FlushFails
<1>3. CASE Continue /\ ~(cmd.via = "route")
  <2>1. GoesOn("area", Tail(cmd.todo)) /\ UNCHANGED exit
    BY <1>3 DEF Works, GoesOn, Continue
  <2>2. UNCHANGED <<storage, areas, pfile>>
    BY <1>1 DEF contextVars, stores
  <2> QED BY <1>1, <1>2, <1>3, <2>1, <2>2, WorksGoto
<1>4. CASE Goto("file")
  <2>1. GoesOn("file", cmd.todo) /\ UNCHANGED exit
    BY <1>1, <1>4 DEF Works, GoesOn, Goto
  <2>2. cmd.via = "route" => cmd.op # "get" /\ Landed(cmd.key)
    BY <1>1 DEF Works, Heading, TypeOK, At
  <2> QED BY <1>1, <1>2, <2>1, <2>2, WorksGoto DEF contextVars, stores
<1>5. CASE Exit("error") \/ (Exit("ok") /\ ~Persistent)
  BY <1>1, <1>2, <1>5, WorksExit DEF stores
<1>6. CASE Flush
  <2>1. cmd.op = "compact" => ~(cmd.via = "route")
    BY DEF Works, Heading, TypeOK
  <2>2. CASE cmd.op = "compact"
    <3>1. ~Persistent
      BY <2>1, <2>2 DEF Persistent
    <3>2. Continue
      BY <1>6, <2>2, <3>1 DEF Flush
    <3> QED BY <1>3, <2>1, <2>2, <3>2
  <2>3. CASE cmd.op # "compact" /\ Persistent
    BY <1>4, <1>6, <2>3 DEF Flush
  <2>4. CASE cmd.op # "compact" /\ ~Persistent
    BY <1>5, <1>6, <2>4 DEF Flush
  <2> QED BY <2>2, <2>3, <2>4
<1>7. CASE FlushFails
  <2>1. ~Specific => ~(cmd.via = "route")
    BY DEF Specific
  <2>2. CASE Specific
    <3>1. Exit("error")
      BY <1>7, <2>2 DEF FlushFails
    <3> QED BY <1>5, <3>1
  <2>3. CASE ~Specific
    BY <1>3, <1>7, <2>1, <2>3 DEF FlushFails
  <2> QED BY <2>2, <2>3
<1> QED BY <1>6, <1>7

LEMMA WorksFileEnds == ASSUME Works, LoadFails \/ FileGet \/ FileList PROVE Works'
<1>1. UNCHANGED <<stores, counts>> /\ Running /\ At("file")
  BY DEF LoadFails, FileGet, FileList, Loads, At, Running
<1>2. PICK how \in {"ok", "notfound", "error"} :
        Exit(how) /\ (how = "ok" => cmd.op \notin {"set", "del"})
  BY DEF LoadFails, FileGet, FileList
<1> QED BY <1>1, <1>2, SameCounts, WorksExit DEF stores

LEMMA WorksFile == ASSUME Works, FileSet \/ FileDelete PROVE Works'
<1>1. At("file") /\ UNCHANGED <<contextVars, stores, counts>>
  BY DEF FileSet, FileDelete, Loads
<1>2. CASE Exit("notfound")
  BY <1>1, <1>2, SameCounts, WorksExit DEF stores
<1>3. CASE \E v \in Values \cup {Absent} :
        /\ (cmd.via = "route" => v = cmd.val) /\ UNCHANGED exit
        /\ cmd' = [cmd EXCEPT !.pc = "save", !.props = [pfile.props EXCEPT ![cmd.key] = v]]
  <2>1. PICK v \in Values \cup {Absent} :
          /\ (cmd.via = "route" => v = cmd.val) /\ UNCHANGED exit
          /\ cmd' = [cmd EXCEPT !.pc = "save", !.props = [pfile.props EXCEPT ![cmd.key] = v]]
    BY <1>3
  <2> DEFINE new == [pfile.props EXCEPT ![cmd.key] = v]
  <2>2. new \in Props /\ new[cmd.key] = v
    BY PropsAfter DEF Works, TypeOK, Pfile
  <2> HIDE DEF new
  <2>3. cmd' = [cmd EXCEPT !.pc = "save", !.props = new]
    BY <2>1 DEF new
  <2>4. GoesOn("save", cmd.todo) /\ cmd'.props = new
    BY <2>3 DEF Works, GoesOn
  <2>5. UNCHANGED <<storage, areas, pfile, left, kills, faults>>
    BY <1>1 DEF contextVars, stores, counts
  <2>6. TypeOK' /\ Carried' /\ Agreed' /\ IsCommand(cmd)'
    BY <1>1, <2>1, <2>2, <2>4, <2>5
       DEF Works, TypeOK, Carried, Agreed, GoesOn, Running, At
  <2>7. Heading'
    <3> SUFFICES ASSUME NEW k \in Keys, cmd'.via = "route" /\ cmd'.key = k
                 PROVE  Heading!(k)!2'
      BY DEF Heading
    <3>1. cmd.via = "route" /\ cmd.key = k /\ RouteOf(k)' = RouteOf(k)
      BY <2>4, <2>5, SameRoute DEF GoesOn
    <3>2. Heading!(k)!2
      BY <3>1 DEF Works, Heading
    <3>3. Landed(k)'
      BY <1>1, <2>4, <2>5, <3>1, <3>2 DEF Landed, GoesOn, At
    <3> QED BY <1>1, <2>1, <2>2, <2>4, <3>1, <3>2, <3>3 DEF GoesOn, At
  <2> QED BY <2>6, <2>7 DEF Works
<1>4. CASE FileSet
  <2>1. cmd.val \in Values \cup {Absent}
    BY DEF Works, TypeOK
  <2>2. /\ UNCHANGED exit
        /\ cmd' = [cmd EXCEPT !.pc = "save", !.props = [pfile.props EXCEPT ![cmd.key] = cmd.val]]
    BY <1>4 DEF FileSet
  <2> QED BY <1>3, <2>1, <2>2
<1>5. CASE FileDelete
  <2>1. cmd.via = "route" => cmd.val = Absent
    BY <1>5 DEF FileDelete, Works, Heading, TypeOK
  <2>2. \/ Exit("notfound")
        \/ /\ UNCHANGED exit
           /\ cmd' = [cmd EXCEPT !.pc = "save", !.props = [pfile.props EXCEPT ![cmd.key] = Absent]]
    BY <1>5 DEF FileDelete
  <2> QED BY <1>2, <1>3, <2>1, <2>2
<1> QED BY <1>4, <1>5

\* The file gets what the area holds, and it is the value that was asked for.
LEMMA WorksSave == ASSUME Works, Save PROVE Works'
<1>1. /\ At("save") /\ pfile' = [is |-> "ok", props |-> cmd.props] /\ Exit("ok")
      /\ UNCHANGED <<contextVars, areas, counts>>
  BY DEF Save
<1>2. /\ IsCommand(cmd)' /\ cmd'.pc = "exited" /\ cmd'.key = cmd.key /\ cmd'.val = cmd.val
      /\ cmd'.op = cmd.op /\ cmd'.via = cmd.via /\ cmd'.flag = cmd.flag /\ exit' = "ok"
  BY <1>1 DEF Works, Exit
<1>3. pfile' \in Pfile /\ pfile'.props = cmd.props
  BY <1>1 DEF Works, Carried, At, Pfile
<1>4. UNCHANGED left /\ kills' \in 0..MaxKills /\ faults' \in 0..MaxFaults
  BY <1>1, SameCounts
<1>5. TypeOK'
  BY <1>1, <1>2, <1>3, <1>4 DEF Works, TypeOK, Running
<1>6. Carried' /\ Heading'
  BY <1>2 DEF Works, Carried, Heading
<1>7. Agreed'
  <2> SUFFICES ASSUME NEW k \in Keys, Persistent', cmd'.key = k
               PROVE  Landed(k)' /\ pfile'.props[k] = cmd'.val
    BY DEF Agreed
  <2>1. cmd.via = "route" /\ cmd.key = k
    BY <1>2 DEF Persistent
  <2>2. Landed(k) /\ cmd.props[k] = cmd.val
    BY <1>1, <2>1 DEF Works, Heading, At
  <2>3. RouteOf(k)' = RouteOf(k) /\ UNCHANGED areas
    BY <1>1, SameRoute DEF contextVars
  <2> QED BY <1>2, <1>3, <2>2, <2>3 DEF Landed
<1> QED BY <1>2, <1>5, <1>6, <1>7 DEF Works

LEMMA WorksSaveFails == ASSUME Works, SaveFails PROVE Works'
<1>1. UNCHANGED areas /\ pfile' \in {pfile, Lost} /\ Exit("error") /\ Fault
  BY DEF SaveFails
<1>2. pfile' \in Pfile /\ \A q \in DOMAIN areas' : areas'[q] \in Area
  BY <1>1, LostIsAFile DEF Works, TypeOK
<1> QED BY <1>1, <1>2, OneMoreFault, WorksFails

LEMMA WorksNext == ASSUME Works, [Next]_vars PROVE Works'
<1>1. CASE UNCHANGED vars
  <2>1. UNCHANGED <<storage, areas, pfile, cmd, exit, left, kills, faults>>
    BY <1>1 DEF vars, contextVars, stores, counts
  <2>2. TypeOK' /\ IsCommand(cmd)' /\ Carried'
    BY <2>1 DEF Works, TypeOK, Running, Carried
  <2>3. Heading'
    BY <2>1, SameRoute DEF Works, Heading, Landed
  <2>4. Agreed'
    BY <2>1, SameRoute DEF Works, Agreed, Landed, Running, Persistent, Under
  <2> QED BY <2>2, <2>3, <2>4 DEF Works
<1>2. CASE Next
  BY <1>2, WorksKey, WorksArea, WorksPath, WorksContext, WorksVisit, WorksLookup, WorksCompact,
     WorksSet, WorksDelete, WorksDeleteNothing, WorksDeleteOrSetFails, WorksFlush,
     WorksFileEnds, WorksFile, WorksSave, WorksSaveFails DEF Next
<1> QED BY <1>1, <1>2

(***************************************************************************)
(* The areas hold values of their keys, never more than fit, and no fault  *)
(* or kill leaves a command in a state that it does not come from.         *)
(***************************************************************************)
THEOREM Typed == Spec => []TypeOK
<1>1. Works => TypeOK
  BY DEF Works
<1> QED BY WorksInit, WorksNext, <1>1, PTL DEF Spec

(***************************************************************************)
(* After a set -p or del -p of a persist.* property that reports no error, *)
(* the area and the file agree about it, whatever was in either of them    *)
(* and whatever was wrong with other areas (cmd_set, cmd_del).             *)
(***************************************************************************)
THEOREM StoresAgree == Spec => []BothStoresAgree
<1>1. Works => BothStoresAgree
  BY DEF Works, Agreed, TypeOK, Landed, BothStoresAgree, Succeeded
<1> QED BY WorksInit, WorksNext, <1>1, PTL DEF Spec

\* Only a save changes the file, or loses it; a kill or a failure leaves the file behind
\* the area, never ahead (cmd_set, cmd_del).
THEOREM NeverAhead == Spec => FileFollowsArea
<1> DEFINE A == pfile' # pfile /\ pfile'.is = "ok" /\ cmd.via = "route" =>
                  pfile'.props[cmd.key] = areas[RouteOf(cmd.key)].props[cmd.key]
<1>1. ASSUME Works, [Next]_vars PROVE [A]_vars
  <2>1. CASE pfile' = pfile \/ pfile' = Lost
    BY <2>1 DEF Lost
  <2>2. CASE pfile' # pfile /\ pfile' # Lost
    <3>1. Save
      BY <1>1, <2>2 DEF Next, vars, stores, KeyCommands, AreaCommands, PathCommands, Invoke, Kill,
         LoadContext, LoadContextFails, Resolve, AllVisited, OpenFails, Lookup, List, ListBroken,
         Scan, Compact, CompactBroken, Set, SetFails, Delete, DeleteNothing, DeleteFails, Flush,
         FlushFails, LoadFails, FileGet, FileList, FileSet, FileDelete, SaveFails
    <3>2. At("save") /\ pfile'.props = cmd.props
      BY <3>1 DEF Save
    <3>3. cmd.via = "route" => /\ areas[RouteOf(cmd.key)].props[cmd.key] = cmd.val
                              /\ cmd.props[cmd.key] = cmd.val
      BY <1>1, <3>2 DEF Works, Heading, Landed, TypeOK, At
    <3> QED BY <3>2, <3>3
  <2> QED BY <2>1, <2>2
<1>2. Spec => [][A]_vars
  BY WorksInit, WorksNext, <1>1, PTL DEF Spec
<1> QED BY <1>2 DEF FileFollowsArea

-------------------------------------------------------------------------------
(***************************************************************************)
(* The rules of a Split root, as they are read line by line.               *)
(***************************************************************************)
\* What the inductions here rest on: a set of numbers has a least one, so that there is
\* no first number for which something fails.
LEMMA LeastOf ==
  ASSUME NEW T \in SUBSET Nat, T # {} PROVE \E m \in T : \A y \in T : m <= y
<1>1. PICK m \in T : \A y \in T : ~(<<y, m>> \in OpToRel(<, Nat))
  BY NatLessThanWellFounded, WFMin
<1>2. \A y \in T : ~(y < m)
  BY <1>1 DEF OpToRel
<1> QED BY <1>2

\* The lengths of the texts that the first segments make, with dots between them.
Grows(f, name, n) ==
  f \in [0..n -> Int] /\ f[0] = -1 /\ \A i \in 1..n : f[i] = f[i - 1] + 1 + Len(name[i])

\* The recursion of TextLen has a solution.
LEMMA GrowsExists ==
  ASSUME NEW name \in Seq(Seq(Nat)), NEW n \in 0..Len(name) PROVE \E f : Grows(f, name, n)
<1> DEFINE T == {m \in 0..Len(name) : ~ \E f : Grows(f, name, m)}
<1>0. Len(name) \in Nat /\ \A i \in 1..Len(name) : Len(name[i]) \in Nat
  BY LenProperties, ElementOfSeq
<1>1. SUFFICES ASSUME T # {} PROVE FALSE
  OBVIOUS
<1>2. PICK m \in T : \A y \in T : m <= y
  <2>1. T \in SUBSET Nat
    BY <1>0
  <2> HIDE DEF T
  <2> QED BY <1>1, <2>1, LeastOf
<1>3. m # 0
  <2> DEFINE f == [i \in 0..0 |-> -1]
  <2>1. Grows(f, name, 0)
    BY DEF Grows
  <2> QED BY <2>1
<1>4. m \in 1..Len(name) /\ m - 1 \in 0..(m - 1) /\ m - 1 \in 0..Len(name)
  BY <1>0, <1>2, <1>3
<1>5. PICK f : Grows(f, name, m - 1)
  <2>1. ~(m <= m - 1)
    BY <1>4
  <2>2. m - 1 \notin T
    BY <1>2, <2>1
  <2> QED BY <1>4, <2>2
<1> DEFINE more == f[m - 1] + 1 + Len(name[m])
           g == [i \in 0..m |-> IF i < m THEN f[i] ELSE more]
<1>6. /\ f \in [0..(m - 1) -> Int] /\ f[0] = -1
      /\ \A i \in 1..(m - 1) : f[i] = f[i - 1] + 1 + Len(name[i])
  BY <1>5 DEF Grows
<1>7. more \in Int
  BY <1>0, <1>4, <1>6
<1>8. Grows(g, name, m)
  <2>1. g \in [0..m -> Int] /\ g[0] = -1
    BY <1>4, <1>6, <1>7
  <2>2. ASSUME NEW i \in 1..m PROVE g[i] = g[i - 1] + 1 + Len(name[i])
    <3>1. CASE i = m
      <4>1. g[m] = more /\ g[m - 1] = f[m - 1]
        BY <1>4
      <4> QED BY <3>1, <4>1
    <3>2. CASE i # m
      <4>1. i \in 1..(m - 1) /\ i - 1 \in 0..m /\ i \in 0..m
        BY <1>4, <3>2
      <4>2. g[i] = f[i] /\ g[i - 1] = f[i - 1]
        BY <1>4, <4>1
      <4> QED BY <1>6, <4>1, <4>2
    <3> QED BY <3>1, <3>2
  <2> QED BY <2>1, <2>2 DEF Grows
<1> QED BY <1>2, <1>8

\* The text of a prefix is not empty.
LEMMA TextLenType ==
  ASSUME NEW name \in Prefix 
  PROVE  /\ TextLen(name) \in Nat /\ TextLen(name) >= 1
         /\ Len(name) = 1 => TextLen(name) = Len(name[1])
<1> DEFINE n == Len(name)
           R(f) == f = [i \in 0..n |-> IF i = 0 THEN -1 ELSE f[i - 1] + 1 + Len(name[i])]
           upTo == CHOOSE f : R(f)
<1>1. /\ name \in Seq(Seq(Nat)) /\ n \in Nat /\ n # 0
      /\ \A i \in 1..n : Len(name[i]) \in Nat
      /\ n = 1 => Len(name[1]) # 0
  <2>1. name \in Seq(Seq(Nat)) /\ name # <<>> /\ name # <<<<>>>>
    BY DEF Prefix
  <2>2. n \in Nat /\ n # 0 /\ \A i \in 1..n : name[i] \in Seq(Nat) /\ Len(name[i]) \in Nat
    BY <2>1, EmptySeq, LenProperties, ElementOfSeq
  <2>3. ASSUME n = 1, Len(name[1]) = 0 PROVE FALSE
    <3>1. name[1] = <<>>
      BY <2>2, <2>3, EmptySeq
    <3>2. name = <<name[1]>>
      BY <2>1, <2>2, <2>3
    <3> QED BY <2>1, <3>1, <3>2
  <2> QED BY <2>1, <2>2, <2>3
<1>2. PICK f : Grows(f, name, n)
  BY <1>1, GrowsExists
<1>3. R(f)
  <2> DEFINE h == [i \in 0..n |-> IF i = 0 THEN -1 ELSE f[i - 1] + 1 + Len(name[i])]
  <2>1. f \in [0..n -> Int] /\ h \in [0..n -> Int] /\ \A i \in 0..n : f[i] = h[i]
    BY <1>1, <1>2 DEF Grows
  <2>2. f = h
    BY <2>1
  <2> QED BY <2>2
<1>4. R(upTo)
  BY <1>3
<1>5. \A i \in 0..n : upTo[i] = IF i = 0 THEN -1 ELSE upTo[i - 1] + 1 + Len(name[i])
  <2> DEFINE h == [i \in 0..n |-> IF i = 0 THEN -1 ELSE upTo[i - 1] + 1 + Len(name[i])]
  <2>1. upTo = h
    BY <1>4
  <2>2. \A i \in 0..n : h[i] = IF i = 0 THEN -1 ELSE upTo[i - 1] + 1 + Len(name[i])
    OBVIOUS
  <2> QED BY <2>1, <2>2
<1>6. TextLen(name) = upTo[n]
  BY DEF TextLen
<1> HIDE DEF upTo
<1> DEFINE T == {i \in 1..n : ~(upTo[i] \in Int /\ upTo[i] >= i - 1 + Len(name[1]))}
<1>7. T = {}
  <2> SUFFICES ASSUME T # {} PROVE FALSE
    OBVIOUS
  <2>1. PICK i \in T : \A y \in T : i <= y
    <3>1. T \in SUBSET Nat
      BY <1>1
    <3> HIDE DEF T
    <3> QED BY <3>1, LeastOf
  <2>2. i # 1
    BY <1>1, <1>5
  <2>3. i - 1 \in 1..n /\ i \in 0..n /\ i # 0 /\ ~(i <= i - 1)
    BY <1>1, <2>1, <2>2
  <2>4. upTo[i - 1] \in Int /\ upTo[i - 1] >= (i - 1) - 1 + Len(name[1])
    BY <2>1, <2>3
  <2>5. upTo[i] = upTo[i - 1] + 1 + Len(name[i])
    BY <1>5, <2>3
  <2>6. Len(name[i]) \in Nat /\ Len(name[1]) \in Nat
    BY <1>1, <2>3
  <2> QED BY <2>1, <2>3, <2>4, <2>5, <2>6
<1>8. upTo[n] \in Int /\ upTo[n] >= n - 1 + Len(name[1])
  <2>1. n \notin T
    BY <1>7
  <2>2. n \in 1..n
    BY <1>1
  <2> QED BY <2>1, <2>2
<1>9. Len(name[1]) \in Nat /\ n \in Nat /\ n # 0 /\ (n = 1 => Len(name[1]) # 0)
  BY <1>1
<1>10. upTo[n] \in Nat /\ upTo[n] >= 1
  <2> HIDE DEF n
  <2> QED BY <1>8, <1>9
<1>11. n = 1 => upTo[n] = Len(name[1])
  BY <1>5, <1>9
<1> QED BY <1>6, <1>10, <1>11

\* LongestFirst, of any sequence of rules.
LongestFirstIn(s) ==
  \A i, j \in DOMAIN s : i < j =>
    \/ s[j].prefix = Star
    \/ s[i].prefix # Star /\ TextLen(s[i].prefix) >= TextLen(s[j].prefix)

\* t is s with e put at p.
Inserted(S, s, p, e, t) ==
  /\ t \in Seq(S) /\ Len(t) = Len(s) + 1
  /\ \A i \in 1..(Len(s) + 1) : t[i] = IF i < p THEN s[i] ELSE IF i = p THEN e ELSE s[i - 1]

LEMMA InsertAtProperties ==
  ASSUME NEW S, NEW s \in Seq(S), NEW e \in S, NEW p \in 1..(Len(s) + 1)
  PROVE  Inserted(S, s, p, e, InsertAt(s, p, e))
<1>1. Len(s) \in Nat
  BY LenProperties
<1> DEFINE a == SubSeq(s, 1, p - 1)
           b == SubSeq(s, p, Len(s))
<1>2. a \in Seq(S) /\ Len(a) = p - 1 /\ \A i \in 1..(p - 1) : a[i] = s[i]
  BY <1>1
<1>3. b \in Seq(S) /\ Len(b) = Len(s) - p + 1 /\ \A i \in 1..(Len(s) - p + 1) : b[i] = s[p + i - 1]
  BY <1>1
<1> HIDE DEF a, b
<1>4. /\ a \o <<e>> \in Seq(S) /\ Len(a \o <<e>>) = p
      /\ \A i \in 1..p : (a \o <<e>>)[i] = IF i < p THEN s[i] ELSE e
  BY <1>1, <1>2
<1> DEFINE c == a \o <<e>>
<1> HIDE DEF c
<1>5. /\ c \in Seq(S) /\ Len(c) = p
      /\ \A i \in 1..p : c[i] = IF i < p THEN s[i] ELSE e
  BY <1>4 DEF c
<1>6. /\ c \o b \in Seq(S) /\ Len(c \o b) = Len(s) + 1
      /\ \A i \in 1..(Len(s) + 1) : (c \o b)[i] = IF i <= p THEN c[i] ELSE b[i - p]
  <2>1. p \in Nat /\ Len(s) - p + 1 \in Nat
    BY <1>1
  <2>2. c \o b \in Seq(S) /\ Len(c \o b) = Len(c) + Len(b)
    BY <1>3, <1>5, ConcatProperties
  <2>3. \A i \in 1..(Len(c) + Len(b)) : (c \o b)[i] = IF i <= Len(c) THEN c[i] ELSE b[i - Len(c)]
    BY <1>3, <1>5, ConcatProperties
  <2>4. Len(c) + Len(b) = Len(s) + 1
    BY <1>1, <1>3, <1>5, <2>1
  <2> QED BY <1>5, <2>2, <2>3, <2>4
<1>7. InsertAt(s, p, e) = c \o b
  BY DEF InsertAt, a, b, c
<1> DEFINE t == c \o b
<1>8. /\ t \in Seq(S) /\ Len(t) = Len(s) + 1
      /\ \A i \in 1..(Len(s) + 1) : t[i] = IF i <= p THEN c[i] ELSE b[i - p]
  BY <1>6
<1> HIDE DEF t
<1>9. Inserted(S, s, p, e, t)
  <2> SUFFICES ASSUME NEW i \in 1..(Len(s) + 1)
               PROVE  t[i] = IF i < p THEN s[i] ELSE IF i = p THEN e ELSE s[i - 1]
    BY <1>8 DEF Inserted
  <2>1. CASE i <= p
    BY <1>1, <1>5, <1>8, <2>1
  <2>2. CASE i > p
    <3>1. i - p \in 1..(Len(s) - p + 1) /\ p + (i - p) - 1 = i - 1 /\ ~(i <= p) /\ ~(i < p) /\ i # p
      BY <1>1, <2>2
    <3>2. t[i] = b[i - p] /\ b[i - p] = s[p + (i - p) - 1]
      BY <1>3, <1>8, <3>1
    <3> QED BY <3>1, <3>2
  <2> QED BY <1>1, <2>1, <2>2
<1> QED BY <1>7, <1>9 DEF t

LEMMA StarLen == TextLen(Star) = 1
<1> DEFINE segment == <<42>>
<1>1. segment \in Seq(Nat) /\ Len(segment) = 1
  OBVIOUS
<1> HIDE DEF segment
<1>2. Star = <<segment>>
  BY DEF Star, segment
<1>3. Star \in Seq(Seq(Nat)) /\ Len(Star) = 1 /\ Star[1] = segment
  BY <1>1, <1>2
<1>4. Star # <<>> /\ Star # <<<<>>>>
  <2>1. Len(<<>>) = 0 /\ <<<<>>>>[1] = <<>>
    OBVIOUS
  <2>2. ASSUME Star = <<<<>>>> PROVE FALSE
    BY <1>1, <1>3, <2>1, <2>2
  <2> QED BY <1>3, <2>1, <2>2
<1>5. Star \in Prefix
  BY <1>3, <1>4 DEF Prefix
<1> QED BY <1>1, <1>3, <1>5, TextLenType

\* Where a rule goes: before the first that is shorter or "*".
Stops(s, e, i) == s[i].prefix = Star \/ TextLen(s[i].prefix) < TextLen(e.prefix)
Place(s, e, p) ==
  /\ p \in 1..(Len(s) + 1) /\ (p \in DOMAIN s => Stops(s, e, p))
  /\ \A i \in DOMAIN s : i < p => ~Stops(s, e, i)

LEMMA PlaceKeepsOrder ==
  ASSUME NEW s \in Seq(AnyRule), LongestFirstIn(s), NEW e \in AnyRule,
         NEW p \in 1..(Len(s) + 1), Place(s, e, p), NEW t, t = InsertAt(s, p, e)
  PROVE  t \in Seq(AnyRule) /\ LongestFirstIn(t)
<1>1. Len(s) \in Nat /\ DOMAIN s = 1..Len(s) /\ \A i \in DOMAIN s : s[i] \in AnyRule
  BY LenProperties, ElementOfSeq
<1>2. \A r \in AnyRule : r.prefix \in Prefix /\ TextLen(r.prefix) \in Nat /\ TextLen(r.prefix) >= 1
  BY TextLenType DEF AnyRule
<1>3. /\ p \in DOMAIN s => Stops(s, e, p)
      /\ \A i \in DOMAIN s : i < p => ~Stops(s, e, i)
  BY DEF Place
<1>4. /\ t \in Seq(AnyRule) /\ Len(t) = Len(s) + 1
      /\ \A i \in 1..(Len(s) + 1) : t[i] = IF i < p THEN s[i] ELSE IF i = p THEN e ELSE s[i - 1]
  <2>1. Inserted(AnyRule, s, p, e, t)
    BY InsertAtProperties
  <2> QED BY <2>1 DEF Inserted
<1>5. LongestFirstIn(t)
  <2> SUFFICES ASSUME NEW i \in DOMAIN t, NEW j \in DOMAIN t, i < j, t[j].prefix # Star
               PROVE  t[i].prefix # Star /\ TextLen(t[i].prefix) >= TextLen(t[j].prefix)
    BY DEF LongestFirstIn
  <2>1. i \in 1..(Len(s) + 1) /\ j \in 1..(Len(s) + 1)
    BY <1>4
  <2>2. CASE j < p
    BY <1>1, <1>4, <2>1, <2>2 DEF LongestFirstIn
  <2>3. CASE j = p
    <3>1. i \in DOMAIN s /\ t[i] = s[i] /\ t[j] = e /\ ~Stops(s, e, i)
      BY <1>1, <1>3, <1>4, <2>1, <2>3
    <3> QED BY <1>1, <1>2, <3>1 DEF Stops
  <2>4. CASE j > p
    <3>1. j - 1 \in DOMAIN s /\ t[j] = s[j - 1] /\ p \in DOMAIN s
      BY <1>1, <1>4, <2>1, <2>4
    <3>2. CASE i < p
      <4>1. i \in DOMAIN s /\ i < j - 1 /\ t[i] = s[i]
        BY <1>1, <1>4, <2>1, <2>4, <3>1, <3>2
      <4> QED BY <3>1, <4>1 DEF LongestFirstIn
    <3>3. CASE i > p
      <4>1. i - 1 \in DOMAIN s /\ i - 1 < j - 1 /\ t[i] = s[i - 1]
        BY <1>1, <1>4, <2>1, <2>4, <3>1, <3>3
      <4> QED BY <3>1, <4>1 DEF LongestFirstIn
    <3>4. CASE i = p
      <4>1. t[i] = e /\ Stops(s, e, p)
        BY <1>3, <1>4, <2>1, <3>1, <3>4
      <4>2. s[p].prefix # Star /\ TextLen(s[p].prefix) >= TextLen(s[j - 1].prefix)
        <5>1. CASE p = j - 1
          BY <1>1, <1>2, <3>1, <5>1
        <5>2. CASE p # j - 1
          <6>1. p < j - 1
            BY <1>1, <2>4, <3>1, <5>2
          <6> QED BY <3>1, <6>1 DEF LongestFirstIn
        <5> QED BY <5>1, <5>2
      <4>3. TextLen(s[p].prefix) < TextLen(e.prefix)
        BY <4>1, <4>2 DEF Stops
      <4>4. e.prefix # Star
        BY <1>1, <1>2, <3>1, <4>3, StarLen
      <4> QED BY <1>1, <1>2, <3>1, <4>1, <4>2, <4>3, <4>4
    <3> QED BY <2>1, <3>2, <3>3, <3>4
  <2> QED BY <2>1, <2>2, <2>3, <2>4
<1> QED BY <1>4, <1>5

\* Insert puts the rule before the first that is shorter, or is "*".
LEMMA InsertPlace ==
  ASSUME NEW s \in Seq(AnyRule), NEW e
  PROVE  \E p \in 1..(Len(s) + 1) : Place(s, e, p) /\ Insert(s, e) = InsertAt(s, p, e)
<1> DEFINE stop == {i \in DOMAIN s : s[i].prefix = Star \/ TextLen(s[i].prefix) < TextLen(e.prefix)}
           p == Position(s, stop)
<1>1. Len(s) \in Nat /\ DOMAIN s = 1..Len(s)
  BY LenProperties
<1>2. stop \in SUBSET Nat /\ \A i \in DOMAIN s : i \in stop <=> Stops(s, e, i)
  BY <1>1 DEF Stops
<1>3. Insert(s, e) = InsertAt(s, p, e)
  BY DEF Insert
<1>4. stop \subseteq DOMAIN s
  OBVIOUS
<1> HIDE DEF stop
<1>5. p \in 1..(Len(s) + 1) /\ Place(s, e, p)
  <2>1. CASE stop = {}
    <3>1. p = Len(s) + 1
      BY <2>1 DEF Position
    <3> QED BY <1>1, <1>2, <2>1, <3>1 DEF Place
  <2>2. CASE stop # {}
    <3>1. Min(stop) \in stop /\ \A i \in stop : Min(stop) <= i
      BY <1>2, <2>2, LeastOf DEF Min
    <3>2. p = Min(stop)
      BY <2>2 DEF Position
    <3>3. p \in stop /\ \A i \in stop : p <= i
      BY <3>1, <3>2
    <3> HIDE DEF p
    <3>4. p \in DOMAIN s /\ Stops(s, e, p)
      BY <1>2, <1>4, <3>3
    <3>5. ASSUME NEW i \in DOMAIN s, i < p PROVE ~Stops(s, e, i)
      BY <1>1, <1>2, <3>3, <3>4, <3>5
    <3> QED BY <1>1, <3>4, <3>5 DEF Place
  <2> QED BY <2>1, <2>2
<1> HIDE DEF p
<1> QED BY <1>3, <1>5

LEMMA InsertKeepsOrder ==
  ASSUME NEW s \in Seq(AnyRule), LongestFirstIn(s), NEW e \in AnyRule
  PROVE  Insert(s, e) \in Seq(AnyRule) /\ LongestFirstIn(Insert(s, e))
<1>1. PICK p \in 1..(Len(s) + 1) : Place(s, e, p) /\ Insert(s, e) = InsertAt(s, p, e)
  BY InsertPlace
<1> QED BY <1>1, PlaceKeepsOrder

Source == [file : Texts, must : BOOLEAN]

\* What has been read is what the files of a root hold, and it is in order.
Loading ==
  /\ root \in Root
  /\ {"type", "prefixes", "trie"} \subseteq DOMAIN storage
  /\ storage.prefixes \in Seq(AnyRule) /\ LongestFirstIn(storage.prefixes)
  /\ {"pc", "todo", "lines"} \subseteq DOMAIN loading
  /\ loading.lines \in Seq(AnyRule) /\ loading.todo \in Seq(Source)

LEMMA LoadingInit == ASSUME Init PROVE Loading
<1>1. PICK d \in Devices : ContextInit(d.root)
  BY DEF Init
<1>2. root \in Root /\ loading = NotLoading /\ storage = NoStorage
  BY <1>1, DevicesAssumption DEF ContextInit
<1>3. \A S : <<>> \in Seq(S)
  BY EmptySeq
<1>4. LongestFirstIn(<<>>)
  BY DEF LongestFirstIn
<1> QED BY <1>2, <1>3, <1>4 DEF Loading, NotLoading, NoStorage

LEMMA FilesToLoadType == FilesToLoad \in Seq(Source)
<1>1. \A f \in Texts : Need(f) \in Source /\ Try(f) \in Source
  BY DEF Need, Try, Source
<1>2. \A f, g \in Texts : VendorOr(f, g) \in Source
  BY <1>1 DEF VendorOr
<1>3. /\ Need("legacy") \in Source /\ Need("plat") \in Source /\ Need("plat2") \in Source
      /\ VendorOr("vendor", "nonplat") \in Source /\ VendorOr("vendor2", "nonplat2") \in Source
  BY <1>1, <1>2 DEF Texts
<1> HIDE DEF Source
<1>4. /\ <<>> \in Seq(Source) /\ <<Need("legacy")>> \in Seq(Source)
      /\ <<Need("plat"), VendorOr("vendor", "nonplat")>> \in Seq(Source)
      /\ <<Need("plat2"), VendorOr("vendor2", "nonplat2")>> \in Seq(Source)
  BY <1>3
<1> QED BY <1>4 DEF FilesToLoad

LEMMA LoadingStep == ASSUME Loading, LoadStep PROVE Loading'
<1>1. \A S : <<>> \in Seq(S)
  BY EmptySeq
<1>2. LongestFirstIn(<<>>)
  BY DEF LongestFirstIn
<1>3. CASE Fail
  BY <1>1, <1>3 DEF Loading, Fail, NotLoading
<1>4. CASE \E type, prefixes, trie : /\ Loaded(type, prefixes, trie)
                                   /\ prefixes \in {<<>>, storage.prefixes}
  <2>1. PICK type, prefixes, trie : /\ Loaded(type, prefixes, trie)
                                    /\ prefixes \in {<<>>, storage.prefixes}
    BY <1>4
  <2>2. prefixes \in Seq(AnyRule) /\ LongestFirstIn(prefixes)
    BY <1>1, <1>2, <2>1 DEF Loading
  <2>3. /\ storage' = [type |-> type, prefixes |-> prefixes, trie |-> trie] /\ UNCHANGED root
        /\ loading' = [NotLoading EXCEPT !.pc = "done"]
    BY <2>1 DEF Loaded
  <2>4. /\ {"pc", "todo", "lines"} \subseteq DOMAIN loading'
        /\ loading'.lines \in Seq(AnyRule) /\ loading'.todo \in Seq(Source)
    BY <1>1, <2>3 DEF NotLoading
  <2> QED BY <2>2, <2>3, <2>4 DEF Loading
<1>5. CASE DetectSplit
  BY <1>1, <1>5, FilesToLoadType DEF Loading, DetectSplit, NotLoading
<1>6. CASE ReadFile
  <2> DEFINE f == Head(loading.todo)
  <2>1. f \in Source /\ Tail(loading.todo) \in Seq(Source)
    BY <1>6, HeadTailProperties DEF Loading, ReadFile
  <2>2. f.file \in Texts
    BY <2>1 DEF Source
  <2>3. root.text[f.file].rules \in Seq(AnyRule)
    BY <2>2 DEF Loading, Root
  <2>4. UNCHANGED <<root, storage>> \/ Fail
    BY <1>6 DEF ReadFile
  <2>5. CASE UNCHANGED <<root, storage>>
    <3>1. \/ loading' = [loading EXCEPT !.todo = Tail(@), !.lines = root.text[f.file].rules]
          \/ loading' = [loading EXCEPT !.todo = Tail(@)]
          \/ Fail
      BY <1>6 DEF ReadFile
    <3> QED BY <1>3, <2>1, <2>3, <2>5, <3>1 DEF Loading
  <2> QED BY <1>3, <2>4, <2>5
<1>7. CASE InsertLine
  <2> DEFINE rule == Head(loading.lines)
  <2>1. rule \in AnyRule /\ Tail(loading.lines) \in Seq(AnyRule)
    BY <1>7, HeadTailProperties DEF Loading, InsertLine
  <2>2. loading' = [loading EXCEPT !.lines = Tail(@)] /\ UNCHANGED root
    BY <1>7 DEF InsertLine
  <2>3. PICK s : /\ s \in Seq(AnyRule) /\ LongestFirstIn(s)
                 /\ storage' = storage \/ storage' = [storage EXCEPT !.prefixes = s]
    <3>1. CASE Under(Ctl, rule.prefix)
      BY <1>7, <3>1 DEF InsertLine, Loading
    <3>2. CASE ~Under(Ctl, rule.prefix)
      <4> DEFINE s == Insert(storage.prefixes, rule)
      <4>1. s \in Seq(AnyRule) /\ LongestFirstIn(s)
        BY <2>1, InsertKeepsOrder DEF Loading
      <4>2. storage' = [storage EXCEPT !.prefixes = s]
        BY <1>7, <3>2 DEF InsertLine
      <4> QED BY <4>1, <4>2
    <3> QED BY <3>1, <3>2
  <2>4. /\ {"type", "prefixes", "trie"} \subseteq DOMAIN storage'
        /\ storage'.prefixes \in Seq(AnyRule) /\ LongestFirstIn(storage'.prefixes)
    BY <2>3 DEF Loading
  <2>5. /\ {"pc", "todo", "lines"} \subseteq DOMAIN loading'
        /\ loading'.lines \in Seq(AnyRule) /\ loading'.todo \in Seq(Source)
    BY <2>1, <2>2 DEF Loading
  <2> QED BY <2>2, <2>4, <2>5 DEF Loading
<1>8. \/ Fail \/ DetectSplit \/ ReadFile \/ InsertLine
      \/ \E type, prefixes, trie : /\ Loaded(type, prefixes, trie)
                                  /\ prefixes \in {<<>>, storage.prefixes}
  BY DEF LoadStep, DetectFailure, DetectPreSplit, DetectSerialized, EndOfFiles
<1> QED BY <1>3, <1>4, <1>5, <1>6, <1>7, <1>8

LEMMA OnlyTheLoadReads == ASSUME Next PROVE UNCHANGED contextVars \/ LoadContext
BY DEF Next, KeyCommands, AreaCommands, PathCommands, Invoke, Kill,
   LoadContextFails, Resolve, AllVisited, OpenFails, Lookup, List, ListBroken,
   Scan, Compact, CompactBroken, Set, SetFails, Delete, DeleteNothing, DeleteFails, Flush,
   FlushFails, LoadFails, FileGet, FileList, FileSet, FileDelete, Save, SaveFails

LEMMA LoadingNext == ASSUME Loading, [Next]_vars PROVE Loading'
<1>1. CASE UNCHANGED contextVars
  BY <1>1 DEF Loading, contextVars
<1>2. CASE LoadContext
  BY <1>2, LoadingStep DEF LoadContext
<1>3. UNCHANGED contextVars \/ LoadContext
  BY OnlyTheLoadReads DEF vars, contextVars
<1> QED BY <1>1, <1>2, <1>3

(***************************************************************************)
(* However the lines are spread over the files and ordered in them, and    *)
(* whichever files cannot be read, at every moment of the load the rules   *)
(* stand longest first and "*" last (load_file): a lookup may take the     *)
(* first that fits.                                                        *)
(***************************************************************************)
THEOREM RulesLongestFirst == Spec => []LongestFirst
<1>1. Loading => LongestFirst
  BY DEF Loading, LongestFirstIn, LongestFirst
<1> QED BY LoadingInit, LoadingNext, <1>1, PTL DEF Spec

-------------------------------------------------------------------------------
(***************************************************************************)
(* Which line of which file stands where in the list of rules: the one at  *)
(* i is o[i].                                                              *)
(***************************************************************************)
\* Of two rules, as lines l and m, which one stands first.
Before(l, m) ==
  \/ Line(m).prefix = Star /\ (Line(l).prefix = Star => Earlier(m, l))
  \/ /\ Line(l).prefix # Star /\ Line(m).prefix # Star
     /\ TextLen(Line(l).prefix) >= TextLen(Line(m).prefix)
     /\ TextLen(Line(l).prefix) = TextLen(Line(m).prefix) => Earlier(l, m)

Sorts(s, o, R) ==
  /\ DOMAIN o = DOMAIN s /\ \A i \in DOMAIN s : o[i] \in R /\ s[i] = Line(o[i])
  /\ \A l \in R : \E i \in DOMAIN s : o[i] = l
  /\ \A i, j \in DOMAIN s : i < j => Before(o[i], o[j])

\* A line that comes later than all others finds its place.
LEMMA InsertSorts ==
  ASSUME NEW s \in Seq(AnyRule), NEW R, NEW o, Sorts(s, o, R),
         NEW l, Line(l) \in AnyRule, \A m \in R : Earlier(m, l)
  PROVE  \E q : Sorts(Insert(s, Line(l)), q, R \cup {l})
<1> DEFINE e == Line(l)
<1>1. PICK p \in 1..(Len(s) + 1) : Place(s, e, p) /\ Insert(s, e) = InsertAt(s, p, e)
  BY InsertPlace
<1>2. PICK t : t = Insert(s, e)
  OBVIOUS
<1>3. Len(s) \in Nat /\ DOMAIN s = 1..Len(s) /\ \A i \in DOMAIN s : s[i] \in AnyRule
  BY LenProperties, ElementOfSeq
<1>4. \A r \in AnyRule : TextLen(r.prefix) \in Nat /\ TextLen(r.prefix) >= 1
  BY TextLenType DEF AnyRule
<1>5. /\ DOMAIN t = 1..(Len(s) + 1)
      /\ \A i \in 1..(Len(s) + 1) : t[i] = IF i < p THEN s[i] ELSE IF i = p THEN e ELSE s[i - 1]
  <2>1. Inserted(AnyRule, s, p, e, t)
    BY <1>1, <1>2, InsertAtProperties
  <2> QED BY <2>1, LenProperties DEF Inserted
<1> DEFINE q == [i \in 1..(Len(s) + 1) |-> IF i < p THEN o[i] ELSE IF i = p THEN l ELSE o[i - 1]]
<1>6. /\ DOMAIN q = 1..(Len(s) + 1)
      /\ \A i \in 1..(Len(s) + 1) : /\ i < p => i \in DOMAIN s /\ q[i] = o[i] /\ t[i] = s[i]
                                    /\ i = p => q[i] = l /\ t[i] = e
                                    /\ i > p => i - 1 \in DOMAIN s /\ q[i] = o[i - 1] /\ t[i] = s[i - 1]
  BY <1>3, <1>5
<1> HIDE DEF q, e
<1>7. \A i \in DOMAIN t : q[i] \in R \cup {l} /\ t[i] = Line(q[i])
  BY <1>3, <1>5, <1>6 DEF Sorts, e
<1>8. ASSUME NEW m \in R \cup {l} PROVE \E i \in DOMAIN t : q[i] = m
  <2>1. CASE m = l
    BY <1>3, <1>5, <1>6, <2>1
  <2>2. CASE m \in R
    <3>1. PICK i \in DOMAIN s : o[i] = m
      BY <2>2 DEF Sorts
    <3>2. CASE i < p
      BY <1>3, <1>5, <1>6, <3>1, <3>2
    <3>3. CASE ~(i < p)
      <4>1. i + 1 \in 1..(Len(s) + 1) /\ i + 1 > p /\ (i + 1) - 1 = i
        BY <1>3, <3>3
      <4> QED BY <1>5, <1>6, <3>1, <4>1
    <3> QED BY <3>2, <3>3
  <2> QED BY <2>1, <2>2
<1>9. \A i \in DOMAIN s : i < p => Before(o[i], l)
  <2> SUFFICES ASSUME NEW i \in DOMAIN s, i < p PROVE Before(o[i], l)
    OBVIOUS
  <2>1. s[i].prefix # Star /\ ~(TextLen(s[i].prefix) < TextLen(e.prefix))
    BY <1>1 DEF Place, Stops
  <2>2. s[i] = Line(o[i]) /\ Earlier(o[i], l)
    BY DEF Sorts
  <2>3. TextLen(s[i].prefix) \in Nat /\ TextLen(e.prefix) \in Nat
    BY <1>3, <1>4 DEF e
  <2> QED BY <2>1, <2>2, <2>3 DEF Before, e
<1>10. \A j \in DOMAIN s : p <= j => Before(l, o[j])
  <2> SUFFICES ASSUME NEW j \in DOMAIN s, p <= j PROVE Before(l, o[j])
    OBVIOUS
  <2>1. p \in DOMAIN s
    BY <1>3
  <2>2. Stops(s, e, p)
    BY <1>1, <2>1 DEF Place
  <2>3. s[j] = Line(o[j]) /\ s[p] = Line(o[p]) /\ Earlier(o[j], l)
    BY <2>1 DEF Sorts
  <2>4. /\ TextLen(s[p].prefix) \in Nat /\ TextLen(s[p].prefix) >= 1 /\ TextLen(s[j].prefix) \in Nat
        /\ TextLen(e.prefix) \in Nat
    BY <1>3, <1>4, <2>1 DEF e
  <2>5. s[j].prefix = Star \/ (s[p].prefix # Star /\ TextLen(s[p].prefix) >= TextLen(s[j].prefix))
    <3>1. CASE p = j
      BY <2>4, <3>1
    <3>2. CASE p # j
      <4>1. p < j
        BY <1>3, <3>2
      <4>2. Before(o[p], o[j])
        BY <2>1, <4>1 DEF Sorts
      <4> QED BY <2>3, <4>2 DEF Before
    <3> QED BY <3>1, <3>2
  <2>6. CASE s[j].prefix = Star
    BY <2>3, <2>6 DEF Before
  <2>7. CASE s[j].prefix # Star
    <3>1. TextLen(s[j].prefix) < TextLen(e.prefix) /\ TextLen(e.prefix) > 1
      BY <2>2, <2>4, <2>5, <2>7 DEF Stops
    <3>2. e.prefix # Star
      BY <3>1, StarLen
    <3>3. TextLen(e.prefix) >= TextLen(s[j].prefix) /\ TextLen(e.prefix) # TextLen(s[j].prefix)
      BY <2>4, <3>1
    <3> QED BY <2>3, <2>7, <3>2, <3>3 DEF Before, e
  <2> QED BY <2>6, <2>7
<1>11. ASSUME NEW i \in DOMAIN t, NEW j \in DOMAIN t, i < j PROVE Before(q[i], q[j])
  <2>0. i \in 1..(Len(s) + 1) /\ j \in 1..(Len(s) + 1)
    BY <1>5
  <2>1. CASE j < p
    <3>1. i < p
      BY <1>11, <2>0, <2>1
    <3> QED BY <1>6, <1>11, <2>0, <2>1, <3>1 DEF Sorts
  <2>2. CASE j = p
    BY <1>6, <1>9, <1>11, <2>0, <2>2
  <2>3. CASE j > p /\ i = p
    <3>1. p <= j - 1
      BY <2>0, <2>3
    <3> QED BY <1>6, <1>10, <2>0, <2>3, <3>1
  <2>4. CASE j > p /\ i < p
    <3>1. i < j - 1
      BY <2>0, <2>4
    <3> QED BY <1>6, <2>0, <2>4, <3>1 DEF Sorts
  <2>5. CASE j > p /\ i > p
    <3>1. i - 1 < j - 1
      BY <1>11, <2>0
    <3> QED BY <1>6, <2>0, <2>5, <3>1 DEF Sorts
  <2> QED BY <2>0, <2>1, <2>2, <2>3, <2>4, <2>5
<1>12. DOMAIN q = DOMAIN t
  BY <1>5, <1>6
<1>13. Sorts(t, q, R \cup {l})
  BY <1>7, <1>8, <1>11, <1>12 DEF Sorts
<1> QED BY <1>2, <1>13 DEF e

LEMMA LinesType == ASSUME Loading, NEW i \in DOMAIN FilesToLoad PROVE LinesOf(i) \in Seq(AnyRule)
<1>1. FilesToLoad[i].file \in Texts
  <2>1. DOMAIN FilesToLoad = 1..Len(FilesToLoad)
    BY FilesToLoadType, LenProperties
  <2>2. FilesToLoad[i] \in Source
    BY <2>1, FilesToLoadType, ElementOfSeq
  <2> QED BY <2>2 DEF Source
<1>2. root.text[FilesToLoad[i].file].rules \in Seq(AnyRule)
  BY <1>1 DEF Loading, Root
<1>3. <<>> \in Seq(AnyRule)
  BY EmptySeq
<1> QED BY <1>2, <1>3 DEF LinesOf

LEMMA GivenType == ASSUME Loading, NEW l \in Given
  PROVE  /\ l \in Nat \X Nat /\ l[1] \in DOMAIN FilesToLoad /\ l[2] \in 1..Len(LinesOf(l[1]))
         /\ Line(l) \in AnyRule
<1>1. PICK i \in DOMAIN FilesToLoad : l \in {i} \X DOMAIN LinesOf(i)
  BY DEF Given
<1>2. LinesOf(i) \in Seq(AnyRule) /\ i \in Nat
  BY LinesType, FilesToLoadType, LenProperties
<1>3. l[1] = i /\ l[2] \in DOMAIN LinesOf(i) /\ l = <<l[1], l[2]>>
  BY <1>1
<1>4. Len(LinesOf(i)) \in Nat /\ DOMAIN LinesOf(i) = 1..Len(LinesOf(i)) /\ LinesOf(i)[l[2]] \in AnyRule
  BY <1>2, <1>3, LenProperties, ElementOfSeq
<1> QED BY <1>2, <1>3, <1>4 DEF Line

\* In a list that is sorted so, the first rule that fits is the best one.
LEMMA FirstIsBest ==
  ASSUME Loading, NEW s \in Seq(AnyRule), NEW o, Sorts(s, o, Given), NEW name
  PROVE  SplitLookup(s, name) = SplitReference(name)
<1> DEFINE Fits(l) == Line(l).prefix # Star /\ StartsWith(name, Line(l).prefix)
           Size(l) == TextLen(Line(l).prefix)
           fits == {l \in Given : Fits(l)}
           longest == {l \in fits : \A m \in fits : Size(m) <= Size(l)}
           stars == {l \in Given : Line(l).prefix = Star}
           I == {i \in 1..Len(s) : s[i].prefix = Star \/ StartsWith(name, s[i].prefix)}
<1>1. Len(s) \in Nat /\ DOMAIN s = 1..Len(s)
  BY LenProperties
<1>2. /\ \A i \in 1..Len(s) : o[i] \in Given /\ s[i] = Line(o[i])
      /\ \A l \in Given : \E i \in 1..Len(s) : o[i] = l
      /\ \A i, j \in 1..Len(s) : i < j => Before(o[i], o[j])
  BY <1>1 DEF Sorts
<1>3. \A l \in Given : Size(l) \in Nat /\ l[1] \in Nat /\ l[2] \in Nat
  <2> SUFFICES ASSUME NEW l \in Given PROVE Size(l) \in Nat /\ l[1] \in Nat /\ l[2] \in Nat
    OBVIOUS
  <2>1. l \in Nat \X Nat /\ Line(l) \in AnyRule
    BY GivenType
  <2>2. Line(l).prefix \in Prefix
    BY <2>1 DEF AnyRule
  <2> QED BY <2>1, <2>2, TextLenType
<1>4. \A l, m \in Given : ~(Earlier(l, m) /\ Earlier(m, l))
  BY <1>3 DEF Earlier
<1>5. SplitLookup(s, name) = IF I = {} THEN DEFAULT_CONTEXT ELSE s[Min(I)].ctx
  <2>1. SelectInSeq(s, LAMBDA e : e.prefix = Star \/ StartsWith(name, e.prefix))
        = IF I # {} THEN Min(I) ELSE 0
    BY DEF SelectInSeq
  <2>2. I # {} => Min(I) # 0
    <3>1. I \in SUBSET Nat
      OBVIOUS
    <3> HIDE DEF I
    <3>2. ASSUME I # {} PROVE Min(I) \in I
      BY <3>1, <3>2, LeastOf DEF Min
    <3> QED BY <3>2 DEF I
  <2> HIDE DEF I
  <2> QED BY <2>1, <2>2 DEF SplitLookup
<1>6. SplitReference(name) = IF fits # {} THEN Line(Earliest(longest)).ctx
                             ELSE IF stars # {} THEN Line(Latest(stars)).ctx ELSE DEFAULT_CONTEXT
  BY DEF SplitReference
<1>7. CASE I = {}
  <2>1. \A l \in Given : ~Fits(l) /\ Line(l).prefix # Star
    BY <1>2, <1>7
  <2>2. fits = {} /\ stars = {}
    BY <2>1
  <2> QED BY <1>5, <1>6, <1>7, <2>2
<1>8. CASE I # {}
  <2>1. PICK i \in I : (\A j \in I : i <= j) /\ Min(I) = i
    <3>1. I \in SUBSET Nat
      OBVIOUS
    <3> HIDE DEF I
    <3> QED BY <3>1, <1>8, LeastOf DEF Min
  <2>2. i \in 1..Len(s) /\ o[i] \in Given /\ s[i] = Line(o[i])
    BY <1>2, <2>1
  <2>3. \A l \in Given : Fits(l) \/ Line(l).prefix = Star => l = o[i] \/ Before(o[i], l)
    <3> SUFFICES ASSUME NEW l \in Given, Fits(l) \/ Line(l).prefix = Star, l # o[i] PROVE Before(o[i], l)
      OBVIOUS
    <3>1. PICK j \in 1..Len(s) : o[j] = l
      BY <1>2
    <3>2. j \in I
      BY <1>2, <3>1
    <3>3. i < j
      BY <2>1, <2>2, <3>1, <3>2
    <3> QED BY <1>2, <2>2, <3>1, <3>3
  <2>4. CASE Line(o[i]).prefix = Star
    <3>1. \A l \in Given : ~Fits(l)
      BY <2>3, <2>4 DEF Before
    <3>2. \A l \in stars : l = o[i] \/ Earlier(l, o[i])
      BY <2>3, <2>4 DEF Before
    <3>3. o[i] \in stars
      BY <2>2, <2>4
    <3>4. stars \subseteq Given /\ fits = {}
      BY <3>1
    <3> HIDE DEF stars, fits
    <3>5. Latest(stars) = o[i]
      <4>1. ASSUME NEW l \in stars, \A m \in stars : m = l \/ Earlier(m, l) PROVE l = o[i]
        BY <1>4, <3>2, <3>3, <3>4, <4>1
      <4> QED BY <3>2, <3>3, <4>1 DEF Latest
    <3> QED BY <1>5, <1>6, <1>8, <2>1, <2>2, <3>3, <3>4, <3>5
  <2>5. CASE Line(o[i]).prefix # Star
    <3>1. o[i] \in fits
      BY <2>1, <2>2, <2>5
    <3>2. \A l \in fits : l = o[i] \/ (Size(o[i]) >= Size(l) /\ (Size(o[i]) = Size(l) => Earlier(o[i], l)))
      BY <2>3 DEF Before
    <3>3. fits \subseteq Given
      OBVIOUS
    <3> HIDE DEF fits, Size
    <3>4. o[i] \in longest
      BY <1>3, <3>1, <3>2, <3>3
    <3>5. \A l \in longest : l = o[i] \/ Earlier(o[i], l)
      BY <1>3, <3>1, <3>2, <3>3
    <3>6. longest \subseteq Given
      BY <3>3
    <3> HIDE DEF longest
    <3>7. Earliest(longest) = o[i]
      <4>1. ASSUME NEW l \in longest, \A m \in longest : m = l \/ Earlier(l, m) PROVE l = o[i]
        BY <1>4, <3>4, <3>5, <3>6, <4>1
      <4> QED BY <3>4, <3>5, <4>1 DEF Earliest
    <3> QED BY <1>5, <1>6, <1>8, <2>1, <2>2, <3>1, <3>7
  <2> QED BY <2>4, <2>5
<1> QED BY <1>7, <1>8

\* How far the load has come: the file that it reads or has read last, and the lines that
\* it has taken from this and those before.
AtFile == Len(FilesToLoad) - Len(loading.todo)
Taken ==
  {l \in Given : \/ l[1] < AtFile
                 \/ l[1] = AtFile /\ l[2] <= Len(LinesOf(AtFile)) - Len(loading.lines)}

\* What is left of the file, and of the files.
LeftInFile ==
  loading.lines # <<>> =>
    /\ AtFile \in DOMAIN FilesToLoad /\ Len(loading.lines) <= Len(LinesOf(AtFile))
    /\ \A i \in DOMAIN loading.lines :
         loading.lines[i] = LinesOf(AtFile)[Len(LinesOf(AtFile)) - Len(loading.lines) + i]
LeftOfFiles ==
  /\ AtFile \in Nat
  /\ \A i \in DOMAIN loading.todo : loading.todo[i] = FilesToLoad[AtFile + i]

InOrder(R) == \E o : Sorts(storage.prefixes, o, R)

Reading ==
  /\ loading.pc \in {"start", "files"} => storage.type # "Split"
  /\ loading.pc = "start" => storage.prefixes = <<>>
  /\ loading.pc = "files" => LeftOfFiles /\ LeftInFile /\ InOrder(Taken)
  /\ storage.type = "Split" => InOrder(Given)

LEMMA SameLines == ASSUME UNCHANGED root
  PROVE  /\ FilesToLoad' = FilesToLoad /\ Given' = Given
         /\ \A i : LinesOf(i)' = LinesOf(i)
         /\ \A l : Line(l)' = Line(l)
<1>1. FilesToLoad' = FilesToLoad
  BY DEF FilesToLoad, VendorOr, Exists, Need, Try
<1>2. \A i : LinesOf(i)' = LinesOf(i)
  BY <1>1 DEF LinesOf
<1>3. \A l : Line(l)' = Line(l)
  BY <1>2 DEF Line
<1>4. Given' = Given
  BY <1>1, <1>2, <1>3 DEF Given
<1> QED BY <1>1, <1>2, <1>3, <1>4

LEMMA InOrderNext ==
  ASSUME UNCHANGED root, NEW R, \E o : Sorts(storage'.prefixes, o, R)
  PROVE  (Taken' = R => InOrder(Taken)') /\ (Given' = R => InOrder(Given)')
<1>1. PICK o : Sorts(storage'.prefixes, o, R)
  OBVIOUS
<1>2. \A l : Line(l)' = Line(l)
  BY SameLines
<1>3. Taken' = R => Sorts(storage.prefixes, o, Taken)'
  BY <1>1, <1>2 DEF Sorts, Before
<1>4. Given' = R => Sorts(storage.prefixes, o, Given)'
  BY <1>1, <1>2 DEF Sorts, Before
<1> QED BY <1>3, <1>4 DEF InOrder

LEMMA SortsNothing == \E o : Sorts(<<>>, o, {})
<1>1. Sorts(<<>>, <<>>, {})
  BY DEF Sorts
<1> QED BY <1>1

LEMMA ReadingInsert == ASSUME Loading, Reading, InsertLine PROVE Reading'
<1> DEFINE i == AtFile
           L == LinesOf(i)
           lines == loading.lines
           k == Len(L) - Len(lines) + 1
           l == <<i, k>>
<1>1. /\ loading.pc = "files" /\ lines # <<>> /\ UNCHANGED root
      /\ loading' = [loading EXCEPT !.lines = Tail(@)]
  BY DEF InsertLine
<1>2. lines \in Seq(AnyRule) /\ loading.todo \in Seq(Source) /\ storage.prefixes \in Seq(AnyRule)
  BY DEF Loading
<1>3. /\ Len(lines) \in Nat /\ Len(lines) > 0 /\ DOMAIN lines = 1..Len(lines)
      /\ Head(lines) = lines[1] /\ Tail(lines) \in Seq(AnyRule) /\ Len(Tail(lines)) = Len(lines) - 1
      /\ \A j \in 1..(Len(lines) - 1) : Tail(lines)[j] = lines[j + 1]
  BY <1>1, <1>2, LenProperties, HeadTailProperties, EmptySeq
<1>4. /\ i \in DOMAIN FilesToLoad /\ i \in Nat /\ Len(lines) <= Len(L)
      /\ \A j \in DOMAIN lines : lines[j] = L[Len(L) - Len(lines) + j]
  BY <1>1 DEF Reading, LeftInFile, LeftOfFiles
<1>5. L \in Seq(AnyRule) /\ Len(L) \in Nat /\ DOMAIN L = 1..Len(L)
  BY <1>4, LinesType, LenProperties
<1>6. k \in 1..Len(L) /\ k \in Nat /\ Line(l) = Head(lines) /\ Line(l) \in AnyRule
  <2>1. k \in 1..Len(L) /\ k \in Nat
    BY <1>3, <1>4, <1>5
  <2>2. L[k] = lines[1]
    <3> HIDE DEF L, lines
    <3>1. 1 \in DOMAIN lines
      BY <1>3
    <3> QED BY <1>4, <3>1
  <2>3. L[k] \in AnyRule
    BY <1>5, <2>1, ElementOfSeq
  <2> QED BY <1>3, <2>1, <2>2, <2>3 DEF Line
<1>7. AtFile' = i /\ FilesToLoad' = FilesToLoad /\ Given' = Given /\ LinesOf(AtFile)' = L
  <2>1. /\ FilesToLoad' = FilesToLoad /\ Given' = Given /\ loading'.todo = loading.todo
        /\ \A j : LinesOf(j)' = LinesOf(j)
    BY <1>1, SameLines DEF Loading
  <2>2. AtFile' = AtFile
    BY <2>1 DEF AtFile
  <2> QED BY <2>1, <2>2
<1>8. loading'.lines = Tail(lines) /\ loading'.pc = "files" /\ loading'.todo = loading.todo
  BY <1>1 DEF Loading
<1>9. LeftOfFiles' /\ LeftInFile'
  <2>1. LeftOfFiles'
    BY <1>1, <1>7, <1>8 DEF Reading, LeftOfFiles
  <2>2. LeftInFile'
    <3> SUFFICES ASSUME loading'.lines # <<>>
                 PROVE  /\ AtFile' \in DOMAIN FilesToLoad' /\ Len(loading'.lines) <= Len(LinesOf(AtFile)')
                        /\ \A j \in DOMAIN loading'.lines :
                             loading'.lines[j]
                             = LinesOf(AtFile)'[Len(LinesOf(AtFile)') - Len(loading'.lines) + j]
      BY DEF LeftInFile
    <3> HIDE DEF L, i, lines
    <3>1. Len(Tail(lines)) <= Len(L)
      BY <1>3, <1>4, <1>5
    <3>2. ASSUME NEW j \in DOMAIN Tail(lines) PROVE Tail(lines)[j] = L[Len(L) - Len(Tail(lines)) + j]
      <4>1. j \in 1..(Len(lines) - 1) /\ j + 1 \in DOMAIN lines
        BY <1>3, LenProperties
      <4>2. Len(L) - Len(Tail(lines)) + j = Len(L) - Len(lines) + (j + 1)
        BY <1>3, <1>5, <4>1
      <4> QED BY <1>3, <1>4, <4>1, <4>2
    <3> QED BY <1>4, <1>7, <1>8, <3>1, <3>2
  <2> QED BY <2>1, <2>2
<1>10. Taken' = {m \in Given : m[1] < i \/ (m[1] = i /\ m[2] <= k)}
  <2> HIDE DEF L, i, lines
  <2>1. Len(L) - Len(Tail(lines)) = k
    BY <1>3, <1>5
  <2> QED BY <1>7, <1>8, <2>1 DEF Taken
<1>11. Taken = {m \in Given : m[1] < i \/ (m[1] = i /\ m[2] <= k - 1)}
  <2> HIDE DEF L, i, lines
  <2>1. Len(L) - Len(lines) = k - 1
    BY <1>3, <1>5
  <2> QED BY <2>1 DEF Taken, L, i, lines
<1>12. l \in Given <=> ~Under(Ctl, Head(lines).prefix)
  <2>1. l \in {i} \X DOMAIN L
    BY <1>5, <1>6
  <2> HIDE DEF l, L
  <2> QED BY <1>4, <1>6, <2>1 DEF Given, L
<1>13. \A m \in Given : m[1] \in Nat /\ m[2] \in Nat /\ m = <<m[1], m[2]>>
  BY GivenType
<1> HIDE DEF i, L, lines, k
<1>14. CASE Under(Ctl, Head(lines).prefix)
  <2>1. l \notin Given
    BY <1>12, <1>14
  <2>2. ASSUME NEW m \in Given, m[1] = i, m[2] <= k PROVE m[2] <= k - 1
    BY <1>6, <1>13, <2>1, <2>2
  <2>3. Taken' = Taken
    <3>1. \A m \in Given : m[1] = i => (m[2] <= k <=> m[2] <= k - 1)
      BY <1>6, <1>13, <2>2
    <3> QED BY <1>10, <1>11, <3>1
  <2>4. storage' = storage
    BY <1>14 DEF InsertLine, lines
  <2>5. InOrder(Taken)'
    BY <1>1, <2>3, <2>4, InOrderNext DEF Reading, InOrder
  <2> QED BY <1>1, <1>8, <1>9, <2>4, <2>5 DEF Reading
<1>15. CASE ~Under(Ctl, Head(lines).prefix)
  <2>1. Taken' = Taken \cup {l}
    <3>1. l \in Given
      BY <1>12, <1>15
    <3>2. \A m \in Given : (m[1] = i /\ m[2] <= k) <=> ((m[1] = i /\ m[2] <= k - 1) \/ m = l)
      BY <1>4, <1>6, <1>13
    <3>3. l[1] = i /\ l[2] = k
      OBVIOUS
    <3> HIDE DEF l
    <3> QED BY <1>6, <1>10, <1>11, <3>1, <3>2, <3>3
  <2>2. \A m \in Taken : Earlier(m, l)
    BY <1>4, <1>6, <1>11, <1>13 DEF Earlier
  <2>3. PICK o : Sorts(storage.prefixes, o, Taken)
    BY <1>1 DEF Reading, InOrder
  <2>4. PICK q : Sorts(Insert(storage.prefixes, Line(l)), q, Taken \cup {l})
    BY <1>2, <1>6, <2>2, <2>3, InsertSorts
  <2>5. storage' = [storage EXCEPT !.prefixes = Insert(storage.prefixes, Line(l))]
    BY <1>6, <1>15 DEF InsertLine, lines
  <2>6. storage'.prefixes = Insert(storage.prefixes, Line(l)) /\ storage'.type = storage.type
    BY <2>5 DEF Loading
  <2>7. InOrder(Taken)'
    BY <1>1, <2>1, <2>4, <2>6, InOrderNext
  <2> QED BY <1>1, <1>8, <1>9, <2>6, <2>7 DEF Reading
<1> QED BY <1>14, <1>15

LEMMA ReadingFile == ASSUME Loading, Reading, ReadFile PROVE Reading'
<1> DEFINE i == AtFile + 1
           f == Head(loading.todo)
           todo == loading.todo
<1>1. loading.pc = "files" /\ loading.lines = <<>> /\ todo # <<>>
  BY DEF ReadFile
<1>2. todo \in Seq(Source) /\ FilesToLoad \in Seq(Source)
  BY FilesToLoadType DEF Loading
<1>3. /\ Len(todo) \in Nat /\ Len(todo) > 0 /\ DOMAIN todo = 1..Len(todo) /\ f = todo[1]
      /\ Tail(todo) \in Seq(Source) /\ Len(Tail(todo)) = Len(todo) - 1
      /\ \A j \in 1..(Len(todo) - 1) : Tail(todo)[j] = todo[j + 1]
  BY <1>1, <1>2, LenProperties, HeadTailProperties, EmptySeq
<1>4. AtFile \in Nat /\ \A j \in DOMAIN todo : todo[j] = FilesToLoad[AtFile + j]
  BY <1>1 DEF Reading, LeftOfFiles
<1>5. Len(FilesToLoad) \in Nat /\ DOMAIN FilesToLoad = 1..Len(FilesToLoad)
  BY <1>2, LenProperties
<1>6. i \in DOMAIN FilesToLoad /\ f = FilesToLoad[i] /\ i = Len(FilesToLoad) - Len(Tail(todo))
  <2>1. 1 \in DOMAIN todo
    BY <1>3
  <2>2. AtFile = Len(FilesToLoad) - Len(todo)
    BY DEF AtFile
  <2> HIDE DEF todo
  <2> QED BY <1>3, <1>4, <1>5, <2>1, <2>2
<1>7. LinesOf(i) \in Seq(AnyRule) /\ Len(LinesOf(i)) \in Nat /\ DOMAIN LinesOf(i) = 1..Len(LinesOf(i))
  BY <1>6, LinesType, LenProperties
<1>8. CASE Fail
  BY <1>1, <1>8 DEF Fail, NotLoading, Reading
<1>9. CASE /\ loading' = [loading EXCEPT !.todo = Tail(@), !.lines = LinesOf(i)]
           /\ UNCHANGED <<root, storage>>
  <2>1. loading'.todo = Tail(todo) /\ loading'.lines = LinesOf(i) /\ loading'.pc = "files"
    BY <1>1, <1>9 DEF Loading
  <2>2. AtFile' = i /\ FilesToLoad' = FilesToLoad /\ Given' = Given /\ LinesOf(AtFile)' = LinesOf(i)
    <3>1. FilesToLoad' = FilesToLoad /\ Given' = Given /\ \A j : LinesOf(j)' = LinesOf(j)
      BY <1>9, SameLines
    <3>2. AtFile' = i
      BY <1>6, <2>1, <3>1 DEF AtFile
    <3> QED BY <3>1, <3>2
  <2> HIDE DEF i, todo
  <2>3. LeftOfFiles'
    <3>1. ASSUME NEW j \in DOMAIN Tail(todo) PROVE Tail(todo)[j] = FilesToLoad[i + j]
      <4>1. j \in 1..(Len(todo) - 1) /\ j + 1 \in DOMAIN todo
        BY <1>3, LenProperties
      <4>2. AtFile + (j + 1) = i + j
        BY <1>4, <4>1 DEF i
      <4> QED BY <1>3, <1>4, <4>1, <4>2
    <3>2. i \in Nat
      BY <1>5, <1>6
    <3> QED BY <2>1, <2>2, <3>1, <3>2 DEF LeftOfFiles
  <2>4. LeftInFile'
    <3> SUFFICES ASSUME loading'.lines # <<>>
                 PROVE  /\ AtFile' \in DOMAIN FilesToLoad' /\ Len(loading'.lines) <= Len(LinesOf(AtFile)')
                        /\ \A j \in DOMAIN loading'.lines :
                             loading'.lines[j]
                             = LinesOf(AtFile)'[Len(LinesOf(AtFile)') - Len(loading'.lines) + j]
      BY DEF LeftInFile
    <3>1. \A j \in DOMAIN LinesOf(i) : Len(LinesOf(i)) - Len(LinesOf(i)) + j = j
      BY <1>7
    <3> QED BY <1>6, <1>7, <2>1, <2>2, <3>1
  <2>5. Taken' = Taken
    <3>1. Taken' = {l \in Given : l[1] < i \/ (l[1] = i /\ l[2] <= Len(LinesOf(i)) - Len(LinesOf(i)))}
      BY <2>1, <2>2 DEF Taken
    <3>2. Taken = {l \in Given : \/ l[1] < AtFile
                                 \/ l[1] = AtFile /\ l[2] <= Len(LinesOf(AtFile)) - Len(<<>>)}
      BY <1>1 DEF Taken
    <3>3. ASSUME NEW l \in Given
          PROVE  (l[1] < i \/ (l[1] = i /\ l[2] <= Len(LinesOf(i)) - Len(LinesOf(i))))
                 <=> (\/ l[1] < AtFile
                      \/ l[1] = AtFile /\ l[2] <= Len(LinesOf(AtFile)) - Len(<<>>))
      <4>1. l[1] \in Nat /\ l[1] \in DOMAIN FilesToLoad /\ l[2] \in 1..Len(LinesOf(l[1])) /\ l[2] \in Nat
        BY GivenType
      <4>2. Len(LinesOf(i)) - Len(LinesOf(i)) = 0
        BY <1>7
      <4>3. l[1] = AtFile => l[2] <= Len(LinesOf(AtFile)) - Len(<<>>)
        <5>1. l[1] = AtFile => Len(LinesOf(AtFile)) \in Nat /\ l[2] <= Len(LinesOf(AtFile))
          BY <4>1, LinesType, LenProperties
        <5>2. Len(<<>>) = 0
          OBVIOUS
        <5> QED BY <4>1, <5>1, <5>2
      <4>4. l[1] < i <=> l[1] < AtFile \/ l[1] = AtFile
        BY <1>4, <4>1 DEF i
      <4>5. ~(l[2] <= 0)
        BY <4>1
      <4> QED BY <4>2, <4>3, <4>4, <4>5
    <3> QED BY <3>1, <3>2, <3>3
  <2>6. InOrder(Taken)'
    BY <1>1, <1>9, <2>5, InOrderNext DEF Reading, InOrder
  <2> QED BY <1>1, <1>9, <2>1, <2>3, <2>4, <2>6 DEF Reading
<1>10. root.text[f.file].is # "ok" => LinesOf(i) = <<>>
  BY <1>6 DEF LinesOf
<1>11. root.text[f.file].is = "ok" => LinesOf(i) = root.text[f.file].rules
  BY <1>6 DEF LinesOf
<1>12. loading' = [loading EXCEPT !.todo = Tail(@)] =>
         loading' = [loading EXCEPT !.todo = Tail(@), !.lines = <<>>]
  BY <1>1 DEF Loading
<1> HIDE DEF i
<1> QED BY <1>8, <1>9, <1>10, <1>11, <1>12 DEF ReadFile

LEMMA ReadingStarts == ASSUME Loading, Reading, DetectSplit PROVE Reading'
<1>1. /\ loading' = [NotLoading EXCEPT !.pc = "files", !.todo = FilesToLoad]
      /\ UNCHANGED <<root, storage>> /\ loading.pc = "start"
  BY DEF DetectSplit
<1>2. loading'.todo = FilesToLoad /\ loading'.lines = <<>> /\ loading'.pc = "files"
  BY <1>1 DEF NotLoading
<1>3. FilesToLoad' = FilesToLoad /\ Given' = Given
  BY <1>1, SameLines
<1>4. Len(FilesToLoad) \in Nat
  BY FilesToLoadType, LenProperties
<1>5. AtFile' = 0
  BY <1>2, <1>3, <1>4 DEF AtFile
<1>6. LeftOfFiles'
  <2>1. \A j \in DOMAIN FilesToLoad : 0 + j = j
    BY FilesToLoadType, LenProperties
  <2> QED BY <1>2, <1>3, <1>5, <2>1 DEF LeftOfFiles
<1>7. Taken' = {}
  <2>1. \A l \in Given : l[1] \in Nat /\ l[1] \in DOMAIN FilesToLoad
    BY GivenType
  <2>2. \A l \in Given : ~(l[1] < 0) /\ l[1] # 0
    BY <2>1, FilesToLoadType, LenProperties
  <2> QED BY <1>3, <1>5, <2>2 DEF Taken
<1>8. InOrder(Taken)'
  BY <1>1, <1>7, InOrderNext, SortsNothing DEF Reading
<1> QED BY <1>1, <1>2, <1>6, <1>8 DEF Reading, LeftInFile

LEMMA ReadingEnds == ASSUME Loading, Reading, EndOfFiles PROVE Reading'
<1>1. /\ loading.pc = "files" /\ loading.lines = <<>> /\ loading.todo = <<>>
      /\ storage'.prefixes = storage.prefixes /\ loading'.pc = "done" /\ UNCHANGED root
  BY DEF EndOfFiles, Loaded, NotLoading
<1>2. Taken = Given
  <2>1. Len(FilesToLoad) \in Nat /\ DOMAIN FilesToLoad = 1..Len(FilesToLoad) /\ Len(<<>>) = 0
    BY FilesToLoadType, LenProperties
  <2>2. AtFile = Len(FilesToLoad)
    BY <1>1, <2>1 DEF AtFile
  <2>3. ASSUME NEW l \in Given
        PROVE  l[1] < AtFile \/ (l[1] = AtFile /\ l[2] <= Len(LinesOf(AtFile)) - Len(<<>>))
    <3>1. l[1] \in DOMAIN FilesToLoad /\ l[2] \in 1..Len(LinesOf(l[1])) /\ Len(LinesOf(l[1])) \in Nat
      BY GivenType, LinesType, LenProperties
    <3> QED BY <2>1, <2>2, <3>1
  <2> QED BY <1>1, <2>3 DEF Taken
<1>3. InOrder(Given)'
  <2>1. Given' = Given
    BY <1>1, SameLines
  <2> QED BY <1>1, <1>2, <2>1, InOrderNext DEF Reading, InOrder
<1> QED BY <1>1, <1>3 DEF Reading

LEMMA ReadingRest ==
  ASSUME Loading, Reading, DetectFailure \/ DetectPreSplit \/ DetectSerialized PROVE Reading'
<1>1. storage.type # "Split"
  BY DEF DetectFailure, DetectPreSplit, DetectSerialized, Reading
<1>2. storage'.type # "Split" /\ loading'.pc \in {"done", "failed"}
  BY <1>1 DEF DetectFailure, DetectPreSplit, DetectSerialized, Fail, Loaded, NotLoading
<1> QED BY <1>2 DEF Reading

LEMMA ReadingNext == ASSUME Loading, Reading, [Next]_vars PROVE Reading'
<1>1. CASE UNCHANGED contextVars
  <2>1. UNCHANGED <<root, loading, storage>>
    BY <1>1 DEF contextVars
  <2>2. FilesToLoad' = FilesToLoad /\ Given' = Given /\ \A i : LinesOf(i)' = LinesOf(i)
    BY <2>1, SameLines
  <2>3. AtFile' = AtFile
    BY <2>1, <2>2 DEF AtFile
  <2>4. Taken' = Taken
    BY <2>1, <2>2, <2>3 DEF Taken
  <2>5. (LeftOfFiles => LeftOfFiles') /\ (LeftInFile => LeftInFile')
    BY <2>1, <2>2, <2>3 DEF LeftOfFiles, LeftInFile
  <2>6. (InOrder(Taken) => InOrder(Taken)') /\ (InOrder(Given) => InOrder(Given)')
    BY <2>1, <2>2, <2>4, InOrderNext DEF InOrder
  <2> QED BY <2>1, <2>5, <2>6 DEF Reading
<1>2. CASE LoadContext
  BY <1>2, ReadingInsert, ReadingFile, ReadingStarts, ReadingEnds, ReadingRest DEF LoadContext, LoadStep
<1>3. UNCHANGED contextVars \/ LoadContext
  BY OnlyTheLoadReads DEF vars, contextVars
<1> QED BY <1>1, <1>2, <1>3

(***************************************************************************)
(* The lookup finds the longest rule that fits, of equally long ones the   *)
(* one that was given first, and if none fits the last "*", whichever      *)
(* files there are, whatever their lines and their order, and whichever of *)
(* the files that need not be there cannot be read (load_file,             *)
(* get_context_for_name).                                                  *)
(***************************************************************************)
THEOREM BestRuleFound == Spec => []SplitFindsBestRule
<1>1. Init => Loading /\ Reading
  BY LoadingInit DEF Init, ContextInit, NotLoading, NoStorage, Reading
<1>2. Loading /\ Reading /\ [Next]_vars => Loading' /\ Reading'
  BY LoadingNext, ReadingNext
<1>3. Loading /\ Reading => SplitFindsBestRule
  <2> SUFFICES ASSUME Loading, Reading, storage.type = "Split", NEW name \in Keys
               PROVE  Route(name) = SplitReference(name)
    BY DEF SplitFindsBestRule
  <2>1. PICK o : Sorts(storage.prefixes, o, Given)
    BY DEF Reading, InOrder
  <2>2. Route(name) = SplitLookup(storage.prefixes, name)
    BY DEF Route
  <2> QED BY <2>1, <2>2, FirstIsBest DEF Loading
<1> QED BY <1>1, <1>2, <1>3, PTL DEF Spec

-------------------------------------------------------------------------------
LEMMA ImageFinite ==
  ASSUME NEW S, IsFiniteSet(S), NEW f, NEW T, T = {f[x] : x \in S} PROVE IsFiniteSet(T)
<1> DEFINE g == [x \in S |-> f[x]]
<1>1. g \in Surjection(S, T)
  BY DEF Surjection
<1> QED BY <1>1, FS_Surjection

LEMMA ContextsFinite == ASSUME Loading PROVE IsFiniteSet(list_all_contexts)
<1>1. CASE storage.type = "Serialized"
  <2> DEFINE R == root.info.rules
             f == [r \in R |-> r.ctx]
             T == {r.ctx : r \in R}
  <2>1. IsFiniteSet(R)
    BY DEF Loading, Root, Serialized
  <2>2. T = {f[r] : r \in R}
    OBVIOUS
  <2>3. IsFiniteSet(T)
    <3> HIDE DEF R, f, T
    <3> QED BY <2>1, <2>2, ImageFinite
  <2>4. IsFiniteSet(T \cup {DEFAULT_CONTEXT})
    <3> HIDE DEF T
    <3> QED BY <2>3, FS_AddElement
  <2> QED BY <1>1, <2>4 DEF list_all_contexts
<1>2. CASE storage.type = "Split"
  <2> DEFINE D == DOMAIN storage.prefixes
             f == [i \in D |-> storage.prefixes[i].ctx]
             T == {storage.prefixes[i].ctx : i \in D}
  <2>1. Len(storage.prefixes) \in Nat /\ D = 1..Len(storage.prefixes)
    BY LenProperties DEF Loading
  <2>2. IsFiniteSet(D)
    BY <2>1, FS_Interval
  <2>3. T = {f[i] : i \in D}
    OBVIOUS
  <2>4. IsFiniteSet(T)
    <3> HIDE DEF D, f, T
    <3> QED BY <2>2, <2>3, ImageFinite
  <2> QED BY <1>2, <2>4 DEF list_all_contexts
<1>3. CASE storage.type \notin {"Serialized", "Split"}
  <2>1. list_all_contexts = {PRE_SPLIT_CONTEXT}
    BY <1>3 DEF list_all_contexts
  <2> QED BY <2>1, FS_Singleton
<1> QED BY <1>1, <1>2, <1>3

\* The areas that a loop over all of them visits.
AllFiles == {prop_area_files[i] : i \in DOMAIN prop_area_files}

LEMMA FilesAreASequence == ASSUME Loading PROVE prop_area_files \in Seq(AllFiles)
<1> DEFINE n == Cardinality(list_all_contexts)
<1>1. n \in Nat
  BY ContextsFinite, FS_CardinalityType
<1> DEFINE Nth(i) == CHOOSE x \in list_all_contexts :
                       Cardinality({y \in list_all_contexts : y < x}) = i - 1
<1>2. prop_area_files = [i \in 1..n |-> Nth(i)]
  BY DEF prop_area_files, Sorted, Listed
<1> HIDE DEF n, Nth
<1>3. prop_area_files \in [1..n -> AllFiles]
  BY <1>2 DEF AllFiles
<1> QED BY <1>1, <1>3, SeqDef

\* A set of numbers stands in its sorted list whole: each number where those below it have
\* been counted.
LEMMA SortedWhole ==
  ASSUME NEW S \in SUBSET Nat, IsFiniteSet(S), NEW x \in S
  PROVE  \E i \in DOMAIN Sorted(S) : Sorted(S)[i] = x
<1> DEFINE Below(z) == {y \in S : y < z}
<1>1. \A z \in S : IsFiniteSet(Below(z)) /\ Cardinality(Below(z)) \in Nat
  BY FS_Subset, FS_CardinalityType
<1>2. ASSUME NEW z \in S, NEW w \in S, z < w PROVE Cardinality(Below(z)) # Cardinality(Below(w))
  <2>0. z \in Nat /\ w \in Nat /\ S \subseteq Nat
    OBVIOUS
  <2>1. Below(z) \in SUBSET Below(w)
    <3> SUFFICES ASSUME NEW y \in S, y < z PROVE y < w
      OBVIOUS
    <3>1. y \in Nat
      BY <2>0
    <3> QED BY ONLY <2>0, <3>1, y < z, z < w
  <2>2. z \in Below(w) /\ z \notin Below(z)
    BY <1>2, <2>0
  <2> HIDE DEF Below
  <2> QED BY <1>1, <2>1, <2>2, FS_Subset
<1>3. ASSUME NEW z \in S, Cardinality(Below(z)) = Cardinality(Below(x)) PROVE z = x
  <2>1. z < x \/ x < z \/ z = x
    OBVIOUS
  <2> QED BY <1>2, <1>3, <2>1
<1> DEFINE i == Cardinality(Below(x)) + 1
<1>4. i \in 1..Cardinality(S)
  <2>1. Below(x) \in SUBSET S /\ x \notin Below(x)
    OBVIOUS
  <2> HIDE DEF Below
  <2>2. /\ Cardinality(Below(x)) <= Cardinality(S) /\ Cardinality(Below(x)) # Cardinality(S)
        /\ Cardinality(S) \in Nat
    BY <2>1, FS_Subset, FS_CardinalityType
  <2> QED BY <1>1, <2>2
<1>5. Sorted(S)[i] = CHOOSE z \in S : Cardinality(Below(z)) = i - 1
  BY <1>4 DEF Sorted, Listed
<1>6. i - 1 = Cardinality(Below(x))
  BY <1>1
<1> HIDE DEF Below, i
<1>7. Sorted(S)[i] = x
  BY <1>3, <1>5, <1>6
<1> QED BY <1>4, <1>7 DEF Sorted, Listed

LEMMA ContextsAreNumbers == ASSUME Loading PROVE list_all_contexts \in SUBSET Nat
<1>1. CASE storage.type = "Serialized"
  <2>1. \A r \in root.info.rules : r.ctx \in Nat
    BY DEF Loading, Root, AnyRule
  <2>2. DEFAULT_CONTEXT \in Nat
    BY ContextsAssumption
  <2> QED BY <1>1, <2>1, <2>2 DEF list_all_contexts
<1>2. CASE storage.type = "Split"
  <2>1. \A i \in DOMAIN storage.prefixes : storage.prefixes[i] \in AnyRule
    BY ElementOfSeq, LenProperties DEF Loading
  <2>2. \A i \in DOMAIN storage.prefixes : storage.prefixes[i].ctx \in Nat
    BY <2>1 DEF AnyRule
  <2> QED BY <1>2, <2>2 DEF list_all_contexts
<1>3. CASE storage.type \notin {"Serialized", "Split"}
  <2>1. list_all_contexts = {PRE_SPLIT_CONTEXT}
    BY <1>3 DEF list_all_contexts
  <2> QED BY <2>1, ContextsAssumption
<1> QED BY <1>1, <1>2, <1>3

\* The loop leaves no context out.
LEMMA EveryContextListed == ASSUME Loading PROVE list_all_contexts \subseteq AllFiles
<1> DEFINE S == list_all_contexts
<1>1. S \in SUBSET Nat /\ IsFiniteSet(S)
  BY ContextsAreNumbers, ContextsFinite
<1> HIDE DEF S
<1>2. \A x \in S : \E i \in DOMAIN Sorted(S) : Sorted(S)[i] = x
  BY <1>1, SortedWhole
<1> QED BY <1>2 DEF S, AllFiles, prop_area_files

\* The path of a context is the context itself, but in a PreSplit root, which has one.
LEMMA PathOfFile ==
  ASSUME Loading, NEW i \in DOMAIN prop_area_files
  PROVE  context_file_path(prop_area_files[i]) = prop_area_files[i]
<1>1. CASE storage.type = "PreSplit"
  <2> DEFINE S == {PRE_SPLIT_CONTEXT}
  <2>1. list_all_contexts = S
    BY <1>1 DEF list_all_contexts
  <2>2. Cardinality(S) = 1
    BY FS_Singleton
  <2> DEFINE Nth(j) == CHOOSE x \in S : Cardinality({y \in S : y < x}) = j - 1
  <2>3. prop_area_files = [j \in 1..1 |-> Nth(j)]
    BY <2>1, <2>2 DEF prop_area_files, Sorted, Listed
  <2>4. Cardinality({y \in S : y < PRE_SPLIT_CONTEXT}) = 1 - 1
    <3>1. {y \in S : y < PRE_SPLIT_CONTEXT} = {}
      BY ContextsAssumption
    <3> QED BY <3>1, FS_EmptySet
  <2>5. i = 1 /\ prop_area_files[1] = PRE_SPLIT_CONTEXT
    <3>1. Nth(1) \in S
      BY <2>4
    <3> HIDE DEF Nth
    <3> QED BY <2>3, <3>1
  <2> QED BY <1>1, <2>5 DEF context_file_path
<1>2. CASE storage.type # "PreSplit"
  BY <1>2 DEF context_file_path
<1> QED BY <1>1, <1>2

LEMMA SameFiles == ASSUME UNCHANGED <<root, storage>> PROVE AllFiles' = AllFiles
<1>1. list_all_contexts' = list_all_contexts
  BY DEF list_all_contexts
<1>2. prop_area_files' = prop_area_files
  BY <1>1 DEF prop_area_files, Sorted, Listed
<1> QED BY <1>2 DEF AllFiles

-------------------------------------------------------------------------------
(***************************************************************************)
(* The compaction of all areas.                                            *)
(***************************************************************************)
Filled(p) == p \in DOMAIN areas /\ areas[p].is = "ok" => ~areas[p].holes
Ahead(p) == \E j \in DOMAIN cmd.todo : cmd.todo[j] = p

\* Each area has been filled, or could not be, or is still ahead; the one that is being
\* flushed has been filled.
Reaching ==
  cmd.op = "compact" /\ cmd.via = "all" =>
    /\ cmd.pc \in {"area", "flush"} =>
         cmd.todo \in Seq(AllFiles) /\ \A p \in AllFiles : Filled(p) \/ Ahead(p)
    /\ cmd.pc = "flush" => cmd.todo # <<>> /\ Filled(path)
    /\ cmd.pc \notin {"file", "save"}
    /\ ~Running /\ exit = "ok" => \A p \in AllFiles : Filled(p)

Compacts == cmd.op = "compact" /\ cmd.via = "all"

Compacting == Loading /\ Works /\ Reaching

LEMMA ReachingInvoke == ASSUME NEW c, Proper(c), Invoke(c) PROVE Reaching'
<1>1. CASE c.via = "all"
  <2>1. cmd' = [c EXCEPT !.pc = "context"]
    BY <1>1 DEF Invoke
  <2> QED BY <2>1 DEF Proper, Reaching, Running
<1>2. CASE c.via # "all"
  <2>1. PICK pc : cmd' = [c EXCEPT !.pc = pc]
    BY DEF Invoke
  <2> QED BY <1>2, <2>1 DEF Proper, Reaching
<1> QED BY <1>1, <1>2

LEMMA ReachingCommand ==
  ASSUME Works, KeyCommands \/ AreaCommands \/ PathCommands PROVE Reaching'
<1> DEFINE Goes(c) == Proper(c) /\ Invoke(c)
<1>1. SomeKey \in Keys
  BY KeysAssumption DEF SomeKey
<1>2. \E c : Goes(c)
  <2>1. CASE KeyCommands
    BY <1>1, <2>1 DEF KeyCommands, Ask, NoCommand, Proper
  <2>2. CASE AreaCommands
    BY <1>1, <2>2 DEF AreaCommands, Ask, NoCommand, Proper
  <2>3. CASE PathCommands
    BY <1>1, <2>3 DEF PathCommands, Ask, NoCommand, Proper
  <2> QED BY <2>1, <2>2, <2>3
<1> QED BY <1>2, ReachingInvoke

\* A step that ends a command with something else than success, or another command.
LEMMA ReachingOther ==
  ASSUME Works, IsCommand(cmd)', cmd'.op = cmd.op, cmd'.via = cmd.via,
         ~Compacts \/ (cmd'.pc = "exited" /\ exit' # "ok")
  PROVE  Reaching'
BY DEF Reaching, Compacts, Running

\* Going on to the next area, past one that is filled or cannot be.
LEMMA ReachingContinue ==
  ASSUME Works, Reaching, Compacts, Running, At("area") \/ At("flush"), cmd.todo # <<>>,
         Filled(path), Continue, UNCHANGED <<root, storage, areas>>
  PROVE  Reaching'
<1>1. /\ IsCommand(cmd)' /\ cmd'.pc = "area" /\ cmd'.todo = Tail(cmd.todo)
      /\ cmd'.op = "compact" /\ cmd'.via = "all"
  BY DEF Works, Continue, Compacts
<1>2. cmd.todo \in Seq(AllFiles) /\ \A p \in AllFiles : Filled(p) \/ Ahead(p)
  BY DEF Reaching, Compacts, At
<1>3. AllFiles' = AllFiles
  BY SameFiles
<1>4. Tail(cmd.todo) \in Seq(AllFiles)
  BY <1>2
<1>5. ASSUME NEW p \in AllFiles PROVE Filled(p)' \/ Ahead(p)'
  <2>1. CASE Filled(p)
    BY <2>1 DEF Filled
  <2>2. CASE ~Filled(p)
    <3>1. PICK j \in DOMAIN cmd.todo : cmd.todo[j] = p
      BY <1>2, <2>2 DEF Ahead
    <3>2. j # 1
      BY <2>2, <3>1 DEF path
    <3>3. j - 1 \in DOMAIN Tail(cmd.todo) /\ Tail(cmd.todo)[j - 1] = p
      BY <1>2, <3>1, <3>2
    <3> QED BY <1>1, <3>3 DEF Ahead
  <2> QED BY <2>1, <2>2
<1> QED BY <1>1, <1>3, <1>4, <1>5 DEF Reaching, Running

LEMMA ReachingResolve == ASSUME Loading, Works, Reaching, Resolve PROVE Reaching'
<1>1. CASE Compacts
  <2>1. /\ cmd' = [cmd EXCEPT !.pc = "area", !.todo = prop_area_files]
        /\ UNCHANGED <<root, storage, areas>>
    BY <1>1 DEF Resolve, Compacts, contextVars, stores
  <2>2. prop_area_files \in Seq(AllFiles) /\ AllFiles' = AllFiles
    BY <2>1, FilesAreASequence, SameFiles
  <2>3. \A p \in AllFiles : Ahead(p)'
    BY <2>1 DEF AllFiles, Ahead, Works
  <2> QED BY <2>1, <2>2, <2>3 DEF Works, Reaching, Running
<1>2. CASE ~Compacts
  <2>1. PICK todo : cmd' = [cmd EXCEPT !.pc = "area", !.todo = todo]
    BY DEF Resolve
  <2> QED BY <1>2, <2>1, ReachingOther DEF Works
<1> QED BY <1>1, <1>2

LEMMA ReachingCompact == ASSUME Works, Reaching, Compact PROVE Reaching'
<1>1. /\ At("area") /\ cmd.todo # <<>> /\ path \in DOMAIN areas /\ cmd.op = "compact"
      /\ areas' = [areas EXCEPT ![path].holes = FALSE]
      /\ cmd' = [cmd EXCEPT !.pc = "flush"] /\ UNCHANGED <<root, storage>>
  BY DEF Compact, Opened, Visiting, Opens, Missing, Goto, contextVars
<1>2. areas[path] \in Area
  BY <1>1 DEF Works, TypeOK
<1>3. areas'[path].holes = FALSE /\ \A p \in DOMAIN areas : p # path => areas'[p] = areas[p]
  BY <1>1, <1>2 DEF Area
<1>4. \A p : Filled(p) => Filled(p)'
  BY <1>1, <1>3 DEF Filled
<1>5. IsCommand(cmd)' /\ cmd'.pc = "flush" /\ cmd'.op = cmd.op /\ cmd'.via = cmd.via /\ cmd'.todo = cmd.todo
  BY <1>1 DEF Works
<1>6. Filled(path)'
  BY <1>1, <1>3, <1>5 DEF Filled, path
<1>7. AllFiles' = AllFiles
  BY <1>1, SameFiles
<1> QED BY <1>1, <1>4, <1>5, <1>6, <1>7 DEF Reaching, Running, At, Ahead

LEMMA ReachingVisit ==
  ASSUME Works, Reaching, AllVisited \/ OpenFails \/ CompactBroken PROVE Reaching'
<1>1. At("area") /\ Running /\ UNCHANGED <<root, storage, areas>>
  BY DEF AllVisited, OpenFails, CompactBroken, Opened, Visiting, At, Running, contextVars, stores
<1>2. CASE ~Compacts
  <2>1. (\E how : Exit(how)) \/ Continue
    BY DEF AllVisited, OpenFails, CompactBroken
  <2>2. IsCommand(cmd)' /\ cmd'.op = cmd.op /\ cmd'.via = cmd.via
    BY <2>1 DEF Works, Exit, Continue
  <2> QED BY <1>2, <2>2, ReachingOther
<1>3. CASE Compacts /\ AllVisited
  <2>1. /\ cmd.todo = <<>> /\ exit' = "ok"
        /\ cmd' = [cmd EXCEPT !.pc = "exited", !.todo = <<>>]
    BY <1>3 DEF AllVisited, Exit
  <2>2. \A p \in AllFiles : Filled(p)
    BY <1>1, <1>3, <2>1 DEF Reaching, Compacts, At, Ahead
  <2>3. AllFiles' = AllFiles
    BY <1>1, SameFiles
  <2>4. IsCommand(cmd)' /\ cmd'.pc = "exited"
    BY <2>1 DEF Works
  <2> QED BY <1>1, <2>2, <2>3, <2>4 DEF Reaching, Filled
<1>4. CASE Compacts /\ (OpenFails \/ CompactBroken)
  <2>1. ~Specific
    BY <1>4 DEF Compacts, Specific
  <2>2. Continue /\ cmd.todo # <<>>
    BY <1>4, <2>1 DEF OpenFails, CompactBroken, Opened, Visiting
  <2>3. Filled(path)
    BY <1>4 DEF OpenFails, CompactBroken, Opened, Opens, Missing, area, Unusable, Filled
  <2> QED BY <1>1, <1>4, <2>2, <2>3, ReachingContinue
<1> QED BY <1>2, <1>3, <1>4

LEMMA ReachingFlush == ASSUME Works, Reaching, Flush \/ FlushFails PROVE Reaching'
<1>1. At("flush") /\ Running /\ UNCHANGED <<root, storage, areas>>
  BY DEF Flush, FlushFails, At, Running, contextVars, stores
<1>2. CASE ~Compacts
  <2>1. (\E how : Exit(how)) \/ Continue \/ Goto("file")
    <3>1. CASE FlushFails
      BY <3>1 DEF FlushFails
    <3>2. CASE Flush /\ cmd.op # "compact" /\ Persistent
      BY <3>2 DEF Flush
    <3>3. CASE Flush /\ cmd.op # "compact" /\ ~Persistent
      BY <3>3 DEF Flush
    <3>4. CASE Flush /\ cmd.op = "compact"
      <4>1. ~Persistent
        BY <3>4 DEF Persistent, Works, Heading, TypeOK
      <4> QED BY <3>4, <4>1 DEF Flush
    <3> QED BY <3>1, <3>2, <3>3, <3>4
  <2>2. IsCommand(cmd)' /\ cmd'.op = cmd.op /\ cmd'.via = cmd.via
    BY <2>1 DEF Works, Exit, Continue, Goto
  <2> QED BY <1>2, <2>2, ReachingOther
<1>3. CASE Compacts
  <2>1. Continue
    <3>1. ~Persistent /\ ~Specific /\ cmd.op = "compact"
      BY <1>3 DEF Compacts, Persistent, Specific
    <3>2. CASE Flush
      BY <3>1, <3>2 DEF Flush
    <3>3. CASE FlushFails
      BY <3>1, <3>3 DEF FlushFails
    <3> QED BY <3>2, <3>3
  <2>2. cmd.todo # <<>> /\ Filled(path)
    BY <1>1, <1>3 DEF Reaching, Compacts, At
  <2> QED BY <1>1, <1>3, <2>1, <2>2, ReachingContinue
<1> QED BY <1>2, <1>3

\* The steps of other commands.
LEMMA ReachingRest ==
  ASSUME Works, Reaching,
         Lookup \/ List \/ ListBroken \/ Scan \/ Set \/ SetFails \/ Delete \/ DeleteNothing
         \/ DeleteFails \/ FileGet \/ FileList \/ FileSet \/ FileDelete
  PROVE  Reaching'
<1>1. cmd.op # "compact"
  BY DEF Lookup, List, ListBroken, Scan, Set, SetFails, Delete, DeleteNothing, DeleteFails,
     FileGet, FileList, FileSet, FileDelete, Opened
<1>2. IsCommand(cmd)' /\ cmd'.op = cmd.op /\ cmd'.via = cmd.via
  <2>1. CASE (\E how : Exit(how)) \/ Continue \/ Goto("flush")
    BY <2>1 DEF Works, Exit, Continue, Goto
  <2>2. CASE List
    BY <2>2 DEF Works, List
  <2>3. CASE Delete
    BY <2>3 DEF Works, Delete
  <2>4. CASE \E new : cmd' = [cmd EXCEPT !.pc = "save", !.props = new]
    BY <2>4 DEF Works
  <2>5. FileSet => \E new : cmd' = [cmd EXCEPT !.pc = "save", !.props = new]
    BY DEF FileSet
  <2>6. FileDelete => \/ \E how : Exit(how)
                      \/ \E new : cmd' = [cmd EXCEPT !.pc = "save", !.props = new]
    BY DEF FileDelete
  <2>7. Lookup \/ ListBroken \/ Scan \/ Set \/ SetFails \/ DeleteNothing \/ DeleteFails
        \/ FileGet \/ FileList => (\E how : Exit(how)) \/ Continue \/ Goto("flush")
    BY DEF Lookup, ListBroken, Scan, Set, SetFails, DeleteNothing, DeleteFails, FileGet, FileList
  <2> QED BY <2>1, <2>2, <2>3, <2>4, <2>5, <2>6, <2>7
<1> QED BY <1>1, <1>2, ReachingOther DEF Compacts

\* The ends that are no success, and those that a compaction does not come to.
LEMMA ReachingEnds ==
  ASSUME Works, Reaching, Kill \/ LoadContextFails \/ LoadFails \/ Save \/ SaveFails
  PROVE  Reaching'
<1>1. PICK how : Exit(how) /\ (how = "ok" => At("save"))
  BY DEF Kill, LoadContextFails, LoadFails, Save, SaveFails
<1>2. /\ IsCommand(cmd)' /\ cmd'.op = cmd.op /\ cmd'.via = cmd.via /\ cmd'.pc = "exited"
      /\ exit' = how
  BY <1>1 DEF Works, Exit
<1>3. Compacts => ~At("save")
  BY DEF Reaching, Compacts, At
<1> QED BY <1>1, <1>2, <1>3, ReachingOther

LEMMA CompactingNext == ASSUME Compacting, [Next]_vars PROVE Compacting'
<1>1. Loading' /\ Works'
  BY LoadingNext, WorksNext DEF Compacting
<1>2. CASE UNCHANGED vars
  <2>1. UNCHANGED <<root, storage, areas, cmd, exit>>
    BY <1>2 DEF vars, contextVars, stores
  <2>2. AllFiles' = AllFiles
    BY <2>1, SameFiles
  <2> QED BY <1>1, <2>1, <2>2 DEF Compacting, Reaching, Filled, Ahead, Running, path
<1>3. CASE LoadContext
  <2>1. At("context") /\ UNCHANGED cmd
    BY <1>3 DEF LoadContext
  <2> QED BY <1>1, <2>1 DEF Compacting, Reaching, At, Running
<1>4. CASE Next /\ ~LoadContext
  BY <1>1, <1>4, ReachingCommand, ReachingResolve, ReachingCompact, ReachingVisit, ReachingFlush,
     ReachingRest, ReachingEnds DEF Compacting, Next
<1> QED BY <1>2, <1>3, <1>4

(***************************************************************************)
(* A compaction of all areas that reports no error has passed over none    *)
(* for the sake of another, whichever of them are missing, denied, corrupt *)
(* or fail to be flushed: each one that it could write has no hole left    *)
(* (cmd_compact).                                                          *)
(***************************************************************************)
THEOREM NonePassedOver == Spec => []CompactReachesAll
<1>1. Init => Compacting
  BY LoadingInit, WorksInit DEF Init, Compacting, Reaching, NoCommand
<1>2. Compacting => CompactReachesAll
  BY PathOfFile DEF Compacting, Reaching, Filled, AllFiles, CompactReachesAll, Succeeded
<1> QED BY <1>1, <1>2, CompactingNext, PTL DEF Spec

(***************************************************************************)
(* The list that the loop goes by (prop_area_files) leaves none out        *)
(* either: what the command promises holds of the area of every context    *)
(* that the rules it has loaded name (cmd_compact).                        *)
(***************************************************************************)
EveryContextCompacted ==
  Succeeded("compact", "all") =>
    \A c \in list_all_contexts :
      LET p == context_file_path(c) IN
      p \in DOMAIN areas /\ areas[p].is = "ok" => ~areas[p].holes

THEOREM NoContextPassedOver == Spec => []EveryContextCompacted
<1>1. Init => Compacting
  BY LoadingInit, WorksInit DEF Init, Compacting, Reaching, NoCommand
<1>2. Compacting => EveryContextCompacted
  <2> SUFFICES ASSUME Compacting, Succeeded("compact", "all"), NEW c \in list_all_contexts
               PROVE  Filled(context_file_path(c))
    BY DEF EveryContextCompacted, Filled
  <2>1. PICK i \in DOMAIN prop_area_files : prop_area_files[i] = c
    BY EveryContextListed DEF Compacting, AllFiles
  <2> QED BY <2>1, PathOfFile DEF Compacting, Reaching, AllFiles, Succeeded
<1> QED BY <1>1, <1>2, CompactingNext, PTL DEF Spec

(***************************************************************************)
(* A finite set in order: below has what goes before each of its members.  *)
(***************************************************************************)
InLine(S, below) ==
  /\ IsFiniteSet(S) /\ below \in [S -> SUBSET S]
  /\ \A x \in S : x \notin below[x]
  /\ \A x, y \in S : x \in below[y] => below[x] \subseteq below[y]
  /\ \A x, y \in S : x # y => x \in below[y] \/ y \in below[x]

\* The number of those before it is the place of a member, and each place is taken.
LEMMA RankOnto ==
  ASSUME NEW S, NEW below, InLine(S, below)
  PROVE  /\ \A x \in S : Cardinality(below[x]) \in Nat
         /\ \A x, y \in S : x \in below[y] => Cardinality(below[x]) < Cardinality(below[y])
         /\ \A i \in 1..Cardinality(S) : \E x \in S : Cardinality(below[x]) = i - 1
<1> DEFINE n == Cardinality(S)
           rank == [x \in S |-> Cardinality(below[x])]
<1>1. /\ IsFiniteSet(S) /\ n \in Nat
      /\ \A x \in S : below[x] \in SUBSET S /\ x \notin below[x]
      /\ \A x, y \in S : x \in below[y] => below[x] \subseteq below[y]
      /\ \A x, y \in S : x # y => x \in below[y] \/ y \in below[x]
  BY FS_CardinalityType DEF InLine
<1>2. \A x \in S : IsFiniteSet(below[x]) /\ Cardinality(below[x]) \in Nat
  BY <1>1, FS_Subset, FS_CardinalityType
<1>3. ASSUME NEW x \in S, NEW y \in S, x \in below[y]
      PROVE  Cardinality(below[x]) < Cardinality(below[y])
  <2>1. below[x] \in SUBSET below[y] /\ below[x] # below[y]
    BY <1>1, <1>3
  <2>2. Cardinality(below[x]) <= Cardinality(below[y]) /\ Cardinality(below[x]) # Cardinality(below[y])
    BY <1>2, <2>1, FS_Subset
  <2> QED BY <1>2, <2>2
<1>4. rank \in [S -> 0..(n - 1)]
  <2> SUFFICES ASSUME NEW x \in S PROVE Cardinality(below[x]) \in 0..(n - 1)
    OBVIOUS
  <2>1. Cardinality(below[x]) <= n /\ Cardinality(below[x]) # n
    <3>1. below[x] \in SUBSET S /\ below[x] # S
      BY <1>1
    <3> QED BY <1>1, <3>1, FS_Subset
  <2> QED BY <1>1, <1>2, <2>1
<1>5. rank \in Injection(S, 0..(n - 1))
  <2> SUFFICES ASSUME NEW x \in S, NEW y \in S, rank[x] = rank[y] PROVE x = y
    BY <1>4 DEF Injection, IsInjective
  <2>1. Cardinality(below[x]) = Cardinality(below[y])
    OBVIOUS
  <2> QED BY <1>1, <1>2, <1>3, <2>1
<1>6. IsFiniteSet(0..(n - 1)) /\ Cardinality(0..(n - 1)) = n
  <2>1. IsFiniteSet(0..(n - 1)) /\ Cardinality(0..(n - 1)) = IF 0 > n - 1 THEN 0 ELSE (n - 1) - 0 + 1
    BY <1>1, FS_Interval
  <2> HIDE DEF n
  <2> QED BY <1>1, <2>1
<1> HIDE DEF rank
<1>7. rank \in Surjection(S, 0..(n - 1))
  BY <1>5, <1>6, FS_Injection
<1>8. ASSUME NEW i \in 1..n PROVE \E x \in S : Cardinality(below[x]) = i - 1
  <2>1. i - 1 \in 0..(n - 1)
    BY <1>1
  <2>2. PICK x \in S : rank[x] = i - 1
    BY <1>7, <2>1 DEF Surjection
  <2> QED BY <2>2 DEF rank
<1> QED BY <1>2, <1>3, <1>8

\* A list of the set by place.
ListOf(S, below, s) ==
  s \in [1..Cardinality(S) -> S] /\ \A i \in 1..Cardinality(S) : Cardinality(below[s[i]]) = i - 1

LEMMA ListIsWhole ==
  ASSUME NEW S, NEW below, InLine(S, below), NEW s, ListOf(S, below, s)
  PROVE  /\ s \in Seq(S) /\ Len(s) \in Nat /\ DOMAIN s = 1..Len(s)
         /\ \A i \in 1..Len(s) : s[i] \in S
         /\ \A x \in S : \E i \in 1..Len(s) : s[i] = x
         /\ \A i, j \in 1..Len(s) : i < j => s[i] \in below[s[j]] /\ s[i] # s[j]
<1> DEFINE n == Cardinality(S)
<1>1. n \in Nat
  BY FS_CardinalityType DEF InLine
<1>2. s \in [1..n -> S] /\ \A i \in 1..n : Cardinality(below[s[i]]) = i - 1
  BY DEF ListOf
<1> HIDE DEF n
<1>3. s \in Seq(S) /\ Len(s) = n /\ DOMAIN s = 1..n /\ \A i \in 1..n : s[i] \in S
  BY <1>1, <1>2, SeqDef, LenProperties
<1>4. ASSUME NEW x \in S PROVE \E i \in 1..n : s[i] = x
  <2> DEFINE i == Cardinality(below[x]) + 1
  <2>1. Cardinality(below[x]) \in 0..(n - 1)
    <3>1. below[x] \in SUBSET S /\ below[x] # S /\ IsFiniteSet(S)
      BY DEF InLine
    <3>2. Cardinality(below[x]) <= n /\ Cardinality(below[x]) # n
      BY <3>1, FS_Subset DEF n
    <3> QED BY <1>1, <3>2, RankOnto
  <2>2. i \in 1..n /\ i - 1 = Cardinality(below[x])
    BY <1>1, <2>1
  <2>3. Cardinality(below[s[i]]) = Cardinality(below[x]) /\ s[i] \in S
    BY <1>2, <1>3, <2>2
  <2>4. s[i] = x
    <3>1. \A y, z \in S : y \in below[z] => Cardinality(below[y]) < Cardinality(below[z])
      BY RankOnto
    <3>2. \A y \in S : Cardinality(below[y]) \in Nat
      BY RankOnto
    <3>3. s[i] # x => s[i] \in below[x] \/ x \in below[s[i]]
      BY <2>3 DEF InLine
    <3> HIDE DEF i
    <3> QED BY <2>3, <3>1, <3>2, <3>3
  <2> QED BY <2>2, <2>4
<1>5. ASSUME NEW i \in 1..n, NEW j \in 1..n, i < j PROVE s[i] \in below[s[j]] /\ s[i] # s[j]
  <2>1. Cardinality(below[s[i]]) = i - 1 /\ Cardinality(below[s[j]]) = j - 1
    BY <1>2
  <2>2. s[i] # s[j]
    BY <1>5, <2>1
  <2>3. s[i] \in below[s[j]] \/ s[j] \in below[s[i]]
    BY <1>3, <2>2 DEF InLine
  <2>4. s[j] \in below[s[i]] => j - 1 < i - 1
    BY <1>3, <2>1, RankOnto
  <2> QED BY <1>5, <2>2, <2>3, <2>4
<1> QED BY <1>1, <1>3, <1>4, <1>5

-------------------------------------------------------------------------------
(***************************************************************************)
(* The order of the children of a node, which the binary search goes by.   *)
(***************************************************************************)
\* The segments of C strings.
CPiece == {s \in Seq(Nat) : \A j \in DOMAIN s : s[j] # 0}

\* The first difference decides, and a shorter string has a 0 there.
AgreeBelow(x, y, i) == \A j \in 1..(i - 1) : ByteOr0(x, j) = ByteOr0(y, j)
Smaller(x, y) == \E i \in Nat \ {0} : ByteOr0(x, i) < ByteOr0(y, i) /\ AgreeBelow(x, y, i)

LEMMA ByteType ==
  ASSUME NEW x \in CPiece
  PROVE  /\ Len(x) \in Nat /\ DOMAIN x = 1..Len(x)
         /\ \A i \in Nat \ {0} : /\ ByteOr0(x, i) \in Nat
                                 /\ ByteOr0(x, i) # 0 <=> i <= Len(x)
                                 /\ i <= Len(x) => ByteOr0(x, i) = x[i]
<1>1. x \in Seq(Nat) /\ Len(x) \in Nat /\ DOMAIN x = 1..Len(x) /\ \A j \in DOMAIN x : x[j] # 0
  BY LenProperties DEF CPiece
<1>2. \A j \in 1..Len(x) : x[j] \in Nat
  BY <1>1, ElementOfSeq
<1> QED BY <1>1, <1>2 DEF ByteOr0

LEMMA SamePiece ==
  ASSUME NEW x \in CPiece, NEW y \in CPiece,
         \A i \in Nat \ {0} : ByteOr0(x, i) = ByteOr0(y, i)
  PROVE  x = y
<1>1. Len(x) = Len(y)
  <2>1. Len(x) \in Nat /\ Len(y) \in Nat
    BY ByteType
  <2>2. CASE Len(x) = 0 \/ Len(y) = 0
    <3>1. Len(x) # 0 => Len(x) \in Nat \ {0} /\ Len(x) <= Len(y)
      BY <2>1, ByteType
    <3>2. Len(y) # 0 => Len(y) \in Nat \ {0} /\ Len(y) <= Len(x)
      BY <2>1, ByteType
    <3> QED BY <2>1, <2>2, <3>1, <3>2
  <2>3. CASE Len(x) # 0 /\ Len(y) # 0
    <3>1. Len(x) <= Len(y)
      BY <2>1, <2>3, ByteType
    <3>2. Len(y) <= Len(x)
      BY <2>1, <2>3, ByteType
    <3> QED BY <2>1, <3>1, <3>2
  <2> QED BY <2>2, <2>3
<1>2. \A i \in 1..Len(x) : x[i] = y[i]
  BY <1>1, ByteType
<1> QED BY <1>1, <1>2, SeqEqual, ByteType DEF CPiece

LEMMA SmallerOrders ==
  ASSUME NEW x \in CPiece, NEW y \in CPiece
  PROVE  /\ ~Smaller(x, x)
         /\ Smaller(x, y) => ~Smaller(y, x)
         /\ x # y => Smaller(x, y) \/ Smaller(y, x)
<1>1. ~Smaller(x, x)
  BY ByteType DEF Smaller
<1>2. ASSUME Smaller(x, y), Smaller(y, x) PROVE FALSE
  <2>1. PICK i \in Nat \ {0} : ByteOr0(x, i) < ByteOr0(y, i) /\ AgreeBelow(x, y, i)
    BY <1>2 DEF Smaller
  <2>2. PICK k \in Nat \ {0} : ByteOr0(y, k) < ByteOr0(x, k) /\ AgreeBelow(y, x, k)
    BY <1>2 DEF Smaller
  <2>3. /\ ByteOr0(x, i) \in Nat /\ ByteOr0(y, i) \in Nat
        /\ ByteOr0(x, k) \in Nat /\ ByteOr0(y, k) \in Nat
    BY ByteType
  <2>4. i < k => ByteOr0(y, i) = ByteOr0(x, i)
    BY <2>2 DEF AgreeBelow
  <2>5. k < i => ByteOr0(x, k) = ByteOr0(y, k)
    BY <2>1 DEF AgreeBelow
  <2> QED BY <2>1, <2>2, <2>3, <2>4, <2>5
<1>3. ASSUME x # y PROVE Smaller(x, y) \/ Smaller(y, x)
  <2> DEFINE D == {i \in Nat \ {0} : ByteOr0(x, i) # ByteOr0(y, i)}
  <2>1. PICK i \in D : \A k \in D : i <= k
    <3>1. D \in SUBSET Nat /\ D # {}
      BY <1>3, SamePiece
    <3> HIDE DEF D
    <3> QED BY <3>1, LeastOf
  <2>2. AgreeBelow(x, y, i) /\ AgreeBelow(y, x, i)
    BY <2>1 DEF AgreeBelow
  <2>3. ByteOr0(x, i) \in Nat /\ ByteOr0(y, i) \in Nat /\ ByteOr0(x, i) # ByteOr0(y, i)
    BY <2>1, ByteType
  <2> QED BY <2>2, <2>3 DEF Smaller
<1> QED BY <1>1, <1>2, <1>3

LEMMA SmallerGoesOn ==
  ASSUME NEW x \in CPiece, NEW y \in CPiece, NEW z \in CPiece, Smaller(x, y), Smaller(y, z)
  PROVE  Smaller(x, z)
<1>1. PICK i \in Nat \ {0} : ByteOr0(x, i) < ByteOr0(y, i) /\ AgreeBelow(x, y, i)
  BY DEF Smaller
<1>2. PICK k \in Nat \ {0} : ByteOr0(y, k) < ByteOr0(z, k) /\ AgreeBelow(y, z, k)
  BY DEF Smaller
<1> DEFINE m == IF i <= k THEN i ELSE k
<1>3. m \in Nat \ {0} /\ m <= i /\ m <= k
  OBVIOUS
<1>4. AgreeBelow(x, z, m)
  BY <1>1, <1>2, <1>3 DEF AgreeBelow
<1>5. /\ ByteOr0(x, i) \in Nat /\ ByteOr0(y, i) \in Nat /\ ByteOr0(z, i) \in Nat
      /\ ByteOr0(x, k) \in Nat /\ ByteOr0(y, k) \in Nat /\ ByteOr0(z, k) \in Nat
  BY ByteType
<1>6. ByteOr0(x, m) < ByteOr0(z, m)
  <2>1. i < k => ByteOr0(y, i) = ByteOr0(z, i)
    BY <1>2 DEF AgreeBelow
  <2>2. k < i => ByteOr0(x, k) = ByteOr0(y, k)
    BY <1>1 DEF AgreeBelow
  <2> QED BY <1>1, <1>2, <1>5, <2>1, <2>2
<1> HIDE DEF m
<1> QED BY <1>3, <1>4, <1>6 DEF Smaller

\* What strncmp_piece tells of two C strings.
LEMMA CompareTells ==
  ASSUME NEW x \in CPiece, NEW y \in CPiece
  PROVE  /\ strncmp_piece(x, y) \in Int
         /\ strncmp_piece(x, y) < 0 <=> Smaller(x, y)
         /\ strncmp_piece(x, y) = 0 <=> x = y
<1> DEFINE diff == {i \in DOMAIN y : ByteOr0(x, i) # y[i]}
           at == CHOOSE i \in diff : \A j \in diff : i <= j
           cmp == strncmp_piece(x, y)
<1>1. /\ Len(x) \in Nat /\ Len(y) \in Nat /\ DOMAIN y = 1..Len(y)
      /\ \A i \in 1..Len(y) : ByteOr0(y, i) = y[i] /\ y[i] # 0
  BY ByteType
<1>2. cmp = IF diff # {} THEN ByteOr0(x, at) - y[at] ELSE IF Len(x) > Len(y) THEN 1 ELSE 0
  BY DEF strncmp_piece
<1>3. \/ cmp \in Int /\ cmp < 0 /\ Smaller(x, y)
      \/ cmp = 0 /\ x = y
      \/ cmp \in Int /\ cmp > 0 /\ Smaller(y, x)
  <2>1. CASE diff # {}
    <3>1. at \in diff /\ \A j \in diff : at <= j
      <4>1. diff \in SUBSET Nat
        BY <1>1
      <4> HIDE DEF diff
      <4> QED BY <2>1, <4>1, LeastOf
    <3> HIDE DEF at
    <3>2. at \in 1..Len(y) /\ ByteOr0(x, at) # ByteOr0(y, at) /\ ByteOr0(y, at) = y[at]
      BY <1>1, <3>1
    <3>3. AgreeBelow(x, y, at) /\ AgreeBelow(y, x, at)
      <4> SUFFICES ASSUME NEW j \in 1..(at - 1) PROVE ByteOr0(x, j) = ByteOr0(y, j)
        BY DEF AgreeBelow
      <4>1. j \in 1..Len(y) /\ ~(at <= j)
        BY <1>1, <3>2
      <4>2. j \notin diff
        BY <3>1, <4>1
      <4> QED BY <1>1, <4>1, <4>2
    <3>4. at \in Nat \ {0} /\ ByteOr0(x, at) \in Nat /\ ByteOr0(y, at) \in Nat
      BY <3>2, ByteType
    <3>5. cmp = ByteOr0(x, at) - ByteOr0(y, at)
      BY <1>2, <2>1, <3>2
    <3> HIDE DEF cmp
    <3> QED BY <3>2, <3>3, <3>4, <3>5 DEF Smaller
  <2>2. CASE diff = {} /\ Len(x) > Len(y)
    <3> DEFINE i == Len(y) + 1
    <3>1. i \in Nat \ {0} /\ i <= Len(x) /\ ~(i <= Len(y))
      BY <1>1, <2>2
    <3>2. ByteOr0(y, i) = 0 /\ ByteOr0(x, i) \in Nat /\ ByteOr0(x, i) # 0
      BY <3>1, ByteType
    <3>3. AgreeBelow(y, x, i)
      BY <1>1, <2>2 DEF AgreeBelow
    <3>4. Smaller(y, x)
      <4> HIDE DEF i
      <4> QED BY <3>1, <3>2, <3>3 DEF Smaller
    <3> QED BY <1>2, <2>2, <3>4
  <2>3. CASE diff = {} /\ ~(Len(x) > Len(y))
    <3>1. \A i \in 1..Len(y) : ByteOr0(x, i) = y[i]
      BY <1>1, <2>3
    <3>2. \A i \in Nat \ {0} : ByteOr0(x, i) = ByteOr0(y, i)
      <4> SUFFICES ASSUME NEW i \in Nat \ {0} PROVE ByteOr0(x, i) = ByteOr0(y, i)
        OBVIOUS
      <4>1. CASE i <= Len(y)
        BY <1>1, <3>1, <4>1
      <4>2. CASE ~(i <= Len(y))
        <5>1. ~(i <= Len(x))
          BY <1>1, <2>3, <4>2
        <5> QED BY <4>2, <5>1, ByteType
      <4> QED BY <4>1, <4>2
    <3>3. x = y
      BY <3>2, SamePiece
    <3> QED BY <1>2, <2>3, <3>3
  <2> QED BY <2>1, <2>2, <2>3
<1> HIDE DEF cmp
<1> QED BY <1>3, SmallerOrders DEF cmp

-------------------------------------------------------------------------------
(***************************************************************************)
(* The binary search for a child.                                          *)
(***************************************************************************)
\* The children of a node as the search needs them.
InByteOrder(children) ==
  /\ children \in Seq(CPiece)
  /\ \A i, j \in 1..Len(children) : i < j => Smaller(children[i], children[j])

\* What a search between two places is to find.
Between(children, piece, lo, hi) == {i \in 1..Len(children) : lo <= i /\ i <= hi /\ children[i] = piece}

\* A turn of the search.
Middle(lo, hi) == (lo + hi) \div 2
SearchTurn(children, piece, f, lo, hi) ==
  LET cmp == strncmp_piece(children[Middle(lo, hi)], piece)
  IN  IF lo > hi THEN 0
      ELSE IF cmp = 0 THEN Middle(lo, hi)
      ELSE IF cmp < 0 THEN f[Middle(lo, hi) + 1][hi] ELSE f[lo][Middle(lo, hi) - 1]

LEMMA MiddleType ==
  ASSUME NEW n \in Nat, NEW lo \in 1..(n + 1), NEW hi \in 0..n, lo <= hi
  PROVE  /\ Middle(lo, hi) \in 1..n /\ lo <= Middle(lo, hi) /\ Middle(lo, hi) <= hi
         /\ Middle(lo, hi) + 1 \in 1..(n + 1) /\ Middle(lo, hi) - 1 \in 0..n
BY DEF Middle

\* The two halves: what the middle is before or behind of is not there.
LEMMA HalfIsEnough ==
  ASSUME NEW children, InByteOrder(children), NEW piece \in CPiece,
         NEW lo \in 1..(Len(children) + 1), NEW hi \in 0..Len(children), lo <= hi,
         NEW mid, mid = Middle(lo, hi)
  PROVE  /\ strncmp_piece(children[mid], piece) = 0 =>
              Between(children, piece, lo, hi) = {mid}
         /\ strncmp_piece(children[mid], piece) < 0 =>
              Between(children, piece, lo, hi) = Between(children, piece, mid + 1, hi)
         /\ strncmp_piece(children[mid], piece) > 0 =>
              Between(children, piece, lo, hi) = Between(children, piece, lo, mid - 1)
<1>1. /\ Len(children) \in Nat /\ \A i \in 1..Len(children) : children[i] \in CPiece
      /\ \A i, j \in 1..Len(children) : i < j => Smaller(children[i], children[j])
  BY LenProperties, ElementOfSeq DEF InByteOrder
<1>2. mid \in 1..Len(children) /\ lo <= mid /\ mid <= hi
  BY <1>1, MiddleType
<1>3. ASSUME NEW i \in 1..Len(children), children[i] = piece
      PROVE  /\ strncmp_piece(children[mid], piece) = 0 => i = mid
             /\ strncmp_piece(children[mid], piece) < 0 => mid < i
             /\ strncmp_piece(children[mid], piece) > 0 => i < mid
  <2>1. /\ strncmp_piece(children[mid], piece) \in Int
        /\ strncmp_piece(children[mid], piece) < 0 <=> Smaller(children[mid], piece)
        /\ strncmp_piece(children[mid], piece) = 0 <=> children[mid] = piece
    BY <1>1, <1>2, CompareTells
  <2>2. /\ ~Smaller(piece, piece)
        /\ Smaller(children[mid], piece) => ~Smaller(piece, children[mid])
    BY <1>1, <1>2, SmallerOrders
  <2>3. i < mid => Smaller(piece, children[mid])
    BY <1>1, <1>2, <1>3
  <2>4. mid < i => Smaller(children[mid], piece)
    BY <1>1, <1>2, <1>3
  <2> QED BY <1>2, <1>3, <2>1, <2>2, <2>3, <2>4
<1>4. strncmp_piece(children[mid], piece) = 0 <=> children[mid] = piece
  BY <1>1, <1>2, CompareTells
<1>5. \A i \in 1..Len(children) : i \in Nat
  OBVIOUS
<1>6. lo \in Nat /\ hi \in Nat /\ mid \in Nat
  BY <1>1, <1>2
<1>7. ASSUME strncmp_piece(children[mid], piece) = 0 PROVE Between(children, piece, lo, hi) = {mid}
  BY <1>2, <1>3, <1>4, <1>5, <1>6, <1>7 DEF Between
<1>8. ASSUME strncmp_piece(children[mid], piece) < 0
      PROVE Between(children, piece, lo, hi) = Between(children, piece, mid + 1, hi)
  BY <1>2, <1>3, <1>5, <1>6, <1>8 DEF Between
<1>9. ASSUME strncmp_piece(children[mid], piece) > 0
      PROVE Between(children, piece, lo, hi) = Between(children, piece, lo, mid - 1)
  BY <1>2, <1>3, <1>5, <1>6, <1>9 DEF Between
<1> QED BY <1>7, <1>8, <1>9

\* The place that a search finds, 0 for none.
PlaceOf(I) == IF I = {} THEN 0 ELSE CHOOSE i \in I : TRUE

LEMMA PlaceOfAny ==
  PlaceOf({}) = 0 /\ (\A m : PlaceOf({m}) = m) /\ \A I : I # {} => PlaceOf(I) \in I
BY DEF PlaceOf

LEMMA TurnKeepsPlace ==
  ASSUME NEW children, InByteOrder(children), NEW piece \in CPiece, NEW f,
         NEW lo \in 1..(Len(children) + 1), NEW hi \in 0..Len(children),
         lo <= hi =>
           LET mid == Middle(lo, hi) IN
           /\ f[mid + 1][hi] = PlaceOf(Between(children, piece, mid + 1, hi))
           /\ f[lo][mid - 1] = PlaceOf(Between(children, piece, lo, mid - 1))
  PROVE  SearchTurn(children, piece, f, lo, hi) = PlaceOf(Between(children, piece, lo, hi))
<1> DEFINE mid == Middle(lo, hi)
           cmp == strncmp_piece(children[mid], piece)
<1>1. CASE lo > hi
  <2>1. Between(children, piece, lo, hi) = {}
    <3>1. Len(children) \in Nat
      BY LenProperties DEF InByteOrder
    <3> QED BY <1>1, <3>1 DEF Between
  <2> QED BY <1>1, <2>1, PlaceOfAny DEF SearchTurn
<1>2. CASE ~(lo > hi)
  <2>1. lo <= hi /\ Len(children) \in Nat
    BY <1>2, LenProperties DEF InByteOrder
  <2>2. /\ cmp = 0 => Between(children, piece, lo, hi) = {mid}
        /\ cmp < 0 => Between(children, piece, lo, hi) = Between(children, piece, mid + 1, hi)
        /\ cmp > 0 => Between(children, piece, lo, hi) = Between(children, piece, lo, mid - 1)
    BY <2>1, HalfIsEnough
  <2>3. cmp \in Int
    <3>1. mid \in 1..Len(children)
      BY <2>1, MiddleType
    <3>2. children[mid] \in CPiece
      BY <3>1, ElementOfSeq DEF InByteOrder
    <3> QED BY <3>2, CompareTells
  <2>4. f[mid + 1][hi] = PlaceOf(Between(children, piece, mid + 1, hi))
    BY <2>1
  <2>5. f[lo][mid - 1] = PlaceOf(Between(children, piece, lo, mid - 1))
    BY <2>1
  <2>6. SearchTurn(children, piece, f, lo, hi) =
          IF cmp = 0 THEN mid ELSE IF cmp < 0 THEN f[mid + 1][hi] ELSE f[lo][mid - 1]
    BY <1>2 DEF SearchTurn
  <2> HIDE DEF mid, cmp
  <2>7. PlaceOf({mid}) = mid
    BY PlaceOfAny
  <2>8. CASE cmp = 0
    BY <2>2, <2>6, <2>7, <2>8
  <2>9. CASE cmp < 0
    BY <2>2, <2>4, <2>6, <2>9
  <2>10. CASE cmp > 0
    <3>1. ~(cmp = 0) /\ ~(cmp < 0)
      BY <2>3, <2>10
    <3> QED BY <2>2, <2>5, <2>6, <2>10, <3>1
  <2> QED BY <2>3, <2>8, <2>9, <2>10
<1> QED BY <1>1, <1>2

\* The search finds the child that is the piece, if there is one.
LEMMA ChildFound ==
  ASSUME NEW children, InByteOrder(children), NEW piece \in CPiece
  PROVE  find_child(children, piece) = PlaceOf(Between(children, piece, 1, Len(children)))
<1> DEFINE n == Len(children)
           P(lo, hi) == PlaceOf(Between(children, piece, lo, hi))
           V(f, lo, hi) == LET mid == (lo + hi) \div 2
                               cmp == strncmp_piece(children[mid], piece)
                           IN  IF lo > hi THEN 0
                               ELSE IF cmp = 0 THEN mid
                               ELSE IF cmp < 0 THEN f[mid + 1][hi] ELSE f[lo][mid - 1]
           R(f) == f = [lo \in 1..(n + 1) |-> [hi \in 0..n |-> V(f, lo, hi)]]
           search == CHOOSE f : R(f)
           g == [lo \in 1..(n + 1) |-> [hi \in 0..n |-> P(lo, hi)]]
<1>1. n \in Nat
  BY LenProperties DEF InByteOrder
<1>2. find_child(children, piece) = search[1][n]
  BY DEF find_child, find_child_up_to
<1>3. ASSUME NEW lo \in 1..(n + 1), NEW hi \in 0..n
      PROVE  SearchTurn(children, piece, g, lo, hi) = P(lo, hi)
  <2>1. ASSUME lo <= hi
        PROVE  /\ g[Middle(lo, hi) + 1][hi] = P(Middle(lo, hi) + 1, hi)
               /\ g[lo][Middle(lo, hi) - 1] = P(lo, Middle(lo, hi) - 1)
    <3>1. Middle(lo, hi) + 1 \in 1..(n + 1) /\ Middle(lo, hi) - 1 \in 0..n
      BY <1>1, <2>1, MiddleType
    <3> HIDE DEF P
    <3> QED BY <3>1
  <2> HIDE DEF g
  <2> QED BY <2>1, TurnKeepsPlace
<1>4. R(g)
  <2>1. \A lo \in 1..(n + 1), hi \in 0..n : V(g, lo, hi) = P(lo, hi)
    BY <1>3 DEF SearchTurn, Middle
  <2> HIDE DEF P, V
  <2>2. g = [lo \in 1..(n + 1) |-> [hi \in 0..n |-> P(lo, hi)]]
    OBVIOUS
  <2> HIDE DEF g
  <2>3. \A lo \in 1..(n + 1) : [hi \in 0..n |-> P(lo, hi)] = [hi \in 0..n |-> V(g, lo, hi)]
    BY <2>1
  <2> QED BY <2>2, <2>3
<1>5. R(search)
  <2> HIDE DEF g
  <2> QED BY <1>4
<1>6. \A lo \in 1..(n + 1), hi \in 0..n :
         search[lo][hi] = SearchTurn(children, piece, search, lo, hi)
  <2> HIDE DEF search
  <2>1. \A lo \in 1..(n + 1), hi \in 0..n : search[lo][hi] = V(search, lo, hi)
    <3> DEFINE W(lo) == [hi \in 0..n |-> V(search, lo, hi)]
    <3> HIDE DEF V
    <3>1. search = [lo \in 1..(n + 1) |-> W(lo)]
      BY <1>5
    <3>2. \A lo \in 1..(n + 1), hi \in 0..n : W(lo)[hi] = V(search, lo, hi)
      OBVIOUS
    <3> HIDE DEF W
    <3>3. \A lo \in 1..(n + 1) : search[lo] = W(lo)
      BY <3>1
    <3> QED BY <3>2, <3>3
  <2> QED BY <2>1 DEF SearchTurn, Middle
<1> HIDE DEF search, R
<1> DEFINE T == {d \in Nat : \E lo \in 1..(n + 1), hi \in 0..n : hi - lo = d /\ search[lo][hi] # P(lo, hi)}
<1>7. T = {}
  <2> SUFFICES ASSUME T # {} PROVE FALSE
    OBVIOUS
  <2>1. PICK d \in T : \A e \in T : d <= e
    <3>1. T \in SUBSET Nat
      OBVIOUS
    <3> HIDE DEF T
    <3> QED BY <3>1, LeastOf
  <2>2. PICK lo \in 1..(n + 1), hi \in 0..n : hi - lo = d /\ search[lo][hi] # P(lo, hi)
    BY <2>1
  <2>3. lo <= hi
    BY <2>1, <2>2
  <2> DEFINE mid == Middle(lo, hi)
  <2>4. mid \in 1..n /\ lo <= mid /\ mid <= hi /\ mid + 1 \in 1..(n + 1) /\ mid - 1 \in 0..n
    BY <1>1, <2>3, MiddleType
  <2> HIDE DEF mid, P
  <2>d. d \in Nat
    OBVIOUS
  <2>e. d = hi - lo
    BY <2>2
  <2>i. lo \in Nat /\ hi \in Nat /\ mid \in Nat /\ lo <= mid /\ mid <= hi
    BY ONLY <1>1, <2>4, lo \in 1..(n + 1), hi \in 0..n
  <2>5. search[mid + 1][hi] = P(mid + 1, hi)
    <3>1. CASE mid + 1 <= hi
      <4>1. hi - (mid + 1) \in Nat /\ ~(d <= hi - (mid + 1))
        BY ONLY <2>d, <2>e, <2>i, <3>1
      <4>2. hi - (mid + 1) \notin T
        <5> HIDE DEF T
        <5> QED BY <2>1, <4>1
      <4> QED BY <2>4, <4>1, <4>2
    <3>2. CASE ~(mid + 1 <= hi)
      <4>1. mid + 1 > hi
        BY <1>1, <2>4, <3>2
      <4>2. search[mid + 1][hi] = 0
        BY <1>6, <2>4, <4>1 DEF SearchTurn
      <4>3. Between(children, piece, mid + 1, hi) = {}
        BY <1>1, <2>4, <4>1 DEF Between
      <4> QED BY <4>2, <4>3, PlaceOfAny DEF P
    <3> QED BY <3>1, <3>2
  <2>6. search[lo][mid - 1] = P(lo, mid - 1)
    <3>1. CASE lo <= mid - 1
      <4>1. (mid - 1) - lo \in Nat /\ ~(d <= (mid - 1) - lo)
        BY ONLY <2>d, <2>e, <2>i, <3>1
      <4>2. (mid - 1) - lo \notin T
        <5> HIDE DEF T
        <5> QED BY <2>1, <4>1
      <4> QED BY <2>4, <4>1, <4>2
    <3>2. CASE ~(lo <= mid - 1)
      <4>1. lo > mid - 1
        BY <1>1, <2>4, <3>2
      <4>2. search[lo][mid - 1] = 0
        BY <1>6, <2>4, <4>1 DEF SearchTurn
      <4>3. Between(children, piece, lo, mid - 1) = {}
        BY <1>1, <2>4, <4>1 DEF Between
      <4> QED BY <4>2, <4>3, PlaceOfAny DEF P
    <3> QED BY <3>1, <3>2
  <2>7. SearchTurn(children, piece, search, lo, hi) = P(lo, hi)
    BY <2>5, <2>6, TurnKeepsPlace DEF mid, P
  <2> QED BY <1>6, <2>2, <2>7
<1>8. search[1][n] = P(1, n)
  <2>1. 1 \in 1..(n + 1) /\ n \in 0..n
    BY <1>1
  <2>2. CASE n = 0
    <3>1. search[1][n] = 0
      BY <1>6, <2>1, <2>2 DEF SearchTurn
    <3>2. Between(children, piece, 1, n) = {}
      BY <2>2 DEF Between
    <3> QED BY <3>1, <3>2, PlaceOfAny
  <2>3. CASE n # 0
    <3>1. n - 1 \in Nat
      BY <1>1, <2>3
    <3>2. n - 1 \notin T
      <4> HIDE DEF T
      <4> QED BY <1>7
    <3> HIDE DEF P
    <3> QED BY <2>1, <3>1, <3>2
  <2> QED BY <2>2, <2>3
<1> QED BY <1>2, <1>8

-------------------------------------------------------------------------------
(***************************************************************************)
(* The beginnings of a name, and how long their texts are.                 *)
(***************************************************************************)
\* A way through the trie is the first segments of a name.
Way(s, i) == SubSeq(s, 1, i)

LEMMA WayType ==
  ASSUME NEW S, NEW s \in Seq(S), NEW i \in 0..Len(s)
  PROVE  /\ Way(s, i) \in Seq(S) /\ Len(Way(s, i)) = i
         /\ \A j \in 1..i : Way(s, i)[j] = s[j]
<1>1. Len(s) \in Nat
  BY LenProperties
<1> QED BY <1>1 DEF Way

LEMMA SameWays ==
  ASSUME NEW S, NEW s \in Seq(S), NEW t \in Seq(S), NEW i \in 0..Len(s), i \in 0..Len(t)
  PROVE  Way(s, i) = Way(t, i) <=> \A j \in 1..i : s[j] = t[j]
<1>1. /\ Way(s, i) \in Seq(S) /\ Len(Way(s, i)) = i /\ \A j \in 1..i : Way(s, i)[j] = s[j]
      /\ Way(t, i) \in Seq(S) /\ Len(Way(t, i)) = i /\ \A j \in 1..i : Way(t, i)[j] = t[j]
  BY WayType
<1>2. (\A j \in 1..i : s[j] = t[j]) => Way(s, i) = Way(t, i)
  BY <1>1, SeqEqual
<1> QED BY <1>1, <1>2

LEMMA WholeWay == ASSUME NEW S, NEW s \in Seq(S) PROVE Way(s, Len(s)) = s
<1>1. Len(s) \in Nat
  BY LenProperties
<1>2. Len(s) \in 0..Len(s)
  BY <1>1
<1>3. Way(s, Len(s)) \in Seq(S) /\ Len(Way(s, Len(s))) = Len(s)
      /\ \A j \in 1..Len(s) : Way(s, Len(s))[j] = s[j]
  BY <1>2, WayType
<1> QED BY <1>3, SeqEqual

LEMMA PrefixMeans ==
  ASSUME NEW S, NEW s \in Seq(S), NEW t \in Seq(S)
  PROVE  IsPrefix(s, t) <=> Len(s) <= Len(t) /\ \A j \in 1..Len(s) : s[j] = t[j]
<1>1. Len(s) \in Nat /\ Len(t) \in Nat
  BY LenProperties
<1>2. CASE Len(s) <= Len(t)
  <2>1. Len(s) \in 0..Len(s) /\ Len(s) \in 0..Len(t)
    BY <1>1, <1>2
  <2> QED BY <1>2, <2>1, SameWays DEF IsPrefix, Way
<1>3. CASE ~(Len(s) <= Len(t))
  BY <1>3 DEF IsPrefix
<1> QED BY <1>2, <1>3

LEMMA PrefixType ==
  ASSUME NEW p \in Prefix
  PROVE  /\ p \in Seq(Seq(Nat)) /\ Len(p) \in Nat \ {0} /\ DOMAIN p = 1..Len(p)
         /\ \A i \in 1..Len(p) : p[i] \in Seq(Nat) /\ Len(p[i]) \in Nat
         /\ Last(p) = p[Len(p)] /\ Last(p) \in Seq(Nat) /\ Len(Last(p)) \in Nat
         /\ Front(p) = Way(p, Len(p) - 1) /\ Len(p) - 1 \in 0..Len(p)
         /\ Front(p) \in Seq(Seq(Nat)) /\ Len(Front(p)) = Len(p) - 1
         /\ \A i \in 1..(Len(p) - 1) : Front(p)[i] = p[i]
<1>1. p \in Seq(Seq(Nat)) /\ Len(p) \in Nat /\ DOMAIN p = 1..Len(p) /\ Len(p) # 0
  BY LenProperties, EmptySeq DEF Prefix
<1>2. \A i \in 1..Len(p) : p[i] \in Seq(Nat) /\ Len(p[i]) \in Nat
  BY <1>1, ElementOfSeq, LenProperties
<1>3. Last(p) = p[Len(p)] /\ Len(p) \in 1..Len(p)
  BY <1>1 DEF Last
<1>4. Front(p) = Way(p, Len(p) - 1) /\ Len(p) - 1 \in 0..Len(p)
  BY <1>1 DEF Front, Way
<1>5. /\ Way(p, Len(p) - 1) \in Seq(Seq(Nat)) /\ Len(Way(p, Len(p) - 1)) = Len(p) - 1
      /\ \A i \in 1..(Len(p) - 1) : Way(p, Len(p) - 1)[i] = p[i]
  BY <1>1, <1>4, WayType
<1> QED BY <1>1, <1>2, <1>3, <1>4, <1>5

\* What it is for a name to begin with a prefix.
LEMMA StartsMeans ==
  ASSUME NEW p \in Prefix, NEW name \in Seq(Seq(Nat))
  PROVE  StartsWith(name, p) <=>
           /\ Len(p) <= Len(name) /\ Front(p) = Way(name, Len(p) - 1)
           /\ IsPrefix(Last(p), name[Len(p)])
<1>1. /\ Len(p) \in Nat \ {0} /\ Len(name) \in Nat /\ Front(p) = Way(p, Len(p) - 1)
      /\ Front(p) \in Seq(Seq(Nat)) /\ Len(Front(p)) = Len(p) - 1
      /\ \A i \in 1..(Len(p) - 1) : Front(p)[i] = p[i]
      /\ p \in Seq(Seq(Nat)) /\ Len(p) - 1 \in 0..Len(p)
  BY PrefixType, LenProperties
<1>2. CASE Len(p) <= Len(name)
  <2>1. Len(p) - 1 \in 0..Len(name)
    BY <1>1, <1>2
  <2>2. Way(p, Len(p) - 1) = Way(name, Len(p) - 1) <=> \A j \in 1..(Len(p) - 1) : p[j] = name[j]
    <3> DEFINE k == Len(p) - 1
    <3>1. k \in 0..Len(p) /\ k \in 0..Len(name)
      BY <1>1, <2>1
    <3> HIDE DEF k
    <3>2. p \in Seq(Seq(Nat))
      BY <1>1
    <3>3. Way(p, k) = Way(name, k) <=> \A j \in 1..k : p[j] = name[j]
      BY ONLY <3>1, <3>2, name \in Seq(Seq(Nat)), SameWays
    <3> QED BY <3>3 DEF k
  <2>3. IsPrefix(Front(p), name) <=>
          Len(Front(p)) <= Len(name) /\ \A j \in 1..Len(Front(p)) : Front(p)[j] = name[j]
    <3> DEFINE F == Front(p)
    <3>1. F \in Seq(Seq(Nat))
      BY <1>1
    <3> HIDE DEF F
    <3>2. IsPrefix(F, name) <=> Len(F) <= Len(name) /\ \A j \in 1..Len(F) : F[j] = name[j]
      BY <3>1, PrefixMeans
    <3> QED BY <3>2 DEF F
  <2>4. Len(Front(p)) <= Len(name)
    BY <1>1, <1>2
  <2> QED BY <1>1, <1>2, <2>2, <2>3, <2>4 DEF StartsWith
<1>3. CASE ~(Len(p) <= Len(name))
  BY <1>3 DEF StartsWith
<1> QED BY <1>2, <1>3

\* TextLen adds up the segments.
LEMMA TextLenGrows ==
  ASSUME NEW name \in Seq(Seq(Nat))
  PROVE  \E f : Grows(f, name, Len(name)) /\ TextLen(name) = f[Len(name)]
<1> DEFINE n == Len(name)
           R(f) == f = [i \in 0..n |-> IF i = 0 THEN -1 ELSE f[i - 1] + 1 + Len(name[i])]
           upTo == CHOOSE f : R(f)
<1>1. n \in Nat /\ \A i \in 1..n : Len(name[i]) \in Nat
  BY LenProperties, ElementOfSeq
<1>2. PICK f : Grows(f, name, n)
  <2>1. n \in 0..Len(name)
    BY <1>1
  <2> QED BY <2>1, GrowsExists
<1>3. R(f)
  <2> DEFINE h == [i \in 0..n |-> IF i = 0 THEN -1 ELSE f[i - 1] + 1 + Len(name[i])]
  <2>1. f \in [0..n -> Int] /\ h \in [0..n -> Int] /\ \A i \in 0..n : f[i] = h[i]
    BY <1>1, <1>2 DEF Grows
  <2> QED BY <2>1
<1>4. R(upTo)
  BY <1>3
<1>5. \A i \in 0..n : upTo[i] = IF i = 0 THEN -1 ELSE upTo[i - 1] + 1 + Len(name[i])
  <2> HIDE DEF upTo
  <2> QED BY <1>4
<1>6. TextLen(name) = upTo[n]
  BY DEF TextLen
<1> HIDE DEF upTo, R
<1> DEFINE T == {i \in 0..n : upTo[i] # f[i]}
<1>7. T = {}
  <2> SUFFICES ASSUME T # {} PROVE FALSE
    OBVIOUS
  <2>1. PICK i \in T : \A y \in T : i <= y
    <3>1. T \in SUBSET Nat
      OBVIOUS
    <3> HIDE DEF T
    <3> QED BY <3>1, LeastOf
  <2>2. i # 0
    BY <1>1, <1>2, <1>5, <2>1 DEF Grows
  <2>3. i - 1 \in 0..n /\ ~(i <= i - 1) /\ i \in 1..n
    BY <1>1, <2>1, <2>2
  <2>4. upTo[i - 1] = f[i - 1]
    BY <2>1, <2>3
  <2> QED BY <1>2, <1>5, <2>1, <2>2, <2>3, <2>4 DEF Grows
<1>8. upTo[n] = f[n]
  <2>1. n \in 0..n /\ n \notin T
    BY <1>1, <1>7
  <2> QED BY <2>1
<1> QED BY <1>2, <1>6, <1>8

Alike(s, t, k) == \A j \in 1..k : s[j] = t[j]

LEMMA GrowsAlike ==
  ASSUME NEW s, NEW t, NEW n \in Nat, NEW m \in Nat, NEW f, NEW g,
         Grows(f, s, n), Grows(g, t, m), NEW k \in Nat, k <= n, k <= m, Alike(s, t, k)
  PROVE  f[k] = g[k]
<1> DEFINE T == {i \in 0..k : f[i] # g[i]}
<1>1. T = {}
  <2> SUFFICES ASSUME T # {} PROVE FALSE
    OBVIOUS
  <2>1. PICK i \in T : \A y \in T : i <= y
    <3>1. T \in SUBSET Nat
      OBVIOUS
    <3> HIDE DEF T
    <3> QED BY <3>1, LeastOf
  <2>2. i # 0
    BY <2>1 DEF Grows
  <2>3. i - 1 \in 0..k /\ ~(i <= i - 1) /\ i \in 1..k /\ i \in 1..n /\ i \in 1..m
    BY <2>1, <2>2
  <2>4. f[i - 1] = g[i - 1]
    BY <2>1, <2>3
  <2> QED BY <2>1, <2>3, <2>4 DEF Grows, Alike
<1> QED BY <1>1

\* It only grows.
LEMMA GrowsOn ==
  ASSUME NEW s \in Seq(Seq(Nat)), NEW n \in Nat, n = Len(s), NEW f, Grows(f, s, n),
         NEW i \in 0..n, NEW k \in 0..n, i <= k
  PROVE  f[i] \in Int /\ f[k] \in Int /\ f[i] <= f[k]
<1> DEFINE T == {y \in i..n : ~(f[i] <= f[y])}
<1>0. f \in [0..n -> Int] /\ \A j \in 1..n : f[j] = f[j - 1] + 1 + Len(s[j]) /\ Len(s[j]) \in Nat
  BY ElementOfSeq, LenProperties DEF Grows
<1>1. T = {}
  <2>0. f[i] \in Int
    BY <1>0
  <2> SUFFICES ASSUME T # {} PROVE FALSE
    OBVIOUS
  <2>1. PICK y \in T : \A z \in T : y <= z
    <3>1. T \in SUBSET Nat
      OBVIOUS
    <3> HIDE DEF T
    <3> QED BY <3>1, LeastOf
  <2>2. y # i
    BY <2>0, <2>1
  <2>3. y - 1 \in i..n /\ ~(y <= y - 1) /\ y \in 1..n /\ y - 1 \in 0..n
    BY <2>1, <2>2
  <2>4. f[i] <= f[y - 1]
    BY <2>1, <2>3
  <2>5. f[y] = f[y - 1] + 1 + Len(s[y]) /\ Len(s[y]) \in Nat /\ f[y - 1] \in Int /\ f[i] \in Int
    BY <1>0, <2>3
  <2> QED BY <2>1, <2>4, <2>5
<1>2. k \in i..n /\ k \notin T
  <2>1. k \in i..n
    OBVIOUS
  <2> HIDE DEF T
  <2> QED BY <1>1, <2>1
<1> QED BY <1>0, <1>2

\* The text of a prefix that a name has, measured along the name.
LEMMA TextLenAlong ==
  ASSUME NEW p \in Prefix, NEW name \in Seq(Seq(Nat)), StartsWith(name, p),
         NEW g, Grows(g, name, Len(name))
  PROVE  /\ TextLen(p) = g[Len(p) - 1] + 1 + Len(Last(p))
         /\ TextLen(p) <= g[Len(p)]
         /\ TextLen(p) \in Int /\ g[Len(p) - 1] \in Int /\ g[Len(p)] \in Int
<1> DEFINE n == Len(p)
<1>1. /\ p \in Seq(Seq(Nat)) /\ n \in Nat \ {0} /\ Len(name) \in Nat /\ n <= Len(name)
      /\ Last(p) = p[n] /\ Last(p) \in Seq(Nat) /\ Len(Last(p)) \in Nat
      /\ Front(p) = Way(p, n - 1) /\ n - 1 \in 0..n
  BY PrefixType, StartsMeans, LenProperties
<1>2. PICK f : Grows(f, p, n) /\ TextLen(p) = f[n]
  BY <1>1, TextLenGrows
<1>3. \A j \in 1..(n - 1) : p[j] = name[j]
  <2>1. Way(p, n - 1) = Way(name, n - 1) /\ n - 1 \in 0..Len(name)
    BY <1>1, StartsMeans
  <2> QED BY <1>1, <2>1, SameWays
<1> HIDE DEF n
<1>4. f[n - 1] = g[n - 1]
  <2> DEFINE k == n - 1
  <2>1. k \in Nat /\ k <= n /\ k <= Len(name)
    BY <1>1
  <2>4. Alike(p, name, k)
    BY <1>3 DEF Alike
  <2>2. Grows(f, p, n) /\ n \in Nat /\ Len(name) \in Nat
    BY <1>1, <1>2
  <2> HIDE DEF k
  <2>3. f[k] = g[k]
    BY ONLY <2>1, <2>2, <2>4, Grows(g, name, Len(name)), GrowsAlike
  <2> QED BY <2>3 DEF k
<1>5. f[n] = f[n - 1] + 1 + Len(Last(p))
  BY <1>1, <1>2 DEF Grows
<1>6. g[n] = g[n - 1] + 1 + Len(name[n]) /\ g[n - 1] \in Int /\ g[n] \in Int
  <2>1. n \in 1..Len(name) /\ n \in 0..Len(name) /\ n - 1 \in 0..Len(name)
    BY <1>1
  <2> QED BY <2>1 DEF Grows
<1>7. Len(Last(p)) <= Len(name[n]) /\ Len(name[n]) \in Nat
  <2>1. name[n] \in Seq(Nat)
    BY <1>1, ElementOfSeq
  <2>2. IsPrefix(Last(p), name[n])
    BY StartsMeans DEF n
  <2> QED BY <1>1, <2>1, <2>2, PrefixMeans, LenProperties
<1>8. TextLen(p) = g[n - 1] + 1 + Len(Last(p)) /\ TextLen(p) <= g[n] /\ TextLen(p) \in Int
  BY <1>1, <1>2, <1>4, <1>5, <1>6, <1>7
<1> QED BY <1>6, <1>8 DEF n

\* Of two prefixes of a name, the one with more segments is longer, and of two with as
\* many the one with the longer last piece.
LEMMA FitsCompare ==
  ASSUME NEW p \in Prefix, NEW q \in Prefix, NEW name \in Seq(Seq(Nat)),
         StartsWith(name, p), StartsWith(name, q)
  PROVE  /\ Len(p) < Len(q) => TextLen(p) < TextLen(q)
         /\ Len(p) = Len(q) => (TextLen(p) <= TextLen(q) <=> Len(Last(p)) <= Len(Last(q)))
         /\ TextLen(p) \in Int /\ TextLen(q) \in Int
         /\ TextLen(p) = TextLen(q) => p = q
<1>1. /\ p \in Seq(Seq(Nat)) /\ q \in Seq(Seq(Nat)) /\ Len(p) \in Nat \ {0} /\ Len(q) \in Nat \ {0}
      /\ Len(name) \in Nat /\ Len(p) <= Len(name) /\ Len(q) <= Len(name)
      /\ Len(Last(p)) \in Nat /\ Len(Last(q)) \in Nat
  BY PrefixType, StartsMeans, LenProperties
<1>2. PICK g : Grows(g, name, Len(name))
  BY TextLenGrows
<1>3. /\ TextLen(p) = g[Len(p) - 1] + 1 + Len(Last(p)) /\ TextLen(p) <= g[Len(p)]
      /\ TextLen(p) \in Int /\ g[Len(p) - 1] \in Int /\ g[Len(p)] \in Int
  BY <1>2, TextLenAlong
<1>4. /\ TextLen(q) = g[Len(q) - 1] + 1 + Len(Last(q)) /\ TextLen(q) <= g[Len(q)]
      /\ TextLen(q) \in Int /\ g[Len(q) - 1] \in Int /\ g[Len(q)] \in Int
  BY <1>2, TextLenAlong
<1>5. Len(p) < Len(q) => TextLen(p) < TextLen(q)
  <2> SUFFICES ASSUME Len(p) < Len(q) PROVE TextLen(p) < TextLen(q)
    OBVIOUS
  <2>1. Len(p) \in 0..Len(name) /\ Len(q) - 1 \in 0..Len(name) /\ Len(p) <= Len(q) - 1
    BY <1>1
  <2> DEFINE i == Len(p)
             k == Len(q) - 1
  <2>2. g[i] <= g[k]
    <3>1. i \in 0..Len(name) /\ k \in 0..Len(name) /\ i <= k
      BY <2>1
    <3> HIDE DEF i, k
    <3> QED BY <1>1, <1>2, <3>1, GrowsOn
  <2>3. /\ TextLen(p) <= g[i] /\ TextLen(q) = g[k] + 1 + Len(Last(q))
        /\ g[i] \in Int /\ g[k] \in Int /\ TextLen(p) \in Int
    BY <1>3, <1>4
  <2> DEFINE a == g[i]
             b == g[k]
             l == Len(Last(q))
             u == TextLen(p)
             v == TextLen(q)
  <2>4. /\ a \in Int /\ b \in Int /\ u \in Int /\ l \in Nat
        /\ u <= a /\ a <= b /\ v = b + 1 + l
    BY <1>1, <2>2, <2>3
  <2> HIDE DEF i, k, a, b, l, u, v
  <2>5. u < v
    BY ONLY <2>4
  <2> QED BY <2>5 DEF u, v
<1>6. Len(q) < Len(p) => TextLen(q) < TextLen(p)
  <2> SUFFICES ASSUME Len(q) < Len(p) PROVE TextLen(q) < TextLen(p)
    OBVIOUS
  <2>1. Len(q) \in 0..Len(name) /\ Len(p) - 1 \in 0..Len(name) /\ Len(q) <= Len(p) - 1
    BY <1>1
  <2> DEFINE i == Len(q)
             k == Len(p) - 1
  <2>2. g[i] <= g[k]
    <3>1. i \in 0..Len(name) /\ k \in 0..Len(name) /\ i <= k
      BY <2>1
    <3> HIDE DEF i, k
    <3> QED BY <1>1, <1>2, <3>1, GrowsOn
  <2>3. /\ TextLen(q) <= g[i] /\ TextLen(p) = g[k] + 1 + Len(Last(p))
        /\ g[i] \in Int /\ g[k] \in Int /\ TextLen(q) \in Int
    BY <1>3, <1>4
  <2> DEFINE a == g[i]
             b == g[k]
             l == Len(Last(p))
             u == TextLen(q)
             v == TextLen(p)
  <2>4. /\ a \in Int /\ b \in Int /\ u \in Int /\ l \in Nat
        /\ u <= a /\ a <= b /\ v = b + 1 + l
    BY <1>1, <2>2, <2>3
  <2> HIDE DEF i, k, a, b, l, u, v
  <2>5. u < v
    BY ONLY <2>4
  <2> QED BY <2>5 DEF u, v
<1>7. Len(p) = Len(q) => (TextLen(p) <= TextLen(q) <=> Len(Last(p)) <= Len(Last(q)))
  <2> SUFFICES ASSUME Len(p) = Len(q) PROVE TextLen(p) <= TextLen(q) <=> Len(Last(p)) <= Len(Last(q))
    OBVIOUS
  <2> DEFINE d == g[Len(p) - 1]
  <2>1. TextLen(p) = d + 1 + Len(Last(p)) /\ TextLen(q) = d + 1 + Len(Last(q)) /\ d \in Int
    BY <1>3, <1>4
  <2> HIDE DEF d
  <2> QED BY <1>1, <2>1
<1>8. ASSUME TextLen(p) = TextLen(q) PROVE p = q
  <2>1. Len(p) = Len(q)
    <3>1. ~(TextLen(p) < TextLen(q)) /\ ~(TextLen(q) < TextLen(p))
      BY <1>3, <1>8
    <3>2. ~(Len(p) < Len(q)) /\ ~(Len(q) < Len(p)) /\ Len(p) \in Nat /\ Len(q) \in Nat
      BY <1>1, <1>5, <1>6, <3>1
    <3> QED BY <3>2
  <2>2. Len(Last(p)) = Len(Last(q))
    <3> DEFINE d == g[Len(p) - 1]
    <3>1. TextLen(p) = d + 1 + Len(Last(p)) /\ TextLen(q) = d + 1 + Len(Last(q)) /\ d \in Int
      BY <1>3, <1>4, <2>1
    <3> DEFINE x == Len(Last(p))
               y == Len(Last(q))
    <3>2. x \in Nat /\ y \in Nat /\ d + 1 + x = d + 1 + y /\ d \in Int
      BY <1>1, <1>8, <3>1
    <3> HIDE DEF d, x, y
    <3>3. x = y
      BY <3>2
    <3> QED BY <3>3 DEF x, y
  <2>3. Last(p) = Last(q)
    <3>1. Last(p) \in Seq(Nat) /\ Last(q) \in Seq(Nat) /\ name[Len(p)] \in Seq(Nat)
      BY <1>1, PrefixType, ElementOfSeq
    <3>2. IsPrefix(Last(p), name[Len(p)]) /\ IsPrefix(Last(q), name[Len(p)])
      BY <2>1, StartsMeans
    <3>3. /\ \A j \in 1..Len(Last(p)) : Last(p)[j] = name[Len(p)][j]
          /\ \A j \in 1..Len(Last(q)) : Last(q)[j] = name[Len(p)][j]
      BY <3>1, <3>2, PrefixMeans
    <3> QED BY <2>2, <3>1, <3>3, SeqEqual
  <2>4. Front(p) = Front(q)
    BY <2>1, StartsMeans
  <2>5. \A j \in 1..Len(p) : p[j] = q[j]
    <3> SUFFICES ASSUME NEW j \in 1..Len(p) PROVE p[j] = q[j]
      OBVIOUS
    <3>1. CASE j = Len(p)
      BY <2>1, <2>3, <3>1, PrefixType
    <3>2. CASE j # Len(p)
      <4>1. j \in 1..(Len(p) - 1) /\ j \in 1..(Len(q) - 1)
        BY <1>1, <2>1, <3>2
      <4> QED BY <2>4, <4>1, PrefixType
    <3> QED BY <3>1, <3>2
  <2> QED BY <1>1, <2>1, <2>5, SeqEqual
<1> QED BY <1>3, <1>4, <1>5, <1>7, <1>8

-------------------------------------------------------------------------------
(***************************************************************************)
(* The nodes of the trie.                                                  *)
(***************************************************************************)
RulesOf(rules) == rules \subseteq AnyRule /\ Serialized(rules)

LEMMA CNameType ==
  ASSUME NEW n \in CNames
  PROVE  n \in Prefix /\ (\A i \in 1..Len(n) : n[i] \in CPiece) /\ Last(n) \in CPiece
<1>1. n \in Prefix /\ \A i \in DOMAIN n : \A j \in DOMAIN n[i] : n[i][j] # 0
  BY DEF CNames
<1>2. \A i \in 1..Len(n) : n[i] \in CPiece
  BY <1>1, PrefixType DEF CPiece
<1>3. Len(n) \in 1..Len(n) /\ Last(n) = n[Len(n)]
  BY <1>1, PrefixType
<1> QED BY <1>1, <1>2, <1>3

LEMMA RuleType ==
  ASSUME NEW rules, RulesOf(rules), NEW r \in rules
  PROVE  /\ r.prefix \in CNames /\ r.prefix \in Prefix /\ r.ctx \in Nat /\ r.exact \in BOOLEAN
         /\ Front(r.prefix) \in Seq(Seq(Nat)) /\ Last(r.prefix) \in CPiece
         /\ Last(r.prefix) \in Seq(Nat)
<1>1. r.prefix \in CNames /\ r.ctx \in Nat /\ r.exact \in BOOLEAN
  BY DEF RulesOf, Serialized, AnyRule
<1>2. r.prefix \in Prefix /\ Last(r.prefix) \in CPiece
  BY <1>1, CNameType
<1> QED BY <1>1, <1>2, PrefixType

LEMMA FrontAndLast ==
  ASSUME NEW p \in Prefix, NEW q \in Prefix, Front(p) = Front(q), Last(p) = Last(q) PROVE p = q
<1>1. /\ p \in Seq(Seq(Nat)) /\ q \in Seq(Seq(Nat)) /\ Len(p) \in Nat \ {0} /\ Len(q) \in Nat \ {0}
      /\ Len(Front(p)) = Len(p) - 1 /\ Len(Front(q)) = Len(q) - 1
      /\ Last(p) = p[Len(p)] /\ Last(q) = q[Len(q)]
      /\ \A i \in 1..(Len(p) - 1) : Front(p)[i] = p[i]
      /\ \A i \in 1..(Len(q) - 1) : Front(q)[i] = q[i]
  BY PrefixType
<1>2. Len(p) = Len(q)
  <2>1. Len(p) - 1 = Len(q) - 1
    BY <1>1
  <2> QED BY <1>1, <2>1
<1>3. \A j \in 1..Len(p) : p[j] = q[j]
  <2> SUFFICES ASSUME NEW j \in 1..Len(p) PROVE p[j] = q[j]
    OBVIOUS
  <2>1. CASE j = Len(p)
    BY <1>1, <1>2, <2>1
  <2>2. CASE j # Len(p)
    <3>1. j \in 1..(Len(p) - 1) /\ j \in 1..(Len(q) - 1)
      BY <1>1, <1>2, <2>2
    <3> QED BY <1>1, <3>1
  <2> QED BY <2>1, <2>2
<1> QED BY <1>1, <1>2, <1>3, SeqEqual

\* The nodes are where rules go through.
InTrie(rules, way) ==
  way = <<>> \/ \E r \in rules : \E i \in 0..(Len(r.prefix) - 1) : way = Way(r.prefix, i)

LEMMA TrieNodes ==
  ASSUME NEW rules
  PROVE  /\ \A way : way \in DOMAIN TrieOf(rules) <=> InTrie(rules, way)
         /\ \A way \in DOMAIN TrieOf(rules) : TrieOf(rules)[way] = NodeOf(rules, way)
<1> DEFINE through == UNION {{SubSeq(r.prefix, 1, i) : i \in 0..(Len(r.prefix) - 1)} : r \in rules}
           Node(way) == NodeOf(rules, way)
<1>1. TrieOf(rules) = [way \in through \cup {<<>>} |-> Node(way)]
  BY DEF TrieOf
<1>2. \A way : way \in through \cup {<<>>} <=> InTrie(rules, way)
  BY DEF InTrie, Way
<1> HIDE DEF through, Node
<1>3. DOMAIN TrieOf(rules) = through \cup {<<>>}
  BY <1>1
<1>4. \A way \in through \cup {<<>>} : TrieOf(rules)[way] = Node(way)
  BY <1>1
<1> QED BY <1>2, <1>3, <1>4 DEF Node

\* The segments that rules go on with at a node.
NextPieces(rules, way) ==
  {q[Len(way) + 1] : q \in {x \in {y \in {Front(r.prefix) : r \in rules} : Len(y) > Len(way)} :
                              IsPrefix(way, x)}}

LEMMA NextMeans ==
  ASSUME NEW rules, RulesOf(rules), NEW way \in Seq(Seq(Nat))
  PROVE  /\ IsFiniteSet(NextPieces(rules, way)) /\ NextPieces(rules, way) \subseteq CPiece
         /\ \A piece : piece \in NextPieces(rules, way) <=>
              \E r \in rules : /\ Len(way) + 1 < Len(r.prefix)
                               /\ Way(r.prefix, Len(way)) = way
                               /\ r.prefix[Len(way) + 1] = piece
<1> DEFINE n == Len(way)
           fronts == {Front(r.prefix) : r \in rules}
           Q == {x \in {y \in fronts : Len(y) > n} : IsPrefix(way, x)}
           C == {q[n + 1] : q \in Q}
<1>0. n \in Nat
  BY LenProperties
<1>1. ASSUME NEW r \in rules
      PROVE  /\ r.prefix \in Prefix /\ Len(r.prefix) \in Nat \ {0}
             /\ Len(Front(r.prefix)) = Len(r.prefix) - 1
             /\ \A i \in 1..(Len(r.prefix) - 1) : Front(r.prefix)[i] = r.prefix[i]
             /\ \A i \in 1..Len(r.prefix) : r.prefix[i] \in CPiece
             /\ Front(r.prefix) \in Seq(Seq(Nat)) /\ r.prefix \in Seq(Seq(Nat))
  BY RuleType, PrefixType, CNameType
<1>2. IsFiniteSet(C)
  <2>1. IsFiniteSet(fronts)
    <3> DEFINE f == [r \in rules |-> Front(r.prefix)]
    <3>1. IsFiniteSet(rules)
      BY DEF RulesOf, Serialized
    <3>2. fronts = {f[r] : r \in rules}
      OBVIOUS
    <3> HIDE DEF fronts, f
    <3> QED BY <3>1, <3>2, ImageFinite
  <2>2. IsFiniteSet(Q)
    <3>1. Q \in SUBSET fronts
      OBVIOUS
    <3> HIDE DEF fronts, Q
    <3> QED BY <2>1, <3>1, FS_Subset
  <2> DEFINE g == [q \in Q |-> q[n + 1]]
  <2>3. C = {g[q] : q \in Q}
    OBVIOUS
  <2> HIDE DEF Q, g, C
  <2> QED BY <2>2, <2>3, ImageFinite
<1>3. ASSUME NEW r \in rules
      PROVE  Front(r.prefix) \in Q <=> n + 1 < Len(r.prefix) /\ Way(r.prefix, n) = way
  <2> DEFINE F == Front(r.prefix)
  <2>1. F \in Q <=> Len(F) > n /\ IsPrefix(way, F)
    OBVIOUS
  <2>2. Len(F) > n <=> n + 1 < Len(r.prefix)
    BY <1>0, <1>1
  <2>3. ASSUME n + 1 < Len(r.prefix) PROVE IsPrefix(way, F) <=> Way(r.prefix, n) = way
    <3>1. /\ n \in 0..Len(r.prefix) /\ n \in 0..Len(way) /\ n <= Len(F)
          /\ \A j \in 1..n : F[j] = r.prefix[j]
      <4> DEFINE p == r.prefix
                 m == n
      <4>1. /\ m \in Nat /\ m = Len(way) /\ Len(p) \in Nat /\ Len(F) = Len(p) - 1 /\ m + 1 < Len(p)
            /\ \A j \in 1..(Len(p) - 1) : F[j] = p[j]
        BY <1>0, <1>1, <2>3
      <4> HIDE DEF p, m, F
      <4>2. m \in 0..Len(p) /\ m \in 0..Len(way) /\ m <= Len(F) /\ \A j \in 1..m : F[j] = p[j]
        BY <4>1
      <4> QED BY <4>2 DEF p, m
    <3>2. way \in Seq(Seq(Nat)) /\ F \in Seq(Seq(Nat)) /\ r.prefix \in Seq(Seq(Nat))
      BY <1>1
    <3> HIDE DEF F
    <3>3. IsPrefix(way, F) <=> \A j \in 1..n : way[j] = F[j]
      BY <3>1, <3>2, PrefixMeans
    <3>4. Way(r.prefix, n) = Way(way, n) <=> \A j \in 1..n : r.prefix[j] = way[j]
      <4> DEFINE p == r.prefix
      <4>1. p \in Seq(Seq(Nat)) /\ n \in 0..Len(p)
        BY <3>1, <3>2
      <4> HIDE DEF p, n
      <4>2. Way(p, n) = Way(way, n) <=> \A j \in 1..n : p[j] = way[j]
        BY ONLY <3>1, <4>1, way \in Seq(Seq(Nat)), SameWays
      <4> QED BY <4>2 DEF p
    <3>5. Way(way, n) = way
      BY WholeWay
    <3> QED BY <3>1, <3>3, <3>4, <3>5
  <2> HIDE DEF F
  <2>4. F \in Q <=> n + 1 < Len(r.prefix) /\ Way(r.prefix, n) = way
    BY <2>1, <2>2, <2>3
  <2> QED BY <2>4 DEF F
<1>4. ASSUME NEW r \in rules, n + 1 < Len(r.prefix)
      PROVE  Front(r.prefix)[n + 1] = r.prefix[n + 1] /\ r.prefix[n + 1] \in CPiece
  <2>1. n + 1 \in 1..(Len(r.prefix) - 1) /\ n + 1 \in 1..Len(r.prefix)
    BY <1>0, <1>1, <1>4
  <2> QED BY <1>1, <2>1
<1>5. ASSUME NEW piece
      PROVE  piece \in C <=> \E r \in rules : /\ n + 1 < Len(r.prefix)
                                              /\ Way(r.prefix, n) = way
                                              /\ r.prefix[n + 1] = piece
  <2>1. piece \in C <=> \E q \in Q : q[n + 1] = piece
    OBVIOUS
  <2>2. \A q \in Q : \E r \in rules : q = Front(r.prefix)
    OBVIOUS
  <2> HIDE DEF C, Q
  <2> QED BY <1>3, <1>4, <2>1, <2>2
<1>6. NextPieces(rules, way) = C
  BY DEF NextPieces
<1> HIDE DEF C
<1>7. C \subseteq CPiece
  BY <1>4, <1>5
<1> QED BY <1>2, <1>5, <1>6, <1>7

\* The children stand in order, and are the segments that rules go on with.
LEMMA ChildrenType ==
  ASSUME NEW rules, RulesOf(rules), NEW way \in Seq(Seq(Nat))
  PROVE  LET children == NodeOf(rules, way).children IN
         /\ InByteOrder(children)
         /\ \A piece : piece \in NextPieces(rules, way) <=>
                         \E i \in 1..Len(children) : children[i] = piece
<1> DEFINE C == NextPieces(rules, way)
           s == NodeOf(rules, way).children
           below == [x \in C |-> {y \in C : LessPiece(y, x)}]
<1>1. s = [i \in 1..Cardinality(C) |->
             CHOOSE x \in C : Cardinality({y \in C : LessPiece(y, x)}) = i - 1]
  BY DEF NodeOf, Listed, NextPieces
<1>2. IsFiniteSet(C) /\ C \subseteq CPiece
  BY NextMeans
<1> HIDE DEF C, s
<1>3. ASSUME NEW x \in C, NEW y \in C PROVE x \in below[y] <=> Smaller(x, y)
  BY <1>2, CompareTells DEF LessPiece
<1>4. InLine(C, below)
  <2>1. below \in [C -> SUBSET C]
    OBVIOUS
  <2> HIDE DEF below
  <2>2. \A x \in C : x \notin below[x]
    BY <1>2, <1>3, SmallerOrders
  <2>3. ASSUME NEW x \in C, NEW y \in C, x \in below[y] PROVE below[x] \subseteq below[y]
    <3>1. \A z \in below[x] : z \in C
      BY <2>1
    <3> QED BY <1>2, <1>3, <2>3, <3>1, SmallerGoesOn
  <2>4. \A x, y \in C : x # y => x \in below[y] \/ y \in below[x]
    BY <1>2, <1>3, SmallerOrders
  <2> QED BY <1>2, <2>1, <2>2, <2>3, <2>4 DEF InLine
<1>5. ListOf(C, below, s)
  <2>1. ASSUME NEW i \in 1..Cardinality(C)
        PROVE  s[i] \in C /\ Cardinality(below[s[i]]) = i - 1
    <3> DEFINE Nth(x) == Cardinality({y \in C : LessPiece(y, x)}) = i - 1
    <3>1. \E x \in C : Nth(x)
      <4>1. PICK x \in C : Cardinality(below[x]) = i - 1
        <5> HIDE DEF below
        <5> QED BY <1>4, RankOnto
      <4>2. Nth(x)
        BY <4>1
      <4> HIDE DEF Nth
      <4> QED BY <4>2
    <3>2. s[i] = CHOOSE x \in C : Nth(x)
      BY <1>1
    <3>3. s[i] \in C /\ Nth(s[i])
      <4> HIDE DEF Nth
      <4> QED BY <3>1, <3>2
    <3> QED BY <3>3
  <2> DEFINE Chosen(i) == CHOOSE x \in C : Cardinality({y \in C : LessPiece(y, x)}) = i - 1
  <2>2. s = [i \in 1..Cardinality(C) |-> Chosen(i)]
    BY <1>1
  <2> HIDE DEF Chosen
  <2>3. DOMAIN s = 1..Cardinality(C) /\ s = [i \in 1..Cardinality(C) |-> s[i]]
    BY <2>2
  <2> HIDE DEF below
  <2> QED BY <2>1, <2>3 DEF ListOf
<1> HIDE DEF below
<1>6. /\ s \in Seq(C) /\ Len(s) \in Nat /\ \A i \in 1..Len(s) : s[i] \in C
      /\ \A x \in C : \E i \in 1..Len(s) : s[i] = x
      /\ \A i, j \in 1..Len(s) : i < j => s[i] \in below[s[j]]
  BY <1>4, <1>5, ListIsWhole
<1>7. InByteOrder(s)
  <2>1. s \in Seq(CPiece)
    BY <1>2, <1>6, ElementOfSeq, SeqDef, LenProperties
  <2> QED BY <1>3, <1>6, <2>1 DEF InByteOrder
<1> QED BY <1>6, <1>7 DEF C, s

\* The rules that end at a node with a piece, and the entries that they are there.
EndsAt(rules, way) == {r \in rules : ~r.exact /\ Front(r.prefix) = way /\ Last(r.prefix) # <<>>}
Entries(rules, way) == {[piece |-> Last(r.prefix), ctx |-> r.ctx] : r \in EndsAt(rules, way)}

LEMMA EntriesType ==
  ASSUME NEW rules, RulesOf(rules), NEW way
  PROVE  /\ IsFiniteSet(Entries(rules, way))
         /\ \A e \in Entries(rules, way) : e.piece \in CPiece /\ Len(e.piece) \in Nat
         /\ \A e, f \in Entries(rules, way) : e.piece = f.piece => e = f
<1> DEFINE R == EndsAt(rules, way)
           Entry(r) == [piece |-> Last(r.prefix), ctx |-> r.ctx]
           E == {Entry(r) : r \in R}
<1>1. R \in SUBSET rules /\ IsFiniteSet(R)
  <2>1. R \in SUBSET rules /\ IsFiniteSet(rules)
    BY DEF EndsAt, RulesOf, Serialized
  <2> QED BY <2>1, FS_Subset
<1>2. \A r, s \in R : Last(r.prefix) = Last(s.prefix) => r = s
  <2> SUFFICES ASSUME NEW r \in R, NEW s \in R, Last(r.prefix) = Last(s.prefix) PROVE r = s
    OBVIOUS
  <2>1. r \in rules /\ s \in rules /\ Front(r.prefix) = Front(s.prefix) /\ ~r.exact /\ ~s.exact
    BY DEF EndsAt
  <2>2. r.prefix = s.prefix
    BY <2>1, RuleType, FrontAndLast
  <2>3. r.exact = s.exact
    BY <2>1, RuleType
  <2> QED BY <2>1, <2>2, <2>3 DEF RulesOf, Serialized
<1>3. IsFiniteSet(E)
  <2> DEFINE f == [r \in R |-> Entry(r)]
  <2>1. E = {f[r] : r \in R}
    OBVIOUS
  <2> HIDE DEF E, f, R
  <2> QED BY <1>1, <2>1, ImageFinite
<1>4. \A r \in R : Last(r.prefix) \in CPiece
  BY <1>1, RuleType
<1> HIDE DEF R
<1>5. \A e \in E : e.piece \in CPiece
  BY <1>4
<1>6. \A e, f \in E : e.piece = f.piece => e = f
  BY <1>2
<1>7. Entries(rules, way) = E
  BY DEF Entries, R
<1> HIDE DEF E
<1>8. \A e \in E : Len(e.piece) \in Nat
  BY <1>5, ByteType
<1> QED BY <1>3, <1>5, <1>6, <1>7, <1>8

\* The entries stand longest first.
LEMMA EntriesListed ==
  ASSUME NEW rules, RulesOf(rules), NEW way
  PROVE  LET s == NodeOf(rules, way).prefixes IN
         /\ Len(s) \in Nat /\ \A i \in 1..Len(s) : s[i] \in Entries(rules, way)
         /\ \A e \in Entries(rules, way) : \E i \in 1..Len(s) : s[i] = e
         /\ \A i, j \in 1..Len(s) : i < j => Len(s[i].piece) >= Len(s[j].piece)
<1> DEFINE E == Entries(rules, way)
           s == NodeOf(rules, way).prefixes
           below == [x \in E |-> {y \in E : LongerPiece(y, x)}]
<1>1. s = [i \in 1..Cardinality(E) |->
             CHOOSE x \in E : Cardinality({y \in E : LongerPiece(y, x)}) = i - 1]
  <2> DEFINE here == {r \in rules : Front(r.prefix) = way}
             own == {r \in here : ~r.exact /\ Last(r.prefix) = <<>>}
             Entry(r) == [piece |-> Last(r.prefix), ctx |-> r.ctx]
             F == {Entry(r) : r \in {x \in here \ own : ~x.exact}}
  <2>1. s = [i \in 1..Cardinality(F) |->
               CHOOSE x \in F : Cardinality({y \in F : LongerPiece(y, x)}) = i - 1]
    BY DEF NodeOf, Listed
  <2>2. {x \in here \ own : ~x.exact} = EndsAt(rules, way)
    BY DEF EndsAt
  <2>3. F = E
    BY <2>2 DEF Entries
  <2> HIDE DEF F, E, s
  <2> QED BY <2>1, <2>3
<1>2. /\ IsFiniteSet(E) /\ \A e \in E : e.piece \in CPiece /\ Len(e.piece) \in Nat
      /\ \A e, f \in E : e.piece = f.piece => e = f
  BY EntriesType
<1> HIDE DEF E, s
<1>3. ASSUME NEW x \in E, NEW y \in E
      PROVE  x \in below[y] <=> \/ Len(x.piece) > Len(y.piece)
                                \/ Len(x.piece) = Len(y.piece) /\ Smaller(x.piece, y.piece)
  BY <1>2, CompareTells DEF LessPiece, LongerPiece
<1>4. InLine(E, below)
  <2>1. below \in [E -> SUBSET E]
    OBVIOUS
  <2> HIDE DEF below
  <2>2. \A x \in E : x \notin below[x]
    BY <1>2, <1>3, SmallerOrders
  <2>3. ASSUME NEW x \in E, NEW y \in E, x \in below[y] PROVE below[x] \subseteq below[y]
    <3> SUFFICES ASSUME NEW z \in below[x] PROVE z \in below[y]
      OBVIOUS
    <3>1. z \in E
      BY <2>1
    <3>2. /\ Len(x.piece) \in Nat /\ Len(y.piece) \in Nat /\ Len(z.piece) \in Nat
          /\ x.piece \in CPiece /\ y.piece \in CPiece /\ z.piece \in CPiece
      BY <1>2, <3>1
    <3>3. Smaller(z.piece, x.piece) /\ Smaller(x.piece, y.piece) => Smaller(z.piece, y.piece)
      BY <3>2, SmallerGoesOn
    <3>4. /\ \/ Len(z.piece) > Len(x.piece)
             \/ Len(z.piece) = Len(x.piece) /\ Smaller(z.piece, x.piece)
          /\ \/ Len(x.piece) > Len(y.piece)
             \/ Len(x.piece) = Len(y.piece) /\ Smaller(x.piece, y.piece)
      BY <1>3, <2>3, <3>1
    <3>5. \/ Len(z.piece) > Len(y.piece)
          \/ Len(z.piece) = Len(y.piece) /\ Smaller(z.piece, y.piece)
      BY <3>2, <3>3, <3>4
    <3> QED BY <1>3, <3>1, <3>5
  <2>4. ASSUME NEW x \in E, NEW y \in E, x # y PROVE x \in below[y] \/ y \in below[x]
    <3>1. /\ Len(x.piece) \in Nat /\ Len(y.piece) \in Nat
          /\ x.piece \in CPiece /\ y.piece \in CPiece /\ x.piece # y.piece
      BY <1>2, <2>4
    <3>2. Smaller(x.piece, y.piece) \/ Smaller(y.piece, x.piece)
      BY <3>1, SmallerOrders
    <3> QED BY <1>3, <3>1, <3>2
  <2> QED BY <1>2, <2>1, <2>2, <2>3, <2>4 DEF InLine
<1>5. ListOf(E, below, s)
  <2>1. ASSUME NEW i \in 1..Cardinality(E)
        PROVE  s[i] \in E /\ Cardinality(below[s[i]]) = i - 1
    <3> DEFINE Nth(x) == Cardinality({y \in E : LongerPiece(y, x)}) = i - 1
    <3>1. \E x \in E : Nth(x)
      <4>1. PICK x \in E : Cardinality(below[x]) = i - 1
        <5> HIDE DEF below
        <5> QED BY <1>4, RankOnto
      <4>2. Nth(x)
        BY <4>1
      <4> HIDE DEF Nth
      <4> QED BY <4>2
    <3>2. s[i] = CHOOSE x \in E : Nth(x)
      BY <1>1
    <3>3. s[i] \in E /\ Nth(s[i])
      <4> HIDE DEF Nth
      <4> QED BY <3>1, <3>2
    <3> QED BY <3>3
  <2> DEFINE Chosen(i) == CHOOSE x \in E : Cardinality({y \in E : LongerPiece(y, x)}) = i - 1
  <2>2. s = [i \in 1..Cardinality(E) |-> Chosen(i)]
    BY <1>1
  <2> HIDE DEF Chosen
  <2>3. DOMAIN s = 1..Cardinality(E) /\ s = [i \in 1..Cardinality(E) |-> s[i]]
    BY <2>2
  <2> HIDE DEF below
  <2> QED BY <2>1, <2>3 DEF ListOf
<1> HIDE DEF below
<1>6. /\ Len(s) \in Nat /\ \A i \in 1..Len(s) : s[i] \in E
      /\ \A x \in E : \E i \in 1..Len(s) : s[i] = x
      /\ \A i, j \in 1..Len(s) : i < j => s[i] \in below[s[j]]
  BY <1>4, <1>5, ListIsWhole
<1>7. ASSUME NEW i \in 1..Len(s), NEW j \in 1..Len(s), i < j
      PROVE  Len(s[i].piece) >= Len(s[j].piece)
  <2>1. s[i] \in E /\ s[j] \in E /\ s[i] \in below[s[j]]
    BY <1>6, <1>7
  <2>2. Len(s[i].piece) \in Nat /\ Len(s[j].piece) \in Nat
    BY <1>2, <2>1
  <2> QED BY <1>3, <2>1, <2>2
<1> QED BY <1>6, <1>7 DEF E, s

\* What check_prefix_match picks: the longest of the pieces that the segment begins with.
Matches(rules, way, piece) == {r \in EndsAt(rules, way) : IsPrefix(Last(r.prefix), piece)}

LEMMA MatchTells ==
  ASSUME NEW rules, RulesOf(rules), NEW way, NEW rest, NEW ctx
  PROVE  LET found == check_prefix_match(NodeOf(rules, way), rest, ctx)
             M == Matches(rules, way, rest[1])
         IN  /\ M = {} => found = ctx
             /\ M # {} => \E r \in M : /\ found = r.ctx
                                       /\ \A o \in M : Len(Last(o.prefix)) <= Len(Last(r.prefix))
<1> DEFINE found == check_prefix_match(NodeOf(rules, way), rest, ctx)
           M == Matches(rules, way, rest[1])
           s == NodeOf(rules, way).prefixes
           I == {i \in 1..Len(s) : IsPrefix(s[i].piece, rest[1])}
           at == CHOOSE i \in I : \A j \in I : i <= j
<1>1. found = IF (IF I # {} THEN at ELSE 0) = 0 THEN ctx ELSE s[IF I # {} THEN at ELSE 0].ctx
  BY DEF check_prefix_match, SelectInSeq, Min
<1>2. /\ Len(s) \in Nat /\ \A i \in 1..Len(s) : s[i] \in Entries(rules, way)
      /\ \A e \in Entries(rules, way) : \E i \in 1..Len(s) : s[i] = e
      /\ \A i, j \in 1..Len(s) : i < j => Len(s[i].piece) >= Len(s[j].piece)
  BY EntriesListed
<1>3. \A r \in M : \E i \in I : s[i] = [piece |-> Last(r.prefix), ctx |-> r.ctx]
  <2> SUFFICES ASSUME NEW r \in M PROVE \E i \in I : s[i] = [piece |-> Last(r.prefix), ctx |-> r.ctx]
    OBVIOUS
  <2>1. r \in EndsAt(rules, way) /\ IsPrefix(Last(r.prefix), rest[1])
    BY DEF Matches
  <2> DEFINE e == [piece |-> Last(r.prefix), ctx |-> r.ctx]
  <2>2. e \in Entries(rules, way) /\ e.piece = Last(r.prefix)
    BY <2>1 DEF Entries
  <2> HIDE DEF e, s
  <2>3. PICK i \in 1..Len(s) : s[i] = e
    BY <1>2, <2>2
  <2> QED BY <2>1, <2>2, <2>3 DEF e
<1>4. \A i \in I : \E r \in M : s[i] = [piece |-> Last(r.prefix), ctx |-> r.ctx]
  <2> SUFFICES ASSUME NEW i \in I PROVE \E r \in M : s[i] = [piece |-> Last(r.prefix), ctx |-> r.ctx]
    OBVIOUS
  <2>1. i \in 1..Len(s) /\ IsPrefix(s[i].piece, rest[1])
    OBVIOUS
  <2> HIDE DEF s
  <2>2. PICK r \in EndsAt(rules, way) : s[i] = [piece |-> Last(r.prefix), ctx |-> r.ctx]
    BY <1>2, <2>1 DEF Entries
  <2>3. s[i].piece = Last(r.prefix)
    BY <2>2
  <2> QED BY <2>1, <2>2, <2>3 DEF Matches
<1>5. ASSUME M = {} PROVE found = ctx
  <2>1. I = {}
    <3> HIDE DEF I, M
    <3> QED BY <1>4, <1>5
  <2> HIDE DEF found, I
  <2> QED BY <1>1, <2>1
<1>6. ASSUME M # {}
      PROVE  \E r \in M : found = r.ctx /\ \A o \in M : Len(Last(o.prefix)) <= Len(Last(r.prefix))
  <2>1. I # {} /\ I \in SUBSET Nat
    <3>1. I \in SUBSET Nat
      OBVIOUS
    <3> HIDE DEF I, M
    <3> QED BY <1>3, <1>6, <3>1
  <2>2. at \in I /\ \A j \in I : at <= j
    <3> HIDE DEF I
    <3> QED BY <2>1, LeastOf
  <2> HIDE DEF at
  <2>3. at # 0 /\ at \in 1..Len(s) /\ \A j \in I : j \in 1..Len(s)
    BY <2>2
  <2>4. found = s[at].ctx
    <3> HIDE DEF found, I, s
    <3> QED BY <1>1, <2>1, <2>3
  <2> HIDE DEF I, M, s, found
  <2>5. PICK r \in M : s[at] = [piece |-> Last(r.prefix), ctx |-> r.ctx]
    BY <1>4, <2>2
  <2>6. ASSUME NEW o \in M PROVE Len(Last(o.prefix)) <= Len(Last(r.prefix))
    <3>1. PICK j \in I : s[j] = [piece |-> Last(o.prefix), ctx |-> o.ctx]
      BY <1>3
    <3>2. Len(Last(o.prefix)) \in Nat /\ Len(Last(r.prefix)) \in Nat
      <4>1. o \in rules /\ r \in rules
        BY DEF M, Matches, EndsAt
      <4> QED BY <4>1, RuleType, ByteType
    <3>3. s[at].piece = Last(r.prefix) /\ s[j].piece = Last(o.prefix)
      BY <2>5, <3>1
    <3>4. CASE at = j
      BY <3>2, <3>3, <3>4
    <3>5. CASE at # j
      <4>1. at < j
        BY <1>2, <2>2, <2>3, <3>5
      <4>2. Len(s[at].piece) >= Len(s[j].piece)
        BY <1>2, <2>3, <4>1
      <4> QED BY <3>2, <3>3, <4>2
    <3> QED BY <3>4, <3>5
  <2>7. found = r.ctx
    BY <2>4, <2>5
  <2> QED BY <2>6, <2>7
<1> QED BY <1>5, <1>6

-------------------------------------------------------------------------------
(***************************************************************************)
(* One turn of the walk.                                                   *)
(***************************************************************************)
\* The rules that fit a name and have at most i segments, and the context of the longest.
Fits(rules, name, i) ==
  {r \in rules : ~r.exact /\ StartsWith(name, r.prefix) /\ Len(r.prefix) <= i}
BestOf(F, c) ==
  /\ F = {} => c = DEFAULT_CONTEXT
  /\ F # {} => \E r \in F : c = r.ctx /\ \A o \in F : TextLen(o.prefix) <= TextLen(r.prefix)

\* The rules whose prefix ends in the dot behind a node.
Own(rules, way) == {r \in rules : ~r.exact /\ Front(r.prefix) = way /\ Last(r.prefix) = <<>>}

LEMMA NodeContext ==
  ASSUME NEW rules, RulesOf(rules), NEW way
  PROVE  /\ Own(rules, way) # {} => \E r \in Own(rules, way) : NodeOf(rules, way).ctx = r.ctx
         /\ Own(rules, way) = {} =>
              NodeOf(rules, way).ctx = IF way = <<>> THEN DEFAULT_CONTEXT ELSE NoIndex
<1> DEFINE here == {r \in rules : Front(r.prefix) = way}
           own == {r \in here : ~r.exact /\ Last(r.prefix) = <<>>}
<1>1. NodeOf(rules, way).ctx = IF own # {} THEN (CHOOSE r \in own : TRUE).ctx
                               ELSE IF way = <<>> THEN DEFAULT_CONTEXT ELSE NoIndex
  BY DEF NodeOf
<1>2. own = Own(rules, way)
  BY DEF Own
<1> HIDE DEF own
<1>3. own # {} => (CHOOSE r \in own : TRUE) \in own
  OBVIOUS
<1> QED BY <1>1, <1>2, <1>3

LEMMA EmptyPrefix == ASSUME NEW t \in Seq(Nat) PROVE IsPrefix(<<>>, t)
<1>1. Len(<<>>) = 0 /\ Len(t) \in Nat
  BY LenProperties
<1>2. SubSeq(<<>>, 1, 0) = <<>> /\ SubSeq(t, 1, 0) = <<>>
  OBVIOUS
<1> QED BY <1>1, <1>2 DEF IsPrefix

\* The rules that fit and end at a node on the way.
LEMMA FitsMore ==
  ASSUME NEW rules, RulesOf(rules), NEW name \in CNames, NEW k \in 0..(Len(name) - 1)
  PROVE  /\ Fits(rules, name, k + 1) = Fits(rules, name, k) \cup Own(rules, Way(name, k))
                                       \cup Matches(rules, Way(name, k), name[k + 1])
         /\ \A r \in Fits(rules, name, k + 1) :
              r.prefix \in Prefix /\ StartsWith(name, r.prefix) /\ Len(Last(r.prefix)) \in Nat
         /\ \A r \in Fits(rules, name, k) : Len(r.prefix) <= k
         /\ \A r \in Own(rules, Way(name, k)) : Len(r.prefix) = k + 1 /\ Len(Last(r.prefix)) = 0
         /\ \A r \in Matches(rules, Way(name, k), name[k + 1]) : Len(r.prefix) = k + 1
<1> DEFINE way == Way(name, k)
<1>1. /\ name \in Seq(Seq(Nat)) /\ Len(name) \in Nat /\ k \in Nat /\ k \in 0..Len(name)
      /\ k + 1 \in 1..Len(name) /\ name[k + 1] \in Seq(Nat) /\ Len(way) = k
  <2>1. name \in Prefix
    BY CNameType
  <2>2. name \in Seq(Seq(Nat)) /\ Len(name) \in Nat /\ k \in Nat /\ k \in 0..Len(name)
        /\ k + 1 \in 1..Len(name)
    BY <2>1, PrefixType
  <2> QED BY <2>1, <2>2, PrefixType, WayType
<1>2. ASSUME NEW r \in rules
      PROVE  /\ r.prefix \in Prefix /\ Len(r.prefix) \in Nat \ {0} /\ Last(r.prefix) \in Seq(Nat)
             /\ Len(Last(r.prefix)) \in Nat /\ Len(Front(r.prefix)) = Len(r.prefix) - 1
             /\ StartsWith(name, r.prefix) <=>
                  /\ Len(r.prefix) <= Len(name) /\ Front(r.prefix) = Way(name, Len(r.prefix) - 1)
                  /\ IsPrefix(Last(r.prefix), name[Len(r.prefix)])
  <2>1. r.prefix \in Prefix
    BY RuleType
  <2> QED BY <1>1, <2>1, PrefixType, StartsMeans
<1>3. ASSUME NEW r \in rules, Front(r.prefix) = way PROVE Len(r.prefix) = k + 1
  <2>1. Len(r.prefix) - 1 = k /\ Len(r.prefix) \in Nat
    BY <1>1, <1>2, <1>3
  <2> QED BY <1>1, <2>1
<1>4. ASSUME NEW r \in rules, Len(r.prefix) = k + 1
      PROVE  StartsWith(name, r.prefix) <=> Front(r.prefix) = way /\ IsPrefix(Last(r.prefix), name[k + 1])
  <2>1. Len(r.prefix) <= Len(name) /\ Len(r.prefix) - 1 = k
    BY <1>1, <1>4
  <2> QED BY <1>2, <1>4, <2>1
<1>5. IsPrefix(<<>>, name[k + 1])
  BY <1>1, EmptyPrefix
<1> HIDE DEF way
<1>6. ASSUME NEW r \in rules
      PROVE  r \in Fits(rules, name, k + 1) <=>
               r \in Fits(rules, name, k) \/ r \in Own(rules, way) \/ r \in Matches(rules, way, name[k + 1])
  <2>1. Len(r.prefix) <= k + 1 <=> Len(r.prefix) <= k \/ Len(r.prefix) = k + 1
    BY <1>1, <1>2
  <2>2. Len(r.prefix) = k + 1 => ~(Len(r.prefix) <= k)
    BY <1>1
  <2>3. r \in Own(rules, way) \/ r \in Matches(rules, way, name[k + 1]) <=>
          ~r.exact /\ Front(r.prefix) = way /\ IsPrefix(Last(r.prefix), name[k + 1])
    BY <1>5 DEF Own, Matches, EndsAt
  <2>4. r \in Fits(rules, name, k + 1) <=>
          ~r.exact /\ StartsWith(name, r.prefix) /\ Len(r.prefix) <= k + 1
    BY DEF Fits
  <2>5. r \in Fits(rules, name, k) <=>
          ~r.exact /\ StartsWith(name, r.prefix) /\ Len(r.prefix) <= k
    BY DEF Fits
  <2> QED BY <1>3, <1>4, <2>1, <2>2, <2>3, <2>4, <2>5
<1>7. Fits(rules, name, k + 1) = Fits(rules, name, k) \cup Own(rules, way)
                                 \cup Matches(rules, way, name[k + 1])
  <2>1. \A r : r \in Fits(rules, name, k + 1) => r \in rules
    BY DEF Fits
  <2>2. \A r : r \in Fits(rules, name, k) \/ r \in Own(rules, way)
               \/ r \in Matches(rules, way, name[k + 1]) => r \in rules
    BY DEF Fits, Own, Matches, EndsAt
  <2> QED BY <1>6, <2>1, <2>2
<1>8. \A r \in Own(rules, way) : Len(r.prefix) = k + 1 /\ Len(Last(r.prefix)) = 0
  BY <1>3 DEF Own
<1>9. \A r \in Matches(rules, way, name[k + 1]) : Len(r.prefix) = k + 1
  BY <1>3 DEF Matches, EndsAt
<1>10. \A r \in Fits(rules, name, k + 1) :
         r.prefix \in Prefix /\ StartsWith(name, r.prefix) /\ Len(Last(r.prefix)) \in Nat
  BY <1>2 DEF Fits
<1>11. \A r \in Fits(rules, name, k) : Len(r.prefix) <= k
  BY DEF Fits
<1> QED BY <1>7, <1>8, <1>9, <1>10, <1>11 DEF way

\* Of what fits, the longest piece at the last node is the best, and then the prefix that
\* ends before it, with whatever was the best on the way.
LEMMA MatchIsBest ==
  ASSUME NEW rules, RulesOf(rules), NEW name \in CNames, NEW k \in 0..(Len(name) - 1),
         NEW rest, rest[1] = name[k + 1], NEW ctx,
         Matches(rules, Way(name, k), name[k + 1]) = {} => BestOf(Fits(rules, name, k + 1), ctx)
  PROVE  BestOf(Fits(rules, name, k + 1), check_prefix_match(NodeOf(rules, Way(name, k)), rest, ctx))
<1> DEFINE way == Way(name, k)
           M == Matches(rules, way, name[k + 1])
           F == Fits(rules, name, k + 1)
           found == check_prefix_match(NodeOf(rules, way), rest, ctx)
<1>1. /\ M = {} => found = ctx
      /\ M # {} => \E r \in M : /\ found = r.ctx
                                /\ \A o \in M : Len(Last(o.prefix)) <= Len(Last(r.prefix))
  <2> DEFINE N == Matches(rules, way, rest[1])
  <2>1. /\ N = {} => found = ctx
        /\ N # {} => \E r \in N : /\ found = r.ctx
                                  /\ \A o \in N : Len(Last(o.prefix)) <= Len(Last(r.prefix))
    BY MatchTells
  <2>2. N = M
    OBVIOUS
  <2> HIDE DEF N, M, found
  <2> QED BY <2>1, <2>2
<1>2. /\ F = Fits(rules, name, k) \cup Own(rules, way) \cup M
      /\ \A r \in F : r.prefix \in Prefix /\ StartsWith(name, r.prefix) /\ Len(Last(r.prefix)) \in Nat
      /\ \A r \in Fits(rules, name, k) : Len(r.prefix) <= k
      /\ \A r \in Own(rules, way) : Len(r.prefix) = k + 1 /\ Len(Last(r.prefix)) = 0
      /\ \A r \in M : Len(r.prefix) = k + 1
  BY ONLY RulesOf(rules), name \in CNames, k \in 0..(Len(name) - 1), FitsMore
<1>3. name \in Seq(Seq(Nat)) /\ k \in Nat
  <2>1. name \in Prefix
    BY CNameType
  <2>2. name \in Seq(Seq(Nat)) /\ Len(name) \in Nat
    BY <2>1, PrefixType
  <2> QED BY <2>2
<1> HIDE DEF M, F, found
<1>4. CASE M = {}
  BY <1>1, <1>4 DEF M, F, found
<1>5. CASE M # {}
  <2>1. PICK r \in M : found = r.ctx /\ \A o \in M : Len(Last(o.prefix)) <= Len(Last(r.prefix))
    BY <1>1, <1>5
  <2>2. ASSUME NEW o \in F PROVE TextLen(o.prefix) <= TextLen(r.prefix)
    <3>1. /\ o.prefix \in Prefix /\ StartsWith(name, o.prefix) /\ Len(Last(o.prefix)) \in Nat
          /\ r.prefix \in Prefix /\ StartsWith(name, r.prefix) /\ Len(Last(r.prefix)) \in Nat
          /\ Len(r.prefix) = k + 1
      BY <1>2
    <3>2. /\ Len(o.prefix) < Len(r.prefix) => TextLen(o.prefix) < TextLen(r.prefix)
          /\ Len(o.prefix) = Len(r.prefix) =>
               (TextLen(o.prefix) <= TextLen(r.prefix) <=> Len(Last(o.prefix)) <= Len(Last(r.prefix)))
          /\ TextLen(o.prefix) \in Int /\ TextLen(r.prefix) \in Int
      BY <1>3, <3>1, FitsCompare
    <3>3. CASE o \in Fits(rules, name, k)
      <4>1. Len(o.prefix) <= k /\ Len(o.prefix) \in Nat
        BY <1>2, <3>1, <3>3, PrefixType
      <4>2. Len(o.prefix) < Len(r.prefix)
        BY <1>3, <3>1, <4>1
      <4> QED BY <3>2, <4>2
    <3>4. CASE o \in Own(rules, way)
      BY <1>2, <3>1, <3>2, <3>4
    <3>5. CASE o \in M
      BY <1>2, <2>1, <3>1, <3>2, <3>5
    <3> QED BY <1>2, <3>3, <3>4, <3>5
  <2>3. r \in F
    BY <1>2
  <2> QED BY <2>1, <2>2, <2>3 DEF BestOf, F, found
<1> QED BY <1>4, <1>5

LEMMA TurnIsBest ==
  ASSUME NEW rules, RulesOf(rules), NEW name \in CNames, NEW k \in 0..(Len(name) - 1),
         NEW rest, rest[1] = name[k + 1], NEW ctx, k # 0 => BestOf(Fits(rules, name, k), ctx),
         NEW node, node = NodeOf(rules, Way(name, k))
  PROVE  BestOf(Fits(rules, name, k + 1),
                check_prefix_match(node, rest, IF node.ctx # NoIndex THEN node.ctx ELSE ctx))
<1> DEFINE way == Way(name, k)
           M == Matches(rules, way, name[k + 1])
           F == Fits(rules, name, k + 1)
           own == Own(rules, way)
           from == IF node.ctx # NoIndex THEN node.ctx ELSE ctx
<1>1. /\ own # {} => \E r \in own : node.ctx = r.ctx
      /\ own = {} => node.ctx = IF way = <<>> THEN DEFAULT_CONTEXT ELSE NoIndex
  BY NodeContext
<1>2. /\ F = Fits(rules, name, k) \cup own \cup M
      /\ \A r \in F : r.prefix \in Prefix /\ StartsWith(name, r.prefix) /\ Len(Last(r.prefix)) \in Nat
      /\ \A r \in Fits(rules, name, k) : Len(r.prefix) <= k
      /\ \A r \in own : Len(r.prefix) = k + 1 /\ Len(Last(r.prefix)) = 0
  BY FitsMore
<1>3. /\ name \in Seq(Seq(Nat)) /\ k \in Nat /\ Len(way) = k
  <2>1. name \in Prefix
    BY CNameType
  <2>2. name \in Seq(Seq(Nat)) /\ Len(name) \in Nat /\ k \in Nat /\ k \in 0..Len(name)
    BY <2>1, PrefixType
  <2> QED BY <2>2, WayType
<1>4. \A r \in own : r.ctx \in Nat
  BY RuleType DEF Own
<1>5. DEFAULT_CONTEXT # NoIndex /\ \A c \in Nat : c # NoIndex
  BY ContextsAssumption DEF NoIndex
<1>6. ASSUME M = {} PROVE BestOf(F, from)
  <2> HIDE DEF own, F, M
  <2>1. CASE own # {}
    <3>1. PICK r \in own : node.ctx = r.ctx
      BY <1>1, <2>1
    <3>2. from = r.ctx
      BY <1>4, <1>5, <3>1
    <3>3. ASSUME NEW o \in F PROVE TextLen(o.prefix) <= TextLen(r.prefix)
      <4>1. /\ o.prefix \in Prefix /\ StartsWith(name, o.prefix) /\ Len(Last(o.prefix)) \in Nat
            /\ r.prefix \in Prefix /\ StartsWith(name, r.prefix) /\ Len(Last(r.prefix)) = 0
            /\ Len(r.prefix) = k + 1
        BY <1>2
      <4>2. /\ Len(o.prefix) < Len(r.prefix) => TextLen(o.prefix) < TextLen(r.prefix)
            /\ Len(o.prefix) = Len(r.prefix) =>
                 (TextLen(o.prefix) <= TextLen(r.prefix) <=> Len(Last(o.prefix)) <= Len(Last(r.prefix)))
            /\ TextLen(o.prefix) \in Int /\ TextLen(r.prefix) \in Int
        BY <1>3, <4>1, FitsCompare
      <4>3. CASE o \in Fits(rules, name, k)
        <5>1. Len(o.prefix) <= k /\ Len(o.prefix) \in Nat
          BY <1>2, <4>1, <4>3, PrefixType
        <5>2. Len(o.prefix) < Len(r.prefix)
          BY <1>3, <4>1, <5>1
        <5> QED BY <4>2, <5>2
      <4>4. CASE o \in own
        BY <1>2, <4>1, <4>2, <4>4
      <4> QED BY <1>2, <1>6, <4>3, <4>4
    <3>4. r \in F
      BY <1>2
    <3> QED BY <3>2, <3>3, <3>4 DEF BestOf
  <2>2. CASE own = {} /\ k = 0
    <3>1. way = <<>>
      BY <1>3, <2>2, WayType DEF Way
    <3>2. from = DEFAULT_CONTEXT
      BY <1>1, <1>5, <2>2, <3>1
    <3>3. Fits(rules, name, k) = {}
      <4>1. \A r \in Fits(rules, name, k) : Len(r.prefix) <= 0 /\ Len(r.prefix) \in Nat \ {0}
        BY <1>2, <2>2, PrefixType
      <4> QED BY <4>1
    <3>4. F = {}
      BY <1>2, <1>6, <2>2, <3>3
    <3> QED BY <3>2, <3>4 DEF BestOf
  <2>3. CASE own = {} /\ k # 0
    <3>1. way # <<>>
      BY <1>3, <2>3
    <3>2. from = ctx
      BY <1>1, <2>3, <3>1
    <3>3. F = Fits(rules, name, k)
      BY <1>2, <1>6, <2>3
    <3> QED BY <2>3, <3>2, <3>3
  <2> QED BY <2>1, <2>2, <2>3
<1> QED BY <1>6, MatchIsBest

\* A node leads on to the child for the next segment of the name where rules do.
LEMMA ChildOnWay ==
  ASSUME NEW rules, RulesOf(rules), NEW name \in CNames, NEW k \in 0..(Len(name) - 2),
         NEW children, children = NodeOf(rules, Way(name, k)).children,
         NEW child, child = find_child(children, name[k + 1])
  PROVE  /\ child = 0 <=> ~InTrie(rules, Way(name, k + 1))
         /\ child # 0 => Append(Way(name, k), children[child]) = Way(name, k + 1)
<1> DEFINE way == Way(name, k)
           piece == name[k + 1]
           C == NextPieces(rules, way)
<1>1. /\ name \in Seq(Seq(Nat)) /\ Len(name) \in Nat /\ k \in Nat
      /\ k \in 0..Len(name) /\ k + 1 \in 0..Len(name) /\ k + 1 \in 1..Len(name)
      /\ piece \in CPiece
  <2>1. name \in Prefix
    BY CNameType
  <2>2. name \in Seq(Seq(Nat)) /\ Len(name) \in Nat
    BY <2>1, PrefixType
  <2>3. k + 1 \in 1..Len(name)
    BY <2>2
  <2>4. piece \in CPiece
    BY <2>3, CNameType
  <2> QED BY <2>2, <2>4
<1>2. /\ way \in Seq(Seq(Nat)) /\ Len(way) = k /\ \A j \in 1..k : way[j] = name[j]
      /\ Way(name, k + 1) \in Seq(Seq(Nat)) /\ Len(Way(name, k + 1)) = k + 1
      /\ \A j \in 1..(k + 1) : Way(name, k + 1)[j] = name[j]
  <2> DEFINE n == k + 1
  <2>1. n \in 0..Len(name)
    BY <1>1
  <2> HIDE DEF n
  <2>2. Way(name, n) \in Seq(Seq(Nat)) /\ Len(Way(name, n)) = n /\ \A j \in 1..n : Way(name, n)[j] = name[j]
    BY <1>1, <2>1, WayType
  <2>3. way \in Seq(Seq(Nat)) /\ Len(way) = k /\ \A j \in 1..k : way[j] = name[j]
    BY <1>1, WayType
  <2> QED BY <2>2, <2>3 DEF n
<1> HIDE DEF way, piece
<1>3. /\ InByteOrder(children)
      /\ \A x : x \in C <=> \E i \in 1..Len(children) : children[i] = x
  BY <1>2, ChildrenType DEF way
<1>4. piece \in C <=> \E r \in rules : /\ k + 1 < Len(r.prefix)
                                       /\ Way(r.prefix, k) = way
                                       /\ r.prefix[k + 1] = piece
  <2> DEFINE m == Len(way)
  <2>1. m = k
    BY <1>2
  <2>2. piece \in C <=> \E r \in rules : /\ m + 1 < Len(r.prefix)
                                         /\ Way(r.prefix, m) = way
                                         /\ r.prefix[m + 1] = piece
    <3>1. way \in Seq(Seq(Nat))
      BY <1>2
    <3>2. \A x : x \in NextPieces(rules, way) <=>
              \E r \in rules : /\ Len(way) + 1 < Len(r.prefix)
                               /\ Way(r.prefix, Len(way)) = way
                               /\ r.prefix[Len(way) + 1] = x
      BY <3>1, NextMeans
    <3> QED BY <3>2
  <2> HIDE DEF m, C
  <2> QED BY <2>1, <2>2
<1>5. ASSUME NEW r \in rules, k + 1 < Len(r.prefix)
      PROVE  Way(r.prefix, k) = way /\ r.prefix[k + 1] = piece <=> Way(r.prefix, k + 1) = Way(name, k + 1)
  <2> DEFINE p == r.prefix
             n == k + 1
  <2>1. p \in Seq(Seq(Nat)) /\ Len(p) \in Nat
    BY RuleType, PrefixType
  <2>2. k \in 0..Len(p) /\ n \in 0..Len(p) /\ n \in 0..Len(name) /\ k \in 0..Len(name) /\ n \in Nat
        /\ n = k + 1
    BY <1>1, <1>5, <2>1
  <2> HIDE DEF p, n
  <2>3. Way(p, k) = Way(name, k) <=> \A j \in 1..k : p[j] = name[j]
    BY <1>1, <2>1, <2>2, SameWays
  <2>4. Way(p, n) = Way(name, n) <=> \A j \in 1..n : p[j] = name[j]
    BY <1>1, <2>1, <2>2, SameWays
  <2>5. (\A j \in 1..n : p[j] = name[j]) <=> (\A j \in 1..k : p[j] = name[j]) /\ p[n] = name[n]
    BY <1>1, <2>2
  <2>6. Way(p, k) = way /\ p[n] = piece <=> Way(p, n) = Way(name, n)
    BY <2>2, <2>3, <2>4, <2>5 DEF way, piece
  <2> QED BY <2>6 DEF p, n
<1>6. InTrie(rules, Way(name, k + 1)) <=>
        \E r \in rules : k + 1 < Len(r.prefix) /\ Way(r.prefix, k + 1) = Way(name, k + 1)
  <2> DEFINE n == k + 1
             w == Way(name, n)
  <2>1. Len(w) = n /\ w # <<>> /\ n \in Nat
    BY <1>1, <1>2
  <2>2. ASSUME NEW r \in rules, NEW i \in 0..(Len(r.prefix) - 1), w = Way(r.prefix, i)
        PROVE  n < Len(r.prefix) /\ Way(r.prefix, n) = w
    <3>1. r.prefix \in Seq(Seq(Nat)) /\ Len(r.prefix) \in Nat /\ i \in 0..Len(r.prefix)
      BY RuleType, PrefixType
    <3>2. Len(Way(r.prefix, i)) = i
      BY <3>1, WayType
    <3> HIDE DEF w, n
    <3> QED BY <2>1, <2>2, <3>1, <3>2
  <2>3. ASSUME NEW r \in rules, n < Len(r.prefix) PROVE n \in 0..(Len(r.prefix) - 1)
    <3>1. Len(r.prefix) \in Nat
      BY RuleType, PrefixType
    <3> QED BY <2>1, <2>3, <3>1
  <2> HIDE DEF w, n
  <2>4. InTrie(rules, w) <=> \E r \in rules : n < Len(r.prefix) /\ Way(r.prefix, n) = w
    BY <2>1, <2>2, <2>3 DEF InTrie
  <2> QED BY <2>4 DEF w, n
<1>7. piece \in C <=> InTrie(rules, Way(name, k + 1))
  BY <1>4, <1>5, <1>6
<1> DEFINE I == Between(children, piece, 1, Len(children))
<1>8. child = PlaceOf(I)
  BY <1>1, <1>3, ChildFound DEF piece
<1>9. I = {i \in 1..Len(children) : children[i] = piece}
  <2>1. Len(children) \in Nat
    BY <1>3, LenProperties DEF InByteOrder
  <2> QED BY <2>1 DEF Between
<1>10. child # 0 => child \in 1..Len(children) /\ children[child] = piece
  <2> HIDE DEF I
  <2>1. child # 0 => child \in I
    BY <1>8, PlaceOfAny
  <2> QED BY <1>9, <2>1
<1>11. child # 0 <=> piece \in C
  <2>1. piece \in C => I # {}
    BY <1>3, <1>9
  <2>2. I # {} => PlaceOf(I) \in I
    BY PlaceOfAny
  <2>3. \A i \in I : i # 0
    BY <1>9
  <2> HIDE DEF I
  <2>4. piece \in C => child # 0
    BY <1>8, <2>1, <2>2, <2>3
  <2> QED BY <1>3, <1>10, <2>4
<1>12. Append(way, piece) = Way(name, k + 1)
  <2> DEFINE a == Append(way, piece)
             w == Way(name, k + 1)
  <2>1. piece \in Seq(Nat)
    BY <1>1 DEF CPiece
  <2>2. a \in Seq(Seq(Nat)) /\ Len(a) = k + 1 /\ \A j \in 1..(k + 1) : a[j] = IF j <= k THEN way[j] ELSE piece
    BY <1>1, <1>2, <2>1, AppendProperties
  <2>3. w \in Seq(Seq(Nat)) /\ Len(w) = k + 1 /\ \A j \in 1..(k + 1) : w[j] = name[j]
    BY <1>2
  <2> HIDE DEF a, w
  <2>4. \A j \in 1..(k + 1) : a[j] = w[j]
    <3> SUFFICES ASSUME NEW j \in 1..(k + 1) PROVE a[j] = w[j]
      OBVIOUS
    <3>1. CASE j <= k
      <4>1. j \in 1..k
        BY <1>1, <3>1
      <4> QED BY <1>2, <2>2, <2>3, <3>1, <4>1
    <3>2. CASE ~(j <= k)
      <4>1. j = k + 1
        BY <1>1, <3>2
      <4> QED BY <2>2, <2>3, <3>2, <4>1 DEF piece
    <3> QED BY <3>1, <3>2
  <2>5. a = w
    BY <2>2, <2>3, <2>4, SeqEqual
  <2> QED BY <2>5 DEF a, w
<1> QED BY <1>7, <1>10, <1>11, <1>12 DEF way

-------------------------------------------------------------------------------
(***************************************************************************)
(* The walk.                                                               *)
(***************************************************************************)
Start(name) == [path |-> <<>>, rest |-> name, ctx |-> NoIndex, done |-> FALSE]
Walks(f, trie, name, n) ==
  /\ f = [i \in 0..n |-> f[i]] /\ f[0] = Start(name)
  /\ \A i \in 1..n : f[i] = Turn(trie, f[i - 1])

\* The recursion of Walk has a solution.
LEMMA WalksExists ==
  ASSUME NEW trie, NEW name, NEW n \in Nat PROVE \E f : Walks(f, trie, name, n)
<1> DEFINE T == {m \in Nat : ~ \E f : Walks(f, trie, name, m)}
<1>1. SUFFICES ASSUME T # {} PROVE FALSE
  OBVIOUS
<1>2. PICK m \in T : \A y \in T : m <= y
  <2>1. T \in SUBSET Nat
    OBVIOUS
  <2> HIDE DEF T
  <2> QED BY <1>1, <2>1, LeastOf
<1>3. m # 0
  <2> DEFINE f == [i \in 0..0 |-> Start(name)]
  <2>1. f = [i \in 0..0 |-> f[i]] /\ f[0] = Start(name)
    OBVIOUS
  <2>2. Walks(f, trie, name, 0)
    BY <2>1 DEF Walks
  <2> QED BY <1>2, <2>2
<1>4. m \in Nat /\ m \in 1..m /\ m - 1 \in 0..(m - 1) /\ m - 1 \in Nat /\ ~(m <= m - 1)
  BY <1>2, <1>3
<1>5. PICK f : Walks(f, trie, name, m - 1)
  <2>1. m - 1 \notin T
    BY <1>2, <1>4
  <2> QED BY <1>4, <2>1
<1> DEFINE more == Turn(trie, f[m - 1])
           g == [i \in 0..m |-> IF i < m THEN f[i] ELSE more]
<1> HIDE DEF more
<1>6. g = [i \in 0..m |-> g[i]] /\ \A i \in 0..(m - 1) : g[i] = f[i]
  BY <1>4
<1>7. g[m] = more
  BY <1>4
<1> HIDE DEF g
<1>8. Walks(g, trie, name, m)
  <2>1. g[0] = Start(name)
    BY <1>4, <1>5, <1>6 DEF Walks
  <2>2. ASSUME NEW i \in 1..m PROVE g[i] = Turn(trie, g[i - 1])
    <3>1. CASE i = m
      BY <1>4, <1>6, <1>7, <3>1 DEF more
    <3>2. CASE i # m
      <4>1. i \in 1..(m - 1) /\ i - 1 \in 0..(m - 1) /\ i \in 0..(m - 1)
        BY <1>4, <3>2
      <4>2. g[i] = f[i] /\ g[i - 1] = f[i - 1]
        BY <1>6, <4>1
      <4> QED BY <1>5, <4>1, <4>2 DEF Walks
    <3> QED BY <3>1, <3>2
  <2> QED BY <1>6, <2>1, <2>2 DEF Walks
<1> QED BY <1>2, <1>8

LEMMA WalkTurns ==
  ASSUME NEW trie, NEW name, Len(name) \in Nat
  PROVE  \E f : Walks(f, trie, name, Len(name)) /\ Walk(trie, name) = f[Len(name)]
<1> DEFINE n == Len(name)
           R(f) == f = [i \in 0..n |->
                         IF i = 0 THEN [path |-> <<>>, rest |-> name, ctx |-> NoIndex, done |-> FALSE]
                         ELSE Turn(trie, f[i - 1])]
           after == CHOOSE f : R(f)
<1>1. PICK f : Walks(f, trie, name, n)
  BY WalksExists
<1>2. R(f)
  <2> DEFINE h == [i \in 0..n |-> IF i = 0 THEN Start(name) ELSE Turn(trie, f[i - 1])]
  <2>1. f = [i \in 0..n |-> f[i]] /\ \A i \in 0..n : f[i] = h[i]
    BY <1>1 DEF Walks
  <2>2. f = h
    BY <2>1
  <2> QED BY <2>2 DEF Start
<1>3. R(after)
  BY <1>2
<1> HIDE DEF after
<1>4. \A i \in 0..n : after[i] = IF i = 0 THEN Start(name) ELSE Turn(trie, after[i - 1])
  BY <1>3 DEF Start
<1>5. after = [i \in 0..n |-> after[i]]
  <2> DEFINE V(i) == IF i = 0 THEN [path |-> <<>>, rest |-> name, ctx |-> NoIndex, done |-> FALSE]
                     ELSE Turn(trie, after[i - 1])
  <2>1. after = [i \in 0..n |-> V(i)]
    BY <1>3
  <2> HIDE DEF V
  <2> QED BY <2>1
<1>6. Walks(after, trie, name, n)
  <2>0. n \in Nat
    OBVIOUS
  <2>1. after[0] = Start(name)
    <3>1. 0 \in 0..n
      BY <2>0
    <3> QED BY <1>4, <3>1
  <2>2. ASSUME NEW i \in 1..n PROVE after[i] = Turn(trie, after[i - 1])
    <3>1. i \in 0..n /\ i # 0
      BY <2>0
    <3> QED BY <1>4, <3>1
  <2> HIDE DEF n
  <2> QED BY <1>5, <2>1, <2>2 DEF Walks
<1>7. Walk(trie, name) = after[n]
  BY DEF Walk, after
<1> QED BY <1>6, <1>7

\* What is left of a name behind its first segments.
Behind(name, k) == SubSeq(name, k + 1, Len(name))

LEMMA BehindType ==
  ASSUME NEW S, NEW s \in Seq(S), NEW k \in 0..(Len(s) - 1)
  PROVE  /\ Behind(s, k) \in Seq(S) /\ Len(Behind(s, k)) = Len(s) - k /\ Behind(s, k)[1] = s[k + 1]
         /\ Tail(Behind(s, k)) = Behind(s, k + 1) /\ Behind(s, 0) = s
         /\ Len(Behind(s, k)) = 1 <=> k = Len(s) - 1
<1> DEFINE n == Len(s)
           b == Behind(s, k)
           c == Behind(s, k + 1)
<1>1. n \in Nat
  BY LenProperties
<1>2. b \in Seq(S) /\ Len(b) = n - k /\ \A i \in 1..(n - k) : b[i] = s[k + i]
  BY <1>1 DEF Behind
<1>3. c \in Seq(S) /\ Len(c) = n - k - 1 /\ \A i \in 1..(n - k - 1) : c[i] = s[k + 1 + i]
  BY <1>1 DEF Behind
<1> HIDE DEF b, c
<1>4. Len(b) # 0 /\ Tail(b) \in Seq(S) /\ Len(Tail(b)) = n - k - 1 /\ \A i \in 1..(n - k - 1) : Tail(b)[i] = b[i + 1]
  <2>1. b # <<>>
    BY <1>1, <1>2
  <2> QED BY <1>1, <1>2, <2>1
<1>5. Tail(b) = c
  <2>1. \A i \in 1..(n - k - 1) : Tail(b)[i] = c[i]
    <3> SUFFICES ASSUME NEW i \in 1..(n - k - 1) PROVE Tail(b)[i] = c[i]
      OBVIOUS
    <3>1. i + 1 \in 1..(n - k) /\ k + (i + 1) = k + 1 + i
      BY <1>1
    <3> QED BY <1>2, <1>3, <1>4, <3>1
  <2> QED BY <1>3, <1>4, <2>1, SeqEqual
<1>6. Behind(s, 0) = s
  <2> DEFINE d == Behind(s, 0)
  <2>1. d \in Seq(S) /\ Len(d) = n /\ \A i \in 1..n : d[i] = s[i]
    BY <1>1 DEF Behind
  <2> HIDE DEF d
  <2>2. d = s
    BY <2>1, SeqEqual
  <2> QED BY <2>2 DEF d
<1>7. 1 \in 1..(n - k)
  BY <1>1
<1> QED BY <1>1, <1>2, <1>5, <1>6, <1>7 DEF b, c

\* How far a walk has come after i turns: to the node at the end of the way, or it has
\* stopped at the last node there is.
OnWay(rules, name, i, x, k) ==
  /\ x = [path |-> Way(name, k), rest |-> Behind(name, k), ctx |-> x.ctx, done |-> x.done]
  /\ x.done \in BOOLEAN /\ k \in 0..(Len(name) - 1) /\ InTrie(rules, Way(name, k))
  /\ x.done => /\ BestOf(Fits(rules, name, k + 1), x.ctx)
               /\ k = Len(name) - 1 \/ ~InTrie(rules, Way(name, k + 1))
  /\ ~x.done => k = i /\ (k # 0 => BestOf(Fits(rules, name, k), x.ctx))

LEMMA WalkStarts ==
  ASSUME NEW rules, NEW name \in CNames PROVE OnWay(rules, name, 0, Start(name), 0)
<1>1. name \in Seq(Seq(Nat)) /\ Len(name) \in Nat \ {0}
  BY CNameType, PrefixType
<1>2. Way(name, 0) = <<>>
  <2>1. 0 \in 0..Len(name)
    BY <1>1
  <2> QED BY <1>1, <2>1, WayType, EmptySeq
<1>3. Behind(name, 0) = name /\ 0 \in 0..(Len(name) - 1)
  BY <1>1, BehindType
<1>4. InTrie(rules, <<>>)
  BY DEF InTrie
<1> QED BY <1>2, <1>3, <1>4 DEF OnWay, Start

LEMMA WalkGoesOn ==
  ASSUME NEW rules, RulesOf(rules), NEW name \in CNames, NEW i \in Nat, NEW x, NEW k,
         OnWay(rules, name, i, x, k)
  PROVE  \E j : OnWay(rules, name, i + 1, Turn(TrieOf(rules), x), j)
<1> DEFINE y == Turn(TrieOf(rules), x)
           way == Way(name, k)
           node == NodeOf(rules, way)
           ctx == check_prefix_match(node, x.rest, IF node.ctx # NoIndex THEN node.ctx ELSE x.ctx)
           child == find_child(node.children, x.rest[1])
           n == Len(name)
<1>1. name \in Seq(Seq(Nat)) /\ n \in Nat
  BY CNameType, PrefixType
<1>2. /\ x = [path |-> way, rest |-> Behind(name, k), ctx |-> x.ctx, done |-> x.done]
      /\ x.done \in BOOLEAN /\ k \in 0..(n - 1) /\ InTrie(rules, way)
  BY DEF OnWay
<1>3. x.path = way /\ x.rest = Behind(name, k)
  BY <1>2
<1>4. TrieOf(rules)[x.path] = node
  BY <1>2, <1>3, TrieNodes
<1>5. y = IF x.done THEN x
          ELSE IF Len(x.rest) = 1 \/ child = 0 THEN [path |-> x.path, rest |-> x.rest, ctx |-> ctx, done |-> TRUE]
          ELSE [path |-> Append(x.path, node.children[child]), rest |-> Tail(x.rest),
                ctx |-> ctx, done |-> FALSE]
  BY <1>4 DEF Turn
<1>6. /\ x.rest[1] = name[k + 1] /\ Tail(x.rest) = Behind(name, k + 1)
      /\ Len(x.rest) = 1 <=> k = n - 1
  <2>1. /\ Behind(name, k)[1] = name[k + 1] /\ Tail(Behind(name, k)) = Behind(name, k + 1)
        /\ Len(Behind(name, k)) = 1 <=> k = Len(name) - 1
    <3>1. name \in Seq(Seq(Nat)) /\ k \in 0..(Len(name) - 1)
      BY <1>1, <1>2
    <3> HIDE DEF y, way, node, ctx, child, n
    <3>2. SUFFICES ASSUME NEW S, name \in Seq(S)
                   PROVE  /\ Behind(name, k)[1] = name[k + 1] /\ Tail(Behind(name, k)) = Behind(name, k + 1)
                          /\ Len(Behind(name, k)) = 1 <=> k = Len(name) - 1
      BY <3>1
    <3> QED BY ONLY <3>1, <3>2, BehindType
  <2> QED BY <1>3, <2>1
<1> HIDE DEF y, way, node, ctx, child, n
<1>7. CASE x.done
  BY <1>5, <1>7 DEF OnWay, y
<1>8. CASE ~x.done
  <2>1. k = i /\ (k # 0 => BestOf(Fits(rules, name, k), x.ctx))
    BY <1>8 DEF OnWay
  <2>2. BestOf(Fits(rules, name, k + 1), ctx)
    BY <1>2, <1>6, <2>1, TurnIsBest DEF ctx, node, way, n
  <2>3. CASE k = n - 1
    <3>1. y = [path |-> x.path, rest |-> x.rest, ctx |-> ctx, done |-> TRUE]
      BY <1>5, <1>6, <1>8, <2>3
    <3>2. y = [path |-> way, rest |-> Behind(name, k), ctx |-> ctx, done |-> TRUE]
      BY <1>3, <3>1
    <3>3. OnWay(rules, name, i + 1, y, k)
      BY <1>2, <2>2, <2>3, <3>2 DEF OnWay, way, n
    <3> QED BY <3>3 DEF y
  <2>4. CASE k # n - 1
    <3>1. k \in 0..(n - 2) /\ k + 1 \in 0..(n - 1)
      BY <1>1, <1>2, <2>4
    <3>2. /\ child = 0 <=> ~InTrie(rules, Way(name, k + 1))
          /\ child # 0 => Append(way, node.children[child]) = Way(name, k + 1)
      <4>1. child = find_child(node.children, name[k + 1])
        BY <1>6 DEF child
      <4> QED BY <3>1, <4>1, ChildOnWay DEF node, way, n
    <3>3. CASE child = 0
      <4>1. y = [path |-> x.path, rest |-> x.rest, ctx |-> ctx, done |-> TRUE]
        BY <1>5, <1>8, <3>3
      <4>2. y = [path |-> way, rest |-> Behind(name, k), ctx |-> ctx, done |-> TRUE]
        BY <1>3, <4>1
      <4>3. OnWay(rules, name, i + 1, y, k)
        BY <1>2, <2>2, <3>2, <3>3, <4>2 DEF OnWay, way, n
      <4> QED BY <4>3 DEF y
    <3>4. CASE child # 0
      <4>1. y = [path |-> Append(x.path, node.children[child]), rest |-> Tail(x.rest),
                 ctx |-> ctx, done |-> FALSE]
        BY <1>5, <1>6, <1>8, <2>4, <3>4
      <4>2. y = [path |-> Way(name, k + 1), rest |-> Behind(name, k + 1), ctx |-> ctx, done |-> FALSE]
        BY <1>3, <1>6, <3>2, <3>4, <4>1
      <4>3. OnWay(rules, name, i + 1, y, k + 1)
        BY <2>1, <2>2, <3>1, <3>2, <3>4, <4>2 DEF OnWay, n
      <4> QED BY <4>3 DEF y
    <3> QED BY <3>3, <3>4
  <2> QED BY <2>3, <2>4
<1> QED BY <1>2, <1>7, <1>8

\* Where the walk ends.
LEMMA WalkEnds ==
  ASSUME NEW rules, RulesOf(rules), NEW name \in CNames
  PROVE  \E k : /\ OnWay(rules, name, Len(name), Walk(TrieOf(rules), name), k)
                /\ Walk(TrieOf(rules), name).done
<1> DEFINE n == Len(name)
           trie == TrieOf(rules)
<1>1. n \in Nat
  BY CNameType, PrefixType
<1>2. PICK f : Walks(f, trie, name, n) /\ Walk(trie, name) = f[n]
  BY <1>1, WalkTurns
<1> HIDE DEF n
<1> DEFINE T == {i \in 0..n : ~ \E k : OnWay(rules, name, i, f[i], k)}
<1>3. T = {}
  <2> SUFFICES ASSUME T # {} PROVE FALSE
    OBVIOUS
  <2>1. PICK i \in T : \A y \in T : i <= y
    <3>1. T \in SUBSET Nat
      OBVIOUS
    <3> HIDE DEF T
    <3> QED BY <3>1, LeastOf
  <2>2. i # 0
    <3>1. f[0] = Start(name)
      BY <1>2 DEF Walks
    <3>2. OnWay(rules, name, 0, f[0], 0)
      BY <3>1, WalkStarts
    <3> QED BY <2>1, <3>2
  <2>3. i - 1 \in 0..n /\ ~(i <= i - 1) /\ i \in 1..n /\ i - 1 \in Nat
    BY <1>1, <2>1, <2>2
  <2>4. PICK k : OnWay(rules, name, i - 1, f[i - 1], k)
    BY <2>1, <2>3
  <2>5. f[i] = Turn(trie, f[i - 1])
    BY <1>2, <2>3 DEF Walks
  <2> DEFINE j == i - 1
  <2>6. j \in Nat /\ j + 1 = i /\ OnWay(rules, name, j, f[j], k) /\ f[i] = Turn(trie, f[j])
    BY <2>1, <2>3, <2>4, <2>5
  <2> HIDE DEF j
  <2>7. \E m : OnWay(rules, name, j + 1, Turn(trie, f[j]), m)
    BY <2>6, WalkGoesOn
  <2> QED BY <2>1, <2>6, <2>7
<1>4. PICK k : OnWay(rules, name, n, f[n], k)
  <2>1. n \in 0..n /\ n \notin T
    <3>1. n \in 0..n
      BY <1>1
    <3> HIDE DEF T
    <3> QED BY <1>3, <3>1
  <2> QED BY <2>1
<1>5. f[n].done
  <2>1. f[n].done \in BOOLEAN /\ k \in 0..(n - 1) /\ (~f[n].done => k = n)
    BY <1>4 DEF OnWay, n
  <2>2. k # n
    BY <1>1, <2>1
  <2> QED BY <2>1, <2>2
<1> QED BY <1>2, <1>4, <1>5 DEF n

-------------------------------------------------------------------------------
(***************************************************************************)
(* What the lookup finds.                                                  *)
(***************************************************************************)
ExactRules(rules, name) == {r \in rules : r.exact /\ r.prefix = name}
ExactHere(node, rest)   == {e \in node.exact : <<e.piece>> = rest}

\* A rule goes through all nodes on the way to its name.
LEMMA GoesThrough ==
  ASSUME NEW rules, RulesOf(rules), NEW r \in rules, NEW name \in CNames, NEW i \in Nat,
         i < Len(r.prefix), i <= Len(name), \A j \in 1..i : r.prefix[j] = name[j]
  PROVE  InTrie(rules, Way(name, i))
<1>1. name \in Seq(Seq(Nat)) /\ Len(name) \in Nat
  BY CNameType, PrefixType
<1>2. r.prefix \in Seq(Seq(Nat)) /\ Len(r.prefix) \in Nat
  BY RuleType, PrefixType
<1> DEFINE p == r.prefix
<1>3. p \in Seq(Seq(Nat)) /\ i \in 0..Len(p) /\ i \in 0..Len(name) /\ i \in 0..(Len(r.prefix) - 1)
  BY <1>1, <1>2
<1>4. \A j \in 1..i : p[j] = name[j]
  OBVIOUS
<1> HIDE DEF p
<1>5. Way(p, i) = Way(name, i)
  BY <1>1, <1>3, <1>4, SameWays
<1> QED BY <1>3, <1>5 DEF InTrie, p

\* The entries of the last node that match the rest are the rule for exactly this name.
LEMMA ExactTells ==
  ASSUME NEW rules, RulesOf(rules), NEW name \in CNames, NEW k \in 0..(Len(name) - 1),
         k = Len(name) - 1 \/ ~InTrie(rules, Way(name, k + 1))
  PROVE  LET E == ExactHere(NodeOf(rules, Way(name, k)), Behind(name, k))
         IN  /\ \A e \in E : \E r \in ExactRules(rules, name) : e.ctx = r.ctx
             /\ ExactRules(rules, name) # {} => E # {}
<1> DEFINE n == Len(name)
           way == Way(name, k)
           rest == Behind(name, k)
           node == NodeOf(rules, way)
           here == {r \in rules : Front(r.prefix) = way}
           Entry(r) == [piece |-> Last(r.prefix), ctx |-> r.ctx]
           E == ExactHere(node, rest)
<1>1. name \in Prefix
  BY CNameType
<1>2. /\ name \in Seq(Seq(Nat)) /\ n \in Nat \ {0} /\ Front(name) = Way(name, n - 1)
      /\ Last(name) = name[n] /\ Last(name) \in Seq(Nat)
  BY <1>1, PrefixType
<1>3. /\ rest \in Seq(Seq(Nat)) /\ rest[1] = name[k + 1]
      /\ Len(rest) = 1 <=> k = n - 1
  <2>1. name \in Seq(Seq(Nat)) /\ k \in 0..(Len(name) - 1)
    BY <1>2
  <2> HIDE DEF n, way, node, here, Entry, E
  <2>2. /\ rest \in Seq(Seq(Nat)) /\ rest[1] = name[k + 1]
        /\ Len(rest) = 1 <=> k = Len(name) - 1
    <3>1. SUFFICES ASSUME NEW S, name \in Seq(S)
                   PROVE  /\ rest \in Seq(S) /\ rest[1] = name[k + 1]
                          /\ Len(rest) = 1 <=> k = Len(name) - 1
      BY <2>1
    <3> QED BY ONLY <2>1, <3>1, BehindType
  <2> QED BY <2>2 DEF n
<1>4. node.exact = {Entry(r) : r \in {x \in here : x.exact}}
  BY DEF NodeOf
<1> HIDE DEF n, way, rest, node
<1>5. ASSUME NEW e \in E PROVE \E r \in ExactRules(rules, name) : e.ctx = r.ctx
  <2>1. PICK r \in rules : r.exact /\ Front(r.prefix) = way /\ e = Entry(r)
    BY <1>4, <1>5 DEF ExactHere
  <2>2. <<Last(r.prefix)>> = rest
    BY <1>5, <2>1 DEF ExactHere
  <2>3. r.prefix \in Prefix /\ Last(r.prefix) \in Seq(Nat)
    BY RuleType
  <2> DEFINE piece == Last(r.prefix)
  <2>4. Len(rest) = 1 /\ rest[1] = piece
    <3>1. <<piece>> = rest
      BY <2>2
    <3> HIDE DEF piece
    <3> QED BY <3>1
  <2>5. k = n - 1
    <3>1. Len(rest) = 1 => k = n - 1
      BY <1>3
    <3> HIDE DEF piece
    <3> QED BY ONLY <2>4, <3>1
  <2>6. Last(r.prefix) = Last(name) /\ Front(r.prefix) = Front(name)
    <3>1. k + 1 = n
      BY <1>2, <2>5
    <3> QED BY <1>2, <1>3, <2>1, <2>4, <2>5, <3>1 DEF way
  <2>7. r.prefix = name
    BY <1>1, <2>3, <2>6, FrontAndLast
  <2> QED BY <2>1, <2>7 DEF ExactRules
<1>6. ASSUME NEW r \in ExactRules(rules, name) PROVE Entry(r) \in E
  <2>1. r \in rules /\ r.exact /\ r.prefix = name
    BY DEF ExactRules
  <2>2. k = n - 1
    <3> SUFFICES ASSUME k # n - 1 PROVE FALSE
      OBVIOUS
    <3>1. k + 1 \in Nat /\ k + 1 < Len(r.prefix) /\ k + 1 <= Len(name)
      BY <1>2, <2>1 DEF n
    <3> DEFINE i == k + 1
    <3>2. i \in Nat /\ i < Len(r.prefix) /\ i <= Len(name) /\ \A j \in 1..i : r.prefix[j] = name[j]
      BY <2>1, <3>1
    <3> HIDE DEF i
    <3>3. InTrie(rules, Way(name, i))
      BY <2>1, <3>2, GoesThrough
    <3> QED BY <3>3 DEF i, n
  <2>3. Front(r.prefix) = way
    BY <1>2, <2>1, <2>2 DEF way
  <2>4. <<Last(name)>> = rest
    <3> DEFINE s == <<Last(name)>>
    <3>1. s \in Seq(Seq(Nat)) /\ Len(s) = 1 /\ s[1] = Last(name)
      BY <1>2
    <3>2. rest[1] = Last(name) /\ Len(rest) = 1
      <4>1. k + 1 = n
        BY <1>2, <2>2
      <4> QED BY <1>2, <1>3, <2>2, <4>1
    <3> HIDE DEF s
    <3>3. \A j \in 1..Len(s) : s[j] = rest[j]
      BY <3>1, <3>2
    <3>4. rest \in Seq(Seq(Nat)) /\ Len(s) = Len(rest)
      BY <1>3, <3>1, <3>2
    <3>5. s = rest
      BY ONLY <3>1, <3>3, <3>4, SeqEqual
    <3> QED BY <3>5 DEF s
  <2>5. Entry(r) \in node.exact
    BY <1>4, <2>1, <2>3
  <2> QED BY <2>1, <2>4, <2>5 DEF ExactHere
<1>7. (\A e \in E : \E r \in ExactRules(rules, name) : e.ctx = r.ctx)
      /\ (ExactRules(rules, name) # {} => E # {})
  <2> HIDE DEF E, Entry
  <2> QED BY <1>5, <1>6
<1> QED BY <1>7 DEF node, way, rest

\* The rules that fit have no more segments than the walk has taken.
LEMMA AllFits ==
  ASSUME NEW rules, RulesOf(rules), NEW name \in CNames, NEW k \in 0..(Len(name) - 1),
         k = Len(name) - 1 \/ ~InTrie(rules, Way(name, k + 1))
  PROVE  Fits(rules, name, k + 1) = {r \in rules : ~r.exact /\ StartsWith(name, r.prefix)}
<1>1. name \in Seq(Seq(Nat)) /\ Len(name) \in Nat /\ k \in Nat
  BY CNameType, PrefixType
<1>2. ASSUME NEW r \in rules, StartsWith(name, r.prefix) PROVE Len(r.prefix) <= k + 1
  <2>1. /\ r.prefix \in Prefix /\ Len(r.prefix) \in Nat \ {0} /\ Len(r.prefix) <= Len(name)
        /\ Front(r.prefix) = Way(name, Len(r.prefix) - 1)
        /\ \A j \in 1..(Len(r.prefix) - 1) : Front(r.prefix)[j] = r.prefix[j]
    <3>1. r.prefix \in Prefix
      BY RuleType
    <3> QED BY <1>1, <1>2, <3>1, PrefixType, StartsMeans
  <2> SUFFICES ASSUME ~(Len(r.prefix) <= k + 1) PROVE FALSE
    OBVIOUS
  <2> DEFINE i == k + 1
             m == Len(r.prefix) - 1
  <2>2. i \in Nat /\ i < Len(r.prefix) /\ i <= Len(name) /\ i <= m /\ m \in 0..Len(name)
    BY <1>1, <2>1
  <2>3. \A j \in 1..m : Way(name, m)[j] = name[j]
    <3> HIDE DEF m
    <3> QED BY <1>1, <2>2, WayType
  <2>4. \A j \in 1..i : r.prefix[j] = name[j]
    BY <2>1, <2>2, <2>3
  <2> HIDE DEF i
  <2>5. InTrie(rules, Way(name, i))
    BY <2>2, <2>4, GoesThrough
  <2>6. k # Len(name) - 1
    BY <1>1, <2>1
  <2> QED BY <2>5, <2>6 DEF i
<1> QED BY <1>2 DEF Fits

\* The context of the rule for exactly this name, or else of the longest that fits.
BestRule(rules, name) ==
  LET exact == ExactRules(rules, name)
      fits  == {r \in rules : ~r.exact /\ StartsWith(name, r.prefix)}
      best  == {r \in fits : \A o \in fits : TextLen(o.prefix) <= TextLen(r.prefix)}
  IN  IF exact # {} THEN (CHOOSE r \in exact : TRUE).ctx
      ELSE IF fits # {} THEN (CHOOSE r \in best : TRUE).ctx ELSE DEFAULT_CONTEXT

LEMMA OneExact ==
  ASSUME NEW rules, RulesOf(rules), NEW name, NEW r \in ExactRules(rules, name)
  PROVE  (CHOOSE s \in ExactRules(rules, name) : TRUE) = r
<1>1. ASSUME NEW s \in ExactRules(rules, name) PROVE s = r
  <2>1. s \in rules /\ r \in rules /\ s.prefix = r.prefix /\ s.exact /\ r.exact
    BY DEF ExactRules
  <2>2. s.exact \in BOOLEAN /\ r.exact \in BOOLEAN
    BY <2>1, RuleType
  <2> QED BY <2>1, <2>2 DEF RulesOf, Serialized
<1> QED BY <1>1

LEMMA OneBest ==
  ASSUME NEW rules, RulesOf(rules), NEW name \in CNames, NEW r,
         r \in {s \in rules : ~s.exact /\ StartsWith(name, s.prefix)},
         \A o \in {s \in rules : ~s.exact /\ StartsWith(name, s.prefix)} :
           TextLen(o.prefix) <= TextLen(r.prefix)
  PROVE  BestRule(rules, name) = IF ExactRules(rules, name) # {} THEN (CHOOSE s \in ExactRules(rules, name) : TRUE).ctx
                                 ELSE r.ctx
<1> DEFINE fits == {s \in rules : ~s.exact /\ StartsWith(name, s.prefix)}
           best == {s \in fits : \A o \in fits : TextLen(o.prefix) <= TextLen(s.prefix)}
<1>1. name \in Seq(Seq(Nat))
  BY CNameType, PrefixType
<1>2. r \in best /\ fits # {}
  OBVIOUS
<1>3. ASSUME NEW s \in best PROVE s = r
  <2>1. /\ s \in rules /\ r \in rules /\ ~s.exact /\ ~r.exact
        /\ StartsWith(name, s.prefix) /\ StartsWith(name, r.prefix)
        /\ TextLen(s.prefix) <= TextLen(r.prefix) /\ TextLen(r.prefix) <= TextLen(s.prefix)
    BY <1>2, <1>3
  <2>2. /\ s.prefix \in Prefix /\ r.prefix \in Prefix
        /\ s.exact \in BOOLEAN /\ r.exact \in BOOLEAN
    BY <2>1, RuleType
  <2>3. /\ TextLen(s.prefix) \in Int /\ TextLen(r.prefix) \in Int
        /\ TextLen(s.prefix) = TextLen(r.prefix) => s.prefix = r.prefix
    BY <1>1, <2>1, <2>2, FitsCompare
  <2>4. s.prefix = r.prefix
    BY <2>1, <2>3
  <2> QED BY <2>1, <2>2, <2>4 DEF RulesOf, Serialized
<1> HIDE DEF best
<1>4. (CHOOSE s \in best : TRUE) = r
  BY <1>2, <1>3
<1>5. BestRule(rules, name) = IF ExactRules(rules, name) # {} THEN (CHOOSE s \in ExactRules(rules, name) : TRUE).ctx
                              ELSE IF fits # {} THEN (CHOOSE s \in best : TRUE).ctx ELSE DEFAULT_CONTEXT
  BY DEF BestRule, best
<1> QED BY <1>2, <1>4, <1>5

\* The walk through the trie finds what a look at all rules finds.
LEMMA LookupIsBest ==
  ASSUME NEW rules, RulesOf(rules), NEW name \in CNames
  PROVE  /\ SerializedLookup(TrieOf(rules), name) = BestRule(rules, name)
         /\ BestRule(rules, name) \in {r.ctx : r \in rules} \cup {DEFAULT_CONTEXT}
<1> DEFINE trie == TrieOf(rules)
           x == Walk(trie, name)
           E == ExactHere(trie[x.path], x.rest)
           X == ExactRules(rules, name)
           fits == {s \in rules : ~s.exact /\ StartsWith(name, s.prefix)}
           found == check_prefix_match(trie[x.path], x.rest, x.ctx)
           got == get_context_index(trie, name)
<1>1. PICK k : OnWay(rules, name, Len(name), x, k) /\ x.done
  BY WalkEnds
<1> DEFINE way == Way(name, k)
<1>2. /\ x.path = way /\ x.rest = Behind(name, k) /\ k \in 0..(Len(name) - 1)
      /\ InTrie(rules, way) /\ BestOf(Fits(rules, name, k + 1), x.ctx)
      /\ k = Len(name) - 1 \/ ~InTrie(rules, Way(name, k + 1))
  <2> HIDE DEF x
  <2> QED BY <1>1 DEF OnWay
<1>3. trie[x.path] = NodeOf(rules, way)
  BY <1>2, TrieNodes
<1>4. got = IF E # {} THEN (CHOOSE e \in E : TRUE).ctx ELSE found
  BY DEF get_context_index, ExactHere
<1>5. (\A e \in E : \E r \in X : e.ctx = r.ctx) /\ (X # {} => E # {})
  BY <1>2, <1>3, ExactTells
<1>6. BestOf(fits, found)
  <2>1. x.rest[1] = name[k + 1]
    <3>1. name \in Seq(Seq(Nat))
      BY CNameType, PrefixType
    <3> HIDE DEF x
    <3> QED BY <1>2, <3>1, BehindType
  <2> HIDE DEF x
  <2>2. BestOf(Fits(rules, name, k + 1), check_prefix_match(NodeOf(rules, Way(name, k)), x.rest, x.ctx))
    BY <1>2, <2>1, MatchIsBest
  <2> HIDE DEF fits
  <2>3. Fits(rules, name, k + 1) = fits
    BY <1>2, AllFits DEF fits
  <2> QED BY <1>3, <2>2, <2>3
<1> HIDE DEF E, found, got, x, trie
<1>7. /\ got = BestRule(rules, name) /\ got \in Nat
      /\ got \in {r.ctx : r \in rules} \cup {DEFAULT_CONTEXT}
  <2>1. CASE X # {}
    <3>1. PICK e \in E : got = e.ctx
      BY <1>4, <1>5, <2>1
    <3>2. PICK r \in X : e.ctx = r.ctx
      BY <1>5
    <3>3. (CHOOSE s \in X : TRUE) = r
      BY <3>2, OneExact
    <3>4. r \in rules
      BY DEF ExactRules
    <3> HIDE DEF X
    <3> QED BY <2>1, <3>1, <3>2, <3>3, <3>4, RuleType DEF BestRule, X
  <2>2. CASE X = {}
    <3>1. E = {}
      BY <1>5, <2>2
    <3>2. got = found
      BY <1>4, <3>1
    <3>3. CASE fits = {}
      <4>1. found = DEFAULT_CONTEXT
        BY <1>6, <3>3 DEF BestOf
      <4> QED BY <2>2, <3>2, <3>3, <4>1, ContextsAssumption DEF BestRule
    <3>4. CASE fits # {}
      <4>1. PICK r \in fits : found = r.ctx /\ \A o \in fits : TextLen(o.prefix) <= TextLen(r.prefix)
        <5> HIDE DEF fits
        <5> QED BY <1>6, <3>4 DEF BestOf
      <4>2. BestRule(rules, name) = IF X # {} THEN (CHOOSE s \in X : TRUE).ctx ELSE r.ctx
        BY <4>1, OneBest
      <4>3. r.ctx \in Nat
        BY RuleType
      <4> QED BY <2>2, <3>2, <4>1, <4>2, <4>3
    <3> QED BY <3>3, <3>4
  <2> QED BY <2>1, <2>2
<1> QED BY <1>7 DEF SerializedLookup, NoIndex, got, trie

\* What has been loaded of property_info is the trie of its rules.
TrieLoaded == storage.type = "Serialized" => storage.trie = TrieOf(root.info.rules)

LEMMA TrieLoadedNext == ASSUME Loading, TrieLoaded, [Next]_vars PROVE TrieLoaded'
<1>1. CASE UNCHANGED <<root, storage>>
  BY <1>1 DEF TrieLoaded
<1>2. CASE DetectSerialized
  <2>1. storage'.trie = TrieOf(root.info.rules) /\ root' = root
    BY <1>2 DEF DetectSerialized, Loaded
  <2> QED BY <2>1 DEF TrieLoaded
<1>3. CASE DetectPreSplit \/ EndOfFiles
  <2>1. storage'.type # "Serialized"
    BY <1>3 DEF DetectPreSplit, EndOfFiles, Loaded
  <2> QED BY <2>1 DEF TrieLoaded
<1>4. CASE InsertLine
  <2>1. root' = root /\ storage'.type = storage.type /\ storage'.trie = storage.trie
    <3>1. PICK new : storage' = storage \/ storage' = [storage EXCEPT !.prefixes = new]
      BY <1>4 DEF InsertLine
    <3> QED BY <1>4, <3>1 DEF InsertLine, Loading
  <2> QED BY <2>1 DEF TrieLoaded
<1>5. \/ UNCHANGED <<root, storage>> \/ DetectSerialized
      \/ DetectPreSplit \/ EndOfFiles \/ InsertLine
  <2>1. CASE UNCHANGED contextVars
    BY <2>1 DEF contextVars
  <2>2. CASE LoadContext
    BY <2>2 DEF LoadContext, LoadStep, DetectFailure, DetectSplit, ReadFile, Fail
  <2>3. UNCHANGED contextVars \/ LoadContext
    BY OnlyTheLoadReads DEF vars, contextVars
  <2> QED BY <2>1, <2>2, <2>3
<1> QED BY <1>1, <1>2, <1>3, <1>4, <1>5

LEMMA TrieRoute ==
  ASSUME Loading, TrieLoaded, storage.type = "Serialized", NEW name \in Keys
  PROVE  /\ RulesOf(root.info.rules)
         /\ Route(name) = BestRule(root.info.rules, name)
         /\ BestRule(root.info.rules, name) \in {r.ctx : r \in root.info.rules} \cup {DEFAULT_CONTEXT}
<1> DEFINE rules == root.info.rules
<1>1. RulesOf(rules)
  BY DEF Loading, Root, RulesOf
<1>2. name \in CNames
  BY NamesAssumption
<1>3. Route(name) = SerializedLookup(TrieOf(rules), name)
  BY DEF Route, TrieLoaded
<1> HIDE DEF rules
<1>4. /\ Route(name) = BestRule(rules, name)
      /\ BestRule(rules, name) \in {r.ctx : r \in rules} \cup {DEFAULT_CONTEXT}
  BY <1>1, <1>2, <1>3, LookupIsBest
<1> QED BY <1>1, <1>4 DEF rules

(***************************************************************************)
(* The walk through the trie of property_info finds what a look at all its *)
(* rules would find, the rule for exactly this name or else the longest    *)
(* prefix of it, whatever the rules: binary search in the children, last   *)
(* pieces longest first, and what is inherited on the way                  *)
(* (get_context_index, find_child, check_prefix_match).                    *)
(***************************************************************************)
THEOREM BestTrieRuleFound == Spec => []TrieFindsBestRule
<1>1. Init => Loading /\ TrieLoaded
  BY LoadingInit DEF Init, ContextInit, NoStorage, TrieLoaded
<1>2. Loading /\ TrieLoaded /\ [Next]_vars => Loading' /\ TrieLoaded'
  BY LoadingNext, TrieLoadedNext
<1>3. Loading /\ TrieLoaded => TrieFindsBestRule
  <2> SUFFICES ASSUME Loading, TrieLoaded, storage.type = "Serialized", NEW name \in Keys
               PROVE  Route(name) = TrieReference(name)
    BY DEF TrieFindsBestRule
  <2>1. Route(name) = BestRule(root.info.rules, name)
    BY TrieRoute
  <2>2. TrieReference(name) = BestRule(root.info.rules, name)
    BY DEF TrieReference, BestRule, ExactRules
  <2> QED BY <2>1, <2>2
<1> QED BY <1>1, <1>2, <1>3, PTL DEF Spec

-------------------------------------------------------------------------------
(***************************************************************************)
(* The context of a name is in the list of contexts, but for the default   *)
(* of a Split root.                                                        *)
(***************************************************************************)
LEMMA RouteIsListed ==
  ASSUME Loading, TrieLoaded, NEW name \in Keys,
         ~(storage.type = "Split" /\ Route(name) = DEFAULT_CONTEXT)
  PROVE  Route(name) \in list_all_contexts
<1>1. CASE storage.type = "Serialized"
  <2> DEFINE rules == root.info.rules
  <2>1. /\ Route(name) = BestRule(rules, name)
        /\ BestRule(rules, name) \in {r.ctx : r \in rules} \cup {DEFAULT_CONTEXT}
    BY <1>1, TrieRoute
  <2> QED BY <1>1, <2>1 DEF list_all_contexts
<1>2. CASE storage.type = "Split"
  <2> DEFINE s == storage.prefixes
             I == {j \in 1..Len(s) : s[j].prefix = Star \/ StartsWith(name, s[j].prefix)}
             i == IF I # {} THEN CHOOSE j \in I : \A m \in I : j <= m ELSE 0
  <2>1. Route(name) = IF i = 0 THEN DEFAULT_CONTEXT ELSE s[i].ctx
    BY <1>2 DEF Route, SplitLookup, SelectInSeq, Min
  <2>2. i # 0
    BY <1>2, <2>1
  <2>3. s \in Seq(AnyRule) /\ DOMAIN s = 1..Len(s)
    BY LenProperties DEF Loading
  <2>4. i \in DOMAIN s
    <3>1. I # {} /\ I \in SUBSET Nat /\ I \subseteq DOMAIN s
      BY <2>2, <2>3
    <3> HIDE DEF I
    <3>2. PICK j \in I : \A m \in I : j <= m
      BY <3>1, LeastOf
    <3> QED BY <3>1, <3>2
  <2>5. list_all_contexts = {s[j].ctx : j \in DOMAIN s}
    BY <1>2 DEF list_all_contexts
  <2> HIDE DEF i, s
  <2> QED BY <2>1, <2>2, <2>4, <2>5
<1>3. CASE storage.type \notin {"Serialized", "Split"}
  BY <1>3 DEF Route, list_all_contexts
<1> QED BY <1>1, <1>2, <1>3

-------------------------------------------------------------------------------
(***************************************************************************)
(* The list of all areas.                                                  *)
(***************************************************************************)
Shown(p) ==
  p \in DOMAIN areas /\ areas[p].is \notin Unusable =>
    \A k \in Held(areas[p].props) : <<k, areas[p].props[k]>> \in cmd.shown

\* Each area has been shown, or could not be opened, or is still ahead.
Showing ==
  cmd.op = "list" /\ cmd.via = "all" =>
    /\ cmd.pc \in {"exited", "context", "area"}
    /\ cmd.pc = "area" =>
         cmd.todo \in Seq(AllFiles) /\ \A p \in AllFiles : Shown(p) \/ Ahead(p)
    /\ ~Running /\ exit = "ok" => \A p \in AllFiles : Shown(p)

Lists == cmd.op = "list" /\ cmd.via = "all"

Listing == Loading /\ TrieLoaded /\ Works /\ Showing

LEMMA ShowingInvoke == ASSUME NEW c, Proper(c), Invoke(c) PROVE Showing'
<1>1. CASE c.via = "all"
  <2>1. cmd' = [c EXCEPT !.pc = "context"]
    BY <1>1 DEF Invoke
  <2> QED BY <2>1 DEF Proper, Showing, Running
<1>2. CASE c.via # "all"
  <2>1. PICK pc : cmd' = [c EXCEPT !.pc = pc]
    BY DEF Invoke
  <2> QED BY <1>2, <2>1 DEF Proper, Showing
<1> QED BY <1>1, <1>2

LEMMA ShowingCommand ==
  ASSUME Works, KeyCommands \/ AreaCommands \/ PathCommands PROVE Showing'
<1> DEFINE Goes(c) == Proper(c) /\ Invoke(c)
<1>1. SomeKey \in Keys
  BY KeysAssumption DEF SomeKey
<1>2. \E c : Goes(c)
  <2>1. CASE KeyCommands
    BY <1>1, <2>1 DEF KeyCommands, Ask, NoCommand, Proper
  <2>2. CASE AreaCommands
    BY <1>1, <2>2 DEF AreaCommands, Ask, NoCommand, Proper
  <2>3. CASE PathCommands
    BY <1>1, <2>3 DEF PathCommands, Ask, NoCommand, Proper
  <2> QED BY <2>1, <2>2, <2>3
<1> QED BY <1>2, ShowingInvoke

\* A step of another command, or one that ends a list with something else than success.
LEMMA ShowingOther ==
  ASSUME IsCommand(cmd)', cmd'.op = cmd.op, cmd'.via = cmd.via,
         ~Lists \/ (cmd'.pc = "exited" /\ exit' # "ok")
  PROVE  Showing'
BY DEF Showing, Lists, Running

\* Going on to the next area, past one that has been shown or cannot be opened.
LEMMA ShowingContinue ==
  ASSUME Works, Showing, Lists, At("area"), cmd.todo # <<>>, IsCommand(cmd)',
         cmd'.pc = "area", cmd'.todo = Tail(cmd.todo), cmd'.op = cmd.op, cmd'.via = cmd.via,
         cmd.shown \subseteq cmd'.shown, UNCHANGED <<root, storage, areas>>,
         NEW here, here = path, Shown(here)'
  PROVE  Showing'
<1>1. cmd.todo \in Seq(AllFiles) /\ \A p \in AllFiles : Shown(p) \/ Ahead(p)
  BY DEF Showing, Lists, At
<1>2. AllFiles' = AllFiles
  BY SameFiles
<1>3. Tail(cmd.todo) \in Seq(AllFiles)
  BY <1>1
<1>4. ASSUME NEW p \in AllFiles PROVE Shown(p)' \/ Ahead(p)'
  <2>1. CASE Shown(p)
    BY <2>1 DEF Shown, Held
  <2>2. CASE p = here
    BY <2>2
  <2>3. CASE ~Shown(p) /\ p # here
    <3>1. PICK j \in DOMAIN cmd.todo : cmd.todo[j] = p
      BY <1>1, <2>3 DEF Ahead
    <3>2. j # 1
      BY <2>3, <3>1 DEF path
    <3>3. j - 1 \in DOMAIN Tail(cmd.todo) /\ Tail(cmd.todo)[j - 1] = p
      BY <1>1, <3>1, <3>2
    <3> QED BY <3>3 DEF Ahead
  <2> QED BY <2>1, <2>2, <2>3
<1> QED BY <1>2, <1>3, <1>4 DEF Showing, Running, Lists

LEMMA ShowingResolve == ASSUME Loading, Works, Showing, Resolve PROVE Showing'
<1>1. CASE Lists
  <2>1. /\ cmd' = [cmd EXCEPT !.pc = "area", !.todo = prop_area_files]
        /\ UNCHANGED <<root, storage, areas>>
    BY <1>1 DEF Resolve, Lists, contextVars, stores
  <2>2. prop_area_files \in Seq(AllFiles) /\ AllFiles' = AllFiles
    BY <2>1, FilesAreASequence, SameFiles
  <2>3. \A p \in AllFiles : Ahead(p)'
    BY <2>1 DEF AllFiles, Ahead, Works
  <2> QED BY <2>1, <2>2, <2>3 DEF Works, Showing, Running
<1>2. CASE ~Lists
  <2>1. PICK todo : cmd' = [cmd EXCEPT !.pc = "area", !.todo = todo]
    BY DEF Resolve
  <2> QED BY <1>2, <2>1, ShowingOther DEF Works
<1> QED BY <1>1, <1>2

LEMMA ShowingList == ASSUME Works, Showing, List PROVE Showing'
<1>1. /\ At("area") /\ cmd.todo # <<>> /\ path \in DOMAIN areas
      /\ cmd' = [cmd EXCEPT !.todo = Tail(@), !.shown = @ \cup Properties]
      /\ UNCHANGED <<root, storage, areas>>
  BY DEF List, Opened, Visiting, Opens, Missing, contextVars, stores
<1>2. /\ IsCommand(cmd)' /\ cmd'.op = cmd.op /\ cmd'.via = cmd.via /\ cmd'.pc = cmd.pc
      /\ cmd'.todo = Tail(cmd.todo) /\ cmd'.shown = cmd.shown \cup Properties
  BY <1>1 DEF Works
<1>3. CASE ~Lists
  BY <1>2, <1>3, ShowingOther
<1>4. CASE Lists
  <2>0. PICK here : here = path
    OBVIOUS
  <2>1. \A k \in Held(areas[here].props) : <<k, areas[here].props[k]>> \in Properties
    BY <2>0 DEF Properties, area
  <2>2. Shown(here)'
    BY <1>1, <1>2, <2>0, <2>1 DEF Shown, Held
  <2> QED BY <1>1, <1>2, <1>4, <2>0, <2>2, ShowingContinue DEF At
<1> QED BY <1>3, <1>4

LEMMA ShowingVisit == ASSUME Works, Showing, AllVisited \/ OpenFails PROVE Showing'
<1>1. At("area") /\ UNCHANGED <<root, storage, areas>>
  BY DEF AllVisited, OpenFails, Visiting, contextVars, stores
<1>2. CASE ~Lists
  <2>1. (\E how : Exit(how)) \/ Continue
    BY DEF AllVisited, OpenFails
  <2>2. IsCommand(cmd)' /\ cmd'.op = cmd.op /\ cmd'.via = cmd.via
    BY <2>1 DEF Works, Exit, Continue
  <2> QED BY <1>2, <2>2, ShowingOther
<1>3. CASE Lists /\ AllVisited
  <2>1. /\ cmd.todo = <<>> /\ exit' = "ok"
        /\ cmd' = [cmd EXCEPT !.pc = "exited", !.todo = <<>>]
    BY <1>3 DEF AllVisited, Exit
  <2>2. \A p \in AllFiles : Shown(p)
    BY <1>1, <1>3, <2>1 DEF Showing, Lists, At, Ahead
  <2>3. AllFiles' = AllFiles
    BY <1>1, SameFiles
  <2>4. IsCommand(cmd)' /\ cmd'.pc = "exited" /\ cmd'.shown = cmd.shown
    BY <2>1 DEF Works
  <2> QED BY <1>1, <2>2, <2>3, <2>4 DEF Showing, Shown, Held
<1>4. CASE Lists /\ OpenFails
  <2>1. Continue /\ cmd.todo # <<>>
    BY <1>4 DEF OpenFails, Visiting, Lists, Specific
  <2>2. /\ IsCommand(cmd)' /\ cmd'.op = cmd.op /\ cmd'.via = cmd.via /\ cmd'.pc = "area"
        /\ cmd'.todo = Tail(cmd.todo) /\ cmd'.shown = cmd.shown
    BY <2>1 DEF Works, Continue
  <2>0. PICK here : here = path
    OBVIOUS
  <2>3. here \notin DOMAIN areas \/ areas[here].is \in Unusable
    BY <1>4, <2>0 DEF OpenFails, Opens, Missing, Writes, Lists, area
  <2>4. Shown(here)'
    BY <1>1, <2>3 DEF Shown
  <2> QED BY <1>1, <1>4, <2>0, <2>1, <2>2, <2>4, ShowingContinue
<1> QED BY <1>2, <1>3, <1>4

\* The steps of other commands.
LEMMA ShowingRest ==
  ASSUME Works, Showing,
         Lookup \/ Scan \/ Compact \/ CompactBroken \/ Set \/ SetFails \/ Delete \/ DeleteNothing
         \/ DeleteFails \/ Flush \/ FlushFails \/ FileGet \/ FileList \/ FileSet \/ FileDelete
  PROVE  Showing'
<1>1. ~Lists
  BY DEF Lookup, Scan, Compact, CompactBroken, Set, SetFails, Delete, DeleteNothing, DeleteFails,
     Flush, FlushFails, FileGet, FileList, FileSet, FileDelete, Opened, Loads, At, Lists, Showing
<1>2. IsCommand(cmd)' /\ cmd'.op = cmd.op /\ cmd'.via = cmd.via
  <2>1. CASE (\E how : Exit(how)) \/ Continue \/ Goto("flush") \/ Goto("file")
    BY <2>1 DEF Works, Exit, Continue, Goto
  <2>2. CASE Delete
    BY <2>2 DEF Works, Delete
  <2>3. CASE \E new : cmd' = [cmd EXCEPT !.pc = "save", !.props = new]
    BY <2>3 DEF Works
  <2>4. FileSet => \E new : cmd' = [cmd EXCEPT !.pc = "save", !.props = new]
    BY DEF FileSet
  <2>5. FileDelete => \/ \E how : Exit(how)
                      \/ \E new : cmd' = [cmd EXCEPT !.pc = "save", !.props = new]
    BY DEF FileDelete
  <2>6. Lookup \/ Scan \/ Compact \/ CompactBroken \/ Set \/ SetFails \/ DeleteNothing
        \/ DeleteFails \/ FileGet \/ FileList
        => (\E how : Exit(how)) \/ Continue \/ Goto("flush")
    BY DEF Lookup, Scan, Compact, CompactBroken, Set, SetFails, DeleteNothing, DeleteFails,
       FileGet, FileList
  <2>7. FlushFails => (\E how : Exit(how)) \/ Continue
    BY DEF FlushFails
  <2>8. Flush => (\E how : Exit(how)) \/ Continue \/ Goto("file")
    <3>1. CASE Flush /\ cmd.op = "compact" /\ ~Persistent
      BY <3>1 DEF Flush
    <3>2. CASE Flush /\ cmd.op # "compact" /\ Persistent
      BY <3>2 DEF Flush
    <3>3. CASE Flush /\ cmd.op # "compact" /\ ~Persistent
      BY <3>3 DEF Flush
    <3>4. CASE Flush /\ cmd.op = "compact" /\ Persistent
      BY <3>4 DEF Flush, Persistent, Works, Heading, TypeOK
    <3> QED BY <3>1, <3>2, <3>3, <3>4
  <2> QED BY <2>1, <2>2, <2>3, <2>4, <2>5, <2>6, <2>7, <2>8
<1> QED BY <1>1, <1>2, ShowingOther

\* The ends that are no success, and those that a list of all areas does not come to.
LEMMA ShowingEnds ==
  ASSUME Works, Showing,
         Kill \/ LoadContextFails \/ ListBroken \/ LoadFails \/ Save \/ SaveFails
  PROVE  Showing'
<1>1. PICK how : Exit(how) /\ (how = "ok" => At("save"))
  BY DEF Kill, LoadContextFails, ListBroken, LoadFails, Save, SaveFails
<1>2. /\ IsCommand(cmd)' /\ cmd'.op = cmd.op /\ cmd'.via = cmd.via /\ cmd'.pc = "exited"
      /\ exit' = how
  BY <1>1 DEF Works, Exit
<1>3. Lists => ~At("save")
  BY DEF Showing, Lists, At
<1> QED BY <1>1, <1>2, <1>3, ShowingOther

LEMMA ListingNext == ASSUME Listing, [Next]_vars PROVE Listing'
<1>1. Loading' /\ TrieLoaded' /\ Works'
  BY LoadingNext, TrieLoadedNext, WorksNext DEF Listing
<1>2. CASE UNCHANGED vars
  <2>1. UNCHANGED <<root, storage, areas, cmd, exit>>
    BY <1>2 DEF vars, contextVars, stores
  <2>2. AllFiles' = AllFiles
    BY <2>1, SameFiles
  <2> QED BY <1>1, <2>1, <2>2 DEF Listing, Showing, Shown, Held, Ahead, Running
<1>3. CASE LoadContext
  <2>1. At("context") /\ UNCHANGED cmd
    BY <1>3 DEF LoadContext
  <2> QED BY <1>1, <2>1 DEF Listing, Showing, At, Running
<1>4. CASE Next /\ ~LoadContext
  BY <1>1, <1>4, ShowingCommand, ShowingResolve, ShowingList, ShowingVisit, ShowingRest,
     ShowingEnds DEF Listing, Next
<1> QED BY <1>2, <1>3, <1>4

(***************************************************************************)
(* A list of all areas that reports no error has shown every property that *)
(* get finds, whatever the rules, however many areas there are and         *)
(* whichever of them are missing or cannot be opened: the lookup leads to  *)
(* no area that the loop does not visit (cmd_list, prop_area_files,        *)
(* list_all_contexts).                                                     *)
(***************************************************************************)
THEOREM ListShowsAll == Spec => []ListShowsWhatGetFinds
<1>1. Init => Listing
  BY LoadingInit, WorksInit DEF Init, ContextInit, NoStorage, TrieLoaded, Listing, Showing, NoCommand
<1>2. Listing => ListShowsWhatGetFinds
  <2> SUFFICES ASSUME Listing, Succeeded("list", "all"), NEW k \in Keys,
                      WouldGet(k) # Absent,
                      ~(storage.type = "Split" /\ Route(k) = DEFAULT_CONTEXT)
               PROVE  <<k, WouldGet(k)>> \in cmd.shown
    BY DEF ListShowsWhatGetFinds
  <2>1. Route(k) \in AllFiles
    BY RouteIsListed, EveryContextListed DEF Listing
  <2>2. PICK i \in DOMAIN prop_area_files : prop_area_files[i] = Route(k)
    BY <2>1 DEF AllFiles
  <2>3. RouteOf(k) = Route(k)
    BY <2>2, PathOfFile DEF RouteOf, Listing
  <2>4. Shown(RouteOf(k))
    BY <2>1, <2>3 DEF Listing, Showing, Succeeded
  <2>5. /\ RouteOf(k) \in DOMAIN areas /\ areas[RouteOf(k)].is \notin Unusable
        /\ WouldGet(k) = areas[RouteOf(k)].props[k]
    BY DEF WouldGet
  <2> QED BY <2>4, <2>5 DEF Shown, Held
<1> QED BY <1>1, <1>2, ListingNext, PTL DEF Spec
===============================================================================
