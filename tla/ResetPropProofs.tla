--------------------------- MODULE ResetPropProofs ---------------------------
(***************************************************************************)
(* The operations of resetprop use the persistent files as PersistFile     *)
(* says: ResetProp implements it, so that what is proved of PersistFile    *)
(* holds of the files under every mixture of resetprop operations, area    *)
(* failures, kills and reboots.                                            *)
(***************************************************************************)
EXTENDS ResetProp, PersistFileProofs

\* What an operation carries: a set has a value and a delete none, and only what is
\* called persist.* gets to the files.
Line == Names \X Values

OpType == [pc : {"idle", "main", "override", "main_done", "persist", "file", "next"},
           op : {"none", "set", "delete"}, name : Names, val : Values \cup {Absent},
           flag : BOOLEAN, lines : Seq(Line), alone : BOOLEAN, stored : BOOLEAN]

Carries(o) ==
  /\ o.op = "set" => o.val \in Values
  /\ o.op = "delete" => o.val = Absent
  /\ o.lines # <<>> => o.op = "set"
  /\ o.pc = "persist" => o.name \in Keys /\ o.op # "none"
  /\ o.pc = "main" => o.op # "none"

OpInv == rp \in [Procs -> OpType] /\ \A p \in Procs : Carries(rp[p])

-------------------------------------------------------------------------------
LEMMA NoOpType == NoOp \in OpType /\ Carries(NoOp)
<1>1. (CHOOSE n \in Names : TRUE) \in Names
  BY NamesAssumption, KeysAssumption
<1> QED
  BY <1>1 DEF NoOp, OpType, Carries, Line

\* A process that enters an operation, with the others losing at most their being alone.
LEMMA EnterType ==
  ASSUME OpInv, NEW p \in Procs, NEW op \in {"set", "delete"}, NEW n \in Names,
         NEW v \in Values \cup {Absent}, NEW flag \in BOOLEAN, NEW lines \in Seq(Line),
         op = "set" => v \in Values, op = "delete" => v = Absent,
         lines # <<>> => op = "set", Enter(p, op, n, v, flag, lines)
  PROVE  OpInv'
<1> DEFINE others == \A o \in Procs \ {p} : Busy(o) => ~Shares(rp[o].name, n)
           new == [NoOp EXCEPT !.pc = "main", !.op = op, !.name = n, !.val = v, !.flag = flag,
                     !.lines = lines, !.alone = others]
           kept(q) == [rp[q] EXCEPT !.alone = @ /\ ~(Busy(q) /\ Shares(rp[q].name, n))]
<1>1. rp' = [q \in Procs |-> IF q = p THEN new ELSE kept(q)]
  BY DEF Enter
<1>2. new \in OpType /\ Carries(new)
  <2>1. others \in BOOLEAN
    OBVIOUS
  <2> HIDE DEF others
  <2> QED
    BY <2>1, NoOpType DEF OpType, Carries, NoOp
<1>3. ASSUME NEW q \in Procs PROVE kept(q) \in OpType /\ Carries(kept(q))
  <2> DEFINE still == rp[q].alone /\ ~(Busy(q) /\ Shares(rp[q].name, n))
  <2>1. still \in BOOLEAN /\ kept(q) = [rp[q] EXCEPT !.alone = still]
    OBVIOUS
  <2>2. rp[q] \in OpType /\ Carries(rp[q])
    BY DEF OpInv
  <2> HIDE DEF still
  <2> QED
    BY <2>1, <2>2 DEF OpType, Carries
<1> HIDE DEF new, kept
<1> QED
  BY <1>1, <1>2, <1>3 DEF OpInv

\* A process that changes its own record to one that is right.
LEMMA OwnType ==
  ASSUME OpInv, NEW p \in Procs, NEW o \in OpType, Carries(o), rp' = [rp EXCEPT ![p] = o]
  PROVE  OpInv'
  BY DEF OpInv

\* The lines that are left of a file, and the first of them.
LEMMA LinesLeft ==
  ASSUME NEW s \in Seq(Line), s # <<>>
  PROVE  Head(s)[1] \in Names /\ Head(s)[2] \in Values /\ Tail(s) \in Seq(Line)
<1>1. Head(s) \in Line /\ Tail(s) \in Seq(Line)
  OBVIOUS
<1> QED
  BY <1>1 DEF Line

LEMMA OperationType == ASSUME OpInv, NEW p \in Procs, Operation(p) PROVE OpInv'
<1>1. ASSUME NEW n \in Names, NEW flag \in BOOLEAN, delete(p, n, flag) PROVE OpInv'
  <2>1. Enter(p, "delete", n, Absent, flag, <<>>)
    BY <1>1 DEF delete, Begin
  <2>2. <<>> \in Seq(Line) /\ ~(<<>> # <<>>) /\ "delete" # "set"
    OBVIOUS
  <2> QED
    BY <2>1, <2>2, EnterType, Zenon
<1>2. ASSUME NEW n \in Names, NEW flag \in BOOLEAN, NEW v \in Values, set(p, n, v, flag)
      PROVE OpInv'
  <2>1. Enter(p, "set", n, v, flag, <<>>)
    BY <1>2 DEF set, Begin
  <2>2. <<>> \in Seq(Line) /\ ~(<<>> # <<>>) /\ "delete" # "set"
    OBVIOUS
  <2> QED
    BY <2>1, <2>2, EnterType, Zenon
<1>3. ASSUME NEW flag \in BOOLEAN, load_props(p, flag) PROVE OpInv'
  <2>1. PICK f \in Files : f # <<>> /\ Begin(p, "set", Head(f)[1], Head(f)[2], flag, Tail(f))
    BY <1>3 DEF load_props
  <2>2. f \in Seq(Line)
    BY FilesAssumption DEF Line
  <2>3. Head(f)[1] \in Names /\ Head(f)[2] \in Values /\ Tail(f) \in Seq(Line)
    BY <2>1, <2>2, LinesLeft
  <2>4. Enter(p, "set", Head(f)[1], Head(f)[2], flag, Tail(f))
    BY <2>1 DEF Begin
  <2> QED
    BY <2>3, <2>4, EnterType
<1> QED
  BY <1>1, <1>2, <1>3 DEF Operation

LEMMA FailsType == ASSUME OpInv, NEW p \in Procs, Fails(p) PROVE OpInv'
<1>1. rp' = [rp EXCEPT ![p] = NoOp]
  BY DEF Fails
<1> QED
  BY <1>1, NoOpType, OwnType

LEMMA SucceedsType == ASSUME OpInv, NEW p \in Procs, Succeeds(p) PROVE OpInv'
<1> DEFINE o == [rp[p] EXCEPT !.pc = "next"]
<1>1. rp' = [rp EXCEPT ![p] = o]
  BY DEF Succeeds
<1>2. o \in OpType /\ Carries(o)
  BY DEF OpInv, OpType, Carries
<1> HIDE DEF o
<1> QED
  BY <1>1, <1>2, OwnType

LEMMA MainAreaType == ASSUME OpInv, NEW p \in Procs, MainArea(p) PROVE OpInv'
<1> DEFINE gone == rp[p].op = "delete" /\ mem[rp[p].name] = Absent
           pc   == IF HasOverride THEN "override" ELSE "main_done"
           op   == IF gone THEN "none" ELSE rp[p].op
           o    == [rp[p] EXCEPT !.pc = pc, !.op = op]
<1>1. rp[p] \in OpType /\ Carries(rp[p])
  BY DEF OpInv
<1>2. rp' = [rp EXCEPT ![p] = o]
  BY <1>1 DEF MainArea, OpInv, OpType
<1>3. pc \in {"override", "main_done"}
  OBVIOUS
<1>4. op \in {"none", "set", "delete"} /\ (op = "none" \/ op = rp[p].op)
      /\ (rp[p].op = "set" => op = "set")
  BY <1>1 DEF OpType
<1> HIDE DEF pc, op
<1>5. o \in OpType /\ Carries(o)
  BY <1>1, <1>3, <1>4 DEF OpType, Carries
<1> HIDE DEF o
<1> QED
  BY <1>2, <1>5, OwnType

LEMMA OverrideType ==
  ASSUME OpInv, NEW p \in Procs, OverrideArea(p) \/ OverrideAreaFails(p) PROVE OpInv'
<1> DEFINE done == [rp[p] EXCEPT !.pc = "main_done"]
           lost == [rp[p] EXCEPT !.pc = "main_done", !.stored = FALSE]
<1>1. rp' = [rp EXCEPT ![p] = done] \/ rp' = [rp EXCEPT ![p] = lost]
  BY DEF OverrideArea, OverrideAreaFails
<1>2. done \in OpType /\ Carries(done) /\ lost \in OpType /\ Carries(lost)
  BY DEF OpInv, OpType, Carries
<1> HIDE DEF done, lost
<1> QED
  BY <1>1, <1>2, OwnType

LEMMA MemoryType == ASSUME OpInv, NEW p \in Procs, Memory(p) PROVE OpInv'
<1>1. CASE rp[p].op = "none"
  BY <1>1, FailsType DEF Memory, ReturnsFalse
<1>2. CASE rp[p].op # "none" /\ Persists(p)
  <2> DEFINE o == [rp[p] EXCEPT !.pc = "persist"]
  <2>1. rp' = [rp EXCEPT ![p] = o]
    BY <1>2 DEF Memory
  <2>2. o \in OpType /\ Carries(o)
    BY <1>2 DEF OpInv, OpType, Carries, Persists
  <2> HIDE DEF o
  <2> QED
    BY <2>1, <2>2, OwnType
<1>3. CASE rp[p].op # "none" /\ ~Persists(p)
  BY <1>3, SucceedsType DEF Memory
<1> QED
  BY <1>1, <1>2, <1>3

LEMMA NextLineType == ASSUME OpInv, NEW p \in Procs, NextLine(p) PROVE OpInv'
<1> DEFINE o == rp[p]
<1>1. o \in OpType /\ Carries(o)
  BY DEF OpInv
<1>2. CASE o.lines = <<>>
  <2>1. rp' = [rp EXCEPT ![p] = NoOp]
    BY <1>2 DEF NextLine
  <2> QED
    BY <2>1, NoOpType, OwnType
<1>3. CASE o.lines # <<>>
  <2>1. Enter(p, o.op, Head(o.lines)[1], Head(o.lines)[2], o.flag, Tail(o.lines))
    BY <1>3 DEF NextLine
  <2>2. o.op = "set" /\ o.flag \in BOOLEAN /\ o.lines \in Seq(Line)
    BY <1>1, <1>3 DEF OpType, Carries
  <2>3. Head(o.lines)[1] \in Names /\ Head(o.lines)[2] \in Values /\ Tail(o.lines) \in Seq(Line)
    BY <1>3, <2>2, LinesLeft
  <2> HIDE DEF o
  <2> QED
    BY <2>1, <2>2, <2>3, EnterType
<1> QED
  BY <1>2, <1>3

LEMMA FilesType ==
  ASSUME OpInv, NEW p \in Procs, Persist(p) \/ FileStep(p) \/ FileStepFails(p) PROVE OpInv'
<1> DEFINE o == [rp[p] EXCEPT !.pc = "file"]
<1>1. CASE Persist(p)
  <2>1. rp' = [rp EXCEPT ![p] = o]
    BY <1>1 DEF Persist
  <2>2. o \in OpType /\ Carries(o)
    BY DEF OpInv, OpType, Carries
  <2> HIDE DEF o
  <2> QED
    BY <2>1, <2>2, OwnType
<1>2. CASE (FileStep(p) \/ FileStepFails(p)) /\ Within(p)
  BY <1>2 DEF Within, OpInv
<1>3. CASE FileStep(p) /\ Succeeds(p)
  BY <1>3, SucceedsType
<1>4. CASE FileStepFails(p) /\ Fails(p)
  BY <1>4, FailsType
<1> QED
  BY <1>1, <1>2, <1>3, <1>4 DEF FileStep, FileStepFails

LEMMA OpStep == OpInv /\ [ResetNext]_<<vars, resetVars>> => OpInv'
<1> SUFFICES ASSUME OpInv, [ResetNext]_<<vars, resetVars>> PROVE OpInv'
  OBVIOUS
<1>1. ASSUME NEW p \in Procs, Operation(p) PROVE OpInv'
  BY <1>1, OperationType
<1>2. ASSUME NEW p \in Procs, Progress(p) PROVE OpInv'
  <2>1. CASE MainAreaFails(p)
    BY <2>1, FailsType DEF MainAreaFails
  <2> QED
    BY <1>2, <2>1, NextLineType, MainAreaType, OverrideType, MemoryType, FilesType DEF Progress
<1>3. ASSUME NEW p \in Procs, KillProcess(p) PROVE OpInv'
  BY <1>3, FailsType DEF KillProcess
<1>4. CASE Reboot
  BY <1>4 DEF Reboot, OpInv
<1>5. CASE UNCHANGED <<vars, resetVars>>
  BY <1>5 DEF resetVars, OpInv
<1> QED
  BY <1>1, <1>2, <1>3, <1>4, <1>5 DEF ResetNext

-------------------------------------------------------------------------------
\* Every step of an operation is a step of PersistFile, or leaves the files alone.
LEMMA ResetStep == OpInv /\ [ResetNext]_<<vars, resetVars>> => [Next]_vars
<1> SUFFICES ASSUME OpInv, [ResetNext]_<<vars, resetVars>> PROVE [Next]_vars
  OBVIOUS
<1>1. CASE UNCHANGED <<vars, resetVars>>
  BY <1>1
<1>2. ASSUME NEW p \in Procs, Operation(p) PROVE UNCHANGED vars
  BY <1>2 DEF Operation, set, delete, load_props, Begin, FilesAlone
<1>3. ASSUME NEW p \in Procs, Persist(p) PROVE Next
  <2>1. rp[p].pc = "persist" /\ rp[p] \in OpType /\ Carries(rp[p])
    BY <1>3 DEF Persist, OpInv
  <2>2. Call(p, rp[p].op, rp[p].name, rp[p].val)
    BY <1>3 DEF Persist
  <2>3. rp[p].name \in Keys
    BY <2>1 DEF Carries
  <2>4. CASE rp[p].op = "set"
    BY <2>1, <2>2, <2>3, <2>4 DEF Carries, Request, Next
  <2>5. CASE rp[p].op = "delete"
    BY <2>1, <2>2, <2>3, <2>5 DEF Carries, Request, Next
  <2> QED
    BY <2>1, <2>4, <2>5 DEF OpType, Carries
<1>4. ASSUME NEW p \in Procs, FileStep(p) \/ FileStepFails(p) PROVE Next
  <2>1. Step(p)
    BY <1>4 DEF FileStep, FileStepFails, Step
  <2> QED
    BY <2>1 DEF Next
<1>5. ASSUME NEW p \in Procs,
             NextLine(p) \/ Memory(p) \/ MainArea(p) \/ MainAreaFails(p)
             \/ OverrideArea(p) \/ OverrideAreaFails(p)
      PROVE UNCHANGED vars
  BY <1>5 DEF NextLine, Memory, MainArea, MainAreaFails, OverrideArea, OverrideAreaFails,
              FilesAlone
<1>6. ASSUME NEW p \in Procs, KillProcess(p) PROVE [Next]_vars
  <2>1. CASE At(p, "idle")
    BY <1>6, <2>1 DEF KillProcess, FilesAlone
  <2>2. CASE ~At(p, "idle")
    BY <1>6, <2>2 DEF KillProcess, Next
  <2> QED
    BY <2>1, <2>2
<1>7. CASE Reboot
  BY <1>7 DEF Reboot, FilesAlone
<1>8. ASSUME NEW p \in Procs, Progress(p) PROVE [Next]_vars
  BY <1>3, <1>4, <1>5, <1>8 DEF Progress
<1> QED
  BY <1>1, <1>2, <1>6, <1>7, <1>8 DEF ResetNext

LEMMA OpInvariance == ResetSpec => []OpInv
<1>1. ResetInit => OpInv
  BY NoOpType DEF ResetInit, OpInv
<1> QED
  BY <1>1, OpStep, PTL DEF ResetSpec

\* Whatever resetprop does, and with it init, fails, is killed or reboots: the persistent
\* files take the steps of PersistFile and no other (resetprop.rs calls into persist.rs
\* with persist.* names only, a value for each set, one call at a time in a process).
THEOREM ImplementsPersistFile == ResetSpec => Spec
<1>1. ResetInit => Init
  BY DEF ResetInit
<1> QED
  BY <1>1, ResetStep, OpInvariance, PTL DEF ResetSpec, Spec

\* Hence no resetprop operation ever leaves a torn file (write_bytes_atomically).
THEOREM ResetKeepsFilesWhole == ResetSpec => []FileIsWhole
  BY ImplementsPersistFile, WholeFiles, PTL

\* And what a persistent call has returned Ok for stays in the files until the next call
\* on the key, and is then the old value or the new, under the proviso of
\* SetSurvivesInOrder (persist.rs).
THEOREM ResetKeepsItsPromises == ResetSpec => []SetSurvivesInOrder
  BY ImplementsPersistFile, PromisesKept, PTL

-------------------------------------------------------------------------------
(***************************************************************************)
(* What the operations of resetprop promise: a persistent call that has    *)
(* returned is in memory and in the file until the next one, over any      *)
(* number of reboots, and the override area follows the last call on its   *)
(* name; for any number of processes, names, files, failures and kills.    *)
(***************************************************************************)

Domains ==
  /\ DOMAIN mem = Names /\ DOMAIN override = Names /\ DOMAIN expected = Names
  /\ DOMAIN promised = Keys

\* A process is in a call of PersistFile exactly while its operation is at its file.
Linked ==
  \A p \in Procs :
    /\ At(p, "idle") <=> rp[p].pc # "file"
    /\ rp[p].pc = "file" => proc[p].call.key = rp[p].name /\ proc[p].call.val = rp[p].val

\* Two operations that share a name in the override area both know that they are not alone.
Apart ==
  \A p, q \in Procs :
    p # q /\ Busy(p) /\ Busy(q) /\ Shares(rp[p].name, rp[q].name) => ~rp[p].alone

\* From its beginning to its success an operation unsays what was said of its name.
Underway == {"main", "override", "main_done", "persist", "file"}
Pending ==
  \A p \in Procs : rp[p].pc \in Underway =>
    /\ rp[p].name \in Keys => promised[rp[p].name] = Unknown
    /\ HasOverride /\ rp[p].pc \in {"main", "override"} => expected[Strip[rp[p].name]] = Unknown

\* What an operation that is alone has stored is still there.
Written ==
  \A p \in Procs : rp[p].alone =>
    /\ rp[p].pc \in Underway \ {"main"} => mem[rp[p].name] = rp[p].val
    /\ HasOverride /\ rp[p].pc \in Underway \ {"main", "override"} /\ rp[p].stored
         => override[Strip[rp[p].name]] = rp[p].val

\* A promise is one that the files have made, too, and nobody works on its key there.
Filed ==
  \A k \in Keys : promised[k] # Unknown => durable[k] = promised[k] /\ ~InFlight(k)

Remembered ==
  Orderly => \A k \in Keys \ strayed : promised[k] # Unknown => mem[k] = promised[k]

Kept == Domains /\ Linked /\ Apart /\ Pending /\ Written /\ Filed /\ Remembered /\ OverrideFollows

Types == OpInv /\ TypeInv

-------------------------------------------------------------------------------
LEMMA NoOpIdle == NoOp.pc = "idle" /\ Idle.pc = "idle" /\ "idle" \notin Underway
  BY DEF NoOp, Idle, Underway

LEMMA InitKept == ResetInit => Kept
<1> SUFFICES ASSUME ResetInit PROVE Kept
  OBVIOUS
<1>1. Domains
  BY DEF ResetInit, Booted, Domains
<1>2. \A p \in Procs : rp[p] = NoOp /\ proc[p] = Idle
  BY DEF ResetInit, Init
<1>3. Linked /\ Apart /\ Pending /\ Written
  <2>1. \A p \in Procs : rp[p].pc = "idle" /\ proc[p].pc = "idle"
    BY <1>2, NoOpIdle
  <2> QED
    BY <2>1 DEF At, Busy, Linked, Apart, Pending, Written, Underway
<1>4. Filed
  BY <1>2 DEF ResetInit, Init, Idle, Filed, InFlight
<1>5. Remembered /\ OverrideFollows
  BY NamesAssumption DEF ResetInit, Booted, Remembered, OverrideFollows
<1> QED
  BY <1>1, <1>3, <1>4, <1>5 DEF Kept

\* The files keep everything but what this names.
LEMMA QuietFiles ==
  ASSUME UNCHANGED vars
  PROVE  /\ \A p \in Procs : At(p, "idle")' <=> At(p, "idle")
         /\ \A k \in Keys : InFlight(k)' <=> InFlight(k)
         /\ Orderly' <=> Orderly
         /\ UNCHANGED <<proc, durable, strayed>> /\ View' = View
  BY DEF vars, files, counts, history, At, InFlight, Orderly, View

-------------------------------------------------------------------------------
\* An operation begins, or load_props goes on to the next line.
LEMMA EnterKept ==
  ASSUME Types, Kept, NEW p \in Procs, NEW op, NEW n \in Names, NEW v, NEW flag, NEW lines,
         Enter(p, op, n, v, flag, lines), UNCHANGED live, UNCHANGED vars, rp[p].pc # "file"
  PROVE  Kept'
<1> DEFINE others == \A o \in Procs \ {p} : Busy(o) => ~Shares(rp[o].name, n)
           still(q) == rp[q].alone /\ ~(Busy(q) /\ Shares(rp[q].name, n))
<1>0. others \in BOOLEAN /\ \A q \in Procs : still(q) \in BOOLEAN
  OBVIOUS
<1>1. /\ rp'[p].pc = "main" /\ rp'[p].name = n /\ rp'[p].alone = others
      /\ \A q \in Procs \ {p} : rp'[q] = [rp[q] EXCEPT !.alone = still(q)]
  BY DEF Enter, NoOp
<1>2. ASSUME NEW q \in Procs \ {p}
      PROVE  /\ rp'[q].pc = rp[q].pc /\ rp'[q].name = rp[q].name /\ rp'[q].val = rp[q].val
             /\ rp'[q].stored = rp[q].stored
             /\ rp'[q].alone => rp[q].alone /\ ~(Busy(q) /\ Shares(rp[q].name, n))
  <2>1. rp[q] \in OpType /\ still(q) \in BOOLEAN
    BY <1>0 DEF Types, OpInv
  <2>2. /\ rp'[q].pc = rp[q].pc /\ rp'[q].name = rp[q].name /\ rp'[q].val = rp[q].val
        /\ rp'[q].stored = rp[q].stored /\ rp'[q].alone = still(q)
    <3> HIDE DEF still
    <3> QED
      BY <1>1, <2>1 DEF OpType
  <2>3. rp'[q].alone => still(q)
    BY <2>2, Zenon
  <2> QED
    BY <2>2, <2>3
<1>11. rp'[p].alone => others
  BY <1>1, Zenon
<1> HIDE DEF others, still
<1>3. /\ \A k \in Keys : promised'[k] = IF k = n THEN Unknown ELSE promised[k]
      /\ expected' = [expected EXCEPT ![Strip[n]] = Unknown]
      /\ UNCHANGED <<mem, override>> /\ Strip[n] \in Names
  BY NamesAssumption DEF Enter, live
<1>4. Domains'
  BY <1>3 DEF Enter, Kept, Domains
<1>5. Linked'
  BY <1>1, <1>2, QuietFiles DEF Kept, Linked
<1>6. Apart'
  <2> SUFFICES ASSUME NEW q \in Procs, NEW r \in Procs, q # r, Busy(q)', Busy(r)',
                      Shares(rp'[q].name, rp'[r].name), rp'[q].alone
               PROVE  FALSE
    BY DEF Apart, Shares
  <2>1. CASE q = p
    BY <1>1, <1>2, <1>11, <2>1 DEF others, Busy, Shares
  <2>2. CASE q # p /\ r = p
    BY <1>1, <1>2, <2>2 DEF Busy, Shares
  <2>3. CASE q # p /\ r # p
    BY <1>2, <2>3 DEF Kept, Apart, Busy, Shares
  <2> QED
    BY <2>1, <2>2, <2>3
<1>7. Pending'
  BY <1>1, <1>2, <1>3 DEF Kept, Domains, Pending, Underway
<1>8. Written'
  <2> SUFFICES ASSUME NEW q \in Procs, rp'[q].alone
               PROVE  /\ rp'[q].pc \in Underway \ {"main"} => mem[rp'[q].name] = rp'[q].val
                      /\ HasOverride /\ rp'[q].pc \in Underway \ {"main", "override"}
                         /\ rp'[q].stored => override[Strip[rp'[q].name]] = rp'[q].val
    BY <1>3 DEF Written
  <2>1. CASE q = p
    BY <1>1, <2>1 DEF Underway
  <2>2. CASE q # p
    BY <1>2, <2>2 DEF Kept, Written
  <2> QED
    BY <2>1, <2>2
<1>9. Filed' /\ Remembered'
  BY <1>3, QuietFiles DEF Kept, Filed, Remembered
<1>10. OverrideFollows'
  BY <1>3 DEF Kept, Domains, OverrideFollows
<1> QED
  BY <1>4, <1>5, <1>6, <1>7, <1>8, <1>9, <1>10 DEF Kept

-------------------------------------------------------------------------------
(***************************************************************************)
(* An operation of p ends, or goes on.  The files of the others are as     *)
(* they were, and so is what they have promised.                           *)
(***************************************************************************)
FilesKeep(p) ==
  /\ \A q \in Procs \ {p} : proc'[q] = proc[q]
  /\ Orderly' => Orderly
  /\ \A k \in Keys : promised[k] # Unknown =>
       durable'[k] = durable[k] /\ (k \in strayed' <=> k \in strayed)

LEMMA AloneFiles == ASSUME UNCHANGED vars, NEW p \in Procs PROVE FilesKeep(p)
  BY QuietFiles DEF FilesKeep

\* A call in the files on a promised key would have unsaid the promise.
LEMMA NobodyElse ==
  ASSUME Types, Kept, NEW p \in Procs, FilesKeep(p), At(p, "idle")',
         NEW k \in Keys, promised[k] # Unknown
  PROVE  ~InFlight(k)' /\ durable'[k] = promised[k]
<1>1. ~InFlight(k) /\ durable[k] = promised[k]
  BY DEF Kept, Filed
<1>2. ASSUME NEW q \in Procs, proc'[q].pc # "idle", proc'[q].call.key = k PROVE FALSE
  <2>1. q # p
    BY <1>2 DEF At
  <2> QED
    BY <1>1, <1>2, <2>1 DEF FilesKeep, InFlight
<1> QED
  BY <1>1, <1>2 DEF FilesKeep, InFlight

LEMMA FailsKept ==
  ASSUME Types, Kept, NEW p \in Procs, Fails(p), UNCHANGED live, FilesKeep(p), At(p, "idle")'
  PROVE  Kept'
<1>1. rp'[p].pc = "idle" /\ \A q \in Procs \ {p} : rp'[q] = rp[q]
  BY NoOpIdle DEF Fails, Types, OpInv
<1>2. UNCHANGED <<mem, override, promised, expected>>
  BY DEF Fails, live
<1>3. Domains' /\ OverrideFollows'
  BY <1>2 DEF Kept, Domains, OverrideFollows
<1>4. Linked'
  BY <1>1 DEF Kept, Linked, FilesKeep, At
<1>5. Apart'
  BY <1>1 DEF Kept, Apart, Busy, Shares
<1>6. Pending' /\ Written'
  BY <1>1, <1>2 DEF Kept, Pending, Written, Underway
<1>7. Filed'
  BY <1>2, NobodyElse DEF Filed
<1>8. Remembered'
  BY <1>2 DEF Kept, Remembered, FilesKeep
<1> QED
  BY <1>3, <1>4, <1>5, <1>6, <1>7, <1>8 DEF Kept

LEMMA SucceedsKept ==
  ASSUME Types, Kept, NEW p \in Procs, Succeeds(p), UNCHANGED live,
         rp[p].pc \in {"main_done", "file"}, FilesKeep(p), At(p, "idle")',
         Persists(p) /\ rp[p].alone =>
           durable'[rp[p].name] = rp[p].val
  PROVE  Kept'
<1> DEFINE o == rp[p]
           new == [o EXCEPT !.pc = "next"]
<1>0. o \in OpType /\ o.name \in Names /\ Strip[o.name] \in Names
  BY NamesAssumption DEF Types, OpInv, OpType
<1>1. /\ rp'[p].pc = "next" /\ rp'[p].name = o.name
      /\ rp'[p].alone = o.alone
      /\ \A q \in Procs \ {p} : rp'[q] = rp[q]
  BY <1>0 DEF Succeeds, Types, OpInv, OpType
<1>2. /\ UNCHANGED <<mem, override>>
      /\ \A k \in Keys :
           \/ promised'[k] = promised[k]
           \/ k = o.name /\ o.alone /\ Persists(p) /\ promised'[k] = o.val
      /\ DOMAIN promised' = Keys
  BY DEF Succeeds, live
<1>3. \/ expected' = expected
      \/ o.alone /\ o.stored /\ expected' = [expected EXCEPT ![Strip[o.name]] = o.val]
  BY DEF Succeeds
<1>4. \A q \in Procs \ {p} : o.alone /\ Busy(q) => ~Shares(rp[q].name, o.name)
  BY DEF Kept, Apart, Busy, Shares
<1>5. Domains'
  BY <1>2, <1>3 DEF Kept, Domains
<1>6. Linked'
  BY <1>1 DEF Kept, Linked, FilesKeep, At
<1>7. Apart'
  <2>1. rp'[p].alone => o.alone
    BY <1>1, Zenon
  <2> QED
    BY <1>1, <2>1 DEF Kept, Apart, Busy, Shares
<1>8. Pending'
  <2> SUFFICES ASSUME NEW q \in Procs, rp'[q].pc \in Underway
               PROVE  /\ rp'[q].name \in Keys => promised'[rp'[q].name] = Unknown
                      /\ HasOverride /\ rp'[q].pc \in {"main", "override"}
                           => expected'[Strip[rp'[q].name]] = Unknown
    BY DEF Pending
  <2>1. q # p /\ rp'[q] = rp[q] /\ Busy(q)
    BY <1>1 DEF Underway, Busy
  <2>2. o.alone => ~Shares(rp[q].name, o.name)
    BY <1>4, <2>1
  <2>3. rp[q].name \in Keys => promised[rp[q].name] = Unknown
    BY <2>1 DEF Kept, Pending
  <2>4. HasOverride /\ rp[q].pc \in {"main", "override"}
          => expected[Strip[rp[q].name]] = Unknown
    BY <2>1 DEF Kept, Pending
  <2>5. rp'[q].name \in Keys => promised'[rp'[q].name] = Unknown
    BY <1>2, <2>1, <2>2, <2>3 DEF Shares
  <2>6. o.alone => Strip[rp[q].name] # Strip[o.name]
    BY <2>2 DEF Shares
  <2>7. expected'[Strip[rp[q].name]] = expected[Strip[rp[q].name]]
    <3>1. CASE expected' = expected
      BY <3>1
    <3>2. CASE o.alone /\ expected' = [expected EXCEPT ![Strip[o.name]] = o.val]
      BY <2>6, <3>2
    <3> QED
      BY <1>3, <3>1, <3>2
  <2> QED
    BY <2>1, <2>4, <2>5, <2>7
<1>9. Written'
  BY <1>1, <1>2 DEF Kept, Written, Underway
<1>10. Filed' /\ Remembered'
  <2> SUFFICES ASSUME NEW k \in Keys, promised'[k] # Unknown
               PROVE  /\ durable'[k] = promised'[k] /\ ~InFlight(k)'
                      /\ Orderly' /\ k \notin strayed' => mem[k] = promised'[k]
    BY <1>2 DEF Filed, Remembered
  <2>1. CASE promised'[k] = promised[k]
    BY <2>1, NobodyElse DEF Kept, Remembered, FilesKeep
  <2>2. CASE k = o.name /\ o.alone /\ Persists(p) /\ promised'[k] = o.val
    <3>1. durable'[k] = promised'[k]
      BY <2>2
    <3>2. mem[k] = promised'[k]
      BY <2>2 DEF Kept, Written, Underway
    <3>3. ASSUME NEW q \in Procs, proc'[q].pc # "idle", proc'[q].call.key = k PROVE FALSE
      <4>1. q # p /\ proc'[q] = proc[q]
        BY <3>3 DEF At, FilesKeep
      <4>2. Busy(q) /\ rp[q].name = k
        BY <3>3, <4>1 DEF Kept, Linked, At, Busy
      <4> QED
        BY <1>4, <2>2, <4>1, <4>2 DEF Shares
    <3> QED
      BY <3>1, <3>2, <3>3 DEF InFlight
  <2> QED
    BY <1>2, <2>1, <2>2
<1>11. OverrideFollows'
  BY <1>0, <1>2, <1>3 DEF Kept, Domains, OverrideFollows, Written, Underway
<1> QED
  BY <1>5, <1>6, <1>7, <1>8, <1>9, <1>10, <1>11 DEF Kept

-------------------------------------------------------------------------------
(***************************************************************************)
(* The operations, action by action.                                       *)
(***************************************************************************)
LEMMA OperationKept == ASSUME Types, Kept, NEW p \in Procs, Operation(p) PROVE Kept'
<1>1. ASSUME NEW n \in Names, NEW op, NEW v, NEW flag, NEW lines, Begin(p, op, n, v, flag, lines)
      PROVE  Kept'
  BY <1>1, EnterKept DEF Begin, Busy, FilesAlone
<1>2. ASSUME NEW flag \in BOOLEAN, load_props(p, flag) PROVE Kept'
  <2>1. PICK f \in Files : f # <<>> /\ Begin(p, "set", Head(f)[1], Head(f)[2], flag, Tail(f))
    BY <1>2 DEF load_props
  <2>2. f \in Seq(Line)
    BY FilesAssumption DEF Line
  <2>3. Head(f)[1] \in Names
    BY <2>1, <2>2, LinesLeft
  <2> QED
    BY <1>1, <2>1, <2>3
<1> QED
  BY <1>1, <1>2 DEF Operation, set, delete

LEMMA NextLineKept == ASSUME Types, Kept, NEW p \in Procs, NextLine(p) PROVE Kept'
<1> DEFINE o == rp[p]
<1>1. o \in OpType /\ o.pc = "next" /\ UNCHANGED live /\ UNCHANGED vars
  BY DEF Types, OpInv, NextLine, FilesAlone
<1>2. CASE o.lines = <<>>
  <2>1. Fails(p)
    BY <1>2 DEF NextLine, Fails
  <2>2. At(p, "idle")'
    BY <1>1, QuietFiles DEF Kept, Linked
  <2> QED
    BY <1>1, <2>1, <2>2, AloneFiles, FailsKept
<1>3. CASE o.lines # <<>>
  <2>1. Enter(p, o.op, Head(o.lines)[1], Head(o.lines)[2], o.flag, Tail(o.lines))
    BY <1>3 DEF NextLine
  <2>2. o.lines \in Seq(Line)
    BY <1>1 DEF OpType
  <2>3. Head(o.lines)[1] \in Names
    BY <1>3, <2>2, LinesLeft
  <2>4. rp[p].pc # "file"
    BY <1>1
  <2> HIDE DEF o
  <2> QED
    BY <1>1, <2>1, <2>3, <2>4, EnterKept
<1> QED
  BY <1>2, <1>3

\* p gets to another place without an end, leaving the files and the promises alone.
Onward(p, o) ==
  /\ rp' = [rp EXCEPT ![p] = o] /\ UNCHANGED <<promised, expected>>
  /\ o.name = rp[p].name /\ o.val = rp[p].val /\ (o.alone => rp[p].alone)
  /\ rp[p].pc \in Underway \ {"file"} /\ o.pc \in Underway \ {"main", "file"}
  /\ HasOverride /\ o.pc = "override" => rp[p].pc = "main"
  /\ \A n \in Names : mem'[n] = mem[n] \/ (n = o.name /\ rp[p].pc = "main")
  /\ \A n \in Names : override'[n] = override[n] \/ (n = Strip[o.name] /\ rp[p].pc = "override")
  /\ o.alone => mem'[o.name] = o.val
  /\ o.alone /\ HasOverride /\ o.stored /\ o.pc # "override" => override'[Strip[o.name]] = o.val

LEMMA OnwardKept ==
  ASSUME Types, Kept, NEW p \in Procs, NEW o \in OpType, Onward(p, o), UNCHANGED vars, Domains'
  PROVE  Kept'
<1> USE DEF Onward
<1>1. rp'[p] = o /\ \A q \in Procs \ {p} : rp'[q] = rp[q]
  BY DEF Types, OpInv
<1>2. /\ \A q \in Procs : rp[q].name \in Names /\ Strip[rp[q].name] \in Names
      /\ Keys \subseteq Names
  BY NamesAssumption DEF Types, OpInv, OpType
<1>3. Linked'
  BY <1>1, QuietFiles DEF Kept, Linked, Underway
<1>4. o.alone => rp[p].alone
  OBVIOUS
<1>5. Busy(p)
  BY DEF Busy, Underway
<1>6. Apart'
  BY <1>1, <1>4, <1>5 DEF Kept, Apart, Busy, Shares
<1>7. Pending'
  <2>1. \A q \in Procs : rp'[q].name = rp[q].name /\ (rp'[q].pc \in Underway => rp[q].pc \in Underway)
    BY <1>1
  <2>2. \A q \in Procs : HasOverride /\ rp'[q].pc \in {"main", "override"} =>
                           rp[q].pc \in {"main", "override"}
    BY <1>1
  <2> QED
    BY <2>1, <2>2 DEF Kept, Pending, Underway
<1>8. Written'
  <2> SUFFICES ASSUME NEW q \in Procs, rp'[q].alone
               PROVE  /\ rp'[q].pc \in Underway \ {"main"} => mem'[rp'[q].name] = rp'[q].val
                      /\ HasOverride /\ rp'[q].pc \in Underway \ {"main", "override"}
                         /\ rp'[q].stored => override'[Strip[rp'[q].name]] = rp'[q].val
    BY DEF Written
  <2>1. CASE q = p
    BY <1>1, <2>1
  <2>2. CASE q # p /\ rp'[q].pc \in Underway
    <3>1. rp'[q] = rp[q] /\ Busy(q)
      BY <1>1, <2>2 DEF Busy, Underway
    <3>2. ~Shares(rp[q].name, rp[p].name)
      BY <1>5, <2>2, <3>1 DEF Kept, Apart
    <3>3. mem'[rp[q].name] = mem[rp[q].name]
          /\ override'[Strip[rp[q].name]] = override[Strip[rp[q].name]]
      BY <1>2, <3>2 DEF Shares
    <3> QED
      BY <3>1, <3>3 DEF Kept, Written
  <2> QED
    BY <2>1, <2>2
<1>9. Filed'
  BY QuietFiles DEF Kept, Filed
<1>10. Remembered'
  BY <1>2, QuietFiles DEF Kept, Remembered, Pending
<1>11. OverrideFollows'
  BY DEF Kept, OverrideFollows, Pending
<1> QED
  BY <1>3, <1>6, <1>7, <1>8, <1>9, <1>10, <1>11 DEF Kept

LEMMA MainAreaKept == ASSUME Types, Kept, NEW p \in Procs, MainArea(p) PROVE Kept'
<1> DEFINE pc == IF HasOverride THEN "override" ELSE "main_done"
           op == IF rp[p].op = "delete" /\ mem[rp[p].name] = Absent THEN "none" ELSE rp[p].op
           o  == [rp[p] EXCEPT !.pc = pc, !.op = op]
<1>1. rp[p] \in OpType /\ rp[p].pc = "main" /\ rp[p].name \in Names
  BY DEF Types, OpInv, OpType, MainArea
<1>2. rp' = [rp EXCEPT ![p] = o]
  BY <1>1 DEF MainArea, Types, OpInv, OpType
<1>3. pc \in {"override", "main_done"} /\ (HasOverride => pc = "override")
  OBVIOUS
<1>4. op \in {"none", "set", "delete"}
  BY <1>1 DEF OpType
<1> HIDE DEF pc, op
<1>5. /\ o \in OpType /\ o.name = rp[p].name /\ o.val = rp[p].val /\ o.alone = rp[p].alone
      /\ o.pc = pc
  BY <1>1, <1>3, <1>4 DEF OpType
<1> HIDE DEF o
<1>6. /\ mem' = [mem EXCEPT ![rp[p].name] = rp[p].val]
      /\ UNCHANGED <<override, promised, expected>> /\ UNCHANGED vars
  BY DEF MainArea, FilesAlone
<1>7. Domains' /\ mem'[o.name] = o.val
  BY <1>1, <1>5, <1>6 DEF Kept, Domains
<1>8. rp[p].pc \in Underway \ {"file"} /\ o.pc \in Underway \ {"main", "file"}
  BY <1>1, <1>3, <1>5 DEF Underway
<1>9. /\ \A n \in Names : mem'[n] = mem[n] \/ (n = o.name /\ rp[p].pc = "main")
      /\ \A n \in Names : override'[n] = override[n]
  BY <1>1, <1>5, <1>6 DEF Kept, Domains
<1>10. o.alone => rp[p].alone
  BY <1>5, Zenon
<1>11. HasOverride /\ o.pc = "override" => rp[p].pc = "main"
  BY <1>1
<1>12. ~(HasOverride /\ o.pc # "override")
  BY <1>3, <1>5
<1>13. Onward(p, o)
  BY <1>2, <1>5, <1>6, <1>7, <1>8, <1>9, <1>10, <1>11, <1>12 DEF Onward
<1> QED
  BY <1>5, <1>6, <1>7, <1>13, OnwardKept

LEMMA OverrideKept ==
  ASSUME Types, Kept, NEW p \in Procs, OverrideArea(p) \/ OverrideAreaFails(p) PROVE Kept'
<1> DEFINE done == [rp[p] EXCEPT !.pc = "main_done"]
           lost == [rp[p] EXCEPT !.pc = "main_done", !.stored = FALSE]
<1>1. /\ rp[p] \in OpType /\ rp[p].pc = "override" /\ Strip[rp[p].name] \in Names
      /\ UNCHANGED <<mem, promised, expected>> /\ UNCHANGED vars
  BY NamesAssumption DEF Types, OpInv, OpType, OverrideArea, OverrideAreaFails, FilesAlone, live
<1>2. rp[p].alone => mem[rp[p].name] = rp[p].val
  BY <1>1 DEF Kept, Written, Underway
<1>3. rp[p].pc \in Underway \ {"file"} /\ "main_done" \in Underway \ {"main", "file"}
  BY <1>1 DEF Underway
<1>4. CASE OverrideArea(p)
  <2>1. /\ rp' = [rp EXCEPT ![p] = done]
        /\ override' = [override EXCEPT ![Strip[rp[p].name]] = rp[p].val]
    BY <1>4 DEF OverrideArea
  <2>2. /\ done \in OpType /\ done.name = rp[p].name /\ done.val = rp[p].val
        /\ done.alone = rp[p].alone /\ done.pc = "main_done"
    BY <1>1 DEF OpType
  <2> HIDE DEF done
  <2>3. Domains' /\ override'[Strip[done.name]] = done.val
    BY <1>1, <2>1, <2>2 DEF Kept, Domains
  <2>4. \A n \in Names : override'[n] = override[n] \/ (n = Strip[done.name] /\ rp[p].pc = "override")
    BY <1>1, <2>1, <2>2 DEF Kept, Domains
  <2>5. (done.alone => rp[p].alone) /\ done.pc # "override"
    BY <2>2, Zenon
  <2>6. done.alone => mem[done.name] = done.val
    BY <1>2, <2>2, <2>5
  <2>7. Onward(p, done)
    BY <1>1, <1>3, <2>1, <2>2, <2>3, <2>4, <2>5, <2>6 DEF Onward
  <2> QED
    BY <1>1, <2>2, <2>3, <2>7, OnwardKept
<1>5. CASE OverrideAreaFails(p)
  <2>1. rp' = [rp EXCEPT ![p] = lost] /\ UNCHANGED override
    BY <1>5 DEF OverrideAreaFails, live
  <2>2. /\ lost \in OpType /\ lost.name = rp[p].name /\ lost.val = rp[p].val
        /\ lost.alone = rp[p].alone /\ lost.pc = "main_done" /\ ~lost.stored
    BY <1>1 DEF OpType
  <2> HIDE DEF lost
  <2>3. Domains'
    BY <1>1, <2>1 DEF Kept, Domains
  <2>4. (lost.alone => rp[p].alone) /\ lost.pc # "override"
    BY <2>2, Zenon
  <2>5. lost.alone => mem[lost.name] = lost.val
    BY <1>2, <2>2, <2>4
  <2>6. Onward(p, lost)
    BY <1>1, <1>3, <2>1, <2>2, <2>4, <2>5 DEF Onward
  <2> QED
    BY <1>1, <2>2, <2>3, <2>6, OnwardKept
<1> QED
  BY <1>4, <1>5

LEMMA MemoryKept == ASSUME Types, Kept, NEW p \in Procs, Memory(p) PROVE Kept'
<1>1. /\ rp[p] \in OpType /\ rp[p].pc = "main_done"
      /\ UNCHANGED live /\ UNCHANGED vars
  BY DEF Types, OpInv, Memory, FilesAlone
<1>2. FilesKeep(p) /\ At(p, "idle")'
  BY <1>1, AloneFiles, QuietFiles DEF Kept, Linked
<1>3. CASE rp[p].op = "none"
  BY <1>1, <1>2, <1>3, FailsKept DEF Memory, ReturnsFalse
<1>4. CASE rp[p].op # "none" /\ Persists(p)
  <2> DEFINE o == [rp[p] EXCEPT !.pc = "persist"]
  <2>1. rp' = [rp EXCEPT ![p] = o] /\ UNCHANGED <<mem, override, promised, expected>>
    BY <1>1, <1>4 DEF Memory, live
  <2>2. /\ o \in OpType /\ o.name = rp[p].name /\ o.val = rp[p].val /\ o.alone = rp[p].alone
        /\ o.stored = rp[p].stored /\ o.pc = "persist"
    BY <1>1 DEF OpType
  <2> HIDE DEF o
  <2>3. Domains'
    BY <2>1 DEF Kept, Domains
  <2>4. rp[p].pc \in Underway \ {"file"} /\ o.pc \in Underway \ {"main", "file"}
    BY <1>1, <2>2 DEF Underway
  <2>5. o.alone => /\ mem[o.name] = o.val
                   /\ HasOverride /\ o.stored => override[Strip[o.name]] = o.val
    BY <1>1, <2>2, <2>4 DEF Kept, Written
  <2>6. (o.alone => rp[p].alone) /\ o.pc # "override"
    BY <2>2, Zenon
  <2>7. Onward(p, o)
    BY <1>1, <2>1, <2>2, <2>4, <2>5, <2>6 DEF Onward
  <2> QED
    BY <1>1, <2>2, <2>3, <2>7, OnwardKept
<1>5. CASE rp[p].op # "none" /\ ~Persists(p)
  BY <1>1, <1>2, <1>5, SucceedsKept DEF Memory
<1> QED
  BY <1>3, <1>4, <1>5

LEMMA PersistKept ==
  ASSUME Types, Kept, NEW p \in Procs, Persist(p), Orderly' => Orderly PROVE Kept'
<1> DEFINE o == [rp[p] EXCEPT !.pc = "file"]
           c == [op |-> rp[p].op, key |-> rp[p].name, val |-> rp[p].val]
<1>1. rp[p] \in OpType /\ rp[p].pc = "persist" /\ UNCHANGED <<mem, override, promised, expected>>
  BY DEF Types, OpInv, Persist, live
<1>2. rp' = [rp EXCEPT ![p] = o] /\ Call(p, rp[p].op, rp[p].name, rp[p].val)
  BY DEF Persist
<1>3. /\ o \in OpType /\ o.name = rp[p].name /\ o.val = rp[p].val /\ o.alone = rp[p].alone
      /\ o.stored = rp[p].stored /\ o.pc = "file"
  BY <1>1 DEF OpType
<1>4. (o.alone => rp[p].alone) /\ (o.stored => rp[p].stored)
  BY <1>3, Zenon
<1> HIDE DEF o
<1>5. rp'[p] = o /\ \A q \in Procs \ {p} : rp'[q] = rp[q]
  BY <1>2 DEF Types, OpInv
<1>6. /\ proc'[p] = [proc[p] EXCEPT !.pc = "detect", !.call = c]
      /\ \A q \in Procs \ {p} : proc'[q] = proc[q]
      /\ UNCHANGED <<durable, strayed>>
  BY <1>2 DEF Call, Types, TypeInv, StateType
<1>7. /\ proc'[p].pc = "detect" /\ proc'[p].call.key = rp[p].name
      /\ proc'[p].call.val = rp[p].val
  BY <1>6 DEF Types, TypeInv, StateType, ProcType
<1>8. Domains' /\ OverrideFollows'
  BY <1>1 DEF Kept, Domains, OverrideFollows
<1>9. Linked'
  <2> SUFFICES ASSUME NEW q \in Procs
               PROVE  /\ proc'[q].pc = "idle" <=> rp'[q].pc # "file"
                      /\ rp'[q].pc = "file" => /\ proc'[q].call.key = rp'[q].name
                                              /\ proc'[q].call.val = rp'[q].val
    BY DEF Linked, At
  <2>1. CASE q = p
    BY <1>3, <1>5, <1>7, <2>1
  <2>2. CASE q # p
    BY <1>5, <1>6, <2>2 DEF Kept, Linked, At
  <2> QED
    BY <2>1, <2>2
<1>10. Apart'
  BY <1>1, <1>3, <1>4, <1>5 DEF Kept, Apart, Busy, Shares
<1>11. Pending' /\ Written'
  BY <1>1, <1>3, <1>4, <1>5 DEF Kept, Pending, Written, Underway
<1>12. Filed'
  <2> SUFFICES ASSUME NEW k \in Keys, promised[k] # Unknown
               PROVE  durable[k] = promised[k] /\ ~InFlight(k)'
    BY <1>1, <1>6 DEF Filed
  <2>1. durable[k] = promised[k] /\ ~InFlight(k)
    BY DEF Kept, Filed
  <2>2. rp[p].name # k
    BY <1>1 DEF Kept, Pending, Underway
  <2>3. \A q \in Procs : ~(proc'[q].pc # "idle" /\ proc'[q].call.key = k)
    BY <1>6, <1>7, <2>1, <2>2 DEF InFlight
  <2> QED
    BY <2>1, <2>3 DEF InFlight
<1>13. Remembered'
  BY <1>1, <1>6 DEF Kept, Remembered
<1> QED
  BY <1>8, <1>9, <1>10, <1>11, <1>12, <1>13 DEF Kept

\* What a step of a call does to the processes and to what it has promised.
Others(p) == \A q \in Procs \ {p} : proc'[q] = proc[q]
Stays(p)  == ~At(p, "idle")' /\ proc'[p].call = proc[p].call /\ UNCHANGED <<durable, strayed>>

LEMMA OkEffect == ASSUME Types, NEW p \in Procs, Ok(p) PROVE Others(p) /\ At(p, "idle")'
  BY NoOpIdle DEF Types, TypeInv, StateType, Ok, At, Others

LEMMA ErrEffect ==
  ASSUME Types, NEW p \in Procs, Err(p) PROVE Others(p) /\ At(p, "idle")' /\ UNCHANGED <<durable, strayed>>
  BY NoOpIdle DEF Types, TypeInv, StateType, Err, At, Others, history

LEMMA GotoEffect ==
  ASSUME Types, NEW p \in Procs, NEW l, Goto(p, l), l # "idle",
         UNCHANGED <<durable, strayed>>
  PROVE  Others(p) /\ Stays(p)
<1>1. proc' = [proc EXCEPT ![p].pc = l] /\ proc \in [Procs -> ProcType]
  BY DEF Goto, Types, TypeInv, StateType
<1>2. proc'[p] = [proc[p] EXCEPT !.pc = l] /\ proc[p] \in ProcType
  BY <1>1
<1>3. proc'[p].pc = l /\ proc'[p].call = proc[p].call
  BY <1>2 DEF ProcType
<1> QED
  BY <1>1, <1>3 DEF Others, Stays, At

LEMMA StepEffect ==
  ASSUME Types, NEW p \in Procs,
         Detect(p) \/ DetectFails(p) \/ Unlink(p) \/ ReadLabel(p) \/ ReadLabelFails(p)
         \/ Load(p) \/ WriteTmp(p) \/ Rename(p) \/ RemoveTarget(p) \/ SetLabel(p)
         \/ SetLabelFails(p)
  PROVE  Others(p) /\ (Stays(p) \/ Ok(p))
<1>1. proc \in [Procs -> ProcType]
  BY DEF Types, TypeInv, StateType
<1>2. CASE ReadLabel(p) \/ Load(p) \/ WriteTmp(p)
  BY <1>1, <1>2 DEF ReadLabel, Load, Loaded, WriteTmp, Others, Stays, At, ProcType, history
<1>3. CASE Detect(p) \/ DetectFails(p)
  <2>1. UNCHANGED <<durable, strayed>> /\ (TakeLegacy(p) \/ Goto(p, "label"))
    BY <1>3 DEF Detect, DetectFails, history
  <2>2. CASE proc' = [proc EXCEPT ![p].pc = "write", ![p].legacy = TRUE]
    BY <1>1, <2>1, <2>2 DEF Others, Stays, At, ProcType
  <2> QED
    BY <2>1, <2>2, GotoEffect DEF TakeLegacy
<1>4. CASE Unlink(p) \/ SetLabel(p) \/ SetLabelFails(p)
  BY <1>4, OkEffect DEF Unlink, SetLabel, SetLabelFails
<1>5. CASE Rename(p)
  BY <1>5, OkEffect, GotoEffect DEF Rename, history
<1>6. CASE RemoveTarget(p) \/ ReadLabelFails(p)
  BY <1>6, GotoEffect DEF RemoveTarget, ReadLabelFails, history
<1> QED
  BY <1>2, <1>3, <1>4, <1>5, <1>6

LEMMA FailureEffect ==
  ASSUME Types, NEW p \in Procs,
         LoadFails(p) \/ WriteFails(p) \/ RenameFails(p) \/ RenameRefused(p)
         \/ RemoveNothing(p) \/ RemoveFails(p)
  PROVE  Others(p) /\ UNCHANGED <<durable, strayed>> /\ (At(p, "idle")' \/ Stays(p))
<1>1. CASE RenameRefused(p)
  BY <1>1, ErrEffect, GotoEffect DEF RenameRefused, Stays, history
<1> QED
  BY <1>1, ErrEffect DEF LoadFails, WriteFails, RenameFails, RemoveNothing, RemoveFails

\* A call in the files goes on.
LEMMA WithinKept ==
  ASSUME Types, Kept, NEW p \in Procs, rp[p].pc = "file", Within(p), Others(p), Stays(p),
         UNCHANGED live, Orderly' => Orderly
  PROVE  Kept'
<1>1. UNCHANGED <<rp, promised, expected, mem, override, durable, strayed>>
  BY DEF Within, live, Stays
<1>2. Domains' /\ Apart' /\ Pending' /\ Written' /\ OverrideFollows'
  BY <1>1 DEF Kept, Domains, Apart, Pending, Written, OverrideFollows, Busy
<1>3. Linked'
  BY <1>1 DEF Kept, Linked, Others, Stays, At
<1>4. \A k \in Keys : InFlight(k)' => InFlight(k)
  BY <1>1 DEF Kept, Linked, InFlight, Others, Stays, At
<1>5. Filed' /\ Remembered'
  BY <1>1, <1>4 DEF Kept, Filed, Remembered
<1> QED
  BY <1>2, <1>3, <1>5 DEF Kept

LEMMA FileStepKept ==
  ASSUME Types, Kept, NEW p \in Procs, FileStep(p), Orderly' => Orderly PROVE Kept'
<1>1. /\ rp[p].pc = "file" /\ UNCHANGED live /\ Others(p) /\ (Stays(p) \/ Ok(p))
      /\ Within(p) \/ (At(p, "idle")' /\ Succeeds(p))
  BY StepEffect DEF FileStep, live
<1>2. /\ proc[p].call.key = rp[p].name /\ proc[p].call.val = rp[p].val
      /\ promised[rp[p].name] = Unknown
  <2>1. proc[p].call.key = rp[p].name /\ proc[p].call.val = rp[p].val
    BY <1>1 DEF Kept, Linked
  <2>2. rp[p].name \in Keys
    BY <2>1 DEF Types, TypeInv, StateType, ProcType, CallType
  <2> QED
    BY <1>1, <2>1, <2>2 DEF Kept, Pending, Underway
<1>3. CASE Stays(p)
  BY <1>1, <1>3, WithinKept DEF Stays
<1>4. CASE Ok(p)
  <2>1. At(p, "idle")' /\ Succeeds(p)
    BY <1>1, <1>4, OkEffect DEF Within
  <2>2. durable \in [Keys -> Values \cup {Absent, Unknown}] /\ rp[p].name \in Keys
    BY <1>2 DEF Types, TypeInv, StateType, HistoryType, ProcType, CallType
  <2>3. FilesKeep(p)
    BY <1>1, <1>2, <1>4, <2>2 DEF FilesKeep, Others, Ok
  <2>4. ASSUME rp[p].alone, NEW q \in Procs \ {p}, proc[q].pc # "idle",
               proc[q].call.key = rp[p].name
        PROVE  FALSE
    <3>1. Busy(q) /\ rp[q].name = rp[p].name
      BY <2>4 DEF Kept, Linked, At, Busy
    <3> QED
      BY <1>1, <2>4, <3>1 DEF Kept, Apart, Busy, Shares
  <2>5. rp[p].alone => durable'[rp[p].name] = rp[p].val
    BY <1>2, <1>4, <2>2, <2>4 DEF Ok
  <2> QED
    BY <1>1, <2>1, <2>3, <2>5, SucceedsKept
<1> QED
  BY <1>1, <1>3, <1>4

LEMMA FileStepFailsKept ==
  ASSUME Types, Kept, NEW p \in Procs, FileStepFails(p), Orderly' => Orderly PROVE Kept'
<1>1. /\ rp[p].pc = "file" /\ UNCHANGED live
      /\ Within(p) \/ (At(p, "idle")' /\ Fails(p))
      /\ Others(p) /\ UNCHANGED <<durable, strayed>> /\ (At(p, "idle")' \/ Stays(p))
  BY FailureEffect DEF FileStepFails, live
<1>2. CASE At(p, "idle")' /\ Fails(p)
  <2>1. FilesKeep(p)
    BY <1>1 DEF FilesKeep, Others
  <2> QED
    BY <1>1, <1>2, <2>1, FailsKept
<1>3. CASE Within(p)
  BY <1>1, <1>3, WithinKept DEF Within
<1> QED
  BY <1>1, <1>2, <1>3

LEMMA KillProcessKept ==
  ASSUME Types, Kept, NEW p \in Procs, KillProcess(p), Orderly' => Orderly PROVE Kept'
<1>1. Fails(p) /\ UNCHANGED live
  BY DEF KillProcess, live
<1>2. CASE At(p, "idle")
  <2>1. UNCHANGED vars
    BY <1>2 DEF KillProcess, FilesAlone
  <2> QED
    BY <1>1, <1>2, <2>1, AloneFiles, QuietFiles, FailsKept
<1>3. CASE ~At(p, "idle")
  <2>1. Kill(p)
    BY <1>3 DEF KillProcess
  <2>2. Others(p) /\ At(p, "idle")'
    BY <2>1, NoOpIdle DEF Kill, Others, At, Types, TypeInv, StateType
  <2>3. rp[p].pc = "file" /\ proc[p].call.key = rp[p].name /\ proc[p].call.key \in Keys
    BY <1>3 DEF Kept, Linked, Types, TypeInv, StateType, ProcType, CallType
  <2>4. promised[rp[p].name] = Unknown
    BY <2>3 DEF Kept, Pending, Underway
  <2>5. \A k \in Keys : k # rp[p].name => durable'[k] = durable[k]
    BY <2>1, <2>3 DEF Kill, Types, TypeInv, HistoryType
  <2>6. FilesKeep(p)
    BY <2>1, <2>2, <2>4, <2>5 DEF FilesKeep, Others, Kill
  <2> QED
    BY <1>1, <2>2, <2>6, FailsKept
<1> QED
  BY <1>2, <1>3

\* At a reboot memory becomes what the files promise.
LEMMA RebootKept == ASSUME Types, Kept, Reboot, SetSurvivesInOrder PROVE Kept'
<1>1. /\ \A p \in Procs : rp[p].pc = "idle" /\ rp'[p].pc = "idle"
      /\ UNCHANGED promised /\ UNCHANGED vars /\ override' = mem' /\ expected' = mem'
      /\ DOMAIN mem' = Names /\ \A k \in Keys : mem'[k] = View[k]
  BY NamesAssumption DEF Reboot, Busy, FilesAlone
<1>2. Domains' /\ OverrideFollows'
  BY <1>1 DEF Kept, Domains, OverrideFollows
<1>3. Linked'
  BY <1>1, QuietFiles DEF Kept, Linked
<1>4. Apart' /\ Pending' /\ Written'
  BY <1>1 DEF Apart, Pending, Written, Underway, Busy
<1>5. Filed'
  BY <1>1, QuietFiles DEF Kept, Filed
<1>6. Remembered'
  BY <1>1, QuietFiles DEF Kept, Filed, Remembered, SetSurvivesInOrder, OldOrNew, InFlight, At
<1> QED
  BY <1>2, <1>3, <1>4, <1>5, <1>6 DEF Kept

LEMMA KeptStep ==
  Types /\ SetSurvivesInOrder /\ Kept /\ [ResetNext]_<<vars, resetVars>> => Kept'
<1> SUFFICES ASSUME Types, SetSurvivesInOrder, Kept, [ResetNext]_<<vars, resetVars>>
             PROVE  Kept'
  OBVIOUS
<1>1. [Next]_vars
  BY ResetStep DEF Types
<1>2. Orderly' => Orderly
  BY <1>1, Calm DEF Types
<1>3. ASSUME NEW p \in Procs, Progress(p) PROVE Kept'
  <2>1. CASE MainAreaFails(p)
    <3>1. Fails(p) /\ UNCHANGED live /\ UNCHANGED vars /\ rp[p].pc = "main"
      BY <2>1 DEF MainAreaFails, FilesAlone
    <3>2. At(p, "idle")'
      BY <3>1, QuietFiles DEF Kept, Linked
    <3> QED
      BY <3>1, <3>2, AloneFiles, FailsKept
  <2>2. CASE Persist(p)
    BY <1>2, <2>2, PersistKept
  <2>3. CASE FileStep(p) \/ FileStepFails(p)
    BY <1>2, <2>3, FileStepKept, FileStepFailsKept
  <2> QED
    BY <1>3, <2>1, <2>2, <2>3, NextLineKept, MainAreaKept, OverrideKept, MemoryKept DEF Progress
<1>4. ASSUME NEW p \in Procs, Operation(p) PROVE Kept'
  BY <1>4, OperationKept
<1>5. ASSUME NEW p \in Procs, KillProcess(p) PROVE Kept'
  BY <1>2, <1>5, KillProcessKept
<1>6. CASE Reboot
  BY <1>6, RebootKept
<1>7. CASE UNCHANGED <<vars, resetVars>>
  BY <1>7, QuietFiles DEF resetVars, live, Kept, Domains, Linked, Apart, Pending, Written, Filed,
     Remembered, OverrideFollows, Busy
<1> QED
  BY <1>3, <1>4, <1>5, <1>6, <1>7 DEF ResetNext

LEMMA KeptInvariance == ResetSpec => [](Types /\ SetSurvivesInOrder /\ Kept)
<1>1. ResetSpec => []TypeInv
  <2>1. Inv => TypeInv
    BY DEF Inv
  <2> QED
    BY <2>1, ImplementsPersistFile, Invariance, PTL
<1>2. ResetSpec => [](Types /\ SetSurvivesInOrder)
  <2>1. Types <=> OpInv /\ TypeInv
    BY DEF Types
  <2> QED
    BY <1>1, <2>1, OpInvariance, ResetKeepsItsPromises, PTL
<1> QED
  BY <1>2, InitKept, KeptStep, PTL DEF ResetSpec

\* Whatever the processes, their failures, kills and reboots: the override area holds for
\* a name what the last call on it or on its alias has written, unless that write failed
\* unseen or another call on the name was under way (sys_prop.rs, set and delete).
THEOREM OverrideKeepsUp == ResetSpec => []OverrideFollows
<1>1. Kept => OverrideFollows
  BY DEF Kept
<1> QED
  BY <1>1, KeptInvariance, PTL

\* After a persistent set or delete has returned, memory and files agree on its property
\* until the next operation on it, over any number of reboots, when no other operation on
\* it was under way and the files were used in order (resetprop.rs, set and delete).  A
\* stat that fails takes this from the key of its own call and from no other.
THEOREM PromisesSurvive == ResetSpec => []PromisesSurviveReboot
<1>1. Kept /\ SetSurvivesInOrder => PromisesSurviveReboot
  BY DEF Kept, Filed, Remembered, SetSurvivesInOrder, OldOrNew, InFlight, At,
     PromisesSurviveReboot
<1> QED
  BY <1>1, KeptInvariance, PTL
===============================================================================
