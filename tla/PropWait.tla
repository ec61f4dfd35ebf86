------------------------------- MODULE PropWait -------------------------------
(***************************************************************************)
(* SharedProp with a process in sys_prop::wait                             *)
(* (crates/prop-rs-android/src/sys_prop.rs): it waits until the property   *)
(* exists and then, when it was given an old value, until the value is     *)
(* another, sleeping on the global serial.  libc exports the global serial *)
(* here, so the fallback that sleeps on the prop_info's own is left out.   *)
(***************************************************************************)
EXTENDS SharedProp

CONSTANTS
  OldValues,   \* the old values waited with; "none" when only existence matters
  Timeouts     \* whether calls have a timeout: a subset of BOOLEAN

ASSUME OldValuesAssumption == OldValues \subseteq [given : BOOLEAN, val : Nat] /\ Timeouts \subseteq BOOLEAN

VARIABLES
  qpc, qold, qtimed,
  qinfo,      \* the prop_info find returned
  qglobal,    \* old_global, what the waiter sleeps on
  qexpired,   \* the deadline has passed
  qret,       \* what the call returned
  qmet,       \* history: since find the value has been another than the old one
  qwindow     \* history: the global serial moved since the property was last looked at

waiter == <<qpc, qold, qtimed, qinfo, qglobal, qexpired, qret, qmet, qwindow>>
wvars  == <<svars, waiter>>

Anything == [given |-> FALSE, val |-> 0]

\* The string in a prop_info: none of its bytes when its length is 0.
Read(i) == IF serial_len(info[i].serial) = 0 THEN 0 ELSE info[i].cells[1]
Differs(i) == Read(i) # qold.val

QGoto(l) == qpc' = l /\ UNCHANGED <<svars, qold, qtimed, qexpired>>
QReturn(r) ==
  /\ QGoto("done") /\ qret' = r
  /\ UNCHANGED <<qinfo, qglobal, qwindow>>

TimeIsUp == qtimed /\ qexpired

-------------------------------------------------------------------------------
Wait(old, timed) ==
  /\ qpc = "idle"
  /\ qpc' = "find" /\ qold' = old /\ qtimed' = timed
  /\ UNCHANGED <<svars, qinfo, qglobal, qexpired, qret, qwindow>>

\* The deadline, looked at before each turn of either loop.
GiveUp ==
  /\ qpc \in {"find", "look"} /\ TimeIsUp
  /\ QReturn(FALSE)

\* Phase 1: the property is found, or the global serial is read to sleep on.
Find ==
  /\ qpc = "find" /\ ~TimeIsUp
  /\ \/ prop # 0 /\ qold.given /\ QGoto("look") /\ qinfo' = prop /\ UNCHANGED qret
     \/ prop # 0 /\ ~qold.given /\ QGoto("done") /\ qinfo' = prop /\ qret' = TRUE
     \/ prop = 0 /\ QGoto("load_find") /\ UNCHANGED <<qinfo, qret>>
  /\ qwindow' = FALSE /\ UNCHANGED qglobal

\* Phase 2: libc reads the value once its serial is clean, however long that takes.
StartRead ==
  /\ qpc = "look" /\ ~TimeIsUp
  /\ QGoto("read") /\ UNCHANGED <<qinfo, qglobal, qret, qwindow>>

Look ==
  /\ qpc = "read" /\ ~Dirty(info[qinfo].serial)
  /\ IF Differs(qinfo) THEN QGoto("done") /\ qret' = TRUE
     ELSE QGoto("load_look") /\ UNCHANGED qret
  /\ qwindow' = FALSE /\ UNCHANGED <<qinfo, qglobal>>

LoadGlobal ==
  /\ qpc \in {"load_find", "load_look"}
  /\ qglobal' = area_serial
  /\ QGoto(IF qpc = "load_find" THEN "sleep_find" ELSE "sleep_look")
  /\ UNCHANGED <<qinfo, qret, qwindow>>

\* __system_property_wait returns when the serial is not the one it was given.
WakeWithoutLooking ==   \* faulty variant: the wake alone is taken for the change
  /\ qpc \in {"sleep_find", "sleep_look"} /\ area_serial # qglobal
  /\ QReturn(TRUE)
Wake ==
  /\ qpc \in {"sleep_find", "sleep_look"} /\ area_serial # qglobal
  /\ QGoto(IF qpc = "sleep_find" THEN "find" ELSE "look")
  /\ UNCHANGED <<qinfo, qglobal, qret, qwindow>>

TimeoutWithoutATimespec ==   \* faulty variant: libc is not told the time that remains
  qpc = "sleep_find" /\ TimeIsUp /\ area_serial # qglobal /\ QReturn(FALSE)
Timeout ==
  /\ qpc \in {"sleep_find", "sleep_look"} /\ TimeIsUp /\ area_serial = qglobal
  /\ QReturn(FALSE)

\* Time passes.
Expire ==
  /\ qtimed /\ ~qexpired /\ qpc \notin {"idle", "done"}
  /\ qexpired' = TRUE
  /\ UNCHANGED <<svars, qpc, qold, qtimed, qinfo, qglobal, qret, qwindow>>

-------------------------------------------------------------------------------
\* The waiter holds a prop_info of the property whose value is not the old one,
\* or that the property has left.
Met == qinfo # 0 /\ (~qold.given \/ prop # qinfo \/ Differs(qinfo))
Record == qmet' = (qmet \/ Met')

WInit ==
  /\ Init
  /\ qpc = "idle" /\ qold = Anything /\ qtimed = FALSE /\ qinfo = 0 /\ qglobal = 0
  /\ qexpired = FALSE /\ qret = FALSE /\ qmet = FALSE /\ qwindow = FALSE

WaitRequest == \E old \in OldValues, timed \in Timeouts : Wait(old, timed)
WaiterStep  == GiveUp \/ Find \/ StartRead \/ Look \/ LoadGlobal \/ Wake \/ Timeout

\* The steps of the other processes, and whether one announced a change between the
\* waiter's look at the property and its load of the global serial.
Window ==
  qwindow' = (qwindow \/ (area_serial' # area_serial /\ qpc \in {"load_find", "load_look"}))
Others == Next /\ Window /\ UNCHANGED <<qpc, qold, qtimed, qinfo, qglobal, qexpired, qret>>

WNext ==
  \/ WaitRequest /\ Record
  \/ WaiterStep /\ Record
  \/ Expire /\ Record
  \/ Others /\ Record

\* Writers that are not killed and the waiter go on, and time passes.
WSpec ==
  /\ WInit /\ [][WNext]_wvars
  /\ WF_wvars(WriterStep /\ Others /\ Record)
  /\ WF_wvars(WaiterStep /\ Record) /\ WF_wvars(Expire /\ Record)

-------------------------------------------------------------------------------
\* wait returns true only if, since it found the property, the value has been another
\* than the old one or the property has been deleted: whatever wakes it, and however
\* the serials are put back.
TrueIsEarned == qpc = "done" /\ qret => qmet

\* What the caller waits for holds now.
Holds == prop # 0 /\ (qold.given => Read(prop) # qold.val)

\* A waiter that sleeps on, with no bump to come, though what it waits for holds and its
\* handle is not stale, missed a change announced between its look at the property and
\* its load of the global serial: no other wakeup is lost, as long as no other process
\* puts the global serial back (AreaSerialAdvances).
OnlyTheWindowLosesAWakeup ==
  /\ wpc = "idle" /\ kills = 0 /\ others = 0 /\ qpc \in {"sleep_find", "sleep_look"} /\ area_serial = qglobal
  /\ Holds /\ qinfo \in {0, prop}
  => qwindow

\* A call with a timeout returns, whatever it waits for, unless a writer was killed and
\* may have left the serial it reads dirty.
TimedWaitReturns == (qpc # "idle" /\ qtimed) ~> (qpc = "done" \/ kills > 0)

\* Waiting ends once what the caller waits for holds for good.
WaitReturns == (qpc = "find" /\ <>[]Holds) ~> qpc = "done"
===============================================================================
