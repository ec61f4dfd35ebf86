------------------------------- MODULE LiveStore -------------------------------
(***************************************************************************)
(* What the live trie promises: a map from keys to prop_infos with one     *)
(* writer, which may be killed at any point, and a reader that takes no    *)
(* lock.  A lookup returns something the map held at some moment between   *)
(* the beginning and the end of that lookup.                               *)
(***************************************************************************)
EXTENDS Integers

CONSTANT Keys

VARIABLES
  store,     \* key -> the offset of its prop_info, 0 when it has none
  stage,     \* "idle", "called", or "done" when the effect is in the map
  call,
  ret,
  reading,   \* the key the reader looks for, <<>> for none
  window,    \* what the map held for that key since the lookup began
  got

svars == <<store, stage, call, ret, reading, window, got>>

NoCall == [op |-> "none", key |-> <<>>]

SInit ==
  /\ store = [k \in Keys |-> 0]
  /\ stage = "idle" /\ call = NoCall /\ ret = "ok"
  /\ reading = <<>> /\ window = {} /\ got = 0

Request ==
  /\ stage = "idle" /\ stage' = "called" /\ ret' = "pending"
  /\ \E k \in Keys, op \in {"upsert", "remove"} : call' = [op |-> op, key |-> k]
  /\ UNCHANGED store

Called(op) == stage = "called" /\ call.op = op
Held       == store[call.key]
TakeEffect == stage' = "done" /\ UNCHANGED <<call, ret>>

Add ==
  /\ Called("upsert") /\ Held = 0 /\ TakeEffect
  /\ store' = [store EXCEPT ![call.key] = store'[call.key]]
  /\ store'[call.key] \in Nat \ {0} /\ \A k \in Keys : store[k] # store'[call.key]

Update == Called("upsert") /\ Held # 0 /\ TakeEffect /\ UNCHANGED store

Remove ==
  /\ Called("remove") /\ Held # 0 /\ TakeEffect
  /\ store' = [store EXCEPT ![call.key] = 0]

Reply(is) == stage' = "idle" /\ call' = NoCall /\ ret' = is /\ UNCHANGED store

Finish == stage = "done" /\ Reply(IF call.op = "upsert" THEN "ok" ELSE "removed")

Refuse ==
  \/ Called("remove") /\ Held = 0 /\ Reply("absent")
  \/ Called("upsert") /\ Held = 0 /\ Reply("full")
  \/ Called("upsert") /\ Held # 0 /\ Reply("too_long")

Kill == stage # "idle" /\ Reply("killed")

Write == Request \/ Add \/ Update \/ Remove \/ Finish \/ Refuse \/ Kill

StartFind == reading = <<>> /\ reading' \in Keys /\ got' = 0
EndFind   == reading # <<>> /\ reading' = <<>> /\ got' \in window

Watch ==
  window' = IF reading' = <<>> THEN {}
            ELSE (IF reading = <<>> THEN {} ELSE window) \cup {store'[reading']}

SNext ==
  /\ \/ Write /\ UNCHANGED <<reading, got>>
     \/ (StartFind \/ EndFind) /\ UNCHANGED <<store, stage, call, ret>>
  /\ Watch

SSpec == SInit /\ [][SNext]_svars
===============================================================================
