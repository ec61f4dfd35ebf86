------------------------------- MODULE PropStore -------------------------------
(***************************************************************************)
(* What a property area promises its one user: a map from keys to values.  *)
(* A call takes effect at most once, between its request and its reply.    *)
(* A set may fail for want of room; it then leaves the map alone, unless   *)
(* it was growing an existing value, whose old value may be gone.          *)
(***************************************************************************)
EXTENDS Integers

CONSTANTS Keys, Values

VARIABLES
  store,   \* key -> value, a partial function
  stage,   \* "idle", "called", or "done" when the effect is in the map
  call,
  reply

svars == <<store, stage, call, reply>>

Stored == DOMAIN store

NoValue == [len |-> 0, text |-> 0]
NoCall  == [op |-> "none", key |-> <<>>, val |-> NoValue]
Reply(is, val) == /\ reply' = [is |-> is, val |-> val]
                  /\ stage' = "idle" /\ call' = NoCall

SInit ==
  /\ store = [k \in {} |-> NoValue] /\ stage = "idle" /\ call = NoCall
  /\ reply = [is |-> "ok", val |-> NoValue]

Request ==
  /\ stage = "idle" /\ stage' = "called" /\ UNCHANGED store
  /\ reply' = [is |-> "pending", val |-> NoValue]
  /\ \/ \E k \in Keys, op \in {"get", "delete"} :
          call' = [op |-> op, key |-> k, val |-> NoValue]
     \/ \E k \in Keys, v \in Values : call' = [op |-> "set", key |-> k, val |-> v]
     \/ call' = [NoCall EXCEPT !.op = "compact"]

Called(op) == stage = "called" /\ call.op = op

Apply ==
  /\ Called("set")
  /\ store' = [k \in Stored \cup {call.key} |-> IF k = call.key THEN call.val ELSE store[k]]
  /\ stage' = "done" /\ UNCHANGED <<call, reply>>

Evict ==
  /\ Called("set") /\ call.key \in Stored /\ call.val.len > store[call.key].len
  /\ store' = [k \in Stored \ {call.key} |-> store[k]]
  /\ UNCHANGED <<stage, call, reply>>

Remove ==
  /\ Called("delete") /\ call.key \in Stored
  /\ store' = [k \in Stored \ {call.key} |-> store[k]]
  /\ stage' = "done" /\ UNCHANGED <<call, reply>>

Finish ==
  /\ stage = "done" /\ Reply(IF call.op = "set" THEN "ok" ELSE "deleted", NoValue)
  /\ UNCHANGED store

Answer ==
  /\ UNCHANGED store
  /\ \/ Called("set") /\ Reply("full", NoValue)
     \/ (Called("get") \/ Called("delete")) /\ call.key \notin Stored /\ Reply("absent", NoValue)
     \/ Called("get") /\ call.key \in Stored /\ Reply("found", store[call.key])
     \/ \E is \in {"no_holes", "adjusted", "moved"} : Called("compact") /\ Reply(is, NoValue)

SNext == Request \/ Apply \/ Evict \/ Remove \/ Finish \/ Answer

SSpec == SInit /\ [][SNext]_svars
===============================================================================
