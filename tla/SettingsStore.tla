---------------------------- MODULE SettingsStore ----------------------------
(***************************************************************************)
(* What the library promises an application whose calls do not overlap on  *)
(* one setting: a durable store.  Each setting has a value, a default and  *)
(* a has_changed_recently flag that survive a power cut.  A call takes     *)
(* effect between its start and its return, or not at all: it has taken    *)
(* effect if it returns 0, it has not if it returns an error, and one that *)
(* a power cut ends has done so or not.  Only the value and the flag of a  *)
(* set are two effects, the value first.                                   *)
(***************************************************************************)
CONSTANTS Settings, Threads, Payload, NULL, Errors

VARIABLES
    value,     \* value[s]: the stored value, NULL if there is none
    default,   \* default[s]: the stored default, NULL if there is none
    changed,   \* changed[s]: the stored flag
    call       \* call[t]: the call of thread t, or the result of its last

vars == <<value, default, changed, call>>

Done(r) == [op |-> "none", s |-> NULL, d |-> NULL, stage |-> r]
Cell == [Settings -> Payload \cup {NULL}]

Init ==
    /\ value = [s \in Settings |-> NULL]
    /\ default = [s \in Settings |-> NULL]
    /\ changed = [s \in Settings |-> FALSE]
    /\ call = [t \in Threads |-> Done("none")]

\* A thread calls op on setting s (NULL: on all of them).
Invoke(t, op, s, d) ==
    /\ call[t].op = "none"
    /\ call' = [call EXCEPT ![t] = [op |-> op, s |-> s, d |-> d,
                                    stage |-> "begun"]]
    /\ UNCHANGED <<value, default, changed>>

Begins(t) ==
    \/ \E s \in Settings, d \in Payload, op \in {"set", "set_default"} :
           Invoke(t, op, s, d)
    \/ \E s \in Settings, op \in {"mark", "clear"} : Invoke(t, op, s, NULL)
    \/ \E op \in {"clear_all", "load"} : Invoke(t, op, NULL, NULL)

Return(t, r) == call' = [call EXCEPT ![t] = Done(r)]

\* A call that returns an error has had no effect.
Refuse(t) ==
    /\ call[t].op \in {"set", "set_default", "load"}
    /\ call[t].stage = "begun"
    /\ \E r \in Errors : Return(t, r)
    /\ UNCHANGED <<value, default, changed>>

\* The value of a set; the flag follows.
StoreValue(t) ==
    /\ call[t].op = "set"
    /\ call[t].stage = "begun"
    /\ value' = [value EXCEPT ![call[t].s] = call[t].d]
    /\ call' = [call EXCEPT ![t].stage = "stored"]
    /\ UNCHANGED <<default, changed>>

\* A set to the value the setting has is complete as it is.
KeepValue(t) ==
    /\ call[t].op = "set"
    /\ call[t].stage = "begun"
    /\ value[call[t].s] = call[t].d
    /\ Return(t, "ok")
    /\ UNCHANGED <<value, default, changed>>

StoreDefault(t) ==
    /\ call[t].op = "set_default"
    /\ default' = [default EXCEPT ![call[t].s] = call[t].d]
    /\ Return(t, "ok")
    /\ UNCHANGED <<value, changed>>

StoreFlag(t) ==
    /\ \/ call[t].op = "set" /\ call[t].stage = "stored"
       \/ call[t].op \in {"mark", "clear"}
    /\ changed' = [changed EXCEPT ![call[t].s] = call[t].op # "clear"]
    /\ Return(t, "ok")
    /\ UNCHANGED <<value, default>>

\* clear_changed takes the settings one by one and returns when all are clear.
ClearOne(t) ==
    /\ call[t].op = "clear_all"
    /\ \E s \in Settings : changed' = [changed EXCEPT ![s] = FALSE]
    /\ UNCHANGED <<value, default, call>>

ClearedAll(t) ==
    /\ call[t].op = "clear_all"
    /\ \A s \in Settings : ~changed[s]
    /\ Return(t, "ok")
    /\ UNCHANGED <<value, default, changed>>

\* A load reads the store and leaves it alone.
Loaded(t) ==
    /\ call[t].op = "load"
    /\ Return(t, "ok")
    /\ UNCHANGED <<value, default, changed>>

\* A power cut ends the calls and loses nothing that is stored.
PowerCut ==
    /\ call' = [t \in Threads |-> Done("none")]
    /\ UNCHANGED <<value, default, changed>>

Next ==
    \/ \E t \in Threads :
           \/ Begins(t) \/ Refuse(t) \/ StoreValue(t) \/ KeepValue(t)
           \/ StoreDefault(t) \/ StoreFlag(t) \/ ClearOne(t) \/ ClearedAll(t)
           \/ Loaded(t)
    \/ PowerCut

Spec == Init /\ [][Next]_vars
=============================================================================
