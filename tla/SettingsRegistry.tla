--------------------------- MODULE SettingsRegistry --------------------------
(***************************************************************************)
(* What the settings list promises to its callers: a sequence of settings  *)
(* with distinct ids and keys that only grows, and iterators that walk it  *)
(* from its first setting, each setting once, and stay at the end once     *)
(* they have reached it.  SettingsList implements it with pointers.        *)
(***************************************************************************)
EXTENDS Integers, Sequences

CONSTANTS Id, Key,   \* ids and keys of settings
          Iter       \* iterator contexts

VARIABLES
    settings,   \* the sequence of [id, key]
    iter        \* iter[i]: how far an iterator is

States == {"unused", "started", "within", "ended"}
Position == [state : States, pos : Nat]

Ids == {settings[k].id : k \in DOMAIN settings}
UsedKeys == {settings[k].key : k \in DOMAIN settings}

Add(id, key) ==
    /\ id \notin Ids /\ key \notin UsedKeys
    /\ settings' = Append(settings, [id |-> id, key |-> key])
    /\ UNCHANGED iter

Start(i) ==
    /\ iter' = [iter EXCEPT ![i] = [state |-> "started", pos |-> 0]]
    /\ UNCHANGED settings

Advance(i) ==
    /\ iter[i].state \in {"started", "within"}
    /\ iter' = [iter EXCEPT ![i] =
                  IF @.pos < Len(settings)
                  THEN [state |-> "within", pos |-> @.pos + 1]
                  ELSE [state |-> "ended", pos |-> 0]]
    /\ UNCHANGED settings

\* Teardown: the callers have dropped their iterators.
Free ==
    /\ \A i \in Iter : iter[i].state \in {"unused", "ended"}
    /\ settings' = <<>>
    /\ iter' = [i \in Iter |-> [state |-> "unused", pos |-> 0]]

Init ==
    /\ settings = <<>>
    /\ iter = [i \in Iter |-> [state |-> "unused", pos |-> 0]]

Next ==
    \/ \E id \in Id, key \in Key : Add(id, key)
    \/ \E i \in Iter : Start(i) \/ Advance(i)
    \/ Free

Spec == Init /\ [][Next]_<<settings, iter>>
=============================================================================
