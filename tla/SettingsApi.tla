----------------------------- MODULE SettingsApi -----------------------------
(***************************************************************************)
(* The settings API as the JSON, shell and protocol front ends see it:     *)
(* each call is one step on the RAM copy of the settings, with a result.   *)
(* UserSettings has the steps a call is made of.  A value is a payload of  *)
(* at least one byte; None means not set.                                  *)
(***************************************************************************)
EXTENDS Integers, Sequences

CONSTANTS
    N,           \* number of settings, in the order of the list
    Value,       \* payloads
    None,        \* no value
    Fits,        \* Fits[s]: the payloads of at most max_size bytes
    Accepted,    \* Accepted[s]: the payloads its validation callback takes
    Overwrite,   \* CONFIG_USER_SETTINGS_DEFAULT_OVERWRITE
    FlashFails   \* a save may fail

Settings == 1..N

ASSUME ApiAssumption ==
    /\ N \in Nat \ {0}
    /\ None \notin Value
    /\ Fits \in [Settings -> SUBSET Value]
    /\ Accepted \in [Settings -> SUBSET Value]
    /\ Overwrite \in BOOLEAN /\ FlashFails \in BOOLEAN

VARIABLE us      \* us[s]: struct user_setting

Setting == [value : Value \cup {None}, default : Value \cup {None},
            changed : BOOLEAN]

InitApi == us = [s \in Settings |->
                    [value |-> None, default |-> None, changed |-> FALSE]]

\* prv_user_settings_set.  When the save of the value or of the flag fails,
\* RAM has the new value already.
SetCall(s, v, r) ==
    \/ /\ v \notin Fits[s]
       /\ r = "ENOMEM"
       /\ UNCHANGED us
    \/ /\ v \in Fits[s] /\ v = us[s].value
       /\ r = "ok"
       /\ UNCHANGED us
    \/ /\ v \in Fits[s] \ (Accepted[s] \cup {us[s].value})
       /\ r = "EINVAL"
       /\ UNCHANGED us
    \/ /\ v \in (Fits[s] \cap Accepted[s]) \ {us[s].value}
       /\ \/ r = "ok" /\ us' = [us EXCEPT ![s].value = v, ![s].changed = TRUE]
          \/ /\ FlashFails
             /\ r = "EIO"
             /\ \E flag \in {us[s].changed, TRUE} :
                    us' = [us EXCEPT ![s].value = v, ![s].changed = flag]

\* prv_user_settings_set_default
SetDefaultCall(s, v, r) ==
    LET locked == ~Overwrite /\ us[s].default # None IN
    \/ /\ v = us[s].default
       /\ r = "ok"
       /\ UNCHANGED us
    \/ /\ v # us[s].default
       /\ \/ r = "EALREADY" /\ locked
          \/ r = "ENOMEM" /\ ~locked /\ v \notin Fits[s]
          \/ r = "EINVAL" /\ ~locked /\ v \in Fits[s] \ Accepted[s]
       /\ UNCHANGED us
    \/ /\ v # us[s].default /\ ~locked /\ v \in Fits[s] \cap Accepted[s]
       /\ r = "ok" \/ (FlashFails /\ r = "EIO")
       /\ us' = [us EXCEPT ![s].default = v]

\* prv_settings_restore, which drops the result.  Without a default it sets
\* the payload of zero bytes, which leaves RAM alone but for the flag.
RestoreCall(s) ==
    \/ us[s].value = None /\ UNCHANGED us
    \/ /\ us[s].value # None /\ us[s].default = None
       /\ \E flag \in {us[s].changed, TRUE} :
              us' = [us EXCEPT ![s].changed = flag]
    \/ /\ us[s].value # None /\ us[s].default # None
       /\ \E r \in {"ok", "EINVAL", "EIO"} : SetCall(s, us[s].default, r)

\* prv_set_changed_recently_flag; its callers drop the result.
FlagAll(s, flag) ==      \* mutant: of every setting
    us' = [x \in Settings |-> [us[x] EXCEPT !.changed = flag]]
FlagCall(s, flag) == us' = [us EXCEPT ![s].changed = flag]
=============================================================================
