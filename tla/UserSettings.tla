---------------------------- MODULE UserSettings ----------------------------
(***************************************************************************)
(* The core of the user settings library                                   *)
(* (library/user_settings/user_settings.c): a RAM copy of every setting    *)
(* that is written through to the flash of Zephyr's settings subsystem.    *)
(*                                                                         *)
(* A call of the API is a sequence of steps of the calling thread, cut     *)
(* where another thread, or a power cut, can see the difference: the       *)
(* checks, the write to RAM (settings_runtime_set, which calls the h_set   *)
(* handler), the callbacks, and the write to flash (settings_save_one),    *)
(* once for the value and once for the has_changed_recently flag.          *)
(*                                                                         *)
(* A payload stands for a (data, len) pair; the zero-length one is Empty.  *)
(* Empty is also the contents of a buffer whose length field is 0.         *)
(***************************************************************************)
EXTENDS Integers

CONSTANTS
    N,           \* number of settings; setting s is the s-th of the list
    Threads,     \* threads that call the API
    Value,       \* payloads of at least one byte
    Empty,       \* the payload of zero bytes
    NULL,        \* no entry in flash, the null pointer get returns
    Fits,        \* Fits[s]: the values of at most max_size bytes
    Inputs,      \* payloads the application passes to the API
    Validators,  \* sets of payloads a validation callback may accept
    Overwrite,   \* CONFIG_USER_SETTINGS_DEFAULT_OVERWRITE
    Serialized,  \* the application never overlaps two calls on one setting
    Calls,       \* the API functions the application uses
    Faults       \* the failures the environment may inject

Settings == 1..N
Payload == Value \cup {Empty}
Areas == {"default", "value", "changed"}   \* the three NVS subtrees
Kinds == {"global", "own"}                 \* the two on_change callbacks
Loops == {"restore_all", "clear_all"}
Setters == {"set", "restore", "restore_all"}
Marks == {"mark", "clear", "clear_all"}
Results == {"none", "ok", "ENOMEM", "EINVAL", "EALREADY", "EIO"}

ASSUME CountAssumption == N \in Nat \ {0}
ASSUME PayloadAssumption ==
    /\ Empty \notin Value
    /\ NULL \notin Payload \cup BOOLEAN
    /\ Inputs \subseteq Payload
    /\ Validators \subseteq SUBSET Payload
ASSUME FitsAssumption == Fits \in [Settings -> SUBSET Value]
ASSUME ModeAssumption == Overwrite \in BOOLEAN /\ Serialized \in BOOLEAN

VARIABLES
    us,         \* us[s]: struct user_setting, in RAM
    isLoaded,   \* prv_is_loaded
    globalCb,   \* prv_global_on_change_cb is registered
    nvs,        \* nvs[a][s]: the flash entry of s in subtree a, NULL if none
    th,         \* th[t]: where thread t is in its call
    diverged,   \* observer: <<a, s>> whose RAM the last save did not store
    base,       \* observer: the value when the flag was last cleared
    shown       \* observer: {what a consumer last read}, or {} if nothing yet

program == <<us, isLoaded, globalCb, th>>
observers == <<diverged, base, shown>>
vars == <<us, isLoaded, globalCb, nvs, th, diverged, base, shown>>

-----------------------------------------------------------------------------
(* Data *)

Setting == [data : Payload, isSet : BOOLEAN,
            default : Payload, defaultIsSet : BOOLEAN,
            changed : BOOLEAN, validate : SUBSET Payload, onChange : BOOLEAN]

\* A setting as prv_user_settings_list_add leaves it.  Having no validation
\* callback is accepting every payload.
Blank == [data |-> Empty, isSet |-> FALSE,
          default |-> Empty, defaultIsSet |-> FALSE,
          changed |-> FALSE, validate |-> Payload, onChange |-> FALSE]

FitsIn(s, d) == d = Empty \/ d \in Fits[s]   \* len <= max_size

AcceptsAnything(s, d) == TRUE   \* mutant: validation is skipped
Accepts(s, d) == d \in us[s].validate

\* What settings_save_one leaves in flash: a save of zero bytes deletes the
\* entry.
StoresEmpty(d) == d             \* mutant: an entry of zero bytes is kept
Stored(d) == IF d = Empty THEN NULL ELSE d

GetDefault(s) == IF us[s].defaultIsSet THEN us[s].default ELSE NULL

\* user_settings_get_with_*: the value of a setting r, else its default.
GetFrom(r) == IF r.isSet THEN r.data
              ELSE IF r.defaultIsSet THEN r.default ELSE NULL
Get(s) == GetFrom(us[s])
IsSet(s) == us[s].isSet
HasDefault(s) == us[s].defaultIsSet
AnyChanged == \E s \in Settings : us[s].changed

-----------------------------------------------------------------------------
(* Threads and calls *)

PCs == {"idle", "check_value", "value_rt", "value_cb", "value_save",
        "check_flag", "flag_rt", "flag_save",
        "check_default", "default_rt", "default_save",
        "check_restore", "iterate",
        "load_default", "load_value", "load_changed"}
Ops == Setters \cup Marks \cup {"none", "set_default", "load"}

Thread == [pc : PCs, op : Ops, s : 0..N, d : Payload, ret : Results]

Resting(r) == [pc |-> "idle", op |-> "none", s |-> 0, d |-> Empty, ret |-> r]

Goto(t, pc) == th' = [th EXCEPT ![t].pc = pc]

\* Mutant: a loop stops at the first element that fails.
ReturnOnError(t, r) ==
    IF th[t].op \in Loops /\ r = "ok"
    THEN th' = [th EXCEPT ![t].pc = "iterate"]
    ELSE th' = [th EXCEPT ![t] = Resting(r)]

\* The call of t ends.  The loops over the list ignore the result of an
\* element and go on; the restore of one setting and the functions on the
\* flag ignore it too.
Return(t, r) ==
    IF th[t].op \in Loops
    THEN th' = [th EXCEPT ![t].pc = "iterate"]
    ELSE th' = [th EXCEPT ![t] =
                   Resting(IF th[t].op \in {"restore", "mark", "clear"}
                           THEN "ok" ELSE r)]

\* The settings the call of t reads or writes.
Claims(t) ==
    IF th[t].op \in Loops \cup {"load"} THEN Settings
    ELSE {th[t].s} \cap Settings

\* The library takes no lock: that calls on one setting do not overlap is
\* the application's doing, when Serialized says so.
Undisturbed(S) == Serialized => \A t \in Threads : Claims(t) \cap S = {}

Call(t, op, pc, s, d, S) ==
    /\ th[t].pc = "idle"
    /\ Undisturbed(S)
    /\ th' = [th EXCEPT ![t] = [pc |-> pc, op |-> op, s |-> s, d |-> d,
                                ret |-> "none"]]
    /\ UNCHANGED <<us, isLoaded, globalCb, nvs, observers>>

ApiCall(t, op, pc, s, d, S) ==
    /\ op \in Calls
    /\ isLoaded                 \* __ASSERT(prv_is_loaded, ...)
    /\ Call(t, op, pc, s, d, S)

Set(t, s, d) == ApiCall(t, "set", "check_value", s, d, {s})
SetDefault(t, s, d) == ApiCall(t, "set_default", "check_default", s, d, {s})
Restore(t, s) == ApiCall(t, "restore", "check_restore", s, Empty, {s})
RestoreAll(t) == ApiCall(t, "restore_all", "iterate", 0, Empty, Settings)
Mark(t, s) == ApiCall(t, "mark", "check_flag", s, Empty, {s})
Clear(t, s) == ApiCall(t, "clear", "check_flag", s, Empty, {s})
ClearAll(t) == ApiCall(t, "clear_all", "iterate", 0, Empty, Settings)

\* One thread boots the library; user_settings_load may be called again on a
\* loaded one.
Load(t) ==
    /\ IF isLoaded THEN "reload" \in Calls
                   ELSE \A u \in Threads : th[u].op # "load"
    /\ Call(t, "load", "load_default", 0, Empty, Settings)

-----------------------------------------------------------------------------
(* Callbacks.  A consumer reads the setting with user_settings_get when it *)
(* registers, if it may already (the library is loaded), and again each    *)
(* time its callback runs.                                                 *)

Registered(k, s) == IF k = "global" THEN globalCb ELSE us[s].onChange

\* Mutant: the setting's own callback is forgotten.
NotifiedGlobally(S, u) ==
    [shown EXCEPT !["global"] = [s \in Settings |->
        IF s \in S /\ globalCb THEN {GetFrom(u[s])} ELSE @[s]]]

\* The consumers after the callbacks of the settings in S have run on u.
Notified(S, u) ==
    [k \in Kinds |-> [s \in Settings |->
        IF s \in S /\ Registered(k, s) THEN {GetFrom(u[s])} ELSE shown[k][s]]]

FirstRead(on, s) == IF on /\ isLoaded THEN {Get(s)} ELSE {}

SetGlobalOnChangeCb(on) ==
    /\ "callback" \in Calls
    /\ Undisturbed(Settings)
    /\ globalCb' = on
    /\ shown' = [shown EXCEPT !["global"] =
                    [s \in Settings |-> FirstRead(on, s)]]
    /\ UNCHANGED <<us, isLoaded, nvs, th, diverged, base>>

SetOnChangeCb(s, on) ==
    /\ "callback" \in Calls
    /\ Undisturbed({s})
    /\ us' = [us EXCEPT ![s].onChange = on]
    /\ shown' = [shown EXCEPT !["own"][s] = FirstRead(on, s)]
    /\ UNCHANGED <<isLoaded, globalCb, nvs, th, diverged, base>>

SetValidateCb(s, accepted) ==
    /\ "validator" \in Calls
    /\ Undisturbed({s})
    /\ us' = [us EXCEPT ![s].validate = accepted]
    /\ UNCHANGED <<isLoaded, globalCb, nvs, th, observers>>

-----------------------------------------------------------------------------
(* prv_settings_restore and the loops over the list *)

CheckRestore(t) ==
    /\ th[t].pc = "check_restore"
    /\ LET s == th[t].s IN
       \/ /\ ~IsSet(s)
          /\ Return(t, "ok")
       \/ /\ IsSet(s)
          /\ th' = [th EXCEPT ![t].pc = "check_value",
                              ![t].d = us[s].default]
    /\ UNCHANGED <<us, isLoaded, globalCb, nvs, observers>>

StopsEarly(t) == th[t].s >= N - 1    \* mutant: the last element is missed
RunsPast(t) == th[t].s > N           \* mutant: the end is missed
AtEnd(t) == th[t].s = N

\* Mutant: the iterator never leaves the first element.
Stays(t) == IF th[t].s = 0 THEN 1 ELSE th[t].s
NextElement(t) == th[t].s + 1

\* One round of a loop over user_settings_list_iter_next.
Iterate(t) ==
    /\ th[t].pc = "iterate"
    /\ \/ /\ AtEnd(t)
          /\ th' = [th EXCEPT ![t] = Resting("ok")]
       \/ /\ ~AtEnd(t)
          /\ th' = [th EXCEPT
                     ![t].s = NextElement(t),
                     ![t].pc = IF th[t].op = "restore_all"
                               THEN "check_restore" ELSE "check_flag"]
    /\ UNCHANGED <<us, isLoaded, globalCb, nvs, observers>>

-----------------------------------------------------------------------------
(* Saving to flash.  A save that fails leaves the entry as it was.  The    *)
(* observer diverged remembers that RAM holds what flash does not: a write *)
(* that failed, or a delete of the entry of a value that stays in RAM.     *)

SaveOk(a, s, x) ==
    /\ nvs' = [nvs EXCEPT ![a][s] = x]
    /\ diverged' = IF x = NULL THEN diverged \cup {<<a, s>>}
                               ELSE diverged \ {<<a, s>>}

SaveFails(a, s, x) ==
    /\ "save" \in Faults
    /\ diverged' = IF x = NULL THEN diverged
                               ELSE diverged \cup {<<a, s>>}
    /\ UNCHANGED nvs

-----------------------------------------------------------------------------
(* prv_user_settings_set *)

\* Mutant: only the lengths are compared.
SameLength(s, d) == (d = Empty) = (us[s].data = Empty)
SameValue(s, d) == d = us[s].data

CheckValue(t) ==
    /\ th[t].pc = "check_value"
    /\ LET s == th[t].s
           d == th[t].d
       IN \/ ~FitsIn(s, d) /\ Return(t, "ENOMEM")
          \/ FitsIn(s, d) /\ SameValue(s, d) /\ Return(t, "ok")
          \/ /\ FitsIn(s, d) /\ ~SameValue(s, d) /\ ~Accepts(s, d)
             /\ Return(t, "EINVAL")
          \/ /\ FitsIn(s, d) /\ ~SameValue(s, d) /\ Accepts(s, d)
             /\ Goto(t, "value_rt")
    /\ UNCHANGED <<us, isLoaded, globalCb, nvs, observers>>

\* settings_runtime_set on the value subtree, up to the callbacks.  A read of
\* zero bytes leaves the setting alone and runs no callback.
ValueSetCb(t) ==
    /\ th[t].pc = "value_rt"
    /\ LET s == th[t].s
           d == th[t].d
       IN \/ d = Empty /\ Goto(t, "value_save") /\ UNCHANGED us
          \/ /\ d # Empty
             /\ Goto(t, "value_cb")
             /\ us' = [us EXCEPT ![s].data = d, ![s].isSet = TRUE]
    /\ UNCHANGED <<isLoaded, globalCb, nvs, observers>>

\* The global callback, then the setting's own (the library is loaded).
Notify(t) ==
    /\ th[t].pc = "value_cb"
    /\ shown' = Notified({th[t].s}, us)
    /\ Goto(t, "value_save")
    /\ UNCHANGED <<us, isLoaded, globalCb, nvs, diverged, base>>

\* Mutant: the flag is not set after the save.
SaveValueOnly(t) ==
    /\ th[t].pc = "value_save"
    /\ SaveOk("value", th[t].s, Stored(th[t].d))
    /\ Return(t, "ok")
    /\ UNCHANGED <<us, isLoaded, globalCb, base, shown>>

SaveValue(t) ==
    /\ th[t].pc = "value_save"
    /\ LET s == th[t].s
           x == Stored(th[t].d)
       IN \/ SaveOk("value", s, x) /\ Goto(t, "check_flag")
          \/ SaveFails("value", s, x) /\ Return(t, "EIO")
    /\ UNCHANGED <<us, isLoaded, globalCb, base, shown>>

-----------------------------------------------------------------------------
(* prv_set_changed_recently_flag *)

\* The value the call of t gives the flag.
Flag(t) == th[t].op \in Setters \cup {"mark"}

CheckFlag(t) ==
    /\ th[t].pc = "check_flag"
    /\ \/ us[th[t].s].changed = Flag(t) /\ Return(t, "ok")
       \/ us[th[t].s].changed # Flag(t) /\ Goto(t, "flag_rt")
    /\ UNCHANGED <<us, isLoaded, globalCb, nvs, observers>>

FlagSetCb(t) ==
    /\ th[t].pc = "flag_rt"
    /\ LET s == th[t].s IN
       /\ us' = [us EXCEPT ![s].changed = Flag(t)]
       /\ base' = IF Flag(t) THEN base ELSE [base EXCEPT ![s] = us[s].data]
    /\ Goto(t, "flag_save")
    /\ UNCHANGED <<isLoaded, globalCb, nvs, diverged, shown>>

SaveFlag(t) ==
    /\ th[t].pc = "flag_save"
    /\ \/ SaveOk("changed", th[t].s, Flag(t)) /\ Return(t, "ok")
       \/ SaveFails("changed", th[t].s, Flag(t)) /\ Return(t, "EIO")
    /\ UNCHANGED <<us, isLoaded, globalCb, base, shown>>

-----------------------------------------------------------------------------
(* prv_user_settings_set_default *)

NeverLocked(s) == FALSE   \* mutant: the option is ignored
DefaultLocked(s) == ~Overwrite /\ us[s].defaultIsSet

CheckDefault(t) ==
    /\ th[t].pc = "check_default"
    /\ LET s == th[t].s
           d == th[t].d
           new == d # us[s].default
       IN \/ ~new /\ Return(t, "ok")
          \/ new /\ DefaultLocked(s) /\ Return(t, "EALREADY")
          \/ new /\ ~DefaultLocked(s) /\ ~FitsIn(s, d) /\ Return(t, "ENOMEM")
          \/ /\ new /\ ~DefaultLocked(s) /\ FitsIn(s, d) /\ ~Accepts(s, d)
             /\ Return(t, "EINVAL")
          \/ /\ new /\ ~DefaultLocked(s) /\ FitsIn(s, d) /\ Accepts(s, d)
             /\ Goto(t, "default_rt")
    /\ UNCHANGED <<us, isLoaded, globalCb, nvs, observers>>

DefaultSetCb(t) ==
    /\ th[t].pc = "default_rt"
    /\ LET s == th[t].s
           d == th[t].d
       IN us' = IF d = Empty THEN us
                ELSE [us EXCEPT ![s].default = d, ![s].defaultIsSet = TRUE]
    /\ Goto(t, "default_save")
    /\ UNCHANGED <<isLoaded, globalCb, nvs, observers>>

SaveDefault(t) ==
    /\ th[t].pc = "default_save"
    /\ LET s == th[t].s
           x == Stored(th[t].d)
       IN \/ SaveOk("default", s, x) /\ Return(t, "ok")
          \/ SaveFails("default", s, x) /\ Return(t, "EIO")
    /\ UNCHANGED <<us, isLoaded, globalCb, base, shown>>

-----------------------------------------------------------------------------
(* user_settings_load: the three subtrees one after the other.  A subtree  *)
(* that fails has loaded some of its entries, and ends the call.           *)

\* Mutant: the handler of the changed subtree is not registered.
ReadableValues(a, S) ==
    {s \in S : a # "changed" /\ nvs[a][s] # NULL /\ FitsIn(s, nvs[a][s])}

\* The settings of S whose entry the handler of subtree a takes.
Readable(a, S) ==
    {s \in S : nvs[a][s] # NULL /\ (a = "changed" \/ FitsIn(s, nvs[a][s]))}

Subtree(t, a, S, next) ==
    /\ \/ S = Settings /\ Goto(t, next)
       \/ "load" \in Faults /\ Return(t, "EIO")
    /\ diverged' = diverged \ ({a} \X Readable(a, S))
    /\ UNCHANGED <<globalCb, nvs, base>>

LoadDefault(t) ==
    /\ th[t].pc = "load_default"
    /\ \E S \in SUBSET Settings :
       /\ Subtree(t, "default", S, "load_value")
       /\ us' = [s \in Settings |->
                   IF s \in Readable("default", S)
                   THEN [us[s] EXCEPT !.default = nvs["default"][s],
                                      !.defaultIsSet = TRUE]
                   ELSE us[s]]
    /\ UNCHANGED <<isLoaded, shown>>

\* The callbacks run only when the library was loaded before.
LoadValue(t) ==
    /\ th[t].pc = "load_value"
    /\ \E S \in SUBSET Settings :
       /\ Subtree(t, "value", S, "load_changed")
       /\ us' = [s \in Settings |->
                   IF s \in Readable("value", S)
                   THEN [us[s] EXCEPT !.data = nvs["value"][s],
                                      !.isSet = TRUE]
                   ELSE us[s]]
       /\ shown' = IF isLoaded THEN Notified(Readable("value", S), us')
                   ELSE shown
    /\ UNCHANGED isLoaded

LoadChanged(t) ==
    /\ th[t].pc = "load_changed"
    /\ \E S \in SUBSET Settings :
       /\ us' = [s \in Settings |->
                   IF s \in Readable("changed", S)
                   THEN [us[s] EXCEPT !.changed = nvs["changed"][s]]
                   ELSE us[s]]
       /\ diverged' = diverged \ ({"changed"} \X Readable("changed", S))
       /\ \/ S = Settings /\ isLoaded' = TRUE /\ Return(t, "ok")
          \/ "load" \in Faults /\ Return(t, "EIO") /\ UNCHANGED isLoaded
    /\ UNCHANGED <<globalCb, nvs, base, shown>>

-----------------------------------------------------------------------------
(* Power cut and reboot.  The next boot runs user_settings_init and adds   *)
(* the same settings; RAM is lost and flash stays.                         *)

Crash ==
    /\ "crash" \in Faults
    /\ us' = [s \in Settings |-> Blank]
    /\ isLoaded' = FALSE
    /\ globalCb' = FALSE
    /\ th' = [t \in Threads |-> Resting("none")]
    /\ diverged' = {}
    /\ shown' = [k \in Kinds |-> [s \in Settings |-> {}]]
    /\ UNCHANGED <<nvs, base>>

-----------------------------------------------------------------------------
Init ==
    /\ us = [s \in Settings |-> Blank]
    /\ isLoaded = FALSE
    /\ globalCb = FALSE
    /\ nvs = [a \in Areas |-> [s \in Settings |-> NULL]]
    /\ th = [t \in Threads |-> Resting("none")]
    /\ diverged = {}
    /\ base = [s \in Settings |-> Empty]
    /\ shown = [k \in Kinds |-> [s \in Settings |-> {}]]

Begin(t) ==
    \/ \E s \in Settings, d \in Inputs : Set(t, s, d) \/ SetDefault(t, s, d)
    \/ \E s \in Settings : Restore(t, s) \/ Mark(t, s) \/ Clear(t, s)
    \/ RestoreAll(t) \/ ClearAll(t) \/ Load(t)

Step(t) ==
    \/ CheckRestore(t) \/ Iterate(t)
    \/ CheckValue(t) \/ ValueSetCb(t) \/ Notify(t) \/ SaveValue(t)
    \/ CheckFlag(t) \/ FlagSetCb(t) \/ SaveFlag(t)
    \/ CheckDefault(t) \/ DefaultSetCb(t) \/ SaveDefault(t)
    \/ LoadDefault(t) \/ LoadValue(t) \/ LoadChanged(t)

Register ==
    \/ \E on \in BOOLEAN : SetGlobalOnChangeCb(on)
    \/ \E s \in Settings, on \in BOOLEAN : SetOnChangeCb(s, on)
    \/ \E s \in Settings, v \in Validators : SetValidateCb(s, v)

Next ==
    \/ \E t \in Threads : Begin(t) \/ Step(t)
    \/ Register
    \/ Crash

Spec == Init /\ [][Next]_vars

\* A thread that is inside a call keeps running.
FairSpec == Spec /\ \A t \in Threads : WF_vars(Step(t))

-----------------------------------------------------------------------------
(* Properties *)

Entry(a) == (IF a = "changed" THEN BOOLEAN ELSE Payload) \cup {NULL}

\* Every variable holds a value of the type the code gives it.
TypeOK ==
    /\ us \in [Settings -> Setting]
    /\ isLoaded \in BOOLEAN
    /\ globalCb \in BOOLEAN
    /\ nvs \in [Areas -> [Settings -> Payload \cup BOOLEAN \cup {NULL}]]
    /\ \A a \in Areas, s \in Settings : nvs[a][s] \in Entry(a)
    /\ th \in [Threads -> Thread]
    /\ diverged \in SUBSET (Areas \X Settings)
    /\ base \in [Settings -> Payload]
    /\ shown \in [Kinds -> [Settings -> SUBSET (Payload \cup {NULL})]]

\* The steps between settings_runtime_set and settings_save_one.
SavePending(pc, a) ==
    \/ a = "value" /\ pc \in {"value_cb", "value_save"}
    \/ a = "default" /\ pc = "default_save"
    \/ a = "changed" /\ pc = "flag_save"

InFlight(a, s) == \E t \in Threads : th[t].s = s /\ SavePending(th[t].pc, a)

Agree(a, s) ==
    /\ a = "value" => nvs[a][s] = IF IsSet(s) THEN us[s].data ELSE NULL
    /\ a = "default" => nvs[a][s] = GetDefault(s)
    /\ a = "changed" => us[s].changed = (nvs[a][s] = TRUE)

\* Once loaded, flash and RAM hold the same value, default and flag for every
\* setting: a reboot gives back what get returned.  The exceptions are a call
\* between its settings_runtime_set and its settings_save_one, and the two
\* ways a save leaves RAM ahead of flash (a failed write, the delete of an
\* entry whose value stays in RAM).  A reload, a failed load, any number of
\* power cuts and the calls on other settings add no other exception.
FlashAgrees ==
    isLoaded => \A a \in Areas, s \in Settings :
        InFlight(a, s) \/ <<a, s>> \in diverged \/ Agree(a, s)

\* Thread t returns from its call in this step (no power cut ends it).
Returns(t) == th[t].pc # "idle" /\ th[t].pc' = "idle" /\ (isLoaded')
Succeeds(t) == Returns(t) /\ th[t].ret' = "ok"

\* A set or set_default that returns 0 has its payload in flash: the value is
\* stored even if an earlier call, of whatever outcome, made the new payload
\* look the same as the old (user_settings.h: "Set a settings value and store
\* it to NVS").
SuccessIsStored ==
    [][\A t \in Threads : Succeeds(t) =>
         /\ th[t].op = "set" =>
                nvs'["value"][th[t].s] = Stored(th[t].d)
         /\ th[t].op = "set_default" =>
                nvs'["default"][th[t].s] = Stored(th[t].d)]_vars

\* Without CONFIG_USER_SETTINGS_DEFAULT_OVERWRITE a default in flash is never
\* rewritten or deleted, over any calls, failed saves and reboots: factory
\* provisioning is done once.
DefaultWriteOnce ==
    [][\A s \in Settings : nvs["default"][s] # NULL =>
         nvs'["default"][s] = nvs["default"][s]]_vars

\* A call (not a load, which trusts flash) gives a setting only a value or a
\* default that the validation callback in place at that moment accepts, the
\* defaults a restore copies included.
OnlyAccepted ==
    [][\A s \in Settings :
         \/ ~(isLoaded')
         \/ \E t \in Threads : th[t].op = "load"
         \/ /\ us'[s].data \in {us[s].data} \cup us[s].validate
            /\ us'[s].default \in {us[s].default} \cup us[s].validate]_vars

\* A consumer that reads a setting with get when it registers and in its
\* callback knows what get returns, once the setting has a value, except between
\* the write to RAM and the callback.  Before that get returns the default, and
\* no callback tells of a new one.
ConsumersFollow ==
    \A k \in Kinds, s \in Settings : IsSet(s) =>
        \/ shown[k][s] \subseteq {Get(s)}
        \/ \E t \in Threads : th[t].s = s /\ th[t].pc = "value_cb"

\* A setting whose value is not the one it had when the flag was last cleared
\* has has_changed_recently set, unless the call that changed it is still on
\* its way to the flag: an export of the changed settings misses none.
ChangedIsMarked ==
    isLoaded => \A s \in Settings :
        \/ us[s].changed
        \/ us[s].data = base[s]
        \/ \E t \in Threads :
             /\ th[t].s = s
             /\ th[t].op \in Setters
             /\ th[t].pc \in {"value_cb", "value_save", "check_flag", "flag_rt"}

\* When restore_defaults returns, every setting that had a value and has a
\* default its validation accepts is back at the default; when clear_changed
\* returns, no flag is set.  An error on one element does not end the loop.
LoopsAreComplete ==
    [][\A t \in Threads : Returns(t) =>
         /\ th[t].op = "restore_all" => \A s \in Settings :
                IsSet(s) /\ HasDefault(s) /\ Accepts(s, us[s].default)
                    => us'[s].data = us[s].default
         /\ th[t].op = "clear_all" => ~AnyChanged']_vars

\* A call that starts returns: the loops over the list end.
EveryCallReturns ==
    \A t \in Threads : th[t].pc # "idle" ~> th[t].pc = "idle"
=============================================================================
