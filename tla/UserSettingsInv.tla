-------------------------- MODULE UserSettingsInv ---------------------------
(***************************************************************************)
(* The inductive invariants behind the properties of UserSettings: Inv for *)
(* FlashAgrees, of an application that never overlaps two calls on one     *)
(* setting (Serialized), and what the other properties need beside it.     *)
(***************************************************************************)
EXTENDS UserSettings

ValuePCs == {"check_value", "value_rt", "value_cb", "value_save"}
FlagPCs == {"check_flag", "flag_rt", "flag_save"}
DefaultPCs == {"check_default", "default_rt", "default_save"}
LoadPCs == {"load_default", "load_value", "load_changed"}

\* A call is at a step of its own function, on a setting of the list.
Shape(r) ==
    /\ r.pc = "idle" => r.op = "none" /\ r.s = 0
    /\ r.pc \in ValuePCs => r.op \in Setters /\ r.s \in Settings
    /\ r.pc \in FlagPCs => r.op \in Setters \cup Marks /\ r.s \in Settings
    /\ r.pc \in DefaultPCs => r.op = "set_default" /\ r.s \in Settings
    /\ r.pc = "check_restore" =>
           r.op \in {"restore", "restore_all"} /\ r.s \in Settings
    /\ r.pc = "iterate" => r.op \in Loops
    /\ r.pc \in LoadPCs <=> r.op = "load"

InProgress == {r \in Thread : Shape(r)}
ThreadShape == th \in [Threads -> InProgress]

\* What a call has checked or written of its setting stays true while it runs.
Kept(t) ==
    /\ th[t].pc \notin {"idle"} \cup LoadPCs => isLoaded
    /\ th[t].pc \in {"value_rt", "value_cb", "value_save",
                     "default_rt", "default_save"}
           => FitsIn(th[t].s, th[t].d)
    /\ th[t].pc = "value_cb" => th[t].d # Empty
    /\ th[t].pc \in {"value_cb", "value_save"}
           => th[t].d = Empty \/ th[t].d = us[th[t].s].data
    /\ th[t].pc = "default_save"
           => th[t].d = Empty \/ th[t].d = us[th[t].s].default
    /\ th[t].pc = "flag_save" => us[th[t].s].changed = Flag(t)

\* The lengths and the is_set fields agree, and nothing in RAM or in flash is
\* longer than max_size.
DataFits(s) ==
    /\ us[s].isSet <=> us[s].data # Empty
    /\ us[s].defaultIsSet <=> us[s].default # Empty
    /\ nvs["value"][s] \in Fits[s] \cup {NULL}
    /\ nvs["default"][s] \in Fits[s] \cup {NULL}

\* The application's discipline.
Disjoint ==
    \A t, u \in Threads : t # u => Claims(t) \cap Claims(u) = {}

\* Before the library is loaded RAM holds only what a load took from flash.
RamFromFlash ==
    ~isLoaded =>
        /\ diverged = {}
        /\ \A s \in Settings :
             /\ us[s].isSet => us[s].data = nvs["value"][s]
             /\ us[s].defaultIsSet => us[s].default = nvs["default"][s]
             /\ us[s].changed => nvs["changed"][s] = TRUE

\* A load has read subtree a.
HasRead(a) ==
    \E t \in Threads :
        \/ a = "default" /\ th[t].pc \in {"load_value", "load_changed"}
        \/ a = "value" /\ th[t].pc = "load_changed"

\* The call of t has changed subtree a of s in RAM and not yet in flash; a
\* payload of zero bytes changes nothing in RAM.
Ahead(t, a, s) ==
    /\ th[t].s = s
    /\ SavePending(th[t].pc, a)
    /\ a = "changed" \/ th[t].d # Empty

Covered(a, s) ==
    \/ ~isLoaded /\ ~HasRead(a)
    \/ \E t \in Threads : Ahead(t, a, s)
    \/ <<a, s>> \in diverged
    \/ Agree(a, s)

Inv == /\ ThreadShape
       /\ \A t \in Threads : Kept(t)
       /\ \A s \in Settings : DataFits(s)
       /\ Disjoint
       /\ RamFromFlash
       /\ \A a \in Areas, s \in Settings : Covered(a, s)

-----------------------------------------------------------------------------
(* DefaultWriteOnce: RAM knows of every default in flash, so the check of a  *)
(* new default sees it.                                                      *)

DefaultsKnown ==
    \A s \in Settings :
        (isLoaded \/ HasRead("default")) /\ nvs["default"][s] # NULL
            => us[s].defaultIsSet

Unprovisioned(t) ==
    ~Overwrite /\ th[t].pc \in {"default_rt", "default_save"}
        => nvs["default"][th[t].s] = NULL

DefaultInv == DefaultsKnown /\ \A t \in Threads : Unprovisioned(t)

-----------------------------------------------------------------------------
(* OnlyAccepted: what a call is about to write to RAM has been validated.    *)

Vetted(t) ==
    th[t].pc \in {"value_rt", "default_rt"} => Accepts(th[t].s, th[t].d)

-----------------------------------------------------------------------------
(* LoopsAreComplete: how far a loop has come.                                *)

RamFits(s) == FitsIn(s, us[s].data) /\ FitsIn(s, us[s].default)

Restored(s) ==
    IsSet(s) /\ HasDefault(s) /\ Accepts(s, us[s].default)
        => us[s].data = us[s].default

Progress(t) ==
    /\ th[t].op = "restore_all" =>
         /\ \A s \in 1..(th[t].s - 1) : Restored(s)
         /\ th[t].pc \in {"check_value", "value_rt"}
                => th[t].d = us[th[t].s].default
         /\ th[t].pc \in {"iterate", "value_cb", "value_save"} \cup FlagPCs
                => th[t].s = 0 \/ Restored(th[t].s)
    /\ th[t].op = "clear_all" =>
         /\ \A s \in 1..(th[t].s - 1) : ~us[s].changed
         /\ th[t].pc \in {"iterate", "flag_save"}
                => th[t].s = 0 \/ ~us[th[t].s].changed

LoopInv == /\ \A s \in Settings : RamFits(s)
           /\ \A t \in Threads : Progress(t)

-----------------------------------------------------------------------------
(* ConsumersFollow: a consumer that is not registered, or whose library is   *)
(* not loaded, has been told nothing.                                        *)

CallsWhenLoaded ==
    \A t \in Threads : th[t].pc \notin {"idle"} \cup LoadPCs => isLoaded

Untold ==
    \A k \in Kinds, s \in Settings :
        ~isLoaded \/ ~Registered(k, s) => shown[k][s] = {}

ConsumerInv == CallsWhenLoaded /\ Untold /\ ConsumersFollow

-----------------------------------------------------------------------------
(* ChangedIsMarked, while power stays on and saves succeed: the one load     *)
(* reads a flash that is still blank.                                        *)

FirstBoot ==
    /\ isLoaded => \A t \in Threads : th[t].op # "load"
    /\ \A t, u \in Threads : th[t].op = "load" /\ th[u].op = "load" => t = u
    /\ ~isLoaded => \A s \in Settings :
           /\ \A a \in Areas : nvs[a][s] = NULL
           /\ us[s].data = base[s]

MarkInv == CallsWhenLoaded /\ FirstBoot /\ ChangedIsMarked

-----------------------------------------------------------------------------
(* SuccessIsStored and the refinement of SettingsStore, where no save fails  *)
(* or deletes an entry.                                                      *)

DependableFlash ==
    /\ "save" \notin Faults
    /\ Empty \notin Inputs
    /\ Calls \cap {"restore", "restore_all"} = {}

NeverEmpty(t) ==
    th[t].op \in {"set", "set_default"} => th[t].d \in Inputs

StoredInv ==
    /\ diverged = {}
    /\ \A t \in Threads :
         /\ NeverEmpty(t)
         /\ th[t].op \notin {"restore", "restore_all"}
         /\ th[t].op = "set" /\ th[t].pc \in FlagPCs
                => nvs["value"][th[t].s] = th[t].d
=============================================================================
