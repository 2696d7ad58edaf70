------------------------ MODULE CoreProperties_proofs ------------------------
(***************************************************************************)
(* The action properties and the other invariants of UserSettings, for any *)
(* number of settings and threads.  Each has an invariant of its own in    *)
(* UserSettingsInv, beside Inv.                                            *)
(***************************************************************************)
EXTENDS UserSettings_proofs

\* Inv stays; it is the ground the other invariants stand on.
LEMMA BeforeStays ==
    ASSUME Before, [Next]_vars
    PROVE  Before'
BY NextType, NextInv DEF Before, Inv

\* The invariant of the discipline: RAM, flash and the calls under way are in
\* step with each other (see UserSettingsInv), in every reachable state.
THEOREM Invariant ==
    ASSUME Serialized
    PROVE  Spec => [](TypeOK /\ Inv)
<1>1. Init => TypeOK /\ Inv
  BY InitType, InitInv
<1>2. TypeOK /\ Inv /\ [Next]_vars => TypeOK' /\ Inv'
  BY NextType, NextInv DEF Before, Inv
<1> QED
  BY <1>1, <1>2, PTL DEF Spec

-----------------------------------------------------------------------------
(* What a step of one call leaves alone                                    *)

\* RAM and flash of setting s are as before.
Untouched(s) ==
    us'[s] = us[s] /\ \A a \in Areas : nvs'[a][s] = nvs[a][s]

\* Saves write the entry of the call's setting.
LEMMA SaveElsewhere ==
    ASSUME TypeOK, ThreadShape, NEW t \in Threads,
           SaveValue(t) \/ SaveFlag(t) \/ SaveDefault(t),
           NEW r \in Settings, r # th[t].s
    PROVE  Untouched(r)
<1>1. th[t].s \in Settings
  BY WriteShape DEF Writes
<1>2. PICK area, x :
        /\ area \in Areas
        /\ SaveOk(area, th[t].s, x) \/ SaveFails(area, th[t].s, x)
  BY DEF SaveValue, SaveFlag, SaveDefault, Areas
<1>3. ASSUME NEW a \in Areas PROVE nvs'[a][r] = nvs[a][r]
  <2>1. CASE nvs' = [nvs EXCEPT ![area][th[t].s] = x]
    BY <1>1, <2>1 DEF TypeOK
  <2> QED
    BY <1>2, <2>1 DEF SaveOk, SaveFails
<1> QED
  BY <1>3 DEF Untouched, SaveValue, SaveFlag, SaveDefault

\* Writes to RAM write the call's setting.
LEMMA WriteElsewhere ==
    ASSUME TypeOK, ThreadShape, NEW t \in Threads, Writes(t),
           NEW r \in Settings, r # th[t].s
    PROVE  Untouched(r)
<1>1. CASE ValueSetCb(t) \/ Notify(t) \/ FlagSetCb(t) \/ DefaultSetCb(t)
  <2>1. us'[r] = us[r]
    BY <1>1 DEF ValueSetCb, Notify, FlagSetCb, DefaultSetCb, TypeOK
  <2> QED
    BY <1>1, <2>1 DEF ValueSetCb, Notify, FlagSetCb, DefaultSetCb, Untouched
<1> QED
  BY <1>1, SaveElsewhere DEF Writes

\* A step of t leaves the settings that another call has claimed alone.
LEMMA OneWriter ==
    ASSUME Before, NEW t \in Threads, Begin(t) \/ Step(t),
           NEW u \in Threads \ {t}, NEW s \in Settings, s \in Claims(u)
    PROVE  Untouched(s) /\ ~Loads(t)
<1>1. Claims(t) \cap Claims(u) = {}
  BY DEF Before, Inv, Disjoint
<1>2. ~Loads(t)
  <2>1. SUFFICES ASSUME Loads(t) PROVE FALSE
    OBVIOUS
  <2>2. th[t].op = "load"
    BY <2>1 DEF Loads, LoadDefault, LoadValue, LoadChanged, LoadPCs, Before,
                Inv, ThreadShape, InProgress, Shape
  <2> QED
    BY <1>1, <2>2 DEF Claims
<1>3. CASE Begin(t) \/ Checks(t)
  BY <1>2, <1>3, BeginShape, CheckShape DEF Untouched, Before, Inv
<1>4. CASE Writes(t)
  <2>1. th[t].s # s
    BY <1>1, <1>4, WriteShape DEF Claims, Before, Inv
  <2> QED
    BY <1>2, <1>4, <2>1, WriteElsewhere DEF Before, Inv
<1> QED
  BY <1>2, <1>3, <1>4 DEF Step, Checks, Writes, Loads

LEMMA OthersStay ==
    ASSUME TypeOK, ThreadShape, NEW t \in Threads, Begin(t) \/ Step(t),
           NEW u \in Threads \ {t}
    PROVE  th'[u] = th[u]
<1>1. CASE Begin(t)
  BY <1>1 DEF Begin, Set, SetDefault, Restore, RestoreAll, Mark, Clear,
              ClearAll, Load, ApiCall, Call, TypeOK
<1>2. CASE Checks(t) \/ Writes(t) \/ Loads(t)
  BY <1>2, CheckNarrows, WriteNarrows, LoadNarrows DEF Narrows
<1> QED
  BY <1>1, <1>2 DEF Step, Checks, Writes, Loads

\* A call under way is on a setting of the list, or on all of them.
LEMMA ClaimsOwn ==
    ASSUME Before, NEW t \in Threads
    PROVE  /\ th[t].s \in Settings => th[t].s \in Claims(t)
           /\ th[t].op \in Loops => Claims(t) = Settings
           /\ th[t].pc \in ValuePCs \cup FlagPCs \cup DefaultPCs
                  => th[t].s \in Settings
           /\ th[t] \in Thread /\ Shape(th[t])
BY DEF Claims, Before, Inv, ThreadShape, InProgress, Shape

\* How the steps that write RAM change the setting.
LEMMA RamEffect ==
    ASSUME TypeOK, ThreadShape, NEW t \in Threads, NEW s \in Settings, s = th[t].s
    PROVE  /\ ValueSetCb(t) /\ th[t].d # Empty =>
                 us'[s] = [us[s] EXCEPT !.data = th[t].d, !.isSet = TRUE]
           /\ ValueSetCb(t) /\ th[t].d = Empty => us'[s] = us[s]
           /\ DefaultSetCb(t) /\ th[t].d # Empty =>
                 us'[s] = [us[s] EXCEPT !.default = th[t].d,
                                        !.defaultIsSet = TRUE]
           /\ DefaultSetCb(t) /\ th[t].d = Empty => us'[s] = us[s]
           /\ FlagSetCb(t) => us'[s] = [us[s] EXCEPT !.changed = Flag(t)]
           /\ Notify(t) \/ SaveValue(t) \/ SaveFlag(t) \/ SaveDefault(t)
                 => us'[s] = us[s]
BY DEF TypeOK, ValueSetCb, DefaultSetCb, FlagSetCb, Notify, SaveValue,
       SaveFlag, SaveDefault

-----------------------------------------------------------------------------
(* Control flow: how a call comes to the steps at which it holds something   *)

\* Thread t is at step pc of the call it was in.
At(t, pc) ==
    /\ th'[t].pc = pc /\ th'[t].op = th[t].op
    /\ th'[t].s = th[t].s /\ th'[t].d = th[t].d

\* The pc a step leaves a thread at, and what the step tells of it.
From(t) ==
    LET pc == th'[t].pc IN
    /\ pc = "value_rt" => CheckValue(t) /\ At(t, pc)
                          /\ FitsIn(th[t].s, th[t].d) /\ Accepts(th[t].s, th[t].d)
    /\ pc = "value_cb" => ValueSetCb(t) /\ At(t, pc) /\ th[t].d # Empty
    /\ pc = "value_save" => /\ At(t, pc)
                            /\ Notify(t) \/ (ValueSetCb(t) /\ th[t].d = Empty)
    /\ pc = "flag_rt" => CheckFlag(t) /\ At(t, pc)
                         /\ us[th[t].s].changed # Flag(t)
    /\ pc = "flag_save" => FlagSetCb(t) /\ At(t, pc)
    /\ pc = "default_rt" => CheckDefault(t) /\ At(t, pc)
                            /\ ~DefaultLocked(th[t].s)
                            /\ FitsIn(th[t].s, th[t].d) /\ Accepts(th[t].s, th[t].d)
    /\ pc = "default_save" => DefaultSetCb(t) /\ At(t, pc)
    /\ pc = "load_value" => LoadDefault(t) /\ At(t, pc)
    /\ pc = "load_changed" => LoadValue(t) /\ At(t, pc)

LEMMA FromGoto ==
    ASSUME TypeOK, NEW t \in Threads, NEW pc, Goto(t, pc)
    PROVE  At(t, pc)
BY GotoEffect DEF At

LEMMA BeginFrom ==
    ASSUME TypeOK, NEW t \in Threads, Begin(t)
    PROVE  From(t)
<1>1. ASSUME NEW op, NEW pc, NEW s, NEW d, NEW S, Call(t, op, pc, s, d, S)
      PROVE  th'[t].pc = pc
  BY <1>1 DEF Call, TypeOK
<1>2. th'[t].pc \in {"check_value", "check_flag", "check_default",
                     "check_restore", "iterate", "load_default"}
  BY <1>1 DEF Begin, Set, SetDefault, Restore, RestoreAll, Mark, Clear,
              ClearAll, Load, ApiCall
<1> QED
  BY <1>2 DEF From

LEMMA ReturnFrom ==
    ASSUME ThreadShape, NEW t \in Threads, NEW r, Return(t, r)
    PROVE  From(t)
BY ReturnNarrows DEF From

LEMMA StepFrom ==
    ASSUME TypeOK, ThreadShape, NEW t \in Threads, Step(t)
    PROVE  From(t)
<1>1. TypeOK /\ ThreadShape
  OBVIOUS
<1>2. CASE CheckRestore(t)
  <2>1. CASE th' = [th EXCEPT ![t].pc = "check_value",
                              ![t].d = us[th[t].s].default]
    <3>1. th'[t].pc = "check_value"
      BY <1>1, <2>1 DEF TypeOK, Thread
    <3> QED
      BY <3>1 DEF From
  <2> QED
    BY <1>1, <1>2, <2>1, ReturnFrom DEF CheckRestore
<1>3. CASE Iterate(t)
  <2>1. th'[t].pc \in {"idle", "check_restore", "check_flag"}
    BY <1>1, <1>3 DEF Iterate, TypeOK, Thread, Resting
  <2> QED
    BY <2>1 DEF From
<1>4. CASE CheckValue(t)
  <2>1. CASE FitsIn(th[t].s, th[t].d) /\ Accepts(th[t].s, th[t].d)
             /\ Goto(t, "value_rt")
    <3>1. At(t, "value_rt")
      BY <1>1, <2>1, FromGoto
    <3> QED
      BY <1>4, <2>1, <3>1 DEF From, At
  <2> QED
    BY <1>1, <1>4, <2>1, ReturnFrom DEF CheckValue
<1>5. CASE ValueSetCb(t)
  <2>1. \/ th[t].d = Empty /\ At(t, "value_save")
        \/ th[t].d # Empty /\ At(t, "value_cb")
    BY <1>1, <1>5, FromGoto DEF ValueSetCb
  <2> QED
    BY <1>5, <2>1 DEF From, At
<1>6. CASE Notify(t)
  <2>1. At(t, "value_save")
    BY <1>1, <1>6, FromGoto DEF Notify
  <2> QED
    BY <1>6, <2>1 DEF From, At
<1>7. CASE SaveValue(t)
  <2>1. CASE Goto(t, "check_flag")
    BY <1>1, <2>1, FromGoto DEF From, At
  <2> QED
    BY <1>1, <1>7, <2>1, ReturnFrom DEF SaveValue
<1>8. CASE CheckFlag(t)
  <2>1. CASE us[th[t].s].changed # Flag(t) /\ Goto(t, "flag_rt")
    BY <1>1, <1>8, <2>1, FromGoto DEF From, At
  <2> QED
    BY <1>1, <1>8, <2>1, ReturnFrom DEF CheckFlag
<1>9. CASE FlagSetCb(t)
  <2>1. At(t, "flag_save")
    BY <1>1, <1>9, FromGoto DEF FlagSetCb
  <2> QED
    BY <1>9, <2>1 DEF From, At
<1>10. CASE CheckDefault(t)
  <2>1. CASE /\ ~DefaultLocked(th[t].s) /\ FitsIn(th[t].s, th[t].d)
             /\ Accepts(th[t].s, th[t].d) /\ Goto(t, "default_rt")
    <3>1. At(t, "default_rt")
      BY <1>1, <2>1, FromGoto
    <3> QED
      BY <1>10, <2>1, <3>1 DEF From, At
  <2> QED
    BY <1>1, <1>10, <2>1, ReturnFrom DEF CheckDefault
<1>11. CASE DefaultSetCb(t)
  <2>1. At(t, "default_save")
    BY <1>1, <1>11, FromGoto DEF DefaultSetCb
  <2> QED
    BY <1>11, <2>1 DEF From, At
<1>12. CASE SaveFlag(t) \/ SaveDefault(t) \/ LoadChanged(t)
  BY <1>1, <1>12, ReturnFrom DEF SaveFlag, SaveDefault, LoadChanged
<1>13. CASE LoadDefault(t)
  <2>1. CASE Goto(t, "load_value")
    BY <1>1, <1>13, <2>1, FromGoto DEF From, At
  <2> QED
    BY <1>1, <1>13, <2>1, ReturnFrom DEF LoadDefault, Subtree
<1>14. CASE LoadValue(t)
  <2>1. CASE Goto(t, "load_changed")
    BY <1>1, <1>14, <2>1, FromGoto DEF From, At
  <2> QED
    BY <1>1, <1>14, <2>1, ReturnFrom DEF LoadValue, Subtree
<1> QED
  BY <1>2, <1>3, <1>4, <1>5, <1>6, <1>7, <1>8, <1>9, <1>10, <1>11, <1>12,
     <1>13, <1>14 DEF Step

-----------------------------------------------------------------------------
(* What a load changes of a setting                                          *)

\* A load of one subtree gives the setting what flash holds of it, or nothing.
LEMMA LoadKeeps ==
    ASSUME TypeOK, ThreadShape, NEW t \in Threads, Loads(t), NEW s \in Settings
    PROVE  /\ UNCHANGED nvs
           /\ us'[s].validate = us[s].validate
           /\ us'[s].onChange = us[s].onChange
           /\ \/ us'[s].default = us[s].default
                 /\ us'[s].defaultIsSet = us[s].defaultIsSet
              \/ LoadDefault(t) /\ us'[s].default = nvs["default"][s]
                 /\ us'[s].defaultIsSet /\ FitsIn(s, nvs["default"][s])
           /\ \/ us'[s].data = us[s].data /\ us'[s].isSet = us[s].isSet
              \/ LoadValue(t) /\ us'[s].data = nvs["value"][s]
                 /\ us'[s].isSet /\ FitsIn(s, nvs["value"][s])
           /\ LoadChanged(t) \/ us'[s].changed = us[s].changed
<1>1. us[s] \in Setting
  BY DEF TypeOK
<1>2. CASE LoadDefault(t)
  <2>1. PICK S \in SUBSET Settings :
          /\ Subtree(t, "default", S, "load_value")
          /\ us'[s] = IF s \in Readable("default", S)
                      THEN [us[s] EXCEPT !.default = nvs["default"][s],
                                         !.defaultIsSet = TRUE]
                      ELSE us[s]
    BY <1>2 DEF LoadDefault
  <2>2. UNCHANGED nvs
    BY <2>1 DEF Subtree
  <2>3. CASE s \in Readable("default", S)
    <3>1. /\ us'[s].default = nvs["default"][s] /\ us'[s].defaultIsSet
          /\ us'[s].data = us[s].data /\ us'[s].isSet = us[s].isSet
          /\ us'[s].changed = us[s].changed
          /\ us'[s].validate = us[s].validate
          /\ us'[s].onChange = us[s].onChange
      BY <1>1, <2>1, <2>3 DEF Setting
    <3> QED
      BY <1>2, <2>2, <2>3, <3>1 DEF Readable
  <2> QED
    BY <1>2, <2>1, <2>2, <2>3
<1>3. CASE LoadValue(t)
  <2>1. PICK S \in SUBSET Settings :
          /\ Subtree(t, "value", S, "load_changed")
          /\ us'[s] = IF s \in Readable("value", S)
                      THEN [us[s] EXCEPT !.data = nvs["value"][s],
                                         !.isSet = TRUE]
                      ELSE us[s]
    BY <1>3 DEF LoadValue
  <2>2. UNCHANGED nvs
    BY <2>1 DEF Subtree
  <2>3. CASE s \in Readable("value", S)
    <3>1. /\ us'[s].data = nvs["value"][s] /\ us'[s].isSet
          /\ us'[s].default = us[s].default
          /\ us'[s].defaultIsSet = us[s].defaultIsSet
          /\ us'[s].changed = us[s].changed
          /\ us'[s].validate = us[s].validate
          /\ us'[s].onChange = us[s].onChange
      BY <1>1, <2>1, <2>3 DEF Setting
    <3> QED
      BY <1>3, <2>2, <2>3, <3>1 DEF Readable
  <2> QED
    BY <1>3, <2>1, <2>2, <2>3
<1>4. CASE LoadChanged(t)
  <2>1. PICK S \in SUBSET Settings :
          us'[s] = IF s \in Readable("changed", S)
                   THEN [us[s] EXCEPT !.changed = nvs["changed"][s]]
                   ELSE us[s]
    BY <1>4 DEF LoadChanged
  <2>2. /\ us'[s].data = us[s].data /\ us'[s].isSet = us[s].isSet
        /\ us'[s].default = us[s].default
        /\ us'[s].defaultIsSet = us[s].defaultIsSet
        /\ us'[s].validate = us[s].validate
        /\ us'[s].onChange = us[s].onChange
    BY <1>1, <2>1 DEF Setting
  <2> QED
    BY <1>4, <2>2 DEF LoadChanged
<1> QED
  BY <1>2, <1>3, <1>4 DEF Loads

\* The step that changes a field of a setting, and what it gives the field.
LEMMA RamChange ==
    ASSUME TypeOK, ThreadShape, NEW t \in Threads, Begin(t) \/ Step(t),
           NEW s \in Settings
    PROVE  /\ us'[s].validate = us[s].validate
           /\ us'[s].onChange = us[s].onChange
           /\ us[s].isSet => us'[s].isSet
           /\ us[s].defaultIsSet => us'[s].defaultIsSet
           /\ \/ us'[s].isSet = us[s].isSet
              \/ LoadValue(t)
              \/ ValueSetCb(t) /\ s = th[t].s /\ th[t].d # Empty
           /\ \/ us'[s].data = us[s].data
              \/ LoadValue(t)
              \/ ValueSetCb(t) /\ s = th[t].s /\ us'[s].data = th[t].d
           /\ \/ us'[s].default = us[s].default
              \/ LoadDefault(t)
              \/ DefaultSetCb(t) /\ s = th[t].s /\ us'[s].default = th[t].d
           /\ \/ us'[s].changed = us[s].changed
              \/ LoadChanged(t)
              \/ FlagSetCb(t) /\ s = th[t].s /\ us'[s].changed = Flag(t)
<1>0. us[s] \in Setting
  BY DEF TypeOK
<1>1. CASE us'[s] = us[s]
  BY <1>1
<1>2. CASE Begin(t) \/ Checks(t)
  BY <1>1, <1>2, BeginShape, CheckShape
<1>3. CASE Writes(t) /\ s # th[t].s
  BY <1>1, <1>3, WriteElsewhere DEF Untouched
<1>4. CASE Writes(t) /\ s = th[t].s
  <2>1. CASE ValueSetCb(t) /\ th[t].d # Empty
    <3>1. us'[s] = [us[s] EXCEPT !.data = th[t].d, !.isSet = TRUE]
      BY <1>4, <2>1, RamEffect
    <3>2. /\ us'[s].validate = us[s].validate
          /\ us'[s].onChange = us[s].onChange
          /\ us'[s].default = us[s].default
          /\ us'[s].defaultIsSet = us[s].defaultIsSet
          /\ us'[s].changed = us[s].changed
          /\ us'[s].data = th[t].d
          /\ us'[s].isSet = TRUE
      BY <1>0, <3>1 DEF Setting
    <3> QED
      BY <1>4, <2>1, <3>2
  <2>2. CASE DefaultSetCb(t) /\ th[t].d # Empty
    <3>1. us'[s] = [us[s] EXCEPT !.default = th[t].d, !.defaultIsSet = TRUE]
      BY <1>4, <2>2, RamEffect
    <3>2. /\ us'[s].validate = us[s].validate
          /\ us'[s].onChange = us[s].onChange
          /\ us'[s].data = us[s].data
          /\ us'[s].isSet = us[s].isSet
          /\ us'[s].changed = us[s].changed
          /\ us'[s].default = th[t].d
          /\ us'[s].defaultIsSet = TRUE
      BY <1>0, <3>1 DEF Setting
    <3> QED
      BY <1>4, <2>2, <3>2
  <2>3. CASE FlagSetCb(t)
    <3>1. us'[s] = [us[s] EXCEPT !.changed = Flag(t)]
      BY <1>4, <2>3, RamEffect
    <3>2. /\ us'[s].validate = us[s].validate
          /\ us'[s].onChange = us[s].onChange
          /\ us'[s].data = us[s].data
          /\ us'[s].isSet = us[s].isSet
          /\ us'[s].default = us[s].default
          /\ us'[s].defaultIsSet = us[s].defaultIsSet
          /\ us'[s].changed = Flag(t)
      BY <1>0, <3>1 DEF Setting
    <3> QED
      BY <1>4, <2>3, <3>2
  <2> QED
    BY <1>1, <1>4, <2>1, <2>2, <2>3, RamEffect DEF Writes
<1>5. CASE Loads(t)
  BY <1>5, LoadKeeps
<1> QED
  BY <1>2, <1>3, <1>4, <1>5 DEF Step, Checks, Writes, Loads

\* The step that changes an entry in flash, and what it leaves there.
LEMMA FlashChange ==
    ASSUME TypeOK, ThreadShape, NEW t \in Threads, Begin(t) \/ Step(t),
           NEW a \in Areas, NEW s \in Settings
    PROVE  \/ nvs'[a][s] = nvs[a][s]
           \/ /\ a = "value" /\ SaveValue(t)
              /\ s = th[t].s /\ nvs'[a][s] = Stored(th[t].d)
           \/ /\ a = "default" /\ SaveDefault(t)
              /\ s = th[t].s /\ nvs'[a][s] = Stored(th[t].d)
           \/ /\ a = "changed" /\ SaveFlag(t)
              /\ s = th[t].s /\ nvs'[a][s] = Flag(t)
<1>0. ASSUME NEW area \in Areas, NEW x, Writes(t),
             SaveOk(area, th[t].s, x) \/ SaveFails(area, th[t].s, x)
      PROVE  \/ nvs'[a][s] = nvs[a][s]
             \/ a = area /\ s = th[t].s /\ nvs'[a][s] = x
  <2>1. CASE nvs' = [nvs EXCEPT ![area][th[t].s] = x]
    BY <2>1 DEF TypeOK
  <2> QED
    BY <1>0, <2>1 DEF SaveOk, SaveFails
<1>1. CASE UNCHANGED nvs
  BY <1>1
<1>2. CASE Begin(t) \/ Checks(t)
  BY <1>2, <1>1, BeginShape, CheckShape
<1>3. CASE ValueSetCb(t) \/ Notify(t) \/ FlagSetCb(t) \/ DefaultSetCb(t)
  BY <1>1, <1>3 DEF ValueSetCb, Notify, FlagSetCb, DefaultSetCb
<1>4. CASE SaveValue(t)
  BY <1>0, <1>4 DEF SaveValue, Areas, Writes
<1>5. CASE SaveDefault(t)
  BY <1>0, <1>5 DEF SaveDefault, Areas, Writes
<1>6. CASE SaveFlag(t)
  BY <1>0, <1>6 DEF SaveFlag, Areas, Writes
<1>7. CASE Loads(t)
  BY <1>1, <1>7, LoadKeeps
<1> QED
  BY <1>2, <1>3, <1>4, <1>5, <1>6, <1>7 DEF Step, Checks, Loads

-----------------------------------------------------------------------------
(* A default is provisioned once                                             *)

LEMMA InitDefault == Init => DefaultInv
BY DEF Init, DefaultInv, DefaultsKnown, Unprovisioned, Resting, Areas, HasRead

\* A default in flash is not written again, and RAM comes to know of it.
LEMMA DefaultStep ==
    ASSUME Before, ~Overwrite, DefaultInv, NEW t \in Threads,
           Begin(t) \/ Step(t)
    PROVE  /\ DefaultInv'
           /\ \A s \in Settings : nvs["default"][s] # NULL =>
                  nvs'["default"][s] = nvs["default"][s]
<1>0. TypeOK /\ ThreadShape /\ Before' /\ "default" \in Areas
  BY BeforeStays DEF Next, Before, Inv, Areas
<1>1. From(t)
  BY <1>0, BeginFrom, StepFrom
<1>2. \A u \in Threads \ {t} : th'[u] = th[u]
  BY OthersStay, <1>0
<1>3. ASSUME NEW s \in Settings
      PROVE  \/ nvs'["default"][s] = nvs["default"][s]
             \/ SaveDefault(t) /\ s = th[t].s /\ nvs["default"][s] = NULL
  <2>1. SaveDefault(t) => th[t].pc = "default_save"
    BY DEF SaveDefault
  <2>2. Unprovisioned(t)
    BY DEF DefaultInv
  <2> QED
    BY <1>0, <2>1, <2>2, FlashChange DEF Unprovisioned
<1>4. ASSUME NEW u \in Threads PROVE Unprovisioned(u)'
  <2>0. SUFFICES ASSUME th'[u].pc \in {"default_rt", "default_save"}
                 PROVE  nvs'["default"][th'[u].s] = NULL
    BY DEF Unprovisioned
  <2>1. CASE u = t /\ th'[t].pc = "default_rt"
    <3>1. /\ CheckDefault(t) /\ At(t, "default_rt")
          /\ ~DefaultLocked(th[t].s)
      BY <1>1, <2>1 DEF From
    <3>2. th[t].pc = "check_default"
      BY <3>1 DEF CheckDefault
    <3>3. th[t].s \in Settings /\ isLoaded
      BY <3>2, ClaimsOwn DEF DefaultPCs, Before, Inv, Kept, LoadPCs
    <3>4. nvs["default"][th[t].s] = NULL
      BY <3>1, <3>3 DEF DefaultLocked, DefaultInv, DefaultsKnown
    <3>5. UNCHANGED nvs
      BY <3>1 DEF CheckDefault
    <3> QED
      BY <2>1, <3>1, <3>4, <3>5 DEF At
  <2>2. CASE u = t /\ th'[t].pc = "default_save"
    <3>1. DefaultSetCb(t) /\ At(t, "default_save")
      BY <1>1, <2>2 DEF From
    <3>2. th[t].pc = "default_rt" /\ UNCHANGED nvs
      BY <3>1 DEF DefaultSetCb
    <3> QED
      BY <2>2, <3>1, <3>2 DEF At, DefaultInv, Unprovisioned
  <2>3. CASE u # t
    <3>1. th'[u] = th[u]
      BY <1>2, <2>3
    <3>2. th[u].s \in Settings /\ th[u].s \in Claims(u)
      BY <2>0, <3>1, ClaimsOwn DEF DefaultPCs
    <3>3. Untouched(th[u].s)
      BY <2>3, <3>2, OneWriter
    <3> QED
      BY <1>0, <2>0, <3>1, <3>3 DEF Untouched, DefaultInv, Unprovisioned
  <2> QED
    BY <2>0, <2>1, <2>2, <2>3
<1>5. ASSUME NEW s \in Settings, isLoaded' \/ HasRead("default")',
             nvs'["default"][s] # NULL
      PROVE  us'[s].defaultIsSet
  <2>1. CASE LoadDefault(t)
    <3>0. PICK S \in SUBSET Settings :
            /\ Subtree(t, "default", S, "load_value")
            /\ us'[s] = IF s \in Readable("default", S)
                        THEN [us[s] EXCEPT !.default = nvs["default"][s],
                                           !.defaultIsSet = TRUE]
                        ELSE us[s]
            /\ UNCHANGED isLoaded
      BY <2>1 DEF LoadDefault
    <3>1. nvs'["default"][s] = nvs["default"][s]
      BY <3>0 DEF Subtree
    <3>2. CASE S = Settings
      <4>1. s \in Readable("default", S)
        BY <1>5, <3>1, <3>2 DEF Readable, FitsIn, Before, Inv, DataFits
      <4> QED
        BY <1>0, <3>0, <4>1 DEF TypeOK, Setting
    <3>3. CASE Return(t, "EIO")
      <4>1. th'[t].pc \notin {"load_value", "load_changed"}
        BY <1>0, <3>3, ReturnNarrows
      <4>2. th[t].op = "load" /\ Loads(t)
        BY <1>0, <2>1 DEF Loads, LoadDefault, ThreadShape, InProgress, Shape,
                          LoadPCs
      <4>3. \A u \in Threads \ {t} : th'[u].pc = "idle"
        BY <1>2, <4>2, LoadAlone
      <4>4. isLoaded
        BY <1>5, <3>0, <4>1, <4>3 DEF HasRead
      <4>5. us[s].defaultIsSet
        BY <1>5, <3>1, <4>4 DEF DefaultInv, DefaultsKnown
      <4> QED
        BY <1>0, <4>5, RamChange
    <3> QED
      BY <3>0, <3>2, <3>3 DEF Subtree
  <2>2. CASE SaveDefault(t) /\ s = th[t].s /\ nvs["default"][s] = NULL
    <3>1. us' = us /\ th[t].pc = "default_save"
      BY <2>2 DEF SaveDefault
    <3>2. nvs'["default"][s] = Stored(th[t].d)
      BY <1>0, <1>5, <2>2, FlashChange
    <3>3. th[t].d # Empty
      BY <1>5, <3>2 DEF Stored
    <3>4. us[s].default = th[t].d
      BY <2>2, <3>1, <3>3 DEF Before, Inv, Kept
    <3> QED
      BY <3>1, <3>3, <3>4 DEF Before, Inv, DataFits
  <2>3. CASE ~LoadDefault(t) /\ nvs'["default"][s] = nvs["default"][s]
    <3>1. isLoaded \/ HasRead("default")
      <4>1. CASE isLoaded' # isLoaded
        <5>1. LoadChanged(t)
          BY <4>1, BeginShape, CheckShape, <1>0
             DEF Step, Checks, ValueSetCb, Notify, SaveValue, FlagSetCb,
                 SaveFlag, DefaultSetCb, SaveDefault, LoadDefault, LoadValue
        <5> QED
          BY <5>1 DEF LoadChanged, HasRead
      <4>2. CASE HasRead("default")'
        <5>1. PICK u \in Threads :
                th'[u].pc \in {"load_value", "load_changed"}
          BY <4>2 DEF HasRead
        <5>2. CASE u # t
          BY <1>2, <5>1, <5>2 DEF HasRead
        <5>3. CASE u = t
          <6>1. LoadValue(t)
            BY <1>1, <2>3, <5>1, <5>3 DEF From
          <6> QED
            BY <6>1 DEF LoadValue, HasRead
        <5> QED
          BY <5>2, <5>3
      <4> QED
        BY <1>5, <4>1, <4>2
    <3>2. us[s].defaultIsSet
      BY <1>5, <2>3, <3>1 DEF DefaultInv, DefaultsKnown
    <3> QED
      BY <1>0, <3>2, RamChange
  <2> QED
    BY <1>3, <2>1, <2>2, <2>3 DEF SaveDefault, LoadDefault
<1> QED
  BY <1>3, <1>4, <1>5 DEF DefaultInv, DefaultsKnown

LEMMA DefaultNext ==
    ASSUME Before, ~Overwrite, DefaultInv, [Next]_vars
    PROVE  /\ DefaultInv'
           /\ \A s \in Settings : nvs["default"][s] # NULL =>
                  nvs'["default"][s] = nvs["default"][s]
<1>1. CASE Register
  <2>1. UNCHANGED <<nvs, th, isLoaded>>
    BY <1>1 DEF Register, SetGlobalOnChangeCb, SetOnChangeCb, SetValidateCb
  <2>2. \A s \in Settings : us'[s].defaultIsSet = us[s].defaultIsSet
    BY <1>1, RegisterKeeps DEF Before
  <2> QED
    BY <2>1, <2>2 DEF DefaultInv, DefaultsKnown, Unprovisioned, HasRead
<1>2. CASE Crash
  BY <1>2 DEF Crash, DefaultInv, DefaultsKnown, Unprovisioned, HasRead, Resting
<1>3. CASE UNCHANGED vars
  BY <1>3 DEF vars, DefaultInv, DefaultsKnown, Unprovisioned, HasRead
<1> QED
  BY <1>1, <1>2, <1>3, DefaultStep DEF Next

\* Without CONFIG_USER_SETTINGS_DEFAULT_OVERWRITE no call, no load, no failed
\* save and no reboot rewrites or deletes a default that is in flash, as long
\* as two calls on one setting do not overlap.
THEOREM ProvisionedOnce ==
    ASSUME Serialized, ~Overwrite
    PROVE  Spec => DefaultWriteOnce
<1>1. Init => TypeOK /\ Inv /\ DefaultInv
  BY InitType, InitInv, InitDefault
<1>2. TypeOK /\ Inv /\ DefaultInv /\ [Next]_vars
          => TypeOK' /\ Inv' /\ DefaultInv'
  BY NextType, NextInv, DefaultNext DEF Before, Inv
<1>3. TypeOK /\ Inv /\ DefaultInv /\ [Next]_vars
          => [\A s \in Settings : nvs["default"][s] # NULL =>
                 nvs'["default"][s] = nvs["default"][s]]_vars
  BY DefaultNext DEF Before
<1> QED
  BY <1>1, <1>2, <1>3, PTL DEF Spec, DefaultWriteOnce

-----------------------------------------------------------------------------
(* A value or a default that is not accepted is not written                  *)

\* A callback registration leaves the settings of the calls under way to the
\* validation callbacks those calls have asked.
LEMMA RegisterVetted ==
    ASSUME Before, Register, NEW t \in Threads, th[t].s \in Settings
    PROVE  UNCHANGED th /\ us'[th[t].s].validate = us[th[t].s].validate
<1> DEFINE s == th[t].s
<1>1. UNCHANGED th
  BY DEF Register, SetGlobalOnChangeCb, SetOnChangeCb, SetValidateCb, observers
<1>2. us[s] \in Setting
  BY DEF Before, TypeOK
<1>3. CASE \E on \in BOOLEAN : SetGlobalOnChangeCb(on)
  BY <1>1, <1>3 DEF SetGlobalOnChangeCb
<1>4. CASE \E r \in Settings, on \in BOOLEAN : SetOnChangeCb(r, on)
  <2>1. PICK r \in Settings, on \in BOOLEAN : us' = [us EXCEPT ![r].onChange = on]
    BY <1>4 DEF SetOnChangeCb
  <2>2. us'[s] = us[s] \/ us'[s] = [us[s] EXCEPT !.onChange = on]
    BY <2>1 DEF Before, TypeOK
  <2> QED
    BY <1>1, <1>2, <2>2 DEF Setting
<1>5. CASE \E r \in Settings, v \in Validators : SetValidateCb(r, v)
  <2>1. PICK r \in Settings, v \in Validators : SetValidateCb(r, v)
    BY <1>5
  <2>2. s \in Claims(t)
    BY ClaimsOwn
  <2>3. r # s
    BY <2>1, <2>2 DEF SetValidateCb, Undisturbed, Before
  <2>4. us'[s] = us[s]
    BY <2>1, <2>3 DEF SetValidateCb, Before, TypeOK
  <2> QED
    BY <1>1, <2>4
<1> QED
  BY <1>3, <1>4, <1>5 DEF Register

\* What a call is about to write stays accepted.
LEMMA VettedNext ==
    ASSUME Before, \A t \in Threads : Vetted(t), [Next]_vars
    PROVE  \A t \in Threads : Vetted(t)'
<1>0. TypeOK /\ ThreadShape
  BY DEF Before, Inv
<1> SUFFICES ASSUME NEW u \in Threads, th'[u].pc \in {"value_rt", "default_rt"}
             PROVE  th'[u].d \in us'[th'[u].s].validate
  BY DEF Vetted, Accepts
<1>1. ASSUME NEW t \in Threads, Begin(t) \/ Step(t)
      PROVE  th'[u].d \in us'[th'[u].s].validate
  <2>1. CASE u = t
    <3>1. /\ CheckValue(t) \/ CheckDefault(t)
          /\ Accepts(th[t].s, th[t].d)
          /\ th'[t].s = th[t].s /\ th'[t].d = th[t].d
      BY <1>0, <1>1, <2>1, BeginFrom, StepFrom DEF From, At
    <3>2. us' = us
      BY <3>1 DEF CheckValue, CheckDefault
    <3> QED
      BY <2>1, <3>1, <3>2 DEF Accepts
  <2>2. CASE u # t
    <3>1. th'[u] = th[u]
      BY <1>0, <1>1, <2>2, OthersStay
    <3>2. th[u].s \in Settings
      BY <3>1, ClaimsOwn DEF ValuePCs, DefaultPCs
    <3>3. us'[th[u].s].validate = us[th[u].s].validate
      BY <1>0, <1>1, <3>2, RamChange
    <3> QED
      BY <3>1, <3>3 DEF Vetted, Accepts
  <2> QED
    BY <2>1, <2>2
<1>2. CASE Register
  <2>1. UNCHANGED th
    BY <1>2 DEF Register, SetGlobalOnChangeCb, SetOnChangeCb, SetValidateCb,
                observers
  <2>2. th[u].s \in Settings
    BY <2>1, ClaimsOwn DEF ValuePCs, DefaultPCs
  <2> QED
    BY <1>2, <2>1, <2>2, RegisterVetted DEF Vetted, Accepts
<1>3. CASE Crash
  BY <1>3 DEF Crash, Resting
<1>4. CASE UNCHANGED vars
  BY <1>4 DEF vars, Vetted, Accepts
<1> QED
  BY <1>1, <1>2, <1>3, <1>4 DEF Next

LEMMA AcceptedStep ==
    ASSUME Before, \A t \in Threads : Vetted(t), [Next]_vars,
           NEW s \in Settings
    PROVE  \/ ~(isLoaded')
           \/ \E t \in Threads : th[t].op = "load"
           \/ /\ us'[s].data \in {us[s].data} \cup us[s].validate
              /\ us'[s].default \in {us[s].default} \cup us[s].validate
<1>0. TypeOK /\ ThreadShape
  BY DEF Before, Inv
<1>1. CASE \E t \in Threads : Begin(t) \/ Step(t)
  <2>1. PICK t \in Threads : Begin(t) \/ Step(t)
    BY <1>1
  <2>2. CASE LoadValue(t) \/ LoadDefault(t)
    BY <1>0, <2>2 DEF LoadValue, LoadDefault, ThreadShape, InProgress, Shape,
                      LoadPCs
  <2>3. ValueSetCb(t) /\ s = th[t].s => th[t].d \in us[s].validate
    BY DEF ValueSetCb, Vetted, Accepts
  <2>4. DefaultSetCb(t) /\ s = th[t].s => th[t].d \in us[s].validate
    BY DEF DefaultSetCb, Vetted, Accepts
  <2> QED
    BY <1>0, <2>1, <2>2, <2>3, <2>4, RamChange
<1>2. CASE Register
  BY <1>0, <1>2, RegisterKeeps
<1>3. CASE Crash
  BY <1>3 DEF Crash
<1>4. CASE UNCHANGED vars
  BY <1>4 DEF vars
<1> QED
  BY <1>1, <1>2, <1>3, <1>4 DEF Next

\* No call gives a setting a value or a default that the validation callback
\* in place at the write refuses: the check is still good when the write comes,
\* and the default a restore copies is checked again.
THEOREM AcceptedOnly ==
    ASSUME Serialized
    PROVE  Spec => OnlyAccepted
<1> DEFINE VettedInv == \A t \in Threads : Vetted(t)
<1>1. Init => TypeOK /\ Inv /\ VettedInv
  BY InitType, InitInv DEF Init, Vetted, Resting
<1>2. TypeOK /\ Inv /\ VettedInv /\ [Next]_vars
          => TypeOK' /\ Inv' /\ VettedInv'
  BY NextType, NextInv, VettedNext DEF Before, Inv
<1>3. TypeOK /\ Inv /\ VettedInv /\ [Next]_vars
          => [\A s \in Settings :
                \/ ~(isLoaded')
                \/ \E t \in Threads : th[t].op = "load"
                \/ /\ us'[s].data \in {us[s].data} \cup us[s].validate
                   /\ us'[s].default \in {us[s].default} \cup us[s].validate]_vars
  BY AcceptedStep DEF Before
<1> QED
  BY <1>1, <1>2, <1>3, PTL DEF Spec, OnlyAccepted

-----------------------------------------------------------------------------
(* Consumers follow; calls may overlap here (no Serialized)                  *)

LEMMA InitConsumers == Init => ConsumerInv
BY DEF Init, ConsumerInv, CallsWhenLoaded, Untold, ConsumersFollow, Resting

\* A call other than a load is under way only when the library is loaded, and
\* only a power cut unloads it.
LEMMA LoadedStays ==
    ASSUME TypeOK, ThreadShape, CallsWhenLoaded, NEW t \in Threads,
           Begin(t) \/ Step(t)
    PROVE  /\ CallsWhenLoaded'
           /\ isLoaded => isLoaded'
           /\ isLoaded' # isLoaded => LoadChanged(t)
           /\ UNCHANGED globalCb
<1>1. UNCHANGED globalCb /\ (isLoaded' = isLoaded \/ LoadChanged(t))
  BY BeginShape, CheckShape
     DEF Step, Checks, ValueSetCb, Notify, SaveValue, FlagSetCb, SaveFlag,
         DefaultSetCb, SaveDefault, LoadDefault, LoadValue, LoadChanged, Subtree
<1>2. isLoaded => isLoaded'
  BY <1>1 DEF LoadChanged
<1>3. th'[t].pc \notin {"idle"} \cup LoadPCs => isLoaded
  <2>1. CASE Begin(t)
    <3>1. CASE isLoaded
      BY <3>1
    <3>2. CASE ~isLoaded
      <4>1. Call(t, "load", "load_default", 0, Empty, Settings)
        BY <2>1, <3>2 DEF Begin, Set, SetDefault, Restore, RestoreAll, Mark,
                          Clear, ClearAll, ApiCall, Load
      <4> QED
        BY <4>1 DEF Call, TypeOK, LoadPCs
    <3> QED
      BY <3>1, <3>2
  <2>2. CASE Loads(t)
    <3>1. th[t].op \notin Loops
      BY <2>2 DEF Loads, LoadDefault, LoadValue, LoadChanged, ThreadShape,
                  InProgress, Shape, LoadPCs, Loops
    <3>2. ASSUME NEW r, Return(t, r) PROVE th'[t].pc = "idle"
      BY <3>1, <3>2, ReturnNarrows
    <3>3. ASSUME NEW pc \in LoadPCs, Goto(t, pc) PROVE th'[t].pc \in LoadPCs
      BY <3>3, GotoEffect
    <3>4. CASE LoadDefault(t)
      BY <3>2, <3>3, <3>4 DEF LoadDefault, Subtree, LoadPCs
    <3>5. CASE LoadValue(t)
      BY <3>2, <3>3, <3>5 DEF LoadValue, Subtree, LoadPCs
    <3>6. CASE LoadChanged(t)
      BY <3>2, <3>6 DEF LoadChanged
    <3> QED
      BY <2>2, <3>4, <3>5, <3>6 DEF Loads
  <2>3. CASE Checks(t) \/ Writes(t)
    <3>1. th[t].pc \notin {"idle"} \cup LoadPCs
      BY <2>3 DEF Checks, CheckRestore, Iterate, CheckValue, CheckFlag,
                  CheckDefault, Writes, ValueSetCb, Notify, SaveValue,
                  FlagSetCb, SaveFlag, DefaultSetCb, SaveDefault, LoadPCs
    <3> QED
      BY <3>1 DEF CallsWhenLoaded
  <2> QED
    BY <2>1, <2>2, <2>3 DEF Step, Checks, Writes, Loads
<1>4. \A u \in Threads \ {t} : th'[u] = th[u]
  BY OthersStay
<1> QED
  BY <1>1, <1>2, <1>3, <1>4 DEF CallsWhenLoaded

\* What the consumers know after a step of a call.
LEMMA ShownChange ==
    ASSUME TypeOK, ThreadShape, Untold, NEW t \in Threads, Begin(t) \/ Step(t),
           NEW k \in Kinds, NEW s \in Settings
    PROVE  \/ shown'[k][s] = shown[k][s] /\ ~Notify(t) /\ ~LoadValue(t)
           \/ Notify(t) /\ s # th[t].s /\ shown'[k][s] = shown[k][s]
           \/ Notify(t) /\ s = th[t].s /\ shown'[k][s] \subseteq {Get(s)}
           \/ LoadValue(t) /\ shown'[k][s] = shown[k][s] /\ us'[s] = us[s]
           \/ LoadValue(t) /\ shown'[k][s] \subseteq {Get(s)'}
<1>1. Registered(k, s) \/ shown[k][s] = {}
  BY DEF Untold
<1>2. CASE Notify(t)
  BY <1>1, <1>2 DEF Notify, Notified, Get
<1>3. CASE LoadValue(t)
  <2>1. PICK S \in SUBSET Settings :
          /\ us'[s] = IF s \in Readable("value", S)
                      THEN [us[s] EXCEPT !.data = nvs["value"][s],
                                         !.isSet = TRUE]
                      ELSE us[s]
          /\ shown' = IF isLoaded THEN Notified(Readable("value", S), us')
                      ELSE shown
    BY <1>3 DEF LoadValue
  <2>2. CASE ~isLoaded
    BY <1>3, <2>1, <2>2 DEF Untold
  <2>3. CASE isLoaded /\ s \in Readable("value", S)
    BY <1>1, <1>3, <2>1, <2>3 DEF Notified, Get
  <2>4. CASE isLoaded /\ s \notin Readable("value", S)
    BY <1>3, <2>1, <2>4 DEF Notified
  <2> QED
    BY <2>2, <2>3, <2>4
<1>4. CASE ~Notify(t) /\ ~LoadValue(t)
  <2>1. UNCHANGED shown
    BY <1>4, BeginShape, CheckShape
       DEF Step, Checks, observers, ValueSetCb, SaveValue, FlagSetCb, SaveFlag,
           DefaultSetCb, SaveDefault, LoadDefault, LoadChanged
  <2> QED
    BY <1>4, <2>1
<1> QED
  BY <1>2, <1>3, <1>4

LEMMA ConsumerStep ==
    ASSUME TypeOK, ThreadShape, ConsumerInv, NEW t \in Threads,
           Begin(t) \/ Step(t)
    PROVE  ConsumerInv'
<1>0. CallsWhenLoaded /\ Untold /\ ConsumersFollow
  BY DEF ConsumerInv
<1>1. CallsWhenLoaded' /\ (isLoaded => isLoaded') /\ UNCHANGED globalCb
  BY <1>0, LoadedStays
<1>2. \A s \in Settings : us'[s].onChange = us[s].onChange
  BY RamChange
<1>3. ASSUME NEW k \in Kinds, NEW s \in Settings,
             ~isLoaded' \/ ~Registered(k, s)'
      PROVE  shown'[k][s] = {}
  <2>1. ~isLoaded \/ ~Registered(k, s)
    BY <1>1, <1>2, <1>3 DEF Registered
  <2>2. shown[k][s] = {}
    BY <1>0, <2>1 DEF Untold
  <2>3. CASE Notify(t)
    <3>1. isLoaded
      BY <1>0, <2>3 DEF Notify, CallsWhenLoaded, LoadPCs
    <3> QED
      BY <2>1, <2>2, <2>3, <3>1 DEF Notify, Notified
  <2>4. CASE LoadValue(t)
    <3>1. PICK S \in SUBSET Settings :
            shown' = IF isLoaded THEN Notified(Readable("value", S), us')
                     ELSE shown
      BY <2>4 DEF LoadValue
    <3> QED
      BY <2>1, <2>2, <3>1 DEF Notified
  <2> QED
    BY <1>0, <2>2, <2>3, <2>4, ShownChange
<1>4. ASSUME NEW k \in Kinds, NEW s \in Settings
      PROVE  \/ us'[s].isSet => shown'[k][s] \subseteq {Get(s)'}
             \/ \E u \in Threads : th'[u].s = s /\ th'[u].pc = "value_cb"
  <2>0. Notify(t) => ~LoadValue(t) /\ us' = us
    BY DEF Notify, LoadValue
  <2>1. CASE Notify(t) /\ s = th[t].s
    <3>1. Get(s)' = Get(s)
      BY <2>0, <2>1 DEF Get
    <3> QED
      BY <1>0, <2>0, <2>1, <3>1, ShownChange
  <2>2. CASE LoadValue(t) /\ shown'[k][s] \subseteq {Get(s)'}
    BY <2>2
  <2>3. CASE /\ shown'[k][s] = shown[k][s]
             /\ ~Notify(t) \/ s # th[t].s
             /\ ~LoadValue(t) \/ us'[s] = us[s]
    <3>1. CASE ValueSetCb(t) /\ s = th[t].s /\ th[t].d # Empty
      BY <3>1, GotoEffect DEF ValueSetCb
    <3>2. \/ us'[s].data = us[s].data /\ us'[s].isSet = us[s].isSet
          \/ ValueSetCb(t) /\ s = th[t].s /\ th[t].d # Empty
      BY <2>3, RamChange, RamEffect
    <3>3. CASE /\ us'[s].data = us[s].data /\ us'[s].isSet = us[s].isSet
               /\ us[s].isSet => shown[k][s] \subseteq {Get(s)}
      <4>1. us[s].isSet => Get(s)' = Get(s)
        BY <3>3 DEF Get, GetFrom
      <4> QED
        BY <2>3, <3>3, <4>1
    <3>4. ASSUME NEW u \in Threads, th[u].s = s, th[u].pc = "value_cb"
          PROVE  th'[u] = th[u]
      <4>1. CASE u # t
        BY <4>1, OthersStay
      <4>2. CASE u = t
        <5>1. Notify(t)
          BY <3>4, <4>2 DEF Begin, Set, SetDefault, Restore, RestoreAll, Mark,
               Clear, ClearAll, Load, ApiCall, Call, Step, CheckRestore,
               Iterate, CheckValue, ValueSetCb, SaveValue, CheckFlag,
               FlagSetCb, SaveFlag, CheckDefault, DefaultSetCb, SaveDefault,
               LoadDefault, LoadValue, LoadChanged
        <5> QED
          BY <2>3, <3>4, <4>2, <5>1
      <4> QED
        BY <4>1, <4>2
    <3> QED
      BY <1>0, <3>1, <3>2, <3>3, <3>4 DEF ConsumersFollow, IsSet
  <2> QED
    BY <1>0, <2>0, <2>1, <2>2, <2>3, ShownChange
<1> QED
  BY <1>1, <1>3, <1>4 DEF ConsumerInv, Untold, ConsumersFollow, IsSet

\* A callback that is registered late starts from a read of its own.
LEMMA ConsumerRegister ==
    ASSUME TypeOK, ConsumerInv, Register
    PROVE  ConsumerInv'
<1>1. UNCHANGED <<isLoaded, th>>
  BY DEF Register, SetGlobalOnChangeCb, SetOnChangeCb, SetValidateCb, observers
<1>2. \A s \in Settings : us'[s].isSet = us[s].isSet /\ Get(s)' = Get(s)
  BY RegisterKeeps DEF Get, GetFrom
<1>3. ASSUME NEW k \in Kinds, NEW s \in Settings
      PROVE  /\ ~isLoaded' \/ ~Registered(k, s)' => shown'[k][s] = {}
             /\ shown'[k][s] \subseteq {Get(s)} \/ shown'[k][s] = shown[k][s]
  <2>1. us[s] \in Setting
    BY DEF TypeOK
  <2>2. ~isLoaded \/ ~Registered(k, s) => shown[k][s] = {}
    BY DEF ConsumerInv, Untold
  <2>3. ASSUME NEW on \in BOOLEAN, SetGlobalOnChangeCb(on)
        PROVE  /\ ~isLoaded' \/ ~Registered(k, s)' => shown'[k][s] = {}
               /\ \/ shown'[k][s] \subseteq {Get(s)}
                  \/ shown'[k][s] = shown[k][s]
    <3>1. /\ globalCb' = on /\ us' = us
          /\ shown' = [shown EXCEPT !["global"] =
                          [r \in Settings |-> FirstRead(on, r)]]
      BY <2>3 DEF SetGlobalOnChangeCb
    <3>2. CASE k = "global"
      <4>1. shown'[k][s] = FirstRead(on, s)
        BY <3>1, <3>2 DEF TypeOK
      <4> QED
        BY <1>1, <3>1, <3>2, <4>1 DEF FirstRead, Registered
    <3>3. CASE k # "global"
      <4>1. shown'[k][s] = shown[k][s]
        BY <3>1, <3>3 DEF TypeOK
      <4> QED
        BY <1>1, <2>2, <3>1, <3>3, <4>1 DEF Registered
    <3> QED
      BY <3>2, <3>3
  <2>4. ASSUME NEW r \in Settings, NEW on \in BOOLEAN, SetOnChangeCb(r, on)
        PROVE  /\ ~isLoaded' \/ ~Registered(k, s)' => shown'[k][s] = {}
               /\ \/ shown'[k][s] \subseteq {Get(s)}
                  \/ shown'[k][s] = shown[k][s]
    <3>1. /\ us' = [us EXCEPT ![r].onChange = on] /\ globalCb' = globalCb
          /\ shown' = [shown EXCEPT !["own"][r] = FirstRead(on, r)]
      BY <2>4 DEF SetOnChangeCb
    <3>2. CASE k = "own" /\ r = s
      <4>1. shown'[k][s] = FirstRead(on, s)
        BY <3>1, <3>2 DEF TypeOK
      <4>2. us'[s] = [us[s] EXCEPT !.onChange = on]
        BY <3>1, <3>2 DEF TypeOK
      <4>3. us'[s].onChange = on
        BY <2>1, <4>2 DEF Setting
      <4> QED
        BY <1>1, <3>2, <4>1, <4>3 DEF FirstRead, Registered
    <3>3. CASE k # "own" \/ r # s
      <4>1. shown'[k][s] = shown[k][s]
        BY <3>1, <3>3 DEF TypeOK
      <4>2. k # "global" => us'[s] = us[s]
        BY <3>1, <3>3 DEF TypeOK, Kinds
      <4> QED
        BY <1>1, <2>2, <3>1, <4>1, <4>2 DEF Registered
    <3> QED
      BY <3>2, <3>3
  <2>5. ASSUME NEW r \in Settings, NEW v \in Validators, SetValidateCb(r, v)
        PROVE  /\ ~isLoaded' \/ ~Registered(k, s)' => shown'[k][s] = {}
               /\ shown'[k][s] = shown[k][s]
    <3>1. /\ us' = [us EXCEPT ![r].validate = v]
          /\ UNCHANGED <<globalCb, shown>>
      BY <2>5 DEF SetValidateCb, observers
    <3>2. us'[s] = us[s] \/ us'[s] = [us[s] EXCEPT !.validate = v]
      BY <3>1 DEF TypeOK
    <3>3. us'[s].onChange = us[s].onChange
      BY <2>1, <3>2 DEF Setting
    <3> QED
      BY <1>1, <2>2, <3>1, <3>3 DEF Registered
  <2> QED
    BY <2>3, <2>4, <2>5 DEF Register
<1> QED
  BY <1>1, <1>2, <1>3
     DEF ConsumerInv, CallsWhenLoaded, Untold, ConsumersFollow, IsSet

LEMMA ConsumerNext ==
    ASSUME TypeOK, ThreadShape, ConsumerInv, [Next]_vars
    PROVE  ThreadShape' /\ ConsumerInv'
<1>1. ThreadShape'
  BY NextType
<1>2. CASE Crash
  <2>1. CallsWhenLoaded'
    BY <1>2 DEF Crash, CallsWhenLoaded, Resting
  <2>2. \A k \in Kinds, s \in Settings : shown'[k][s] = {}
    BY <1>2 DEF Crash
  <2>3. Untold'
    BY <2>2 DEF Untold
  <2>4. ConsumersFollow'
    BY <2>2 DEF ConsumersFollow
  <2> QED
    BY <1>1, <2>1, <2>3, <2>4 DEF ConsumerInv
<1>3. CASE UNCHANGED vars
  <2>1. UNCHANGED <<us, isLoaded, globalCb, th, shown>>
    BY <1>3 DEF vars
  <2>2. CallsWhenLoaded'
    BY <2>1 DEF ConsumerInv, CallsWhenLoaded
  <2>3. Untold'
    BY <2>1 DEF ConsumerInv, Untold, Registered
  <2>4. ConsumersFollow'
    BY <2>1 DEF ConsumerInv, ConsumersFollow, Get, IsSet
  <2> QED
    BY <1>1, <2>2, <2>3, <2>4 DEF ConsumerInv
<1> QED
  BY <1>1, <1>2, <1>3, ConsumerStep, ConsumerRegister DEF Next

\* A consumer that follows a setting through its callback, registered at any
\* moment, knows what get returns once the setting has a value, but for the
\* instant between the write and the callback; calls on one setting may overlap.
\* Of a setting without a value nothing is said: set_default changes what get
\* returns and runs no callback.
THEOREM ConsumersUpToDate == Spec => []ConsumersFollow
<1>1. Init => TypeOK /\ ThreadShape /\ ConsumerInv
  BY InitType, InitConsumers
<1>2. TypeOK /\ ThreadShape /\ ConsumerInv /\ [Next]_vars
          => TypeOK' /\ ThreadShape' /\ ConsumerInv'
  BY NextType, ConsumerNext
<1>3. ConsumerInv => ConsumersFollow
  BY DEF ConsumerInv
<1> QED
  BY <1>1, <1>2, <1>3, PTL DEF Spec

-----------------------------------------------------------------------------
(* A change is marked; calls may overlap here too                            *)

\* A call keeps its function until it returns.
LEMMA OpStays ==
    ASSUME TypeOK, ThreadShape, NEW t \in Threads, Step(t)
    PROVE  th'[t].op \in {"none", th[t].op}
<1>0. th[t] \in Thread
  BY DEF ThreadShape, InProgress
<1>1. ASSUME NEW r, th' = [th EXCEPT ![t] = Resting(r)] PROVE th'[t].op = "none"
  BY <1>1 DEF Resting, TypeOK
<1>2. ASSUME NEW pc, Goto(t, pc) PROVE th'[t].op = th[t].op
  BY <1>2, GotoEffect
<1>3. ASSUME NEW r, Return(t, r) PROVE th'[t].op \in {"none", th[t].op}
  BY <1>1, <1>2, <1>3 DEF Return, Goto
<1>4. CASE CheckRestore(t)
  <2>1. CASE th' = [th EXCEPT ![t].pc = "check_value",
                              ![t].d = us[th[t].s].default]
    BY <1>0, <2>1 DEF TypeOK, Thread
  <2> QED
    BY <1>3, <1>4, <2>1 DEF CheckRestore
<1>5. CASE Iterate(t)
  <2>1. CASE th' = [th EXCEPT
                     ![t].s = NextElement(t),
                     ![t].pc = IF th[t].op = "restore_all"
                               THEN "check_restore" ELSE "check_flag"]
    BY <1>0, <2>1 DEF TypeOK, Thread
  <2> QED
    BY <1>1, <1>5, <2>1 DEF Iterate
<1>6. CASE CheckValue(t) \/ CheckFlag(t) \/ CheckDefault(t)
  BY <1>2, <1>3, <1>6 DEF CheckValue, CheckFlag, CheckDefault
<1>7. CASE ValueSetCb(t) \/ Notify(t) \/ FlagSetCb(t) \/ DefaultSetCb(t)
  BY <1>2, <1>7 DEF ValueSetCb, Notify, FlagSetCb, DefaultSetCb
<1>8. CASE SaveValue(t) \/ SaveFlag(t) \/ SaveDefault(t)
  BY <1>2, <1>3, <1>8 DEF SaveValue, SaveFlag, SaveDefault
<1>9. CASE LoadDefault(t) \/ LoadValue(t) \/ LoadChanged(t)
  BY <1>2, <1>3, <1>9 DEF LoadDefault, LoadValue, LoadChanged, Subtree
<1> QED
  BY <1>4, <1>5, <1>6, <1>7, <1>8, <1>9 DEF Step

\* The flag of a setting is cleared at its present value.
LEMMA BaseChange ==
    ASSUME TypeOK, ThreadShape, NEW t \in Threads, Begin(t) \/ Step(t),
           NEW s \in Settings
    PROVE  \/ base'[s] = base[s] /\ (FlagSetCb(t) /\ s = th[t].s => Flag(t))
           \/ FlagSetCb(t) /\ s = th[t].s /\ base'[s] = us[s].data
<1>1. CASE FlagSetCb(t)
  BY <1>1 DEF FlagSetCb, TypeOK
<1>2. CASE ~FlagSetCb(t)
  BY <1>2, BeginShape, CheckShape
     DEF Step, Checks, observers, ValueSetCb, Notify, SaveValue, SaveFlag,
         DefaultSetCb, SaveDefault, LoadDefault, LoadValue, LoadChanged, Subtree
<1> QED
  BY <1>1, <1>2

\* Until the first load is done nothing is stored and nothing is changed.
LEMMA FirstBootStep ==
    ASSUME TypeOK, ThreadShape, CallsWhenLoaded, FirstBoot,
           "reload" \notin Calls, NEW t \in Threads, Begin(t) \/ Step(t)
    PROVE  FirstBoot'
<1>1. /\ CallsWhenLoaded' /\ (isLoaded => isLoaded')
      /\ isLoaded' # isLoaded => LoadChanged(t)
  BY LoadedStays
<1>2. \A u \in Threads \ {t} : th'[u] = th[u]
  BY OthersStay
<1>3. th'[t].op = "load" =>
          \/ th[t].op = "load"
          \/ ~isLoaded /\ \A u \in Threads : th[u].op # "load"
  <2>1. CASE Step(t)
    BY <2>1, OpStays
  <2>2. CASE Load(t)
    BY <2>2 DEF Load
  <2>3. CASE Begin(t) /\ ~Load(t)
    <3>1. PICK op, pc, s, d, S :
            op \in Ops \ {"load"} /\ Call(t, op, pc, s, d, S)
      BY <2>3 DEF Begin, Set, SetDefault, Restore, RestoreAll, Mark, Clear,
                  ClearAll, ApiCall, Ops, Setters, Marks
    <3>2. th'[t].op = op
      BY <3>1 DEF Call, TypeOK
    <3> QED
      BY <3>1, <3>2
  <2> QED
    BY <2>1, <2>2, <2>3
<1>4. LoadChanged(t) /\ isLoaded' => th'[t].op # "load" \/ isLoaded
  <2>1. SUFFICES ASSUME LoadChanged(t), isLoaded', ~isLoaded
                 PROVE  th'[t].op # "load"
    OBVIOUS
  <2>2. Return(t, "ok") /\ th[t].op = "load"
    BY <2>1 DEF LoadChanged, ThreadShape, InProgress, Shape, LoadPCs
  <2>3. th'[t].pc = "idle"
    BY <2>2, ReturnNarrows DEF Loops
  <2> QED
    BY <2>3, NextType DEF Next, ThreadShape, InProgress, Shape
<1>5. isLoaded' => \A u \in Threads : th'[u].op # "load"
  BY <1>1, <1>2, <1>3, <1>4 DEF FirstBoot, LoadChanged, ThreadShape,
     InProgress, Shape, LoadPCs
<1>6. \A u, v \in Threads : th'[u].op = "load" /\ th'[v].op = "load" => u = v
  BY <1>2, <1>3 DEF FirstBoot
<1>7. ASSUME ~isLoaded', NEW s \in Settings
      PROVE  (\A a \in Areas : nvs'[a][s] = NULL) /\ us'[s].data = base'[s]
  <2>1. /\ \A a \in Areas : nvs[a][s] = NULL
        /\ us[s].data = base[s]
    BY <1>1, <1>7 DEF FirstBoot
  <2>2. th[t].pc \in {"idle"} \cup LoadPCs
    BY <1>1, <1>7 DEF CallsWhenLoaded
  <2>3. ~Writes(t)
    BY <2>2 DEF Writes, ValueSetCb, Notify, SaveValue, FlagSetCb, SaveFlag,
                DefaultSetCb, SaveDefault, LoadPCs
  <2>4. base'[s] = base[s] /\ \A a \in Areas : nvs'[a][s] = nvs[a][s]
    BY <2>3, BaseChange, FlashChange DEF Writes
  <2>5. CASE LoadValue(t)
    <3>1. s \notin Readable("value", Settings)
      BY <2>1 DEF Readable, Areas
    <3> QED
      BY <2>1, <2>4, <2>5, <3>1 DEF LoadValue, Readable
  <2>6. CASE ~LoadValue(t)
    BY <2>1, <2>3, <2>4, <2>6, RamChange DEF Writes
  <2> QED
    BY <2>1, <2>4, <2>5, <2>6
<1> QED
  BY <1>5, <1>6, <1>7 DEF FirstBoot

\* The call of t changed the value of s and is on its way to the flag.
Marking(t, s) ==
    /\ th[t].s = s
    /\ th[t].op \in Setters
    /\ th[t].pc \in {"value_cb", "value_save", "check_flag", "flag_rt"}

\* Such a call goes on until the flag is set.
LEMMA MarkingGoesOn ==
    ASSUME TypeOK, ThreadShape, "save" \notin Faults, NEW t \in Threads,
           Begin(t) \/ Step(t), NEW s \in Settings, Marking(t, s)
    PROVE  Marking(t, s)' \/ us'[s].changed
<1>0. Flag(t) /\ us[s] \in Setting
  BY DEF Marking, Flag, TypeOK
<1>1. ASSUME NEW pc, Goto(t, pc),
             pc \in {"value_cb", "value_save", "check_flag", "flag_rt"}
      PROVE  Marking(t, s)'
  BY <1>1, GotoEffect DEF Marking
<1>2. CASE Notify(t)
  BY <1>1, <1>2 DEF Notify
<1>3. CASE SaveValue(t)
  BY <1>1, <1>3 DEF SaveValue, SaveFails
<1>4. CASE CheckFlag(t)
  BY <1>0, <1>1, <1>4 DEF CheckFlag, Marking
<1>5. CASE FlagSetCb(t)
  <2>1. us'[s] = [us[s] EXCEPT !.changed = TRUE]
    BY <1>0, <1>5, RamEffect DEF Marking
  <2> QED
    BY <1>0, <2>1 DEF Setting
<1>6. Notify(t) \/ SaveValue(t) \/ CheckFlag(t) \/ FlagSetCb(t)
  BY DEF Marking, Begin, Set, SetDefault, Restore, RestoreAll, Mark, Clear,
         ClearAll, Load, ApiCall, Call, Step, CheckRestore, Iterate,
         CheckValue, ValueSetCb, CheckDefault, DefaultSetCb, SaveFlag,
         SaveDefault, LoadDefault, LoadValue, LoadChanged
<1> QED
  BY <1>2, <1>3, <1>4, <1>5, <1>6

LEMMA MarkStep ==
    ASSUME TypeOK, ThreadShape, MarkInv, "save" \notin Faults,
           "reload" \notin Calls, NEW t \in Threads, Begin(t) \/ Step(t)
    PROVE  MarkInv'
<1>1. CallsWhenLoaded /\ FirstBoot /\ ChangedIsMarked
  BY DEF MarkInv
<1>2. CallsWhenLoaded' /\ FirstBoot'
  BY <1>1, LoadedStays, FirstBootStep
<1>3. ASSUME isLoaded', NEW s \in Settings
      PROVE  us'[s].changed \/ us'[s].data = base'[s]
                 \/ \E u \in Threads : Marking(u, s)'
  <2>1. CASE ~isLoaded
    <3>1. LoadChanged(t) /\ us[s].data = base[s]
      BY <1>1, <1>3, <2>1, LoadedStays DEF FirstBoot
    <3>2. ~ValueSetCb(t) /\ ~LoadValue(t) /\ ~FlagSetCb(t)
      BY <3>1 DEF LoadChanged, ValueSetCb, LoadValue, FlagSetCb
    <3> QED
      BY <3>1, <3>2, RamChange, BaseChange
  <2>2. CASE isLoaded
    <3>1. ~Loads(t)
      BY <1>1, <2>2 DEF FirstBoot, Loads, LoadDefault, LoadValue, LoadChanged,
                        ThreadShape, InProgress, Shape, LoadPCs
    <3>2. CASE FlagSetCb(t) /\ s = th[t].s
      <4>1. us'[s] = [us[s] EXCEPT !.changed = Flag(t)]
        BY <3>2, RamEffect
      <4>2. us'[s].changed = Flag(t) /\ us'[s].data = us[s].data
        BY <4>1 DEF TypeOK, Setting
      <4> QED
        BY <3>2, <4>2, BaseChange
    <3>3. CASE ValueSetCb(t) /\ s = th[t].s /\ th[t].d # Empty
      <4>1. th'[t].pc = "value_cb" /\ th'[t].s = s /\ th'[t].op = th[t].op
        BY <3>3, GotoEffect DEF ValueSetCb
      <4>2. th[t].op \in Setters
        BY <3>3 DEF ValueSetCb, ThreadShape, InProgress, Shape, ValuePCs
      <4> QED
        BY <4>1, <4>2 DEF Marking
    <3>4. CASE /\ ~(FlagSetCb(t) /\ s = th[t].s)
               /\ ~(ValueSetCb(t) /\ s = th[t].s /\ th[t].d # Empty)
      <4>1. us'[s].changed = us[s].changed /\ us'[s].data = us[s].data
        BY <3>1, <3>4, RamChange, RamEffect DEF Loads
      <4>2. base'[s] = base[s]
        BY <3>4, BaseChange
      <4>3. ASSUME NEW u \in Threads, Marking(u, s)
            PROVE  us'[s].changed \/ \E v \in Threads : Marking(v, s)'
        <5>1. CASE u = t
          BY <4>3, <5>1, MarkingGoesOn
        <5>2. CASE u # t
          BY <4>3, <5>2, OthersStay DEF Marking
        <5> QED
          BY <5>1, <5>2
      <4> QED
        BY <1>1, <2>2, <4>1, <4>2, <4>3 DEF ChangedIsMarked, Marking
    <3> QED
      BY <3>2, <3>3, <3>4
  <2> QED
    BY <2>1, <2>2
<1> QED
  BY <1>2, <1>3 DEF MarkInv, ChangedIsMarked, Marking

LEMMA MarkNext ==
    ASSUME TypeOK, ThreadShape, MarkInv, "save" \notin Faults,
           "crash" \notin Faults, "reload" \notin Calls, [Next]_vars
    PROVE  MarkInv'
<1>1. CASE Register
  <2>1. UNCHANGED <<isLoaded, th, nvs, base>>
    BY <1>1 DEF Register, SetGlobalOnChangeCb, SetOnChangeCb, SetValidateCb,
                observers
  <2>2. \A s \in Settings : /\ us'[s].data = us[s].data
                            /\ us'[s].changed = us[s].changed
    BY <1>1, RegisterKeeps
  <2>3. CallsWhenLoaded' /\ FirstBoot'
    BY <2>1, <2>2 DEF MarkInv, CallsWhenLoaded, FirstBoot
  <2>4. ChangedIsMarked'
    BY <2>1, <2>2 DEF MarkInv, ChangedIsMarked
  <2> QED
    BY <2>3, <2>4 DEF MarkInv
<1>2. CASE UNCHANGED vars
  <2>1. UNCHANGED <<us, isLoaded, th, nvs, base>>
    BY <1>2 DEF vars
  <2>2. CallsWhenLoaded' /\ FirstBoot'
    BY <2>1 DEF MarkInv, CallsWhenLoaded, FirstBoot
  <2>3. ChangedIsMarked'
    BY <2>1 DEF MarkInv, ChangedIsMarked
  <2> QED
    BY <2>2, <2>3 DEF MarkInv
<1>3. ~Crash
  BY DEF Crash
<1> QED
  BY <1>1, <1>2, <1>3, MarkStep DEF Next

LEMMA InitMark == Init => MarkInv
<1> SUFFICES ASSUME Init PROVE MarkInv
  OBVIOUS
<1>1. CallsWhenLoaded
  BY DEF Init, CallsWhenLoaded, Resting
<1>2. FirstBoot
  BY DEF Init, FirstBoot, Resting, Blank
<1> QED
  BY <1>1, <1>2 DEF Init, MarkInv, ChangedIsMarked

\* While power stays on, saves succeed and the library is loaded once, a
\* setting that differs from what it was when its flag was last cleared is
\* marked, or its call is on the way to the flag; calls may overlap.
THEOREM ChangesAreMarked ==
    ASSUME "save" \notin Faults, "crash" \notin Faults, "reload" \notin Calls
    PROVE  Spec => []ChangedIsMarked
<1>1. Init => TypeOK /\ ThreadShape /\ MarkInv
  BY InitType, InitMark
<1>2. TypeOK /\ ThreadShape /\ MarkInv /\ [Next]_vars
          => TypeOK' /\ ThreadShape' /\ MarkInv'
  BY NextType, MarkNext
<1>3. MarkInv => ChangedIsMarked
  BY DEF MarkInv
<1> QED
  BY <1>1, <1>2, <1>3, PTL DEF Spec

-----------------------------------------------------------------------------
(* The loops over the list are complete                                      *)

\* Nothing in RAM is longer than max_size.
LEMMA FitsStay ==
    ASSUME Before, \A s \in Settings : RamFits(s), [Next]_vars,
           NEW s \in Settings
    PROVE  RamFits(s)'
<1>0. TypeOK /\ ThreadShape /\ RamFits(s)
  BY DEF Before, Inv
<1>1. ASSUME NEW t \in Threads, Begin(t) \/ Step(t) PROVE RamFits(s)'
  <2>1. ValueSetCb(t) /\ s = th[t].s => FitsIn(s, th[t].d)
    BY DEF ValueSetCb, Before, Inv, Kept
  <2>2. DefaultSetCb(t) /\ s = th[t].s => FitsIn(s, th[t].d)
    BY DEF DefaultSetCb, Before, Inv, Kept
  <2>3. FitsIn(s, us'[s].data)
    BY <1>0, <1>1, <2>1, RamChange, LoadKeeps DEF RamFits, Loads
  <2>4. FitsIn(s, us'[s].default)
    BY <1>0, <1>1, <2>2, RamChange, LoadKeeps DEF RamFits, Loads
  <2> QED
    BY <2>3, <2>4 DEF RamFits, FitsIn
<1>2. CASE Register
  BY <1>0, <1>2, RegisterKeeps DEF RamFits, FitsIn
<1>3. CASE Crash
  BY <1>3 DEF Crash, Blank, RamFits, FitsIn
<1>4. CASE UNCHANGED vars
  BY <1>0, <1>4 DEF vars, RamFits, FitsIn
<1> QED
  BY <1>1, <1>2, <1>3, <1>4 DEF Next

\* A loop goes on with the list when an element is done, whatever its result.
LEMMA LoopReturn ==
    ASSUME TypeOK, NEW t \in Threads, th[t].op \in Loops, NEW r, Return(t, r)
    PROVE  At(t, "iterate")
BY FromGoto DEF Return, Goto

\* The next element, or the end of the list.
LEMMA LoopIterate ==
    ASSUME TypeOK, ThreadShape, NEW t \in Threads, Iterate(t)
    PROVE  /\ us' = us /\ th[t].op \in Loops
           /\ \/ th[t].s = N /\ th'[t].pc = "idle"
              \/ /\ th'[t].s = th[t].s + 1 /\ th'[t].op = th[t].op
                 /\ th'[t].pc = IF th[t].op = "restore_all"
                                THEN "check_restore" ELSE "check_flag"
<1>1. th[t] \in Thread /\ th[t].op \in Loops
  BY DEF ThreadShape, InProgress, Shape, Iterate
<1>2. CASE th' = [th EXCEPT
                   ![t].s = NextElement(t),
                   ![t].pc = IF th[t].op = "restore_all"
                             THEN "check_restore" ELSE "check_flag"]
  BY <1>1, <1>2 DEF Iterate, TypeOK, Thread, NextElement
<1>3. CASE AtEnd(t) /\ th' = [th EXCEPT ![t] = Resting("ok")]
  BY <1>1, <1>3 DEF Iterate, TypeOK, Resting, AtEnd
<1> QED
  BY <1>1, <1>2, <1>3 DEF Iterate

\* What other steps do to the settings a loop has dealt with: nothing.
LEMMA LoopSettingsStay ==
    ASSUME Before, NEW t \in Threads, th[t].op \in Loops,
           \/ \E u \in Threads \ {t} : Begin(u) \/ Step(u)
           \/ Register
    PROVE  th'[t] = th[t] /\ \A s \in Settings : us'[s] = us[s]
<1>0. TypeOK /\ ThreadShape
  BY DEF Before, Inv
<1>1. Claims(t) = Settings
  BY ClaimsOwn
<1>2. CASE \E u \in Threads \ {t} : Begin(u) \/ Step(u)
  BY <1>0, <1>1, <1>2, OneWriter, OthersStay DEF Untouched
<1>3. CASE Register
  <2>1. \A s \in Settings : ~Undisturbed({s})
    BY <1>1 DEF Undisturbed, Before
  <2>2. UNCHANGED <<us, th>>
    BY <1>3, <2>1 DEF Register, SetGlobalOnChangeCb, SetOnChangeCb,
                      SetValidateCb
  <2> QED
    BY <2>2
<1> QED
  BY <1>2, <1>3

\* A step of a loop touches the present element only.
LEMMA LoopElsewhere ==
    ASSUME TypeOK, ThreadShape, NEW t \in Threads, Step(t),
           th[t].op \in Loops, NEW s \in Settings, s # th[t].s
    PROVE  us'[s] = us[s]
<1>1. ~Loads(t)
  BY DEF Loads, LoadDefault, LoadValue, LoadChanged, ThreadShape, InProgress,
         Shape, LoadPCs, Loops
<1> QED
  BY <1>1, CheckShape, WriteElsewhere
     DEF Step, Checks, Writes, Loads, Untouched

\* Restored, of the settings in u.
RestoredIn(u, q) ==
    u[q].isSet /\ u[q].defaultIsSet /\ u[q].default \in u[q].validate
        => u[q].data = u[q].default

\* restore_all: the elements it has dealt with are at their defaults.
LEMMA RestoreProgress ==
    ASSUME Before, LoopInv, NEW t \in Threads, Step(t),
           th[t].op = "restore_all", th'[t].op = "restore_all"
    PROVE  Progress(t)'
<1> DEFINE s == th[t].s
           r == th'[t].s
<1>0. /\ TypeOK /\ ThreadShape
      /\ th[t] \in Thread /\ Shape(th[t]) /\ th[t].op \in Loops
  BY DEF Before, Inv, ThreadShape, InProgress, Loops
<1>1. /\ \A q \in 1..(s - 1) : RestoredIn(us, q)
      /\ th[t].pc \in {"check_value", "value_rt"} => th[t].d = us[s].default
      /\ th[t].pc \in {"iterate", "value_cb", "value_save"} \cup FlagPCs
             => s = 0 \/ RestoredIn(us, s)
  BY DEF LoopInv, Progress, Restored, IsSet, HasDefault, Accepts, RestoredIn
<1>2. \A q \in 1..(s - 1) : q \in Settings /\ q # s
  BY <1>0, CountAssumption DEF Thread, Settings
<1>3. \A q \in 1..(s - 1) : RestoredIn(us', q)
  <2>1. \A q \in 1..(s - 1) : us'[q] = us[q]
    BY <1>0, <1>2, LoopElsewhere
  <2> QED
    BY <1>1, <2>1 DEF RestoredIn
<1>4. SUFFICES
        /\ \A q \in 1..(r - 1) : RestoredIn(us', q)
        /\ th'[t].pc \in {"check_value", "value_rt"} => th'[t].d = us'[r].default
        /\ th'[t].pc \in {"iterate", "value_cb", "value_save"} \cup FlagPCs
               => r = 0 \/ RestoredIn(us', r)
  BY DEF Progress, Restored, IsSet, HasDefault, Accepts, RestoredIn
<1>5. CASE Iterate(t)
  <2>1. r = s + 1 /\ th'[t].pc = "check_restore" /\ us' = us
    BY <1>0, <1>5, LoopIterate, NextType DEF Next, ThreadShape, InProgress, Shape
  <2>2. s = 0 \/ RestoredIn(us, s)
    BY <1>1, <1>5 DEF Iterate
  <2>3. \A q \in 1..(r - 1) : RestoredIn(us', q)
    <3>1. SUFFICES ASSUME NEW q \in 1..(r - 1) PROVE RestoredIn(us', q)
      OBVIOUS
    <3>2. q \in 1..(s - 1) \/ (q = s /\ s # 0)
      BY <1>0, <2>1 DEF Thread
    <3> QED
      BY <1>3, <2>1, <2>2, <3>2 DEF RestoredIn
  <2> QED
    BY <2>1, <2>3 DEF FlagPCs
<1>6. ASSUME NEW pc, At(t, pc), us'[s] = us[s], RestoredIn(us, s),
             pc \in {"iterate", "value_save"} \cup FlagPCs
      PROVE  /\ \A q \in 1..(r - 1) : RestoredIn(us', q)
             /\ th'[t].pc \notin {"check_value", "value_rt"}
             /\ RestoredIn(us', r)
  <2>1. r = s /\ th'[t].pc = pc
    BY <1>6 DEF At
  <2>2. RestoredIn(us', s)
    BY <1>6 DEF RestoredIn
  <2> QED
    BY <1>3, <1>6, <2>1, <2>2 DEF FlagPCs
<1>7. CASE CheckRestore(t)
  <2>0. us' = us
    BY <1>7 DEF CheckRestore
  <2>1. CASE ~IsSet(s) /\ Return(t, "ok")
    BY <1>0, <1>6, <2>0, <2>1, LoopReturn DEF RestoredIn, IsSet
  <2>2. CASE th' = [th EXCEPT ![t].pc = "check_value",
                              ![t].d = us[th[t].s].default]
    <3>1. /\ th'[t].pc = "check_value" /\ th'[t].d = us[s].default /\ r = s
      BY <1>0, <2>2 DEF TypeOK, Thread
    <3> QED
      BY <1>3, <2>0, <3>1 DEF FlagPCs
  <2> QED
    BY <1>7, <2>1, <2>2 DEF CheckRestore
<1>8. CASE CheckValue(t)
  <2>0. us' = us /\ th[t].d = us[s].default /\ s \in Settings
    BY <1>0, <1>1, <1>8 DEF CheckValue, Shape, ValuePCs
  <2>1. FitsIn(s, th[t].d)
    BY <2>0 DEF LoopInv, RamFits
  <2>2. CASE SameValue(s, th[t].d) /\ Return(t, "ok")
    <3>1. RestoredIn(us, s)
      BY <2>0, <2>2 DEF SameValue, RestoredIn
    <3> QED
      BY <1>0, <1>6, <2>0, <2>2, <3>1, LoopReturn
  <2>3. CASE ~Accepts(s, th[t].d) /\ Return(t, "EINVAL")
    <3>1. RestoredIn(us, s)
      BY <2>0, <2>3 DEF RestoredIn, Accepts
    <3> QED
      BY <1>0, <1>6, <2>0, <2>3, <3>1, LoopReturn
  <2>4. CASE Goto(t, "value_rt")
    <3>1. At(t, "value_rt")
      BY <1>0, <2>4, FromGoto
    <3> QED
      BY <1>3, <2>0, <3>1 DEF At, FlagPCs
  <2> QED
    BY <1>8, <2>1, <2>2, <2>3, <2>4 DEF CheckValue
<1>9. CASE ValueSetCb(t)
  <2>0. th[t].d = us[s].default /\ s \in Settings /\ us[s] \in Setting
    BY <1>0, <1>1, <1>9 DEF ValueSetCb, Shape, ValuePCs, TypeOK
  <2>1. CASE th[t].d = Empty
    <3>1. ~us[s].defaultIsSet
      BY <2>0, <2>1 DEF Before, Inv, DataFits
    <3>2. At(t, "value_save") /\ us' = us
      BY <1>0, <1>9, <2>1, FromGoto DEF ValueSetCb
    <3> QED
      BY <1>6, <3>1, <3>2 DEF RestoredIn, IsSet
  <2>2. CASE th[t].d # Empty
    <3>1. At(t, "value_cb")
      BY <1>0, <1>9, <2>2, FromGoto DEF ValueSetCb
    <3>2. us'[s] = [us[s] EXCEPT !.data = th[t].d, !.isSet = TRUE]
      BY <1>0, <1>9, <2>0, <2>2, RamEffect
    <3>3. us'[s].data = us[s].default /\ us'[s].default = us[s].default
      BY <2>0, <3>2 DEF Setting
    <3> QED
      BY <1>3, <3>1, <3>3 DEF At, RestoredIn, FlagPCs
  <2> QED
    BY <2>1, <2>2
<1>10. CASE Notify(t) \/ SaveValue(t) \/ CheckFlag(t) \/ SaveFlag(t)
  <2>0. us' = us /\ s \in Settings /\ RestoredIn(us, s)
    BY <1>0, <1>1, <1>10, CountAssumption
       DEF Notify, SaveValue, CheckFlag, SaveFlag, Shape, ValuePCs, FlagPCs,
           Settings
  <2>1. \E pc \in {"iterate", "value_save"} \cup FlagPCs : At(t, pc)
    BY <1>0, <1>10, FromGoto, LoopReturn
       DEF Notify, SaveValue, CheckFlag, SaveFlag, FlagPCs
  <2> QED
    BY <1>6, <2>0, <2>1
<1>11. CASE FlagSetCb(t)
  <2>0. s \in Settings /\ RestoredIn(us, s) /\ us[s] \in Setting
    BY <1>0, <1>1, <1>11, CountAssumption
       DEF FlagSetCb, Shape, FlagPCs, Settings, TypeOK
  <2>1. At(t, "flag_save")
    BY <1>0, <1>11, FromGoto DEF FlagSetCb
  <2>2. us'[s] = [us[s] EXCEPT !.changed = Flag(t)]
    BY <1>0, <1>11, <2>0, RamEffect
  <2>3. /\ us'[s].data = us[s].data /\ us'[s].isSet = us[s].isSet
        /\ us'[s].default = us[s].default
        /\ us'[s].defaultIsSet = us[s].defaultIsSet
        /\ us'[s].validate = us[s].validate
    BY <2>0, <2>2 DEF Setting
  <2>4. RestoredIn(us', s)
    BY <2>0, <2>3 DEF RestoredIn
  <2> QED
    BY <1>3, <2>1, <2>4 DEF At, FlagPCs
<1>12. \/ Iterate(t) \/ CheckRestore(t) \/ CheckValue(t) \/ ValueSetCb(t)
       \/ Notify(t) \/ SaveValue(t) \/ CheckFlag(t) \/ SaveFlag(t)
       \/ FlagSetCb(t)
  BY <1>0 DEF Step, CheckDefault, DefaultSetCb, SaveDefault, LoadDefault,
              LoadValue, LoadChanged, Shape, DefaultPCs, LoadPCs
<1> QED
  BY <1>5, <1>7, <1>8, <1>9, <1>10, <1>11, <1>12

\* clear_all: the flags of the elements it has dealt with are clear.
LEMMA ClearProgress ==
    ASSUME Before, LoopInv, NEW t \in Threads, Step(t),
           th[t].op = "clear_all", th'[t].op = "clear_all"
    PROVE  Progress(t)'
<1> DEFINE s == th[t].s
           r == th'[t].s
<1>0. /\ TypeOK /\ ThreadShape /\ ~Flag(t)
      /\ th[t] \in Thread /\ Shape(th[t]) /\ th[t].op \in Loops
  BY DEF Before, Inv, ThreadShape, InProgress, Loops, Flag, Setters
<1>1. /\ \A q \in 1..(s - 1) : ~us[q].changed
      /\ th[t].pc \in {"iterate", "flag_save"} => s = 0 \/ ~us[s].changed
  BY DEF LoopInv, Progress
<1>2. \A q \in 1..(s - 1) : q \in Settings /\ q # s
  BY <1>0, CountAssumption DEF Thread, Settings
<1>3. \A q \in 1..(s - 1) : ~us'[q].changed
  BY <1>0, <1>1, <1>2, LoopElsewhere
<1>4. SUFFICES
        /\ \A q \in 1..(r - 1) : ~us'[q].changed
        /\ th'[t].pc \in {"iterate", "flag_save"} => r = 0 \/ ~us'[r].changed
  BY DEF Progress
<1>5. CASE Iterate(t)
  <2>1. r = s + 1 /\ th'[t].pc = "check_flag" /\ us' = us
    BY <1>0, <1>5, LoopIterate, NextType DEF Next, ThreadShape, InProgress, Shape
  <2>2. s = 0 \/ ~us[s].changed
    BY <1>1, <1>5 DEF Iterate
  <2>3. \A q \in 1..(r - 1) : q \in 1..(s - 1) \/ (q = s /\ s # 0)
    BY <1>0, <2>1 DEF Thread
  <2> QED
    BY <1>3, <2>1, <2>2, <2>3
<1>6. CASE CheckFlag(t)
  <2>1. us' = us /\ us[s].changed \in BOOLEAN
    BY <1>0, <1>6 DEF CheckFlag, TypeOK, Setting, Shape, FlagPCs
  <2>2. \/ At(t, "iterate") /\ ~us[s].changed
        \/ At(t, "flag_rt")
    BY <1>0, <1>6, FromGoto, LoopReturn DEF CheckFlag
  <2> QED
    BY <1>3, <2>1, <2>2 DEF At
<1>7. CASE FlagSetCb(t)
  <2>0. s \in Settings /\ us[s] \in Setting
    BY <1>0, <1>7 DEF FlagSetCb, Shape, FlagPCs, TypeOK
  <2>1. At(t, "flag_save")
    BY <1>0, <1>7, FromGoto DEF FlagSetCb
  <2>2. us'[s] = [us[s] EXCEPT !.changed = Flag(t)]
    BY <1>0, <1>7, <2>0, RamEffect
  <2>3. us'[s].changed = Flag(t)
    BY <2>0, <2>2 DEF Setting
  <2> QED
    BY <1>0, <1>3, <2>1, <2>3 DEF At
<1>8. CASE SaveFlag(t)
  <2>1. At(t, "iterate") /\ us' = us
    BY <1>0, <1>8, LoopReturn DEF SaveFlag
  <2> QED
    BY <1>1, <1>3, <1>8, <2>1 DEF SaveFlag, At
<1>9. Iterate(t) \/ CheckFlag(t) \/ FlagSetCb(t) \/ SaveFlag(t)
  BY <1>0 DEF Step, CheckRestore, CheckValue, ValueSetCb, Notify, SaveValue,
              CheckDefault, DefaultSetCb, SaveDefault, LoadDefault, LoadValue,
              LoadChanged, Shape, ValuePCs, DefaultPCs, LoadPCs, Setters
<1> QED
  BY <1>5, <1>6, <1>7, <1>8, <1>9

\* A loop starts before the first element.
LEMMA LoopBegins ==
    ASSUME TypeOK, NEW t \in Threads, Begin(t), th'[t].op \in Loops
    PROVE  th'[t].s = 0 /\ th'[t].pc = "iterate"
<1>1. ASSUME NEW op, NEW pc, NEW s, NEW d, NEW S, Call(t, op, pc, s, d, S)
      PROVE  th'[t].pc = pc /\ th'[t].op = op /\ th'[t].s = s
  BY <1>1 DEF Call, TypeOK
<1>2. CASE RestoreAll(t) \/ ClearAll(t)
  BY <1>1, <1>2 DEF RestoreAll, ClearAll, ApiCall
<1>3. CASE ~RestoreAll(t) /\ ~ClearAll(t)
  <2>1. PICK op, pc, s, d, S :
          op \in Ops \ Loops /\ Call(t, op, pc, s, d, S)
    BY <1>3 DEF Begin, Set, SetDefault, Restore, Mark, Clear, Load, ApiCall,
                Ops, Setters, Marks, Loops
  <2> QED
    BY <1>1, <2>1
<1> QED
  BY <1>2, <1>3

LEMMA LoopNext ==
    ASSUME Before, LoopInv, [Next]_vars
    PROVE  LoopInv'
<1>0. TypeOK /\ ThreadShape
  BY DEF Before, Inv
<1>1. \A s \in Settings : RamFits(s)'
  BY FitsStay DEF LoopInv
<1>2. ASSUME NEW t \in Threads PROVE Progress(t)'
  <2>1. CASE th'[t].op \notin Loops
    BY <2>1 DEF Progress, Loops
  <2>2. CASE Begin(t) /\ th'[t].op \in Loops
    <3>1. th'[t].s = 0 /\ th'[t].pc = "iterate"
      BY <1>0, <2>2, LoopBegins
    <3> QED
      BY <3>1 DEF Progress
  <2>3. CASE Step(t) /\ th'[t].op \in Loops
    <3>1. th'[t].op = th[t].op
      BY <1>0, <2>3, OpStays DEF Loops
    <3> QED
      BY <2>3, <3>1, RestoreProgress, ClearProgress DEF Loops
  <2>4. CASE /\ th'[t].op \in Loops
             /\ \/ \E u \in Threads \ {t} : Begin(u) \/ Step(u)
                \/ Register
                \/ UNCHANGED vars
    <3>1. th'[t] = th[t]
      BY <1>0, <2>4, OthersStay
         DEF Register, SetGlobalOnChangeCb, SetOnChangeCb, SetValidateCb,
             observers, vars
    <3>2. \A s \in Settings : us'[s] = us[s]
      <4>1. CASE UNCHANGED vars
        BY <4>1 DEF vars
      <4> QED
        BY <2>4, <3>1, <4>1, LoopSettingsStay
    <3>3. th[t] \in Thread /\ Shape(th[t]) /\ Progress(t)
      BY <1>0 DEF ThreadShape, InProgress, LoopInv
    <3>4. \A s \in 1..(th[t].s - 1) : s \in Settings
      BY <3>3, CountAssumption DEF Thread, Settings
    <3>5. th[t].s = 0 \/ th[t].s \in Settings
      BY <3>3, CountAssumption DEF Thread, Settings
    <3>6. th[t].pc \in {"check_value", "value_rt"} => th[t].s \in Settings
      BY <3>3 DEF Shape, ValuePCs
    <3>7. ASSUME th[t].op = "restore_all" PROVE Progress(t)'
      BY <3>1, <3>2, <3>3, <3>4, <3>5, <3>6, <3>7
         DEF Progress, Restored, IsSet, HasDefault, Accepts
    <3>8. ASSUME th[t].op = "clear_all" PROVE Progress(t)'
      BY <3>1, <3>2, <3>3, <3>4, <3>5, <3>8 DEF Progress
    <3> QED
      BY <2>4, <3>1, <3>7, <3>8 DEF Loops
  <2>5. CASE Crash
    BY <2>5 DEF Crash, Resting, Progress
  <2> QED
    BY <2>1, <2>2, <2>3, <2>4, <2>5 DEF Next
<1> QED
  BY <1>1, <1>2 DEF LoopInv

\* A thread returns by a step of its own.
LEMMA OwnReturn ==
    ASSUME TypeOK, ThreadShape, [Next]_vars, NEW t \in Threads, Returns(t)
    PROVE  Step(t)
<1>1. th'[t] # th[t]
  BY DEF Returns
<1>2. ~Register /\ ~UNCHANGED vars
  BY <1>1 DEF Register, SetGlobalOnChangeCb, SetOnChangeCb, SetValidateCb,
              observers, vars
<1>3. ~Crash
  BY DEF Crash, Returns
<1>4. ~Begin(t)
  BY DEF Returns, Begin, Set, SetDefault, Restore, RestoreAll, Mark, Clear,
         ClearAll, Load, ApiCall, Call
<1> QED
  BY <1>1, <1>2, <1>3, <1>4, OthersStay DEF Next

\* A loop that returns has come to the end of the list.
LEMMA LoopEnds ==
    ASSUME Before, LoopInv, [Next]_vars, NEW t \in Threads, Returns(t)
    PROVE  /\ th[t].op = "restore_all" => \A s \in Settings :
                 IsSet(s) /\ HasDefault(s) /\ Accepts(s, us[s].default)
                     => us'[s].data = us[s].default
           /\ th[t].op = "clear_all" => ~AnyChanged'
<1> SUFFICES ASSUME th[t].op \in Loops
             PROVE  /\ us' = us /\ th[t].s = N /\ th[t].pc = "iterate"
  <2>1. ASSUME us' = us, th[t].s = N, th[t].pc = "iterate",
               NEW s \in Settings
        PROVE  /\ th[t].op = "restore_all" => Restored(s)
               /\ th[t].op = "clear_all" => ~us[s].changed
    <3>1. Progress(t)
      BY DEF LoopInv
    <3>2. s = N \/ s \in 1..(N - 1)
      BY CountAssumption DEF Settings
    <3> QED
      BY <2>1, <3>1, <3>2, CountAssumption DEF Progress, Settings
  <2> QED
    BY <2>1 DEF Loops, Restored, AnyChanged
<1>0. TypeOK /\ ThreadShape
  BY DEF Before, Inv
<1>1. Step(t)
  BY <1>0, OwnReturn
<1>2. \A pc : At(t, pc) => pc = "idle"
  BY DEF At, Returns
<1>3. \A pc : Goto(t, pc) => pc = "idle"
  BY <1>0, <1>2, FromGoto
<1>4. \A r : ~Return(t, r)
  BY <1>0, <1>2, LoopReturn
<1>5. ~CheckRestore(t)
  <2>1. th' # [th EXCEPT ![t].pc = "check_value",
                         ![t].d = us[th[t].s].default]
    BY <1>0 DEF Returns, TypeOK, Thread
  <2> QED
    BY <1>4, <2>1 DEF CheckRestore
<1>6. Iterate(t)
  BY <1>1, <1>3, <1>4, <1>5
     DEF Step, CheckValue, ValueSetCb, Notify, SaveValue, CheckFlag, FlagSetCb,
         SaveFlag, CheckDefault, DefaultSetCb, SaveDefault, LoadDefault,
         LoadValue, LoadChanged, Subtree
<1>7. us' = us /\ th[t].s = N
  <2>1. th'[t].pc # "check_restore" /\ th'[t].pc # "check_flag"
    BY DEF Returns
  <2> QED
    BY <1>0, <1>6, <2>1, LoopIterate
<1> QED
  BY <1>6, <1>7 DEF Iterate

LEMMA InitLoop == Init => LoopInv
<1> SUFFICES ASSUME Init PROVE LoopInv
  OBVIOUS
<1>1. ASSUME NEW s \in Settings PROVE RamFits(s)
  BY DEF Init, Blank, RamFits, FitsIn
<1>2. ASSUME NEW t \in Threads PROVE Progress(t)
  BY DEF Init, Resting, Progress
<1> QED
  BY <1>1, <1>2 DEF LoopInv

\* When restore_defaults returns every setting it could restore is at its
\* default, and when clear_changed returns no flag is set: whatever fails on the
\* way, for a list of any length, as long as no other call overlaps the loop.
THEOREM LoopsComplete ==
    ASSUME Serialized
    PROVE  Spec => LoopsAreComplete
<1>1. Init => TypeOK /\ Inv /\ LoopInv
  BY InitType, InitInv, InitLoop
<1>2. TypeOK /\ Inv /\ LoopInv /\ [Next]_vars => TypeOK' /\ Inv' /\ LoopInv'
  BY NextType, NextInv, LoopNext DEF Before, Inv
<1>3. TypeOK /\ Inv /\ LoopInv /\ [Next]_vars
          => [\A t \in Threads : Returns(t) =>
                /\ th[t].op = "restore_all" => \A s \in Settings :
                       IsSet(s) /\ HasDefault(s) /\ Accepts(s, us[s].default)
                           => us'[s].data = us[s].default
                /\ th[t].op = "clear_all" => ~AnyChanged']_vars
  BY LoopEnds DEF Before
<1> QED
  BY <1>1, <1>2, <1>3, PTL DEF Spec, LoopsAreComplete

=============================================================================
