------------------------ MODULE UserSettings_proofs -------------------------
(***************************************************************************)
(* Proofs about UserSettings for any number of settings and threads, any   *)
(* payloads, any validation callbacks and any faults.                      *)
(***************************************************************************)
EXTENDS UserSettingsInv, TLAPS

-----------------------------------------------------------------------------
(* Threads.  Every step leaves each thread at a step of its own function.  *)

\* The next step of a call.
LEMMA GotoShape ==
    ASSUME ThreadShape, NEW t \in Threads, NEW pc \in PCs, Goto(t, pc),
           Shape([th[t] EXCEPT !.pc = pc])
    PROVE  ThreadShape'
BY DEF ThreadShape, InProgress, Goto, Thread

LEMMA RestingShape ==
    ASSUME NEW r \in Results PROVE Resting(r) \in InProgress
BY CountAssumption
   DEF Resting, InProgress, Shape, Thread, PCs, Ops, Payload, ValuePCs,
       FlagPCs, DefaultPCs, LoadPCs

\* The end of a call, or of one round of a loop.
LEMMA ReturnShape ==
    ASSUME ThreadShape, NEW t \in Threads, NEW r \in Results, Return(t, r)
    PROVE  ThreadShape'
<1>1. CASE th[t].op \in Loops
  <2>1. [th[t] EXCEPT !.pc = "iterate"] \in InProgress
    BY <1>1 DEF ThreadShape, InProgress, Shape, Thread, PCs, ValuePCs,
                FlagPCs, DefaultPCs, LoadPCs, Loops
  <2> QED
    BY <1>1, <2>1 DEF Return, ThreadShape
<1>2. CASE th[t].op \notin Loops
  BY <1>2, RestingShape DEF Return, ThreadShape, Results
<1> QED
  BY <1>1, <1>2

\* The start of a call.
LEMMA CallShape ==
    ASSUME ThreadShape, NEW t \in Threads, NEW op \in Ops, NEW pc \in PCs,
           NEW s \in 0..N, NEW d \in Payload, NEW S,
           Call(t, op, pc, s, d, S),
           Shape([pc |-> pc, op |-> op, s |-> s, d |-> d, ret |-> "none"])
    PROVE  ThreadShape'
BY DEF Call, ThreadShape, InProgress, Thread, Results

\* A new call is well formed: its payload is one of the application's inputs.
LEMMA BeginShape ==
    ASSUME ThreadShape, NEW t \in Threads, Begin(t)
    PROVE  ThreadShape' /\ UNCHANGED <<us, isLoaded, globalCb, nvs, observers>>
<1> USE DEF Shape, ValuePCs, FlagPCs, DefaultPCs, LoadPCs, PCs, Ops, Setters,
            Marks, Loops
<1>1. CASE \E s \in Settings, d \in Inputs : Set(t, s, d) \/ SetDefault(t, s, d)
  <2>1. PICK s \in Settings, d \in Inputs : Set(t, s, d) \/ SetDefault(t, s, d)
    BY <1>1
  <2>2. s \in 0..N /\ d \in Payload
    BY PayloadAssumption, CountAssumption DEF Settings
  <2>3. ThreadShape'
    BY <2>1, <2>2, CallShape DEF Set, SetDefault, ApiCall
  <2> QED
    BY <2>1, <2>3 DEF Set, SetDefault, ApiCall, Call
<1>2. CASE \E s \in Settings : Restore(t, s) \/ Mark(t, s) \/ Clear(t, s)
  <2>1. PICK s \in Settings : Restore(t, s) \/ Mark(t, s) \/ Clear(t, s)
    BY <1>2
  <2>2. s \in 0..N /\ Empty \in Payload
    BY CountAssumption DEF Settings, Payload
  <2>3. ThreadShape'
    BY <2>1, <2>2, CallShape DEF Restore, Mark, Clear, ApiCall
  <2> QED
    BY <2>1, <2>3 DEF Restore, Mark, Clear, ApiCall, Call
<1>3. CASE RestoreAll(t) \/ ClearAll(t) \/ Load(t)
  <2>1. 0 \in 0..N /\ Empty \in Payload
    BY CountAssumption DEF Payload
  <2>2. ThreadShape'
    BY <1>3, <2>1, CallShape DEF RestoreAll, ClearAll, Load, ApiCall
  <2> QED
    BY <1>3, <2>2 DEF RestoreAll, ClearAll, Load, ApiCall, Call
<1> QED
  BY <1>1, <1>2, <1>3 DEF Begin

\* The checks move the thread on or end its call, and touch nothing else.
Checks(t) == CheckRestore(t) \/ Iterate(t) \/ CheckValue(t) \/ CheckFlag(t)
                 \/ CheckDefault(t)

LEMMA CheckShape ==
    ASSUME TypeOK, ThreadShape, NEW t \in Threads, Checks(t)
    PROVE  ThreadShape' /\ UNCHANGED <<us, isLoaded, globalCb, nvs, observers>>
<1> USE DEF Shape, ValuePCs, FlagPCs, DefaultPCs, LoadPCs
<1>0. UNCHANGED <<us, isLoaded, globalCb, nvs, observers>>
  BY DEF Checks, CheckRestore, Iterate, CheckValue, CheckFlag, CheckDefault
<1> SUFFICES ThreadShape'
  BY <1>0
<1>1. th[t] \in Thread /\ Shape(th[t])
  BY DEF ThreadShape, InProgress
<1>2. CASE CheckRestore(t)
  <2>1. CASE Return(t, "ok")
    BY <2>1, ReturnShape DEF Results
  <2>2. CASE /\ th[t].pc = "check_restore"
             /\ th' = [th EXCEPT ![t].pc = "check_value",
                                 ![t].d = us[th[t].s].default]
    <3>1. th[t].s \in Settings /\ us[th[t].s].default \in Payload
      BY <1>1, <2>2 DEF TypeOK, Setting
    <3> QED
      BY <1>1, <2>2, <3>1 DEF ThreadShape, InProgress, Thread, PCs, Setters
  <2> QED
    BY <1>2, <2>1, <2>2 DEF CheckRestore
<1>3. CASE Iterate(t)
  <2>1. CASE th' = [th EXCEPT ![t] = Resting("ok")]
    BY <2>1, RestingShape DEF Results, ThreadShape
  <2>2. CASE /\ ~AtEnd(t)
             /\ th[t].pc = "iterate"
             /\ th' = [th EXCEPT
                        ![t].s = NextElement(t),
                        ![t].pc = IF th[t].op = "restore_all"
                                  THEN "check_restore" ELSE "check_flag"]
    <3>1. NextElement(t) \in Settings
      BY <1>1, <2>2, CountAssumption
         DEF AtEnd, NextElement, Settings, Thread
    <3>2. th[t].op \in Loops
      BY <1>1, <2>2
    <3> QED
      BY <1>1, <2>2, <3>1, <3>2, CountAssumption
         DEF ThreadShape, InProgress, Thread, PCs, Loops, Setters, Marks,
             Settings
  <2> QED
    BY <1>3, <2>1, <2>2 DEF Iterate
<1>4. CASE CheckValue(t)
  BY <1>1, <1>4, GotoShape, ReturnShape DEF CheckValue, Thread, PCs, Results
<1>5. CASE CheckFlag(t)
  BY <1>1, <1>5, GotoShape, ReturnShape DEF CheckFlag, Thread, PCs, Results
<1>6. CASE CheckDefault(t)
  BY <1>1, <1>6, GotoShape, ReturnShape DEF CheckDefault, Thread, PCs, Results
<1> QED
  BY <1>2, <1>3, <1>4, <1>5, <1>6 DEF Checks

\* So do the steps that write RAM or flash.
Writes(t) == ValueSetCb(t) \/ Notify(t) \/ SaveValue(t) \/ FlagSetCb(t)
                 \/ SaveFlag(t) \/ DefaultSetCb(t) \/ SaveDefault(t)

LEMMA WriteShape ==
    ASSUME ThreadShape, NEW t \in Threads, Writes(t)
    PROVE  ThreadShape' /\ th[t].s \in Settings
<1> USE DEF Shape, ValuePCs, FlagPCs, DefaultPCs, LoadPCs, Thread, PCs, Results
<1>1. th[t] \in Thread /\ Shape(th[t])
  BY DEF ThreadShape, InProgress
<1>2. CASE ValueSetCb(t)
  BY <1>1, <1>2, GotoShape DEF ValueSetCb
<1>3. CASE Notify(t)
  BY <1>1, <1>3, GotoShape DEF Notify
<1>4. CASE SaveValue(t)
  <2>1. th[t].op \in Setters /\ th[t].s \in Settings
    BY <1>1, <1>4 DEF SaveValue
  <2> QED
    BY <1>1, <1>4, <2>1, GotoShape, ReturnShape DEF SaveValue, Setters
<1>5. CASE FlagSetCb(t)
  BY <1>1, <1>5, GotoShape DEF FlagSetCb
<1>6. CASE SaveFlag(t)
  BY <1>1, <1>6, ReturnShape DEF SaveFlag
<1>7. CASE DefaultSetCb(t)
  BY <1>1, <1>7, GotoShape DEF DefaultSetCb
<1>8. CASE SaveDefault(t)
  BY <1>1, <1>8, ReturnShape DEF SaveDefault
<1> QED
  BY <1>2, <1>3, <1>4, <1>5, <1>6, <1>7, <1>8 DEF Writes

Loads(t) == LoadDefault(t) \/ LoadValue(t) \/ LoadChanged(t)

LEMMA LoadShape ==
    ASSUME ThreadShape, NEW t \in Threads, Loads(t)
    PROVE  ThreadShape'
<1> USE DEF Shape, ValuePCs, FlagPCs, DefaultPCs, LoadPCs, Thread, PCs, Results
<1>1. th[t] \in Thread /\ Shape(th[t])
  BY DEF ThreadShape, InProgress
<1>2. CASE LoadDefault(t)
  BY <1>1, <1>2, GotoShape, ReturnShape DEF LoadDefault, Subtree
<1>3. CASE LoadValue(t)
  BY <1>1, <1>3, GotoShape, ReturnShape DEF LoadValue, Subtree
<1>4. CASE LoadChanged(t)
  BY <1>1, <1>4, ReturnShape DEF LoadChanged
<1> QED
  BY <1>2, <1>3, <1>4 DEF Loads

-----------------------------------------------------------------------------
(* Type correctness *)

LEMMA InitType == Init => TypeOK /\ ThreadShape
<1> SUFFICES ASSUME Init PROVE TypeOK /\ ThreadShape
  OBVIOUS
<1>1. Blank \in Setting
  BY DEF Blank, Setting, Payload
<1>2. us \in [Settings -> Setting]
  BY <1>1 DEF Init
<1>3. ThreadShape
  BY RestingShape DEF Init, Results, ThreadShape
<1>4. /\ nvs \in [Areas -> [Settings -> Payload \cup BOOLEAN \cup {NULL}]]
      /\ \A a \in Areas, s \in Settings : nvs[a][s] \in Entry(a)
  BY DEF Init, Entry
<1>5. base \in [Settings -> Payload]
  BY DEF Init, Payload
<1>6. shown \in [Kinds -> [Settings -> SUBSET (Payload \cup {NULL})]]
  BY DEF Init
<1> QED
  BY <1>2, <1>3, <1>4, <1>5, <1>6 DEF Init, TypeOK, ThreadShape, InProgress

\* What a step stores in flash and notes of it.
LEMMA SaveType ==
    ASSUME TypeOK, NEW a \in Areas, NEW s \in Settings, NEW x \in Entry(a),
           SaveOk(a, s, x) \/ SaveFails(a, s, x)
    PROVE  /\ nvs' \in [Areas -> [Settings -> Payload \cup BOOLEAN \cup {NULL}]]
           /\ \A b \in Areas, r \in Settings : nvs'[b][r] \in Entry(b)
           /\ diverged' \in SUBSET (Areas \X Settings)
<1>1. nvs[a] \in [Settings -> Payload \cup BOOLEAN \cup {NULL}]
  BY DEF TypeOK
<1>2. x \in Payload \cup BOOLEAN \cup {NULL}
  BY DEF Entry
<1>3. CASE nvs' = [nvs EXCEPT ![a][s] = x]
  <2>1. [nvs[a] EXCEPT ![s] = x]
            \in [Settings -> Payload \cup BOOLEAN \cup {NULL}]
    BY <1>1, <1>2
  <2>2. nvs' \in [Areas -> [Settings -> Payload \cup BOOLEAN \cup {NULL}]]
    BY <1>3, <2>1 DEF TypeOK
  <2>3. \A b \in Areas, r \in Settings :
            nvs'[b][r] = IF b = a /\ r = s THEN x ELSE nvs[b][r]
    BY <1>1, <1>3 DEF TypeOK
  <2> QED
    BY <1>3, <2>2, <2>3 DEF TypeOK, SaveOk, SaveFails
<1>4. CASE UNCHANGED nvs
  BY <1>4 DEF TypeOK, SaveOk, SaveFails
<1> QED
  BY <1>3, <1>4 DEF SaveOk, SaveFails

\* What get returns.
LEMMA GetType == \A r \in Setting : GetFrom(r) \in Payload \cup {NULL}
BY DEF GetFrom, Setting

LEMMA WriteType ==
    ASSUME TypeOK, ThreadShape, NEW t \in Threads, Writes(t)
    PROVE  TypeOK'
<1>1. th' \in [Threads -> Thread] /\ th[t].s \in Settings
  BY WriteShape DEF ThreadShape, InProgress
<1>2. th[t].d \in Payload /\ us[th[t].s] \in Setting
  BY <1>1 DEF TypeOK, Thread
<1>3. CASE ValueSetCb(t)
  <2>1. CASE us' = us
    BY <1>1, <1>3, <2>1 DEF ValueSetCb, TypeOK, observers
  <2>2. CASE us' = [us EXCEPT ![th[t].s].data = th[t].d,
                              ![th[t].s].isSet = TRUE]
    <3>1. us' \in [Settings -> Setting]
      BY <1>1, <1>2, <2>2 DEF TypeOK, Setting
    <3> QED
      BY <1>1, <1>3, <3>1 DEF ValueSetCb, TypeOK, observers
  <2> QED
    BY <1>3, <2>1, <2>2 DEF ValueSetCb
<1>4. CASE Notify(t)
  <2>1. shown' \in [Kinds -> [Settings -> SUBSET (Payload \cup {NULL})]]
    BY <1>4, GetType DEF Notify, Notified, TypeOK
  <2> QED
    BY <1>1, <1>4, <2>1 DEF Notify, TypeOK
<1>5. CASE SaveValue(t)
  <2>1. "value" \in Areas /\ Stored(th[t].d) \in Entry("value")
    BY <1>2 DEF Stored, Areas, Entry
  <2> QED
    BY <1>1, <1>5, <2>1, SaveType DEF SaveValue, TypeOK
<1>6. CASE FlagSetCb(t)
  <2>1. Flag(t) \in BOOLEAN
    BY DEF Flag
  <2> QED
    BY <1>1, <1>2, <1>6, <2>1 DEF FlagSetCb, TypeOK, Setting
<1>7. CASE SaveFlag(t)
  <2>1. "changed" \in Areas /\ Flag(t) \in Entry("changed")
    BY DEF Flag, Areas, Entry
  <2> QED
    BY <1>1, <1>7, <2>1, SaveType DEF SaveFlag, TypeOK
<1>8. CASE DefaultSetCb(t)
  BY <1>1, <1>2, <1>8 DEF DefaultSetCb, TypeOK, Setting, observers
<1>9. CASE SaveDefault(t)
  <2>1. "default" \in Areas /\ Stored(th[t].d) \in Entry("default")
    BY <1>2 DEF Stored, Areas, Entry
  <2> QED
    BY <1>1, <1>9, <2>1, SaveType DEF SaveDefault, TypeOK
<1> QED
  BY <1>3, <1>4, <1>5, <1>6, <1>7, <1>8, <1>9 DEF Writes

\* What a handler reads is of the type of the field it goes to.
LEMMA ReadableType ==
    ASSUME TypeOK, NEW a \in Areas, NEW S \in SUBSET Settings,
           NEW s \in Readable(a, S)
    PROVE  /\ s \in Settings
           /\ a = "changed" => nvs[a][s] \in BOOLEAN
           /\ a # "changed" => nvs[a][s] \in Payload /\ FitsIn(s, nvs[a][s])
BY DEF Readable, TypeOK, Entry

LEMMA LoadType ==
    ASSUME TypeOK, ThreadShape, NEW t \in Threads, Loads(t)
    PROVE  TypeOK'
<1>1. th' \in [Threads -> Thread]
  BY LoadShape DEF ThreadShape, InProgress
<1>2. \A s \in Settings : us[s] \in Setting
  BY DEF TypeOK
<1>3. CASE LoadDefault(t)
  <2>1. PICK S \in SUBSET Settings :
          /\ Subtree(t, "default", S, "load_value")
          /\ us' = [s \in Settings |->
                      IF s \in Readable("default", S)
                      THEN [us[s] EXCEPT !.default = nvs["default"][s],
                                         !.defaultIsSet = TRUE]
                      ELSE us[s]]
    BY <1>3 DEF LoadDefault
  <2>2. \A s \in Readable("default", S) : nvs["default"][s] \in Payload
    BY ReadableType DEF Areas
  <2>3. us' \in [Settings -> Setting]
    BY <1>2, <2>1, <2>2 DEF Setting
  <2> QED
    BY <1>1, <1>3, <2>1, <2>3 DEF LoadDefault, Subtree, TypeOK
<1>4. CASE LoadValue(t)
  <2>1. PICK S \in SUBSET Settings :
          /\ Subtree(t, "value", S, "load_changed")
          /\ us' = [s \in Settings |->
                      IF s \in Readable("value", S)
                      THEN [us[s] EXCEPT !.data = nvs["value"][s],
                                         !.isSet = TRUE]
                      ELSE us[s]]
          /\ shown' = IF isLoaded THEN Notified(Readable("value", S), us')
                      ELSE shown
    BY <1>4 DEF LoadValue
  <2>2. \A s \in Readable("value", S) : nvs["value"][s] \in Payload
    BY ReadableType DEF Areas
  <2>3. us' \in [Settings -> Setting]
    BY <1>2, <2>1, <2>2 DEF Setting
  <2>4. shown' \in [Kinds -> [Settings -> SUBSET (Payload \cup {NULL})]]
    BY <2>1, <2>3, GetType DEF Notified, TypeOK
  <2> QED
    BY <1>1, <1>4, <2>1, <2>3, <2>4 DEF LoadValue, Subtree, TypeOK
<1>5. CASE LoadChanged(t)
  <2>1. PICK S \in SUBSET Settings :
          /\ us' = [s \in Settings |->
                      IF s \in Readable("changed", S)
                      THEN [us[s] EXCEPT !.changed = nvs["changed"][s]]
                      ELSE us[s]]
          /\ diverged' = diverged \ ({"changed"} \X Readable("changed", S))
          /\ isLoaded' = TRUE \/ UNCHANGED isLoaded
    BY <1>5 DEF LoadChanged
  <2>2. \A s \in Readable("changed", S) : nvs["changed"][s] \in BOOLEAN
    BY ReadableType DEF Areas
  <2>3. us' \in [Settings -> Setting]
    BY <1>2, <2>1, <2>2 DEF Setting
  <2> QED
    BY <1>1, <1>5, <2>1, <2>3 DEF LoadChanged, TypeOK
<1> QED
  BY <1>3, <1>4, <1>5 DEF Loads

\* Callbacks may be registered at any time.
LEMMA RegisterType ==
    ASSUME TypeOK, ThreadShape, Register
    PROVE  TypeOK' /\ ThreadShape'
<1>1. UNCHANGED <<th, nvs, diverged, base>>
  BY DEF Register, SetGlobalOnChangeCb, SetOnChangeCb, SetValidateCb, observers
<1>2. ThreadShape'
  BY <1>1 DEF ThreadShape
<1>3. \A on \in BOOLEAN, s \in Settings :
         FirstRead(on, s) \in SUBSET (Payload \cup {NULL})
  BY GetType DEF FirstRead, Get, TypeOK
<1>4. CASE \E on \in BOOLEAN : SetGlobalOnChangeCb(on)
  BY <1>1, <1>2, <1>3, <1>4 DEF SetGlobalOnChangeCb, TypeOK, Kinds
<1>5. CASE \E s \in Settings, on \in BOOLEAN : SetOnChangeCb(s, on)
  <2>1. PICK s \in Settings, on \in BOOLEAN : SetOnChangeCb(s, on)
    BY <1>5
  <2>2. us' \in [Settings -> Setting]
    BY <2>1 DEF SetOnChangeCb, TypeOK, Setting
  <2>3. shown["own"] \in [Settings -> SUBSET (Payload \cup {NULL})]
    BY DEF TypeOK, Kinds
  <2>4. [shown["own"] EXCEPT ![s] = FirstRead(on, s)]
            \in [Settings -> SUBSET (Payload \cup {NULL})]
    BY <1>3, <2>3
  <2>5. shown' \in [Kinds -> [Settings -> SUBSET (Payload \cup {NULL})]]
    BY <2>1, <2>4 DEF SetOnChangeCb, TypeOK
  <2> QED
    BY <1>1, <1>2, <2>1, <2>2, <2>5 DEF SetOnChangeCb, TypeOK
<1>6. CASE \E s \in Settings, v \in Validators : SetValidateCb(s, v)
  <2>1. PICK s \in Settings, v \in Validators : SetValidateCb(s, v)
    BY <1>6
  <2>2. us' \in [Settings -> Setting]
    BY <2>1, PayloadAssumption DEF SetValidateCb, TypeOK, Setting
  <2> QED
    BY <1>1, <1>2, <2>1, <2>2 DEF SetValidateCb, TypeOK, observers
<1> QED
  BY <1>2, <1>4, <1>5, <1>6 DEF Register

LEMMA CrashType ==
    ASSUME TypeOK, Crash
    PROVE  TypeOK' /\ ThreadShape'
<1>1. Blank \in Setting
  BY DEF Blank, Setting, Payload
<1>2. us' \in [Settings -> Setting]
  BY <1>1 DEF Crash
<1>3. ThreadShape'
  BY RestingShape DEF Crash, Results, ThreadShape
<1>4. shown' \in [Kinds -> [Settings -> SUBSET (Payload \cup {NULL})]]
  BY DEF Crash
<1> QED
  BY <1>2, <1>3, <1>4 DEF Crash, TypeOK, ThreadShape, InProgress

LEMMA NextType ==
    TypeOK /\ ThreadShape /\ [Next]_vars => TypeOK' /\ ThreadShape'
<1> SUFFICES ASSUME TypeOK, ThreadShape, [Next]_vars
             PROVE  TypeOK' /\ ThreadShape'
  OBVIOUS
<1>1. ASSUME NEW t \in Threads, Begin(t) \/ Checks(t)
      PROVE  TypeOK' /\ ThreadShape'
  BY <1>1, BeginShape, CheckShape
     DEF TypeOK, observers, ThreadShape, InProgress
<1>2. ASSUME NEW t \in Threads, Writes(t)
      PROVE  TypeOK' /\ ThreadShape'
  BY <1>2, WriteShape, WriteType
<1>3. ASSUME NEW t \in Threads, Loads(t)
      PROVE  TypeOK' /\ ThreadShape'
  BY <1>3, LoadShape, LoadType
<1>4. CASE UNCHANGED vars
  BY <1>4 DEF vars, TypeOK, ThreadShape
<1> QED
  BY <1>1, <1>2, <1>3, <1>4, RegisterType, CrashType
     DEF Next, Step, Checks, Writes, Loads

\* The library keeps every field of its settings and every call within its
\* type, whatever the application calls and the environment breaks.
THEOREM TypeCorrect == Spec => []TypeOK
<1>1. Spec => [](TypeOK /\ ThreadShape)
  BY InitType, NextType, PTL DEF Spec
<1> QED
  BY <1>1, PTL

-----------------------------------------------------------------------------
(* FlashAgrees, of an application that never overlaps two calls on one       *)
(* setting.  UserSettingsInv!Inv is the inductive invariant.                 *)

\* Everything a step may assume of the state it starts from.
Before == TypeOK /\ Inv /\ Serialized

LEMMA InitInv == Init => Inv
<1> SUFFICES ASSUME Init PROVE Inv
  OBVIOUS
<1>1. ThreadShape
  BY InitType
<1>2. ASSUME NEW t \in Threads PROVE Kept(t) /\ Claims(t) = {}
  BY DEF Init, Kept, Resting, Claims, Loops, Settings, LoadPCs
<1>3. ASSUME NEW s \in Settings PROVE DataFits(s)
  BY DEF Init, DataFits, Blank, Areas
<1>4. Disjoint
  BY <1>2 DEF Disjoint
<1>5. RamFromFlash
  BY DEF Init, RamFromFlash, Blank
<1>6. ~isLoaded /\ \A a \in Areas : ~HasRead(a)
  BY DEF Init, HasRead, Resting
<1> QED
  BY <1>1, <1>2, <1>3, <1>4, <1>5, <1>6 DEF Inv, Covered

-----------------------------------------------------------------------------
(* The discipline: a call has its settings to itself.                      *)

\* No other call is on a setting t has claimed, and none is a loop or a load.
LEMMA Alone ==
    ASSUME Disjoint, NEW t \in Threads, NEW u \in Threads \ {t},
           NEW s \in Settings, s \in Claims(t)
    PROVE  th[u].s # s /\ th[u].op \notin Loops \cup {"load"}
<1>1. Claims(t) \cap Claims(u) = {}
  BY DEF Disjoint
<1> QED
  BY <1>1 DEF Claims

\* A step of t changes no other thread, and t claims no more than before.
Narrows(t) ==
    /\ \A u \in Threads \ {t} : th'[u] = th[u]
    /\ Claims(t)' \subseteq Claims(t)

LEMMA GotoNarrows ==
    ASSUME ThreadShape, NEW t \in Threads, NEW pc, Goto(t, pc)
    PROVE  Narrows(t)
BY DEF ThreadShape, InProgress, Thread, Goto, Narrows, Claims

LEMMA RestingNarrows ==
    ASSUME ThreadShape, NEW t \in Threads, NEW r,
           th' = [th EXCEPT ![t] = Resting(r)]
    PROVE  Narrows(t) /\ th'[t].pc = "idle"
<1>1. th'[t] = Resting(r)
  BY DEF ThreadShape
<1>2. Claims(t)' = {}
  BY <1>1 DEF Claims, Resting, Loops, Settings
<1> QED
  BY <1>1, <1>2 DEF ThreadShape, Narrows, Resting

LEMMA ReturnNarrows ==
    ASSUME ThreadShape, NEW t \in Threads, NEW r, Return(t, r)
    PROVE  /\ Narrows(t)
           /\ \/ th'[t].pc = "idle"
              \/ th'[t].pc = "iterate" /\ th[t].op \in Loops
<1>1. CASE th[t].op \in Loops
  BY <1>1, GotoNarrows DEF Return, Goto, ThreadShape, InProgress, Thread
<1>2. CASE th[t].op \notin Loops
  BY <1>2, RestingNarrows DEF Return
<1> QED
  BY <1>1, <1>2

LEMMA DisjointStep ==
    ASSUME Disjoint, NEW t \in Threads, Narrows(t)
    PROVE  Disjoint'
<1>1. \A u \in Threads \ {t} : Claims(u)' = Claims(u)
  BY DEF Narrows, Claims
<1> QED
  BY <1>1 DEF Disjoint, Narrows

LEMMA CheckNarrows ==
    ASSUME ThreadShape, NEW t \in Threads, Checks(t)
    PROVE  Narrows(t)
<1>1. CASE CheckRestore(t)
  <2>1. CASE th' = [th EXCEPT ![t].pc = "check_value",
                              ![t].d = us[th[t].s].default]
    BY <2>1 DEF ThreadShape, InProgress, Thread, Narrows, Claims
  <2> QED
    BY <1>1, <2>1, ReturnNarrows DEF CheckRestore
<1>2. CASE Iterate(t)
  <2>1. CASE /\ th[t].pc = "iterate"
             /\ th' = [th EXCEPT
                        ![t].s = NextElement(t),
                        ![t].pc = IF th[t].op = "restore_all"
                                  THEN "check_restore" ELSE "check_flag"]
    <3>1. th[t].op \in Loops
      BY <2>1 DEF ThreadShape, InProgress, Shape
    <3> QED
      BY <2>1, <3>1 DEF ThreadShape, InProgress, Thread, Narrows, Claims
  <2> QED
    BY <1>2, <2>1, RestingNarrows DEF Iterate
<1>3. CASE CheckValue(t)
  BY <1>3, GotoNarrows, ReturnNarrows DEF CheckValue
<1>4. CASE CheckFlag(t)
  BY <1>4, GotoNarrows, ReturnNarrows DEF CheckFlag
<1>5. CASE CheckDefault(t)
  BY <1>5, GotoNarrows, ReturnNarrows DEF CheckDefault
<1> QED
  BY <1>1, <1>2, <1>3, <1>4, <1>5 DEF Checks

LEMMA WriteNarrows ==
    ASSUME ThreadShape, NEW t \in Threads, Writes(t)
    PROVE  Narrows(t)
<1>1. CASE ValueSetCb(t) \/ Notify(t) \/ FlagSetCb(t) \/ DefaultSetCb(t)
  BY <1>1, GotoNarrows DEF ValueSetCb, Notify, FlagSetCb, DefaultSetCb
<1>2. CASE SaveValue(t) \/ SaveFlag(t) \/ SaveDefault(t)
  BY <1>2, GotoNarrows, ReturnNarrows DEF SaveValue, SaveFlag, SaveDefault
<1> QED
  BY <1>1, <1>2 DEF Writes

LEMMA LoadNarrows ==
    ASSUME ThreadShape, NEW t \in Threads, Loads(t)
    PROVE  Narrows(t)
<1>1. CASE LoadDefault(t) \/ LoadValue(t)
  BY <1>1, GotoNarrows, ReturnNarrows DEF LoadDefault, LoadValue, Subtree
<1>2. CASE LoadChanged(t)
  BY <1>2, ReturnNarrows DEF LoadChanged
<1> QED
  BY <1>1, <1>2 DEF Loads

-----------------------------------------------------------------------------
(* Steps that write neither RAM nor flash: starting a call, and the checks *)

\* Such a step keeps the invariant if the thread that takes it has written
\* nothing yet and keeps what it has checked.
LEMMA QuietStep ==
    ASSUME Before, NEW t \in Threads, ThreadShape', Disjoint',
           \A u \in Threads \ {t} : th'[u] = th[u],
           \A a \in Areas : ~SavePending(th[t].pc, a),
           th'[t].pc \notin {"load_value", "load_changed"},
           Kept(t)',
           UNCHANGED <<us, isLoaded, nvs, diverged>>
    PROVE  Inv'
<1>1. ASSUME NEW u \in Threads PROVE Kept(u)'
  <2>1. CASE u # t
    BY <2>1 DEF Before, Inv, Kept, Flag
  <2> QED
    BY <2>1
<1>2. ASSUME NEW s \in Settings PROVE DataFits(s)'
  BY DEF Before, Inv, DataFits
<1>3. RamFromFlash'
  BY DEF Before, Inv, RamFromFlash
<1>4. ASSUME NEW a \in Areas, NEW s \in Settings PROVE Covered(a, s)'
  <2>1. HasRead(a)' => HasRead(a)
    BY DEF HasRead
  <2>2. \A u \in Threads : Ahead(u, a, s) => Ahead(u, a, s)'
    BY DEF Ahead
  <2>3. Agree(a, s)' = Agree(a, s)
    BY DEF Agree, IsSet, GetDefault
  <2> QED
    BY <2>1, <2>2, <2>3 DEF Before, Inv, Covered
<1> QED
  BY <1>1, <1>2, <1>3, <1>4 DEF Inv

LEMMA CallInv ==
    ASSUME Before, NEW t \in Threads, NEW op, NEW s, NEW d,
           NEW pc \in {"check_value", "check_flag", "check_default",
                       "check_restore", "iterate", "load_default"},
           NEW S \in SUBSET Settings, Call(t, op, pc, s, d, S),
           pc # "load_default" => isLoaded,
           op \in Loops \cup {"load"} => S = Settings,
           op \notin Loops \cup {"load"} => S = {s},
           ThreadShape'
    PROVE  Inv'
<1>1. th'[t] = [pc |-> pc, op |-> op, s |-> s, d |-> d, ret |-> "none"]
  BY DEF Before, TypeOK, Call
<1>2. \A u \in Threads \ {t} : th'[u] = th[u]
  BY DEF Before, TypeOK, Call
<1>3. Claims(t)' \subseteq S
  BY <1>1 DEF Claims
<1>4. \A u \in Threads \ {t} : Claims(u)' = Claims(u) /\ Claims(u) \cap S = {}
  BY <1>2 DEF Before, Claims, Call, Undisturbed
<1>5. Disjoint'
  BY <1>3, <1>4 DEF Before, Inv, Disjoint
<1>6. Kept(t)'
  BY <1>1 DEF Kept, Call, LoadPCs
<1>7. \A a \in Areas : ~SavePending(th[t].pc, a)
  BY DEF Call, SavePending
<1> QED
  BY <1>1, <1>2, <1>5, <1>6, <1>7, QuietStep DEF Call, observers

LEMMA BeginInv ==
    ASSUME Before, NEW t \in Threads, Begin(t)
    PROVE  Inv'
<1>1. ThreadShape'
  BY BeginShape DEF Before, Inv
<1> USE DEF Loops
<1>2. CASE \E s \in Settings, d \in Inputs : Set(t, s, d) \/ SetDefault(t, s, d)
  <2>1. PICK s \in Settings, d \in Inputs : Set(t, s, d) \/ SetDefault(t, s, d)
    BY <1>2
  <2> QED
    BY <1>1, <2>1, CallInv DEF Set, SetDefault, ApiCall
<1>3. CASE \E s \in Settings : Restore(t, s) \/ Mark(t, s) \/ Clear(t, s)
  <2>1. PICK s \in Settings : Restore(t, s) \/ Mark(t, s) \/ Clear(t, s)
    BY <1>3
  <2> QED
    BY <1>1, <2>1, CallInv DEF Restore, Mark, Clear, ApiCall
<1>4. CASE RestoreAll(t) \/ ClearAll(t) \/ Load(t)
  BY <1>1, <1>4, CallInv DEF RestoreAll, ClearAll, Load, ApiCall
<1> QED
  BY <1>2, <1>3, <1>4 DEF Begin

\* After a Return the thread is idle, or in a loop and the library is loaded.
LEMMA ReturnKept ==
    ASSUME Before, NEW t \in Threads, NEW r, Return(t, r),
           isLoaded => isLoaded'
    PROVE  Kept(t)' /\ \A a \in Areas : ~SavePending(th'[t].pc, a)
<1>1. th[t].op \in Loops => isLoaded
  BY DEF Before, Inv, Kept, ThreadShape, InProgress, Shape, Loops, LoadPCs
<1>2. \/ th'[t].pc = "idle"
      \/ th'[t].pc = "iterate" /\ th[t].op \in Loops
  BY ReturnNarrows DEF Before, Inv
<1> QED
  BY <1>1, <1>2 DEF Kept, LoadPCs, SavePending

LEMMA CheckInv ==
    ASSUME Before, NEW t \in Threads, Checks(t)
    PROVE  Inv'
<1>1. /\ ThreadShape'
      /\ UNCHANGED <<us, isLoaded, nvs, diverged>>
      /\ Narrows(t) /\ Disjoint'
  BY CheckShape, CheckNarrows, DisjointStep DEF Before, Inv, observers
<1>2. th[t].pc \in {"check_restore", "iterate", "check_value", "check_flag",
                    "check_default"}
  BY DEF Checks, CheckRestore, Iterate, CheckValue, CheckFlag, CheckDefault
<1>3. isLoaded /\ isLoaded'
  BY <1>1, <1>2 DEF Before, Inv, Kept, LoadPCs
<1>4. Kept(t)' /\ th'[t].pc \notin LoadPCs
  <2>1. ASSUME NEW r, Return(t, r)
        PROVE  Kept(t)' /\ th'[t].pc \notin LoadPCs
    <3>1. th'[t].pc \in {"idle", "iterate"}
      BY <2>1, ReturnNarrows DEF Before, Inv
    <3> QED
      BY <1>3, <2>1, <3>1, ReturnKept DEF LoadPCs
  <2>2. CASE CheckRestore(t)
    <3>1. CASE th' = [th EXCEPT ![t].pc = "check_value",
                                ![t].d = us[th[t].s].default]
      <4>1. th'[t].pc = "check_value"
        BY <3>1 DEF Before, TypeOK, Thread
      <4> QED
        BY <1>3, <4>1 DEF Kept, LoadPCs
    <3> QED
      BY <2>1, <2>2, <3>1 DEF CheckRestore
  <2>3. CASE Iterate(t)
    <3>1. th'[t].pc \in {"idle", "check_restore", "check_flag"}
      BY <2>3 DEF Iterate, Before, TypeOK, Thread, Resting
    <3> QED
      BY <1>3, <3>1 DEF Kept, LoadPCs
  <2>4. CASE CheckValue(t)
    <3>1. CASE FitsIn(th[t].s, th[t].d) /\ Goto(t, "value_rt")
      <4>1. th'[t] = [th[t] EXCEPT !.pc = "value_rt"]
        BY <3>1 DEF Goto, Before, TypeOK
      <4>2. th'[t].pc = "value_rt" /\ th'[t].s = th[t].s /\ th'[t].d = th[t].d
        BY <4>1 DEF Before, TypeOK, Thread
      <4> QED
        BY <1>3, <3>1, <4>2 DEF Kept, LoadPCs, FitsIn
    <3> QED
      BY <2>1, <2>4, <3>1 DEF CheckValue
  <2>5. CASE CheckFlag(t)
    <3>1. CASE Goto(t, "flag_rt")
      <4>1. th'[t].pc = "flag_rt"
        BY <3>1 DEF Goto, Before, TypeOK, Thread
      <4> QED
        BY <1>3, <4>1 DEF Kept, LoadPCs
    <3> QED
      BY <2>1, <2>5, <3>1 DEF CheckFlag
  <2>6. CASE CheckDefault(t)
    <3>1. CASE FitsIn(th[t].s, th[t].d) /\ Goto(t, "default_rt")
      <4>1. th'[t] = [th[t] EXCEPT !.pc = "default_rt"]
        BY <3>1 DEF Goto, Before, TypeOK
      <4>2. /\ th'[t].pc = "default_rt"
            /\ th'[t].s = th[t].s /\ th'[t].d = th[t].d
        BY <4>1 DEF Before, TypeOK, Thread
      <4> QED
        BY <1>3, <3>1, <4>2 DEF Kept, LoadPCs, FitsIn
    <3> QED
      BY <2>1, <2>6, <3>1 DEF CheckDefault
  <2> QED
    BY <2>2, <2>3, <2>4, <2>5, <2>6 DEF Checks
<1>5. \A a \in Areas : ~SavePending(th[t].pc, a)
  BY <1>2 DEF SavePending
<1> QED
  BY <1>1, <1>4, <1>5, QuietStep DEF Narrows, LoadPCs

-----------------------------------------------------------------------------
(* Steps that write one subtree of one setting, in RAM or in flash         *)

\* Such a step keeps the invariant if it keeps it for that subtree of that
\* setting: the other calls are on other settings.
LEMMA WriteStep ==
    ASSUME Before, NEW t \in Threads, ThreadShape', Narrows(t),
           NEW s \in Settings, s = th[t].s, NEW area \in Areas,
           isLoaded, isLoaded',
           \A a \in Areas : SavePending(th[t].pc, a) => a = area,
           \A r \in Settings \ {s} : us'[r] = us[r],
           \A a \in Areas, r \in Settings :
              a # area \/ r # s =>
                 /\ nvs'[a][r] = nvs[a][r]
                 /\ <<a, r>> \in diverged => <<a, r>> \in diverged'
                 /\ Agree(a, r)' = Agree(a, r),
           Kept(t)', DataFits(s)',
           \/ \E v \in Threads : Ahead(v, area, s)'
           \/ <<area, s>> \in diverged'
           \/ Agree(area, s)'
    PROVE  Inv'
<1>1. s \in Claims(t)
  BY DEF Claims
<1>2. Disjoint'
  BY DisjointStep DEF Before, Inv
<1>3. ASSUME NEW u \in Threads PROVE Kept(u)'
  <2>1. CASE u # t
    <3>1. th'[u] = th[u] /\ th[u].s # s
      BY <1>1, <2>1, Alone DEF Narrows, Before, Inv
    <3>2. th[u].pc \in ValuePCs \cup FlagPCs \cup DefaultPCs
              => us'[th[u].s] = us[th[u].s]
      BY <3>1 DEF Before, Inv, ThreadShape, InProgress, Shape
    <3>3. Kept(u)
      BY DEF Before, Inv
    <3> QED
      BY <3>1, <3>2, <3>3
         DEF Kept, Flag, ValuePCs, FlagPCs, DefaultPCs
  <2> QED
    BY <2>1
<1>4. ASSUME NEW r \in Settings PROVE DataFits(r)'
  <2>1. CASE r # s
    BY <2>1 DEF Before, Inv, DataFits, Areas
  <2> QED
    BY <2>1
<1>5. RamFromFlash'
  BY DEF RamFromFlash
<1>6. ASSUME NEW a \in Areas, NEW r \in Settings PROVE Covered(a, r)'
  <2>1. CASE a # area \/ r # s
    <3>1. \A v \in Threads : Ahead(v, a, r) => Ahead(v, a, r)'
      BY <2>1 DEF Ahead, Narrows
    <3>2. Covered(a, r)
      BY DEF Before, Inv
    <3> QED
      BY <2>1, <3>1, <3>2 DEF Covered
  <2>2. CASE a = area /\ r = s
    BY <2>2 DEF Covered
  <2> QED
    BY <2>1, <2>2
<1> QED
  BY <1>2, <1>3, <1>4, <1>5, <1>6 DEF Inv

LEMMA WriteFrame ==
    ASSUME Before, NEW t \in Threads, Writes(t)
    PROVE  /\ ThreadShape' /\ Narrows(t) /\ Disjoint'
           /\ th[t].s \in Settings /\ th[t].d \in Payload
           /\ isLoaded /\ isLoaded'
           /\ th[t] \in Thread
<1>1. ThreadShape' /\ Narrows(t) /\ th[t].s \in Settings /\ Disjoint'
  BY WriteShape, WriteNarrows, DisjointStep DEF Before, Inv
<1>2. th[t] \in Thread /\ th[t].d \in Payload
  BY DEF Before, TypeOK, Thread
<1>3. th[t].pc \notin {"idle"} \cup LoadPCs
  BY DEF Writes, ValueSetCb, Notify, SaveValue, FlagSetCb, SaveFlag,
         DefaultSetCb, SaveDefault, LoadPCs
<1>4. isLoaded /\ isLoaded'
  BY <1>3 DEF Before, Inv, Kept, Writes, ValueSetCb, Notify, SaveValue,
              FlagSetCb, SaveFlag, DefaultSetCb, SaveDefault
<1> QED
  BY <1>1, <1>2, <1>4

\* Goto changes only the step of the thread.
LEMMA GotoEffect ==
    ASSUME TypeOK, NEW t \in Threads, NEW pc, Goto(t, pc)
    PROVE  /\ th'[t].pc = pc /\ th'[t].s = th[t].s /\ th'[t].d = th[t].d
           /\ th'[t].op = th[t].op
<1>1. th'[t] = [th[t] EXCEPT !.pc = pc]
  BY DEF Goto, TypeOK
<1> QED
  BY <1>1 DEF TypeOK, Thread

LEMMA ValueSetCbInv ==
    ASSUME Before, NEW t \in Threads, ValueSetCb(t)
    PROVE  Inv'
<1>0. PICK s \in Settings, d \in Payload : s = th[t].s /\ d = th[t].d
  BY WriteFrame DEF Writes
<1>1. ThreadShape' /\ Narrows(t) /\ Disjoint' /\ isLoaded /\ isLoaded'
  BY WriteFrame DEF Writes
<1>2. th[t].pc = "value_rt" /\ FitsIn(s, d)
  BY <1>0 DEF ValueSetCb, Before, Inv, Kept
<1>3. \A a \in Areas : ~SavePending(th[t].pc, a)
  BY <1>2 DEF SavePending
<1>4. CASE d = Empty
  <2>1. Goto(t, "value_save") /\ UNCHANGED us
    BY <1>0, <1>4 DEF ValueSetCb
  <2>2. th'[t].pc = "value_save" /\ th'[t].s = s /\ th'[t].d = d
    BY <1>0, <2>1, GotoEffect DEF Before
  <2>3. Kept(t)'
    BY <1>0, <1>1, <1>2, <1>4, <2>2 DEF Kept, LoadPCs, FitsIn
  <2> QED
    BY <1>0, <1>1, <1>3, <2>1, <2>2, <2>3, QuietStep
       DEF ValueSetCb, observers, Narrows
<1>5. CASE d # Empty
  <2>1. /\ Goto(t, "value_cb")
        /\ us' = [us EXCEPT ![s].data = d, ![s].isSet = TRUE]
        /\ UNCHANGED <<nvs, diverged>>
    BY <1>0, <1>5 DEF ValueSetCb, observers
  <2>2. th'[t].pc = "value_cb" /\ th'[t].s = s /\ th'[t].d = d
    BY <1>0, <2>1, GotoEffect DEF Before
  <2>3. us'[s] = [us[s] EXCEPT !.data = d, !.isSet = TRUE]
    BY <1>0, <1>1, <2>1 DEF Before, TypeOK
  <2>4. us[s] \in Setting /\ \A r \in Settings \ {s} : us'[r] = us[r]
    BY <1>0, <1>1, <2>1 DEF Before, TypeOK
  <2>5. /\ us'[s].data = d /\ us'[s].isSet
        /\ us'[s].default = us[s].default
        /\ us'[s].defaultIsSet = us[s].defaultIsSet
        /\ us'[s].changed = us[s].changed
    BY <2>3, <2>4 DEF Setting
  <2>6. Kept(t)'
    BY <1>0, <1>1, <1>2, <1>5, <2>2, <2>5 DEF Kept, LoadPCs, FitsIn
  <2>7. DataFits(s)'
    BY <1>0, <1>1, <1>5, <2>1, <2>5 DEF Before, Inv, DataFits
  <2>8. \A a \in Areas, r \in Settings :
           a # "value" \/ r # s => Agree(a, r)' = Agree(a, r)
    <3>1. ASSUME NEW a \in Areas, NEW r \in Settings \ {s}
          PROVE  Agree(a, r)' = Agree(a, r)
      BY <2>1, <2>4 DEF Agree, IsSet, GetDefault
    <3>2. ASSUME NEW a \in Areas, a # "value"
          PROVE  Agree(a, s)' = Agree(a, s)
      BY <2>1, <2>5, <3>2 DEF Agree, IsSet, GetDefault
    <3> QED
      BY <3>1, <3>2
  <2>9. Ahead(t, "value", s)'
    BY <1>0, <1>5, <2>2 DEF Ahead, SavePending
  <2> QED
    BY <1>0, <1>1, <1>3, <2>1, <2>4, <2>6, <2>7, <2>8, <2>9, WriteStep DEF Areas
<1> QED
  BY <1>4, <1>5

LEMMA NotifyInv ==
    ASSUME Before, NEW t \in Threads, Notify(t)
    PROVE  Inv'
<1>0. PICK s \in Settings, d \in Payload : s = th[t].s /\ d = th[t].d
  BY WriteFrame DEF Writes
<1>1. ThreadShape' /\ Narrows(t) /\ Disjoint' /\ isLoaded /\ isLoaded'
  BY WriteFrame DEF Writes
<1>2. th[t].pc = "value_cb" /\ FitsIn(s, d) /\ d # Empty /\ d = us[s].data
  BY <1>0 DEF Notify, Before, Inv, Kept
<1>3. th'[t].pc = "value_save" /\ th'[t].s = s /\ th'[t].d = d
  BY <1>0, GotoEffect DEF Notify, Before
<1>4. UNCHANGED <<us, nvs, diverged>>
  BY DEF Notify
<1>5. Kept(t)'
  BY <1>0, <1>1, <1>2, <1>3, <1>4 DEF Kept, LoadPCs, FitsIn
<1>6. DataFits(s)'
  BY <1>0, <1>1, <1>4 DEF Before, Inv, DataFits
<1>7. \A a \in Areas, r \in Settings : Agree(a, r)' = Agree(a, r)
  BY <1>0, <1>4 DEF Agree, IsSet, GetDefault
<1>8. Ahead(t, "value", s)'
  BY <1>0, <1>2, <1>3 DEF Ahead, SavePending
<1>9. \A a \in Areas : SavePending(th[t].pc, a) => a = "value"
  BY <1>2 DEF SavePending
<1> QED
  BY <1>0, <1>1, <1>4, <1>5, <1>6, <1>7, <1>8, <1>9, WriteStep DEF Areas

\* What a save leaves in flash and in diverged.
LEMMA SaveEffect ==
    ASSUME TypeOK, NEW area \in Areas, NEW s \in Settings,
           NEW x \in Entry(area), SaveOk(area, s, x) \/ SaveFails(area, s, x)
    PROVE  /\ \A a \in Areas, r \in Settings :
                a # area \/ r # s =>
                   /\ nvs'[a][r] = nvs[a][r]
                   /\ <<a, r>> \in diverged => <<a, r>> \in diverged'
           /\ \/ nvs'[area][s] = x /\ (x = NULL => <<area, s>> \in diverged')
              \/ /\ nvs' = nvs
                 /\ x # NULL => <<area, s>> \in diverged'
                 /\ x = NULL => diverged' = diverged
<1>1. nvs[area] \in [Settings -> Payload \cup BOOLEAN \cup {NULL}]
  BY DEF TypeOK
<1>2. CASE SaveOk(area, s, x)
  <2>1. nvs' = [nvs EXCEPT ![area] = [nvs[area] EXCEPT ![s] = x]]
    BY <1>2 DEF SaveOk
  <2>2. nvs'[area] = [nvs[area] EXCEPT ![s] = x]
    BY <2>1 DEF TypeOK
  <2>3. \A a \in Areas \ {area} : nvs'[a] = nvs[a]
    BY <2>1 DEF TypeOK
  <2>4. /\ nvs'[area][s] = x
        /\ \A r \in Settings \ {s} : nvs'[area][r] = nvs[area][r]
    BY <1>1, <2>2
  <2>5. \A a \in Areas, r \in Settings :
           a # area \/ r # s => nvs'[a][r] = nvs[a][r]
    BY <2>3, <2>4
  <2>6. \A a \in Areas, r \in Settings :
           a # area \/ r # s =>
              (<<a, r>> \in diverged => <<a, r>> \in diverged')
    BY <1>2 DEF SaveOk
  <2>7. x = NULL => <<area, s>> \in diverged'
    BY <1>2 DEF SaveOk
  <2> QED
    BY <2>4, <2>5, <2>6, <2>7
<1>3. CASE SaveFails(area, s, x)
  BY <1>3 DEF SaveFails
<1> QED
  BY <1>2, <1>3

\* A save keeps the invariant when RAM already holds what it writes.
LEMMA SaveInv ==
    ASSUME Before, NEW t \in Threads, ThreadShape', Narrows(t),
           NEW s \in Settings, s = th[t].s, NEW area \in Areas,
           NEW x \in Entry(area), SaveOk(area, s, x) \/ SaveFails(area, s, x),
           isLoaded, isLoaded', UNCHANGED us, Kept(t)',
           \A a \in Areas : SavePending(th[t].pc, a) => a = area,
           x = NULL => area # "changed" /\ th[t].d = Empty,
           area # "changed" => x \in Fits[s] \cup {NULL},
           x # NULL =>
              /\ area = "value" => us[s].isSet /\ us[s].data = x
              /\ area = "default" => us[s].defaultIsSet /\ us[s].default = x
              /\ area = "changed" => us[s].changed = x
    PROVE  Inv'
<1>1. /\ \A a \in Areas, r \in Settings :
             a # area \/ r # s =>
                /\ nvs'[a][r] = nvs[a][r]
                /\ <<a, r>> \in diverged => <<a, r>> \in diverged'
      /\ \/ nvs'[area][s] = x /\ (x = NULL => <<area, s>> \in diverged')
         \/ /\ nvs' = nvs
            /\ x # NULL => <<area, s>> \in diverged'
            /\ x = NULL => diverged' = diverged
  BY SaveEffect DEF Before
<1>2. ASSUME NEW a \in Areas, NEW r \in Settings, nvs'[a][r] = nvs[a][r]
      PROVE  Agree(a, r)' = Agree(a, r)
  BY <1>2 DEF Agree, IsSet, GetDefault
<1>3. DataFits(s)'
  <2>1. DataFits(s)
    BY DEF Before, Inv
  <2>2. ASSUME NEW a \in {"value", "default"}
        PROVE  nvs'[a][s] \in Fits[s] \cup {NULL}
    <3>1. nvs[a][s] \in Fits[s] \cup {NULL} /\ a \in Areas
      BY <2>1 DEF DataFits, Areas
    <3> QED
      BY <1>1, <2>2, <3>1
  <2> QED
    BY <2>1, <2>2 DEF DataFits
<1>4. \/ <<area, s>> \in diverged'
      \/ Agree(area, s)'
  <2>1. CASE nvs'[area][s] = x /\ x # NULL
    <3>1. area = "changed" => x \in BOOLEAN
      BY <2>1 DEF Entry
    <3> QED
      BY <2>1, <3>1 DEF Agree, IsSet, GetDefault
  <2>2. CASE nvs' = nvs /\ x = NULL /\ diverged' = diverged
    <3>1. ASSUME NEW v \in Threads PROVE ~Ahead(v, area, s)
      <4>1. s \in Claims(t)
        BY DEF Claims
      <4>2. CASE v # t
        BY <4>1, <4>2, Alone DEF Before, Inv, Ahead
      <4>3. CASE v = t
        BY <2>2, <4>3 DEF Ahead
      <4> QED
        BY <4>2, <4>3
    <3>2. Covered(area, s)
      BY DEF Before, Inv
    <3>3. <<area, s>> \in diverged \/ Agree(area, s)
      BY <3>1, <3>2 DEF Covered
    <3> QED
      BY <1>2, <2>2, <3>3
  <2> QED
    BY <1>1, <2>1, <2>2
<1> QED
  BY <1>1, <1>2, <1>3, <1>4, WriteStep

LEMMA SaveValueInv ==
    ASSUME Before, NEW t \in Threads, SaveValue(t)
    PROVE  Inv'
<1>0. PICK s \in Settings, d \in Payload : s = th[t].s /\ d = th[t].d
  BY WriteFrame DEF Writes
<1>1. ThreadShape' /\ Narrows(t) /\ isLoaded /\ isLoaded'
  BY WriteFrame DEF Writes
<1>2. /\ th[t].pc = "value_save" /\ FitsIn(s, d)
      /\ d = Empty \/ d = us[s].data
      /\ us[s].isSet <=> us[s].data # Empty
  BY <1>0 DEF SaveValue, Before, Inv, Kept, DataFits
<1>3. Kept(t)'
  <2>1. CASE Goto(t, "check_flag")
    <3>1. th'[t].pc = "check_flag"
      BY <2>1, GotoEffect DEF Before
    <3> QED
      BY <1>1, <3>1 DEF Kept, LoadPCs
  <2> QED
    BY <1>1, <2>1, ReturnKept DEF SaveValue
<1>4. \A a \in Areas : SavePending(th[t].pc, a) => a = "value"
  BY <1>2 DEF SavePending
<1>5. PICK x \in Entry("value") : x = Stored(d)
  BY DEF Entry, Stored
<1>6. SaveOk("value", s, x) \/ SaveFails("value", s, x)
  BY <1>0, <1>5 DEF SaveValue
<1>7. /\ x = NULL => d = Empty
      /\ x # NULL => d # Empty /\ x = d
      /\ x \in Fits[s] \cup {NULL}
  BY <1>2, <1>5, PayloadAssumption DEF Stored, FitsIn
<1> QED
  BY <1>0, <1>1, <1>2, <1>3, <1>4, <1>6, <1>7, SaveInv DEF SaveValue, Areas

LEMMA SaveDefaultInv ==
    ASSUME Before, NEW t \in Threads, SaveDefault(t)
    PROVE  Inv'
<1>0. PICK s \in Settings, d \in Payload : s = th[t].s /\ d = th[t].d
  BY WriteFrame DEF Writes
<1>1. ThreadShape' /\ Narrows(t) /\ isLoaded /\ isLoaded'
  BY WriteFrame DEF Writes
<1>2. /\ th[t].pc = "default_save" /\ FitsIn(s, d)
      /\ d = Empty \/ d = us[s].default
      /\ us[s].defaultIsSet <=> us[s].default # Empty
  BY <1>0 DEF SaveDefault, Before, Inv, Kept, DataFits
<1>3. Kept(t)'
  BY <1>1, ReturnKept DEF SaveDefault
<1>4. \A a \in Areas : SavePending(th[t].pc, a) => a = "default"
  BY <1>2 DEF SavePending
<1>5. PICK x \in Entry("default") : x = Stored(d)
  BY DEF Entry, Stored
<1>6. SaveOk("default", s, x) \/ SaveFails("default", s, x)
  BY <1>0, <1>5 DEF SaveDefault
<1>7. /\ x = NULL => d = Empty
      /\ x # NULL => d # Empty /\ x = d
      /\ x \in Fits[s] \cup {NULL}
  BY <1>2, <1>5, PayloadAssumption DEF Stored, FitsIn
<1> QED
  BY <1>0, <1>1, <1>2, <1>3, <1>4, <1>6, <1>7, SaveInv DEF SaveDefault, Areas

LEMMA SaveFlagInv ==
    ASSUME Before, NEW t \in Threads, SaveFlag(t)
    PROVE  Inv'
<1>a. Flag(t) \in BOOLEAN
  BY DEF Flag
<1>0. PICK s \in Settings, x \in BOOLEAN : s = th[t].s /\ x = Flag(t)
  BY <1>a, WriteFrame DEF Writes
<1>1. ThreadShape' /\ Narrows(t) /\ isLoaded /\ isLoaded'
  BY WriteFrame DEF Writes
<1>2. th[t].pc = "flag_save" /\ us[s].changed = x
  BY <1>0 DEF SaveFlag, Before, Inv, Kept
<1>3. Kept(t)'
  BY <1>1, ReturnKept DEF SaveFlag
<1>4. \A a \in Areas : SavePending(th[t].pc, a) => a = "changed"
  BY <1>2 DEF SavePending
<1>5. x \in Entry("changed") /\ x # NULL
  BY PayloadAssumption DEF Entry
<1>6. SaveOk("changed", s, x) \/ SaveFails("changed", s, x)
  BY <1>0 DEF SaveFlag
<1> QED
  BY <1>0, <1>1, <1>2, <1>3, <1>4, <1>5, <1>6, SaveInv DEF SaveFlag, Areas

LEMMA FlagSetCbInv ==
    ASSUME Before, NEW t \in Threads, FlagSetCb(t)
    PROVE  Inv'
<1>a. Flag(t) \in BOOLEAN
  BY DEF Flag
<1>0. PICK s \in Settings, f \in BOOLEAN : s = th[t].s /\ f = Flag(t)
  BY <1>a, WriteFrame DEF Writes
<1>1. ThreadShape' /\ Narrows(t) /\ isLoaded /\ isLoaded'
  BY WriteFrame DEF Writes
<1>2. /\ th[t].pc = "flag_rt" /\ Goto(t, "flag_save")
      /\ us' = [us EXCEPT ![s].changed = f]
      /\ UNCHANGED <<nvs, diverged>>
  BY <1>0 DEF FlagSetCb
<1>3. th'[t].pc = "flag_save" /\ th'[t].s = s /\ Flag(t)' = f
  BY <1>0, <1>2, GotoEffect DEF Before, Flag
<1>4. us[s] \in Setting /\ us'[s] = [us[s] EXCEPT !.changed = f]
  BY <1>2 DEF Before, TypeOK
<1>5. \A r \in Settings \ {s} : us'[r] = us[r]
  BY <1>2 DEF Before, TypeOK
<1>6. /\ us'[s].changed = f
      /\ us'[s].data = us[s].data /\ us'[s].isSet = us[s].isSet
      /\ us'[s].default = us[s].default
      /\ us'[s].defaultIsSet = us[s].defaultIsSet
  BY <1>4 DEF Setting
<1>7. Kept(t)'
  BY <1>1, <1>3, <1>6 DEF Kept, LoadPCs
<1>8. DataFits(s)'
  BY <1>2, <1>6 DEF Before, Inv, DataFits
<1>9. \A a \in Areas, r \in Settings :
         a # "changed" \/ r # s => Agree(a, r)' = Agree(a, r)
  <2>1. ASSUME NEW a \in Areas, NEW r \in Settings \ {s}
        PROVE  Agree(a, r)' = Agree(a, r)
    BY <1>2, <1>5 DEF Agree, IsSet, GetDefault
  <2>2. ASSUME NEW a \in Areas, a # "changed"
        PROVE  Agree(a, s)' = Agree(a, s)
    BY <1>2, <1>6, <2>2 DEF Agree, IsSet, GetDefault
  <2> QED
    BY <2>1, <2>2
<1>10. Ahead(t, "changed", s)'
  BY <1>3 DEF Ahead, SavePending
<1>11. \A a \in Areas : ~SavePending(th[t].pc, a)
  BY <1>2 DEF SavePending
<1> QED
  BY <1>0, <1>1, <1>2, <1>5, <1>7, <1>8, <1>9, <1>10, <1>11, WriteStep
     DEF Areas

LEMMA DefaultSetCbInv ==
    ASSUME Before, NEW t \in Threads, DefaultSetCb(t)
    PROVE  Inv'
<1>0. PICK s \in Settings, d \in Payload : s = th[t].s /\ d = th[t].d
  BY WriteFrame DEF Writes
<1>1. ThreadShape' /\ Narrows(t) /\ Disjoint' /\ isLoaded /\ isLoaded'
  BY WriteFrame DEF Writes
<1>2. /\ th[t].pc = "default_rt" /\ FitsIn(s, d)
      /\ Goto(t, "default_save") /\ UNCHANGED <<nvs, diverged>>
  BY <1>0 DEF DefaultSetCb, Before, Inv, Kept, observers
<1>3. \A a \in Areas : ~SavePending(th[t].pc, a)
  BY <1>2 DEF SavePending
<1>4. th'[t].pc = "default_save" /\ th'[t].s = s /\ th'[t].d = d
  BY <1>0, <1>2, GotoEffect DEF Before
<1>5. CASE d = Empty
  <2>1. UNCHANGED us
    BY <1>0, <1>5 DEF DefaultSetCb
  <2>2. Kept(t)'
    BY <1>1, <1>2, <1>4, <1>5 DEF Kept, LoadPCs, FitsIn
  <2> QED
    BY <1>1, <1>2, <1>3, <1>4, <2>1, <2>2, QuietStep
       DEF DefaultSetCb, Narrows
<1>6. CASE d # Empty
  <2>1. us' = [us EXCEPT ![s].default = d, ![s].defaultIsSet = TRUE]
    BY <1>0, <1>6 DEF DefaultSetCb
  <2>2. us'[s] = [us[s] EXCEPT !.default = d, !.defaultIsSet = TRUE]
    BY <2>1 DEF Before, TypeOK
  <2>3. us[s] \in Setting /\ \A r \in Settings \ {s} : us'[r] = us[r]
    BY <2>1 DEF Before, TypeOK
  <2>4. /\ us'[s].default = d /\ us'[s].defaultIsSet
        /\ us'[s].data = us[s].data /\ us'[s].isSet = us[s].isSet
        /\ us'[s].changed = us[s].changed
    BY <2>2, <2>3 DEF Setting
  <2>5. Kept(t)'
    BY <1>1, <1>2, <1>4, <2>4 DEF Kept, LoadPCs, FitsIn
  <2>6. DataFits(s)'
    BY <1>2, <1>6, <2>4 DEF Before, Inv, DataFits
  <2>7. \A a \in Areas, r \in Settings :
           a # "default" \/ r # s => Agree(a, r)' = Agree(a, r)
    <3>1. ASSUME NEW a \in Areas, NEW r \in Settings \ {s}
          PROVE  Agree(a, r)' = Agree(a, r)
      BY <1>2, <2>3 DEF Agree, IsSet, GetDefault
    <3>2. ASSUME NEW a \in Areas, a # "default"
          PROVE  Agree(a, s)' = Agree(a, s)
      BY <1>2, <2>4, <3>2 DEF Agree, IsSet, GetDefault
    <3> QED
      BY <3>1, <3>2
  <2>8. Ahead(t, "default", s)'
    BY <1>4, <1>6 DEF Ahead, SavePending
  <2> QED
    BY <1>0, <1>1, <1>2, <1>3, <2>3, <2>5, <2>6, <2>7, <2>8, WriteStep
       DEF Areas
<1> QED
  BY <1>5, <1>6

LEMMA WriteInv ==
    ASSUME Before, NEW t \in Threads, Writes(t)
    PROVE  Inv'
BY ValueSetCbInv, NotifyInv, SaveValueInv, FlagSetCbInv, SaveFlagInv,
   DefaultSetCbInv, SaveDefaultInv DEF Writes

-----------------------------------------------------------------------------
(* Loading.  A load has every setting to itself.                           *)

LEMMA LoadAlone ==
    ASSUME Before, NEW t \in Threads, Loads(t), NEW u \in Threads \ {t}
    PROVE  th[u].pc = "idle"
<1>1. th[t].op = "load"
  BY DEF Loads, LoadDefault, LoadValue, LoadChanged, LoadPCs, Before, Inv,
         ThreadShape, InProgress, Shape
<1>2. 1 \in Settings /\ 1 \in Claims(t)
  BY <1>1, CountAssumption DEF Claims, Settings
<1>3. th[u].op \notin Loops \cup {"load"}
  BY <1>2, Alone DEF Before, Inv
<1>4. th[u].s \notin Settings
  <2>1. SUFFICES ASSUME th[u].s \in Settings PROVE FALSE
    OBVIOUS
  <2>2. th[u].s \in Claims(t)
    BY <1>1, <2>1 DEF Claims
  <2> QED
    BY <2>1, <2>2, Alone DEF Before, Inv
<1> QED
  BY <1>3, <1>4
     DEF Before, Inv, ThreadShape, InProgress, Shape, Thread, PCs, ValuePCs,
         FlagPCs, DefaultPCs, LoadPCs

\* Before the library is loaded, RAM agrees with flash on an entry that is
\* not there.
LEMMA Unread ==
    ASSUME Before, ~isLoaded, NEW area \in Areas,
           NEW s \in Settings, s \notin Readable(area, Settings)
    PROVE  Agree(area, s)
<1>1. us[s] \in Setting /\ nvs[area][s] \in Entry(area)
  BY DEF Before, TypeOK
<1>2. /\ us[s].isSet => us[s].data = nvs["value"][s]
      /\ us[s].defaultIsSet => us[s].default = nvs["default"][s]
      /\ us[s].changed => nvs["changed"][s] = TRUE
      /\ DataFits(s)
  BY DEF Before, Inv, RamFromFlash
<1>3. nvs[area][s] = NULL
  BY <1>2 DEF Readable, FitsIn, DataFits, Areas
<1> QED
  BY <1>1, <1>2, <1>3, PayloadAssumption
     DEF Agree, IsSet, GetDefault, Setting, Areas

\* A step of a load keeps the invariant if it reads subtree area for the
\* settings of S, all of them unless it fails.
LEMMA LoadStep ==
    ASSUME Before, NEW t \in Threads, Loads(t), ThreadShape',
           NEW area \in Areas, NEW S \in SUBSET Settings,
           UNCHANGED nvs,
           diverged' = diverged \ ({area} \X Readable(area, S)),
           \A s \in Settings \ Readable(area, S) : us'[s] = us[s],
           \A s \in Readable(area, S) : Agree(area, s)',
           \A a \in Areas \ {area}, s \in Settings : Agree(a, s)' = Agree(a, s),
           \A s \in Settings : DataFits(s)',
           RamFromFlash',
           th'[t].pc \in LoadPCs \cup {"idle"},
           isLoaded => isLoaded',
           ~isLoaded /\ (isLoaded' \/ HasRead(area)') => S = Settings,
           \A a \in Areas \ {area} :
              ~isLoaded /\ (isLoaded' \/ HasRead(a)') => HasRead(a)
    PROVE  Inv'
<1>1. Narrows(t) /\ Disjoint'
  BY LoadNarrows, DisjointStep DEF Before, Inv
<1>2. \A u \in Threads : th'[u].pc \in LoadPCs \cup {"idle"}
  BY <1>1, LoadAlone DEF Narrows
<1>3. \A u \in Threads : Kept(u)'
  BY <1>2 DEF Kept, LoadPCs
<1>4. \A u \in Threads, a \in Areas, s \in Settings : ~Ahead(u, a, s)
  <2>1. th[t].pc \in LoadPCs
    BY DEF Loads, LoadDefault, LoadValue, LoadChanged, LoadPCs
  <2> QED
    BY <2>1, LoadAlone DEF Ahead, SavePending, LoadPCs
<1>5. ASSUME NEW a \in Areas, NEW s \in Settings PROVE Covered(a, s)'
  <2>1. \/ ~isLoaded /\ ~HasRead(a)
        \/ <<a, s>> \in diverged
        \/ Agree(a, s)
    BY <1>4 DEF Before, Inv, Covered
  <2>2. CASE ~(isLoaded' \/ HasRead(a)')
    BY <2>2 DEF Covered
  <2>3. CASE (isLoaded' \/ HasRead(a)') /\ a # area
    BY <2>1, <2>3 DEF Covered
  <2>4. CASE (isLoaded' \/ HasRead(a)') /\ a = area
    <3>1. CASE s \in Readable(area, S)
      BY <2>4, <3>1 DEF Covered
    <3>2. CASE s \notin Readable(area, S)
      <4>1. Agree(a, s)' = Agree(a, s)
        BY <3>2 DEF Agree, IsSet, GetDefault
      <4>2. CASE isLoaded
        BY <2>1, <3>2, <4>1, <4>2 DEF Covered
      <4>3. CASE ~isLoaded
        BY <2>4, <3>2, <4>1, <4>3, Unread DEF Covered
      <4> QED
        BY <4>2, <4>3
    <3> QED
      BY <3>1, <3>2
  <2> QED
    BY <2>2, <2>3, <2>4
<1> QED
  BY <1>1, <1>3, <1>5 DEF Inv

\* An entry the value or the default handler takes is not empty, and fits.
LEMMA ReadableFits ==
    ASSUME Before, NEW area \in {"default", "value"},
           NEW S \in SUBSET Settings, NEW s \in Readable(area, S)
    PROVE  /\ s \in Settings
           /\ nvs[area][s] \in Fits[s] /\ nvs[area][s] # Empty
           /\ nvs[area][s] \in Payload
<1>1. s \in Settings /\ nvs[area][s] # NULL
  BY DEF Readable
<1>2. nvs[area][s] \in Fits[s]
  BY <1>1 DEF Before, Inv, DataFits
<1> QED
  BY <1>1, <1>2, FitsAssumption, PayloadAssumption DEF Payload

LEMMA LoadDefaultInv ==
    ASSUME Before, NEW t \in Threads, LoadDefault(t)
    PROVE  Inv'
<1>1. PICK S \in SUBSET Settings :
        /\ Subtree(t, "default", S, "load_value")
        /\ us' = [s \in Settings |->
                    IF s \in Readable("default", S)
                    THEN [us[s] EXCEPT !.default = nvs["default"][s],
                                       !.defaultIsSet = TRUE]
                    ELSE us[s]]
  BY DEF LoadDefault
<1>2. ThreadShape' /\ Loads(t)
  BY LoadShape DEF Loads, Before, Inv
<1>3. /\ UNCHANGED <<nvs, isLoaded>>
      /\ diverged' = diverged \ ({"default"} \X Readable("default", S))
  BY <1>1 DEF LoadDefault, Subtree
<1>4. \/ S = Settings /\ th'[t].pc = "load_value"
      \/ th'[t].pc = "idle"
  <2>1. th[t].op \notin Loops
    BY DEF LoadDefault, LoadPCs, Loops, Before, Inv, ThreadShape, InProgress,
           Shape
  <2> QED
    BY <1>1, <2>1, GotoEffect, ReturnNarrows DEF Subtree, Before, Inv
<1>5. \A s \in Settings \ Readable("default", S) : us'[s] = us[s]
  BY <1>1
<1>6. ASSUME NEW s \in Readable("default", S)
      PROVE  /\ us'[s].default = nvs["default"][s] /\ us'[s].defaultIsSet
             /\ us'[s].data = us[s].data /\ us'[s].isSet = us[s].isSet
             /\ us'[s].changed = us[s].changed
  <2>1. s \in Settings /\ us[s] \in Setting
    BY ReadableFits DEF Before, TypeOK
  <2> QED
    BY <1>1, <2>1 DEF Setting
<1>7. \A s \in Readable("default", S) : Agree("default", s)'
  BY <1>3, <1>6 DEF Agree, GetDefault
<1>8. ASSUME NEW a \in Areas \ {"default"}, NEW s \in Settings
      PROVE  Agree(a, s)' = Agree(a, s)
  BY <1>3, <1>5, <1>6 DEF Agree, IsSet
<1>9. ASSUME NEW s \in Settings PROVE DataFits(s)'
  BY <1>3, <1>5, <1>6, ReadableFits DEF Before, Inv, DataFits
<1>10. RamFromFlash'
  BY <1>3, <1>5, <1>6 DEF Before, Inv, RamFromFlash
<1>11. \A a \in Areas \ {"default"} : ~HasRead(a)'
  <2>1. \A u \in Threads \ {t} : th'[u].pc = "idle"
    BY <1>2, LoadAlone, LoadNarrows DEF Before, Inv, Narrows
  <2> QED
    BY <1>4, <2>1 DEF HasRead
<1>12. HasRead("default")' => S = Settings
  <2>1. \A u \in Threads \ {t} : th'[u].pc = "idle"
    BY <1>2, LoadAlone, LoadNarrows DEF Before, Inv, Narrows
  <2> QED
    BY <1>4, <2>1 DEF HasRead
<1> QED
  BY <1>2, <1>3, <1>4, <1>5, <1>7, <1>8, <1>9, <1>10, <1>11, <1>12, LoadStep
     DEF Areas, LoadPCs

LEMMA LoadValueInv ==
    ASSUME Before, NEW t \in Threads, LoadValue(t)
    PROVE  Inv'
<1>1. PICK S \in SUBSET Settings :
        /\ Subtree(t, "value", S, "load_changed")
        /\ us' = [s \in Settings |->
                    IF s \in Readable("value", S)
                    THEN [us[s] EXCEPT !.data = nvs["value"][s],
                                       !.isSet = TRUE]
                    ELSE us[s]]
  BY DEF LoadValue
<1>2. ThreadShape' /\ Loads(t)
  BY LoadShape DEF Loads, Before, Inv
<1>3. /\ UNCHANGED <<nvs, isLoaded>>
      /\ diverged' = diverged \ ({"value"} \X Readable("value", S))
  BY <1>1 DEF LoadValue, Subtree
<1>4. \/ S = Settings /\ th'[t].pc = "load_changed"
      \/ th'[t].pc = "idle"
  <2>1. th[t].op \notin Loops
    BY DEF LoadValue, LoadPCs, Loops, Before, Inv, ThreadShape, InProgress,
           Shape
  <2> QED
    BY <1>1, <2>1, GotoEffect, ReturnNarrows DEF Subtree, Before, Inv
<1>5. \A s \in Settings \ Readable("value", S) : us'[s] = us[s]
  BY <1>1
<1>6. ASSUME NEW s \in Readable("value", S)
      PROVE  /\ us'[s].data = nvs["value"][s] /\ us'[s].isSet
             /\ us'[s].default = us[s].default
             /\ us'[s].defaultIsSet = us[s].defaultIsSet
             /\ us'[s].changed = us[s].changed
  <2>1. s \in Settings /\ us[s] \in Setting
    BY ReadableFits DEF Before, TypeOK
  <2> QED
    BY <1>1, <2>1 DEF Setting
<1>7. \A s \in Readable("value", S) : Agree("value", s)'
  BY <1>3, <1>6 DEF Agree, IsSet
<1>8. ASSUME NEW a \in Areas \ {"value"}, NEW s \in Settings
      PROVE  Agree(a, s)' = Agree(a, s)
  BY <1>3, <1>5, <1>6 DEF Agree, GetDefault
<1>9. ASSUME NEW s \in Settings PROVE DataFits(s)'
  BY <1>3, <1>5, <1>6, ReadableFits DEF Before, Inv, DataFits
<1>10. RamFromFlash'
  BY <1>3, <1>5, <1>6 DEF Before, Inv, RamFromFlash
<1>11. \A a \in Areas : HasRead(a)' =>
          /\ a = "value" => S = Settings
          /\ a # "value" => HasRead(a)
  <2>1. \A u \in Threads \ {t} : th'[u].pc = "idle"
    BY <1>2, LoadAlone, LoadNarrows DEF Before, Inv, Narrows
  <2>2. HasRead("default")
    BY DEF LoadValue, HasRead
  <2> QED
    BY <1>4, <2>1, <2>2 DEF HasRead
<1> QED
  BY <1>2, <1>3, <1>4, <1>5, <1>7, <1>8, <1>9, <1>10, <1>11, LoadStep
     DEF Areas, LoadPCs

LEMMA LoadChangedInv ==
    ASSUME Before, NEW t \in Threads, LoadChanged(t)
    PROVE  Inv'
<1>1. PICK S \in SUBSET Settings :
        /\ us' = [s \in Settings |->
                    IF s \in Readable("changed", S)
                    THEN [us[s] EXCEPT !.changed = nvs["changed"][s]]
                    ELSE us[s]]
        /\ diverged' = diverged \ ({"changed"} \X Readable("changed", S))
        /\ \/ S = Settings /\ isLoaded' = TRUE
           \/ UNCHANGED isLoaded
        /\ \E r \in Results : Return(t, r)
  BY DEF LoadChanged, Results
<1>2. ThreadShape' /\ Loads(t) /\ UNCHANGED nvs
  BY LoadShape DEF Loads, Before, Inv, LoadChanged
<1>3. th'[t].pc = "idle"
  <2>1. th[t].op \notin Loops
    BY DEF LoadChanged, LoadPCs, Loops, Before, Inv, ThreadShape, InProgress,
           Shape
  <2> QED
    BY <1>1, <2>1, ReturnNarrows DEF Before, Inv
<1>4. \A s \in Settings \ Readable("changed", S) : us'[s] = us[s]
  BY <1>1
<1>5. ASSUME NEW s \in Readable("changed", S)
      PROVE  /\ us'[s].changed = nvs["changed"][s]
             /\ nvs["changed"][s] \in BOOLEAN
             /\ us'[s].data = us[s].data /\ us'[s].isSet = us[s].isSet
             /\ us'[s].default = us[s].default
             /\ us'[s].defaultIsSet = us[s].defaultIsSet
  <2>1. /\ s \in Settings /\ us[s] \in Setting
        /\ nvs["changed"][s] \in BOOLEAN
    BY ReadableType DEF Before, TypeOK, Areas
  <2> QED
    BY <1>1, <2>1 DEF Setting
<1>6. \A s \in Readable("changed", S) : Agree("changed", s)'
  BY <1>2, <1>5 DEF Agree
<1>7. ASSUME NEW a \in Areas \ {"changed"}, NEW s \in Settings
      PROVE  Agree(a, s)' = Agree(a, s)
  BY <1>2, <1>4, <1>5 DEF Agree, IsSet, GetDefault, Areas
<1>8. ASSUME NEW s \in Settings PROVE DataFits(s)'
  BY <1>2, <1>4, <1>5 DEF Before, Inv, DataFits
<1>9. RamFromFlash'
  BY <1>1, <1>2, <1>4, <1>5 DEF Before, Inv, RamFromFlash
<1>10. HasRead("default") /\ HasRead("value")
  BY DEF LoadChanged, HasRead
<1>11. \A a \in Areas : ~HasRead(a)'
  <2>1. \A u \in Threads \ {t} : th'[u].pc = "idle"
    BY <1>2, LoadAlone, LoadNarrows DEF Before, Inv, Narrows
  <2> QED
    BY <1>3, <2>1 DEF HasRead
<1> QED
  BY <1>1, <1>2, <1>3, <1>4, <1>6, <1>7, <1>8, <1>9, <1>10, <1>11, LoadStep
     DEF Areas

-----------------------------------------------------------------------------
(* Callbacks, reboots, and the theorem                                     *)

\* Registering a callback changes no data and no flag.
LEMMA RegisterKeeps ==
    ASSUME TypeOK, Register, NEW s \in Settings
    PROVE  /\ us'[s].data = us[s].data /\ us'[s].isSet = us[s].isSet
           /\ us'[s].default = us[s].default
           /\ us'[s].defaultIsSet = us[s].defaultIsSet
           /\ us'[s].changed = us[s].changed
<1>1. us[s] \in Setting
  BY DEF TypeOK
<1>2. CASE us' = us
  BY <1>2
<1>3. ASSUME NEW r \in Settings, NEW on, us' = [us EXCEPT ![r].onChange = on]
      PROVE  us'[s] \in {us[s], [us[s] EXCEPT !.onChange = on]}
  BY <1>3 DEF TypeOK
<1>4. ASSUME NEW r \in Settings, NEW v, us' = [us EXCEPT ![r].validate = v]
      PROVE  us'[s] \in {us[s], [us[s] EXCEPT !.validate = v]}
  BY <1>4 DEF TypeOK
<1>5. CASE \E on \in BOOLEAN : SetGlobalOnChangeCb(on)
  BY <1>2, <1>5 DEF SetGlobalOnChangeCb
<1>6. CASE \E r \in Settings, on \in BOOLEAN : SetOnChangeCb(r, on)
  <2>1. PICK on \in BOOLEAN : us'[s] \in {us[s], [us[s] EXCEPT !.onChange = on]}
    BY <1>3, <1>6 DEF SetOnChangeCb
  <2> QED
    BY <1>1, <2>1 DEF Setting
<1>7. CASE \E r \in Settings, v \in Validators : SetValidateCb(r, v)
  <2>1. PICK v \in Validators : us'[s] \in {us[s], [us[s] EXCEPT !.validate = v]}
    BY <1>4, <1>7 DEF SetValidateCb
  <2> QED
    BY <1>1, <2>1 DEF Setting
<1> QED
  BY <1>5, <1>6, <1>7 DEF Register

LEMMA RegisterInv ==
    ASSUME Before, Register
    PROVE  Inv'
<1>1. ThreadShape' /\ UNCHANGED <<th, nvs, diverged, isLoaded>>
  BY RegisterType
     DEF Before, Inv, Register, SetGlobalOnChangeCb, SetOnChangeCb,
         SetValidateCb, observers
<1>2. ASSUME NEW s \in Settings
      PROVE  /\ us'[s].data = us[s].data /\ us'[s].isSet = us[s].isSet
             /\ us'[s].default = us[s].default
             /\ us'[s].defaultIsSet = us[s].defaultIsSet
             /\ us'[s].changed = us[s].changed
  BY RegisterKeeps DEF Before
<1>3. ASSUME NEW t \in Threads PROVE Kept(t)'
  <2>1. th[t].pc \in ValuePCs \cup FlagPCs \cup DefaultPCs
            => th[t].s \in Settings
    BY DEF Before, Inv, ThreadShape, InProgress, Shape
  <2>2. Kept(t)
    BY DEF Before, Inv
  <2> QED
    BY <1>1, <1>2, <2>1, <2>2
       DEF Kept, Flag, ValuePCs, FlagPCs, DefaultPCs
<1>4. ASSUME NEW s \in Settings PROVE DataFits(s)'
  BY <1>1, <1>2 DEF Before, Inv, DataFits
<1>5. Disjoint'
  BY <1>1 DEF Before, Inv, Disjoint, Claims
<1>6. RamFromFlash'
  BY <1>1, <1>2 DEF Before, Inv, RamFromFlash
<1>7. ASSUME NEW a \in Areas, NEW s \in Settings PROVE Covered(a, s)'
  <2>1. Agree(a, s)' = Agree(a, s)
    BY <1>1, <1>2 DEF Agree, IsSet, GetDefault
  <2>2. Covered(a, s)
    BY DEF Before, Inv
  <2> QED
    BY <1>1, <2>1, <2>2 DEF Covered, Ahead, HasRead
<1> QED
  BY <1>1, <1>3, <1>4, <1>5, <1>6, <1>7 DEF Inv

LEMMA CrashInv ==
    ASSUME Before, Crash
    PROVE  Inv'
<1>1. ThreadShape'
  BY CrashType DEF Before
<1>2. ASSUME NEW t \in Threads PROVE Kept(t)' /\ (Claims(t) = {})'
  BY DEF Crash, Kept, Resting, Claims, Loops, Settings, LoadPCs
<1>3. ASSUME NEW s \in Settings PROVE DataFits(s)'
  BY DEF Crash, Before, Inv, DataFits, Blank
<1>4. Disjoint'
  BY <1>2 DEF Disjoint
<1>5. RamFromFlash'
  BY DEF Crash, RamFromFlash, Blank
<1>6. ~isLoaded' /\ \A a \in Areas : ~HasRead(a)'
  BY DEF Crash, HasRead, Resting
<1> QED
  BY <1>1, <1>2, <1>3, <1>4, <1>5, <1>6 DEF Inv, Covered

LEMMA NextInv ==
    ASSUME Before, [Next]_vars
    PROVE  Inv'
<1>1. ASSUME NEW t \in Threads, Begin(t) \/ Step(t) PROVE Inv'
  BY <1>1, BeginInv, CheckInv, WriteInv, LoadDefaultInv, LoadValueInv,
     LoadChangedInv DEF Step, Checks, Writes
<1>2. CASE UNCHANGED vars
  BY <1>2 DEF Before, Inv, vars, ThreadShape, Kept, Flag, DataFits, Disjoint,
              Claims, RamFromFlash, Covered, HasRead, Ahead, Agree, IsSet,
              GetDefault
<1> QED
  BY <1>1, <1>2, RegisterInv, CrashInv DEF Next

LEMMA InvImplies == Inv => FlashAgrees
<1> SUFFICES ASSUME Inv, isLoaded, NEW a \in Areas, NEW s \in Settings
             PROVE  InFlight(a, s) \/ <<a, s>> \in diverged \/ Agree(a, s)
  BY DEF FlashAgrees
<1> QED
  BY DEF Inv, Covered, Ahead, InFlight

\* An application that never overlaps two calls on one setting finds in flash
\* what get returns, but for a call between its write to RAM and its write to
\* flash and for the saves that failed or deleted an entry: for any number of
\* settings and threads, whatever fails and whenever power is cut.
THEOREM FlashAgreement ==
    ASSUME Serialized
    PROVE  Spec => []FlashAgrees
<1>1. Init => TypeOK /\ Inv
  BY InitType, InitInv
<1>2. TypeOK /\ Inv /\ [Next]_vars => TypeOK' /\ Inv'
  BY NextType, NextInv DEF Before, Inv
<1>3. TypeOK /\ Inv => FlashAgrees
  BY InvImplies
<1> QED
  BY <1>1, <1>2, <1>3, PTL DEF Spec
=============================================================================
