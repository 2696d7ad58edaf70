----------------------- MODULE StoreRefinement_proofs ------------------------
(***************************************************************************)
(* The core implements the durable store, where flash is dependable and    *)
(* the application's calls on one setting do not overlap.                  *)
(***************************************************************************)
EXTENDS UserSettingsStore, CoreProperties_proofs

\* What the store of a call under way stands on.
Ground == Before /\ StoredInv /\ DependableFlash

LEMMA InitStored == Init => StoredInv
BY DEF Init, StoredInv, NeverEmpty, Resting, FlagPCs

LEMMA GroundFacts ==
    ASSUME Ground
    PROVE  TypeOK /\ ThreadShape /\ diverged = {} /\ "save" \notin Faults
BY DEF Ground, Before, Inv, StoredInv, DependableFlash

\* What a call has to do with, when there are no restores: a payload of the
\* application's, which is never of zero bytes.
LEMMA PayloadOf ==
    ASSUME Ground, NEW t \in Threads
    PROVE  /\ th[t].op \in {"set", "set_default"} =>
                 th[t].d \in Payload \ {Empty} /\ Stored(th[t].d) = th[t].d
           /\ th[t].pc \in ValuePCs => th[t].op = "set"
           /\ th[t].op \in Loops => th[t].op = "clear_all"
<1>1. NeverEmpty(t) /\ th[t].op \notin {"restore", "restore_all"}
  BY DEF Ground, StoredInv
<1>2. Shape(th[t])
  BY DEF Ground, Before, Inv, ThreadShape, InProgress
<1> QED
  BY <1>1, <1>2, PayloadAssumption
     DEF NeverEmpty, Ground, DependableFlash, Stored, Shape, Setters, Loops

\* A call begins with one of the application's payloads.
LEMMA BeginStored ==
    ASSUME TypeOK, DependableFlash, NEW t \in Threads, Begin(t)
    PROVE  /\ NeverEmpty(t)'
           /\ th'[t].op \notin {"restore", "restore_all"}
           /\ th'[t].op = "set" => th'[t].pc = "check_value"
<1>1. ASSUME NEW op, NEW pc, NEW s, NEW d, NEW S, Call(t, op, pc, s, d, S)
      PROVE  th'[t].op = op /\ th'[t].pc = pc /\ th'[t].d = d
  BY <1>1 DEF Call, TypeOK
<1>2. CASE \E s \in Settings, d \in Inputs : Set(t, s, d) \/ SetDefault(t, s, d)
  BY <1>1, <1>2 DEF Set, SetDefault, ApiCall, NeverEmpty
<1>3. CASE \E s \in Settings : Mark(t, s) \/ Clear(t, s)
  BY <1>1, <1>3 DEF Mark, Clear, ApiCall, NeverEmpty
<1>4. CASE ClearAll(t) \/ Load(t)
  BY <1>1, <1>4 DEF ClearAll, Load, ApiCall, NeverEmpty
<1>5. \A s : ~Restore(t, s) /\ ~RestoreAll(t)
  BY DEF Restore, RestoreAll, ApiCall, DependableFlash
<1> QED
  BY <1>2, <1>3, <1>4, <1>5 DEF Begin

\* A step keeps the payload of a call.
LEMMA PayloadStays ==
    ASSUME Ground, NEW t \in Threads, Step(t)
    PROVE  th'[t].op = "none" \/ (th'[t].op = th[t].op /\ th'[t].d = th[t].d)
<1>0. TypeOK /\ ThreadShape /\ th[t] \in Thread /\ ~CheckRestore(t)
  BY DEF Ground, StoredInv, CheckRestore, Before, Inv, ThreadShape, InProgress,
         Shape
<1>1. ASSUME NEW r, th' = [th EXCEPT ![t] = Resting(r)] PROVE th'[t].op = "none"
  BY <1>0, <1>1 DEF Resting, TypeOK
<1>2. ASSUME NEW pc, Goto(t, pc) PROVE th'[t].op = th[t].op /\ th'[t].d = th[t].d
  BY <1>0, <1>2, GotoEffect
<1>3. ASSUME NEW r, Return(t, r)
      PROVE  th'[t].op = "none" \/ (th'[t].op = th[t].op /\ th'[t].d = th[t].d)
  BY <1>1, <1>2, <1>3 DEF Return, Goto
<1>5. CASE Iterate(t)
  <2>1. CASE th' = [th EXCEPT
                     ![t].s = NextElement(t),
                     ![t].pc = IF th[t].op = "restore_all"
                               THEN "check_restore" ELSE "check_flag"]
    BY <1>0, <2>1 DEF TypeOK, Thread
  <2> QED
    BY <1>1, <1>5, <2>1 DEF Iterate
<1>6. CASE CheckValue(t) \/ CheckFlag(t) \/ CheckDefault(t)
  BY <1>2, <1>3, <1>6 DEF CheckValue, CheckFlag, CheckDefault
<1>7. CASE ValueSetCb(t) \/ Notify(t) \/ FlagSetCb(t) \/ DefaultSetCb(t)
  BY <1>2, <1>7 DEF ValueSetCb, Notify, FlagSetCb, DefaultSetCb
<1>8. CASE SaveValue(t) \/ SaveFlag(t) \/ SaveDefault(t)
  BY <1>2, <1>3, <1>8 DEF SaveValue, SaveFlag, SaveDefault
<1>9. CASE LoadDefault(t) \/ LoadValue(t) \/ LoadChanged(t)
  BY <1>2, <1>3, <1>9 DEF LoadDefault, LoadValue, LoadChanged, Subtree
<1> QED
  BY <1>0, <1>5, <1>6, <1>7, <1>8, <1>9 DEF Step

\* The saves, when none fails.
LEMMA Saves ==
    ASSUME Ground, NEW t \in Threads
    PROVE  /\ SaveValue(t) => /\ nvs' = [nvs EXCEPT !["value"][th[t].s] = th[t].d]
                              /\ Goto(t, "check_flag") /\ diverged' = {}
           /\ SaveDefault(t) => /\ nvs' = [nvs EXCEPT !["default"][th[t].s] = th[t].d]
                                /\ Return(t, "ok") /\ diverged' = {}
           /\ SaveFlag(t) => /\ nvs' = [nvs EXCEPT !["changed"][th[t].s] = Flag(t)]
                             /\ Return(t, "ok") /\ diverged' = {}
<1>0. diverged = {} /\ "save" \notin Faults /\ ThreadShape
  BY GroundFacts
<1>1. ASSUME NEW a, NEW s, NEW x, x # NULL, SaveOk(a, s, x) \/ SaveFails(a, s, x)
      PROVE  nvs' = [nvs EXCEPT ![a][s] = x] /\ diverged' = {} /\ ~SaveFails(a, s, x)
  BY <1>0, <1>1 DEF SaveOk, SaveFails
<1>2. th[t].op \in {"set", "set_default"} =>
          Stored(th[t].d) = th[t].d /\ th[t].d # NULL
  <2>1. th[t].op \in {"set", "set_default"} =>
            Stored(th[t].d) = th[t].d /\ th[t].d \in Payload
    BY PayloadOf
  <2> QED
    BY <2>1, PayloadAssumption
<1>3. Flag(t) # NULL
  <2>1. Flag(t) \in BOOLEAN
    BY DEF Flag
  <2> QED
    BY <2>1, PayloadAssumption
<1>4. ASSUME SaveValue(t)
      PROVE  /\ nvs' = [nvs EXCEPT !["value"][th[t].s] = th[t].d]
             /\ Goto(t, "check_flag") /\ diverged' = {}
  <2>1. th[t].op = "set"
    BY <1>4, PayloadOf DEF SaveValue, ValuePCs
  <2> QED
    BY <1>1, <1>2, <1>4, <2>1 DEF SaveValue
<1>5. ASSUME SaveDefault(t)
      PROVE  /\ nvs' = [nvs EXCEPT !["default"][th[t].s] = th[t].d]
             /\ Return(t, "ok") /\ diverged' = {}
  <2>1. th[t].op = "set_default"
    BY <1>0, <1>5 DEF SaveDefault, ThreadShape, InProgress, Shape, DefaultPCs
  <2> QED
    BY <1>1, <1>2, <1>5, <2>1 DEF SaveDefault
<1>6. ASSUME SaveFlag(t)
      PROVE  /\ nvs' = [nvs EXCEPT !["changed"][th[t].s] = Flag(t)]
             /\ Return(t, "ok") /\ diverged' = {}
  BY <1>1, <1>3, <1>6 DEF SaveFlag
<1> QED
  BY <1>4, <1>5, <1>6

LEMMA StoredStep ==
    ASSUME Ground, NEW t \in Threads, Begin(t) \/ Step(t)
    PROVE  StoredInv'
<1>0. TypeOK /\ ThreadShape /\ diverged = {} /\ DependableFlash
  BY GroundFacts DEF Ground
<1>1. diverged' = {}
  BY <1>0, BeginShape, CheckShape, Saves
     DEF Step, Checks, observers, ValueSetCb, Notify, FlagSetCb, DefaultSetCb,
         LoadDefault, LoadValue, LoadChanged, Subtree
<1>2. ASSUME NEW u \in Threads
      PROVE  NeverEmpty(u)' /\ th'[u].op \notin {"restore", "restore_all"}
  <2>1. NeverEmpty(u) /\ th[u].op \notin {"restore", "restore_all"}
    BY DEF Ground, StoredInv
  <2>2. CASE u # t
    BY <1>0, <2>1, <2>2, OthersStay DEF NeverEmpty
  <2>3. CASE u = t /\ Begin(t)
    BY <1>0, <2>3, BeginStored
  <2>4. CASE u = t /\ Step(t)
    BY <2>1, <2>4, PayloadStays DEF NeverEmpty
  <2> QED
    BY <2>2, <2>3, <2>4
<1>3. ASSUME NEW u \in Threads, th'[u].op = "set", th'[u].pc \in FlagPCs
      PROVE  nvs'["value"][th'[u].s] = th'[u].d
  <2>0. th[u].op = "set" /\ th[u].pc \in FlagPCs =>
            th[u].s \in Settings /\ nvs["value"][th[u].s] = th[u].d
    BY ClaimsOwn DEF Ground, StoredInv
  <2>1. CASE u # t
    <3>1. th'[u] = th[u]
      BY <1>0, <2>1, OthersStay
    <3>2. th[u].s \in Settings /\ th[u].s \in Claims(u)
      BY <1>3, <2>0, <3>1, ClaimsOwn DEF Ground
    <3>3. Untouched(th[u].s)
      BY <2>1, <3>2, OneWriter DEF Ground
    <3> QED
      BY <1>3, <2>0, <3>1, <3>3 DEF Untouched, Areas
  <2>2. CASE u = t
    <3>1. ~Begin(t)
      BY <1>0, <1>3, <2>2, BeginStored DEF FlagPCs
    <3>2. th'[t].pc \notin {"idle", "iterate"}
      BY <1>3, <2>2 DEF FlagPCs
    <3>3. \A r : ~Return(t, r)
      BY <1>0, <3>2, ReturnNarrows
    <3>4. ASSUME NEW pc, Goto(t, pc)
          PROVE /\ pc \in FlagPCs /\ th'[t].s = th[t].s /\ th'[t].d = th[t].d
                /\ th[t].op = "set"
      BY <1>0, <1>3, <2>2, <3>4, GotoEffect
    <3>5. CASE SaveValue(t)
      <4>1. nvs' = [nvs EXCEPT !["value"][th[t].s] = th[t].d]
        BY <3>5, Saves
      <4>2. Goto(t, "check_flag")
        BY <3>5, Saves
      <4>3. th[t].s \in Settings
        BY <3>5, ClaimsOwn DEF SaveValue, ValuePCs, Ground
      <4>4. nvs'["value"][th[t].s] = th[t].d
        BY <1>0, <4>1, <4>3 DEF TypeOK, Areas
      <4> QED
        BY <2>2, <3>4, <4>2, <4>4
    <3>6. CASE CheckFlag(t) \/ FlagSetCb(t)
      <4>1. th[t].pc \in FlagPCs /\ UNCHANGED nvs
        BY <3>6 DEF CheckFlag, FlagSetCb, FlagPCs
      <4>2. \E pc : Goto(t, pc)
        BY <3>3, <3>6 DEF CheckFlag, FlagSetCb
      <4> QED
        BY <2>0, <2>2, <3>4, <4>1, <4>2
    <3>7. CASE Iterate(t)
      <4>1. th'[t].op \in {"none", th[t].op} /\ th[t].op \in Loops
        BY <1>0, <3>1, <3>7, OpStays, LoopIterate
      <4> QED
        BY <1>3, <2>2, <4>1 DEF Loops
    <3>8. SaveValue(t) \/ CheckFlag(t) \/ FlagSetCb(t) \/ Iterate(t)
      <4>1. ~CheckRestore(t)
        BY <1>0 DEF Ground, StoredInv, CheckRestore, ThreadShape, InProgress,
                    Shape
      <4>2. \A pc \in PCs \ FlagPCs : ~Goto(t, pc)
        BY <3>4
      <4> QED
        BY <3>1, <3>3, <4>1, <4>2, Saves
           DEF Step, CheckValue, ValueSetCb, Notify, CheckDefault,
               DefaultSetCb, SaveFlag, SaveDefault, LoadDefault, LoadValue,
               LoadChanged, Subtree, PCs, FlagPCs
    <3> QED
      BY <3>5, <3>6, <3>7, <3>8
  <2> QED
    BY <2>1, <2>2
<1> QED
  BY <1>1, <1>2, <1>3 DEF StoredInv

LEMMA StoredNext ==
    ASSUME Ground, [Next]_vars
    PROVE  StoredInv'
<1>1. CASE Register
  <2>1. UNCHANGED <<th, nvs, diverged>>
    BY <1>1 DEF Register, SetGlobalOnChangeCb, SetOnChangeCb, SetValidateCb,
                observers
  <2> QED
    BY <2>1 DEF Ground, StoredInv, NeverEmpty
<1>2. CASE UNCHANGED vars
  <2>1. UNCHANGED <<th, nvs, diverged>>
    BY <1>2 DEF vars
  <2> QED
    BY <2>1 DEF Ground, StoredInv, NeverEmpty
<1>3. CASE Crash
  BY <1>3 DEF Crash, StoredInv, NeverEmpty, Resting, FlagPCs
<1> QED
  BY <1>1, <1>2, <1>3, StoredStep DEF Next

-----------------------------------------------------------------------------
(* A call that returns 0 is in flash                                         *)

\* At a check, a call finds flash and RAM in agreement on its settings.
LEMMA Settled ==
    ASSUME Ground, NEW t \in Threads, NEW s \in Settings, s \in Claims(t),
           th[t].pc \in {"check_value", "check_flag", "check_default", "iterate"},
           NEW a \in Areas
    PROVE  isLoaded /\ Agree(a, s)
<1>1. isLoaded /\ Covered(a, s) /\ diverged = {}
  BY DEF Ground, Before, Inv, Kept, LoadPCs, StoredInv
<1>2. ASSUME NEW u \in Threads PROVE ~Ahead(u, a, s)
  <2>1. CASE u = t
    BY <2>1 DEF Ahead, SavePending
  <2>2. CASE u # t
    BY <2>2, Alone DEF Ground, Before, Inv, Ahead
  <2> QED
    BY <2>1, <2>2
<1> QED
  BY <1>1, <1>2 DEF Covered

\* So a payload that RAM has already is the one in flash.
LEMMA SameIsStored ==
    ASSUME Ground, NEW t \in Threads, th[t].s \in Settings
    PROVE  /\ th[t].pc = "check_value" /\ SameValue(th[t].s, th[t].d) =>
                 nvs["value"][th[t].s] = th[t].d
           /\ th[t].pc = "check_default" /\ th[t].d = us[th[t].s].default =>
                 nvs["default"][th[t].s] = th[t].d
<1> DEFINE s == th[t].s
<1>1. s \in Claims(t) /\ Shape(th[t])
  BY ClaimsOwn DEF Ground
<1>2. DataFits(s)
  BY DEF Ground, Before, Inv
<1>3. ASSUME th[t].pc = "check_value", SameValue(s, th[t].d)
      PROVE  nvs["value"][s] = th[t].d
  <2>1. Agree("value", s) /\ th[t].d # Empty
    BY <1>1, <1>3, Settled, PayloadOf DEF Areas, ValuePCs
  <2> QED
    BY <1>2, <1>3, <2>1 DEF Agree, SameValue, DataFits, IsSet
<1>4. ASSUME th[t].pc = "check_default", th[t].d = us[s].default
      PROVE  nvs["default"][s] = th[t].d
  <2>1. Agree("default", s)
    BY <1>1, <1>4, Settled DEF Areas
  <2>2. th[t].d # Empty
    BY <1>1, <1>4, PayloadOf DEF Shape, DefaultPCs
  <2> QED
    BY <1>2, <1>4, <2>1, <2>2 DEF Agree, DataFits, GetDefault
<1> QED
  BY <1>3, <1>4

LEMMA ResultOf ==
    ASSUME TypeOK, NEW t \in Threads, th[t].op \in {"set", "set_default"},
           NEW r, Return(t, r)
    PROVE  th'[t] = Resting(r) /\ th'[t].pc = "idle" /\ th'[t].ret = r
BY DEF Return, Loops, Resting, TypeOK

LEMMA SuccessStep ==
    ASSUME Ground, [Next]_vars, NEW t \in Threads, Succeeds(t)
    PROVE  /\ th[t].op = "set" =>
                  nvs'["value"][th[t].s] = Stored(th[t].d)
           /\ th[t].op = "set_default" =>
                  nvs'["default"][th[t].s] = Stored(th[t].d)
<1> SUFFICES ASSUME th[t].op \in {"set", "set_default"}
             PROVE  /\ th[t].op = "set" => nvs'["value"][th[t].s] = th[t].d
                    /\ th[t].op = "set_default" =>
                           nvs'["default"][th[t].s] = th[t].d
  BY PayloadOf
<1> DEFINE s == th[t].s
<1>0. /\ TypeOK /\ ThreadShape /\ "value" \in Areas /\ "default" \in Areas
      /\ Shape(th[t]) /\ th[t] \in Thread
  BY GroundFacts DEF Areas, ThreadShape, InProgress
<1>1. Step(t) /\ th'[t].pc = "idle" /\ th'[t].ret = "ok"
  BY <1>0, OwnReturn DEF Succeeds, Returns
<1>2. s \in Settings
  BY <1>0, <1>1 DEF Shape, Thread, PCs, Step, CheckRestore, Iterate, CheckValue,
     ValueSetCb, Notify, SaveValue, CheckFlag, FlagSetCb, SaveFlag,
     CheckDefault, DefaultSetCb, SaveDefault, LoadDefault, LoadValue,
     LoadChanged, ValuePCs, FlagPCs, DefaultPCs, LoadPCs, Loops
<1>3. \A pc : Goto(t, pc) => pc = "idle"
  BY <1>0, <1>1, GotoEffect
<1>4. \A r : Return(t, r) => r = "ok"
  BY <1>0, <1>1, ResultOf
<1>5. CASE CheckValue(t)
  <2>1. SameValue(s, th[t].d) /\ nvs' = nvs /\ th[t].pc = "check_value"
    BY <1>3, <1>4, <1>5 DEF CheckValue
  <2> QED
    BY <1>0, <1>2, <2>1, SameIsStored DEF Shape, ValuePCs, Setters
<1>6. CASE CheckDefault(t)
  <2>1. /\ th[t].d = us[s].default /\ nvs' = nvs
        /\ th[t].pc = "check_default"
    BY <1>3, <1>4, <1>6 DEF CheckDefault
  <2> QED
    BY <1>0, <1>2, <2>1, SameIsStored DEF Shape, DefaultPCs
<1>7. CASE SaveDefault(t)
  <2>1. nvs' = [nvs EXCEPT !["default"][s] = th[t].d]
    BY <1>7, Saves
  <2>2. nvs'["default"][s] = th[t].d
    BY <1>0, <1>2, <2>1 DEF TypeOK
  <2> QED
    BY <1>0, <1>7, <2>2 DEF SaveDefault, Shape, DefaultPCs
<1>8. CASE CheckFlag(t) \/ SaveFlag(t)
  <2>1. th[t].pc \in FlagPCs
    BY <1>8 DEF CheckFlag, SaveFlag, FlagPCs
  <2>2. th[t].op = "set" /\ nvs["value"][s] = th[t].d
    BY <1>0, <2>1 DEF Shape, Setters, Marks, Ground, StoredInv
  <2>3. nvs'["value"][s] = nvs["value"][s]
    BY <1>0, <1>1, <1>2, <1>8, FlashChange DEF CheckFlag, SaveFlag, SaveValue
  <2> QED
    BY <2>2, <2>3
<1>9. CheckValue(t) \/ CheckDefault(t) \/ SaveDefault(t) \/ CheckFlag(t)
          \/ SaveFlag(t)
  <2>1. ~CheckRestore(t) /\ ~Iterate(t) /\ ~Loads(t)
    BY <1>0 DEF CheckRestore, Iterate, Loads, LoadDefault, LoadValue,
                LoadChanged, Shape, Loops, LoadPCs
  <2> QED
    BY <1>1, <1>3, <2>1, Saves
       DEF Step, Loads, ValueSetCb, Notify, FlagSetCb, DefaultSetCb
<1> QED
  BY <1>5, <1>6, <1>7, <1>8, <1>9

\* Where no save fails and no zero-length payload is passed, a set or a
\* set_default that returns 0 has its payload in flash, the same-value
\* shortcut included: for any settings and threads, with reloads, failing
\* loads and power cuts.
THEOREM SuccessStored ==
    ASSUME Serialized, DependableFlash
    PROVE  Spec => SuccessIsStored
<1>1. Init => TypeOK /\ Inv /\ StoredInv
  BY InitType, InitInv, InitStored
<1>2. TypeOK /\ Inv /\ StoredInv /\ [Next]_vars
          => TypeOK' /\ Inv' /\ StoredInv'
  BY NextType, NextInv, StoredNext DEF Before, Inv, Ground
<1>3. TypeOK /\ Inv /\ StoredInv /\ [Next]_vars
          => [\A t \in Threads : Succeeds(t) =>
                /\ th[t].op = "set" =>
                       nvs'["value"][th[t].s] = Stored(th[t].d)
                /\ th[t].op = "set_default" =>
                       nvs'["default"][th[t].s] = Stored(th[t].d)]_vars
  BY SuccessStep DEF Before, Ground
<1> QED
  BY <1>1, <1>2, <1>3, PTL DEF Spec, SuccessIsStored

-----------------------------------------------------------------------------
(* Every step of the core is a step of the store, or does not show           *)

calls == [t \in Threads |-> CallOf(t)]
flags == [s \in Settings |-> nvs["changed"][s] = TRUE]

\* The step of t that ends its call with result r; the others' calls go on.
LEMMA CallEnds ==
    ASSUME Ground, NEW t \in Threads, Step(t), NEW r,
           th' = [th EXCEPT ![t] = Resting(r)]
    PROVE  calls' = [calls EXCEPT ![t] = Store!Done(r)]
<1>1. th'[t] = Resting(r) /\ \A u \in Threads \ {t} : th'[u] = th[u]
  BY DEF Ground, Before, TypeOK
<1>2. CallOf(t)' = Store!Done(r)
  BY <1>1 DEF CallOf, Resting, Store!Done
<1>3. \A u \in Threads \ {t} : CallOf(u)' = CallOf(u)
  BY <1>1 DEF CallOf
<1> QED
  BY <1>2, <1>3 DEF calls

\* A step that leaves the store's view of the call of t and flash as they are.
LEMMA Hidden ==
    ASSUME Ground, NEW t \in Threads, Begin(t) \/ Step(t),
           UNCHANGED nvs, CallOf(t)' = CallOf(t)
    PROVE  UNCHANGED Store!vars
<1>1. \A u \in Threads \ {t} : CallOf(u)' = CallOf(u)
  BY GroundFacts, OthersStay DEF CallOf
<1> QED
  BY <1>1 DEF Store!vars

LEMMA InitStore == Init => Store!Init
<1> SUFFICES ASSUME Init PROVE Store!Init
  OBVIOUS
<1>1. \A s \in Settings : (nvs["changed"][s] = TRUE) = FALSE
  BY PayloadAssumption DEF Init, Areas
<1>2. \A t \in Threads : CallOf(t) = Store!Done("none")
  BY DEF Init, CallOf, Resting, Store!Done
<1> QED
  BY <1>1, <1>2 DEF Init, Store!Init, Areas

\* The start of a call.
LEMMA StoreBegins ==
    ASSUME Ground, NEW t \in Threads, Begin(t)
    PROVE  Store!Begins(t)
<1>0. TypeOK /\ UNCHANGED nvs
  BY GroundFacts, BeginShape
<1>1. \A u \in Threads \ {t} : CallOf(u)' = CallOf(u)
  BY GroundFacts, OthersStay DEF CallOf
<1>2. ASSUME NEW op, NEW pc, NEW s, NEW d, NEW S, Call(t, op, pc, s, d, S)
      PROVE  /\ th[t].pc = "idle"
             /\ th'[t].pc = pc /\ th'[t].op = op
             /\ th'[t].s = s /\ th'[t].d = d
  BY <1>0, <1>2 DEF Call, TypeOK
<1>3. ASSUME NEW op, NEW s, NEW d, th[t].pc = "idle",
             CallOf(t)' = [op |-> op, s |-> s, d |-> d, stage |-> "begun"]
      PROVE  Store!Invoke(t, op, s, d)
  <2>1. CallOf(t).op = "none"
    BY <1>3 DEF CallOf
  <2>2. calls[t].op = "none"
    BY <2>1 DEF calls
  <2>3. calls' = [calls EXCEPT ![t] = [op |-> op, s |-> s, d |-> d,
                                       stage |-> "begun"]]
    BY <1>1, <1>3 DEF calls
  <2> QED
    BY <1>0, <2>2, <2>3 DEF Store!Invoke, calls
<1>4. CASE \E s \in Settings, d \in Inputs : Set(t, s, d) \/ SetDefault(t, s, d)
  <2>1. PICK s \in Settings, d \in Inputs : Set(t, s, d) \/ SetDefault(t, s, d)
    BY <1>4
  <2>2. d \in Payload
    BY PayloadAssumption
  <2>3. CASE Set(t, s, d)
    <3>1. CallOf(t)' = [op |-> "set", s |-> s, d |-> d, stage |-> "begun"]
      BY <1>2, <2>3 DEF Set, ApiCall, CallOf, Loops, FlagPCs
    <3>2. th[t].pc = "idle"
      BY <2>3 DEF Set, ApiCall, Call
    <3>3. Store!Invoke(t, "set", s, d)
      BY <1>3, <3>1, <3>2
    <3> QED
      BY <2>2, <3>3 DEF Store!Begins
  <2>4. CASE SetDefault(t, s, d)
    <3>1. CallOf(t)' = [op |-> "set_default", s |-> s, d |-> d, stage |-> "begun"]
      BY <1>2, <2>4 DEF SetDefault, ApiCall, CallOf, Loops, FlagPCs
    <3>2. th[t].pc = "idle"
      BY <2>4 DEF SetDefault, ApiCall, Call
    <3>3. Store!Invoke(t, "set_default", s, d)
      BY <1>3, <3>1, <3>2
    <3> QED
      BY <2>2, <3>3 DEF Store!Begins
  <2> QED
    BY <2>1, <2>3, <2>4
<1>5. CASE \E s \in Settings : Mark(t, s) \/ Clear(t, s)
  <2>1. PICK s \in Settings, op \in {"mark", "clear"} :
          Call(t, op, "check_flag", s, Empty, {s})
    BY <1>5 DEF Mark, Clear, ApiCall
  <2>2. CallOf(t)' = [op |-> op, s |-> s, d |-> NULL, stage |-> "begun"]
    BY <1>2, <2>1 DEF CallOf, Loops
  <2>3. th[t].pc = "idle"
    BY <2>1 DEF Call
  <2>4. Store!Invoke(t, op, s, NULL)
    BY <1>3, <2>2, <2>3
  <2> QED
    BY <2>4 DEF Store!Begins
<1>6. CASE ClearAll(t) \/ Load(t)
  <2>1. PICK op \in {"clear_all", "load"}, pc \in {"iterate", "load_default"} :
          Call(t, op, pc, 0, Empty, Settings)
    BY <1>6 DEF ClearAll, Load, ApiCall
  <2>2. CallOf(t)' = [op |-> op, s |-> NULL, d |-> NULL, stage |-> "begun"]
    BY <1>2, <2>1 DEF CallOf, Loops
  <2>3. th[t].pc = "idle"
    BY <2>1 DEF Call
  <2>4. Store!Invoke(t, op, NULL, NULL)
    BY <1>3, <2>2, <2>3
  <2> QED
    BY <2>4 DEF Store!Begins
<1>7. \A s : ~Restore(t, s) /\ ~RestoreAll(t)
  BY DEF Restore, RestoreAll, ApiCall, Ground, DependableFlash
<1> QED
  BY <1>4, <1>5, <1>6, <1>7 DEF Begin

\* A move within a call does not show, but for the one from the value to the
\* flag of a set.
LEMMA Moves ==
    ASSUME NEW t \in Threads, NEW pc, At(t, pc),
           th[t].pc # "idle", pc # "idle",
           th[t].op = "set" => (pc \in FlagPCs <=> th[t].pc \in FlagPCs)
    PROVE  CallOf(t)' = CallOf(t)
BY DEF At, CallOf

\* What the store sees of a call under way.
LEMMA CallSeen ==
    ASSUME Ground, NEW t \in Threads, th[t].pc # "idle"
    PROVE  /\ calls[t].op = th[t].op
           /\ th[t].pc \in ValuePCs \cup FlagPCs \cup DefaultPCs
                  /\ th[t].op \notin Loops => calls[t].s = th[t].s
           /\ th[t].op \in {"set", "set_default"} => calls[t].d = th[t].d
           /\ calls[t].stage = IF th[t].op = "set" /\ th[t].pc \in FlagPCs
                               THEN "stored" ELSE "begun"
<1>1. Shape(th[t])
  BY DEF Ground, Before, Inv, ThreadShape, InProgress
<1> QED
  BY <1>1 DEF calls, CallOf, Shape, ValuePCs, FlagPCs, DefaultPCs, LoadPCs

LEMMA StoreCheckValue ==
    ASSUME Ground, NEW t \in Threads, CheckValue(t)
    PROVE  [Store!Next]_Store!vars
<1> DEFINE s == th[t].s
<1>0. /\ TypeOK /\ ThreadShape /\ Step(t) /\ s \in Settings
      /\ th[t].op = "set" /\ th[t].pc = "check_value" /\ UNCHANGED nvs
  BY GroundFacts, ClaimsOwn, PayloadOf DEF Step, CheckValue, ValuePCs, Ground
<1>1. /\ calls[t].op = "set" /\ calls[t].s = s /\ calls[t].d = th[t].d
      /\ calls[t].stage = "begun"
  BY <1>0, CallSeen DEF ValuePCs, FlagPCs, Loops
<1>2. ASSUME NEW r, Return(t, r)
      PROVE  calls' = [calls EXCEPT ![t] = Store!Done(r)]
  BY <1>0, <1>2, CallEnds DEF Return, Loops
<1>3. CASE Return(t, "ENOMEM") \/ Return(t, "EINVAL")
  <2>1. Store!Refuse(t)
    BY <1>0, <1>1, <1>2, <1>3 DEF Store!Refuse, Store!Return, calls, Results
  <2> QED
    BY <2>1 DEF Store!Next
<1>4. CASE SameValue(s, th[t].d) /\ Return(t, "ok")
  <2>1. nvs["value"][s] = th[t].d
    BY <1>0, <1>4, SameIsStored
  <2>2. Store!KeepValue(t)
    BY <1>0, <1>1, <1>2, <1>4, <2>1 DEF Store!KeepValue, Store!Return, calls
  <2> QED
    BY <2>2 DEF Store!Next
<1>5. CASE Goto(t, "value_rt")
  <2>1. At(t, "value_rt")
    BY <1>0, <1>5, FromGoto
  <2>2. CallOf(t)' = CallOf(t)
    BY <1>0, <2>1, Moves DEF FlagPCs
  <2> QED
    BY <1>0, <2>2, Hidden
<1> QED
  BY <1>3, <1>4, <1>5 DEF CheckValue

\* The write to RAM and the callbacks do not show.
LEMMA StoreQuiet ==
    ASSUME Ground, NEW t \in Threads,
           \/ ValueSetCb(t) \/ Notify(t) \/ FlagSetCb(t) \/ DefaultSetCb(t)
    PROVE  UNCHANGED Store!vars
<1>0. TypeOK /\ Step(t) /\ UNCHANGED nvs
  BY GroundFacts DEF Step, ValueSetCb, Notify, FlagSetCb, DefaultSetCb
<1>1. \E pc \in PCs : At(t, pc) /\ th[t].pc # "idle" /\ pc # "idle"
                          /\ (pc \in FlagPCs <=> th[t].pc \in FlagPCs)
  BY <1>0, FromGoto DEF ValueSetCb, Notify, FlagSetCb, DefaultSetCb, FlagPCs, PCs
<1>2. CallOf(t)' = CallOf(t)
  BY <1>1, Moves
<1> QED
  BY <1>0, <1>2, Hidden

LEMMA StoreSaveValue ==
    ASSUME Ground, NEW t \in Threads, SaveValue(t)
    PROVE  Store!StoreValue(t)
<1> DEFINE s == th[t].s
<1>0. /\ TypeOK /\ ThreadShape /\ Step(t) /\ s \in Settings
      /\ th[t].op = "set" /\ th[t].pc = "value_save"
  BY GroundFacts, ClaimsOwn, PayloadOf DEF Step, SaveValue, ValuePCs, Ground
<1>1. /\ calls[t].op = "set" /\ calls[t].s = s /\ calls[t].d = th[t].d
      /\ calls[t].stage = "begun"
  BY <1>0, CallSeen DEF ValuePCs, FlagPCs, Loops
<1>2. nvs' = [nvs EXCEPT !["value"][s] = th[t].d] /\ At(t, "check_flag")
  BY <1>0, FromGoto, Saves
<1>3. /\ nvs'["value"] = [nvs["value"] EXCEPT ![s] = th[t].d]
      /\ nvs'["default"] = nvs["default"] /\ nvs'["changed"] = nvs["changed"]
  BY <1>0, <1>2 DEF TypeOK, Areas
<1>4. CallOf(t)' = [CallOf(t) EXCEPT !.stage = "stored"]
  BY <1>0, <1>2 DEF At, CallOf, FlagPCs, Loops
<1>5. \A u \in Threads \ {t} : CallOf(u)' = CallOf(u)
  BY <1>0, OthersStay DEF CallOf
<1>6. calls' = [calls EXCEPT ![t].stage = "stored"]
  BY <1>4, <1>5 DEF calls
<1> QED
  BY <1>1, <1>3, <1>6 DEF Store!StoreValue, calls

LEMMA StoreCheckDefault ==
    ASSUME Ground, NEW t \in Threads, CheckDefault(t)
    PROVE  [Store!Next]_Store!vars
<1> DEFINE s == th[t].s
<1>0. /\ TypeOK /\ ThreadShape /\ Step(t) /\ s \in Settings
      /\ th[t].op = "set_default" /\ th[t].pc = "check_default" /\ UNCHANGED nvs
  BY GroundFacts
     DEF Step, CheckDefault, ThreadShape, InProgress, Shape, DefaultPCs
<1>1. /\ calls[t].op = "set_default" /\ calls[t].s = s
      /\ calls[t].d = th[t].d /\ calls[t].stage = "begun"
  BY <1>0, CallSeen DEF DefaultPCs, Loops
<1>2. ASSUME NEW r, Return(t, r)
      PROVE  calls' = [calls EXCEPT ![t] = Store!Done(r)]
  BY <1>0, <1>2, CallEnds DEF Return, Loops
<1>3. CASE Return(t, "ENOMEM") \/ Return(t, "EINVAL") \/ Return(t, "EALREADY")
  <2>1. Store!Refuse(t)
    BY <1>0, <1>1, <1>2, <1>3 DEF Store!Refuse, Store!Return, calls, Results
  <2> QED
    BY <2>1 DEF Store!Next
<1>4. CASE th[t].d = us[s].default /\ Return(t, "ok")
  <2>1. nvs["default"][s] = th[t].d
    BY <1>0, <1>4, SameIsStored
  <2>2. nvs'["default"] = [nvs["default"] EXCEPT ![s] = th[t].d]
    BY <1>0, <2>1 DEF TypeOK, Areas
  <2>3. Store!StoreDefault(t)
    BY <1>0, <1>1, <1>2, <1>4, <2>2 DEF Store!StoreDefault, Store!Return, calls
  <2> QED
    BY <2>3 DEF Store!Next
<1>5. CASE Goto(t, "default_rt")
  <2>1. At(t, "default_rt")
    BY <1>0, <1>5, FromGoto
  <2>2. CallOf(t)' = CallOf(t)
    BY <1>0, <2>1, Moves
  <2> QED
    BY <1>0, <2>2, Hidden
<1> QED
  BY <1>3, <1>4, <1>5 DEF CheckDefault

LEMMA StoreSaveDefault ==
    ASSUME Ground, NEW t \in Threads, SaveDefault(t)
    PROVE  Store!StoreDefault(t)
<1> DEFINE s == th[t].s
<1>0. /\ TypeOK /\ ThreadShape /\ Step(t) /\ s \in Settings
      /\ th[t].op = "set_default" /\ th[t].pc = "default_save"
  BY GroundFacts
     DEF Step, SaveDefault, ThreadShape, InProgress, Shape, DefaultPCs
<1>1. /\ calls[t].op = "set_default" /\ calls[t].s = s /\ calls[t].d = th[t].d
  BY <1>0, CallSeen DEF DefaultPCs, Loops
<1>2. nvs' = [nvs EXCEPT !["default"][s] = th[t].d] /\ Return(t, "ok")
  BY Saves
<1>3. /\ nvs'["default"] = [nvs["default"] EXCEPT ![s] = th[t].d]
      /\ nvs'["value"] = nvs["value"] /\ nvs'["changed"] = nvs["changed"]
  BY <1>0, <1>2 DEF TypeOK, Areas
<1>4. calls' = [calls EXCEPT ![t] = Store!Done("ok")]
  BY <1>0, <1>2, CallEnds DEF Return, Loops
<1> QED
  BY <1>1, <1>3, <1>4 DEF Store!StoreDefault, Store!Return, calls

\* The flag: of a set, of mark and clear, and of one element of clear_changed.
LEMMA FlagCall ==
    ASSUME Ground, NEW t \in Threads, th[t].pc \in FlagPCs
    PROVE  /\ th[t].s \in Settings
           /\ \/ /\ th[t].op = "set"
                 /\ calls[t].op = "set" /\ calls[t].s = th[t].s
                 /\ calls[t].stage = "stored"
              \/ /\ th[t].op \in {"mark", "clear"}
                 /\ calls[t].op = th[t].op /\ calls[t].s = th[t].s
              \/ th[t].op = "clear_all" /\ calls[t].op = "clear_all"
           /\ Flag(t) = (th[t].op \notin {"clear", "clear_all"})
<1>1. /\ Shape(th[t]) /\ th[t].pc # "idle"
      /\ th[t].op \notin {"restore", "restore_all"}
  BY DEF Ground, Before, Inv, StoredInv, ThreadShape, InProgress, FlagPCs
<1>2. th[t].op \in {"set", "mark", "clear", "clear_all"}
  BY <1>1 DEF Shape, Setters, Marks
<1> QED
  BY <1>1, <1>2, CallSeen DEF Shape, Flag, Setters, Loops

\* The store's flag after the save, or instead of it when it is right already.
LEMMA StoreTheFlag ==
    ASSUME Ground, NEW t \in Threads, Step(t), th[t].pc \in FlagPCs,
           Return(t, "ok"), UNCHANGED <<nvs["value"], nvs["default"]>>,
           flags' = [flags EXCEPT ![th[t].s] = Flag(t)]
    PROVE  Store!StoreFlag(t) \/ Store!ClearOne(t)
<1>0. TypeOK /\ ThreadShape
  BY GroundFacts
<1>1. CASE th[t].op = "clear_all"
  <2>1. At(t, "iterate")
    BY <1>0, <1>1, LoopReturn DEF Loops
  <2>2. CallOf(t)' = CallOf(t)
    BY <1>1, <2>1, Moves DEF FlagPCs
  <2>3. \A u \in Threads \ {t} : CallOf(u)' = CallOf(u)
    BY <1>0, OthersStay DEF CallOf
  <2>4. calls' = calls
    BY <2>2, <2>3 DEF calls
  <2>5. flags' = [flags EXCEPT ![th[t].s] = FALSE] /\ th[t].s \in Settings
    BY <1>1, FlagCall
  <2> QED
    BY <1>1, <2>4, <2>5, FlagCall DEF Store!ClearOne, calls, flags
<1>2. CASE th[t].op # "clear_all"
  <2>1. th' = [th EXCEPT ![t] = Resting("ok")]
    BY <1>2, FlagCall DEF Return, Loops
  <2>2. calls' = [calls EXCEPT ![t] = Store!Done("ok")]
    BY <2>1, CallEnds
  <2>3. /\ flags' = [flags EXCEPT ![calls[t].s] = calls[t].op # "clear"]
        /\ \/ calls[t].op = "set" /\ calls[t].stage = "stored"
           \/ calls[t].op \in {"mark", "clear"}
    BY <1>2, FlagCall
  <2> QED
    BY <2>2, <2>3 DEF Store!StoreFlag, Store!Return, calls, flags
<1> QED
  BY <1>1, <1>2

LEMMA StoreCheckFlag ==
    ASSUME Ground, NEW t \in Threads, CheckFlag(t)
    PROVE  [Store!Next]_Store!vars
<1> DEFINE s == th[t].s
<1>0. /\ TypeOK /\ ThreadShape /\ Step(t) /\ s \in Settings
      /\ th[t].pc = "check_flag" /\ th[t].pc \in FlagPCs /\ UNCHANGED nvs
  BY GroundFacts, FlagCall DEF Step, CheckFlag, FlagPCs
<1>1. CASE us[s].changed = Flag(t) /\ Return(t, "ok")
  <2>1. Agree("changed", s)
    BY <1>0, Settled, ClaimsOwn DEF Areas, Ground
  <2>2. flags[s] = Flag(t)
    BY <1>0, <1>1, <2>1 DEF Agree, flags
  <2>3. flags' = [flags EXCEPT ![s] = Flag(t)]
    BY <1>0, <2>2 DEF flags
  <2>4. Store!StoreFlag(t) \/ Store!ClearOne(t)
    BY <1>0, <1>1, <2>3, StoreTheFlag
  <2> QED
    BY <2>4 DEF Store!Next
<1>2. CASE Goto(t, "flag_rt")
  <2>1. At(t, "flag_rt")
    BY <1>0, <1>2, FromGoto
  <2>2. CallOf(t)' = CallOf(t)
    BY <1>0, <2>1, Moves DEF FlagPCs
  <2> QED
    BY <1>0, <2>2, Hidden
<1> QED
  BY <1>1, <1>2 DEF CheckFlag

LEMMA StoreSaveFlag ==
    ASSUME Ground, NEW t \in Threads, SaveFlag(t)
    PROVE  Store!StoreFlag(t) \/ Store!ClearOne(t)
<1> DEFINE s == th[t].s
<1>0. /\ TypeOK /\ Step(t) /\ s \in Settings /\ th[t].pc \in FlagPCs
  BY GroundFacts, FlagCall DEF Step, SaveFlag, FlagPCs
<1>1. nvs' = [nvs EXCEPT !["changed"][s] = Flag(t)] /\ Return(t, "ok")
  BY Saves
<1>2. /\ nvs'["changed"] = [nvs["changed"] EXCEPT ![s] = Flag(t)]
      /\ nvs'["value"] = nvs["value"] /\ nvs'["default"] = nvs["default"]
      /\ nvs["changed"] \in [Settings -> Payload \cup BOOLEAN \cup {NULL}]
  BY <1>0, <1>1 DEF TypeOK, Areas
<1>3. Flag(t) \in BOOLEAN
  BY DEF Flag
<1>4. \A r \in Settings : (nvs'["changed"][r] = TRUE) =
          IF r = s THEN Flag(t) ELSE nvs["changed"][r] = TRUE
  BY <1>2, <1>3
<1>5. flags' = [flags EXCEPT ![s] = Flag(t)]
  BY <1>4 DEF flags
<1> QED
  BY <1>0, <1>1, <1>2, <1>5, StoreTheFlag

\* The loop of clear_changed ends when every flag is clear, in flash too.
LEMMA StoreIterate ==
    ASSUME Ground, LoopInv, NEW t \in Threads, Iterate(t)
    PROVE  [Store!Next]_Store!vars
<1>0. /\ TypeOK /\ ThreadShape /\ Step(t) /\ th[t].pc = "iterate"
      /\ UNCHANGED nvs /\ th[t].op = "clear_all"
  BY GroundFacts, PayloadOf, LoopIterate DEF Step, Iterate
<1>1. CASE th' = [th EXCEPT ![t] = Resting("ok")] /\ AtEnd(t)
  <2>1. calls' = [calls EXCEPT ![t] = Store!Done("ok")]
    BY <1>0, <1>1, CallEnds
  <2>2. \A s \in Settings : ~us[s].changed
    <3>1. Progress(t) /\ th[t].s = N
      BY <1>1 DEF LoopInv, AtEnd
    <3>2. \A s \in Settings : s = N \/ s \in 1..(N - 1)
      BY CountAssumption DEF Settings
    <3> QED
      BY <1>0, <3>1, <3>2, CountAssumption DEF Progress
  <2>3. \A s \in Settings : ~flags[s]
    <3>1. \A s \in Settings : Agree("changed", s)
      BY <1>0, Settled DEF Claims, Loops, Areas
    <3> QED
      BY <2>2, <3>1 DEF Agree, flags
  <2>4. calls[t].op = "clear_all"
    BY <1>0, CallSeen
  <2>5. Store!ClearedAll(t)
    BY <1>0, <2>1, <2>3, <2>4 DEF Store!ClearedAll, Store!Return, calls, flags
  <2> QED
    BY <2>5 DEF Store!Next
<1>2. CASE th'[t].op = "clear_all" /\ th'[t].pc # "idle"
  <2>1. CallOf(t)' = CallOf(t)
    BY <1>0, <1>2 DEF CallOf, Loops
  <2> QED
    BY <1>0, <2>1, Hidden
<1>3. \/ th' = [th EXCEPT ![t] = Resting("ok")] /\ AtEnd(t)
      \/ th'[t].op = "clear_all" /\ th'[t].pc # "idle"
  BY <1>0, LoopIterate DEF Iterate, AtEnd
<1> QED
  BY <1>1, <1>2, <1>3

\* A load reads the store.
LEMMA StoreLoads ==
    ASSUME Ground, NEW t \in Threads, Loads(t)
    PROVE  [Store!Next]_Store!vars
<1>0. /\ TypeOK /\ ThreadShape /\ Step(t) /\ UNCHANGED nvs
      /\ th[t].op = "load" /\ th[t].pc \in LoadPCs
  BY GroundFacts
     DEF Step, Loads, LoadDefault, LoadValue, LoadChanged, Subtree,
         ThreadShape, InProgress, Shape, LoadPCs
<1>1. calls[t].op = "load" /\ calls[t].stage = "begun"
  BY <1>0, CallSeen DEF LoadPCs
<1>2. ASSUME NEW r, Return(t, r)
      PROVE  calls' = [calls EXCEPT ![t] = Store!Done(r)]
  BY <1>0, <1>2, CallEnds DEF Return, Loops
<1>3. CASE Return(t, "EIO")
  <2>1. Store!Refuse(t)
    BY <1>0, <1>1, <1>2, <1>3 DEF Store!Refuse, Store!Return, calls, Results
  <2> QED
    BY <2>1 DEF Store!Next
<1>4. CASE Return(t, "ok")
  <2>1. Store!Loaded(t)
    BY <1>0, <1>1, <1>2, <1>4 DEF Store!Loaded, Store!Return, calls
  <2> QED
    BY <2>1 DEF Store!Next
<1>5. ASSUME NEW pc \in LoadPCs, Goto(t, pc) PROVE UNCHANGED Store!vars
  <2>1. At(t, pc)
    BY <1>0, <1>5, FromGoto
  <2>2. CallOf(t)' = CallOf(t)
    BY <1>0, <2>1, Moves DEF LoadPCs
  <2> QED
    BY <1>0, <2>2, Hidden
<1> QED
  BY <1>3, <1>4, <1>5
     DEF Loads, LoadDefault, LoadValue, LoadChanged, Subtree, LoadPCs

\* A power cut ends the calls.
LEMMA StoreCrash ==
    ASSUME Crash
    PROVE  Store!PowerCut
<1>1. \A t \in Threads : CallOf(t)' = Store!Done("none")
  BY DEF Crash, CallOf, Resting, Store!Done
<1>2. calls' = [t \in Threads |-> Store!Done("none")]
  BY <1>1 DEF calls
<1> QED
  BY <1>2 DEF Crash, Store!PowerCut, calls

LEMMA StoreStep ==
    ASSUME Ground, LoopInv, [Next]_vars
    PROVE  [Store!Next]_Store!vars
<1>1. ASSUME NEW t \in Threads, Begin(t) PROVE Store!Next
  BY <1>1, StoreBegins DEF Store!Next
<1>2. ASSUME NEW t \in Threads, Step(t) PROVE [Store!Next]_Store!vars
  <2>1. ~CheckRestore(t)
    BY DEF Ground, StoredInv, CheckRestore, Before, Inv, ThreadShape,
           InProgress, Shape
  <2>2. SaveValue(t) \/ SaveFlag(t) \/ SaveDefault(t) => Store!Next
    BY StoreSaveValue, StoreSaveFlag, StoreSaveDefault DEF Store!Next
  <2> QED
    BY <1>2, <2>1, <2>2, StoreIterate, StoreCheckValue, StoreQuiet,
       StoreCheckFlag, StoreCheckDefault, StoreLoads DEF Step, Loads
<1>3. CASE Register \/ UNCHANGED vars
  <2>1. UNCHANGED <<th, nvs>>
    BY <1>3 DEF Register, SetGlobalOnChangeCb, SetOnChangeCb, SetValidateCb,
                observers, vars
  <2> QED
    BY <2>1 DEF Store!vars, CallOf
<1>4. CASE Crash
  BY <1>4, StoreCrash DEF Store!Next
<1> QED
  BY <1>1, <1>2, <1>3, <1>4 DEF Next

\* The core implements the durable store of SettingsStore: where no save fails
\* or deletes an entry, and calls on one setting do not overlap, each call
\* takes effect in flash once, between its start and its return, and not at
\* all when it returns an error; a power cut loses nothing that is stored.
THEOREM Refinement ==
    ASSUME Serialized, DependableFlash
    PROVE  Spec => ImplementsStore
<1>1. Init => TypeOK /\ Inv /\ StoredInv /\ LoopInv /\ Store!Init
  BY InitType, InitInv, InitStored, InitLoop, InitStore
<1>2. TypeOK /\ Inv /\ StoredInv /\ LoopInv /\ [Next]_vars
          => TypeOK' /\ Inv' /\ StoredInv' /\ LoopInv'
  BY NextType, NextInv, StoredNext, LoopNext DEF Before, Inv, Ground
<1>3. TypeOK /\ Inv /\ StoredInv /\ LoopInv /\ [Next]_vars
          => [Store!Next]_Store!vars
  BY StoreStep DEF Before, Ground
<1> QED
  BY <1>1, <1>2, <1>3, PTL DEF Spec, ImplementsStore, Store!Spec

=============================================================================
