----------------------- MODULE SettingsProtocol_proofs -----------------------
(***************************************************************************)
(* The protocol executor under the Bluetooth service, for any settings,    *)
(* requests and buffer.                                                    *)
(***************************************************************************)
EXTENDS SettingsProtocolInv, BinaryCodec_proofs, FiniteSetTheorems

Fields(s) == [value : Fits[s] \cup {None}, default : Fits[s] \cup {None}]

-----------------------------------------------------------------------------
(* What is encoded, and what is decoded.                                     *)

\* A setting as RAM holds it can be encoded.
LEMMA Encodable ==
    ASSUME NEW s \in Settings, NEW r,
           r.value \in Fits[s] \cup {None}, r.default \in Fits[s] \cup {None}
    PROVE  /\ Described(s, r) \in Packet
           /\ Short(Described(s, r).data) /\ Short(Described(s, r).default)
<1> DEFINE d == Described(s, r)
<1>1. /\ Info[s].id \in IdRange /\ Info[s].key \in Seq(Octet \ {NUL})
      /\ Info[s].type \in Octet /\ Info[s].max \in Octet
      /\ \A v \in Fits[s] : v \in Seq(Octet) /\ Len(v) <= Info[s].max
  BY SettingsAssumption
<1>2. \A v \in Fits[s] \cup {None} : Bytes(v) \in Seq(Octet) /\ Short(Bytes(v))
  <2>1. ASSUME NEW v \in Fits[s]
        PROVE  v \in Seq(Octet) /\ Len(v) \in Octet
    <3>1. Len(v) \in Nat /\ Len(v) <= Info[s].max
      BY <1>1, LenProperties
    <3>2. QED  BY <1>1, <3>1, RadixAssumption DEF Octet
  <2>2. <<>> \in Seq(Octet) /\ Len(<<>>) \in Octet
    BY EmptySeq, ZeroIsAnId
  <2>3. QED  BY <2>1, <2>2 DEF Bytes, Short
<1>3. d.data = Bytes(r.value) /\ d.default = Bytes(r.default)
  BY DEF Described
<1>4. d \in Packet
  BY <1>1, <1>2 DEF Described, Packet
<1>5. QED  BY <1>2, <1>3, <1>4

\* What the client reads of it is what it is.
LEMMA ReadAsMeant ==
    ASSUME NEW s \in Settings, NEW r,
           r.value \in Fits[s] \cup {None}, r.default \in Fits[s] \cup {None}
    PROVE  ClientReads(Encoded(Described(s, r), IsFull(job.cmd)),
                       IsFull(job.cmd)) = Meant(s, r)
<1> DEFINE d == Described(s, r)
           full == IsFull(job.cmd)
<1>1. full \in BOOLEAN
  BY DEF IsFull
<1>2. d \in Packet /\ Short(d.data) /\ Short(d.default)
  BY Encodable
<1>3. Meant(s, r) =
         [id |-> d.id, key |-> d.key, type |-> d.type, data |-> d.data,
          default |-> IF full THEN d.default ELSE <<>>,
          max |-> IF full THEN d.max ELSE 0, extra |-> 0]
  BY DEF Meant
<1> HIDE DEF d, full
<1>4. ClientReads(Encoded(d, full), full) =
         [id |-> d.id, key |-> d.key, type |-> d.type, data |-> d.data,
          default |-> IF full THEN d.default ELSE <<>>,
          max |-> IF full THEN d.max ELSE 0, extra |-> 0]
  BY <1>1, <1>2, ReadsBack
<1>5. QED  BY <1>3, <1>4 DEF d, full

\* The encoder's check is exact: what passes it fits the response buffer.
LEMMA FitsResponse ==
    ASSUME NEW s \in Settings, NEW r, NEW cmd,
           r.value \in Fits[s] \cup {None}, r.default \in Fits[s] \cup {None}
    PROVE  LET d == Described(s, r)
               b == Encoded(d, IsFull(cmd))
           IN /\ b \in Seq(Octet)
              /\ EncodeFits(d, IsFull(cmd), RespLen) <=> Len(b) <= RespLen
<1> DEFINE d == Described(s, r)
           full == IsFull(cmd)
<1>1. full \in BOOLEAN /\ d \in Packet
  BY Encodable DEF IsFull
<1> HIDE DEF d, full
<1>2. Encoded(d, full) \in Seq(Octet) /\ Len(Encoded(d, full)) = Required(d, full)
  BY <1>1, Layout
<1>3. QED  BY <1>2 DEF d, full, EncodeFits

LEMMA AllIdsType ==
    AllIds \in Seq(IdRange) /\ N \in Nat
<1>1. N \in Nat
  BY ApiAssumption
<1>2. AllIds \in [1..N -> IdRange]
  BY SettingsAssumption DEF AllIds, Settings
<1>3. QED  BY <1>1, <1>2

LEMMA Lists ==
    /\ {USPC_LIST, USPC_LIST_FULL} \subseteq TypeOnly
    /\ USPC_RESTORE \in TypeOnly
    /\ USPC_RESTORE \notin {USPC_LIST, USPC_LIST_FULL}
    /\ TypeOnly = {USPC_LIST, USPC_LIST_FULL, USPC_RESTORE}
    /\ Reading \cap WithValue = {} /\ USPC_RESTORE \notin Reading
    /\ Commands = Reading \cup WithValue \cup {USPC_RESTORE}
    /\ USPC_RESTORE \notin WithValue /\ 0 \notin Commands
    /\ WithValue = {USPC_SET, USPC_SET_DEFAULT} /\ USPC_SET # USPC_SET_DEFAULT
BY DEF Reading, Commands, TypeOnly, OneId, WithValue, ManyIds, USPC_GET,
       USPC_GET_FULL, USPC_LIST, USPC_LIST_FULL, USPC_SET, USPC_SET_DEFAULT,
       USPC_RESTORE, USPC_LIST_SOME, USPC_LIST_SOME_FULL

LEMMA RequestedLen ==
    ASSUME NEW cmd \in CommandRecord
    PROVE  Len(Requested(cmd)) \in Nat
<1>1. Len(<<cmd.id>>) = 1
  OBVIOUS
<1>2. Len(AllIds) \in Nat
  BY AllIdsType, LenProperties
<1>3. Len(Ids(cmd)) \in Nat
  <2>1. cmd.len \in Octet
    BY DEF CommandRecord
  <2>2. cmd.len \div 2 \in Nat
    BY <2>1, RadixAssumption DEF Octet
  <2>3. QED  BY <2>2 DEF Ids
<1>4. QED  BY <1>1, <1>2, <1>3 DEF Requested

LEMMA GoesThroughAll ==
    ASSUME NEW cmd, NEW asked \in Seq(IdRange), asked = Requested(cmd)
    PROVE  Goes(cmd, asked)
<1>1. Len(asked) \in Nat
  BY LenProperties
<1>2. QED  BY <1>1 DEF Goes

\* A request is decoded as what its client asks for.
LEMMA RequestUnderstood ==
    ASSUME NEW q \in Requests
    PROVE  LET cmd == Decode(BytesOf(q))
           IN /\ cmd \in CommandRecord /\ cmd.err = "ok"
              /\ cmd.type = q.type /\ cmd.type \in Commands
              /\ AskedBy(q) \in Seq(IdRange)
              /\ cmd.type \in Reading => Goes(cmd, AskedBy(q))
              /\ cmd.type \in WithValue => AskedBy(q) = <<cmd.id>>
<1> DEFINE cmd == Decode(BytesOf(q))
           t == q.type
<1>1. /\ t \in Commands /\ q.ids \in Seq(IdRange)
      /\ t \in TypeOnly => q.ids = <<>>
      /\ t \in OneId \cup WithValue => Len(q.ids) = 1
      /\ t \in ManyIds => Len(q.ids) \in Octet
      /\ t \in WithValue => q.value \in Seq(Octet) /\ Len(q.value) \in Octet \ {0}
  BY RequestsAssumption
<1>2. AskedBy(q) \in Seq(IdRange)
  BY <1>1, AllIdsType DEF AskedBy
<1>3. t \in Octet /\ 0 \in Octet /\ 0 \in IdRange /\ <<>> \in Seq(Octet)
  BY <1>1, CommandTypes, ZeroIsAnId
<1>4. Len(q.ids) = 1 => q.ids[1] \in IdRange /\ q.ids = <<q.ids[1]>>
  BY <1>1
<1> HIDE DEF t
<1>5. CASE t \in TypeOnly
  <2>1. cmd = Command(t, 0, 0, <<>>)
    BY <1>5, DecodesTypeOnly DEF BytesOf, t
  <2>2. cmd \in CommandRecord /\ cmd.err = "ok" /\ cmd.type = t
    BY <1>3, <2>1 DEF Command, CommandRecord, t
  <2>3. t \notin OneId /\ t \notin ManyIds /\ t \notin WithValue
    BY <1>5, CommandTypes
  <2>4. t \in Reading => AskedBy(q) = AllIds
    BY <1>5, Lists DEF AskedBy, t
  <2>5. Requested(cmd) = AllIds
    BY <2>2, <2>3 DEF Requested
  <2>6. QED  BY <1>1, <1>2, <2>2, <2>3, <2>4, <2>5, GoesThroughAll DEF t
<1>6. CASE t \in OneId
  <2>1. cmd = Command(t, q.ids[1], 0, <<>>)
    BY <1>1, <1>4, <1>6, CommandTypes, DecodesOneId DEF BytesOf, t
  <2>2. /\ cmd \in CommandRecord /\ cmd.err = "ok" /\ cmd.type = t
        /\ cmd.id = q.ids[1]
    BY <1>1, <1>3, <1>4, <1>6, <2>1 DEF Command, CommandRecord, t
  <2>3. t \notin TypeOnly /\ t \notin WithValue
    BY <1>6, CommandTypes
  <2>4. AskedBy(q) = <<q.ids[1]>>
    BY <1>1, <1>4, <1>6, <2>3, Lists DEF AskedBy, t
  <2>5. Requested(cmd) = <<cmd.id>>
    BY <1>6, <2>2 DEF Requested
  <2>6. QED  BY <1>1, <1>2, <2>2, <2>3, <2>4, <2>5, GoesThroughAll DEF t
<1>7. CASE t \in WithValue
  <2>1. cmd = Command(t, q.ids[1], Len(q.value), q.value)
    BY <1>1, <1>4, <1>7, CommandTypes, DecodesWithValue DEF BytesOf, t
  <2>2. /\ cmd \in CommandRecord /\ cmd.err = "ok" /\ cmd.type = t
        /\ cmd.id = q.ids[1]
    BY <1>1, <1>3, <1>4, <1>7, <2>1 DEF Command, CommandRecord, t
  <2>3. t \notin TypeOnly /\ t \notin Reading
    BY <1>7, CommandTypes, Lists
  <2>4. AskedBy(q) = <<q.ids[1]>>
    BY <1>1, <1>4, <1>7, <2>3, Lists DEF AskedBy, t
  <2>5. QED  BY <1>1, <1>2, <2>2, <2>3, <2>4 DEF t
<1>8. CASE t \in ManyIds
  <2>1. /\ cmd.err = "ok" /\ cmd.type = t /\ cmd \in CommandRecord
        /\ Len(Ids(cmd)) <= Len(q.ids)
        /\ \A i \in 1..Len(Ids(cmd)) : Ids(cmd)[i] = q.ids[i]
        /\ 2 * Len(q.ids) \in Octet => Len(Ids(cmd)) = Len(q.ids)
    <3>1. BytesOf(q) = ClientLists(t, q.ids)
      BY <1>8, CommandTypes DEF BytesOf, t
    <3>2. Len(q.ids) \in Octet /\ q.ids \in Seq(IdRange)
      BY <1>1, <1>8
    <3> DEFINE ids == q.ids
               d == Decode(ClientLists(t, ids))
    <3> HIDE DEF ids
    <3>3. /\ d.err = "ok" /\ d.type = t /\ d \in CommandRecord
          /\ Len(Ids(d)) <= Len(ids)
          /\ \A i \in 1..Len(Ids(d)) : Ids(d)[i] = ids[i]
          /\ 2 * Len(ids) \in Octet => Len(Ids(d)) = Len(ids)
      BY <1>8, <3>2, DecodesManyIds DEF ids
    <3>4. cmd = d
      BY <3>1 DEF ids
    <3> HIDE DEF d, cmd
    <3>5. QED  BY <3>3, <3>4 DEF ids
  <2>2. t \notin TypeOnly /\ t \notin OneId /\ t \notin WithValue
    BY <1>8, CommandTypes
  <2>3. AskedBy(q) = q.ids
    BY <2>2, Lists DEF AskedBy, t
  <2>4. Requested(cmd) = Ids(cmd)
    BY <1>8, <2>1, <2>2 DEF Requested
  <2>5. Goes(cmd, AskedBy(q))
    <3> HIDE DEF cmd
    <3>1. QED  BY <2>1, <2>3, <2>4, Zenon DEF Goes, Countable
  <2>6. QED  BY <1>1, <1>2, <2>1, <2>2, <2>5 DEF t
<1>9. QED  BY <1>1, <1>5, <1>6, <1>7, <1>8 DEF Commands, t

-----------------------------------------------------------------------------
(* Type correctness, for any number of links.                                *)

\* A call of the API leaves in RAM only what fits, whatever its result.
LEMMA ApiStep ==
    ASSUME us \in [Settings -> Setting], RamFits, NEW s \in Settings,
           NEW v, NEW r,
           SetCall(s, v, r) \/ SetDefaultCall(s, v, r) \/ RestoreCall(s)
    PROVE  us' \in [Settings -> Setting] /\ RamFits'
<1>1. Fits[s] \subseteq Value
  BY ApiAssumption
<1>2. /\ us[s] \in Setting /\ us[s].value \in Fits[s] \cup {None}
      /\ us[s].default \in Fits[s] \cup {None}
  BY DEF RamFits
<1>3. ASSUME NEW w, NEW e, SetCall(s, w, e)
      PROVE  us' \in [Settings -> Setting] /\ RamFits'
  BY <1>1, <1>2, <1>3 DEF SetCall, Setting, RamFits
<1>4. ASSUME SetDefaultCall(s, v, r)
      PROVE  us' \in [Settings -> Setting] /\ RamFits'
  BY <1>1, <1>2, <1>4 DEF SetDefaultCall, Setting, RamFits
<1>5. ASSUME RestoreCall(s)
      PROVE  us' \in [Settings -> Setting] /\ RamFits'
  <2>1. CASE \E e \in {"ok", "EINVAL", "EIO"} : SetCall(s, us[s].default, e)
    BY <1>3, <2>1
  <2>2. CASE UNCHANGED us
    BY <2>2 DEF RamFits
  <2>3. CASE \E flag \in {us[s].changed, TRUE} :
                 us' = [us EXCEPT ![s].changed = flag]
    BY <1>1, <1>2, <2>3 DEF Setting, RamFits
  <2>4. QED  BY <1>5, <2>1, <2>2, <2>3 DEF RestoreCall
<1>6. QED  BY <1>3, <1>4, <1>5

\* A set that succeeds has the setting take the value.
LEMMA SetTakes ==
    ASSUME us \in [Settings -> Setting], NEW s \in Settings, NEW v
    PROVE  /\ SetCall(s, v, "ok") => us'[s].value = v
           /\ SetDefaultCall(s, v, "ok") => us'[s].default = v
<1>1. us[s] \in Setting
  OBVIOUS
<1>2. SetCall(s, v, "ok") => us'[s].value = v
  BY <1>1 DEF SetCall, Setting
<1>3. SetDefaultCall(s, v, "ok") => us'[s].default = v
  BY <1>1 DEF SetDefaultCall, Setting
<1>4. QED  BY <1>2, <1>3

\* The observer of a step of the settings loses nothing.
LEMMA WitnessedStep ==
    ASSUME TypeInv, us' \in [Settings -> Setting], RamFits', Witnessed
    PROVE  /\ held' \in [Settings -> SUBSET [value : Value \cup {None},
                                            default : Value \cup {None}]]
           /\ HeldFits'
           /\ \A s \in Settings : held[s] \subseteq held'[s]
           /\ Executing => \A s \in Settings : Snapshot(us'[s]) \in held'[s]
<1>1. \A s \in Settings :
        /\ held[s] \subseteq Fields(s)
        /\ Fits[s] \subseteq Value
  BY ApiAssumption DEF TypeInv, HeldFits, Fields
<1>2. \A s \in Settings : Snapshot(us'[s]) \in Fields(s)
  BY DEF RamFits, Snapshot, Fields
<1>3. held \in [Settings -> SUBSET [value : Value \cup {None},
                                   default : Value \cup {None}]]
  BY DEF TypeInv, TypeOK
<1>4. CASE Executing
  <2>1. held' = [s \in Settings |-> held[s] \cup {Snapshot(us'[s])}]
    BY <1>4 DEF Witnessed
  <2>2. \A s \in Settings : held'[s] = held[s] \cup {Snapshot(us'[s])}
    BY <2>1
  <2>3. \A s \in Settings : held'[s] \subseteq Fields(s)
    BY <1>1, <1>2, <2>2
  <2>4. \A s \in Settings :
          Fields(s) \subseteq [value : Value \cup {None}, default : Value \cup {None}]
    BY <1>1 DEF Fields
  <2>5. QED  BY <2>1, <2>2, <2>3, <2>4 DEF HeldFits, Fields
<1>5. CASE ~Executing
  BY <1>3, <1>5 DEF Witnessed, HeldFits, TypeInv
<1>6. QED  BY <1>4, <1>5

\* What a step leaves of the command it runs.
LEMMA JobKept ==
    ASSUME job \in Job, NEW ret
    PROVE  Finish(ret) =>
             /\ job'.pc = "answer" /\ job'.ret = ret
             /\ job'.conn = job.conn /\ job'.asked = job.asked
             /\ job'.cmd = job.cmd /\ job'.done = job.done
             /\ job'.resp = job.resp
             /\ ret \in {"none", "ok", "EPROTO", "ENOTSUP", "ENOENT", "ENOMEM",
                         "EIO", "ENOEXEC"} => job' \in Job
BY DEF Job, Finish

LEMMA NoJobType ==
    NoJob \in Job /\ Len(NoJob.resp) <= RespLen
<1>1. <<>> \in Seq(IdRange) /\ <<>> \in Seq(Octet) /\ Len(<<>>) = 0
  BY EmptySeq
<1>2. Refused("none") \in CommandRecord
  BY <1>1, ZeroIsAnId DEF Refused, CommandRecord
<1>3. NoJob \in Job
  BY <1>1, <1>2 DEF NoJob, Job
<1>4. QED  BY <1>1, <1>3, ProtocolAssumption DEF NoJob

LEMMA TypeInit == Init => TypeInv
<1> SUFFICES ASSUME Init PROVE TypeInv
  OBVIOUS
<1>1. us \in [Settings -> Setting] /\ RamFits
  BY DEF Init, InitApi, Setting, RamFits
<1>2. /\ link \in [Conns -> {"down", "up", "lost"}]
      /\ subscribed \in [Conns -> BOOLEAN]
      /\ served \in Conns \cup {NoConn} /\ refs \in [Conns -> Nat]
      /\ hindered \in BOOLEAN
  BY DEF Init
<1>3. job \in Job /\ Len(job.resp) <= RespLen
  BY NoJobType DEF Init
<1>4. got \in Seq(Seq(Octet))
  BY EmptySeq DEF Init
<1>5. /\ held \in [Settings -> SUBSET [value : Value \cup {None},
                                      default : Value \cup {None}]]
      /\ HeldFits
  BY DEF Init, Nothing, HeldFits
<1>6. Referred
  BY DEF Init, Referred
<1>7. QED  BY <1>1, <1>2, <1>3, <1>4, <1>5, <1>6 DEF TypeInv, TypeOK

Notes == Seq(Seq(Octet))
Helds == [Settings -> SUBSET [value : Value \cup {None},
                              default : Value \cup {None}]]

\* The link, the service and the settings are disjoint state.
LEMMA LinkTypes ==
    ASSUME TypeInv, NEW c \in Conns,
           \/ Connect(c) \/ LoseLink(c) \/ Disconnected(c)
           \/ \E on \in BOOLEAN : Subscribe(c, on)
    PROVE  TypeInv'
<1>1. /\ us \in [Settings -> Setting] /\ job \in Job /\ Len(job.resp) <= RespLen
      /\ got \in Notes /\ held \in Helds /\ RamFits /\ HeldFits
      /\ link \in [Conns -> {"down", "up", "lost"}]
      /\ subscribed \in [Conns -> BOOLEAN]
      /\ served \in Conns \cup {NoConn} /\ refs \in [Conns -> Nat]
      /\ hindered \in BOOLEAN /\ Referred /\ NoConn \notin Conns
  BY ProtocolAssumption DEF TypeInv, TypeOK, Notes, Helds
<1>2. UNCHANGED <<us, job, got, held>>
  BY DEF Connect, LoseLink, Disconnected, Subscribe, observers
<1>3. RamFits' /\ HeldFits'
  BY <1>1, <1>2 DEF RamFits, HeldFits
<1>4. /\ link' \in [Conns -> {"down", "up", "lost"}]
      /\ subscribed' \in [Conns -> BOOLEAN]
      /\ served' \in Conns \cup {NoConn} /\ refs' \in [Conns -> Nat]
      /\ hindered' \in BOOLEAN /\ Referred'
  <2>1. CASE Connect(c)
    BY <1>1, <2>1 DEF Connect, Enable, observers, Referred
  <2>2. CASE LoseLink(c)
    BY <1>1, <2>2 DEF LoseLink, Referred
  <2>3. CASE Disconnected(c)
    <3>1. link' = [link EXCEPT ![c] = "down"] /\ served' = NoConn
          /\ UNCHANGED <<subscribed, hindered>>
      BY <2>3 DEF Disconnected, Disable, observers
    <3>2. refs' \in [Conns -> Nat]
      <4>1. served \in Conns /\ refs[served] \in Nat /\ refs[served] > 0
        BY <1>1, <2>3 DEF Referred, Disconnected, Disable
      <4>2. refs' = [refs EXCEPT ![served] = @ - 1]
        BY <2>3 DEF Disconnected, Disable
      <4>3. QED  BY <1>1, <4>1, <4>2
    <3>3. QED  BY <1>1, <3>1, <3>2 DEF Referred
  <2>4. CASE \E on \in BOOLEAN : Subscribe(c, on)
    BY <1>1, <2>4 DEF Subscribe, observers, Referred
  <2>5. QED  BY <2>1, <2>2, <2>3, <2>4
<1>5. QED  BY <1>1, <1>2, <1>3, <1>4 DEF TypeInv, TypeOK, Notes, Helds

LEMMA ReceiveTypes ==
    ASSUME TypeInv, NEW c \in Conns, NEW b, NEW asked, Receive(c, b, asked),
           asked \in Seq(IdRange), Decode(b) \in CommandRecord
    PROVE  TypeInv'
<1>1. UNCHANGED <<us, link, subscribed, served, refs, got>>
  BY DEF Receive, bt
<1>2. /\ us \in [Settings -> Setting]
      /\ subscribed \in [Conns -> BOOLEAN] /\ RamFits
  BY DEF TypeInv, TypeOK
<1>3. job' \in Job /\ Len(job'.resp) <= RespLen
  <2>1. PICK pc \in {Phase(Decode(b)), "fault"} :
           job' = [pc |-> pc, conn |-> c, asked |-> asked,
                   cmd |-> Decode(b), done |-> 0, resp |-> <<>>,
                   ret |-> Decode(b).err]
    BY DEF Receive
  <2>2. pc \in {"answer", "fetch", "restore", "set", "fault"}
    BY DEF Phase
  <2>3. <<>> \in Seq(Octet) /\ Len(<<>>) = 0 /\ RespLen \in Nat
    BY EmptySeq, ProtocolAssumption
  <2>4. Decode(b).err \in {"ok", "EPROTO", "ENOTSUP", "none"}
    BY DEF CommandRecord
  <2>5. QED  BY <2>1, <2>2, <2>3, <2>4 DEF Job
<1>4. held' = Now(us) /\ hindered' \in BOOLEAN
  BY <1>2 DEF Receive
<1>5. held' \in Helds /\ HeldFits'
  <2>1. \A s \in Settings : held'[s] = {Snapshot(us[s])}
    BY <1>4 DEF Now
  <2>2. \A s \in Settings : Snapshot(us[s]) \in Fields(s)
    BY <1>2 DEF RamFits, Snapshot, Fields
  <2>3. \A s \in Settings :
          Fields(s) \subseteq [value : Value \cup {None}, default : Value \cup {None}]
    BY ApiAssumption DEF Fields
  <2>4. QED  BY <1>4, <2>1, <2>2, <2>3 DEF Now, Helds, HeldFits, Fields
<1>6. RamFits' /\ Referred'
  BY <1>1 DEF RamFits, Referred, TypeInv
<1>7. QED
  BY <1>1, <1>3, <1>4, <1>5, <1>6 DEF TypeInv, TypeOK, Helds

LEMMA WriteTypes ==
    ASSUME TypeInv, NEW c \in Conns, Write(c)
    PROVE  TypeInv'
<1>1. CASE \E q \in Requests : Receive(c, BytesOf(q), AskedBy(q))
  BY <1>1, ReceiveTypes, RequestUnderstood
<1>2. CASE \E b \in Malformed : Receive(c, b, <<>>)
  BY <1>2, ReceiveTypes, RefusedRecord, RequestsAssumption, EmptySeq
<1>3. QED  BY <1>1, <1>2 DEF Write

\* The settings that RAM holds with the id of a request.
LEMMA Found ==
    ASSUME TypeInv, NEW id, NEW s \in WithId(id)
    PROVE  /\ s \in Settings
           /\ us[s].value \in Fits[s] \cup {None}
           /\ us[s].default \in Fits[s] \cup {None}
BY DEF WithId, TypeInv, RamFits

LEMMA ExecuteTypes ==
    ASSUME TypeInv, Execute
    PROVE  TypeInv'
<1>1. /\ us \in [Settings -> Setting] /\ job \in Job /\ Len(job.resp) <= RespLen
      /\ got \in Notes /\ held \in Helds /\ RamFits /\ HeldFits
      /\ link \in [Conns -> {"down", "up", "lost"}]
      /\ subscribed \in [Conns -> BOOLEAN]
      /\ served \in Conns \cup {NoConn} /\ refs \in [Conns -> Nat]
      /\ hindered \in BOOLEAN /\ Referred
  BY DEF TypeInv, TypeOK, Notes, Helds
<1>2. UNCHANGED bt
  BY DEF Execute, Fetch, CheckServed, CheckSubscribed, Notify, ExecSet,
         ExecRestore, Answer
<1>3. Referred'
  BY <1>1, <1>2 DEF Referred, bt
<1> DEFINE Rets == {"none", "ok", "EPROTO", "ENOTSUP", "ENOENT", "ENOMEM",
                    "EIO", "ENOEXEC"}
<1>4. \A ret \in Rets : Finish(ret) => job' \in Job /\ job'.resp = job.resp
  BY <1>1, JobKept
<1>5. SUFFICES /\ us' \in [Settings -> Setting] /\ RamFits'
               /\ job' \in Job /\ Len(job'.resp) <= RespLen
               /\ got' \in Notes /\ held' \in Helds /\ HeldFits'
               /\ hindered' \in BOOLEAN
  BY <1>1, <1>2, <1>3 DEF TypeInv, TypeOK, Notes, Helds, bt
<1>6. CASE Fetch
  <2>1. UNCHANGED <<us, got, held, hindered>>
    BY <1>6 DEF Fetch, observers
  <2>2. job' \in Job /\ Len(job'.resp) <= RespLen
    <3>1. CASE \E ret \in {"ok", "ENOENT", "ENOMEM"} : Finish(ret)
      BY <1>1, <1>4, <3>1
    <3>2. ASSUME NEW id, NEW s \in WithId(id),
                 EncodeFits(Described(s, us[s]), IsFull(job.cmd), RespLen),
                 job' = [job EXCEPT !.pc = "check",
                            !.resp = Encoded(Described(s, us[s]), IsFull(job.cmd))]
          PROVE  job' \in Job /\ Len(job'.resp) <= RespLen
      <4> DEFINE b == Encoded(Described(s, us[s]), IsFull(job.cmd))
      <4>1. b \in Seq(Octet) /\ Len(b) <= RespLen
        BY <3>2, Found, FitsResponse
      <4> HIDE DEF b
      <4>2. job' = [job EXCEPT !.pc = "check", !.resp = b]
        BY <3>2 DEF b
      <4>3. QED  BY <1>1, <4>1, <4>2 DEF Job
    <3>3. QED  BY <1>6, <3>1, <3>2 DEF Fetch
  <2>3. QED  BY <1>1, <2>1, <2>2 DEF RamFits, HeldFits
<1>7. CASE CheckServed \/ CheckSubscribed
  <2>1. UNCHANGED <<us, got, held, hindered>>
    BY <1>7 DEF CheckServed, CheckSubscribed, observers
  <2>2. job' \in Job /\ job'.resp = job.resp
    <3>1. CASE Finish("EIO")
      BY <1>4, <3>1
    <3>2. CASE \E pc \in {"subscribed", "notify", "fault"} : Goto(pc)
      BY <1>1, <3>2 DEF Goto, Job
    <3>3. QED  BY <1>7, <3>1, <3>2 DEF CheckServed, CheckSubscribed
  <2>3. QED  BY <1>1, <2>1, <2>2 DEF RamFits, HeldFits
<1>8. CASE Notify
  <2>1. UNCHANGED <<us, held>>
    BY <1>8 DEF Notify
  <2>2. CASE Finish("EIO") /\ hindered' = TRUE /\ UNCHANGED got
    BY <1>1, <1>4, <2>1, <2>2 DEF RamFits, HeldFits
  <2>3. CASE /\ got' = Append(got, job.resp)
             /\ job' = [job EXCEPT !.pc = "fetch", !.done = @ + 1, !.resp = <<>>]
             /\ UNCHANGED hindered
    <3>1. job.resp \in Seq(Octet)
      BY <1>1 DEF Job
    <3>2. got' \in Notes
      BY <1>1, <2>3, <3>1 DEF Notes
    <3>3. <<>> \in Seq(Octet) /\ Len(<<>>) = 0
      BY EmptySeq
    <3>4. job' \in Job /\ job'.resp = <<>>
      <4> DEFINE n == job.done + 1
      <4>1. n \in Nat
        BY <1>1 DEF Job
      <4>2. job' = [job EXCEPT !.pc = "fetch", !.done = n, !.resp = <<>>]
        BY <2>3
      <4> HIDE DEF n
      <4>3. QED  BY <1>1, <3>3, <4>1, <4>2 DEF Job
    <3>5. QED
      BY <1>1, <2>1, <2>3, <3>2, <3>3, <3>4, ProtocolAssumption
         DEF RamFits, HeldFits
  <2>4. QED  BY <1>8, <2>2, <2>3 DEF Notify
<1>9. CASE ExecSet
  <2>1. UNCHANGED <<got, hindered>> /\ Witnessed
    BY <1>9 DEF ExecSet
  <2>2. us' \in [Settings -> Setting] /\ RamFits'
    <3>1. CASE UNCHANGED us
      BY <1>1, <3>1 DEF RamFits
    <3>2. ASSUME NEW s \in Settings, NEW r, SetAs(job.cmd.type, s, job.cmd.value, r)
          PROVE  us' \in [Settings -> Setting] /\ RamFits'
      BY <1>1, <3>2, ApiStep DEF SetAs
    <3>3. QED  BY <1>9, <3>1, <3>2 DEF ExecSet, WithId
  <2>3. \E ret \in Rets : Finish(ret)
    BY <1>9 DEF ExecSet
  <2>4. held' \in Helds /\ HeldFits'
    BY <2>1, <2>2, WitnessedStep DEF Helds
  <2>5. QED  BY <1>1, <1>4, <2>1, <2>2, <2>3, <2>4
<1>10. CASE ExecRestore
  <2>1. UNCHANGED <<got, hindered>> /\ Witnessed
    BY <1>10 DEF ExecRestore
  <2>2. us' \in [Settings -> Setting] /\ RamFits'
    <3>1. CASE UNCHANGED us
      BY <1>1, <3>1 DEF RamFits
    <3>2. CASE job.done < N /\ RestoreCall(job.done + 1)
      <4>1. job.done + 1 \in Settings
        BY <1>1, <3>2, ApiAssumption DEF Settings, Job
      <4>2. QED  BY <1>1, <3>2, <4>1, ApiStep
    <3>3. QED  BY <1>10, <3>1, <3>2 DEF ExecRestore
  <2>3. job' \in Job /\ job'.resp = job.resp
    <3>1. CASE Finish("ok")
      BY <1>4, <3>1
    <3>2. CASE job' = [job EXCEPT !.done = NextDone(@)]
      <4> DEFINE n == job.done + 1
      <4>1. n \in Nat
        BY <1>1 DEF Job
      <4>2. job' = [job EXCEPT !.done = n]
        BY <3>2 DEF NextDone
      <4> HIDE DEF n
      <4>3. QED  BY <1>1, <4>1, <4>2 DEF Job
    <3>3. QED  BY <1>10, <3>1, <3>2 DEF ExecRestore
  <2>4. held' \in Helds /\ HeldFits'
    BY <2>1, <2>2, WitnessedStep DEF Helds
  <2>5. QED  BY <1>1, <2>1, <2>2, <2>3, <2>4
<1>11. CASE Answer
  <2>1. got' \in Notes /\ held' \in Helds /\ HeldFits' /\ hindered' \in BOOLEAN
    BY <1>11, EmptySeq DEF Answer, Notes, Helds, Nothing, HeldFits
  <2>2. job' \in Job /\ Len(job'.resp) <= RespLen
    BY <1>11, NoJobType DEF Answer
  <2>3. QED  BY <1>1, <1>11, <2>1, <2>2 DEF Answer, RamFits
<1>12. QED  BY <1>6, <1>7, <1>8, <1>9, <1>10, <1>11 DEF Execute

LEMMA OtherSetsTypes ==
    ASSUME TypeInv, OtherSets
    PROVE  TypeInv'
<1>1. us \in [Settings -> Setting] /\ RamFits
  BY DEF TypeInv, TypeOK
<1>2. us' \in [Settings -> Setting] /\ RamFits'
  BY <1>1, ApiStep DEF OtherSets
<1>3. held' \in Helds /\ HeldFits'
  BY <1>2, WitnessedStep DEF OtherSets, Helds
<1>4. UNCHANGED <<link, subscribed, served, refs, job, got, hindered>>
  BY DEF OtherSets, bt
<1>5. QED  BY <1>2, <1>3, <1>4 DEF TypeInv, TypeOK, Referred, Helds

LEMMA TypeStep ==
    TypeInv /\ [Next]_vars => TypeInv'
<1> SUFFICES ASSUME TypeInv, [Next]_vars PROVE TypeInv'
  OBVIOUS
<1>1. CASE \E c \in Conns :
             \/ Connect(c) \/ LoseLink(c) \/ Disconnected(c)
             \/ \E on \in BOOLEAN : Subscribe(c, on)
  BY <1>1, LinkTypes
<1>2. CASE \E c \in Conns : Write(c)
  BY <1>2, WriteTypes
<1>3. CASE Execute
  BY <1>3, ExecuteTypes
<1>4. CASE OtherSets
  BY <1>4, OtherSetsTypes
<1>5. CASE UNCHANGED vars
  BY <1>5 DEF vars, bt, observers, TypeInv, TypeOK, Referred, RamFits, HeldFits
<1>6. QED  BY <1>1, <1>2, <1>3, <1>4, <1>5 DEF Next

\* Every variable holds a value of the type the code gives it; a response is
\* never longer than resp_buffer, and no reference is dropped that is not held.
THEOREM ProtocolTypes == Spec => []TypeInv
<1>1. Init => TypeInv
  BY TypeInit
<1>2. TypeInv /\ [Next]_vars => TypeInv'
  BY TypeStep
<1>3. QED  BY <1>1, <1>2, PTL DEF Spec

\* The type invariant, for any number of links, clients, settings and requests.
THEOREM TypeCorrect == Spec => []TypeOK
<1>1. TypeInv => TypeOK
  BY DEF TypeInv
<1>2. QED  BY <1>1, ProtocolTypes, PTL

-----------------------------------------------------------------------------
(* One link at a time: the inductive invariant.                              *)

LEMMA LinkStep ==
    ASSUME OneLink, TypeInv, ProtocolInv, NEW c \in Conns,
           \/ Connect(c) \/ LoseLink(c) \/ Disconnected(c)
           \/ \E on \in BOOLEAN : Subscribe(c, on)
    PROVE  ProtocolInv'
<1>1. /\ link \in [Conns -> {"down", "up", "lost"}]
      /\ subscribed \in [Conns -> BOOLEAN]
      /\ served \in Conns \cup {NoConn} /\ refs \in [Conns -> Nat]
      /\ hindered \in BOOLEAN /\ NoConn \notin Conns
  BY ProtocolAssumption DEF TypeInv, TypeOK
<1>2. UNCHANGED <<us, job, got, held>>
  BY DEF Connect, LoseLink, Disconnected, Subscribe, observers
<1>3. Executing' = Executing /\ (hindered => hindered')
  BY <1>1, <1>2 DEF Executing, Connect, LoseLink, Disconnected, Subscribe, observers
<1>4. RefsBalance'
  <2>0. RefsBalance
    BY DEF ProtocolInv
  <2>1. CASE Connect(c)
    <3>1. \A d \in Conns : d = c
      BY DEF OneLink
    <3>2. refs[c] = 0
      BY <2>1 DEF Connect
    <3>3. /\ link' = [link EXCEPT ![c] = "up"] /\ served' = c
          /\ refs' = [refs EXCEPT ![c] = @ + 1]
      BY <2>1 DEF Connect, Enable
    <3>4. QED  BY <1>1, <3>1, <3>2, <3>3 DEF RefsBalance
  <2>2. CASE LoseLink(c)
    BY <1>1, <2>0, <2>2 DEF LoseLink, RefsBalance
  <2>3. CASE Disconnected(c)
    <3>1. served = c /\ refs[c] = 1
      BY <2>0, <2>3 DEF Disconnected, RefsBalance
    <3>2. /\ link' = [link EXCEPT ![c] = "down"] /\ served' = NoConn
          /\ refs' = [refs EXCEPT ![c] = @ - 1]
      BY <1>1, <2>3, <3>1 DEF Disconnected, Disable
    <3>3. QED  BY <1>1, <2>0, <3>1, <3>2 DEF RefsBalance
  <2>4. CASE \E on \in BOOLEAN : Subscribe(c, on)
    BY <2>0, <2>4 DEF Subscribe, RefsBalance
  <2>5. QED  BY <2>1, <2>2, <2>3, <2>4
<1>5. Rest' /\ Reachable' /\ Faulted'
  <2>0. Rest /\ Reachable /\ Faulted
    BY DEF ProtocolInv
  <2>1. CASE Connect(c) \/ \E on \in BOOLEAN : Subscribe(c, on)
    <3>1. ~Executing /\ hindered' = hindered
      BY <2>1 DEF Connect, Subscribe, observers
    <3>2. job'.pc # "fault"
      BY <1>2, <3>1 DEF Executing
    <3>3. QED  BY <1>2, <1>3, <2>0, <3>1, <3>2 DEF Rest, Reachable, Faulted
  <2>2. CASE LoseLink(c)
    <3>1. /\ link[c] = "up" /\ link' = [link EXCEPT ![c] = "lost"]
          /\ subscribed' = [subscribed EXCEPT ![c] = FALSE]
          /\ hindered' = (hindered \/ job.conn = c)
      BY <2>2 DEF LoseLink
    <3>2. Rest'
      <4>1. ~Executing => job.conn = NoConn /\ ~hindered
        BY <2>0 DEF Rest, NoJob
      <4>2. QED  BY <1>1, <1>2, <1>3, <2>0, <3>1, <4>1 DEF Rest
    <3>3. Reachable'
      BY <1>1, <1>2, <1>3, <2>0, <3>1 DEF Reachable
    <3>4. Faulted'
      BY <1>2, <2>0, <2>2 DEF LoseLink, Faulted
    <3>5. QED  BY <3>2, <3>3, <3>4
  <2>3. CASE Disconnected(c)
    <3>1. /\ link[c] = "lost" /\ link' = [link EXCEPT ![c] = "down"]
          /\ served' = NoConn /\ UNCHANGED <<subscribed, hindered>>
      BY <2>3 DEF Disconnected, Disable, observers
    <3>2. QED  BY <1>1, <1>2, <1>3, <2>0, <3>1 DEF Rest, Reachable, Faulted
  <2>4. QED  BY <2>1, <2>2, <2>3
<1>6. Watched' /\ Understood' /\ Told'
  BY <1>2, <1>3 DEF ProtocolInv, Watched, Understood, Told, Tells, Executing
<1>7. Justified'
  BY <1>2, <1>3 DEF ProtocolInv, Justified, TooLong
<1>8. QED  BY <1>4, <1>5, <1>6, <1>7 DEF ProtocolInv

LEMMA ReceiveStep ==
    ASSUME TypeInv, ProtocolInv, NEW c \in Conns, NEW b, NEW asked,
           Receive(c, b, asked), asked \in Seq(IdRange),
           Decode(b) \in CommandRecord,
           LET cmd == Decode(b)
           IN \/ /\ cmd.err # "ok" /\ cmd.type = 0 /\ asked = <<>>
                 /\ cmd.value = <<>>
              \/ /\ cmd.err = "ok" /\ cmd.type \in Commands
                 /\ cmd.type \in Reading => Goes(cmd, asked)
                 /\ cmd.type \in WithValue => asked = <<cmd.id>>
    PROVE  ProtocolInv'
<1> DEFINE cmd == Decode(b)
<1>0. PICK pc \in {Phase(cmd)} \cup {p \in {"fault"} : Overruns(cmd)} :
        job' = [pc |-> pc, conn |-> c, asked |-> asked,
                cmd |-> cmd, done |-> 0, resp |-> <<>>, ret |-> cmd.err]
  BY DEF Receive
<1>1. /\ ~Executing /\ link[c] = "up"
      /\ held' = Now(us) /\ hindered' = ~subscribed[c]
      /\ UNCHANGED <<us, link, subscribed, served, refs, got>>
  BY DEF Receive, bt
<1>2. /\ job'.pc = pc /\ job'.conn = c /\ job'.asked = asked
      /\ job'.cmd = cmd /\ job'.done = 0 /\ job'.ret = cmd.err
  BY <1>0
<1>3. /\ pc = Phase(cmd) \/ (pc = "fault" /\ Overruns(cmd))
      /\ Phase(cmd) \in {"answer", "fetch", "restore", "set"}
  BY DEF Phase
<1>4. Executing' /\ got = <<>> /\ got' = <<>>
  BY <1>1, <1>2, <1>3 DEF Executing, ProtocolInv, Rest
<1>5. RefsBalance' /\ Faulted'
  BY <1>1, <1>2, <1>3 DEF ProtocolInv, RefsBalance, Faulted
<1>6. Rest'
  BY <1>4 DEF Rest
<1>7. Reachable'
  <2>1. subscribed[c] \in BOOLEAN
    BY DEF TypeInv, TypeOK
  <2>2. QED  BY <1>1, <1>2, <2>1 DEF Reachable
<1>8. Watched'
  BY <1>1 DEF Watched, Now
<1>9. Len(Requested(cmd)) \in Nat /\ Len(asked) \in Nat
  BY RequestedLen, LenProperties
<1>10. ~Overruns(cmd) \/ cmd.value # <<>>
  BY EmptySeq, RadixAssumption DEF Overruns
<1> HIDE DEF cmd
<1>11. \/ /\ cmd.err # "ok" /\ cmd.type = 0 /\ asked = <<>>
          /\ pc = "answer" /\ cmd.type \notin Reading
       \/ /\ cmd.err = "ok" /\ cmd.type \in Reading /\ pc \in {"fetch", "fault"}
          /\ Goes(cmd, asked) /\ cmd.type \notin WithValue
          /\ cmd.type \in Commands
       \/ /\ cmd.err = "ok" /\ cmd.type \in WithValue /\ pc \in {"set", "fault"}
          /\ asked = <<cmd.id>> /\ cmd.type \notin Reading
          /\ cmd.type \in Commands
       \/ /\ cmd.err = "ok" /\ cmd.type = USPC_RESTORE
          /\ pc \in {"restore", "fault"}
          /\ cmd.type \notin Reading /\ cmd.type \notin WithValue
          /\ cmd.type \in Commands
  BY <1>3, <1>10, Lists DEF cmd, Phase
<1>12. Understood'
  BY <1>2, <1>11 DEF Understood
<1>13. Told'
  <2>1. Len(got') = 0
    BY <1>4, EmptySeq
  <2>2. QED  BY <1>2, <1>4, <1>9, <1>11, <2>1 DEF Told
<1>14. Justified'
  BY <1>2, <1>11 DEF Justified
<1>15. QED
  BY <1>5, <1>6, <1>7, <1>8, <1>12, <1>13, <1>14 DEF ProtocolInv

LEMMA WriteStep ==
    ASSUME TypeInv, ProtocolInv, NEW c \in Conns, Write(c)
    PROVE  ProtocolInv'
<1>1. CASE \E q \in Requests : Receive(c, BytesOf(q), AskedBy(q))
  BY <1>1, ReceiveStep, RequestUnderstood
<1>2. CASE \E b \in Malformed : Receive(c, b, <<>>)
  BY <1>2, ReceiveStep, RefusedRecord, RequestsAssumption, EmptySeq
<1>3. QED  BY <1>1, <1>2 DEF Write

\* What was told stays true as the observer sees more.
LEMMA TellsStays ==
    ASSUME \A s \in Settings : held[s] \subseteq held'[s], job'.cmd = job.cmd
    PROVE  /\ \A bytes, id : Tells(bytes, id) => Tells(bytes, id)'
           /\ \A s \in Settings : TooLong(s) => TooLong(s)'
BY DEF Tells, TooLong, WithId

LEMMA OtherSetsStep ==
    ASSUME TypeInv, ProtocolInv, OtherSets
    PROVE  ProtocolInv'
<1>1. /\ UNCHANGED <<link, subscribed, served, refs, job, got, hindered>>
      /\ Witnessed
  BY DEF OtherSets, bt
<1>2. us \in [Settings -> Setting] /\ RamFits
  BY DEF TypeInv, TypeOK
<1>3. us' \in [Settings -> Setting] /\ RamFits'
  BY <1>2, ApiStep DEF OtherSets
<1>4. /\ \A s \in Settings : held[s] \subseteq held'[s]
      /\ Executing => \A s \in Settings : Snapshot(us'[s]) \in held'[s]
      /\ ~Executing => held' = held
  BY <1>1, <1>3, WitnessedStep DEF Witnessed
<1>5. RefsBalance' /\ Rest' /\ Reachable' /\ Faulted' /\ Watched' /\ Understood'
  BY <1>1, <1>4 DEF ProtocolInv, RefsBalance, Rest, Reachable, Faulted,
                    Watched, Understood, Executing
<1>6. /\ \A bytes, id : Tells(bytes, id) => Tells(bytes, id)'
      /\ \A s \in Settings : TooLong(s) => TooLong(s)'
  BY <1>1, <1>4, TellsStays
<1>7. Told'
  BY <1>1, <1>6 DEF ProtocolInv, Told, Executing
<1>8. Justified'
  BY <1>1, <1>4, <1>6 DEF ProtocolInv, Justified, WithId
<1>9. QED  BY <1>5, <1>7, <1>8 DEF ProtocolInv

\* A step that only moves the command on.
LEMMA Moved ==
    ASSUME TypeInv, ProtocolInv, Executing, NEW ret,
           UNCHANGED <<us, link, subscribed, served, refs, got, held>>,
           Finish(ret), hindered => hindered', hindered' \in BOOLEAN
    PROVE  /\ RefsBalance' /\ Rest' /\ Watched' /\ Executing'
           /\ job'.pc = "answer" /\ job'.ret = ret /\ job'.cmd = job.cmd
           /\ job'.asked = job.asked /\ job'.done = job.done
           /\ Reachable' /\ Faulted' /\ Told'
           /\ job.cmd.err = "ok" => Understood'
<1>1. job \in Job
  BY DEF TypeInv, TypeOK
<1>2. /\ job'.pc = "answer" /\ job'.ret = ret /\ job'.conn = job.conn
      /\ job'.asked = job.asked /\ job'.cmd = job.cmd /\ job'.done = job.done
  BY <1>1, JobKept
<1>3. Executing'
  BY <1>2 DEF Executing
<1>4. RefsBalance' /\ Rest' /\ Watched'
  BY <1>3 DEF ProtocolInv, RefsBalance, Rest, Watched
<1>5. Reachable' /\ Faulted'
  BY <1>2 DEF ProtocolInv, Reachable, Faulted
<1>6. Told'
  BY <1>2, <1>3 DEF ProtocolInv, Told, Tells
<1>7. job.cmd.err = "ok" => Understood'
  BY <1>2 DEF ProtocolInv, Understood
<1>8. QED  BY <1>2, <1>3, <1>4, <1>5, <1>6, <1>7

LEMMA FetchStep ==
    ASSUME TypeInv, ProtocolInv, Fetch
    PROVE  ProtocolInv'
<1>1. UNCHANGED <<us, link, subscribed, served, refs, got, held, hindered>>
  BY DEF Fetch, bt, observers
<1>2. job.pc = "fetch" /\ Executing /\ job \in Job /\ hindered \in BOOLEAN
  BY DEF Fetch, Executing, TypeInv, TypeOK
<1>3. /\ job.cmd.err = "ok" /\ job.cmd.type \in Reading
      /\ Goes(job.cmd, job.asked) /\ job.cmd.type \in Commands
      /\ job.cmd.type \notin WithValue /\ job.cmd.type # USPC_RESTORE
  BY <1>2, Lists DEF ProtocolInv, Understood
<1> DEFINE m == Len(Requested(job.cmd))
<1>4. /\ job.done = Len(got) /\ job.done <= m /\ m <= Len(job.asked)
      /\ job.done \in Nat /\ m \in Nat /\ Len(job.asked) \in Nat
  BY <1>2, <1>3, RequestedLen, LenProperties
     DEF ProtocolInv, Told, Job, Goes
<1> DEFINE id == job.asked[job.done + 1]
<1>5. ASSUME NEW ret, Finish(ret),
             \/ ret = "ok" /\ job.done = m
             \/ /\ ret = "ENOENT" /\ job.done < Len(job.asked)
                /\ WithId(id) = {}
             \/ /\ ret = "ENOMEM" /\ job.done < Len(job.asked)
                /\ \E s \in WithId(id) : TooLong(s)
      PROVE  ProtocolInv'
  <2>1. /\ RefsBalance' /\ Rest' /\ Watched' /\ Executing'
        /\ job'.pc = "answer" /\ job'.ret = ret /\ job'.cmd = job.cmd
        /\ job'.asked = job.asked /\ job'.done = job.done
        /\ Reachable' /\ Faulted' /\ Told' /\ Understood'
    BY <1>1, <1>2, <1>3, <1>5, Moved
  <2>2. Justified'
    BY <1>1, <1>3, <1>5, <2>1 DEF Justified, TooLong
  <2>3. QED  BY <2>1, <2>2 DEF ProtocolInv
<1>6. ASSUME job.done < m, NEW s \in WithId(id),
             EncodeFits(Described(s, us[s]), IsFull(job.cmd), RespLen),
             job' = [job EXCEPT !.pc = "check",
                        !.resp = Encoded(Described(s, us[s]), IsFull(job.cmd))]
      PROVE  ProtocolInv'
  <2> DEFINE b == Encoded(Described(s, us[s]), IsFull(job.cmd))
  <2>1. Tells(b, id)
    <3>1. Snapshot(us[s]) \in held[s]
      BY <1>2, Found DEF ProtocolInv, Watched
    <3>2. Described(s, Snapshot(us[s])) = Described(s, us[s])
      BY DEF Described, Snapshot
    <3>3. QED  BY <3>1, <3>2 DEF Tells
  <2>2. job' = [job EXCEPT !.pc = "check", !.resp = b]
    BY <1>6
  <2> HIDE DEF b
  <2>3. /\ job'.pc = "check" /\ job'.resp = b /\ job'.conn = job.conn
        /\ job'.asked = job.asked /\ job'.cmd = job.cmd /\ job'.done = job.done
    BY <1>2, <2>2 DEF Job
  <2>4. Executing'
    BY <2>3 DEF Executing
  <2>5. RefsBalance' /\ Rest' /\ Reachable' /\ Faulted' /\ Watched'
    BY <1>1, <1>2, <2>3, <2>4 DEF ProtocolInv, RefsBalance, Rest, Reachable, Faulted, Watched
  <2>6. Understood'
    BY <1>3, <2>3 DEF Understood
  <2>7. Told'
    BY <1>1, <1>2, <1>3, <1>4, <1>6, <2>1, <2>3, <2>4
       DEF ProtocolInv, Told, Tells
  <2>8. Justified'
    BY <2>3 DEF Justified
  <2>9. QED  BY <2>5, <2>6, <2>7, <2>8 DEF ProtocolInv
<1>7. CASE FetchedAll(job.done)
  <2>1. Finish("ok") /\ job.done = m
    BY <1>7 DEF Fetch, FetchedAll
  <2>2. QED  BY <1>5, <2>1
<1>8. CASE ~FetchedAll(job.done)
  <2>1. job.done < m /\ job.done < Len(job.asked)
    BY <1>4, <1>8 DEF FetchedAll
  <2>2. \/ WithId(id) = {} /\ Finish("ENOENT")
        \/ \E s \in WithId(id) :
             IF EncodeFits(Described(s, us[s]), IsFull(job.cmd), RespLen)
             THEN job' = [job EXCEPT !.pc = "check",
                        !.resp = Encoded(Described(s, us[s]), IsFull(job.cmd))]
             ELSE Finish("ENOMEM")
    <3>1. job.done + 1 \in 1..m
      BY <1>4, <2>1
    <3>2. Requested(job.cmd)[job.done + 1] = id
      BY <1>3, <3>1 DEF Goes
    <3>3. QED  BY <1>8, <3>2 DEF Fetch
  <2>3. ASSUME NEW s \in WithId(id),
               ~EncodeFits(Described(s, us[s]), IsFull(job.cmd), RespLen)
        PROVE  TooLong(s)
    <3> DEFINE r == Snapshot(us[s])
    <3>1. r \in held[s]
      BY <1>2, Found DEF ProtocolInv, Watched
    <3>2. Described(s, [value |-> r.value, default |-> r.default])
            = Described(s, us[s])
      BY DEF Described, Snapshot
    <3>3. Required(Described(s, us[s]), IsFull(job.cmd)) > RespLen
      <4> DEFINE d == Described(s, us[s])
                 full == IsFull(job.cmd)
      <4>1. full \in BOOLEAN /\ d \in Packet /\ RespLen \in Nat
        BY Found, Encodable, ProtocolAssumption DEF IsFull
      <4>2. ~EncodeFits(d, full, RespLen)
        BY <2>3
      <4> HIDE DEF d, full
      <4>3. Required(d, full) \in Nat
        BY <4>1, Layout, LenProperties
      <4>4. Required(d, full) > RespLen
        BY <4>1, <4>2, <4>3 DEF EncodeFits
      <4>5. QED  BY <4>4 DEF d, full
    <3>4. QED  BY <3>1, <3>2, <3>3 DEF TooLong
  <2>4. QED  BY <1>5, <1>6, <2>1, <2>2, <2>3
<1>9. QED  BY <1>7, <1>8

\* Unless it is hindered, the client that wrote the command can be served.
LEMMA Servable ==
    ASSUME TypeInv, ProtocolInv, Executing
    PROVE  ~hindered => served \in Conns /\ subscribed[served]
<1>1. Reachable /\ RefsBalance /\ NoConn \notin Conns
  BY ProtocolAssumption DEF ProtocolInv
<1>2. /\ job.conn \in Conns
      /\ hindered \/ (link[job.conn] = "up" /\ subscribed[job.conn])
  BY <1>1 DEF Reachable
<1>3. link[job.conn] = "up" => served = job.conn
  BY <1>1, <1>2 DEF RefsBalance
<1>4. QED  BY <1>1, <1>2, <1>3

LEMMA CheckStep ==
    ASSUME TypeInv, ProtocolInv, CheckServed \/ CheckSubscribed
    PROVE  ProtocolInv'
<1>1. UNCHANGED <<us, link, subscribed, served, refs, got, held, hindered>>
  BY DEF CheckServed, CheckSubscribed, bt, observers
<1>2. /\ job.pc \in {"check", "subscribed"} /\ Executing /\ job \in Job
      /\ hindered \in BOOLEAN /\ NoConn \notin Conns
  BY ProtocolAssumption DEF CheckServed, CheckSubscribed, Executing, TypeInv,
                            TypeOK
<1>3. /\ job.cmd.err = "ok" /\ job.cmd.type \in Reading
      /\ job.cmd.type \notin WithValue /\ job.cmd.type # USPC_RESTORE
  BY <1>2, Lists DEF ProtocolInv, Understood
<1>4. \/ /\ Finish("EIO")
         /\ served = NoConn \/ (served \in Conns /\ ~subscribed[served])
      \/ \E pc \in {"subscribed", "notify"} : Goto(pc)
      \/ Goto("fault") /\ served = NoConn
  BY DEF CheckServed, CheckSubscribed
<1>5. CASE /\ Finish("EIO")
           /\ served = NoConn \/ (served \in Conns /\ ~subscribed[served])
  <2>1. hindered
    BY <1>2, <1>5, Servable
  <2>2. /\ RefsBalance' /\ Rest' /\ Watched' /\ Executing'
        /\ job'.ret = "EIO" /\ job'.cmd = job.cmd
        /\ Reachable' /\ Faulted' /\ Told' /\ Understood'
    BY <1>1, <1>2, <1>3, <1>5, Moved
  <2>3. Justified'
    BY <1>1, <1>3, <2>1, <2>2 DEF Justified
  <2>4. QED  BY <2>2, <2>3 DEF ProtocolInv
<1>6. ASSUME NEW pc \in {"subscribed", "notify", "fault"}, Goto(pc),
             pc = "fault" => served = NoConn
      PROVE  ProtocolInv'
  <2>1. /\ job'.pc = pc /\ job'.resp = job.resp /\ job'.conn = job.conn
        /\ job'.asked = job.asked /\ job'.cmd = job.cmd /\ job'.done = job.done
    BY <1>2, <1>6 DEF Goto, Job
  <2>2. Executing'
    BY <2>1 DEF Executing
  <2>3. RefsBalance' /\ Rest' /\ Reachable' /\ Faulted' /\ Watched'
    BY <1>1, <1>2, <1>6, <2>1, <2>2
       DEF ProtocolInv, RefsBalance, Rest, Reachable, Faulted, Watched
  <2>4. Understood'
    BY <1>2, <1>3, <2>1 DEF ProtocolInv, Understood
  <2>5. Told'
    BY <1>1, <1>2, <1>3, <2>1, <2>2 DEF ProtocolInv, Told, Tells
  <2>6. Justified'
    BY <2>1 DEF Justified
  <2>7. QED  BY <2>3, <2>4, <2>5, <2>6 DEF ProtocolInv
<1>7. QED  BY <1>4, <1>5, <1>6

LEMMA NotifyStep ==
    ASSUME TypeInv, ProtocolInv, Notify
    PROVE  ProtocolInv'
<1>1. UNCHANGED <<us, link, subscribed, served, refs, held>>
  BY DEF Notify, bt
<1>2. /\ job.pc = "notify" /\ Executing /\ job \in Job /\ hindered \in BOOLEAN
      /\ got \in Notes
  BY DEF Notify, Executing, TypeInv, TypeOK, Notes
<1>3. /\ job.cmd.err = "ok" /\ job.cmd.type \in Reading
      /\ job.cmd.type \notin WithValue /\ job.cmd.type # USPC_RESTORE
  BY <1>2, Lists DEF ProtocolInv, Understood
<1>4. CASE Finish("EIO") /\ hindered' = TRUE /\ UNCHANGED got
  <2>1. /\ RefsBalance' /\ Rest' /\ Watched' /\ Executing'
        /\ job'.ret = "EIO" /\ job'.cmd = job.cmd
        /\ Reachable' /\ Faulted' /\ Told' /\ Understood'
    BY <1>1, <1>2, <1>3, <1>4, Moved
  <2>2. Justified'
    BY <1>3, <1>4, <2>1 DEF Justified
  <2>3. QED  BY <2>1, <2>2 DEF ProtocolInv
<1>5. CASE /\ Receivers # {}
           /\ got' = Append(got, job.resp)
           /\ job' = [job EXCEPT !.pc = "fetch", !.done = @ + 1, !.resp = <<>>]
           /\ UNCHANGED hindered
  <2> DEFINE m == job.resp
             n == Len(got)
  <2>1. /\ job'.pc = "fetch" /\ job'.conn = job.conn /\ job'.asked = job.asked
        /\ job'.cmd = job.cmd /\ job'.done = job.done + 1
    BY <1>2, <1>5 DEF Job
  <2>2. Executing'
    BY <2>1 DEF Executing
  <2>3. /\ Goes(job.cmd, job.asked) /\ Len(Requested(job.cmd)) \in Nat
        /\ Len(Requested(job.cmd)) <= Len(job.asked) /\ Len(job.asked) \in Nat
    BY <1>2, <1>3, RequestedLen, LenProperties
       DEF ProtocolInv, Understood, Goes, Job
  <2>4. /\ job.done = n /\ n < Len(Requested(job.cmd)) /\ n \in Nat
        /\ n < Len(job.asked) /\ Tells(job.resp, job.asked[n + 1])
    BY <1>2, <1>3, <2>3, LenProperties DEF ProtocolInv, Told, Job
  <2>5. m \in Seq(Octet)
    BY <1>2 DEF Job
  <2>6. /\ Len(got') = n + 1 /\ got'[n + 1] = m
        /\ \A i \in 1..n : got'[i] = got[i]
    <3> HIDE DEF m
    <3>1. got' = Append(got, m)
      BY <1>5 DEF m
    <3>2. QED  BY <1>2, <2>5, <3>1 DEF Notes
  <2>7. m = job.resp
    OBVIOUS
  <2>8. RefsBalance' /\ Rest' /\ Reachable' /\ Faulted' /\ Watched'
    BY <1>1, <1>2, <1>5, <2>1, <2>2
       DEF ProtocolInv, RefsBalance, Rest, Reachable, Faulted, Watched
  <2>9. Understood'
    BY <1>2, <1>3, <2>1 DEF ProtocolInv, Understood
  <2>10. ASSUME NEW i \in 1..(n + 1)
         PROVE  i <= Len(job.asked) /\ Tells(got'[i], job.asked[i])
    <3>1. CASE i \in 1..n
      BY <2>6, <3>1 DEF ProtocolInv, Told
    <3>2. CASE i = n + 1
      BY <2>3, <2>4, <2>6, <2>7, <3>2
    <3>3. QED  BY <2>4, <3>1, <3>2
  <2>11. Told'
    <3> HIDE DEF m, n
    <3>1. \A bytes, id : Tells(bytes, id) => Tells(bytes, id)'
      BY <1>1, <2>1, TellsStays
    <3>2. \A i \in 1..(n + 1) :
            /\ i <= Len(job'.asked)
            /\ Tells(got[i], job.asked[i])'
      BY <2>1, <2>10, <3>1
    <3>3. job'.done = Len(got') /\ job'.done <= Len(Requested(job'.cmd))
      BY <2>1, <2>3, <2>4, <2>6
    <3>4. QED
      BY <1>3, <2>1, <2>2, <2>6, <3>2, <3>3 DEF Told
  <2>12. Justified'
    BY <2>1 DEF Justified
  <2>13. QED  BY <2>8, <2>9, <2>11, <2>12 DEF ProtocolInv
<1>6. QED  BY <1>4, <1>5 DEF Notify

\* A step of a command that reads nothing, on the settings.
LEMMA SettingsStep ==
    ASSUME TypeInv, ProtocolInv, Executing, Executing',
           us' \in [Settings -> Setting], RamFits', Witnessed,
           UNCHANGED <<link, subscribed, served, refs, got, hindered>>,
           job.cmd.type \notin Reading, job'.conn = job.conn,
           job'.asked = job.asked, job'.cmd = job.cmd
    PROVE  RefsBalance' /\ Rest' /\ Reachable' /\ Watched' /\ Told'
<1>1. /\ \A s \in Settings : held[s] \subseteq held'[s]
      /\ \A s \in Settings : Snapshot(us'[s]) \in held'[s]
  BY WitnessedStep
<1>2. RefsBalance' /\ Rest' /\ Reachable' /\ Watched'
  BY <1>1 DEF ProtocolInv, RefsBalance, Rest, Reachable, Watched
<1>3. got' = <<>> /\ Len(got') = 0
  BY EmptySeq DEF ProtocolInv, Told
<1>4. Told'
  BY <1>3 DEF Told
<1>5. QED  BY <1>2, <1>4

LEMMA ExecSetStep ==
    ASSUME TypeInv, ProtocolInv, ExecSet
    PROVE  ProtocolInv'
<1>1. /\ UNCHANGED <<link, subscribed, served, refs, got, hindered>>
      /\ Witnessed /\ job.pc = "set"
  BY DEF ExecSet, bt
<1>2. /\ Executing /\ job \in Job
      /\ us \in [Settings -> Setting] /\ RamFits
  BY <1>1 DEF Executing, TypeInv, TypeOK
<1>3. /\ job.cmd.err = "ok" /\ job.cmd.type \notin Reading
      /\ job.cmd.type \in Commands /\ job.cmd.type \in WithValue
      /\ job.cmd.type # USPC_RESTORE
      /\ job.asked = <<job.cmd.id>> /\ job.asked[1] = job.cmd.id
  BY <1>1, <1>2, Lists DEF ProtocolInv, Understood
<1> DEFINE Took(s) == IF job.cmd.type = USPC_SET
                      THEN us'[s].value = job.cmd.value
                      ELSE us'[s].default = job.cmd.value
<1>4. \E ret \in {"ok", "ENOENT", "ENOEXEC"} :
        /\ Finish(ret)
        /\ us' \in [Settings -> Setting] /\ RamFits'
        /\ ret = "ENOENT" => WithId(job.asked[1]) = {}
        /\ ret = "ok" => \E s \in WithId(job.asked[1]) : Took(s)
  <2>1. CASE WithId(job.cmd.id) = {} /\ Finish("ENOENT") /\ UNCHANGED us
    BY <1>2, <1>3, <2>1 DEF RamFits
  <2>2. ASSUME NEW s \in WithId(job.cmd.id), NEW r \in Results,
               SetAs(job.cmd.type, s, job.cmd.value, r),
               Finish(IF r = "ok" THEN "ok" ELSE "ENOEXEC")
        PROVE  \E ret \in {"ok", "ENOENT", "ENOEXEC"} :
                 /\ Finish(ret)
                 /\ us' \in [Settings -> Setting] /\ RamFits'
                 /\ ret = "ENOENT" => WithId(job.asked[1]) = {}
                 /\ ret = "ok" => \E x \in WithId(job.asked[1]) : Took(x)
    <3>1. s \in Settings
      BY DEF WithId
    <3>2. us' \in [Settings -> Setting] /\ RamFits'
      BY <1>2, <2>2, <3>1, ApiStep DEF SetAs
    <3>3. r = "ok" => Took(s)
      BY <1>2, <2>2, <3>1, SetTakes, Lists DEF SetAs
    <3>4. CASE r = "ok"
      BY <1>3, <2>2, <3>2, <3>3, <3>4
    <3>5. CASE r # "ok"
      BY <2>2, <3>2, <3>5
    <3>6. QED  BY <3>4, <3>5
  <2>3. QED  BY <2>1, <2>2 DEF ExecSet
<1>5. PICK ret \in {"ok", "ENOENT", "ENOEXEC"} :
        /\ Finish(ret)
        /\ us' \in [Settings -> Setting] /\ RamFits'
        /\ ret = "ENOENT" => WithId(job.asked[1]) = {}
        /\ ret = "ok" => \E s \in WithId(job.asked[1]) : Took(s)
  BY <1>4
<1>6. /\ job'.pc = "answer" /\ job'.ret = ret /\ job'.conn = job.conn
      /\ job'.asked = job.asked /\ job'.cmd = job.cmd
  BY <1>2, <1>5, JobKept
<1>7. Executing'
  BY <1>6 DEF Executing
<1>8. RefsBalance' /\ Rest' /\ Reachable' /\ Watched' /\ Told'
  BY <1>1, <1>2, <1>3, <1>5, <1>6, <1>7, SettingsStep
<1>9. Understood' /\ Faulted'
  BY <1>3, <1>6 DEF Understood, Faulted
<1>10. Justified'
  <2>1. ret = "ok" => \E s \in WithId(job.asked[1]) : \E r \in held'[s] :
               job.cmd.value = IF job.cmd.type = USPC_SET THEN r.value
                                                          ELSE r.default
    <3>1. \A s \in Settings : Snapshot(us'[s]) \in held'[s]
      BY <1>7, <1>8 DEF Watched
    <3>2. \A s : /\ Snapshot(us'[s]).value = us'[s].value
                 /\ Snapshot(us'[s]).default = us'[s].default
      BY DEF Snapshot
    <3>3. QED  BY <1>5, <3>1, <3>2 DEF WithId
  <2>2. QED  BY <1>3, <1>5, <1>6, <2>1 DEF Justified
<1>11. QED  BY <1>8, <1>9, <1>10 DEF ProtocolInv

LEMMA ExecRestoreStep ==
    ASSUME TypeInv, ProtocolInv, ExecRestore
    PROVE  ProtocolInv'
<1>1. /\ UNCHANGED <<link, subscribed, served, refs, got, hindered>>
      /\ Witnessed /\ job.pc = "restore"
  BY DEF ExecRestore, bt
<1>2. /\ Executing /\ job \in Job
      /\ us \in [Settings -> Setting] /\ RamFits
  BY <1>1 DEF Executing, TypeInv, TypeOK
<1>3. /\ job.cmd.err = "ok" /\ job.cmd.type \notin Reading
      /\ job.cmd.type \in Commands /\ job.cmd.type \notin WithValue
      /\ job.cmd.type = USPC_RESTORE
  BY <1>1, <1>2, Lists DEF ProtocolInv, Understood
<1>4. us' \in [Settings -> Setting] /\ RamFits'
  <2>1. CASE UNCHANGED us
    BY <1>2, <2>1 DEF RamFits
  <2>2. CASE job.done < N /\ RestoreCall(job.done + 1)
    <3>1. job.done + 1 \in Settings
      BY <1>2, <2>2, ApiAssumption DEF Settings, Job
    <3>2. QED  BY <1>2, <2>2, <3>1, ApiStep
  <2>3. QED  BY <2>1, <2>2 DEF ExecRestore
<1>5. /\ job'.pc \in {"answer", "restore"} /\ job'.conn = job.conn
      /\ job'.asked = job.asked /\ job'.cmd = job.cmd
      /\ job'.pc = "answer" => job'.ret = "ok"
  <2>1. CASE Finish("ok")
    BY <1>2, <2>1, JobKept
  <2>2. CASE job' = [job EXCEPT !.done = NextDone(@)]
    BY <1>1, <1>2, <2>2 DEF Job
  <2>3. QED  BY <2>1, <2>2 DEF ExecRestore
<1>6. Executing'
  BY <1>5 DEF Executing
<1>7. RefsBalance' /\ Rest' /\ Reachable' /\ Watched' /\ Told'
  BY <1>1, <1>2, <1>3, <1>4, <1>5, <1>6, SettingsStep
<1>8. Understood' /\ Faulted'
  BY <1>3, <1>5 DEF Understood, Faulted
<1>9. Justified'
  BY <1>3, <1>5 DEF Justified
<1>10. QED  BY <1>7, <1>8, <1>9 DEF ProtocolInv

LEMMA IdleInv ==
    ASSUME job' = NoJob, got' = <<>>, held' = Nothing, ~hindered'
    PROVE  /\ Rest' /\ Reachable' /\ Faulted' /\ Watched' /\ Understood'
           /\ Told' /\ Justified'
<1>1. job'.pc = "idle" /\ ~Executing'
  BY DEF NoJob, Executing
<1>2. Len(got') = 0
  BY EmptySeq
<1>3. QED
  BY <1>1, <1>2 DEF Rest, Reachable, Faulted, Watched, Understood, Told,
                    Justified

LEMMA AnswerStep ==
    ASSUME TypeInv, ProtocolInv, Answer
    PROVE  ProtocolInv'
<1>1. RefsBalance'
  BY DEF Answer, bt, ProtocolInv, RefsBalance
<1>2. QED  BY <1>1, IdleInv DEF Answer, ProtocolInv

LEMMA InvInit == Init => ProtocolInv
<1> SUFFICES ASSUME Init PROVE ProtocolInv
  OBVIOUS
<1>1. RefsBalance
  BY ProtocolAssumption DEF Init, RefsBalance
<1>2. job.pc = "idle" /\ ~Executing /\ Len(got) = 0
  BY EmptySeq DEF Init, NoJob, Executing
<1>3. QED
  BY <1>1, <1>2 DEF Init, ProtocolInv, Rest, Reachable, Faulted, Watched,
                    Understood, Told, Justified

LEMMA InvStep ==
    ASSUME OneLink
    PROVE  TypeInv /\ ProtocolInv /\ [Next]_vars => ProtocolInv'
<1> SUFFICES ASSUME TypeInv, ProtocolInv, [Next]_vars PROVE ProtocolInv'
  OBVIOUS
<1>1. CASE \E c \in Conns :
             \/ Connect(c) \/ LoseLink(c) \/ Disconnected(c)
             \/ \E on \in BOOLEAN : Subscribe(c, on)
  BY <1>1, LinkStep
<1>2. CASE \E c \in Conns : Write(c)
  BY <1>2, WriteStep
<1>3. CASE Execute
  BY <1>3, FetchStep, CheckStep, NotifyStep, ExecSetStep,
     ExecRestoreStep, AnswerStep DEF Execute
<1>4. CASE OtherSets
  BY <1>4, OtherSetsStep
<1>5. CASE UNCHANGED vars
  BY <1>5 DEF vars, bt, observers, ProtocolInv, RefsBalance, Rest, Reachable,
     Faulted, Watched, Understood, Told, Tells, Justified, TooLong, Executing
<1>6. QED  BY <1>1, <1>2, <1>3, <1>4, <1>5 DEF Next

\* The inductive invariant: what the executor, the service and the observer
\* know of each other between any two steps, when a device has one link.
THEOREM ProtocolInvariant ==
    ASSUME OneLink
    PROVE  Spec => [](TypeInv /\ ProtocolInv)
<1>1. Init => TypeInv /\ ProtocolInv
  BY TypeInit, InvInit
<1>2. TypeInv /\ ProtocolInv /\ [Next]_vars => (TypeInv /\ ProtocolInv)'
  BY TypeStep, InvStep
<1>3. QED  BY <1>1, <1>2, PTL DEF Spec

\* What is sent while a command runs is, read as the protocol's README says,
\* what its client asked for, in that order.
THEOREM MeantResponses ==
    ASSUME OneLink
    PROVE  Spec => []ResponsesAreMeant
<1>1. TypeInv /\ ProtocolInv => ResponsesAreMeant
  <2> SUFFICES ASSUME TypeInv, ProtocolInv, NEW i \in 1..Len(got)
               PROVE  /\ i <= Len(job.asked)
                      /\ \E s \in WithId(job.asked[i]) : \E r \in held[s] :
                           ClientReads(got[i], IsFull(job.cmd)) = Meant(s, r)
    BY DEF ResponsesAreMeant
  <2>1. i <= Len(job.asked) /\ Tells(got[i], job.asked[i])
    BY DEF ProtocolInv, Told
  <2>2. PICK s \in WithId(job.asked[i]) : \E r \in held[s] :
               got[i] = Encoded(Described(s, r), IsFull(job.cmd))
    BY <2>1 DEF Tells
  <2>3. PICK r \in held[s] :
               got[i] = Encoded(Described(s, r), IsFull(job.cmd))
    BY <2>2
  <2>4. /\ s \in Settings /\ r.value \in Fits[s] \cup {None}
        /\ r.default \in Fits[s] \cup {None}
    BY DEF WithId, TypeInv, HeldFits
  <2>5. ClientReads(got[i], IsFull(job.cmd)) = Meant(s, r)
    BY <2>3, <2>4, ReadAsMeant
  <2>6. QED  BY <2>1, <2>5
<1>2. QED  BY <1>1, ProtocolInvariant, PTL

\* A command that is answered, and why.
LEMMA AnswerReason ==
    ASSUME TypeInv, ProtocolInv, job.pc = "answer"
    PROVE  \/ /\ job.cmd.err # "ok" /\ job.asked = <<>> /\ got = <<>>
              /\ job.ret \in {"EPROTO", "ENOTSUP", "none"}
              /\ job.cmd.type \notin Reading /\ job.cmd.type \notin WithValue
           \/ /\ job.cmd.err = "ok" /\ job.cmd.type \in Reading
              /\ job.cmd.type \notin WithValue /\ Len(got) = job.done
              /\ Len(got) \in Nat /\ Len(job.asked) \in Nat
              /\ Goes(job.cmd, job.asked)
           \/ /\ job.cmd.err = "ok" /\ job.cmd.type \in WithValue
              /\ job.cmd.type \notin Reading /\ got = <<>> /\ Len(got) = 0
              /\ Len(job.asked) = 1
           \/ /\ job.cmd.err = "ok" /\ job.cmd.type = USPC_RESTORE
              /\ job.cmd.type \notin Reading /\ job.cmd.type \notin WithValue
              /\ job.ret = "ok"
<1>1. Executing /\ job \in Job /\ got \in Notes
  BY DEF Executing, TypeInv, TypeOK, Notes
<1>2. Understood /\ Told /\ Justified
  BY DEF ProtocolInv
<1>3. Len(got) \in Nat /\ Len(job.asked) \in Nat /\ Len(<<>>) = 0
  BY <1>1, LenProperties, EmptySeq DEF Job, Notes
<1>4. job.cmd.err \in {"ok", "EPROTO", "ENOTSUP", "none"}
  BY <1>1 DEF Job, CommandRecord
<1>5. CASE job.cmd.err # "ok"
  <2>1. job.cmd.type = 0 /\ job.asked = <<>> /\ job.ret = job.cmd.err
    BY <1>1, <1>2, <1>5 DEF Understood
  <2>2. job.cmd.type \notin Reading /\ job.cmd.type \notin WithValue
    BY <2>1, Lists
  <2>3. QED  BY <1>1, <1>2, <1>4, <1>5, <2>1, <2>2 DEF Told
<1>6. CASE job.cmd.err = "ok"
  <2>1. job.cmd.type \in Commands
    BY <1>1, <1>2, <1>6 DEF Understood
  <2>2. CASE job.cmd.type \in Reading
    BY <1>1, <1>2, <1>3, <1>6, <2>2, Lists DEF Told, Understood
  <2>3. CASE job.cmd.type \in WithValue
    <3>1. job.asked = <<job.cmd.id>> /\ Len(job.asked) = 1
      BY <1>1, <1>2, <1>6, <2>3 DEF Understood
    <3>2. QED  BY <1>1, <1>2, <1>3, <1>6, <2>3, <3>1, Lists DEF Told
  <2>4. CASE job.cmd.type = USPC_RESTORE
    BY <1>2, <1>6, <2>4, Lists DEF Justified
  <2>5. QED  BY <2>1, <2>2, <2>3, <2>4, Lists
<1>7. QED  BY <1>5, <1>6

\* A write answered with success did all of what it asked for; of a list of ids
\* this is said only if their length in bytes fits one byte.
THEOREM CompleteSuccess ==
    ASSUME OneLink
    PROVE  Spec => SuccessIsComplete
<1> DEFINE Done ==
      /\ job.cmd.type \in Reading /\ Countable(job.asked) =>
             Len(got) = Len(job.asked)
      /\ job.cmd.type \in WithValue =>
             \E s \in WithId(job.asked[1]) : \E r \in held[s] :
                 job.cmd.value = IF job.cmd.type = USPC_SET THEN r.value
                                                      ELSE r.default
<1>1. TypeInv /\ ProtocolInv => [Answers("ok") => Done]_vars
  <2> SUFFICES ASSUME TypeInv, ProtocolInv, Answers("ok") PROVE Done
    OBVIOUS
  <2>1. job.pc = "answer" /\ job.ret = "ok"
    BY DEF Answers, AttError
  <2>2. Justified
    BY DEF ProtocolInv
  <2>3. QED  BY <2>1, <2>2, AnswerReason DEF Justified, Goes
<1>2. SuccessIsComplete <=> [][Answers("ok") => Done]_vars
  BY DEF SuccessIsComplete
<1>3. QED  BY <1>1, <1>2, ProtocolInvariant, PTL

\* A client that gets an error for a read can tell why, from the code and the
\* responses before it.
THEOREM FailureExplained ==
    ASSUME OneLink
    PROVE  Spec => FailureHasACause
<1> DEFINE Cause ==
             /\ Answers("NOT_FOUND") =>
                    /\ Len(got) < Len(job.asked)
                    /\ WithId(job.asked[Len(got) + 1]) = {}
             /\ Answers("NOT_SUPPORTED") => job.asked = <<>> /\ got = <<>>
             /\ Answers("UNLIKELY") /\ job.cmd.type \in Reading =>
                    \/ hindered
                    \/ /\ Len(got) < Len(job.asked)
                       /\ \E s \in WithId(job.asked[Len(got) + 1]) : TooLong(s)
<1>1. TypeInv /\ ProtocolInv => [Cause]_vars
  <2> SUFFICES ASSUME TypeInv, ProtocolInv PROVE Cause
    OBVIOUS
  <2>1. Justified
    BY DEF ProtocolInv
  <2>2. ASSUME Answers("NOT_FOUND")
        PROVE  Len(got) < Len(job.asked) /\ WithId(job.asked[Len(got) + 1]) = {}
    <3>1. job.pc = "answer" /\ job.ret = "ENOENT"
      BY <2>2 DEF Answers, AttError
    <3>2. CASE job.cmd.err = "ok" /\ job.cmd.type \in Reading
      BY <2>1, <3>1, <3>2, AnswerReason DEF Justified
    <3>3. CASE job.cmd.err = "ok" /\ job.cmd.type \in WithValue
      BY <2>1, <3>1, <3>3, AnswerReason DEF Justified
    <3>4. QED  BY <3>1, <3>2, <3>3, AnswerReason
  <2>3. ASSUME Answers("NOT_SUPPORTED")
        PROVE  job.asked = <<>> /\ got = <<>>
    <3>1. job.pc = "answer" /\ job.ret = "EPROTO"
      BY <2>3 DEF Answers, AttError
    <3>2. QED  BY <2>1, <3>1, AnswerReason DEF Justified
  <2>4. ASSUME Answers("UNLIKELY"), job.cmd.type \in Reading
        PROVE  \/ hindered
               \/ /\ Len(got) < Len(job.asked)
                  /\ \E s \in WithId(job.asked[Len(got) + 1]) : TooLong(s)
    <3>1. job.pc = "answer" /\ job.ret # "ok" /\ job.ret # "ENOENT"
      BY <2>4 DEF Answers, AttError
    <3>2. QED  BY <2>1, <2>4, <3>1, AnswerReason DEF Justified
  <2>5. QED  BY <2>2, <2>3, <2>4
<1>2. FailureHasACause <=> [][Cause]_vars
  BY DEF FailureHasACause
<1>3. QED  BY <1>1, <1>2, ProtocolInvariant, PTL

=============================================================================
