-------------------------- MODULE SettingsProtocol --------------------------
(***************************************************************************)
(* The protocol executor (library/protocol/executor) under the Bluetooth   *)
(* service (library/bt_service/bt_uss.c).  A client writes a command to    *)
(* the characteristic; the Bluetooth stack's one receive thread decodes    *)
(* and executes it, sends each response as a notification, and answers the *)
(* write.  Meanwhile the link may be lost, the service be disabled from    *)
(* the disconnected handler, and other threads change settings.            *)
(***************************************************************************)
EXTENDS SettingsApi, BinaryCodec, FiniteSets

CONSTANTS
    Info,        \* Info[s]: id, key, type and max_size of setting s
    Conns,       \* connection objects, CONFIG_BT_MAX_CONN of them
    NoConn,      \* NULL as a connection
    RespLen,     \* resp_buffer_len
    Requests,    \* what clients ask for: [type, ids, value]
    Malformed,   \* other writes
    Meddling     \* bound: states of one setting during one command

ASSUME ProtocolAssumption ==
    /\ NoConn \notin Conns
    /\ RespLen \in Nat /\ Meddling \in Nat

\* Settings have distinct ids, a key is a C string, and a value is at most
\* max_size bytes long ("maximum ... is 255 bytes").
ASSUME SettingsAssumption ==
    /\ \A s \in Settings :
         /\ Info[s].id \in IdRange /\ Info[s].key \in Seq(Octet \ {NUL})
         /\ Info[s].type \in Octet /\ Info[s].max \in Octet
         /\ \A v \in Fits[s] : v \in Seq(Octet) /\ Len(v) <= Info[s].max
    /\ \A s, r \in Settings : Info[s].id = Info[r].id => s = r

\* Clients write what the protocol's README says, and other bytes that the
\* decoder refuses.  The number of ids of a list is one byte.
ASSUME RequestsAssumption ==
    /\ \A q \in Requests :
         /\ q.type \in Commands /\ q.ids \in Seq(IdRange)
         /\ q.type \in TypeOnly => q.ids = <<>>
         /\ q.type \in OneId \cup WithValue => Len(q.ids) = 1
         /\ q.type \in ManyIds => Len(q.ids) \in Octet
         /\ q.type \in WithValue =>
                q.value \in Seq(Octet) /\ Len(q.value) \in Octet \ {0}
    /\ \A b \in Malformed : Decode(b).err # "ok"

VARIABLES
    link,        \* link[c]: "down", "up", or "lost" until the handler ran
    subscribed,  \* subscribed[c]: the client's CCC value
    served,      \* prv_bt_conn
    refs,        \* refs[c]: references the service holds on c
    job,         \* the command being executed
    got,         \* observer: the notifications of this command
    held,        \* observer: the states of each setting during this command
    hindered     \* observer: a notification of this command could not go out

bt == <<link, subscribed, served, refs>>
observers == <<got, held, hindered>>
vars == <<us, bt, job, observers>>

Job ==
    [pc : {"idle", "fetch", "check", "subscribed", "notify", "set", "restore",
           "answer", "fault"},
     conn : Conns \cup {NoConn}, asked : Seq(IdRange), cmd : CommandRecord,
     done : Nat, resp : Seq(Octet),
     ret : {"none", "ok", "EPROTO", "ENOTSUP", "ENOENT", "ENOMEM", "EIO",
            "ENOEXEC"}]
NoJob == [pc |-> "idle", conn |-> NoConn, asked |-> <<>>,
          cmd |-> Refused("none"), done |-> 0, resp |-> <<>>,
          ret |-> "none"]
Executing == job.pc # "idle"

Snapshot(r) == [value |-> r.value, default |-> r.default]
Nothing == [s \in Settings |-> {}]
Now(u) == [s \in Settings |-> {Snapshot(u[s])}]

\* The observer after settings changed from us to us'.
Witnessed ==
    held' = IF Executing
            THEN [s \in Settings |-> held[s] \cup {Snapshot(us'[s])}]
            ELSE held

-----------------------------------------------------------------------------
(* The link and the service.  The stack runs connected handlers and CCC      *)
(* writes on the receive thread, so not during a command; a link may be lost *)
(* at any time, and the disconnected handler runs on another thread.         *)

\* bt_uss_enable, from the connected handler.
Enable(c) ==
    /\ served' = c
    /\ refs' = [refs EXCEPT ![c] = @ + 1]

\* bt_uss_disable, from the disconnected handler; the argument is not used.
\* With nothing served bt_conn_unref(NULL) is a failed assertion: no step.
Disable(c) ==
    /\ served # NoConn
    /\ served' = NoConn
    /\ refs' = [refs EXCEPT ![served] = @ - 1]

\* The stack gives a new link a connection object nobody refers to.  A bonded
\* client finds its subscription as it left it.
Connect(c) ==
    /\ link[c] = "down" /\ refs[c] = 0 /\ ~Executing
    /\ link' = [link EXCEPT ![c] = "up"]
    /\ \E on \in BOOLEAN : subscribed' = [subscribed EXCEPT ![c] = on]
    /\ Enable(c)
    /\ UNCHANGED <<us, job, observers>>

Subscribe(c, on) ==
    /\ link[c] = "up" /\ ~Executing
    /\ subscribed' = [subscribed EXCEPT ![c] = on]
    /\ UNCHANGED <<us, link, served, refs, job, observers>>

LoseLink(c) ==
    /\ link[c] = "up"
    /\ link' = [link EXCEPT ![c] = "lost"]
    /\ subscribed' = [subscribed EXCEPT ![c] = FALSE]
    /\ hindered' = (hindered \/ job.conn = c)
    /\ UNCHANGED <<us, served, refs, job, got, held>>

Disconnected(c) ==
    /\ link[c] = "lost"
    /\ link' = [link EXCEPT ![c] = "down"]
    /\ Disable(c)
    /\ UNCHANGED <<us, subscribed, job, observers>>

-----------------------------------------------------------------------------
(* prv_on_receive_write and usp_executor_parse_and_execute                 *)

Reading == OneId \cup ManyIds \cup {USPC_LIST, USPC_LIST_FULL}

Phase(cmd) == IF cmd.err # "ok" THEN "answer"
              ELSE IF cmd.type \in Reading THEN "fetch"
              ELSE IF cmd.type = USPC_RESTORE THEN "restore" ELSE "set"

\* The ids copied into a command are longer than its value field: undefined,
\* the command runs as decoded or stops the thread.
Overruns(cmd) == Len(cmd.value) > Radix

\* asked is what the client wants to hear: the ids it asked for, in order.
Receive(c, b, asked) ==
    /\ link[c] = "up" /\ ~Executing
    /\ \E pc \in {Phase(Decode(b))}
                  \cup {p \in {"fault"} : Overruns(Decode(b))} :
         job' = [pc |-> pc, conn |-> c, asked |-> asked,
                 cmd |-> Decode(b), done |-> 0, resp |-> <<>>,
                 ret |-> Decode(b).err]
    /\ held' = Now(us)
    /\ hindered' = ~subscribed[c]
    /\ UNCHANGED <<us, bt, got>>

\* The bytes of a request, and the ids it asks for.
BytesOf(q) ==
    IF q.type \in TypeOnly THEN <<q.type>>
    ELSE IF q.type \in OneId THEN ClientGets(q.type, q.ids[1])
    ELSE IF q.type \in ManyIds THEN ClientLists(q.type, q.ids)
    ELSE ClientSets(q.type, q.ids[1], q.value)

AllIds == [s \in Settings |-> Info[s].id]
AskedBy(q) == IF q.type \in {USPC_LIST, USPC_LIST_FULL} THEN AllIds ELSE q.ids

Write(c) ==
    \/ \E q \in Requests : Receive(c, BytesOf(q), AskedBy(q))
    \/ \E b \in Malformed : Receive(c, b, <<>>)

\* The ids the executor goes through.
Requested(cmd) ==
    IF cmd.type \in OneId THEN <<cmd.id>>
    ELSE IF cmd.type \in ManyIds THEN Ids(cmd) ELSE AllIds

WithId(id) == {s \in Settings : Info[s].id = id}
Bytes(v) == IF v = None THEN <<>> ELSE v
Described(s, r) ==
    [id |-> Info[s].id, key |-> Info[s].key, type |-> Info[s].type,
     max |-> Info[s].max, data |-> Bytes(r.value), default |-> Bytes(r.default)]

IsFull(cmd) == cmd.type \in Full
Finish(ret) == job' = [job EXCEPT !.pc = "answer", !.ret = ret]

FetchOneLess(k) == k + 1 >= Len(Requested(job.cmd))  \* mutant: stops early
FetchedAll(k) == k = Len(Requested(job.cmd))

\* prv_exec_get_common, and prv_exec_list_common for one element: look up and
\* encode.  The response waits in resp_buffer, here job.resp.
Fetch ==
    /\ job.pc = "fetch"
    /\ IF FetchedAll(job.done) THEN Finish("ok")
       ELSE LET found == WithId(Requested(job.cmd)[job.done + 1]) IN
            \/ found = {} /\ Finish("ENOENT")
            \/ \E s \in found :
                 LET r == Described(s, us[s]) IN
                 IF EncodeFits(r, IsFull(job.cmd), RespLen)
                 THEN job' = [job EXCEPT !.pc = "check",
                                         !.resp = Encoded(r, IsFull(job.cmd))]
                 ELSE Finish("ENOMEM")
    /\ UNCHANGED <<us, bt, observers>>

Goto(pc) == job' = [job EXCEPT !.pc = pc]

\* prv_send_notification reads prv_bt_conn three times: for the NULL test, for
\* the subscription, and to notify.  Any error of it is -EIO to the executor.
CheckServed ==
    /\ job.pc = "check"
    /\ IF served = NoConn THEN Finish("EIO") ELSE Goto("subscribed")
    /\ UNCHANGED <<us, bt, observers>>

\* bt_gatt_is_subscribed of a NULL connection is undefined: it stops the thread
\* or finds no subscription, as does a build that reads prv_bt_conn only once
\* for both tests and has the connection that is gone.
CheckSubscribed ==
    /\ job.pc = "subscribed"
    /\ \/ served = NoConn /\ (Goto("fault") \/ Finish("EIO"))
       \/ served \in Conns /\ subscribed[served] /\ Goto("notify")
       \/ served \in Conns /\ ~subscribed[served] /\ Finish("EIO")
    /\ UNCHANGED <<us, bt, observers>>

\* bt_gatt_notify: to one connection, or to every subscribed one if it is NULL.
Receivers == {c \in Conns : /\ c = served \/ served = NoConn
                            /\ link[c] = "up" /\ subscribed[c]}

Notify ==
    /\ job.pc = "notify"
    /\ \/ /\ Receivers # {}
          /\ got' = Append(got, job.resp)
          /\ job' = [job EXCEPT !.pc = "fetch", !.done = @ + 1, !.resp = <<>>]
          /\ UNCHANGED hindered
       \/ /\ Finish("EIO")        \* no receiver, or no buffer for it
          /\ hindered' = TRUE
          /\ UNCHANGED got
    /\ UNCHANGED <<us, bt, held>>

Results == {"ok", "ENOMEM", "EINVAL", "EALREADY", "EIO"}

SetValueOnly(type, s, v, r) == SetCall(s, v, r)  \* mutant: default as value
SetAs(type, s, v, r) ==
    \/ type = USPC_SET /\ SetCall(s, v, r)
    \/ type = USPC_SET_DEFAULT /\ SetDefaultCall(s, v, r)

\* prv_exec_set, prv_exec_set_default
ExecSet ==
    /\ job.pc = "set"
    /\ LET found == WithId(job.cmd.id) IN
       \/ found = {} /\ Finish("ENOENT") /\ UNCHANGED us
       \/ \E s \in found, r \in Results :
            /\ SetAs(job.cmd.type, s, job.cmd.value, r)
            /\ Finish(IF r = "ok" THEN "ok" ELSE "ENOEXEC")
    /\ Witnessed
    /\ UNCHANGED <<bt, got, hindered>>

SameDone(k) == k    \* mutant: the loop stays at one setting
NextDone(k) == k + 1

\* prv_exec_restore, one setting at a time.
ExecRestore ==
    /\ job.pc = "restore"
    /\ \/ job.done = N /\ Finish("ok") /\ UNCHANGED us
       \/ /\ job.done < N
          /\ RestoreCall(job.done + 1)
          /\ job' = [job EXCEPT !.done = NextDone(@)]
    /\ Witnessed
    /\ UNCHANGED <<bt, got, hindered>>

AllUnlikely(ret) == IF ret = "ok" THEN "ok" ELSE "UNLIKELY"  \* mutant: one error
AttError(ret) ==
    IF ret = "ok" THEN "ok"
    ELSE IF ret = "ENOENT" THEN "NOT_FOUND"
    ELSE IF ret = "EPROTO" THEN "NOT_SUPPORTED" ELSE "UNLIKELY"

\* The write is answered with AttError(job.ret).
Answer ==
    /\ job.pc = "answer"
    /\ job' = NoJob
    /\ got' = <<>> /\ held' = Nothing /\ hindered' = FALSE
    /\ UNCHANGED <<us, bt>>

-----------------------------------------------------------------------------
\* Another thread sets a value or a default.
OtherSets ==
    /\ \A s \in Settings : Cardinality(held[s]) < Meddling
    /\ \E s \in Settings, v \in Value, r \in Results :
           SetCall(s, v, r) \/ SetDefaultCall(s, v, r)
    /\ us' # us
    /\ Witnessed
    /\ UNCHANGED <<bt, job, got, hindered>>

Init ==
    /\ InitApi
    /\ link = [c \in Conns |-> "down"]
    /\ subscribed = [c \in Conns |-> FALSE]
    /\ served = NoConn
    /\ refs = [c \in Conns |-> 0]
    /\ job = NoJob
    /\ got = <<>> /\ held = Nothing /\ hindered = FALSE

Execute ==
    \/ Fetch \/ CheckServed \/ CheckSubscribed \/ Notify
    \/ ExecSet \/ ExecRestore \/ Answer

Next ==
    \/ \E c \in Conns :
           \/ Connect(c) \/ LoseLink(c) \/ Disconnected(c) \/ Write(c)
           \/ \E on \in BOOLEAN : Subscribe(c, on)
    \/ Execute
    \/ OtherSets

Spec == Init /\ [][Next]_vars

\* The receive thread runs, and the stack calls the disconnected handler.
FairSpec ==
    /\ Spec
    /\ WF_vars(Execute)
    /\ \A c \in Conns : WF_vars(Disconnected(c))

-----------------------------------------------------------------------------
(* Properties *)

\* Every variable holds a value of the type the code gives it.
TypeOK ==
    /\ us \in [Settings -> Setting]
    /\ link \in [Conns -> {"down", "up", "lost"}]
    /\ subscribed \in [Conns -> BOOLEAN]
    /\ served \in Conns \cup {NoConn}
    /\ refs \in [Conns -> Nat]
    /\ job \in Job /\ Len(job.resp) <= RespLen
    /\ got \in Seq(Seq(Octet))
    /\ held \in [Settings -> SUBSET [value : Value \cup {None},
                                     default : Value \cup {None}]]
    /\ hindered \in BOOLEAN

Meant(s, r) ==
    LET d == Described(s, r)
        full == IsFull(job.cmd)
    IN [id |-> d.id, key |-> d.key, type |-> d.type, data |-> d.data,
        default |-> IF full THEN d.default ELSE <<>>,
        max |-> IF full THEN d.max ELSE 0, extra |-> 0]

\* What is sent while a command runs is, read as the protocol's README says, the
\* settings its client asked for in the order it asked, each as it was at some
\* moment of the command, whoever sets settings or drops the link meanwhile.
ResponsesAreMeant ==
    \A i \in 1..Len(got) :
        /\ i <= Len(job.asked)
        /\ \E s \in WithId(job.asked[i]) : \E r \in held[s] :
               ClientReads(got[i], IsFull(job.cmd)) = Meant(s, r)

Answers(att) == job.pc = "answer" /\ job'.pc = "idle" /\ AttError(job.ret) = att

\* The decoder can hold the length in bytes of this many ids.
Countable(ids) == 2 * Len(ids) \in Octet

\* A write answered with success did all of what it asked for: every response
\* went out, or the setting took the value at some moment of the command.  Of a
\* list of more ids than the decoder can count nothing is said.
SuccessIsComplete ==
    [][Answers("ok") =>
         /\ job.cmd.type \in Reading /\ Countable(job.asked) =>
                Len(got) = Len(job.asked)
         /\ job.cmd.type \in WithValue =>
                \E s \in WithId(job.asked[1]) : \E r \in held[s] :
                    job.cmd.value = IF job.cmd.type = USPC_SET THEN r.value
                                                         ELSE r.default]_vars

TooLong(s) == \E r \in held[s] :
    Required(Described(s, [value |-> r.value, default |-> r.default]),
             IsFull(job.cmd)) > RespLen

\* A client that gets an error for a read knows why, from the code and the
\* responses before it: NOT_FOUND is the next id it asked for, NOT_SUPPORTED
\* its own write, and otherwise the next setting did not fit the buffer or
\* a notification could not go out.
FailureHasACause ==
    [][/\ Answers("NOT_FOUND") =>
              /\ Len(got) < Len(job.asked)
              /\ WithId(job.asked[Len(got) + 1]) = {}
       /\ Answers("NOT_SUPPORTED") => job.asked = <<>> /\ got = <<>>
       /\ Answers("UNLIKELY") /\ job.cmd.type \in Reading =>
              \/ hindered
              \/ /\ Len(got) < Len(job.asked)
                 /\ \E s \in WithId(job.asked[Len(got) + 1]) : TooLong(s)]_vars

\* A command ends, whatever fails or changes under way, unless it stops the
\* receive thread; and that only a list that overruns the command does, or a
\* disconnected handler that runs between the tests of a notification.
CommandsEnd ==
    Executing ~> \/ ~Executing
                 \/ /\ job.pc = "fault"
                    /\ served = NoConn \/ Overruns(job.cmd)

-----------------------------------------------------------------------------
(* What the documentation says and the code does not do; each is refuted.  *)

\* bt_uss.h: "Writing to the characteristic can fail, in which case it will
\* return one of the following errors".
EveryWriteIsAnswered == Executing ~> ~Executing

\* protocol README, LIST SOME: "1 byte number of settings (N), N * 2 byte
\* setting ID.  Each setting is encoded separately".
SuccessMeansAll ==
    [][Answers("ok") /\ job.cmd.type \in Reading =>
           Len(got) = Len(job.asked)]_vars
=============================================================================
