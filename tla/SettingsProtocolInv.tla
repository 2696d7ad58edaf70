------------------------- MODULE SettingsProtocolInv -------------------------
(***************************************************************************)
(* The inductive invariant behind the properties of SettingsProtocol, for  *)
(* one link at a time (one connection object).                             *)
(***************************************************************************)
EXTENDS SettingsProtocol

\* A device with one connection object has one link at a time.
OneLink == \A c, d \in Conns : c = d

\* The service holds a reference on the connection it serves and on no other;
\* while it does, the stack has no object for another link.
RefsBalance ==
    \A c \in Conns :
        /\ refs[c] = IF served = c THEN 1 ELSE 0
        /\ (link[c] # "down") = (served = c)

\* The connection served is referred to.
Referred == served # NoConn => refs[served] > 0

\* RAM holds what fits.
RamFits ==
    \A s \in Settings : us[s].value \in Fits[s] \cup {None}
                            /\ us[s].default \in Fits[s] \cup {None}

\* Between commands nothing is kept of the last.
Rest == ~Executing => job = NoJob /\ got = <<>> /\ held = Nothing /\ ~hindered

\* Unless hindered, the client whose command runs can be notified.
Reachable ==
    Executing =>
        /\ job.conn \in Conns
        /\ hindered \/ (link[job.conn] = "up" /\ subscribed[job.conn])

\* Only what is undefined stops the receive thread.
Faulted == job.pc = "fault" => served = NoConn \/ Overruns(job.cmd)

\* The observer has seen only what fits, and the present settings.
HeldFits ==
    \A s \in Settings : held[s] \subseteq
        [value : Fits[s] \cup {None}, default : Fits[s] \cup {None}]
Watched == Executing => \A s \in Settings : Snapshot(us[s]) \in held[s]

\* The ids a reading command goes through are the first of those asked for, and
\* all of them if the decoder can count them.
Goes(cmd, asked) ==
    LET ids == Requested(cmd) IN
    /\ Len(ids) <= Len(asked)
    /\ \A i \in 1..Len(ids) : ids[i] = asked[i]
    /\ Countable(asked) => Len(ids) = Len(asked)

\* The command is what the client asked for.
Understood ==
    Executing =>
        \/ /\ job.cmd.err # "ok" /\ job.asked = <<>> /\ job.cmd.type = 0
           /\ job.pc = "answer" /\ job.ret = job.cmd.err
        \/ /\ job.cmd.err = "ok"
           /\ job.cmd.type \in Reading => Goes(job.cmd, job.asked)
           /\ job.cmd.type \in WithValue => job.asked = <<job.cmd.id>>
           /\ job.pc \in {"fetch", "check", "subscribed", "notify"} =>
                  job.cmd.type \in Reading
           /\ job.pc = "set" => job.cmd.type \in WithValue
           /\ job.pc = "restore" => job.cmd.type = USPC_RESTORE
           /\ job.cmd.type \in Commands

\* bytes are a setting of this id as it was at some moment of the command.
Tells(bytes, id) ==
    \E s \in WithId(id) : \E r \in held[s] :
        bytes = Encoded(Described(s, r), IsFull(job.cmd))

\* The responses so far, and the one that waits in resp_buffer.
Told ==
    /\ Executing /\ job.cmd.type \notin Reading => got = <<>>
    /\ Executing /\ job.cmd.type \in Reading =>
         /\ job.done = Len(got) /\ job.done <= Len(Requested(job.cmd))
         /\ job.pc \in {"check", "subscribed", "notify"} =>
                /\ job.done < Len(Requested(job.cmd))
                /\ Tells(job.resp, job.asked[job.done + 1])
    /\ \A i \in 1..Len(got) :
         i <= Len(job.asked) /\ Tells(got[i], job.asked[i])

\* The result is the reason the command ended.
Justified ==
    job.pc = "answer" /\ job.cmd.err = "ok" =>
        /\ job.cmd.type \in Reading =>
             \/ job.ret = "ok" /\ job.done = Len(Requested(job.cmd))
             \/ /\ job.ret = "ENOENT" /\ job.done < Len(job.asked)
                /\ WithId(job.asked[job.done + 1]) = {}
             \/ /\ job.ret = "ENOMEM" /\ job.done < Len(job.asked)
                /\ \E s \in WithId(job.asked[job.done + 1]) : TooLong(s)
             \/ job.ret = "EIO" /\ hindered
        /\ job.cmd.type \in WithValue =>
             \/ /\ job.ret = "ok"
                /\ \E s \in WithId(job.asked[1]) : \E r \in held[s] :
                     job.cmd.value = IF job.cmd.type = USPC_SET THEN r.value
                                                          ELSE r.default
             \/ job.ret = "ENOENT" /\ WithId(job.asked[1]) = {}
             \/ job.ret = "ENOEXEC"
        /\ job.cmd.type = USPC_RESTORE => job.ret = "ok"

\* Behind TypeOK, for any number of links.
TypeInv == TypeOK /\ Referred /\ RamFits /\ HeldFits

ProtocolInv ==
    /\ RefsBalance
    /\ Rest /\ Reachable /\ Faulted /\ Watched
    /\ Understood /\ Told /\ Justified
=============================================================================
