---------------------------- MODULE SettingsShell ----------------------------
(***************************************************************************)
(* The usettings commands of user_settings_shell.c, run one at a time by   *)
(* the shell thread: a command makes one API call, or one for each setting *)
(* in turn, and other threads may run between two steps.  TypedSetting has *)
(* the conversion of the arguments.                                        *)
(***************************************************************************)
EXTENDS SettingsApi

CONSTANTS Commands, NoKey

Keyed == {"get", "set", "set_default", "restore_one", "clear_changed_one"}
Listing == {"list", "list_changed"}
Looping == {"restore", "clear_changed"}

VARIABLE cmd      \* the command being run, or the last result ("ok" at first)

Command == [op : {"idle"} \cup Keyed \cup Listing \cup Looping,
            key : Settings \cup {NoKey}, v : Value \cup {None}, at : 1..(N + 1),
            shown : Seq(Settings),
            ret : {"ok", "ENOENT", "EALREADY", "EINVAL", "ENOMEM", "EIO"}]
NoCommand(r) == [op |-> "idle", key |-> NoKey, v |-> None, at |-> 1,
                 shown |-> <<>>, ret |-> r]
InitShell == cmd = NoCommand("ok")

\* A user types a command; the key may name no setting.
Type(op, key, v) ==
    /\ cmd.op = "idle"
    /\ op \in Commands
    /\ cmd' = [NoCommand("ok") EXCEPT !.op = op, !.key = key, !.v = v]
    /\ UNCHANGED us

Typed ==
    \/ \E op \in {"set", "set_default"}, key \in Settings, v \in Value :
           Type(op, key, v)
    \/ \E op \in Keyed \ {"set", "set_default"}, key \in Settings :
           Type(op, key, None)
    \/ \E op \in Keyed : Type(op, NoKey, None)
    \/ \E op \in Listing \cup Looping : Type(op, NoKey, None)

Return(r) == cmd' = NoCommand(r)

\* user_settings_list_get_by_key finds nothing.
NotFound ==
    /\ cmd.op \in Keyed /\ cmd.key = NoKey
    /\ Return("ENOENT")
    /\ UNCHANGED us
Found == cmd.op \in Keyed /\ cmd.key # NoKey

\* cmd_set, cmd_set_default
SetAs(op, s, v, r) ==
    \/ op = "set" /\ SetCall(s, v, r)
    \/ op = "set_default" /\ SetDefaultCall(s, v, r)

CmdSet ==
    /\ Found
    /\ \E r \in {"ok", "EINVAL", "ENOMEM", "EIO", "EALREADY"} :
           SetAs(cmd.op, cmd.key, cmd.v, r) /\ Return(r)

CmdGet ==
    /\ Found /\ cmd.op = "get"
    /\ Return("ok")
    /\ UNCHANGED us

\* cmd_restore_one and cmd_clear_changed_one have nothing to report.
Apply(op, s) ==
    \/ op \in {"restore", "restore_one"} /\ RestoreCall(s)
    \/ op \in {"clear_changed", "clear_changed_one"} /\ FlagCall(s, FALSE)

CmdOne ==
    /\ Found
    /\ Apply(cmd.op, cmd.key)
    /\ Return("ok")

\* cmd_restore and cmd_clear_changed: the loops of the library.
AllButLast == 1..(N - 1)      \* mutant: off by one
Reached == 1..N
CmdAll ==
    /\ cmd.op \in Looping
    /\ IF cmd.at \in Reached
       THEN Apply(cmd.op, cmd.at) /\ cmd' = [cmd EXCEPT !.at = @ + 1]
       ELSE Return("ok") /\ UNCHANGED us

\* cmd_list, cmd_list_changed
Prints(s) == cmd.op = "list" \/ us[s].changed
PrintOne ==
    /\ cmd.op \in Listing /\ cmd.at <= N
    /\ cmd' = [cmd EXCEPT !.at = @ + 1,
                 !.shown = IF Prints(cmd.at) THEN Append(@, cmd.at) ELSE @]
    /\ UNCHANGED us

ListEnd ==
    /\ cmd.op \in Listing /\ cmd.at > N
    /\ Return("ok")
    /\ UNCHANGED us

ShellStep == NotFound \/ CmdSet \/ CmdGet \/ CmdOne \/ CmdAll \/ PrintOne \/ ListEnd
=============================================================================
