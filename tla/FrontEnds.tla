------------------------------ MODULE FrontEnds ------------------------------
(***************************************************************************)
(* An application thread that uses the JSON functions and a shell thread,  *)
(* on the same settings.  The application keeps a copy elsewhere up to     *)
(* date with what the library offers for it: it sends the export of the    *)
(* changed settings and then calls user_settings_clear_changed.            *)
(***************************************************************************)
EXTENDS SettingsJson, SettingsShell

CONSTANT Meddling   \* bound: writes of the shell during one JSON call or cycle

VARIABLES
    copy,      \* the application's copy: copy[s] is the last value it was sent
    cycle,     \* the cycle's phase, and the setting clear_changed has reached
    \* Observers
    shellWrites, jsonWrote,   \* has the other thread changed a setting
    seen,      \* seen[w][s]: flags of s since a walk over the changed began
    behind     \* settings whose change the application can not learn of

vars == <<us, job, cmd, copy, cycle, shellWrites, jsonWrote, seen, behind>>

Walks == {"json", "shell"}

InitFrontEnds ==
    /\ InitApi /\ InitJson /\ InitShell
    /\ copy = [s \in Settings |-> None]
    /\ cycle = [phase |-> "idle", at |-> 1]
    /\ shellWrites = 0 /\ jsonWrote = FALSE
    /\ seen = [w \in Walks |-> [s \in Settings |-> {}]]
    /\ behind = {}

-----------------------------------------------------------------------------
(* The application *)

InCycle == cycle.phase # "idle"

StartImport ==
    /\ ~InCycle
    /\ \E i \in Imports : Import(i[1], i[2])
    /\ UNCHANGED <<copy, cycle>>

StartExport ==
    /\ ~InCycle
    /\ Export(FALSE)
    /\ UNCHANGED <<copy, cycle>>

StartCycle ==
    /\ ~InCycle
    /\ Export(TRUE)
    /\ cycle' = [cycle EXCEPT !.phase = job'.op]
    /\ UNCHANGED copy

JsonSteps == (ImportStep \/ ExportStep) /\ UNCHANGED <<copy, cycle>>

Sent(s) == \E i \in DOMAIN job.out : job.out[i][1] = s
ExportReturns ==
    /\ ExportEnd
    /\ IF cycle.phase = "export"
       THEN /\ copy' = [s \in Settings |->
                   IF Sent(s) THEN (CHOOSE x \in {job.out[i] : i \in DOMAIN job.out} :
                                       x[1] = s)[2]
                   ELSE copy[s]]
            /\ cycle' = [cycle EXCEPT !.phase = "clear"]
       ELSE UNCHANGED <<copy, cycle>>

\* One element of user_settings_clear_changed.
ClearStep ==
    /\ cycle.phase = "clear"
    /\ FlagCall(cycle.at, FALSE)
    /\ cycle' = IF cycle.at = N THEN [phase |-> "idle", at |-> 1]
                ELSE [cycle EXCEPT !.at = @ + 1]
    /\ UNCHANGED <<job, copy>>

Application ==
    \/ StartImport \/ StartExport \/ StartCycle
    \/ JsonSteps \/ ExportReturns \/ ClearStep

-----------------------------------------------------------------------------
(* The observers.  A change is lost for the copy if a set failed before it   *)
(* raised the flag, if it comes between the export of the setting and the    *)
(* clear of its flag, if cJSON had no memory for the setting and the flag is *)
(* cleared all the same, or if a user clears the flag.                       *)

Exported(s) == \/ cycle.phase = "export" /\ s < job.at
               \/ cycle.phase = "clear" /\ cycle.at <= s
Lost(s) ==
    \/ us'[s].value # us[s].value /\ (~us'[s].changed \/ Exported(s))
    \/ cycle.phase = "export" /\ s \in job'.omitted
    \/ us[s].changed /\ ~us'[s].changed /\ UNCHANGED cycle

Walking(w) == IF w = "json" THEN job.op \in {"export", "read"} /\ job.only
              ELSE cmd.op = "list_changed"

Observe ==
    /\ behind' = {s \in Settings : /\ s \in behind \/ Lost(s)
                                   /\ InCycle' \/ copy'[s] # us'[s].value}
    /\ seen' = [w \in Walks |-> [s \in Settings |->
           IF ~Walking(w)' THEN {}
           ELSE (IF Walking(w) THEN seen[w][s] ELSE {us[s].changed})
                \cup {us'[s].changed}]]

Busy == job.op # "idle" \/ InCycle

AppNext ==
    /\ Application
    /\ UNCHANGED cmd
    /\ shellWrites' = IF Busy' THEN shellWrites ELSE 0
    /\ jsonWrote' = (cmd.op # "idle" /\ (jsonWrote \/ us' # us))
    /\ Observe

ShellNext ==
    /\ Typed \/ ShellStep
    /\ UNCHANGED <<job, copy, cycle>>
    /\ shellWrites' = IF Busy /\ us' # us THEN shellWrites + 1 ELSE shellWrites
    /\ shellWrites' <= Meddling
    /\ jsonWrote' = (cmd'.op # "idle" /\ jsonWrote)
    /\ Observe

Next == AppNext \/ ShellNext
Spec == InitFrontEnds /\ [][Next]_vars

-----------------------------------------------------------------------------
(* Properties *)

TypeOK ==
    /\ us \in [Settings -> Setting]
    /\ job \in Job
    /\ job.at <= (IF job.op \in {"export", "read"} THEN N ELSE Len(job.doc)) + 1
    /\ cmd \in Command
    /\ copy \in [Settings -> Value \cup {None}]
    /\ cycle \in [phase : {"idle", "export", "clear"}, at : Settings]
    /\ shellWrites \in Nat /\ jsonWrote \in BOOLEAN
    /\ seen \in [Walks -> [Settings -> SUBSET BOOLEAN]]
    /\ behind \subseteq Settings

JobReturns == job.op # "idle" /\ job'.op = "idle"
CommandReturns == cmd.op # "idle" /\ cmd'.op = "idle"

\* The elements an import has applied when it returns: those before the one
\* that stopped it, which the calls of SetItem refused or took.
Applied(s) == {i \in 1..(job.at - 1) :
                  /\ job.doc[i].kind = "right_type" /\ job.doc[i].key = s
                  /\ job.doc[i].v \in Fits[s] \cap Accepted[s]}
Latest(S) == CHOOSE i \in S : \A j \in S : j <= i

\* README: an import "will set all settings with existing key an correct value
\* type".  If no other thread writes meanwhile: whatever stands between them, of
\* several elements for a setting the last holds, and with always_mark_changed
\* its flag is set.  A value too long or a failed save ends the import, and what
\* came before is kept.
ImportIsComplete ==
    [][JobReturns /\ job.op = "import" /\ shellWrites = 0 =>
         /\ job'.ret = "ok" => job.at > Len(job.doc)
         /\ \A s \in Settings :
              Applied(s) # {} /\ (job'.ret = "ok" \/ Item.key # s) =>
                /\ us'[s].value = job.doc[Latest(Applied(s))].v
                /\ job.always => us'[s].changed]_vars

InOrder(seq) == \A i, j \in DOMAIN seq : i < j => seq[i] < seq[j]
Keys(seq) == {seq[i] : i \in DOMAIN seq}
Complete(keys, all, w, omitted) ==
    /\ InOrder(keys)
    /\ \A s \in Settings :
         /\ all \/ seen[w][s] = {TRUE} => s \in Keys(keys) \cup omitted
         /\ ~all /\ seen[w][s] = {FALSE} => s \notin Keys(keys)

\* Exports and lists name each setting at most once and in order, of all
\* settings or of the changed ones: each flagged throughout the walk, none never
\* flagged during it.  Only cJSON's memory can make an export leave one out.
WalksAreComplete ==
    [][/\ JobReturns /\ job.op = "export" =>
            Complete([i \in DOMAIN job.out |-> job.out[i][1]], ~job.only, "json",
                     job.omitted)
       /\ CommandReturns /\ cmd.op \in Listing =>
            Complete(cmd.shown, cmd.op = "list", "shell", {})]_vars

\* A command that returns 0 has done what it says, if the application does not
\* write meanwhile: set and set_default store their argument, restore puts every
\* set setting with an acceptable default back to it, restore_one the one, and a
\* clear leaves no flag.  Only an unknown key gives -ENOENT.
Restored(s) == us[s].value # None /\ us[s].default \in Fits[s] \cap Accepted[s]
                   => us'[s].value = us[s].default
CommandsDoAsTold ==
    [][CommandReturns /\ ~jsonWrote =>
         /\ (cmd'.ret = "ENOENT") = (cmd.op \in Keyed /\ cmd.key = NoKey)
         /\ cmd'.ret = "ok" =>
              /\ cmd.op = "set" => us'[cmd.key].value = cmd.v
              /\ cmd.op = "set_default" => us'[cmd.key].default = cmd.v
              /\ cmd.op = "restore_one" => Restored(cmd.key)
              /\ cmd.op = "restore" => \A s \in Settings : Restored(s)
              /\ cmd.op = "clear_changed_one" => ~us'[cmd.key].changed
              /\ cmd.op = "clear_changed" => \A s \in Settings : ~us'[s].changed]_vars

\* Between two cycles the application's copy has the value of every setting that
\* is not flagged, so the next export brings it up to date: imports, commands
\* and restores in any order lose no change but for the causes in Lost.
CopyFollows ==
    ~InCycle => \A s \in Settings :
        us[s].changed \/ copy[s] = us[s].value \/ s \in behind
=============================================================================
