---------------------------- MODULE SettingsJson ----------------------------
(***************************************************************************)
(* user_settings_json.c in one thread: an import makes the API calls of    *)
(* one element after the other, an export reads one setting after the      *)
(* other, and other threads may run between two steps.  TypedSetting has   *)
(* the conversions of single values.                                       *)
(***************************************************************************)
EXTENDS SettingsApi

CONSTANTS
    Imports,      \* pairs: a document, None for a null pointer; always_mark_changed
    MemoryFails   \* cJSON may run out of memory

\* An element of a document: the setting its key names or Unknown, whether
\* cJSON finds it invalid, whether it has the type of the setting, a payload.
Unknown == 0
Kinds == {"invalid", "other_type", "right_type"}
Element == [key : Settings \cup {Unknown}, kind : Kinds, v : Value]

\* A document is null or a sequence of elements.
ASSUME ImportsAssumption ==
    \A i \in Imports :
        /\ i[1] = None \/ i[1] \in Seq(Element)
        /\ i[2] \in BOOLEAN

VARIABLE job      \* the JSON call of the thread, or the last result ("ok" at first)

Job == [op : {"idle", "import", "mark", "export", "read"}, doc : Seq(Element),
        always : BOOLEAN, only : BOOLEAN, at : Nat \ {0},
        out : Seq(Settings \X (Value \cup {None})), omitted : SUBSET Settings,
        ret : {"ok", "EINVAL", "ENOMEM", "EIO"}]
NoJob(r) == [op |-> "idle", doc |-> <<>>, always |-> FALSE, only |-> FALSE,
             at |-> 1, out |-> <<>>, omitted |-> {}, ret |-> r]
InitJson == job = NoJob("ok")

SkipsOne == [job EXCEPT !.at = @ + 2]     \* mutant: advanced twice
NextItem == [job EXCEPT !.at = @ + 1]

-----------------------------------------------------------------------------
(* user_settings_set_from_json *)

Import(doc, always) ==
    /\ job.op = "idle"
    /\ job' = IF doc = None THEN NoJob("EINVAL")
              ELSE [NoJob("ok") EXCEPT !.op = "import", !.doc = doc,
                                         !.always = always]
    /\ UNCHANGED us

Item == job.doc[job.at]
Importing == job.op = "import" /\ job.at <= Len(job.doc)

\* An element without a setting, or of another type (-EINVAL), is passed over.
Settable(e) == e.kind = "right_type" /\ e.key # Unknown
StopAtUnknown ==      \* mutant: break for continue
    /\ Importing /\ ~Settable(Item)
    /\ job' = IF Item.key = Unknown THEN [job EXCEPT !.at = Len(job.doc) + 1]
              ELSE NextItem
    /\ UNCHANGED us
PassOver ==
    /\ Importing /\ ~Settable(Item)
    /\ job' = NextItem
    /\ UNCHANGED us

\* prv_set_from_json.  A refused value is passed over, any other error ends
\* the import.
SetItem ==
    /\ Importing /\ Settable(Item)
    /\ \E r \in {"ok", "EINVAL", "ENOMEM", "EIO"} :
         /\ SetCall(Item.key, Item.v, r)
         /\ job' = IF r \in {"ENOMEM", "EIO"} THEN NoJob(r)
                   ELSE IF r = "ok" /\ job.always THEN [job EXCEPT !.op = "mark"]
                   ELSE NextItem

MarkItem ==
    /\ job.op = "mark"
    /\ FlagCall(Item.key, TRUE)
    /\ job' = [NextItem EXCEPT !.op = "import"]

ImportEnd ==
    /\ job.op = "import" /\ ~Importing
    /\ job' = NoJob("ok")
    /\ UNCHANGED us

-----------------------------------------------------------------------------
(* user_settings_get_all_json, user_settings_get_changed_json *)

Export(only) ==
    /\ job.op = "idle"
    /\ \/ job' = [NoJob("ok") EXCEPT !.op = "export", !.only = only]
       \/ MemoryFails /\ job' = NoJob("ENOMEM")
    /\ UNCHANGED us

\* The iterator's next setting; its flag is tested before its value is read.
SelectAny == TRUE      \* mutant: the flag is not tested
Selected == job.only => us[job.at].changed
Select ==
    /\ job.op = "export" /\ job.at <= N
    /\ job' = IF Selected THEN [job EXCEPT !.op = "read"] ELSE NextItem
    /\ UNCHANGED us

\* prv_json_from_setting; without memory the setting is left out and the
\* export goes on.
ReadSetting ==
    /\ job.op = "read"
    /\ \/ job' = [NextItem EXCEPT !.op = "export",
                     !.out = Append(@, <<job.at, us[job.at].value>>)]
       \/ MemoryFails /\ job' = [NextItem EXCEPT !.op = "export",
                                     !.omitted = @ \cup {job.at}]
    /\ UNCHANGED us

ExportEnd ==
    /\ job.op = "export" /\ job.at > N
    /\ job' = NoJob("ok")
    /\ UNCHANGED us

ImportStep == PassOver \/ SetItem \/ MarkItem \/ ImportEnd
ExportStep == Select \/ ReadSetting
=============================================================================
