--------------------------- MODULE FrontEnds_proofs ---------------------------
(***************************************************************************)
(* The properties of FrontEnds, for any settings, documents and commands:  *)
(* what an import, an export and a command of the shell have done when     *)
(* they return, and that the application's copy follows the settings.      *)
(***************************************************************************)
EXTENDS FrontEndsInv, SequenceTheorems, TLAPS

-----------------------------------------------------------------------------
(* The calls of the API: what each does to its setting, and to no other.     *)

Typical == us \in [Settings -> Setting]

\* The other settings and the type of all are as before.
Alone(s) == Typical' /\ \A x \in Settings : x # s => us'[x] = us[x]

LEMMA SetDoes ==
    ASSUME Typical, NEW s \in Settings, NEW v, NEW r, SetCall(s, v, r)
    PROVE  /\ Alone(s)
           /\ us'[s].default = us[s].default
           /\ r \in {"ok", "EIO"} => us'[s].value = v
           /\ r \in {"ENOMEM", "EINVAL"} => us' = us
           /\ v \in Fits[s] \cap Accepted[s] => r \in {"ok", "EIO"}
           /\ r = "ok" => us' = us \/ us'[s].changed
<1>1. Fits[s] \subseteq Value
  BY ApiAssumption
<1>2. us[s] \in Setting
  BY DEF Typical
<1>3. CASE UNCHANGED us
  <2>1. \/ v \notin Fits[s] /\ r = "ENOMEM"
        \/ v = us[s].value /\ r = "ok"
        \/ v \notin Accepted[s] /\ r = "EINVAL"
    BY <1>2, <1>3 DEF SetCall, Setting, Typical
  <2> QED
    BY <1>3, <2>1 DEF Typical, Alone
<1>4. CASE ~UNCHANGED us
  <2>1. v \in Value /\ r \in {"ok", "EIO"}
    BY <1>1, <1>4 DEF SetCall
  <2>2. PICK f \in BOOLEAN :
            us' = [us EXCEPT ![s].value = v, ![s].changed = f] /\ (r = "ok" => f)
    BY <1>2, <1>4 DEF SetCall, Setting
  <2> QED
    BY <1>2, <2>1, <2>2 DEF Typical, Alone, Setting
<1> QED
  BY <1>3, <1>4

LEMMA SetDefaultDoes ==
    ASSUME Typical, NEW s \in Settings, NEW v, NEW r, SetDefaultCall(s, v, r)
    PROVE  /\ Alone(s)
           /\ r = "ok" => us'[s].default = v
<1>1. Fits[s] \subseteq Value /\ us[s] \in Setting
  BY ApiAssumption DEF Typical
<1>2. CASE UNCHANGED us
  BY <1>2 DEF SetDefaultCall, Typical, Alone, Setting
<1>3. CASE ~UNCHANGED us
  <2>1. v \in Value /\ us' = [us EXCEPT ![s].default = v]
    BY <1>1, <1>3 DEF SetDefaultCall
  <2> QED
    BY <1>1, <2>1 DEF Typical, Alone, Setting
<1> QED
  BY <1>2, <1>3

LEMMA RestoreDoes ==
    ASSUME Typical, NEW s \in Settings, RestoreCall(s)
    PROVE  Alone(s) /\ Restored(s) /\ AtDefault(s)'
<1>1. /\ Fits[s] \subseteq Value /\ None \notin Value
      /\ us[s] \in Setting
  BY ApiAssumption DEF Typical
<1>2. CASE us[s].value = None /\ UNCHANGED us
  BY <1>2 DEF Typical, Alone, Restored, AtDefault
<1>3. CASE \E flag \in {us[s].changed, TRUE} :
               us[s].default = None /\ us' = [us EXCEPT ![s].changed = flag]
  <2>1. PICK flag \in BOOLEAN :
            us[s].default = None /\ us' = [us EXCEPT ![s].changed = flag]
    BY <1>1, <1>3 DEF Setting
  <2>2. us'[s].default = None /\ None \notin Fits[s]
    BY <1>1, <2>1 DEF Typical, Setting
  <2> QED
    BY <1>1, <2>1, <2>2 DEF Typical, Alone, Restored, AtDefault, Setting
<1>4. CASE \E r \in {"ok", "EINVAL", "EIO"} : SetCall(s, us[s].default, r)
  BY <1>4, SetDoes DEF Restored, AtDefault
<1> QED
  BY <1>2, <1>3, <1>4 DEF RestoreCall

LEMMA FlagDoes ==
    ASSUME Typical, NEW s \in Settings, NEW f \in BOOLEAN, FlagCall(s, f)
    PROVE  /\ Alone(s)
           /\ us'[s] = [us[s] EXCEPT !.changed = f]
BY DEF Typical, Alone, FlagCall, Setting

-----------------------------------------------------------------------------
(* Types                                                                     *)

\* The job has a type and is at its place.
JobFits ==
    /\ job \in Job
    /\ job.at <= (IF job.op \in {"export", "read"} THEN N ELSE Len(job.doc)) + 1
    /\ job.op = "mark" => job.at <= Len(job.doc) /\ Settable(Item) /\ job.always
    /\ job.op = "read" => job.at <= N

Results == {"ok", "EINVAL", "ENOMEM", "EIO"}

LEMMA Size == N \in Nat /\ N > 0 /\ Settings = 1..N
BY ApiAssumption DEF Settings

LEMMA NoJobFits ==
    ASSUME NEW r \in Results
    PROVE  /\ NoJob(r) \in Job
           /\ NoJob(r).op = "idle" /\ NoJob(r).at = 1 /\ NoJob(r).doc = <<>>
           /\ NoJob(r).out = <<>> /\ NoJob(r).omitted = {} /\ NoJob(r).ret = r
BY EmptySeq DEF NoJob, Job, Results

\* The loops go on by one: everything else of g is as in the job.
SameCall(g) ==
    /\ g.doc = job.doc /\ g.always = job.always /\ g.only = job.only
    /\ g.out = job.out /\ g.omitted = job.omitted

LEMMA NextItemFits ==
    ASSUME job \in Job
    PROVE  /\ NextItem \in Job /\ SameCall(NextItem)
           /\ NextItem.op = job.op /\ NextItem.at = job.at + 1
           /\ job.at \in Nat \ {0} /\ Len(job.doc) \in Nat
<1> DEFINE n == job.at + 1
<1>1. n \in Nat \ {0}
  BY DEF Job
<1>2. NextItem = [job EXCEPT !.at = n]
  BY DEF NextItem
<1>3. job.at \in Nat \ {0} /\ Len(job.doc) \in Nat
  BY DEF Job
<1> HIDE DEF n
<1>4. NextItem \in Job /\ NextItem.op = job.op /\ NextItem.at = n
  BY <1>1, <1>2 DEF Job
<1>5. SameCall(NextItem)
  BY <1>2 DEF Job, SameCall
<1>6. QED
  BY <1>3, <1>4, <1>5 DEF n

LEMMA NextItemAs ==
    ASSUME job \in Job, NEW op \in {"idle", "import", "mark", "export", "read"},
           NEW g, g = [NextItem EXCEPT !.op = op]
    PROVE  g \in Job /\ SameCall(g) /\ g.op = op /\ g.at = job.at + 1
<1>1. NextItem \in Job
  BY NextItemFits
<1>2. g \in Job /\ g.op = op /\ g.at = NextItem.at
  BY <1>1 DEF Job
<1>3. /\ g.doc = NextItem.doc /\ g.always = NextItem.always
      /\ g.only = NextItem.only /\ g.out = NextItem.out
      /\ g.omitted = NextItem.omitted
  BY <1>1 DEF Job
<1>4. QED
  BY <1>2, <1>3, NextItemFits DEF SameCall

\* An element of the document is a record with the setting and the payload.
LEMMA ItemFits ==
    ASSUME job \in Job, job.at <= Len(job.doc)
    PROVE  Item \in Element
<1>1. job.doc \in Seq(Element) /\ job.at \in 1..Len(job.doc)
  BY DEF Job
<1>2. QED
  BY <1>1, ElementOfSeq DEF Item

LEMMA ItemSettable ==
    ASSUME Item \in Element, Settable(Item)
    PROVE  Item.key \in Settings /\ Item.v \in Value
BY DEF Element, Settable, Unknown

Starts == (\E i \in Imports : Import(i[1], i[2])) \/ \E only \in BOOLEAN : Export(only)

\* The steps of the import.
LEMMA ImportTypes ==
    ASSUME Typical, JobFits, ImportStep
    PROVE  Typical' /\ JobFits'
<1> USE DEF JobFits
<1>1. CASE PassOver
  BY <1>1, NextItemFits, Size DEF PassOver, Importing, Typical, SameCall
<1>2. CASE SetItem
  <2>1. /\ Item \in Element /\ Item.key \in Settings /\ Settable(Item)
        /\ job.op = "import" /\ job.at <= Len(job.doc)
    BY <1>2, ItemFits, ItemSettable DEF SetItem, Importing
  <2>2. PICK r \in {"ok", "EINVAL", "ENOMEM", "EIO"} :
          /\ SetCall(Item.key, Item.v, r)
          /\ job' = IF r \in {"ENOMEM", "EIO"} THEN NoJob(r)
                    ELSE IF r = "ok" /\ job.always THEN [job EXCEPT !.op = "mark"]
                    ELSE NextItem
    BY <1>2 DEF SetItem
  <2>3. Typical'
    BY <2>1, <2>2, SetDoes DEF Alone
  <2>4. CASE job' = NoJob(r) /\ r \in Results
    BY <2>3, <2>4, NoJobFits, Size
  <2>5. CASE job.always /\ job' = [job EXCEPT !.op = "mark"]
    <3>1. /\ job' \in Job /\ job'.op = "mark" /\ job'.at = job.at
          /\ job'.doc = job.doc /\ job'.always /\ Item' = Item
      BY <2>5 DEF Job, Item
    <3> QED
      BY <2>1, <2>3, <3>1 DEF Settable
  <2>6. CASE job' = NextItem
    BY <2>1, <2>3, <2>6, NextItemFits DEF SameCall
  <2> QED
    BY <2>2, <2>4, <2>5, <2>6 DEF Results
<1>3. CASE MarkItem
  <2>1. /\ Item \in Element /\ Item.key \in Settings
        /\ job.op = "mark" /\ job.at <= Len(job.doc)
    BY <1>3, ItemFits, ItemSettable DEF MarkItem
  <2>2. Typical'
    BY <1>3, <2>1, FlagDoes DEF MarkItem, Alone
  <2>3. job' = [NextItem EXCEPT !.op = "import"]
    BY <1>3 DEF MarkItem
  <2>4. job' \in Job /\ SameCall(job') /\ job'.op = "import" /\ job'.at = job.at + 1
    BY <2>3, NextItemAs
  <2> QED
    BY <2>1, <2>2, <2>4, NextItemFits DEF SameCall
<1>4. CASE ImportEnd
  BY <1>4, NoJobFits, Size DEF ImportEnd, Typical, Results
<1> QED
  BY <1>1, <1>2, <1>3, <1>4 DEF ImportStep

\* Reading a setting adds it to the export or leaves it out.
LEMMA ReadDoes ==
    ASSUME Typical, JobFits, ReadSetting
    PROVE  /\ job' \in Job /\ job'.op = "export" /\ job'.at = job.at + 1
           /\ job'.only = job.only /\ job.at \in Settings
           /\ \/ /\ job'.out = Append(job.out, <<job.at, us[job.at].value>>)
                 /\ job'.omitted = job.omitted
              \/ job'.out = job.out /\ job'.omitted = job.omitted \cup {job.at}
<1> DEFINE g == [NextItem EXCEPT !.op = "export"]
           e == <<job.at, us[job.at].value>>
<1>1. /\ g \in Job /\ g.op = "export" /\ g.at = job.at + 1
      /\ g.only = job.only /\ g.out = job.out /\ g.omitted = job.omitted
      /\ job.op = "read" /\ job.at <= N /\ job.at \in Settings
  BY NextItemAs, NextItemFits, Size DEF ReadSetting, JobFits, SameCall
<1>2. e \in Settings \X (Value \cup {None})
  BY <1>1 DEF Typical, Setting
<1>3. \/ job' = [g EXCEPT !.out = Append(g.out, e)]
      \/ job' = [g EXCEPT !.omitted = g.omitted \cup {job.at}]
  <2>1. g \in [op : {"idle", "import", "mark", "export", "read"},
               doc : Seq(Element), always : BOOLEAN, only : BOOLEAN,
               at : Nat \ {0}, out : Seq(Settings \X (Value \cup {None})),
               omitted : SUBSET Settings, ret : Results]
    BY <1>1 DEF Job, Results
  <2> QED
    BY <2>1 DEF ReadSetting, g, e
<1> HIDE DEF g, e
<1>4. Append(g.out, e) \in Seq(Settings \X (Value \cup {None}))
  <2>1. g.out \in Seq(Settings \X (Value \cup {None}))
    BY <1>1 DEF Job
  <2> QED
    BY <1>2, <2>1, AppendProperties
<1> DEFINE o == Append(g.out, e)
           m == g.omitted \cup {job.at}
<1>5. o \in Seq(Settings \X (Value \cup {None})) /\ m \in SUBSET Settings
  BY <1>1, <1>4 DEF Job
<1>6. job' = [g EXCEPT !.out = o] \/ job' = [g EXCEPT !.omitted = m]
  BY <1>3
<1> HIDE DEF o, m
<1>7. /\ job' \in Job /\ job'.op = "export" /\ job'.at = g.at
      /\ job'.only = g.only
      /\ \/ job'.out = o /\ job'.omitted = g.omitted
         \/ job'.out = g.out /\ job'.omitted = m
  BY <1>1, <1>5, <1>6 DEF Job
<1> QED
  BY <1>1, <1>7 DEF e, o, m

\* The steps of the export.
LEMMA ExportTypes ==
    ASSUME Typical, JobFits, ExportStep \/ ExportEnd
    PROVE  Typical' /\ JobFits'
<1> USE DEF JobFits
<1>1. CASE Select
  <2>1. CASE job' = NextItem
    BY <1>1, <2>1, NextItemFits, Size DEF Select, Typical, SameCall
  <2>2. CASE job' = [job EXCEPT !.op = "read"]
    <3>1. job' \in Job /\ job'.op = "read" /\ job'.at = job.at
      BY <2>2 DEF Job
    <3> QED
      BY <1>1, <3>1 DEF Select, Typical
  <2> QED
    BY <1>1, <2>1, <2>2 DEF Select
<1>2. CASE ReadSetting
  BY <1>2, ReadDoes, Size DEF ReadSetting, Typical
<1>3. CASE ExportEnd
  BY <1>3, NoJobFits, Size DEF ExportEnd, Typical, Results
<1> QED
  BY <1>1, <1>2, <1>3 DEF ExportStep

\* A new import or export.
LEMMA StartTypes ==
    ASSUME Typical, JobFits, Starts
    PROVE  /\ Typical' /\ JobFits' /\ us' = us /\ job.op = "idle"
           /\ job'.at = 1 /\ job'.out = <<>> /\ job'.omitted = {}
           /\ job'.op \in {"idle", "import", "export"}
<1> USE DEF JobFits
<1>1. CASE \E i \in Imports : Import(i[1], i[2])
  <2>1. PICK doc, always : /\ Import(doc, always)
                           /\ doc = None \/ doc \in Seq(Element)
                           /\ always \in BOOLEAN
    BY <1>1, ImportsAssumption
  <2>2. CASE doc = None
    BY <2>1, <2>2, NoJobFits, Size DEF Import, Typical, Results
  <2>3. CASE doc # None
    <3>1. job' = [NoJob("ok") EXCEPT !.op = "import", !.doc = doc,
                                     !.always = always]
      BY <2>1, <2>3 DEF Import
    <3>2. /\ job' \in Job /\ job'.op = "import" /\ job'.at = 1
          /\ job'.out = <<>> /\ job'.omitted = {}
      BY <2>1, <2>3, <3>1, NoJobFits DEF Job, Results
    <3>3. Len(job'.doc) \in Nat
      BY <3>2 DEF Job
    <3> QED
      BY <2>1, <3>2, <3>3 DEF Import, Typical
  <2> QED
    BY <2>2, <2>3
<1>2. CASE \E only \in BOOLEAN : Export(only)
  <2>1. PICK only \in BOOLEAN : Export(only)
    BY <1>2
  <2>2. CASE job' = NoJob("ENOMEM")
    BY <2>1, <2>2, NoJobFits, Size DEF Export, Typical, Results
  <2>3. CASE job' = [NoJob("ok") EXCEPT !.op = "export", !.only = only]
    <3>1. /\ job' \in Job /\ job'.op = "export" /\ job'.at = 1
          /\ job'.out = <<>> /\ job'.omitted = {}
      BY <2>3, NoJobFits DEF Job, Results
    <3> QED
      BY <2>1, <3>1, Size DEF Export, Typical
  <2> QED
    BY <2>1, <2>2, <2>3 DEF Export
<1> QED
  BY <1>1, <1>2 DEF Starts

\* What the commands return; the prompt has nothing of the last one.
CmdResults == {"ok", "ENOENT", "EALREADY", "EINVAL", "ENOMEM", "EIO"}

LEMMA NoCommandFits ==
    ASSUME NEW r \in CmdResults
    PROVE  /\ NoCommand(r) \in Command
           /\ NoCommand(r).op = "idle" /\ NoCommand(r).ret = r
<1>1. 1 \in 1..(N + 1) /\ <<>> \in Seq(Settings)
  BY Size, EmptySeq
<1>2. QED
  BY <1>1 DEF NoCommand, Command, CmdResults

\* A command that is typed starts at the first setting.
LEMMA TypedFits ==
    ASSUME Typed
    PROVE  /\ cmd.op = "idle" /\ us' = us
           /\ cmd' \in Command /\ cmd'.op # "idle"
           /\ cmd'.at = 1 /\ cmd'.shown = <<>>
<1>1. PICK op \in Keyed \cup Listing \cup Looping,
           key \in Settings \cup {NoKey}, v \in Value \cup {None} : Type(op, key, v)
  BY DEF Typed, Keyed
<1>2. 1 \in 1..(N + 1) /\ <<>> \in Seq(Settings)
  BY Size, EmptySeq
<1>3. cmd' = [op |-> op, key |-> key, v |-> v, at |-> 1, shown |-> <<>>,
              ret |-> "ok"]
  BY <1>1 DEF Type, NoCommand
<1>4. op # "idle"
  BY DEF Keyed, Listing, Looping
<1>5. cmd' \in Command
  BY <1>2, <1>3 DEF Command
<1>6. cmd'.op = op /\ cmd'.at = 1 /\ cmd'.shown = <<>>
  BY <1>3
<1>7. cmd.op = "idle" /\ us' = us
  BY <1>1 DEF Type
<1>8. QED
  BY <1>4, <1>5, <1>6, <1>7

\* Of its setting, a step of the shell writes what its call writes.
LEMMA ShellTypes ==
    ASSUME Typical, cmd \in Command, ShellStep
    PROVE  Typical' /\ cmd' \in Command
<1>1. CASE NotFound \/ CmdGet
  BY <1>1, NoCommandFits DEF NotFound, CmdGet, Return, Typical, CmdResults
<1>2. CASE CmdSet
  <2>1. PICK r \in {"ok", "EINVAL", "ENOMEM", "EIO", "EALREADY"} :
            SetAs(cmd.op, cmd.key, cmd.v, r) /\ Return(r)
    BY <1>2 DEF CmdSet
  <2>2. cmd.key \in Settings
    BY <1>2 DEF CmdSet, Found, Command
  <2>3. Typical'
    BY <2>1, <2>2, SetDoes, SetDefaultDoes DEF SetAs, Alone
  <2> QED
    BY <2>1, <2>3, NoCommandFits DEF Return, CmdResults
<1>3. CASE CmdOne
  <2>1. cmd.key \in Settings
    BY <1>3 DEF CmdOne, Found, Command
  <2>2. Typical'
    BY <1>3, <2>1, RestoreDoes, FlagDoes DEF CmdOne, Apply, Alone
  <2> QED
    BY <1>3, <2>2, NoCommandFits DEF CmdOne, Return, CmdResults
<1>4. CASE CmdAll
  <2>1. CASE cmd.at \in Reached
    <3> DEFINE n == cmd.at + 1
    <3>1. cmd.at \in Settings /\ n \in 1..(N + 1)
      BY <2>1, Size DEF Reached
    <3>2. cmd' = [cmd EXCEPT !.at = n]
      BY <1>4, <2>1 DEF CmdAll
    <3>3. Typical'
      BY <1>4, <2>1, <3>1, RestoreDoes, FlagDoes DEF CmdAll, Apply, Alone
    <3> HIDE DEF n
    <3> QED
      BY <3>1, <3>2, <3>3 DEF Command
  <2>2. CASE cmd.at \notin Reached
    BY <1>4, <2>2, NoCommandFits DEF CmdAll, Return, Typical, CmdResults
  <2> QED
    BY <2>1, <2>2
<1>5. CASE PrintOne
  <2> DEFINE n == cmd.at + 1
             k == IF Prints(cmd.at) THEN Append(cmd.shown, cmd.at) ELSE cmd.shown
  <2>1. cmd.at \in Settings /\ n \in 1..(N + 1)
    BY <1>5, Size DEF PrintOne, Command
  <2>2. k \in Seq(Settings)
    BY <2>1, AppendProperties DEF Command
  <2>3. cmd' = [cmd EXCEPT !.at = n, !.shown = k]
    BY <1>5 DEF PrintOne
  <2> HIDE DEF n, k
  <2> QED
    BY <1>5, <2>1, <2>2, <2>3 DEF PrintOne, Command, Typical
<1>6. CASE ListEnd
  BY <1>6, NoCommandFits DEF ListEnd, Return, Typical, CmdResults
<1> QED
  BY <1>1, <1>2, <1>3, <1>4, <1>5, <1>6 DEF ShellStep

\* What the application and the observers keep.
Kept ==
    /\ copy \in [Settings -> Value \cup {None}]
    /\ cycle \in [phase : {"idle", "export", "clear"}, at : Settings]
    /\ shellWrites \in Nat /\ jsonWrote \in BOOLEAN
    /\ seen \in [Walks -> [Settings -> SUBSET BOOLEAN]]
    /\ behind \subseteq Settings

LEMMA Types == FrontTypes <=> Typical /\ JobFits /\ cmd \in Command /\ Kept
BY DEF FrontTypes, TypeOK, AtPlace, Typical, JobFits, Kept

LEMMA ObserveTypes ==
    ASSUME Typical, Typical', Kept, Observe
    PROVE  /\ seen' \in [Walks -> [Settings -> SUBSET BOOLEAN]]
           /\ behind' \subseteq Settings
<1>1. \A s \in Settings : us[s].changed \in BOOLEAN /\ us'[s].changed \in BOOLEAN
  BY DEF Typical, Setting
<1>2. behind' \subseteq Settings
  BY DEF Observe
<1>3. ASSUME NEW w \in Walks, NEW s \in Settings
      PROVE  seen'[w][s] \subseteq BOOLEAN
  BY <1>1 DEF Observe, Kept
<1>4. seen' \in [Walks -> [Settings -> SUBSET BOOLEAN]]
  <2> DEFINE f(w, s) == IF ~Walking(w)' THEN {}
           ELSE (IF Walking(w) THEN seen[w][s] ELSE {us[s].changed})
                \cup {us'[s].changed}
  <2>1. seen' = [w \in Walks |-> [s \in Settings |-> f(w, s)]]
    BY DEF Observe
  <2>2. \A w \in Walks, s \in Settings : f(w, s) \subseteq BOOLEAN
    BY <1>3, <2>1
  <2> HIDE DEF f
  <2> QED
    BY <2>1, <2>2
<1> QED
  BY <1>2, <1>4

\* The steps of the application, each with what it does to the job.
LEMMA ApplicationTypes ==
    ASSUME Typical, JobFits, Kept, Application
    PROVE  /\ Typical' /\ JobFits'
           /\ copy' \in [Settings -> Value \cup {None}]
           /\ cycle' \in [phase : {"idle", "export", "clear"}, at : Settings]
<1>1. CASE StartImport \/ StartExport
  BY <1>1, StartTypes DEF StartImport, StartExport, Starts, Kept
<1>2. CASE StartCycle
  <2>1. Typical' /\ JobFits' /\ UNCHANGED copy
    BY <1>2, StartTypes DEF StartCycle, Starts
  <2>2. job'.op \in {"idle", "export"}
    BY <1>2, NoJobFits DEF StartCycle, Export, Results, Job
  <2> QED
    BY <1>2, <2>1, <2>2 DEF StartCycle, Kept
<1>3. CASE JsonSteps
  BY <1>3, ImportTypes, ExportTypes DEF JsonSteps, Kept
<1>4. CASE ExportReturns
  <2>1. Typical' /\ JobFits'
    BY <1>4, ExportTypes DEF ExportReturns
  <2>2. cycle' \in [phase : {"idle", "export", "clear"}, at : Settings]
    BY <1>4 DEF ExportReturns, Kept
  <2>3. copy' \in [Settings -> Value \cup {None}]
    <3> DEFINE outs == {job.out[i] : i \in DOMAIN job.out}
               last(s) == (CHOOSE x \in outs : x[1] = s)[2]
    <3>1. \A s \in Settings : Sent(s) => last(s) \in Value \cup {None}
      <4> SUFFICES ASSUME NEW s \in Settings, Sent(s)
                   PROVE  last(s) \in Value \cup {None}
        OBVIOUS
      <4>1. outs \subseteq Settings \X (Value \cup {None})
        BY ElementOfSeq DEF JobFits, Job
      <4>2. \E x \in outs : x[1] = s
        BY DEF Sent
      <4> HIDE DEF outs
      <4> QED
        BY <4>1, <4>2
    <3>2. \/ copy' = [s \in Settings |-> IF Sent(s) THEN last(s) ELSE copy[s]]
          \/ copy' = copy
      BY <1>4 DEF ExportReturns
    <3> HIDE DEF last
    <3> QED
      BY <3>1, <3>2 DEF Kept
  <2> QED
    BY <2>1, <2>2, <2>3
<1>5. CASE ClearStep
  <2>1. cycle.at \in Settings
    BY DEF Kept
  <2>2. Typical'
    BY <1>5, <2>1, FlagDoes DEF ClearStep, Alone
  <2>3. cycle' \in [phase : {"idle", "export", "clear"}, at : Settings]
    <3>1. CASE cycle.at = N
      BY <1>5, <3>1, Size DEF ClearStep, Kept
    <3>2. CASE cycle.at # N
      <4> DEFINE n == cycle.at + 1
      <4>1. n \in Settings /\ cycle' = [cycle EXCEPT !.at = n]
        BY <1>5, <2>1, <3>2, Size DEF ClearStep
      <4> HIDE DEF n
      <4> QED
        BY <4>1 DEF Kept
    <3> QED
      BY <3>1, <3>2
  <2> QED
    BY <1>5, <2>2, <2>3 DEF ClearStep, JobFits, Kept, Item, Settable
<1> QED
  BY <1>1, <1>2, <1>3, <1>4, <1>5 DEF Application

LEMMA FrontTypesInit == InitFrontEnds => FrontTypes
<1> SUFFICES ASSUME InitFrontEnds PROVE FrontTypes
  OBVIOUS
<1>1. Typical
  BY DEF InitFrontEnds, InitApi, Typical, Setting
<1>2. JobFits
  BY NoJobFits, Size DEF InitFrontEnds, InitJson, JobFits, Results
<1>3. cmd \in Command
  BY NoCommandFits DEF InitFrontEnds, InitShell, CmdResults
<1>4. Kept
  <2>1. 1 \in Settings
    BY Size
  <2>2. /\ copy = [s \in Settings |-> None]
        /\ cycle = [phase |-> "idle", at |-> 1]
        /\ shellWrites = 0 /\ jsonWrote = FALSE
        /\ seen = [w \in Walks |-> [s \in Settings |-> {}]]
        /\ behind = {}
    BY DEF InitFrontEnds
  <2>3. seen \in [Walks -> [Settings -> SUBSET BOOLEAN]]
    BY <2>2
  <2> QED
    BY <2>1, <2>2, <2>3 DEF Kept
<1> QED
  BY <1>1, <1>2, <1>3, <1>4, Types

LEMMA FrontTypesStep ==
    ASSUME FrontTypes, [Next]_vars
    PROVE  FrontTypes'
<1>1. Typical /\ JobFits /\ cmd \in Command /\ Kept
  BY Types
<1>2. (Typical /\ JobFits /\ cmd \in Command /\ Kept)'
  <2>1. CASE AppNext
    <3>1. /\ Typical' /\ JobFits'
          /\ copy' \in [Settings -> Value \cup {None}]
          /\ cycle' \in [phase : {"idle", "export", "clear"}, at : Settings]
      BY <1>1, <2>1, ApplicationTypes DEF AppNext
    <3>2. shellWrites' \in Nat /\ jsonWrote' \in BOOLEAN /\ cmd' \in Command
      BY <1>1, <2>1 DEF AppNext, Kept
    <3> QED
      BY <1>1, <2>1, <3>1, <3>2, ObserveTypes DEF AppNext, Kept
  <2>2. CASE ShellNext
    <3>1. Typical' /\ cmd' \in Command
      BY <1>1, <2>2, TypedFits, ShellTypes DEF ShellNext, Typical
    <3>2. shellWrites' \in Nat /\ jsonWrote' \in BOOLEAN
      BY <1>1, <2>2 DEF ShellNext, Kept
    <3>3. JobFits' /\ UNCHANGED <<copy, cycle>>
      BY <1>1, <2>2 DEF ShellNext, JobFits, Item, Settable
    <3> QED
      BY <1>1, <2>2, <3>1, <3>2, <3>3, ObserveTypes DEF ShellNext, Kept
  <2>3. CASE UNCHANGED vars
    BY <1>1, <2>3 DEF vars, Typical, JobFits, Kept, Item, Settable
  <2> QED
    BY <2>1, <2>2, <2>3 DEF Next
<1>3. (FrontTypes <=> Typical /\ JobFits /\ cmd \in Command /\ Kept)'
  BY Types, PTL
<1> QED
  BY <1>2, <1>3

\* Every variable keeps its type; a loop is never past its end.
THEOREM FrontTypesAlways == Spec => []FrontTypes
<1>1. FrontTypes /\ [Next]_vars => FrontTypes'
  BY FrontTypesStep
<1> QED
  BY <1>1, FrontTypesInit, PTL DEF Spec

\* The type invariant of both front ends and of the application.
THEOREM TypeCorrect == Spec => []TypeOK
<1>1. FrontTypes => TypeOK
  BY DEF FrontTypes
<1> QED
  BY <1>1, FrontTypesAlways, PTL

-----------------------------------------------------------------------------
(* CopyFollows                                                               *)

\* What the observer notes stays noted, until the copy has the value.
LEMMA BehindStays ==
    ASSUME Observe, NEW s \in Settings,
           s \in behind \/ Lost(s) \/ copy'[s] = us'[s].value
    PROVE  InStep(s)' /\ (InCycle' /\ copy'[s] # us'[s].value => s \in behind')
BY DEF Observe, InStep

LEMMA BehindInCycle ==
    ASSUME Observe, NEW s \in Settings, s \in behind \/ Lost(s), InCycle'
    PROVE  s \in behind'
BY DEF Observe

\* Steps beside the cycle: a change raises the flag or is lost, a flag is only
\* cleared by the cycle itself.
LEMMA BesideCycle ==
    ASSUME FrontTypes, FrontTypes', CycleInv, Observe, UNCHANGED <<copy, cycle>>,
           job' = job \/ cycle.phase = "idle",
           NEW s \in Settings
    PROVE  Followed(s)'
<1>1. /\ cycle \in [phase : {"idle", "export", "clear"}, at : Settings]
      /\ us[s].changed \in BOOLEAN /\ us'[s].changed \in BOOLEAN
      /\ Followed(s) /\ InPhase
  BY Types DEF Kept, Typical, Setting, CycleInv, FrontTypes, TypeOK
<1>2. InStep(s) => us'[s].value # us[s].value \/ InStep(s)'
  BY BehindStays DEF InStep
<1>3. us'[s].value # us[s].value => us'[s].changed \/ Lost(s)
  BY <1>1 DEF Lost
<1>4. us[s].changed => us'[s].changed \/ Lost(s)
  BY <1>1 DEF Lost
<1>5. us[s].changed \/ InStep(s) => us'[s].changed \/ InStep(s)'
  BY <1>2, <1>3, <1>4, BehindStays
<1>6. CASE cycle.phase = "idle"
  BY <1>1, <1>5, <1>6 DEF Followed
<1>7. CASE cycle.phase = "clear"
  <2>1. us'[s].value # us[s].value /\ cycle.at <= s => Lost(s)
    BY <1>7 DEF Lost, Exported
  <2>2. s \in Nat /\ cycle.at \in Nat
    BY <1>1, Size
  <2>3. ~(s < cycle.at) => InStep(s)'
    BY <1>1, <1>2, <1>7, <2>1, <2>2, BehindStays DEF Followed
  <2>4. s < cycle.at => us'[s].changed \/ InStep(s)'
    BY <1>1, <1>5, <1>7 DEF Followed
  <2> QED
    BY <1>7, <2>3, <2>4 DEF Followed
<1>8. CASE cycle.phase = "export"
  <2>1. job' = job /\ InCycle'
    BY <1>8 DEF InCycle
  <2>2. us'[s].value # us[s].value /\ s < job.at => s \in behind'
    BY <1>8, <2>1, BehindInCycle DEF Lost, Exported
  <2>3. s \in behind => s \in behind'
    BY <2>1, BehindInCycle
  <2>4. ASSUME NEW i \in DOMAIN job.out, job.out[i][1] = s
        PROVE  s < job.at /\ (job.out[i][2] = us'[s].value \/ s \in behind')
    BY <1>1, <1>8, <2>2, <2>3, <2>4 DEF Followed
  <2>5. s < job.at => Sent(s) \/ InStep(s)'
    BY <1>1, <1>2, <1>8, <2>2 DEF Followed, InStep
  <2>6. Sent(s)' <=> Sent(s)
    BY <2>1 DEF Sent
  <2> QED
    BY <1>1, <1>5, <1>8, <2>1, <2>4, <2>5, <2>6 DEF Followed
<1> QED
  BY <1>1, <1>6, <1>7, <1>8

\* A setting the cycle's export passes is not flagged, and then in step, or has
\* its value in the export, or is left out for want of memory.
LEMMA ExportInCycle ==
    ASSUME FrontTypes, FrontTypes', CycleInv, Observe, UNCHANGED <<copy, cycle>>,
           ExportStep, cycle.phase = "export",
           NEW s \in Settings
    PROVE  Followed(s)' /\ job'.op \in {"export", "read"} /\ job'.only
<1>1. /\ job \in Job /\ job.only /\ us' = us /\ InCycle' /\ Followed(s)
      /\ s \in Nat /\ job.at \in Nat
  BY Types, Size DEF JobFits, InCycle, CycleInv, InPhase, ExportStep, Select,
                     ReadSetting, Job
<1>2. s \in behind => s \in behind'
  BY <1>1, BehindInCycle
<1>3. InStep(s) => InStep(s)'
  BY <1>1, <1>2 DEF InStep
<1>4. CASE Select
  <2>1. /\ job'.out = job.out /\ job'.only
        /\ \/ job'.at = job.at /\ job'.op = "read"
           \/ job'.at = job.at + 1 /\ job'.op = "export" /\ ~us[job.at].changed
    <3>1. CASE job' = NextItem /\ ~us[job.at].changed
      BY <1>1, <1>4, <3>1, NextItemFits DEF Select, SameCall
    <3>2. CASE job' = [job EXCEPT !.op = "read"]
      BY <1>1, <3>2 DEF Job
    <3> QED
      BY <1>1, <1>4, <3>1, <3>2 DEF Select, Selected
  <2>2. Sent(s)' <=> Sent(s)
    BY <2>1 DEF Sent
  <2>3. s < job'.at => s < job.at \/ (s = job.at /\ ~us[s].changed)
    BY <1>1, <2>1
  <2>4. s < job.at => s < job'.at
    BY <1>1, <2>1
  <2> QED
    BY <1>1, <1>2, <1>3, <2>1, <2>2, <2>3, <2>4 DEF Followed
<1>5. CASE ReadSetting
  <2> DEFINE e == <<job.at, us[job.at].value>>
  <2>1. /\ job'.at = job.at + 1 /\ job'.op = "export" /\ job'.only
        /\ \/ job'.out = Append(job.out, e)
           \/ job'.out = job.out /\ job.at \in job'.omitted
    BY <1>1, <1>5, Types, ReadDoes
  <2>2. s < job'.at <=> s < job.at \/ s = job.at
    BY <1>1, <2>1
  <2>3. CASE job'.out = Append(job.out, e)
    <3>1. job.out \in Seq(Settings \X (Value \cup {None}))
      BY <1>1 DEF Job
    <3>2. DOMAIN job'.out = DOMAIN job.out \cup {Len(job.out) + 1}
      BY <2>3, <3>1
    <3>3. /\ job'.out[Len(job.out) + 1] = e
          /\ \A i \in DOMAIN job.out : job'.out[i] = job.out[i]
      BY <2>3, <3>1
    <3>4. Sent(s) \/ s = job.at => Sent(s)'
      BY <3>2, <3>3 DEF Sent
    <3>5. ASSUME NEW i \in DOMAIN job'.out, job'.out[i][1] = s
          PROVE  s < job'.at /\ (job'.out[i][2] = us'[s].value \/ s \in behind')
      BY <1>1, <1>2, <2>2, <3>2, <3>3, <3>5 DEF Followed
    <3> QED
      BY <1>1, <1>3, <2>1, <2>2, <3>4, <3>5 DEF Followed
  <2>4. CASE job'.out = job.out /\ job.at \in job'.omitted
    <3>1. s = job.at => s \in behind'
      BY <1>1, <2>4, BehindInCycle DEF Lost
    <3>2. Sent(s)' <=> Sent(s)
      BY <2>4 DEF Sent
    <3> QED
      BY <1>1, <1>2, <1>3, <2>1, <2>2, <2>4, <3>1, <3>2 DEF Followed, InStep
  <2> QED
    BY <2>1, <2>3, <2>4
<1> QED
  BY <1>4, <1>5 DEF ExportStep

\* A cycle starts with nothing exported.
LEMMA CycleStarts ==
    ASSUME FrontTypes, CycleInv, Observe, StartCycle
    PROVE  CycleInv'
<1>1. /\ Typical /\ JobFits /\ cycle.phase = "idle" /\ cycle.at = 1
      /\ cycle \in [phase : {"idle", "export", "clear"}, at : Settings]
  BY Types DEF StartCycle, InCycle, CycleInv, InPhase, Kept
<1>2. /\ us' = us /\ copy' = copy /\ job'.at = 1 /\ job'.out = <<>>
      /\ cycle' = [cycle EXCEPT !.phase = job'.op]
  BY <1>1, StartTypes DEF StartCycle, Starts
<1>3. job'.op = "idle" \/ (job'.op = "export" /\ job'.only)
  BY <1>2, NoJobFits DEF StartCycle, Export, NoJob, Results
<1>4. cycle'.at = 1 /\ cycle'.phase = job'.op
  BY <1>1, <1>2
<1>5. ASSUME NEW s \in Settings PROVE Followed(s)'
  <2>1. us[s].changed \/ InStep(s)
    BY <1>1 DEF CycleInv, Followed
  <2>2. us'[s].changed \/ InStep(s)'
    BY <1>2, <2>1, BehindStays DEF InStep
  <2>3. ~(s < 1)
    BY Size
  <2> QED
    BY <1>2, <1>3, <1>4, <2>2, <2>3 DEF Followed
<1> QED
  BY <1>3, <1>4, <1>5 DEF CycleInv, InPhase

\* When the export returns every setting is in step with what was sent.
LEMMA CycleExported ==
    ASSUME FrontTypes, CycleInv, Observe, ExportReturns, cycle.phase = "export"
    PROVE  CycleInv'
<1>1. /\ Typical /\ JobFits /\ cycle.at = 1 /\ copy \in [Settings -> Value \cup {None}]
      /\ cycle \in [phase : {"idle", "export", "clear"}, at : Settings]
  BY Types DEF CycleInv, InPhase, Kept
<1>2. /\ us' = us /\ job'.op = "idle" /\ job.at > N
      /\ cycle'.phase = "clear" /\ cycle'.at = 1
  BY <1>1, NoJobFits DEF ExportReturns, ExportEnd, Results
<1>3. InCycle'
  BY <1>2 DEF InCycle
<1>4. ASSUME NEW s \in Settings PROVE Followed(s)'
  <2>1. /\ \A i \in DOMAIN job.out : job.out[i][1] = s =>
               job.out[i][2] = us[s].value \/ s \in behind
        /\ Sent(s) \/ InStep(s)
    <3>1. s < job.at
      BY <1>1, <1>2, Size DEF JobFits, Job
    <3> QED
      BY <3>1 DEF CycleInv, Followed
  <2>2. CASE Sent(s)
    <3> DEFINE outs == {job.out[i] : i \in DOMAIN job.out}
    <3>1. copy'[s] = (CHOOSE x \in outs : x[1] = s)[2]
      BY <2>2 DEF ExportReturns
    <3>2. \E x \in outs : x[1] = s
      BY <2>2 DEF Sent
    <3>3. \A x \in outs : x[1] = s => x[2] = us[s].value \/ s \in behind
      BY <2>1
    <3> HIDE DEF outs
    <3>4. copy'[s] = us[s].value \/ s \in behind
      BY <3>1, <3>2, <3>3
    <3> QED
      BY <1>2, <3>4, BehindStays DEF Followed
  <2>3. CASE ~Sent(s)
    <3>1. copy'[s] = copy[s]
      BY <2>3 DEF ExportReturns
    <3> QED
      BY <1>2, <2>1, <2>3, <3>1, BehindStays DEF Followed, InStep
  <2> QED
    BY <2>2, <2>3
<1> QED
  BY <1>2, <1>4 DEF CycleInv, InPhase

\* The flag that is cleared is of a setting in step.
LEMMA CycleClears ==
    ASSUME FrontTypes, CycleInv, Observe, ClearStep
    PROVE  CycleInv'
<1> DEFINE k == cycle.at
<1>1. /\ Typical /\ copy' = copy /\ job' = job /\ job.op = "idle"
      /\ cycle.phase = "clear" /\ k \in Settings
      /\ cycle \in [phase : {"idle", "export", "clear"}, at : Settings]
  BY Types DEF ClearStep, CycleInv, InPhase, Kept
<1>2. /\ \A x \in Settings : x # k => us'[x] = us[x]
      /\ us'[k].value = us[k].value
  <2>1. Alone(k) /\ us'[k] = [us[k] EXCEPT !.changed = FALSE]
    BY <1>1, FlagDoes DEF ClearStep
  <2>2. us[k] \in Setting
    BY <1>1 DEF Typical
  <2> QED
    BY <2>1, <2>2 DEF Alone, Setting
<1>3. \/ k = N /\ cycle'.phase = "idle" /\ cycle'.at = 1
      \/ k # N /\ cycle'.phase = "clear" /\ cycle'.at = k + 1
  BY <1>1, Size DEF ClearStep
<1>4. ASSUME NEW s \in Settings PROVE Followed(s)'
  <2>1. IF s < k THEN us[s].changed \/ InStep(s) ELSE InStep(s)
    BY <1>1 DEF CycleInv, Followed
  <2>2. us'[s].value = us[s].value /\ (s # k => us'[s] = us[s])
    BY <1>2
  <2>3. InStep(s) => InStep(s)'
    BY <1>1, <2>2, BehindStays DEF InStep
  <2>4. /\ s <= k => us'[s].changed \/ InStep(s)'
        /\ s > k => InStep(s)'
    BY <1>1, <2>1, <2>2, <2>3, Size
  <2>5. s \in Nat /\ k \in Nat /\ s <= N
    BY <1>1, Size
  <2> HIDE DEF k
  <2>6. CASE cycle'.phase = "idle"
    BY <1>3, <2>4, <2>5, <2>6 DEF Followed
  <2>7. CASE cycle'.phase = "clear"
    <3>1. cycle'.at = k + 1
      BY <1>3, <2>7
    <3> QED
      BY <2>4, <2>5, <2>7, <3>1 DEF Followed
  <2> QED
    BY <1>3, <2>6, <2>7
<1> QED
  BY <1>1, <1>3, <1>4 DEF CycleInv, InPhase

LEMMA CycleInit == InitFrontEnds => CycleInv
BY DEF InitFrontEnds, InitApi, CycleInv, InPhase, Followed, InStep

LEMMA CycleStep ==
    ASSUME FrontTypes, FrontTypes', CycleInv, [Next]_vars
    PROVE  CycleInv'
<1>1. Typical /\ JobFits /\ InPhase
  BY Types DEF CycleInv
<1>2. ASSUME UNCHANGED <<cycle, job, copy>>, Observe
      PROVE  CycleInv'
  BY <1>1, <1>2, BesideCycle DEF CycleInv, InPhase
<1>3. CASE ShellNext
  BY <1>2, <1>3 DEF ShellNext
<1>4. CASE AppNext
  <2>1. Observe /\ Application
    BY <1>4 DEF AppNext
  <2>2. CASE UNCHANGED <<copy, cycle>> /\ cycle.phase = "idle"
    BY <1>1, <2>1, <2>2, BesideCycle DEF CycleInv, InPhase
  <2>3. CASE StartImport \/ StartExport
    BY <2>2, <2>3 DEF StartImport, StartExport, InCycle
  <2>4. CASE StartCycle
    BY <2>1, <2>4, CycleStarts
  <2>5. CASE JsonSteps
    <3>1. job.op # "idle" /\ cycle.phase # "clear"
      BY <1>1, <2>5 DEF JsonSteps, ImportStep, ExportStep, PassOver, SetItem,
                        MarkItem, ImportEnd, Select, ReadSetting, Importing, InPhase
    <3>2. CASE cycle.phase = "export"
      <4>1. job.op \in {"export", "read"}
        BY <1>1, <3>2 DEF InPhase
      <4>2. ExportStep
        BY <2>5, <4>1 DEF JsonSteps, ImportStep, PassOver, SetItem, MarkItem,
                          ImportEnd, Importing
      <4> QED
        BY <1>1, <2>1, <2>5, <3>2, <4>2, Size, ExportInCycle
           DEF JsonSteps, CycleInv, InPhase
    <3>3. cycle.phase \in {"idle", "export", "clear"}
      BY Types DEF Kept
    <3> QED
      BY <2>2, <2>5, <3>1, <3>2, <3>3 DEF JsonSteps
  <2>6. CASE ExportReturns
    <3>1. cycle.phase # "clear"
      BY <1>1, <2>6 DEF ExportReturns, ExportEnd, InPhase
    <3>2. CASE cycle.phase = "export"
      BY <2>1, <2>6, <3>2, CycleExported
    <3>3. cycle.phase \in {"idle", "export", "clear"}
      BY Types DEF Kept
    <3> QED
      BY <2>2, <2>6, <3>1, <3>2, <3>3 DEF ExportReturns
  <2>7. CASE ClearStep
    BY <2>1, <2>7, CycleClears
  <2> QED
    BY <2>1, <2>3, <2>4, <2>5, <2>6, <2>7 DEF Application
<1>5. CASE UNCHANGED vars
  BY <1>5 DEF vars, CycleInv, InPhase, Followed, InStep, Sent
<1> QED
  BY <1>3, <1>4, <1>5 DEF Next

\* Between two cycles, a setting that is not flagged is the same in the copy,
\* but for the changes the library cannot tell of (Lost): whatever the
\* documents, commands and failures, in any order.
THEOREM CopyUpToDate == Spec => []CopyFollows
<1>1. CycleInv => CopyFollows
  BY DEF CycleInv, InPhase, Followed, InStep, InCycle, CopyFollows
<1>2. FrontTypes /\ FrontTypes' /\ CycleInv /\ [Next]_vars => CycleInv'
  BY CycleStep
<1> QED
  BY <1>1, <1>2, CycleInit, FrontTypesAlways, PTL DEF Spec

-----------------------------------------------------------------------------
(* ImportIsComplete                                                          *)

\* Where the import stands with s.
Going(s) == IF job.op = "mark" /\ Takes(s) THEN us[s].value = Item.v ELSE Imported(s)

\* The elements applied grow by the one the import passes.
LEMMA AppliedNext ==
    ASSUME JobFits, NEW s, job'.doc = job.doc, job'.at = job.at + 1
    PROVE  Applied(s)' = IF Takes(s) THEN Applied(s) \cup {job.at} ELSE Applied(s)
<1>1. job.at \in Nat \ {0}
  BY DEF JobFits, Job
<1>2. 1..(job.at + 1 - 1) = 1..(job.at - 1) \cup {job.at}
  BY <1>1
<1>3. QED
  BY <1>2 DEF Applied, Takes, Item

LEMMA LatestIs ==
    ASSUME NEW n \in Nat, NEW S, S \subseteq 1..(n - 1)
    PROVE  Latest(S \cup {n}) = n
<1> DEFINE T == S \cup {n}
<1>1. n \in T /\ \A j \in T : j \in Int /\ j <= n
  OBVIOUS
<1>2. \A i \in T : (\A j \in T : j <= i) => i = n
  BY <1>1
<1> HIDE DEF T
<1>3. Latest(T) = n
  BY <1>1, <1>2 DEF Latest
<1> QED
  BY <1>3 DEF T

\* What has been imported into s is not disturbed by a step that leaves s alone
\* and passes an element of another setting, or one that is refused.
LEMMA ImportedStays ==
    ASSUME JobFits, NEW s, Imported(s), us'[s] = us[s],
           job'.doc = job.doc, job'.always = job.always,
           job'.at = job.at \/ (job'.at = job.at + 1 /\ ~Takes(s))
    PROVE  Imported(s)'
<1>1. Applied(s)' = Applied(s)
  BY AppliedNext DEF Applied
<1> QED
  BY <1>1 DEF Imported

\* The element that was set last is the latest.
LEMMA ImportedNow ==
    ASSUME JobFits, NEW s, Takes(s), us'[s].value = Item.v,
           job'.doc = job.doc, job'.always = job.always, job'.at = job.at + 1,
           job.always => us'[s].changed
    PROVE  Imported(s)'
<1>1. Applied(s)' = Applied(s) \cup {job.at}
  BY AppliedNext
<1>2. Applied(s) \subseteq 1..(job.at - 1) /\ job.at \in Nat
  BY DEF Applied, JobFits, Job
<1>3. Latest(Applied(s)') = job.at
  BY <1>1, <1>2, LatestIs
<1> QED
  BY <1>3 DEF Imported, Item

LEMMA SetItemKeeps ==
    ASSUME Typical, JobFits, SetItem, job'.op \in {"import", "mark"},
           NEW s \in Settings, Imported(s)
    PROVE  Going(s)'
<1>1. /\ Item \in Element /\ Item.key \in Settings /\ Settable(Item)
      /\ job.op = "import" /\ job \in Job
  BY ItemFits, ItemSettable DEF SetItem, Importing, JobFits
<1>2. PICK r \in {"ok", "EINVAL", "ENOMEM", "EIO"} :
        /\ SetCall(Item.key, Item.v, r)
        /\ job' = IF r \in {"ENOMEM", "EIO"} THEN NoJob(r)
                  ELSE IF r = "ok" /\ job.always THEN [job EXCEPT !.op = "mark"]
                  ELSE NextItem
  BY DEF SetItem
<1>3. r \in {"ok", "EINVAL"}
  BY <1>2, NoJobFits DEF Results
<1>4. /\ Alone(Item.key)
      /\ r = "ok" => us'[Item.key].value = Item.v
      /\ r = "EINVAL" => us' = us
      /\ Item.v \in Fits[Item.key] \cap Accepted[Item.key] => r = "ok"
      /\ r = "ok" => us' = us \/ us'[Item.key].changed
  <2>1. /\ Alone(Item.key)
        /\ r \in {"ok", "EIO"} => us'[Item.key].value = Item.v
        /\ r \in {"ENOMEM", "EINVAL"} => us' = us
        /\ Item.v \in Fits[Item.key] \cap Accepted[Item.key] => r \in {"ok", "EIO"}
        /\ r = "ok" => us' = us \/ us'[Item.key].changed
    BY <1>1, <1>2, SetDoes
  <2> QED
    BY <1>3, <2>1
<1>5. Takes(Item.key) => r = "ok"
  BY <1>4 DEF Takes
<1>6. s # Item.key => us'[s] = us[s] /\ ~Takes(s)
  BY <1>4 DEF Alone, Takes
<1>7. ~Takes(s) => us'[s].value = us[s].value /\ (us[s].changed => us'[s].changed)
  <2>1. CASE s = Item.key
    <3>1. Item.kind = "right_type"
      BY <1>1 DEF Settable
    <3>2. ~Takes(s) => Item.v \notin Fits[s] \cap Accepted[s]
      BY <2>1, <3>1 DEF Takes
    <3>3. ~Takes(s) => us' = us
      BY <1>2, <1>3, <1>4, <2>1, <3>2 DEF SetCall
    <3> QED
      BY <3>3
  <2> QED
    BY <1>6, <2>1
<1>8. CASE job.always /\ r = "ok" /\ job' = [job EXCEPT !.op = "mark"]
  <2>1. /\ job'.doc = job.doc /\ job'.always = job.always /\ job'.at = job.at
        /\ job'.op = "mark" /\ Item' = Item
    BY <1>1, <1>8 DEF Job, Item
  <2>2. Applied(s)' = Applied(s)
    BY <2>1 DEF Applied
  <2>3. CASE Takes(s)
    BY <1>4, <1>8, <2>1, <2>3 DEF Going, Takes
  <2>4. CASE ~Takes(s)
    <3>1. Imported(s)' /\ ~Takes(s)'
      BY <1>7, <2>1, <2>2, <2>4 DEF Imported, Takes
    <3> QED
      BY <3>1 DEF Going
  <2> QED
    BY <2>3, <2>4
<1>9. CASE job' = NextItem /\ ~(r = "ok" /\ job.always)
  <2>1. /\ job'.doc = job.doc /\ job'.always = job.always
        /\ job'.at = job.at + 1 /\ job'.op = "import"
    BY <1>1, <1>9, NextItemFits DEF SameCall
  <2>2. CASE Takes(s)
    <3>1. r = "ok" /\ us'[s].value = Item.v /\ ~job.always
      BY <1>4, <1>5, <1>9, <2>2 DEF Takes
    <3> QED
      BY <2>1, <2>2, <3>1, ImportedNow DEF Going
  <2>3. CASE ~Takes(s)
    <3>1. Applied(s)' = Applied(s)
      BY <2>1, <2>3, AppliedNext
    <3> QED
      BY <1>7, <2>1, <2>3, <3>1 DEF Imported, Going
  <2> QED
    BY <2>2, <2>3
<1> QED
  BY <1>2, <1>3, <1>8, <1>9

LEMMA MarkItemKeeps ==
    ASSUME Typical, JobFits, MarkItem,
           NEW s \in Settings, Going(s)
    PROVE  Going(s)'
<1>1. /\ Item \in Element /\ Item.key \in Settings /\ Settable(Item)
      /\ job.op = "mark" /\ job.always
  BY ItemFits, ItemSettable DEF MarkItem, JobFits
<1>2. /\ job'.doc = job.doc /\ job'.always = job.always
      /\ job'.at = job.at + 1
  BY NextItemAs DEF MarkItem, SameCall, JobFits
<1>3. /\ \A x \in Settings : x # Item.key => us'[x] = us[x]
      /\ us'[Item.key].value = us[Item.key].value /\ us'[Item.key].changed
  <2>1. Alone(Item.key) /\ us'[Item.key] = [us[Item.key] EXCEPT !.changed = TRUE]
    BY <1>1, FlagDoes DEF MarkItem
  <2>2. us[Item.key] \in Setting
    BY <1>1 DEF Typical
  <2> QED
    BY <2>1, <2>2 DEF Alone, Setting
<1>4. job'.op = "import"
  BY NextItemAs DEF MarkItem, JobFits
<1>5. CASE Takes(s)
  <2>1. us'[s].value = Item.v /\ us'[s].changed
    BY <1>1, <1>3, <1>5 DEF Going, Takes
  <2> QED
    BY <1>2, <1>4, <1>5, <2>1, ImportedNow DEF Going
<1>6. CASE ~Takes(s)
  <2>1. Applied(s)' = Applied(s)
    BY <1>2, <1>6, AppliedNext
  <2>2. us'[s].value = us[s].value /\ (us[s].changed => us'[s].changed)
    BY <1>3
  <2> QED
    BY <1>2, <1>4, <1>6, <2>1, <2>2 DEF Imported, Going
<1> QED
  BY <1>5, <1>6

\* A document has no element behind its start.
LEMMA ImportStarts ==
    ASSUME NEW s, job'.at = 1, job'.op # "mark"
    PROVE  Going(s)'
<1>1. Applied(s)' = {}
  BY DEF Applied
<1> QED
  BY <1>1 DEF Going, Imported

LEMMA ImportInit == InitFrontEnds => ImportInv
BY NoJobFits DEF InitFrontEnds, InitJson, ImportInv, Results

LEMMA ImportInvStep ==
    ASSUME FrontTypes, CycleInv, ImportInv, [Next]_vars
    PROVE  ImportInv'
<1> SUFFICES ASSUME job'.op \in {"import", "mark"}, shellWrites' = 0,
                    NEW s \in Settings
             PROVE  Going(s)'
  BY DEF ImportInv, Going
<1>1. Typical /\ JobFits /\ Kept
  BY Types
<1>2. job.op \in {"import", "mark"} /\ shellWrites = 0 => Going(s)
  BY DEF ImportInv, Going
<1>3. job' = job /\ us' = us /\ (shellWrites' = 0 => shellWrites = 0) => Going(s)'
  BY <1>2 DEF Going, Imported, Applied, Takes, Item
<1>4. CASE ShellNext
  <2>1. job' = job /\ Busy
    BY <1>4 DEF ShellNext, Busy
  <2>2. us' = us /\ shellWrites = 0
    BY <1>1, <1>4, <2>1 DEF ShellNext, Kept
  <2> QED
    BY <1>3, <2>1, <2>2
<1>5. CASE AppNext
  <2>1. shellWrites = 0 /\ Application
    BY <1>5 DEF AppNext, Busy
  <2>2. CASE StartImport \/ StartExport \/ StartCycle
    BY <1>1, <2>2, StartTypes, ImportStarts
       DEF StartImport, StartExport, StartCycle, Starts
  <2>3. CASE JsonSteps
    <3>1. CASE PassOver
      <4>1. /\ job'.doc = job.doc /\ job'.always = job.always
            /\ job'.at = job.at + 1 /\ job'.op = "import" /\ job.op = "import"
        BY <1>1, <3>1, NextItemFits DEF PassOver, Importing, SameCall, JobFits
      <4>2. ~Takes(s) /\ us' = us
        BY <3>1 DEF PassOver, Settable, Takes, Settings, Unknown
      <4>3. Imported(s)
        BY <1>2, <2>1, <4>1 DEF Going
      <4> QED
        BY <1>1, <4>1, <4>2, <4>3, ImportedStays DEF Going
    <3>2. CASE SetItem
      <4>1. Imported(s)
        BY <1>2, <2>1, <3>2 DEF SetItem, Importing, Going
      <4> QED
        BY <1>1, <3>2, <4>1, SetItemKeeps
    <3>3. CASE MarkItem
      BY <1>1, <1>2, <2>1, <3>3, MarkItemKeeps DEF MarkItem
    <3>4. CASE ImportEnd
      BY <3>4, NoJobFits DEF ImportEnd, Results
    <3>5. CASE Select
      BY <1>1, <3>5, NextItemFits DEF Select, JobFits, Job
    <3>6. CASE ReadSetting
      BY <1>1, <3>6, ReadDoes
    <3> QED
      BY <2>3, <3>1, <3>2, <3>3, <3>4, <3>5, <3>6
         DEF JsonSteps, ImportStep, ExportStep
  <2>4. CASE ExportReturns
    BY <2>4, NoJobFits DEF ExportReturns, ExportEnd, Results
  <2>5. CASE ClearStep
    BY <2>5 DEF ClearStep, CycleInv, InPhase
  <2> QED
    BY <2>1, <2>2, <2>3, <2>4, <2>5 DEF Application
<1>6. CASE UNCHANGED vars
  BY <1>3, <1>6 DEF vars
<1> QED
  BY <1>4, <1>5, <1>6 DEF Next

\* An import returns at its end, or at the element whose set failed.
LEMMA ImportReturns ==
    ASSUME FrontTypes, [Next]_vars, JobReturns, job.op = "import"
    PROVE  \/ us' = us /\ job.at > Len(job.doc)
           \/ /\ job'.ret \in {"ENOMEM", "EIO"} /\ Item.key \in Settings
              /\ Alone(Item.key)
<1>1. Typical /\ JobFits /\ job \in Job
  BY Types DEF JobFits
<1>2. job'.op = "idle" /\ job' # job
  BY DEF JobReturns
<1>3. ImportStep
  BY <1>2 DEF Next, AppNext, ShellNext, vars, Application, StartImport, StartExport,
       StartCycle, Import, Export, JsonSteps, ExportStep, Select, ReadSetting,
       ExportReturns, ExportEnd, ClearStep
<1>4. CASE PassOver
  BY <1>1, <1>2, <1>4, NextItemFits DEF PassOver, Importing
<1>5. CASE SetItem
  <2>1. Item \in Element /\ Item.key \in Settings /\ Settable(Item)
    BY <1>1, <1>5, ItemFits, ItemSettable DEF SetItem, Importing
  <2>2. PICK r \in {"ok", "EINVAL", "ENOMEM", "EIO"} :
          /\ SetCall(Item.key, Item.v, r)
          /\ job' = IF r \in {"ENOMEM", "EIO"} THEN NoJob(r)
                    ELSE IF r = "ok" /\ job.always THEN [job EXCEPT !.op = "mark"]
                    ELSE NextItem
    BY <1>5 DEF SetItem
  <2>3. job'.op = "mark" \/ job'.op = job.op \/ r \in {"ENOMEM", "EIO"}
    BY <1>1, <2>2, NextItemFits DEF Job
  <2>4. r \in {"ENOMEM", "EIO"} /\ job'.ret = r
    BY <1>2, <2>2, <2>3, NoJobFits DEF Results
  <2>5. Alone(Item.key)
    BY <1>1, <2>1, <2>2, SetDoes
  <2> QED
    BY <2>1, <2>4, <2>5
<1>6. CASE ImportEnd
  BY <1>1, <1>6 DEF ImportEnd, Importing, Job
<1> QED
  BY <1>3, <1>4, <1>5, <1>6 DEF ImportStep, MarkItem

\* Nobody else writing, an import has applied every element before the one that
\* stopped it, the last one for each setting holds, and it is marked if asked:
\* whatever unknown keys, wrong types and refused values stand between them.
THEOREM ImportComplete == Spec => ImportIsComplete
<1> DEFINE Whole ==
      JobReturns /\ job.op = "import" /\ shellWrites = 0 =>
         /\ job'.ret = "ok" => job.at > Len(job.doc)
         /\ \A s \in Settings :
              Applied(s) # {} /\ (job'.ret = "ok" \/ Item.key # s) =>
                /\ us'[s].value = job.doc[Latest(Applied(s))].v
                /\ job.always => us'[s].changed
<1>1. FrontTypes /\ ImportInv /\ [Next]_vars => Whole
  <2> SUFFICES ASSUME FrontTypes, ImportInv, [Next]_vars,
                      JobReturns, job.op = "import", shellWrites = 0
               PROVE  /\ job'.ret = "ok" => job.at > Len(job.doc)
                      /\ \A s \in Settings :
                           Applied(s) # {} /\ (job'.ret = "ok" \/ Item.key # s) =>
                             /\ us'[s].value = job.doc[Latest(Applied(s))].v
                             /\ job.always => us'[s].changed
    OBVIOUS
  <2>1. \A s \in Settings : Imported(s)
    BY DEF ImportInv
  <2>2. CASE us' = us /\ job.at > Len(job.doc)
    BY <2>1, <2>2 DEF Imported
  <2>3. CASE /\ job'.ret \in {"ENOMEM", "EIO"} /\ Item.key \in Settings
             /\ Alone(Item.key)
    BY <2>1, <2>3 DEF Imported, Alone
  <2> QED
    BY <2>2, <2>3, ImportReturns
<1>2. FrontTypes /\ CycleInv /\ ImportInv /\ FrontTypes' /\ [Next]_vars
          => CycleInv' /\ ImportInv'
  BY CycleStep, ImportInvStep
<1>3. ImportIsComplete <=> [][Whole]_vars
  BY DEF ImportIsComplete
<1> QED
  BY <1>1, <1>2, <1>3, CycleInit, ImportInit, FrontTypesAlways, PTL DEF Spec

-----------------------------------------------------------------------------
(* WalksAreComplete                                                          *)

LEMMA WalkedStart ==
    ASSUME NEW keys, DOMAIN keys = {}, NEW all \in BOOLEAN, NEW F, NEW om
    PROVE  Walked(keys, 1, all, F, om)
BY DEF Walked, InOrder, Keys

\* Flags seen later take nothing back.
LEMMA WalkedStays ==
    ASSUME NEW keys, NEW at \in 1..(N + 1), NEW all \in BOOLEAN, NEW F, NEW G, NEW om,
           Walked(keys, at, all, F, om),
           all \/ \A s \in Settings : F[s] \subseteq G[s]
    PROVE  Walked(keys, at, all, G, om)
<1>1. 1..(at - 1) \subseteq Settings
  BY Size
<1> QED
  BY <1>1 DEF Walked

\* The walk passes a setting that was seen without its flag.
LEMMA WalkedSkips ==
    ASSUME NEW keys, NEW at \in Settings, NEW F, NEW om,
           Walked(keys, at, FALSE, F, om), FALSE \in F[at]
    PROVE  Walked(keys, at + 1, FALSE, F, om)
<1> DEFINE past == 1..(at - 1)
           n1 == at + 1
           now == 1..(n1 - 1)
           up(s) == TRUE \in F[s]
           down(s) == FALSE \in F[s]
<1>1. now = past \cup {at}
  BY Size
<1> HIDE DEF past, now, n1, up, down
<1>2. /\ InOrder(keys)
      /\ \A s \in Keys(keys) : s \in past /\ (FALSE \/ up(s))
      /\ \A s \in past : FALSE \/ ~down(s) => s \in Keys(keys) \cup om
  BY DEF Walked, past, up, down
<1>3. down(at)
  BY DEF down
<1>4. /\ InOrder(keys)
      /\ \A s \in Keys(keys) : s \in now /\ (FALSE \/ up(s))
      /\ \A s \in now : FALSE \/ ~down(s) => s \in Keys(keys) \cup om
  BY <1>1, <1>2, <1>3
<1>5. Walked(keys, n1, FALSE, F, om)
  BY <1>4 DEF Walked, now, up, down
<1> QED
  BY <1>5 DEF n1

\* The walk leaves a setting out.
LEMMA WalkedOmits ==
    ASSUME NEW keys, NEW at \in Settings, NEW all \in BOOLEAN, NEW F, NEW om,
           Walked(keys, at, all, F, om)
    PROVE  Walked(keys, at + 1, all, F, om \cup {at})
<1> DEFINE past == 1..(at - 1)
           n1 == at + 1
           now == 1..(n1 - 1)
           up(s) == TRUE \in F[s]
           down(s) == FALSE \in F[s]
<1>1. now = past \cup {at}
  BY Size
<1> HIDE DEF past, now, n1, up, down
<1>2. /\ InOrder(keys)
      /\ \A s \in Keys(keys) : s \in past /\ (all \/ up(s))
      /\ \A s \in past : all \/ ~down(s) => s \in Keys(keys) \cup om
  BY DEF Walked, past, up, down
<1>3. /\ InOrder(keys)
      /\ \A s \in Keys(keys) : s \in now /\ (all \/ up(s))
      /\ \A s \in now : all \/ ~down(s) => s \in Keys(keys) \cup (om \cup {at})
  BY <1>1, <1>2
<1>4. Walked(keys, n1, all, F, om \cup {at})
  BY <1>3 DEF Walked, now, up, down
<1> QED
  BY <1>4 DEF n1

\* The walk names a setting at the end of its list.
LEMMA WalkedTakes ==
    ASSUME NEW keys, NEW at \in Settings, NEW all \in BOOLEAN, NEW F, NEW om,
           Walked(keys, at, all, F, om), all \/ TRUE \in F[at],
           NEW n \in Nat, NEW longer,
           DOMAIN keys = 1..n, DOMAIN longer = 1..(n + 1),
           \A i \in 1..n : longer[i] = keys[i], longer[n + 1] = at
    PROVE  Walked(longer, at + 1, all, F, om)
<1>1. 1..(at + 1 - 1) = 1..(at - 1) \cup {at} /\ at \in Nat
  BY Size
<1>2. DOMAIN longer = DOMAIN keys \cup {n + 1}
  OBVIOUS
<1>3. Keys(longer) = Keys(keys) \cup {at}
  BY <1>2 DEF Keys
<1>4. InOrder(longer)
  <2> SUFFICES ASSUME NEW i \in 1..(n + 1), NEW j \in 1..(n + 1), i < j
               PROVE  longer[i] < longer[j]
    BY DEF InOrder
  <2>1. i \in 1..n /\ longer[i] = keys[i]
    OBVIOUS
  <2>2. CASE j \in 1..n
    BY <2>1, <2>2 DEF Walked, InOrder
  <2>3. CASE j = n + 1
    <3>1. keys[i] \in 1..(at - 1)
      BY <2>1 DEF Walked, Keys
    <3> QED
      BY <1>1, <2>1, <2>3, <3>1
  <2> QED
    BY <2>2, <2>3
<1> DEFINE past == 1..(at - 1)
           n1 == at + 1
           now == 1..(n1 - 1)
           up(s) == TRUE \in F[s]
           down(s) == FALSE \in F[s]
<1>5. now = past \cup {at}
  BY Size
<1> HIDE DEF past, now, n1, up, down
<1>6. /\ \A s \in Keys(keys) : s \in past /\ (all \/ up(s))
      /\ \A s \in past : all \/ ~down(s) => s \in Keys(keys) \cup om
  BY DEF Walked, past, up, down
<1>7. all \/ up(at)
  BY DEF up
<1>8. /\ \A s \in Keys(longer) : s \in now /\ (all \/ up(s))
      /\ \A s \in now : all \/ ~down(s) => s \in Keys(longer) \cup om
  BY <1>3, <1>5, <1>6, <1>7
<1>9. Walked(longer, n1, all, F, om)
  BY <1>4, <1>8 DEF Walked, now, up, down
<1> QED
  BY <1>9 DEF n1

\* At its end a walk is complete.
LEMMA WalkedAll ==
    ASSUME NEW keys, NEW at, at = N + 1, NEW all \in BOOLEAN, NEW w, NEW om,
           Walked(keys, at, all, seen[w], om)
    PROVE  Complete(keys, all, w, om)
<1>1. 1..(at - 1) = Settings
  BY Size
<1> QED
  BY <1>1 DEF Walked, Complete

LEMMA SeenGrows ==
    ASSUME Observe, NEW w \in Walks, Walking(w)', NEW s \in Settings
    PROVE  /\ us'[s].changed \in seen'[w][s]
           /\ Walking(w) => seen[w][s] \subseteq seen'[w][s]
BY DEF Observe

LEMMA FlagsStep ==
    ASSUME Observe
    PROVE  \A w \in Walks : Flags(w)'
BY SeenGrows DEF Flags

\* The walk of an export through a step that leaves it where it is.
LEMMA JsonHeld ==
    ASSUME JobFits, JsonWalked, Observe, job' = job
    PROVE  JsonWalked'
<1> SUFFICES ASSUME job.op \in {"export", "read"}
             PROVE  /\ Walked(OutKeys, job.at, ~job.only, seen'["json"], job.omitted)
                    /\ job.op = "read" /\ job.only => TRUE \in seen'["json"][job.at]
  BY DEF JsonWalked, OutKeys
<1>1. job.at \in 1..(N + 1) /\ (~job.only) \in BOOLEAN /\ "json" \in Walks
  BY Size DEF JobFits, Job, Walks
<1>2. job.only => \A s \in Settings : seen["json"][s] \subseteq seen'["json"][s]
  BY <1>1, SeenGrows DEF Walking
<1>3. Walked(OutKeys, job.at, ~job.only, seen["json"], job.omitted)
  BY DEF JsonWalked
<1>4. Walked(OutKeys, job.at, ~job.only, seen'["json"], job.omitted)
  BY <1>1, <1>2, <1>3, WalkedStays
<1>5. job.op = "read" => job.at \in Settings
  BY <1>1, Size DEF JobFits
<1> QED
  BY <1>2, <1>4, <1>5 DEF JsonWalked

\* An export that starts has named nothing.
LEMMA JsonStarts ==
    ASSUME job' \in Job, job'.at = 1, job'.out = <<>>, job'.op # "read"
    PROVE  JsonWalked'
<1>1. DOMAIN OutKeys' = {} /\ (~job'.only) \in BOOLEAN
  BY DEF OutKeys, Job
<1>2. Walked(OutKeys', 1, ~job'.only, seen'["json"], job'.omitted)
  BY <1>1, WalkedStart
<1> QED
  BY <1>2 DEF JsonWalked

LEMMA JsonSelects ==
    ASSUME Typical, JobFits, WalkInv, Observe, Select
    PROVE  JsonWalked'
<1> DEFINE k == job.at
           F == seen["json"]
           G == seen'["json"]
<1>1. /\ job \in Job /\ job.op = "export" /\ k \in Settings /\ us' = us
      /\ k \in 1..(N + 1) /\ k + 1 \in 1..(N + 1)
      /\ (~job.only) \in BOOLEAN /\ "json" \in Walks /\ us[k].changed \in BOOLEAN
  <2>1. job \in Job /\ job.op = "export" /\ k \in Settings /\ us' = us
    BY Size DEF Select, JobFits, Job
  <2>2. k \in 1..(N + 1) /\ k + 1 \in 1..(N + 1)
    BY <2>1, Size
  <2> QED
    BY <2>1, <2>2 DEF Job, Walks, Typical, Setting
<1>2. Walked(OutKeys, k, ~job.only, F, job.omitted)
  BY <1>1 DEF WalkInv, JsonWalked
<1>3. job.only => us[k].changed \in F[k]
  BY <1>1 DEF WalkInv, Flags, Walking
<1>4. job.only /\ job'.only /\ job'.op \in {"export", "read"}
          => \A s \in Settings : F[s] \subseteq G[s]
  BY <1>1, SeenGrows DEF Walking
<1>5. CASE job' = NextItem /\ ~Selected
  <2>1. job.only /\ us[k].changed = FALSE
    BY <1>1, <1>5 DEF Selected
  <2>2. /\ job'.op = "export" /\ job'.at = k + 1 /\ job'.only = job.only
        /\ job'.omitted = job.omitted /\ OutKeys' = OutKeys
    BY <1>1, <1>5, NextItemFits DEF SameCall, OutKeys
  <2>3. FALSE \in F[k]
    BY <1>3, <2>1
  <2>4. Walked(OutKeys, k, FALSE, F, job.omitted)
    BY <1>2, <2>1
  <2> HIDE DEF k, F, G
  <2>5. Walked(OutKeys, k + 1, FALSE, F, job.omitted)
    BY <1>1, <2>3, <2>4, WalkedSkips
  <2>6. Walked(OutKeys, k + 1, FALSE, G, job.omitted)
    BY <1>1, <1>4, <2>1, <2>2, <2>5, WalkedStays
  <2> QED
    BY <2>1, <2>2, <2>6 DEF JsonWalked, G
<1>6. CASE job' = [job EXCEPT !.op = "read"] /\ Selected
  <2>1. /\ job'.op = "read" /\ job'.at = k /\ job'.only = job.only
        /\ job'.omitted = job.omitted /\ OutKeys' = OutKeys
    BY <1>1, <1>6 DEF Job, OutKeys
  <2>2. job.only => TRUE \in F[k]
    BY <1>1, <1>3, <1>6 DEF Selected
  <2> HIDE DEF k, F, G
  <2>3. Walked(OutKeys, k, ~job.only, G, job.omitted)
    BY <1>1, <1>2, <1>4, <2>1, WalkedStays
  <2>4. job.only => TRUE \in G[k]
    BY <1>1, <1>4, <2>1, <2>2
  <2> QED
    BY <2>1, <2>3, <2>4 DEF JsonWalked, G
<1> QED
  BY <1>5, <1>6 DEF Select

LEMMA JsonReads ==
    ASSUME Typical, JobFits, WalkInv, Observe, ReadSetting
    PROVE  JsonWalked'
<1> DEFINE k == job.at
           F == seen["json"]
           G == seen'["json"]
<1>1. /\ job \in Job /\ job.op = "read" /\ k \in Settings
      /\ k + 1 \in 1..(N + 1) /\ (~job.only) \in BOOLEAN /\ "json" \in Walks
  BY Size DEF ReadSetting, JobFits, Job, Walks
<1>2. /\ Walked(OutKeys, k, ~job.only, F, job.omitted)
      /\ ~job.only \/ TRUE \in F[k]
  BY <1>1 DEF WalkInv, JsonWalked, Job
<1>3. /\ job'.op = "export" /\ job'.at = k + 1 /\ job'.only = job.only
      /\ \/ /\ job'.out = Append(job.out, <<k, us[k].value>>)
            /\ job'.omitted = job.omitted
         \/ job'.out = job.out /\ job'.omitted = job.omitted \cup {k}
  BY ReadDoes DEF ReadSetting
<1>4. job.only => \A s \in Settings : F[s] \subseteq G[s]
  BY <1>1, <1>3, SeenGrows DEF Walking
<1>5. Walked(OutKeys', k + 1, ~job.only, F, job'.omitted)
  <2>1. CASE /\ job'.out = Append(job.out, <<k, us[k].value>>)
             /\ job'.omitted = job.omitted
    <3> DEFINE n == Len(job.out)
    <3>1. job.out \in Seq(Settings \X (Value \cup {None})) /\ n \in Nat
      BY <1>1 DEF Job
    <3>2. DOMAIN job'.out = 1..(n + 1) /\ DOMAIN job.out = 1..n
      BY <2>1, <3>1
    <3>3. /\ \A i \in 1..n : job'.out[i] = job.out[i]
          /\ job'.out[n + 1] = <<k, us[k].value>>
      BY <2>1, <3>1
    <3> HIDE DEF n
    <3>4. DOMAIN OutKeys = 1..n /\ DOMAIN OutKeys' = 1..(n + 1)
      BY <3>2 DEF OutKeys
    <3>5. /\ \A i \in 1..n : OutKeys'[i] = OutKeys[i]
          /\ OutKeys'[n + 1] = k
      BY <3>1, <3>2, <3>3 DEF OutKeys
    <3> DEFINE keys == OutKeys
               longer == OutKeys'
               all == ~job.only
               om == job.omitted
    <3>6. /\ DOMAIN keys = 1..n /\ DOMAIN longer = 1..(n + 1)
          /\ \A i \in 1..n : longer[i] = keys[i]
          /\ longer[n + 1] = k /\ all \in BOOLEAN /\ job'.omitted = om
          /\ Walked(keys, k, all, F, om) /\ (all \/ TRUE \in F[k])
      BY <1>1, <1>2, <2>1, <3>4, <3>5
    <3> HIDE DEF k, F, keys, longer, all, om
    <3>7. Walked(longer, k + 1, all, F, om)
      BY <1>1, <3>1, <3>6, WalkedTakes
    <3> QED
      BY <2>1, <3>7 DEF longer, all, om
  <2>2. CASE job'.out = job.out /\ job'.omitted = job.omitted \cup {k}
    <3>1. OutKeys' = OutKeys
      BY <2>2 DEF OutKeys
    <3> DEFINE keys == OutKeys
               all == ~job.only
               om == job.omitted
    <3>2. all \in BOOLEAN /\ Walked(keys, k, all, F, om)
      BY <1>1, <1>2
    <3> HIDE DEF k, F, keys, all, om
    <3>3. Walked(keys, k + 1, all, F, om \cup {k})
      BY <1>1, <3>2, WalkedOmits
    <3> QED
      BY <2>2, <3>1, <3>3 DEF keys, all, om
  <2> QED
    BY <1>3, <2>1, <2>2
<1> HIDE DEF k, F, G
<1>6. Walked(OutKeys', k + 1, ~job.only, G, job'.omitted)
  BY <1>1, <1>4, <1>5, WalkedStays
<1> QED
  BY <1>3, <1>6 DEF JsonWalked, G

LEMMA JsonWalkStep ==
    ASSUME FrontTypes, FrontTypes', WalkInv, AppNext
    PROVE  JsonWalked'
<1>1. Typical /\ JobFits /\ JobFits' /\ Observe /\ JsonWalked /\ Application
  <2>1. (FrontTypes => JobFits)'
    BY Types, PTL
  <2> QED
    BY <2>1, Types DEF AppNext, WalkInv
<1>2. CASE StartImport \/ StartExport \/ StartCycle
  <2>1. job'.at = 1 /\ job'.out = <<>> /\ job'.op # "read"
    BY <1>1, <1>2, StartTypes DEF StartImport, StartExport, StartCycle, Starts
  <2> QED
    BY <1>1, <2>1, JsonStarts DEF JobFits
<1>3. CASE JsonSteps
  <2>1. CASE Select
    BY <1>1, <2>1, JsonSelects
  <2>2. CASE ReadSetting
    BY <1>1, <2>2, JsonReads
  <2>3. CASE PassOver \/ SetItem
    <3>1. job' = NextItem \/ job'.op \in {"idle", "mark"}
      BY <1>1, <2>3, NoJobFits DEF PassOver, SetItem, Importing, JobFits, Job, Results
    <3>2. job.op = "import"
      BY <2>3 DEF PassOver, SetItem, Importing
    <3>3. job'.op \notin {"export", "read"}
      BY <1>1, <3>1, <3>2, NextItemFits DEF JobFits
    <3> QED
      BY <3>3 DEF JsonWalked
  <2>4. CASE MarkItem
    <3>1. job'.op = "import"
      BY <1>1, <2>4, NextItemAs DEF MarkItem, JobFits
    <3> QED
      BY <3>1 DEF JsonWalked
  <2>5. CASE ImportEnd
    <3>1. job'.op = "idle"
      BY <2>5, NoJobFits DEF ImportEnd, Results
    <3> QED
      BY <3>1 DEF JsonWalked
  <2> QED
    BY <1>3, <2>1, <2>2, <2>3, <2>4, <2>5 DEF JsonSteps, ImportStep, ExportStep
<1>4. CASE ExportReturns
  <2>1. job'.op = "idle"
    BY <1>4, NoJobFits DEF ExportReturns, ExportEnd, Results
  <2> QED
    BY <2>1 DEF JsonWalked
<1>5. CASE ClearStep
  BY <1>1, <1>5, JsonHeld DEF ClearStep
<1> QED
  BY <1>1, <1>2, <1>3, <1>4, <1>5 DEF Application

\* The listing of the shell through a step that leaves it where it is.
LEMMA ShellHeld ==
    ASSUME cmd \in Command, ShellWalked, Observe, cmd' = cmd
    PROVE  ShellWalked'
<1> DEFINE all == cmd.op = "list"
           at == cmd.at
           keys == cmd.shown
           F == seen["shell"]
           G == seen'["shell"]
<1> SUFFICES ASSUME cmd.op \in Listing PROVE Walked(keys, at, all, G, {})
  BY DEF ShellWalked
<1>1. at \in 1..(N + 1) /\ all \in BOOLEAN /\ "shell" \in Walks
  BY DEF Command, Walks
<1>2. ~all => \A s \in Settings : F[s] \subseteq G[s]
  BY <1>1, SeenGrows DEF Walking, Listing
<1>3. Walked(keys, at, all, F, {})
  BY DEF ShellWalked
<1> HIDE DEF all, at, keys, F, G
<1> QED
  BY <1>1, <1>2, <1>3, WalkedStays

LEMMA ShellPrints ==
    ASSUME Typical, cmd \in Command, WalkInv, Observe, PrintOne
    PROVE  ShellWalked'
<1> DEFINE all == cmd.op = "list"
           at == cmd.at
           keys == cmd.shown
           longer == cmd'.shown
           F == seen["shell"]
           G == seen'["shell"]
           n == Len(keys)
<1>1. /\ at \in Settings /\ at + 1 \in 1..(N + 1) /\ all \in BOOLEAN
      /\ "shell" \in Walks /\ keys \in Seq(Settings)
      /\ cmd.op \in Listing /\ us[at].changed \in BOOLEAN /\ us' = us
  BY Size DEF PrintOne, Command, Walks, Typical, Setting
<1>2. Walked(keys, at, all, F, {})
  BY <1>1 DEF WalkInv, ShellWalked
<1>3. ~all => us[at].changed \in F[at]
  BY <1>1 DEF WalkInv, Flags, Walking, Listing
<1>4. /\ cmd'.op = cmd.op /\ cmd'.at = at + 1
      /\ longer = IF all \/ us[at].changed THEN Append(keys, at) ELSE keys
  <2> DEFINE m == at + 1
             k == IF Prints(at) THEN Append(keys, at) ELSE keys
  <2>1. cmd' = [cmd EXCEPT !.at = m, !.shown = k]
    BY DEF PrintOne
  <2> HIDE DEF m, k
  <2>2. cmd'.op = cmd.op /\ cmd'.at = m /\ cmd'.shown = k
    BY <2>1 DEF Command
  <2> QED
    BY <2>2 DEF m, k, Prints
<1>5. ~all => \A s \in Settings : F[s] \subseteq G[s]
  BY <1>1, <1>4, SeenGrows DEF Walking, Listing
<1>6. Walked(longer, at + 1, all, F, {})
  <2>1. CASE all \/ us[at].changed
    <3>1. n \in Nat /\ DOMAIN keys = 1..n /\ longer = Append(keys, at)
      BY <1>1, <1>4, <2>1
    <3>2. /\ DOMAIN longer = 1..(n + 1) /\ longer[n + 1] = at
          /\ \A i \in 1..n : longer[i] = keys[i]
      BY <1>1, <3>1
    <3>3. all \/ TRUE \in F[at]
      BY <1>1, <1>3, <2>1
    <3> HIDE DEF all, at, keys, longer, F, n
    <3> QED
      BY <1>1, <1>2, <3>1, <3>2, <3>3, WalkedTakes
  <2>2. CASE ~(all \/ us[at].changed)
    <3>1. all = FALSE /\ longer = keys
      BY <1>4, <2>2
    <3>2. FALSE \in F[at]
      BY <1>1, <1>3, <2>2
    <3>3. Walked(keys, at, FALSE, F, {})
      BY <1>2, <3>1
    <3> HIDE DEF all, at, keys, longer, F
    <3>4. Walked(keys, at + 1, FALSE, F, {})
      BY <1>1, <3>2, <3>3, WalkedSkips
    <3> QED
      BY <3>1, <3>4
  <2> QED
    BY <2>1, <2>2
<1>7. Walked(longer, at + 1, all, G, {})
  <2> HIDE DEF all, at, keys, longer, F, G
  <2> QED
    BY <1>1, <1>5, <1>6, WalkedStays
<1> QED
  BY <1>4, <1>7 DEF ShellWalked

LEMMA ShellWalkStep ==
    ASSUME FrontTypes, WalkInv, ShellNext
    PROVE  ShellWalked'
<1>1. Typical /\ cmd \in Command /\ Observe
  BY Types DEF ShellNext
<1>2. CASE Typed
  <2>1. cmd'.at = 1 /\ cmd'.shown = <<>>
    BY <1>2, TypedFits
  <2>2. DOMAIN cmd'.shown = {} /\ (cmd'.op = "list") \in BOOLEAN
    BY <2>1
  <2>3. Walked(cmd'.shown, 1, cmd'.op = "list", seen'["shell"], {})
    BY <2>2, WalkedStart
  <2> QED
    BY <2>1, <2>3 DEF ShellWalked
<1>3. CASE PrintOne
  BY <1>1, <1>3, ShellPrints
<1>4. CASE NotFound \/ CmdSet \/ CmdGet \/ CmdOne \/ ListEnd
  <2>1. cmd'.op = "idle"
    BY <1>4, NoCommandFits
       DEF NotFound, CmdSet, CmdGet, CmdOne, ListEnd, Return, CmdResults
  <2> QED
    BY <2>1 DEF ShellWalked, Listing
<1>5. CASE CmdAll
  <2>1. cmd'.op \in Looping \cup {"idle"}
    BY <1>1, <1>5, NoCommandFits DEF CmdAll, Return, Command, CmdResults
  <2> QED
    BY <2>1 DEF ShellWalked, Listing, Looping
<1> QED
  BY <1>2, <1>3, <1>4, <1>5 DEF ShellNext, ShellStep

LEMMA WalkInit == InitFrontEnds => WalkInv
<1> SUFFICES ASSUME InitFrontEnds PROVE WalkInv
  OBVIOUS
<1>1. job.op = "idle" /\ cmd.op = "idle"
  BY NoJobFits, NoCommandFits
     DEF InitFrontEnds, InitJson, InitShell, Results, CmdResults
<1> QED
  BY <1>1 DEF WalkInv, Flags, Walking, JsonWalked, ShellWalked, Listing, Walks

LEMMA WalkStep ==
    ASSUME FrontTypes, FrontTypes', WalkInv, [Next]_vars
    PROVE  WalkInv'
<1>1. JobFits /\ cmd \in Command /\ JsonWalked /\ ShellWalked
  BY Types DEF WalkInv
<1>2. CASE AppNext
  BY <1>1, <1>2, FlagsStep, JsonWalkStep, ShellHeld DEF AppNext, WalkInv
<1>3. CASE ShellNext
  BY <1>1, <1>3, FlagsStep, ShellWalkStep, JsonHeld DEF ShellNext, WalkInv
<1>4. CASE UNCHANGED vars
  BY <1>4 DEF vars, WalkInv, Flags, Walking, JsonWalked, ShellWalked, OutKeys
<1> QED
  BY <1>2, <1>3, <1>4 DEF Next

\* Exports and listings name each setting once and in order, with every setting
\* flagged throughout and none never flagged, whatever the other thread does to
\* the settings and their flags on the way.
THEOREM WalksComplete == Spec => WalksAreComplete
<1> DEFINE Whole ==
      /\ JobReturns /\ job.op = "export" =>
            Complete([i \in DOMAIN job.out |-> job.out[i][1]], ~job.only, "json",
                     job.omitted)
      /\ CommandReturns /\ cmd.op \in Listing =>
            Complete(cmd.shown, cmd.op = "list", "shell", {})
<1>1. FrontTypes /\ WalkInv /\ [Next]_vars => Whole
  <2> SUFFICES ASSUME FrontTypes, WalkInv, [Next]_vars PROVE Whole
    OBVIOUS
  <2>1. Typical /\ JobFits /\ cmd \in Command
    BY Types
  <2>2. ASSUME JobReturns, job.op = "export"
        PROVE  Complete(OutKeys, ~job.only, "json", job.omitted)
    <3>1. job.op # "idle" /\ job'.op = "idle" /\ job' # job
      BY <2>2 DEF JobReturns
    <3>2. ~Select
      BY <2>1, <2>2, <3>1, NextItemFits DEF Select, JobFits, Job
    <3>3. job.at > N
      BY <2>2, <3>1, <3>2
         DEF Next, AppNext, ShellNext, vars, Application, StartImport, StartExport,
             StartCycle, Import, Export, JsonSteps, ImportStep, ExportStep, PassOver,
             SetItem, MarkItem, ImportEnd, Importing, ReadSetting, ExportReturns,
             ExportEnd, ClearStep
    <3>4. job.at = N + 1 /\ (~job.only) \in BOOLEAN
      BY <2>1, <2>2, <3>3, Size DEF JobFits, Job
    <3>5. Walked(OutKeys, job.at, ~job.only, seen["json"], job.omitted)
      BY <2>2 DEF WalkInv, JsonWalked
    <3> QED
      BY <3>4, <3>5, WalkedAll
  <2>3. ASSUME CommandReturns, cmd.op \in Listing
        PROVE  Complete(cmd.shown, cmd.op = "list", "shell", {})
    <3>1. cmd.op # "idle" /\ cmd'.op = "idle" /\ cmd' # cmd
      BY <2>3 DEF CommandReturns
    <3>2. ShellStep
      BY <3>1, TypedFits DEF Next, AppNext, ShellNext, vars
    <3>3. ~PrintOne
      BY <2>1, <3>1 DEF PrintOne, Command
    <3>4. cmd.at > N
      BY <2>3, <3>2, <3>3 DEF ShellStep, NotFound, CmdSet, CmdGet, CmdOne, CmdAll,
         Found, ListEnd, Listing, Keyed, Looping
    <3>5. cmd.at = N + 1 /\ (cmd.op = "list") \in BOOLEAN
      BY <2>1, <3>4, Size DEF Command
    <3>6. Walked(cmd.shown, cmd.at, cmd.op = "list", seen["shell"], {})
      BY <2>3 DEF WalkInv, ShellWalked
    <3> QED
      BY <3>5, <3>6, WalkedAll
  <2> QED
    BY <2>2, <2>3 DEF OutKeys
<1>2. FrontTypes /\ FrontTypes' /\ WalkInv /\ [Next]_vars => WalkInv'
  BY WalkStep
<1>3. WalksAreComplete <=> [][Whole]_vars
  BY DEF WalksAreComplete
<1> QED
  BY <1>1, <1>2, <1>3, WalkInit, FrontTypesAlways, PTL DEF Spec

-----------------------------------------------------------------------------
(* CommandsDoAsTold                                                          *)

\* What a loop of the shell has done of setting s.
DoneWith(s) == IF cmd.op = "restore" THEN AtDefault(s) ELSE ~us[s].changed

LEMMA CommandInit == InitFrontEnds => CommandInv
BY NoCommandFits DEF InitFrontEnds, InitShell, CommandInv, Looping, CmdResults

\* One setting of the loop.
LEMMA LoopGoesOn ==
    ASSUME Typical, cmd \in Command, CmdAll,
           NEW k \in Settings, k = cmd.at
    PROVE  /\ cmd'.op = cmd.op /\ cmd'.at = k + 1
           /\ Alone(k) /\ DoneWith(k)'
<1> DEFINE n == k + 1
<1>1. cmd' = [cmd EXCEPT !.at = n] /\ Apply(cmd.op, k) /\ cmd.op \in Looping
  BY Size DEF CmdAll, Reached
<1> HIDE DEF n
<1>2. cmd'.op = cmd.op /\ cmd'.at = n
  BY <1>1 DEF Command
<1>3. CASE cmd.op = "restore"
  <2>1. RestoreCall(k)
    BY <1>1, <1>3 DEF Apply
  <2>2. Alone(k) /\ AtDefault(k)'
    BY <2>1, RestoreDoes
  <2> QED
    BY <1>2, <1>3, <2>2 DEF n, DoneWith
<1>4. CASE cmd.op = "clear_changed"
  <2>1. FlagCall(k, FALSE)
    BY <1>1, <1>4 DEF Apply
  <2>2. Alone(k) /\ us'[k] = [us[k] EXCEPT !.changed = FALSE] /\ us[k] \in Setting
    BY <2>1, FlagDoes DEF Typical
  <2>3. us'[k].changed = FALSE
    BY <2>2 DEF Setting
  <2> QED
    BY <1>2, <1>4, <2>2, <2>3 DEF n, DoneWith
<1> QED
  BY <1>1, <1>3, <1>4 DEF Looping

LEMMA CommandStep ==
    ASSUME FrontTypes, CommandInv, [Next]_vars
    PROVE  CommandInv'
<1> SUFFICES ASSUME ~jsonWrote', cmd'.op \in Looping, NEW s \in 1..(cmd'.at - 1)
             PROVE  DoneWith(s)'
  BY DEF CommandInv, DoneWith
<1>1. Typical /\ cmd \in Command /\ Kept
  BY Types
<1>2. ~jsonWrote /\ cmd.op \in Looping => \A x \in 1..(cmd.at - 1) : DoneWith(x)
  BY DEF CommandInv, DoneWith
<1>3. cmd' = cmd /\ us' = us /\ (~jsonWrote' => ~jsonWrote) => DoneWith(s)'
  BY <1>2 DEF DoneWith, AtDefault
<1>4. CASE AppNext
  <2>1. cmd' = cmd /\ us' = us /\ ~jsonWrote
    BY <1>1, <1>4 DEF AppNext, Looping, Kept
  <2> QED
    BY <1>3, <2>1
<1>5. CASE ShellNext
  <2>1. ~jsonWrote
    BY <1>1, <1>5 DEF ShellNext, Looping, Kept
  <2>2. CASE Typed
    <3>1. cmd'.at = 1
      BY <2>2, TypedFits
    <3> QED
      BY <3>1
  <2>3. CASE CmdAll
    <3>1. cmd.at \in Settings
      BY <1>1, <2>3, NoCommandFits, Size
         DEF CmdAll, Reached, Return, CmdResults, Looping
    <3>2. PICK k \in Settings : k = cmd.at
      BY <3>1
    <3>3. /\ cmd'.op = cmd.op /\ cmd'.at = k + 1
          /\ Alone(k) /\ DoneWith(k)'
      BY <1>1, <2>3, <3>2, LoopGoesOn
    <3>4. CASE s = k
      BY <3>3, <3>4
    <3>5. CASE s # k
      <4>1. s \in 1..(k - 1) /\ s \in Settings
        BY <3>2, <3>3, <3>5, Size
      <4>2. us'[s] = us[s]
        BY <3>3, <3>5, <4>1 DEF Alone
      <4>3. DoneWith(s)
        BY <1>2, <2>1, <3>2, <3>3, <4>1
      <4> QED
        BY <3>3, <4>2, <4>3 DEF DoneWith, AtDefault
    <3> QED
      BY <3>4, <3>5
  <2>4. CASE NotFound \/ CmdSet \/ CmdGet \/ CmdOne \/ ListEnd
    BY <2>4, NoCommandFits
       DEF NotFound, CmdSet, CmdGet, CmdOne, ListEnd, Return, CmdResults, Looping
  <2>5. CASE PrintOne
    <3>1. cmd.op \in Listing /\ cmd'.op = cmd.op
      BY <1>1, <2>5 DEF PrintOne, Command
    <3> QED
      BY <3>1 DEF Listing, Looping
  <2> QED
    BY <1>5, <2>2, <2>3, <2>4, <2>5 DEF ShellNext, ShellStep
<1>6. CASE UNCHANGED vars
  BY <1>3, <1>6 DEF vars
<1> QED
  BY <1>4, <1>5, <1>6 DEF Next

\* A command that returns has done what it says; only an unknown key is not found.
LEMMA CommandReturned ==
    ASSUME FrontTypes, CommandInv, [Next]_vars, CommandReturns, ~jsonWrote
    PROVE  /\ (cmd'.ret = "ENOENT") = (cmd.op \in Keyed /\ cmd.key = NoKey)
           /\ cmd'.ret = "ok" =>
                /\ cmd.op = "set" => us'[cmd.key].value = cmd.v
                /\ cmd.op = "set_default" => us'[cmd.key].default = cmd.v
                /\ cmd.op = "restore_one" => Restored(cmd.key)
                /\ cmd.op = "restore" => \A s \in Settings : Restored(s)
                /\ cmd.op = "clear_changed_one" => ~us'[cmd.key].changed
                /\ cmd.op = "clear_changed" => \A s \in Settings : ~us'[s].changed
<1>1. Typical /\ cmd \in Command
  BY Types
<1>2. cmd.op # "idle" /\ cmd'.op = "idle" /\ cmd' # cmd
  BY DEF CommandReturns
<1>3. ShellStep
  BY <1>2, TypedFits DEF Next, AppNext, ShellNext, vars
<1>4. CASE NotFound
  <2>1. cmd'.ret = "ENOENT"
    BY <1>4, NoCommandFits DEF NotFound, Return, CmdResults
  <2> QED
    BY <1>4, <2>1 DEF NotFound
<1>5. CASE CmdSet
  <2>1. PICK r \in {"ok", "EINVAL", "ENOMEM", "EIO", "EALREADY"} :
            SetAs(cmd.op, cmd.key, cmd.v, r) /\ Return(r)
    BY <1>5 DEF CmdSet
  <2>2. cmd'.ret = r
    BY <2>1, NoCommandFits DEF Return, CmdResults
  <2>3. cmd.key \in Settings /\ cmd.key # NoKey
    BY <1>1, <1>5 DEF CmdSet, Found, Command
  <2>4. CASE cmd.op = "set" /\ SetCall(cmd.key, cmd.v, r)
    <3>1. r = "ok" => us'[cmd.key].value = cmd.v
      BY <1>1, <2>3, <2>4, SetDoes
    <3> QED
      BY <2>2, <2>3, <2>4, <3>1
  <2>5. CASE cmd.op = "set_default" /\ SetDefaultCall(cmd.key, cmd.v, r)
    <3>1. r = "ok" => us'[cmd.key].default = cmd.v
      BY <1>1, <2>3, <2>5, SetDefaultDoes
    <3> QED
      BY <2>2, <2>3, <2>5, <3>1
  <2> QED
    BY <2>1, <2>4, <2>5 DEF SetAs
<1>6. CASE CmdGet
  <2>1. cmd'.ret = "ok"
    BY <1>6, NoCommandFits DEF CmdGet, Return, CmdResults
  <2> QED
    BY <1>6, <2>1 DEF CmdGet, Found
<1>7. CASE CmdOne
  <2>1. cmd'.ret = "ok" /\ cmd.key \in Settings /\ cmd.key # NoKey
    BY <1>1, <1>7, NoCommandFits DEF CmdOne, Found, Return, CmdResults, Command
  <2>2. Apply(cmd.op, cmd.key) /\ cmd.op \in Keyed
    BY <1>7 DEF CmdOne, Found
  <2>3. CASE cmd.op = "restore_one" /\ RestoreCall(cmd.key)
    <3>1. Restored(cmd.key)
      BY <1>1, <2>1, <2>3, RestoreDoes
    <3> QED
      BY <2>1, <2>3, <3>1
  <2>4. CASE cmd.op = "clear_changed_one" /\ FlagCall(cmd.key, FALSE)
    <3>1. us'[cmd.key] = [us[cmd.key] EXCEPT !.changed = FALSE]
      BY <1>1, <2>1, <2>4, FlagDoes
    <3>2. ~us'[cmd.key].changed
      BY <1>1, <2>1, <3>1 DEF Typical, Setting
    <3> QED
      BY <2>1, <2>4, <3>2
  <2> QED
    BY <2>2, <2>3, <2>4 DEF Apply, Keyed
<1>8. CASE CmdAll
  <2>1. cmd.at \notin Reached
    <3> SUFFICES ASSUME cmd.at \in Settings PROVE FALSE
      BY Size DEF Reached
    <3>1. PICK k \in Settings : k = cmd.at
      OBVIOUS
    <3> QED
      BY <1>1, <1>2, <1>8, <3>1, LoopGoesOn
  <2>2. cmd.op \in Looping /\ us' = us /\ cmd'.ret = "ok" /\ cmd.at = N + 1
    BY <1>1, <1>8, <2>1, NoCommandFits, Size
       DEF CmdAll, Reached, Return, CmdResults, Command
  <2>3. \A s \in Settings : DoneWith(s)
    BY <2>2, Size DEF CommandInv, DoneWith
  <2>4. CASE cmd.op = "restore"
    BY <2>2, <2>3, <2>4 DEF DoneWith, AtDefault, Restored, Keyed
  <2>5. CASE cmd.op = "clear_changed"
    BY <2>2, <2>3, <2>5 DEF DoneWith, Keyed
  <2> QED
    BY <2>2, <2>4, <2>5 DEF Looping
<1>9. CASE PrintOne \/ ListEnd
  <2>1. cmd.op \in Listing
    BY <1>9 DEF PrintOne, ListEnd
  <2>2. cmd'.ret # "ENOENT"
    <3>1. ~PrintOne
      BY <1>1, <1>2 DEF PrintOne, Command
    <3> QED
      BY <1>9, <3>1, NoCommandFits DEF ListEnd, Return, CmdResults
  <2> QED
    BY <2>1, <2>2 DEF Listing, Keyed
<1> QED
  BY <1>3, <1>4, <1>5, <1>6, <1>7, <1>8, <1>9 DEF ShellStep

\* The application not writing meanwhile, a command that reports success did what
\* it says, for every setting where it is a loop over the list.
THEOREM CommandsDone == Spec => CommandsDoAsTold
<1> DEFINE Told ==
      CommandReturns /\ ~jsonWrote =>
         /\ (cmd'.ret = "ENOENT") = (cmd.op \in Keyed /\ cmd.key = NoKey)
         /\ cmd'.ret = "ok" =>
              /\ cmd.op = "set" => us'[cmd.key].value = cmd.v
              /\ cmd.op = "set_default" => us'[cmd.key].default = cmd.v
              /\ cmd.op = "restore_one" => Restored(cmd.key)
              /\ cmd.op = "restore" => \A s \in Settings : Restored(s)
              /\ cmd.op = "clear_changed_one" => ~us'[cmd.key].changed
              /\ cmd.op = "clear_changed" => \A s \in Settings : ~us'[s].changed
<1>1. FrontTypes /\ CommandInv /\ [Next]_vars => Told
  BY CommandReturned
<1>2. FrontTypes /\ CommandInv /\ [Next]_vars => CommandInv'
  BY CommandStep
<1>3. CommandsDoAsTold <=> [][Told]_vars
  BY DEF CommandsDoAsTold
<1> QED
  BY <1>1, <1>2, <1>3, CommandInit, FrontTypesAlways, PTL DEF Spec

\* The inductive invariant of the front ends, all its parts together.
THEOREM FrontInvariant == Spec => []FrontInv
<1> DEFINE Whole == FrontTypes /\ FrontInv
<1>1. InitFrontEnds => Whole
  BY FrontTypesInit, CycleInit, ImportInit, WalkInit, CommandInit
     DEF FrontTypes, FrontInv
<1>2. Whole /\ [Next]_vars => Whole'
  <2> SUFFICES ASSUME Whole, [Next]_vars PROVE Whole'
    OBVIOUS
  <2>1. FrontTypes'
    BY FrontTypesStep
  <2>2. CycleInv'
    BY <2>1, CycleStep DEF FrontInv
  <2>3. ImportInv'
    BY ImportInvStep DEF FrontInv
  <2>4. WalkInv'
    BY <2>1, WalkStep DEF FrontInv
  <2>5. CommandInv'
    BY CommandStep DEF FrontInv
  <2> QED
    BY <2>1, <2>2, <2>3, <2>4, <2>5 DEF FrontTypes, FrontInv
<1>3. Whole => FrontInv
  OBVIOUS
<1> QED
  BY <1>1, <1>2, <1>3, PTL DEF Spec

=============================================================================
