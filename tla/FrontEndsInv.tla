---------------------------- MODULE FrontEndsInv ----------------------------
(***************************************************************************)
(* The inductive invariants behind the properties of FrontEnds.            *)
(***************************************************************************)
EXTENDS FrontEnds

\* A call is at an element or a setting that its loop has chosen.
AtPlace ==
    /\ job.op = "mark" => job.at <= Len(job.doc) /\ Settable(Item) /\ job.always
    /\ job.op = "read" => job.at <= N

FrontTypes == TypeOK /\ AtPlace

-----------------------------------------------------------------------------
(* CopyFollows: what the copy has, or is about to get from the export that   *)
(* runs.  While the flags are cleared nothing that is still flagged differs. *)

InStep(s) == copy[s] = us[s].value \/ s \in behind

Followed(s) ==
    /\ cycle.phase # "clear" => us[s].changed \/ InStep(s)
    /\ cycle.phase = "export" =>
         /\ \A i \in DOMAIN job.out : job.out[i][1] = s =>
                s < job.at /\ (job.out[i][2] = us[s].value \/ s \in behind)
         /\ s < job.at => Sent(s) \/ InStep(s)
    /\ cycle.phase = "clear" =>
         IF s < cycle.at THEN us[s].changed \/ InStep(s) ELSE InStep(s)

\* A cycle's export is the job, and nothing else runs between it and the clear.
InPhase ==
    /\ cycle.phase # "clear" => cycle.at = 1
    /\ cycle.phase = "export" => job.op \in {"export", "read"} /\ job.only
    /\ cycle.phase = "clear" => job.op = "idle"

CycleInv == InPhase /\ \A s \in Settings : Followed(s)

-----------------------------------------------------------------------------
(* ImportIsComplete: the elements behind the import have been applied.       *)

Imported(s) ==
    Applied(s) # {} =>
        /\ us[s].value = job.doc[Latest(Applied(s))].v
        /\ job.always => us[s].changed

\* The element at hand is one an import applies to s.
Takes(s) ==
    /\ Item.kind = "right_type" /\ Item.key = s
    /\ Item.v \in Fits[s] \cap Accepted[s]

\* An element about to be marked has its value and not yet its flag.
ImportInv ==
    job.op \in {"import", "mark"} /\ shellWrites = 0 =>
        \A s \in Settings :
            IF job.op = "mark" /\ Takes(s) THEN us[s].value = Item.v
                                           ELSE Imported(s)

-----------------------------------------------------------------------------
(* WalksAreComplete: the settings behind a walk were named as their flags    *)
(* stood when it came by.                                                    *)

\* keys names what it should of the settings before at, by the flags seen.
Walked(keys, at, all, flags, omitted) ==
    /\ InOrder(keys)
    /\ \A s \in Keys(keys) : s \in 1..(at - 1) /\ (all \/ TRUE \in flags[s])
    /\ \A s \in 1..(at - 1) :
           all \/ FALSE \notin flags[s] => s \in Keys(keys) \cup omitted

Flags(w) == Walking(w) => \A s \in Settings : us[s].changed \in seen[w][s]

OutKeys == [i \in DOMAIN job.out |-> job.out[i][1]]

JsonWalked ==
    /\ job.op \in {"export", "read"} =>
           Walked(OutKeys, job.at, ~job.only, seen["json"], job.omitted)
    /\ job.op = "read" /\ job.only => TRUE \in seen["json"][job.at]

ShellWalked ==
    cmd.op \in Listing =>
        Walked(cmd.shown, cmd.at, cmd.op = "list", seen["shell"], {})

WalkInv == (\A w \in Walks : Flags(w)) /\ JsonWalked /\ ShellWalked

-----------------------------------------------------------------------------
(* CommandsDoAsTold: a loop of the shell has done the settings behind it.    *)

AtDefault(s) ==
    us[s].value # None /\ us[s].default \in Fits[s] \cap Accepted[s]
        => us[s].value = us[s].default

CommandInv ==
    ~jsonWrote /\ cmd.op \in Looping =>
        \A s \in 1..(cmd.at - 1) :
            IF cmd.op = "restore" THEN AtDefault(s) ELSE ~us[s].changed

FrontInv ==
    /\ AtPlace
    /\ CycleInv /\ ImportInv /\ WalkInv /\ CommandInv
=============================================================================
