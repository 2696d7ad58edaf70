-------------------------- MODULE UserSettingsStore --------------------------
(***************************************************************************)
(* The core implements the abstract store of SettingsStore: flash is the   *)
(* store, and the steps of a call before its save (checks, the write to    *)
(* RAM, callbacks) do not show.                                            *)
(***************************************************************************)
EXTENDS UserSettingsInv

\* The call of thread t as the store sees it.
CallOf(t) ==
    IF th[t].pc = "idle"
    THEN [op |-> "none", s |-> NULL, d |-> NULL, stage |-> th[t].ret]
    ELSE [op |-> th[t].op,
          s |-> IF th[t].op \in Loops \cup {"load"} THEN NULL ELSE th[t].s,
          d |-> IF th[t].op \in {"set", "set_default"} THEN th[t].d ELSE NULL,
          stage |-> IF th[t].op = "set" /\ th[t].pc \in FlagPCs
                    THEN "stored" ELSE "begun"]

Store == INSTANCE SettingsStore WITH
    Errors <- Results \ {"none", "ok"},
    value <- nvs["value"],
    default <- nvs["default"],
    changed <- [s \in Settings |-> nvs["changed"][s] = TRUE],
    call <- [t \in Threads |-> CallOf(t)]

\* With flash that never fails and without zero-length values and restores,
\* every step of the library is a step of the durable store or does not show:
\* the same-value shortcuts, the reloads and the power cuts at every step of a
\* call never make an effect early, twice, or without the call's success.
ImplementsStore == Store!Spec
=============================================================================
