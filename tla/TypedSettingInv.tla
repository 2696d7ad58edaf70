-------------------------- MODULE TypedSettingInv ---------------------------
(***************************************************************************)
(* The inductive invariant behind the properties of TypedSetting.          *)
(***************************************************************************)
EXTENDS TypedSetting

TypedVars ==
    /\ type \in Types /\ check \in Checks[type] /\ max \in Sizes(type)
    /\ buf \in Seq(Byte(type)) /\ len \in Nat
    /\ isSet \in BOOLEAN
    /\ nvs = NULL \/ nvs \in Seq(Byte(type)) \ {<<>>}

\* What is in flash has passed the validation callback, whatever the firmware
\* that wrote it.
StoredIsValid == nvs # NULL => Valid(nvs)

TypedInv == TypedVars /\ BufferIsStored /\ StoredIsValid
=============================================================================
