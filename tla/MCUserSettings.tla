--------------------------- MODULE MCUserSettings ---------------------------
(* Small instances of UserSettings for TLC. *)
EXTENDS UserSettingsStore, TLC, FiniteSets

CONSTANTS a, b,   \* two values that fit every setting
          big     \* a value longer than max_size

MCFits == [s \in 1..N |-> {a, b} \cap Value]
OneValue == {a}
TwoValues == {a, b}
AllValues == {a, b, big}
NonEmpty == Value
WithEmpty == Value \cup {Empty}

\* The validation callbacks: none, and one that takes only a.
NoValidator == {}
OnlyA == {Payload, {a}}

AllCalls == {"set", "set_default", "restore", "restore_all", "mark", "clear",
             "clear_all", "reload", "callback", "validator"}
NoReload == AllCalls \ {"reload"}
NoHooks == AllCalls \ {"callback", "validator"}
LoopCalls == {"set", "set_default", "restore_all", "clear_all", "validator"}
FreeCalls == NoReload \ {"validator"}
Stores == {"set", "set_default", "mark", "clear", "clear_all", "reload",
           "validator"}

NoFaults == {}
CrashOnly == {"crash"}
SaveOnly == {"save"}
AllFaults == {"crash", "save", "load"}
Symmetry == Permutations(Threads)
=============================================================================
