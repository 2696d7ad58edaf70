----------------------------- MODULE SettingsList ----------------------------
(***************************************************************************)
(* The list of settings and its private heap                               *)
(* (library/user_settings/user_settings_list.c), and the iterators over it *)
(* in user_settings.c, with other threads between any two steps.           *)
(*                                                                         *)
(* Settings are added by one thread at a time; the list itself takes no    *)
(* lock, so iterators run beside the add.  A failing assertion stops the   *)
(* program: the assertions of the code are guards here.                    *)
(***************************************************************************)
EXTENDS Integers, Sequences, FiniteSets

CONSTANTS
    Id, Key,      \* what distinguishes settings
    Size,         \* max_size of a setting, in units of the heap
    StructSize,   \* sizeof(struct user_setting), in the same units
    HeapSize,     \* CONFIG_USER_SETTINGS_HEAP_SIZE
    Node,         \* addresses of settings
    Iter,         \* iterator contexts, each on the stack of its caller
    NULL

ASSUME HeapAssumption ==
    /\ Size \subseteq Nat /\ StructSize \in Nat /\ HeapSize \in Nat
    /\ IsFiniteSet(Node) /\ NULL \notin Node

VARIABLES
    head, tail,   \* prv_user_settings_list
    next,         \* next[n]: list_node of the setting at n
    us,           \* us[n]: the other fields of the setting at n
    changed,      \* the settings whose has_changed_recently is set
    left,         \* units free in prv_heap
    add,          \* the add in progress: its next step and its setting
    ctx,          \* ctx[i]: struct user_settings_iter_ctx
    seen,         \* observer: what iterator i has returned since its start
    due           \* observer: what iterator i has to return before it ends

list == <<head, tail, next>>
vars == <<head, tail, next, us, changed, left, add, ctx, seen, due>>

-----------------------------------------------------------------------------
Steps == {"idle", "struct", "data", "default", "link_first", "link_next",
          "head", "tail"}
Blocks == {"struct", "data", "default"}
Setting == [id : Id, key : Key, size : Size, blocks : SUBSET Blocks]
ASSUME NullAssumption == NULL \notin Setting
Call == [step : Steps, node : Node \cup {NULL},
         id : Id \cup {NULL}, key : Key \cup {NULL}, size : Size \cup {0}]
Context == [use : {"unused", "all", "changed"},
            start : BOOLEAN, at : Node \cup {NULL}]

\* Position[k]: the k-th element from the head, NULL past the end.
Position[k \in 1..Cardinality(Node) + 1] ==
    IF k = 1 THEN head
    ELSE LET n == Position[k - 1] IN IF n = NULL THEN NULL ELSE next[n]

Order == [k \in {j \in DOMAIN Position : Position[j] # NULL} |-> Position[k]]
Listed == {Order[k] : k \in DOMAIN Order}

IsNew(id, key) == \A n \in Listed : us[n].id # id /\ us[n].key # key

-----------------------------------------------------------------------------
(* prv_user_settings_list_add *)

HeapIgnored(size) == TRUE          \* mutant: the failure is not asserted
Available(size) == size <= left    \* k_heap_aligned_alloc, K_NO_WAIT

Add(id, key, size) ==
    /\ add.step = "idle"
    /\ IsNew(id, key)
    /\ \E n \in Node :
       /\ us[n] = NULL
       /\ add' = [step |-> "struct", node |-> n,
                  id |-> id, key |-> key, size |-> size]
    /\ UNCHANGED <<list, us, changed, left, ctx, seen, due>>

\* Allocate and clear the struct.
AddStruct ==
    /\ add.step = "struct"
    /\ Available(StructSize)
    /\ us' = [us EXCEPT ![add.node] =
                [id |-> add.id, key |-> add.key, size |-> add.size,
                 blocks |-> {"struct"}]]
    /\ next' = [next EXCEPT ![add.node] = NULL]
    /\ changed' = changed \ {add.node}
    /\ left' = left - StructSize
    /\ add' = [add EXCEPT !.step = "data"]
    /\ UNCHANGED <<head, tail, ctx, seen, due>>

FirstStep == IF head = NULL THEN "link_first" ELSE "link_next"

\* Mutant: the setting is appended before its default has a buffer.
LinkEarly(b) == FirstStep
AfterBlock(b) == IF b = "data" THEN "default" ELSE FirstStep

\* Allocate one of the two buffers.
AddBlock(b) ==
    /\ add.step = b
    /\ Available(add.size)
    /\ us' = [us EXCEPT ![add.node].blocks = @ \cup {b}]
    /\ left' = left - add.size
    /\ add' = [add EXCEPT !.step = AfterBlock(b)]
    /\ UNCHANGED <<list, changed, ctx, seen, due>>

\* sys_slist_append: on an empty list the tail, then the head; otherwise the
\* last element, then the tail.
LinkFirst ==
    /\ add.step = "link_first"
    /\ tail' = add.node
    /\ add' = [add EXCEPT !.step = "head"]
    /\ UNCHANGED <<head, next, us, changed, left, ctx, seen, due>>

SetHead ==
    /\ add.step = "head"
    /\ head' = add.node
    /\ add' = [add EXCEPT !.step = "idle"]
    /\ UNCHANGED <<tail, next, us, changed, left, ctx, seen, due>>

AtHead == head   \* mutant: the new element goes behind the first one
Last == tail

LinkNext ==
    /\ add.step = "link_next"
    /\ next' = [next EXCEPT ![Last] = add.node]
    /\ add' = [add EXCEPT !.step = "tail"]
    /\ UNCHANGED <<head, tail, us, changed, left, ctx, seen, due>>

SetTail ==
    /\ add.step = "tail"
    /\ tail' = add.node
    /\ add' = [add EXCEPT !.step = "idle"]
    /\ UNCHANGED <<head, next, us, changed, left, ctx, seen, due>>

-----------------------------------------------------------------------------
(* Iterators *)

Flag(n, on) ==
    /\ n \in Listed
    /\ changed' = IF on THEN changed \cup {n} ELSE changed \ {n}
    /\ due' = [i \in Iter |-> IF ctx[i].use = "changed" /\ ~on
                              THEN due[i] \ {n} ELSE due[i]]
    /\ UNCHANGED <<list, us, left, add, ctx, seen>>

\* use tells which of the two next functions the caller will loop over.
IterStart(i, use) ==
    /\ ctx' = [ctx EXCEPT ![i] = [use |-> use, start |-> TRUE, at |-> NULL]]
    /\ seen' = [seen EXCEPT ![i] = <<>>]
    /\ due' = [due EXCEPT ![i] =
                 IF use = "all" THEN Listed ELSE Listed \cap changed]
    /\ UNCHANGED <<list, us, changed, left, add>>

Ended(i) == ~ctx[i].start /\ ctx[i].at = NULL

\* The element user_settings_list_iter_next goes to.
AgainFromHead(c) == IF c.at = NULL THEN head ELSE next[c.at]   \* mutant
Following(c) ==
    IF c.start /\ c.at = NULL THEN head
    ELSE IF c.at = NULL THEN NULL ELSE next[c.at]

\* user_settings_iter_next returns every element, user_settings_iter_next_
\* changed goes on to one whose flag is set.
FlaggedOrFirst(i, n) == ctx[i].use = "all" \/ ctx[i].start   \* mutant
Returned(i, n) == ctx[i].use = "all" \/ n \in changed

IterNext(i) ==
    /\ ctx[i].use # "unused"
    /\ LET n == Following(ctx[i]) IN
       /\ ctx' = [ctx EXCEPT ![i].start = FALSE, ![i].at = n]
       /\ seen' = IF n # NULL /\ Returned(i, n)
                  THEN [seen EXCEPT ![i] = Append(@, n)] ELSE seen
    /\ UNCHANGED <<list, us, changed, left, add, due>>

-----------------------------------------------------------------------------
(* user_settings_list_free, at a teardown: nobody iterates any more.  The  *)
(* loop reads the next pointer of a block it has just given back, which    *)
(* k_heap_free leaves intact.                                              *)

NotDefault(n) == us[n].blocks \ {"default"}   \* mutant: a block is forgotten
Freed(n) == us[n].blocks

BlockUnits(n, b) ==
    IF b \notin Freed(n) THEN 0 ELSE IF b = "struct" THEN StructSize ELSE us[n].size
Units(n) == BlockUnits(n, "struct") + BlockUnits(n, "data") + BlockUnits(n, "default")

\* GivenBack[k]: the units of the first k settings of the list.
GivenBack[k \in 0..Len(Order)] ==
    IF k = 0 THEN 0 ELSE GivenBack[k - 1] + Units(Order[k])

Free ==
    /\ add.step = "idle"
    /\ \A i \in Iter : ctx[i].use = "unused" \/ Ended(i)
    /\ left' = left + GivenBack[Len(Order)]
    /\ us' = [n \in Node |-> NULL]
    /\ head' = NULL /\ tail' = NULL
    /\ ctx' = [i \in Iter |-> [use |-> "unused", start |-> FALSE, at |-> NULL]]
    /\ seen' = [i \in Iter |-> <<>>]
    /\ due' = [i \in Iter |-> {}]
    /\ UNCHANGED <<next, changed, add>>

-----------------------------------------------------------------------------
Init ==
    /\ head = NULL /\ tail = NULL
    /\ next = [n \in Node |-> NULL]
    /\ us = [n \in Node |-> NULL]
    /\ changed = {}
    /\ left = HeapSize
    /\ add = [step |-> "idle", node |-> NULL,
              id |-> NULL, key |-> NULL, size |-> 0]
    /\ ctx = [i \in Iter |-> [use |-> "unused", start |-> FALSE, at |-> NULL]]
    /\ seen = [i \in Iter |-> <<>>]
    /\ due = [i \in Iter |-> {}]

Next ==
    \/ \E id \in Id, key \in Key, size \in Size : Add(id, key, size)
    \/ AddStruct
    \/ \E b \in {"data", "default"} : AddBlock(b)
    \/ LinkFirst \/ SetHead \/ LinkNext \/ SetTail
    \/ \E n \in Node, on \in BOOLEAN : Flag(n, on)
    \/ \E i \in Iter, use \in {"all", "changed"} : IterStart(i, use)
    \/ \E i \in Iter : IterNext(i)
    \/ Free

Spec == Init /\ [][Next]_vars

-----------------------------------------------------------------------------
(* Properties *)

\* Every variable holds a value of its type, and the heap gives no more than
\* it has.
TypeOK ==
    /\ head \in Node \cup {NULL} /\ tail \in Node \cup {NULL}
    /\ next \in [Node -> Node \cup {NULL}]
    /\ us \in [Node -> Setting \cup {NULL}]
    /\ changed \subseteq Node
    /\ left \in 0..HeapSize
    /\ add \in Call
    /\ ctx \in [Iter -> Context]
    /\ seen \in [Iter -> Seq(Node)] /\ due \in [Iter -> SUBSET Node]

\* No two settings of the list share an id or a key, and every listed setting
\* has its two buffers, whatever the step the add is at: a reader that finds a
\* setting may use it.
ListedAreWhole ==
    \A n, m \in Listed :
        /\ us[n].blocks = Blocks
        /\ n # m => us[n].id # us[m].id /\ us[n].key # us[m].key

\* An iterator over all settings returns them in the order of the adds, each
\* once, and when it has ended it has returned all that were in the list when
\* it started, also when settings are added under way.
IterationIsComplete ==
    \A i \in Iter : ctx[i].use = "all" =>
        /\ Len(seen[i]) <= Len(Order)
        /\ \A k \in DOMAIN seen[i] : seen[i][k] = Order[k]
        /\ Ended(i) => \A n \in due[i] : \E k \in DOMAIN seen[i] : seen[i][k] = n

\* An iterator over the changed settings that has ended has returned each
\* setting that was listed and changed when it started and has been ever
\* since, and none twice, while other threads set and clear flags.
ChangedAreReturned ==
    \A i \in Iter : ctx[i].use = "changed" =>
        /\ \A j, k \in DOMAIN seen[i] : j # k => seen[i][j] # seen[i][k]
        /\ Ended(i) => \A n \in due[i] : \E k \in DOMAIN seen[i] : seen[i][k] = n

\* When the list is empty and no add is under way the heap has all its units:
\* list_free gives back every block of every setting.
NothingLeaks == head = NULL /\ add.step = "idle" => left = HeapSize

\* The iterators and the list as SettingsRegistry sees them.
PositionOf(i) ==
    IF ctx[i].use = "unused" THEN [state |-> "unused", pos |-> 0]
    ELSE IF ctx[i].start THEN [state |-> "started", pos |-> 0]
    ELSE IF Ended(i) THEN [state |-> "ended", pos |-> 0]
    ELSE [state |-> "within",
          pos |-> CHOOSE k \in DOMAIN Order : Order[k] = ctx[i].at]

Registry == INSTANCE SettingsRegistry WITH
    settings <- [k \in DOMAIN Order |->
                   [id |-> us[Order[k]].id, key |-> us[Order[k]].key]],
    iter <- [i \in Iter |-> PositionOf(i)]

\* The pointers implement the registry: every step of the code is a step of
\* the sequence and its iterators, or invisible.
ImplementsRegistry == Registry!Spec
=============================================================================
