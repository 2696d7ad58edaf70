--------------------------- MODULE SettingsListInv ---------------------------
(***************************************************************************)
(* The inductive invariant behind the properties of SettingsList.          *)
(***************************************************************************)
EXTENDS SettingsList

\* The next pointers lead from the head through q, without a repetition, to NULL.
Chain(q) ==
    /\ \A j, k \in DOMAIN q : q[j] = q[k] => j = k
    /\ head = IF q = <<>> THEN NULL ELSE q[1]
    /\ \A k \in DOMAIN q : next[q[k]] = IF k = Len(q) THEN NULL ELSE q[k + 1]

End(q) == q[Len(q)]

-----------------------------------------------------------------------------
(* The add under way *)

Allocated == {"data", "default", "link_first", "link_next", "head", "tail"}

\* The blocks the new setting has at each step.
BlocksAt(step) == CASE step = "data" -> {"struct"}
                    [] step = "default" -> {"struct", "data"}
                    [] OTHER -> Blocks

\* The new setting is the one of the call, and not in the list before its link.
Adding ==
    /\ add.step # "idle" =>
         add.node \in Node /\ add.id \in Id /\ add.key \in Key /\ add.size \in Size
    /\ add.step = "struct" => us[add.node] = NULL
    /\ add.step \in Allocated =>
         us[add.node] = [id |-> add.id, key |-> add.key, size |-> add.size,
                         blocks |-> BlocksAt(add.step)]
    /\ add.step \in Allocated \ {"tail"} =>
         add.node \notin Listed /\ next[add.node] = NULL
    /\ add.step \notin {"idle", "tail"} => IsNew(add.id, add.key)

\* Where the pointers of the list are at each step of the append.
Linked ==
    /\ Order \in Seq(Node) /\ Chain(Order)
    /\ add.step \in {"link_first", "head"} => Order = <<>>
    /\ add.step \in {"link_next", "tail"} => Order # <<>>
    /\ add.step = "head" => tail = add.node
    /\ add.step = "tail" =>
         Len(Order) > 1 /\ End(Order) = add.node /\ tail = Order[Len(Order) - 1]
    /\ add.step \notin {"head", "tail"} /\ Order # <<>> => tail = End(Order)

\* What has memory is the list and the setting that is added.
Owned ==
    \A n \in Node : us[n] # NULL <=>
        n \in Listed \/ (add.step \in Allocated /\ n = add.node)

-----------------------------------------------------------------------------
(* The heap *)

\* The units of the setting that is added, while it is not in the list.
Pending == CASE add.step = "data" -> StructSize
             [] add.step = "default" -> StructSize + add.size
             [] add.step \in {"link_first", "link_next", "head"} ->
                    StructSize + 2 * add.size
             [] OTHER -> 0

Balance == left + Pending + GivenBack[Len(Order)] = HeapSize

-----------------------------------------------------------------------------
(* The iterators *)

\* An iterator over all settings has returned the list up to where it is, one
\* over the changed settings those of them with a flag, and what it still has to
\* return is ahead and flagged.
Upto(i, p) ==
    /\ ctx[i].use = "all" =>
         /\ Len(seen[i]) = p /\ \A k \in 1..p : seen[i][k] = Order[k]
         /\ due[i] \subseteq Listed
    /\ ctx[i].use = "changed" =>
         /\ \A j, k \in DOMAIN seen[i] : j # k => seen[i][j] # seen[i][k]
         /\ \A k \in DOMAIN seen[i] : \E j \in 1..p : seen[i][k] = Order[j]
         /\ due[i] \subseteq Listed \cap changed
         /\ \A j \in 1..p : Order[j] \in due[i] =>
                \E k \in DOMAIN seen[i] : seen[i][k] = Order[j]

\* p settings are behind the iterator.  An ended one was at the end of the list
\* when it ended; settings may have been added since.
IsAt(i, p) ==
    /\ Upto(i, p)
    /\ ctx[i].start => p = 0 /\ ctx[i].at = NULL
    /\ ~ctx[i].start =>
         IF ctx[i].at = NULL THEN \A n \in due[i] : \E k \in 1..p : n = Order[k]
                             ELSE p > 0 /\ ctx[i].at = Order[p]

Iterating ==
    \A i \in Iter : ctx[i].use # "unused" => \E p \in 0..Len(Order) : IsAt(i, p)

ListInv == Adding /\ Linked /\ ListedAreWhole /\ Owned /\ Balance /\ Iterating
=============================================================================
