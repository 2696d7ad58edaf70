------------------------- MODULE MCSettingsProtocol -------------------------
(* A small instance of SettingsProtocol for TLC: bytes are 0..15. *)
EXTENDS SettingsProtocolInv

One == <<7>>
Other == <<0>>            \* a value that is all NUL bytes
Long == [i \in 1..15 |-> 9]
Values == {One, Other, Long}

\* Setting 2 has the longest value one length byte can tell.
TheInfo == <<[id |-> 1, key |-> <<11>>, type |-> 1, max |-> 1],
             [id |-> 18, key |-> <<12, 13>>, type |-> 10, max |-> 15]>>
TheFits == <<{One, Other}, {One, Long}>>
TheAccepted == <<{Other}, {One, Long}>>

Q(type, ids, value) == [type |-> type, ids |-> ids, value |-> value]
SmallRequests ==
    {Q(USPC_GET, <<18>>, <<>>), Q(USPC_GET_FULL, <<1>>, <<>>),
     Q(USPC_GET, <<2>>, <<>>), Q(USPC_LIST, <<>>, <<>>),
     Q(USPC_LIST_FULL, <<>>, <<>>), Q(USPC_SET, <<1>>, Other),
     Q(USPC_SET, <<18>>, Long), Q(USPC_SET, <<17>>, One),
     Q(USPC_SET, <<1>>, Long), Q(USPC_SET, <<1>>, One),
     Q(USPC_SET_DEFAULT, <<1>>, Other),
     Q(USPC_RESTORE, <<>>, <<>>), Q(USPC_LIST_SOME, <<>>, <<>>),
     Q(USPC_LIST_SOME, <<18, 1, 18, 1, 18, 1, 18>>, <<>>),
     Q(USPC_LIST_SOME_FULL, <<1, 3, 18>>, <<>>)}
\* With 16 values of a byte, 8 ids are more than a length can count, and 9 more
\* than a command can hold (128 and 129 of 256).
LongLists == {Q(USPC_LIST_SOME, [i \in 1..n |-> IF i = 2 THEN 1 ELSE 18], <<>>) :
                  n \in {8, 9}}
TheRequests == SmallRequests \cup LongLists
TheMalformed == {<<>>, <<0>>, <<10>>, <<USPC_GET, 1>>, <<USPC_GET, 1, 0, 0>>,
                 <<USPC_SET, 1, 0, 1>>, <<USPC_LIST_SOME>>,
                 <<USPC_LIST_SOME_FULL, 2, 1, 0>>}
=============================================================================
