---------------------------- MODULE MCFrontEnds ----------------------------
(* Two settings for TLC: the first takes only a, the second a and b; big     *)
(* fits neither.                                                             *)
EXTENDS FrontEndsInv

CONSTANTS a, b, big

TheFits == [s \in Settings |-> {a, b}]
TheAccepted == <<{a}, {a, b}>>

Good(s, v) == [key |-> s, kind |-> "right_type", v |-> v]
Wrong(s) == [key |-> s, kind |-> "other_type", v |-> a]
Broken == [key |-> 2, kind |-> "invalid", v |-> a]
TheImports ==
    {<<None, FALSE>>,
     <<<<Good(2, b), Wrong(1), Good(1, b), Good(Unknown, a), Broken, Good(2, a)>>, TRUE>>,
     <<<<Good(1, a), Good(2, big), Good(2, b)>>, FALSE>>}
AllCommands == Keyed \cup Listing \cup Looping
=============================================================================
