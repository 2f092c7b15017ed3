------------------------------ MODULE MCDiscovery ------------------------------
(* Discovery on small instances.                                           *)
EXTENDS Discovery, TLC

CONSTANTS l1, l2

MCSymmetry == Permutations(Slots)

MCCalls == Slots \X {"nearby_search"} \X {0} \cup Slots \X {"place_photo", "place_details"} \X Places
MCKeys  == {"nearby_search"} \X Users \X {0} \cup {"place_photo", "place_details"} \X Users \X Places
MCLimit == [op \in Ops |-> IF op = "nearby_search" THEN 2 ELSE IF op = "place_photo" THEN 1 ELSE 2]
\* Nothing usable, or everything.
MCOverpass == {{[row |-> l1, complete |-> FALSE]}, [row : Local, complete : {TRUE}]}
MCTwin  == [p \in Places |-> IF p = 1 THEN l2 ELSE NoRow]

\* Everything within reach; a search whose filters leave one row, with a filter
\* that Google cannot apply or without one; and one that has seen a place.
MCAll  == [fits |-> Local, near |-> Local, open |-> Local, plain |-> TRUE, wide |-> TRUE,
           fallback |-> TRUE, seen |-> {2}]
MCQueries == {MCAll,
              [MCAll EXCEPT !.fits = {}, !.near = {l1}],
              [MCAll EXCEPT !.open = {l1}, !.plain = FALSE]}
================================================================================
