------------------------------ MODULE MCCatalogue ------------------------------
(* Catalogue on small instances.                                           *)
EXTENDS Catalogue, TLC

MCSymmetry == Permutations(Tabs) \cup Permutations(PhotoKeys)
MCOpen(d, t, e, u) == Window([day |-> d, time |-> t], [day |-> e, time |-> u])

\* A lunch, an evening beyond midnight, a night into the next week, days on end; and
\* a window that ends before it begins.
MCHours == {{MCOpen(1, 0, 1, 1), MCOpen(1, 1, 2, 1), MCOpen(6, 1, 0, 1), MCOpen(3, 0, 5, 1)},
            {MCOpen(4, 1, 4, 0)}}

MCUser == [p \in Phones |-> "u1"]
================================================================================
