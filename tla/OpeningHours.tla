----------------------------- MODULE OpeningHours -----------------------------
(***************************************************************************)
(* Whether a restaurant is open (utils/places.py): a period lasts from a   *)
(* point of the week to another one, or for ever.  Days count from Sunday, *)
(* and time within a day from 0; the number of instants of a day is a      *)
(* parameter, 1440 minutes in the code.                                    *)
(***************************************************************************)
EXTENDS Integers

CONSTANT Instants

ASSUME HoursAssumption == Instants \in Nat \ {0}

Days   == 0..6
Times  == 0..(Instants - 1)
Points == [day : Days, time : Times]

Always == [from |-> [day |-> 0, time |-> 0]]
Window(open, close) == [from |-> open, to |-> close]

\* OpeningPeriod: a window may not end where it begins, but it may end before it
\* begins on the same day.
Windows == {Window(p[1], p[2]) : p \in {p \in Points \X Points : p[1] # p[2]}}

\* The loop of _day_is_between: the days from the one after start, up to end.
DayIsBetween(day, start, end) ==
    \E n \in Days : /\ n # 0 /\ (start + n) % 7 = day
                    /\ \A m \in Days : m \in 1..n => (start + m) % 7 # end

\* Mutant: the days in between are forgotten.
CoversTwoDays(p, now) ==
    LET open == p.from  close == p.to IN
    IF open.day = close.day /\ open.time <= close.time
    THEN now.day = open.day /\ open.time <= now.time /\ now.time < close.time
    ELSE IF now.day = open.day THEN now.time >= open.time
         ELSE now.day = close.day /\ now.time < close.time

\* _period_covers, for a period that closes.
Covers(p, now) ==
    LET open == p.from  close == p.to IN
    IF open.day = close.day /\ open.time <= close.time
    THEN now.day = open.day /\ open.time <= now.time /\ now.time < close.time
    ELSE IF now.day = open.day THEN now.time >= open.time
         ELSE IF now.day = close.day THEN now.time < close.time
              ELSE DayIsBetween(now.day, open.day, close.day)

\* is_open_at: no hours are taken for open hours.
IsOpenAt(periods, now) ==
    \/ periods = {}
    \/ \E p \in periods : p = Always \/ Covers(p, now)
--------------------------------------------------------------------------------
(* What a period means.                                                    *)

Week     == 7 * Instants
At(p)    == p.day * Instants + p.time
\* How long after a an instant b next comes.
After(a, b) == IF At(a) <= At(b) THEN At(b) - At(a) ELSE At(b) - At(a) + Week

Means(p, now) == After(p.from, now) < After(p.from, p.to)

\* A window that ends before it begins on its day lasts for almost a week. In the
\* hours of that day before it ends the code takes it for closed.
EndsBeforeItBegins(p) == p.from.day = p.to.day /\ p.to.time < p.from.time
Misread(p, now) == EndsBeforeItBegins(p) /\ now.day = p.to.day /\ now.time < p.to.time

\* Of any one window the code answers what the window means, but for those hours.
WindowRight(p, now) == Covers(p, now) <=> Means(p, now) /\ ~ Misread(p, now)
================================================================================
