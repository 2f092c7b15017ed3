------------------------------ MODULE GoogleQuota ------------------------------
(***************************************************************************)
(* Paid calls to Google (services/quota_service.py): a call is throttled   *)
(* per account in Redis, then reserved in a row of external_api_usage that *)
(* counts the calls of one operation and one Pacific month, and only then  *)
(* sent.  Reservations commit in a transaction of their own and are never  *)
(* given back.                                                             *)
(***************************************************************************)
EXTENDS Integers

CONSTANTS
    Calls,      \* places a call of some request may occupy
    Keys,       \* what a cooldown is kept for: operation, account and resource
    Limit,      \* the hard limit of every operation
    MaxMonth    \* bound on the months that pass

Ops == {"nearby_search", "place_photo", "place_details"}

ASSUME QuotaAssumption == Limit \in [Ops -> Int] /\ MaxMonth \in Nat

VARIABLES
    month,      \* the Pacific month
    count,      \* count[m][op]: the row of external_api_usage, 0 where there is none
    cooling,    \* cooldown keys that live in Redis
    call,       \* the calls under way
    sent        \* the reservations under which Google was called

quotaVars == <<month, count, cooling, call, sent>>

Refusals == {"rate_limited", "hard_limit", "unavailable"}
Ended    == Refusals \cup {"answered", "failed"}

Months   == 0..MaxMonth
Ticket(r) == [op |-> r.op, month |-> r.month, number |-> r.number]

NoCall == [stage |-> "idle", op |-> "nearby_search", keys |-> {}, month |-> 0, number |-> 0]

\* Where a call stands; its operation, its cooldown and its reservation.
At(c, stage) == [stage |-> stage, op |-> call[c].op, keys |-> call[c].keys,
                 month |-> call[c].month, number |-> call[c].number]

QuotaInit ==
    /\ month = 0
    /\ count = [m \in Months |-> [op \in Ops |-> 0]]
    /\ cooling = {}
    /\ call = [c \in Calls |-> NoCall]
    /\ sent = {}
--------------------------------------------------------------------------------
MayReserveNone(op) == Limit[op] <= 0

\* GoogleQuotaService.reserve, up to its first await.
Reserving(op, k) ==
    [stage |-> IF MayReserveNone(op) THEN "hard_limit" ELSE "asked",
     op |-> op, keys |-> {k}, month |-> 0, number |-> 0]

\* SET NX EX of the cooldown. When Redis fails the key may be set all the same.
Throttle(c) ==
    /\ call[c].stage = "asked"
    /\ \/ /\ call[c].keys \cap cooling = {}
          /\ cooling' = cooling \cup call[c].keys
          /\ call' = [call EXCEPT ![c] = At(c, "throttled")]
       \/ /\ call[c].keys \cap cooling # {}
          /\ call' = [call EXCEPT ![c] = At(c, "rate_limited")]
          /\ UNCHANGED cooling
       \/ /\ cooling' \in {cooling, cooling \cup call[c].keys}
          /\ call' = [call EXCEPT ![c] = At(c, "unavailable")]
    /\ UNCHANGED <<month, count, sent>>

\* Mutant: the limit is compared as if it were the number of the next call.
HasRoomForOneMore(op) == count[month][op] = 0 \/ count[month][op] <= Limit[op]

\* The upsert: the first reservation of a month inserts 1 without looking at the
\* limit, every other one adds 1 where the row is below it.
HasRoom(op) == count[month][op] = 0 \/ count[month][op] < Limit[op]

OneMore(op) == [count EXCEPT ![month] = [count[month] EXCEPT ![op] = count[month][op] + 1]]

ReserveMonthly(c) ==
    LET op == call[c].op IN
    /\ call[c].stage = "throttled"
    /\ \/ /\ HasRoom(op)
          /\ count' = OneMore(op)
          /\ call' = [call EXCEPT ![c] =
                         [stage |-> "paid", op |-> op, keys |-> call[c].keys,
                          month |-> month, number |-> count[month][op] + 1]]
       \/ /\ ~ HasRoom(op)
          /\ call' = [call EXCEPT ![c] = At(c, "hard_limit")]
          /\ UNCHANGED count
       \* PostgreSQL fails, perhaps after the commit: the call is not sent.
       \/ /\ count' = count \/ (HasRoom(op) /\ count' = OneMore(op))
          /\ call' = [call EXCEPT ![c] = At(c, "unavailable")]
    /\ UNCHANGED <<month, cooling, sent>>

\* The HTTP request leaves, and later it is answered or fails; no retry, no refund.
Send(c) ==
    /\ call[c].stage = "paid"
    /\ sent' = sent \cup {Ticket(call[c])}
    /\ call' = [call EXCEPT ![c] = At(c, "sent")]
    /\ UNCHANGED <<month, count, cooling>>

Answer(c) ==
    /\ call[c].stage = "sent"
    /\ \E outcome \in {"answered", "failed"} : call' = [call EXCEPT ![c] = At(c, outcome)]
    /\ UNCHANGED <<month, count, cooling, sent>>

\* What the requests do with their calls: they start some, in one instant or one
\* by one, and drop others, because they are done with them or because they died.
Openings == {Reserving(op, k) : op \in Ops, k \in Keys}

Start(new) ==
    /\ call' = [c \in Calls |-> IF c \in DOMAIN new THEN new[c] ELSE call[c]]
    /\ UNCHANGED <<month, count, cooling, sent>>

Drop(done) ==
    /\ call' = [c \in Calls |-> IF c \in done THEN NoCall ELSE call[c]]
    /\ UNCHANGED <<month, count, cooling, sent>>

Requesting ==
    /\ call' = [c \in Calls |-> call'[c]]
    /\ \A c \in Calls : \/ call'[c] \in {call[c], NoCall}
                        \/ call[c].stage = "idle" /\ call'[c] \in Openings
    /\ UNCHANGED <<month, count, cooling, sent>>

CooldownEnds ==
    /\ \E k \in cooling : cooling' = cooling \ {k}
    /\ UNCHANGED <<month, count, call, sent>>

MonthTurns ==
    /\ month < MaxMonth
    /\ month' = month + 1
    /\ UNCHANGED <<count, cooling, call, sent>>

Calling(c) == Throttle(c) \/ ReserveMonthly(c) \/ Send(c) \/ Answer(c)

QuotaNext == (\E c \in Calls : Calling(c)) \/ Requesting \/ CooldownEnds \/ MonthTurns

QuotaSpec == QuotaInit /\ [][QuotaNext]_quotaVars
--------------------------------------------------------------------------------
(* Properties.                                                             *)

\* A month's calls of one operation go out under different numbers from 1 to the
\* hard limit, whatever races, fails or dies: Google never bills more than the
\* limit for the reservations of one month, and nothing at all for an operation
\* whose limit is 0 (reserve: "Reserve one billable call before sending it").
WithinLimit ==
    \A t \in sent : t.number \in 1..count[t.month][t.op] /\ t.number <= Limit[t.op]

\* No reservation pays for two calls: not for two requests that reserved at the same
\* moment, nor for a second attempt of one whose answer never came.
PaidOnce ==
    [][\A c \in Calls : call[c].stage # "sent" /\ call'[c].stage = "sent"
          => Ticket(call[c]) \notin sent]_quotaVars
================================================================================
