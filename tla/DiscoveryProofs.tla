---------------------------- MODULE DiscoveryProofs ----------------------------
(***************************************************************************)
(* Discovery for any number of requests, restaurants, places and failures: *)
(* it spends money as GoogleQuota allows, one request fills the cell of    *)
(* the cache, starts do not deadlock, sessions have whole decks, and what  *)
(* is dealt is neither hidden nor known.                                   *)
(***************************************************************************)
EXTENDS Discovery, FiniteSetTheorems, WellFoundedInduction, TLAPS
--------------------------------------------------------------------------------
(* The quota by itself: whatever callers do, Google is never called beyond *)
(* the hard limit, and no reservation pays for two calls.                  *)

Stages  == {"idle", "asked", "throttled", "paid", "sent"} \cup Ended
Tickets == [op : Ops, month : Months, number : Nat]
Records == [stage : Stages, op : Ops, keys : SUBSET Keys, month : Months, number : Nat]

\* The shape of the state.
QuotaTypeOK ==
    /\ month \in Months
    /\ count \in [Months -> [Ops -> Nat]]
    /\ call \in [Calls -> Records]
    /\ sent \subseteq Tickets

\* A counter that was started is within its limit. reserve turns an operation
\* without any budget away at once; that is what makes the first insert, which
\* does not look at the limit, right.
CountsBounded == \A m \in Months, op \in Ops : count[m][op] > 0 => count[m][op] <= Limit[op]
OnlyBudgeted  == \A c \in Calls : call[c].stage \in {"asked", "throttled"} => Limit[call[c].op] > 0

\* What was reserved and not sent yet: counted (in the counters n), unused, and
\* nobody else's.
Counted(n, t) == t.number \in 1..n[t.month][t.op]
PaidIsFree ==
    \A c \in Calls : call[c].stage = "paid" => Counted(count, Ticket(call[c])) /\ Ticket(call[c]) \notin sent
PaidApart  ==
    \A c, d \in Calls : call[c].stage = "paid" /\ call[d].stage = "paid" /\ c # d
        => Ticket(call[c]) # Ticket(call[d])
SentCounted == \A t \in sent : Counted(count, t)

QuotaIInv ==
    QuotaTypeOK /\ CountsBounded /\ OnlyBudgeted /\ PaidIsFree /\ PaidApart /\ SentCounted

\* The invariant holds before the first call.
LEMMA QuotaInitIInv == QuotaInit => QuotaIInv
<1> SUFFICES ASSUME QuotaInit PROVE QuotaIInv  OBVIOUS
<1> USE DEF QuotaInit, NoCall
<1>1. 0 \in Months  BY QuotaAssumption DEF Months
<1>2. QuotaTypeOK  BY <1>1 DEF QuotaTypeOK, Records, Stages, Ended, Refusals, Ops, Tickets
<1>3. CountsBounded  BY DEF CountsBounded
<1>4. OnlyBudgeted /\ PaidIsFree /\ PaidApart  BY DEF OnlyBudgeted, PaidIsFree, PaidApart
<1>5. SentCounted  BY DEF SentCounted
<1> QED  BY <1>2, <1>3, <1>4, <1>5 DEF QuotaIInv

\* A step that counts nothing and reserves nothing keeps the invariant, if the calls
\* that are paid after it were paid before it and nothing new goes out.
LEMMA QuietStep ==
    ASSUME QuotaIInv, month' \in Months, UNCHANGED <<count, sent>>,
           call' \in [Calls -> Records],
           \A c \in Calls : call'[c].stage = "paid" => call'[c] = call[c],
           \A c \in Calls : call'[c].stage \in {"asked", "throttled"} => Limit[call'[c].op] > 0
    PROVE  QuotaIInv'
<1> USE DEF QuotaIInv
<1>1. QuotaTypeOK'  BY DEF QuotaTypeOK
<1>2. CountsBounded' /\ OnlyBudgeted'  BY DEF CountsBounded, OnlyBudgeted
<1>3. PaidIsFree'  BY DEF PaidIsFree, Counted, Ticket
<1>4. PaidApart'  BY DEF PaidApart, Ticket
<1>5. SentCounted'  BY DEF SentCounted, Counted
<1> QED  BY <1>1, <1>2, <1>3, <1>4, <1>5

\* Writing one call's stage keeps the calls well formed.
LEMMA StageType ==
    ASSUME QuotaTypeOK, NEW c \in Calls, NEW stage \in Stages
    PROVE  /\ At(c, stage) \in Records
           /\ [call EXCEPT ![c] = At(c, stage)] \in [Calls -> Records]
  BY DEF QuotaTypeOK, Records, At

\* One more call of an operation that has a budget and room: the counters stay
\* within their limits and none of them ever goes down.
LEMMA CountGrows ==
    ASSUME QuotaIInv, NEW op \in Ops, Limit[op] > 0, HasRoom(op), count' = OneMore(op)
    PROVE  /\ count' \in [Months -> [Ops -> Nat]]
           /\ count'[month][op] = count[month][op] + 1
           /\ \A m \in Months, o \in Ops :
                 /\ count'[m][o] \in Nat /\ count[m][o] \in Nat
                 /\ count[m][o] <= count'[m][o]
           /\ CountsBounded'
<1> DEFINE more == [count[month] EXCEPT ![op] = count[month][op] + 1]
<1> USE DEF QuotaIInv, QuotaTypeOK
<1>1. /\ count[month] \in [Ops -> Nat] /\ count[month][op] \in Nat
      /\ count' = [count EXCEPT ![month] = more]
  BY DEF OneMore
<1>2. more \in [Ops -> Nat]  BY <1>1
<1>3. count' \in [Months -> [Ops -> Nat]] /\ count'[month] = more
  <2> HIDE DEF more
  <2> QED  BY <1>1, <1>2
<1>4. count'[month][op] = count[month][op] + 1  BY <1>1, <1>3
<1>5. ASSUME NEW m \in Months, NEW o \in Ops
      PROVE  /\ count'[m][o] \in Nat /\ count[m][o] \in Nat
             /\ count[m][o] <= count'[m][o]
             /\ count'[m][o] # count[m][o] => m = month /\ o = op
  <2>1. CASE m = month /\ o = op  BY <2>1, <1>1, <1>3, <1>4
  <2>2. CASE m = month /\ o # op  BY <2>2, <1>1, <1>3
  <2>3. CASE m # month  BY <2>3, <1>1
  <2> QED  BY <2>1, <2>2, <2>3
<1>6. count'[month][op] <= Limit[op]
  <2>1. Limit[op] \in Int  BY QuotaAssumption
  <2> QED  BY <1>1, <1>4, <2>1 DEF HasRoom
<1>7. CountsBounded'  BY <1>5, <1>6 DEF CountsBounded
<1> QED  BY <1>3, <1>4, <1>5, <1>7

\* What was counted stays counted.
LEMMA StillCounted ==
    ASSUME QuotaIInv, NEW op \in Ops, Limit[op] > 0, HasRoom(op), count' = OneMore(op),
           NEW t \in Tickets, Counted(count, t)
    PROVE  Counted(count', t)
<1>1. t.op \in Ops /\ t.month \in Months /\ t.number \in Nat  BY DEF Tickets
<1>2. count'[t.month][t.op] \in Nat /\ count[t.month][t.op] \in Nat
      /\ count[t.month][t.op] <= count'[t.month][t.op]  BY <1>1, CountGrows
<1> QED  BY <1>1, <1>2 DEF Counted

\* The ticket of a call is made of its reservation.
LEMMA TicketType ==
    ASSUME NEW r \in Records
    PROVE  Ticket(r) \in Tickets
  BY DEF Ticket, Tickets, Records

\* A step that counts one call, by a transaction whose commit is acknowledged to
\* nobody, takes a number that nobody will use.
LEMMA LostCommit ==
    ASSUME QuotaIInv, NEW op \in Ops, Limit[op] > 0, HasRoom(op), count' = OneMore(op),
           month' = month, sent' = sent, call' \in [Calls -> Records],
           \A c \in Calls : call'[c].stage = "paid" => call'[c] = call[c],
           \A c \in Calls : call'[c].stage \in {"asked", "throttled"} => Limit[call'[c].op] > 0
    PROVE  QuotaIInv'
<1> USE DEF QuotaIInv
<1>1. count' \in [Months -> [Ops -> Nat]] /\ CountsBounded'  BY CountGrows
<1>2. QuotaTypeOK' /\ OnlyBudgeted'  BY <1>1 DEF QuotaTypeOK, OnlyBudgeted
<1>3. \A t \in Tickets : Counted(count, t) => Counted(count', t)  BY StillCounted
<1>4. \A c \in Calls : Ticket(call[c]) \in Tickets  BY TicketType DEF QuotaTypeOK
<1>5. PaidIsFree' /\ PaidApart'  BY <1>3, <1>4 DEF PaidIsFree, PaidApart
<1>6. SentCounted'  BY <1>3 DEF SentCounted, QuotaTypeOK
<1> QED  BY <1>1, <1>2, <1>5, <1>6

\* A reservation that commits takes a number nobody has.
LEMMA PaidStep ==
    ASSUME QuotaIInv, NEW c \in Calls, NEW op \in Ops, Limit[op] > 0, HasRoom(op),
           count' = OneMore(op), month' = month, sent' = sent, NEW r \in Records,
           r.stage = "paid", r.op = op, r.month = month, r.number = count[month][op] + 1,
           call' = [call EXCEPT ![c] = r]
    PROVE  QuotaIInv'
<1> DEFINE n == count[month][op]
<1> USE DEF QuotaIInv
<1>1. n \in Nat /\ month \in Months /\ call \in [Calls -> Records] /\ sent \subseteq Tickets
  BY DEF QuotaTypeOK
<1>2. /\ call' \in [Calls -> Records] /\ call'[c] = r
      /\ \A d \in Calls : d # c => call'[d] = call[d]
  BY <1>1
<1>3. count' \in [Months -> [Ops -> Nat]] /\ CountsBounded' /\ count'[month][op] = n + 1
  BY CountGrows
<1>4. QuotaTypeOK'  BY <1>1, <1>2, <1>3 DEF QuotaTypeOK
<1>5. OnlyBudgeted'  BY <1>2 DEF OnlyBudgeted
<1>6. /\ Ticket(r).op = op /\ Ticket(r).month = month /\ Ticket(r).number = n + 1
  BY DEF Ticket
<1>7. \A t \in Tickets : Counted(count, t) => t # Ticket(r)
  BY <1>1, <1>6 DEF Counted
<1>8. \A t \in Tickets : Counted(count, t) => Counted(count', t)  BY StillCounted
<1>9. Counted(count', Ticket(r))  BY <1>1, <1>3, <1>6 DEF Counted
<1>10. \A d \in Calls : call[d].stage = "paid" =>
          /\ Ticket(call[d]) \in Tickets /\ Counted(count, Ticket(call[d]))
          /\ Ticket(call[d]) \notin sent
  BY <1>1, TicketType DEF PaidIsFree
<1>11. Ticket(r) \notin sent  BY <1>1, <1>7 DEF SentCounted
<1>12. PaidIsFree'  BY <1>2, <1>8, <1>9, <1>10, <1>11 DEF PaidIsFree
<1>13. PaidApart'  BY <1>2, <1>7, <1>10 DEF PaidApart
<1>14. SentCounted'  BY <1>1, <1>8 DEF SentCounted
<1> QED  BY <1>3, <1>4, <1>5, <1>12, <1>13, <1>14

\* Every outcome of the monthly reservation keeps the invariant.
LEMMA ReserveIInv ==
    ASSUME QuotaIInv, NEW c \in Calls, ReserveMonthly(c)
    PROVE  QuotaIInv'
<1> DEFINE op == call[c].op
<1> USE DEF QuotaIInv
<1>1. /\ call \in [Calls -> Records] /\ op \in Ops /\ Limit[op] > 0
      /\ month \in Months /\ month' = month /\ sent' = sent
  BY DEF QuotaTypeOK, Records, OnlyBudgeted, ReserveMonthly
<1>2. ASSUME HasRoom(op), count' = OneMore(op),
             call' = [call EXCEPT ![c] = [stage |-> "paid", op |-> op, keys |-> call[c].keys,
                                          month |-> month, number |-> count[month][op] + 1]]
      PROVE  QuotaIInv'
  <2> DEFINE r == [stage |-> "paid", op |-> op, keys |-> call[c].keys,
                   month |-> month, number |-> count[month][op] + 1]
  <2>1. call[c].keys \in SUBSET Keys /\ count[month][op] + 1 \in Nat
    BY <1>1 DEF Records, QuotaTypeOK
  <2>2. r \in Records  BY <1>1, <2>1 DEF Records, Stages
  <2>3. /\ r.stage = "paid" /\ r.op = op /\ r.month = month
        /\ r.number = count[month][op] + 1 /\ call' = [call EXCEPT ![c] = r]
    BY <1>2
  <2> HIDE DEF r, op
  <2> QED  BY ZenonT(30), <1>1, <1>2, <2>2, <2>3, PaidStep
<1>3. ASSUME NEW stage \in {"hard_limit", "unavailable"}, call' = [call EXCEPT ![c] = At(c, stage)]
      PROVE  /\ call' \in [Calls -> Records]
             /\ \A d \in Calls : call'[d].stage = "paid" => call'[d] = call[d]
             /\ \A d \in Calls : call'[d].stage \in {"asked", "throttled"} => Limit[call'[d].op] > 0
  <2>1. call' \in [Calls -> Records] /\ call'[c].stage = stage
        /\ \A d \in Calls : d # c => call'[d] = call[d]
    BY <1>1, <1>3, StageType DEF Stages, Ended, Refusals, At
  <2> QED  BY <2>1 DEF OnlyBudgeted
<1>4. ASSUME count' = count, NEW stage \in {"hard_limit", "unavailable"},
             call' = [call EXCEPT ![c] = At(c, stage)]
      PROVE  QuotaIInv'
  BY <1>1, <1>3, <1>4, QuietStep
<1>5. ASSUME HasRoom(op), count' = OneMore(op), call' = [call EXCEPT ![c] = At(c, "unavailable")]
      PROVE  QuotaIInv'
  <2>1. "unavailable" \in {"hard_limit", "unavailable"}  OBVIOUS
  <2> HIDE DEF op
  <2> QED  BY <1>1, <1>3, <1>5, <2>1, LostCommit
<1> QED  BY <1>2, <1>4, <1>5 DEF ReserveMonthly

\* Throttling decides nothing about money.
LEMMA ThrottleIInv ==
    ASSUME QuotaIInv, NEW c \in Calls, Throttle(c)
    PROVE  QuotaIInv'
<1> USE DEF QuotaIInv
<1>1. PICK stage \in {"throttled", "rate_limited", "unavailable"} :
          call' = [call EXCEPT ![c] = At(c, stage)]
  BY DEF Throttle
<1>2. call[c].stage = "asked" /\ month' = month /\ count' = count /\ sent' = sent
  BY DEF Throttle
<1>3. call' \in [Calls -> Records] /\ call'[c] = At(c, stage)
      /\ \A d \in Calls : d # c => call'[d] = call[d]
  BY <1>1, StageType DEF Stages, Ended, Refusals, QuotaTypeOK
<1> QED  BY <1>2, <1>3, QuietStep DEF OnlyBudgeted, At, QuotaTypeOK

\* A call that leaves uses up its own reservation and nobody else's.
LEMMA SendIInv ==
    ASSUME QuotaIInv, NEW c \in Calls, Send(c)
    PROVE  QuotaIInv'
<1> USE DEF QuotaIInv
<1>1. /\ call[c].stage = "paid" /\ sent' = sent \cup {Ticket(call[c])}
      /\ call' = [call EXCEPT ![c] = At(c, "sent")] /\ month' = month /\ count' = count
  BY DEF Send
<1>2. call \in [Calls -> Records] /\ Ticket(call[c]) \in Tickets  BY TicketType DEF QuotaTypeOK
<1>3. call' \in [Calls -> Records] /\ call'[c].stage = "sent"
      /\ \A d \in Calls : d # c => call'[d] = call[d]
  BY <1>1, StageType DEF Stages, At, QuotaTypeOK
<1>4. QuotaTypeOK' /\ CountsBounded' /\ OnlyBudgeted'
  BY <1>1, <1>2, <1>3 DEF QuotaTypeOK, CountsBounded, OnlyBudgeted
<1>5. PaidIsFree'  BY <1>1, <1>3 DEF PaidIsFree, PaidApart
<1>6. PaidApart'  BY <1>3 DEF PaidApart
<1>7. SentCounted'  BY <1>1 DEF SentCounted, PaidIsFree
<1> QED  BY <1>4, <1>5, <1>6, <1>7

\* Neither does what comes back.
LEMMA AnswerIInv ==
    ASSUME QuotaIInv, NEW c \in Calls, Answer(c)
    PROVE  QuotaIInv'
<1> USE DEF QuotaIInv
<1>1. PICK stage \in {"answered", "failed"} : call' = [call EXCEPT ![c] = At(c, stage)]
  BY DEF Answer
<1>2. month' = month /\ count' = count /\ sent' = sent  BY DEF Answer
<1>3. call' \in [Calls -> Records] /\ call'[c].stage = stage
      /\ \A d \in Calls : d # c => call'[d] = call[d]
  BY <1>1, StageType DEF Stages, Ended, At, QuotaTypeOK
<1> QED  BY <1>2, <1>3, QuietStep DEF OnlyBudgeted, QuotaTypeOK

\* Requests start calls as reserve lets them, and drop them.
LEMMA RequestingIInv ==
    ASSUME QuotaIInv, Requesting
    PROVE  QuotaIInv'
<1> USE DEF QuotaIInv
<1>1. \A r \in Openings \cup {NoCall} :
          /\ r \in Records /\ r.stage # "paid"
          /\ r.stage \in {"asked", "throttled"} => Limit[r.op] > 0
  <2>1. 0 \in Months  BY QuotaAssumption DEF Months
  <2>2. \A op \in Ops : Limit[op] \in Int  BY QuotaAssumption
  <2>3. ASSUME NEW op \in Ops, NEW k \in Keys
        PROVE  /\ Reserving(op, k) \in Records /\ Reserving(op, k).stage # "paid"
               /\ Reserving(op, k).stage \in {"asked", "throttled"} => Limit[op] > 0
               /\ Reserving(op, k).op = op
    BY <2>1, <2>2 DEF Reserving, Records, Stages, Ended, Refusals, MayReserveNone
  <2>4. NoCall \in Records /\ NoCall.stage = "idle"
    BY <2>1 DEF NoCall, Records, Stages, Ops
  <2> QED  BY <2>3, <2>4 DEF Openings
<1>2. \A c \in Calls : call'[c] \in Openings \cup {NoCall} \/ call'[c] = call[c]
  BY DEF Requesting
<1>3. call' \in [Calls -> Records]
  <2>1. call' = [c \in Calls |-> call'[c]]  BY DEF Requesting
  <2>2. \A c \in Calls : call'[c] \in Records  BY <1>1, <1>2 DEF QuotaTypeOK
  <2> QED  BY <2>1, <2>2
<1>4. month' = month /\ count' = count /\ sent' = sent  BY DEF Requesting
<1> QED  BY <1>1, <1>2, <1>3, <1>4, QuietStep DEF OnlyBudgeted, QuotaTypeOK

\* The invariant is inductive.
LEMMA QuotaStep == QuotaIInv /\ [QuotaNext]_quotaVars => QuotaIInv'
<1> SUFFICES ASSUME QuotaIInv, [QuotaNext]_quotaVars PROVE QuotaIInv'  OBVIOUS
<1>1. CASE \E c \in Calls : Calling(c)
  BY <1>1, ThrottleIInv, ReserveIInv, SendIInv, AnswerIInv DEF Calling
<1>2. CASE Requesting  BY <1>2, RequestingIInv
<1>3. CASE CooldownEnds
  BY <1>3, QuietStep DEF CooldownEnds, QuotaIInv, QuotaTypeOK, OnlyBudgeted
<1>4. CASE MonthTurns
  <2>1. month' \in Months
    BY <1>4, QuotaAssumption DEF MonthTurns, QuotaIInv, QuotaTypeOK, Months
  <2> QED  BY <1>4, <2>1, QuietStep DEF MonthTurns, QuotaIInv, QuotaTypeOK, OnlyBudgeted
<1>5. CASE UNCHANGED quotaVars
  BY <1>5, QuietStep DEF quotaVars, QuotaIInv, QuotaTypeOK, OnlyBudgeted
<1> QED  BY <1>1, <1>2, <1>3, <1>4, <1>5 DEF QuotaNext

LEMMA QuotaInvariant == QuotaSpec => []QuotaIInv
<1> QED  BY QuotaInitIInv, QuotaStep, PTL DEF QuotaSpec

\* A month's calls of one operation never exceed its hard limit, however many
\* requests reserve at the same moment, in whatever month (quota_service.py).
THEOREM LimitHolds == QuotaSpec => []WithinLimit
<1>1. QuotaIInv => WithinLimit
  <2> SUFFICES ASSUME QuotaIInv, NEW t \in sent
               PROVE  t.number \in 1..count[t.month][t.op] /\ t.number <= Limit[t.op]
    BY DEF WithinLimit
  <2>1. t.op \in Ops /\ t.month \in Months /\ Counted(count, t)
    BY DEF QuotaIInv, QuotaTypeOK, Tickets, SentCounted
  <2>2. count[t.month][t.op] \in Nat /\ Limit[t.op] \in Int
    BY <2>1, QuotaAssumption DEF QuotaIInv, QuotaTypeOK
  <2>3. count[t.month][t.op] > 0 => count[t.month][t.op] <= Limit[t.op]
    BY <2>1 DEF QuotaIInv, CountsBounded
  <2> QED  BY <2>1, <2>2, <2>3 DEF Counted
<1> QED  BY <1>1, QuotaInvariant, PTL

\* Every call that leaves has a reservation of its own, which no call used before.
THEOREM EveryCallPaid == QuotaSpec => PaidOnce
<1>1. ASSUME QuotaIInv, QuotaNext, NEW c \in Calls,
             call[c].stage # "sent", call'[c].stage = "sent"
      PROVE  Ticket(call[c]) \notin sent
  <2> USE DEF QuotaIInv, QuotaTypeOK
  <2>1. \A r \in Openings \cup {NoCall} : r.stage # "sent"
    BY DEF Openings, Reserving, NoCall
  <2>2. ~ (Requesting \/ CooldownEnds \/ MonthTurns)
    BY <1>1, <2>1 DEF Requesting, CooldownEnds, MonthTurns
  <2>3. PICK d \in Calls : Calling(d)  BY <1>1, <2>2 DEF QuotaNext
  <2>4. ~ (Throttle(d) \/ ReserveMonthly(d) \/ Answer(d))
    BY <1>1, <2>3 DEF Throttle, ReserveMonthly, Answer, At
  <2>5. Send(d)  BY <2>3, <2>4 DEF Calling
  <2>6. d = c  BY <1>1, <2>5 DEF Send, At
  <2> QED  BY <1>1, <2>5, <2>6 DEF Send, PaidIsFree
<1>2. QuotaIInv /\ [QuotaNext]_quotaVars =>
        [\A c \in Calls : call[c].stage # "sent" /\ call'[c].stage = "sent"
            => Ticket(call[c]) \notin sent]_quotaVars
  BY <1>1
<1> QED  BY <1>2, QuotaInvariant, PTL DEF QuotaSpec, PaidOnce
--------------------------------------------------------------------------------
(* The requests that make the calls.                                       *)

Stations == {"idle", "search", "recover", "marker", "lock", "wait", "recheck", "fetch", "persist",
             "markready", "markerror", "release", "raise", "requery", "found", "asking", "photos",
             "insert", "commit", "details", "done"}

Requests ==
    [pc : Stations, kind : {"solo", "session", "recover"}, who : Users, query : Queries,
     within : SUBSET Local, cards : SUBSET (Local \cup Places), todo : SUBSET Places,
     kept : SUBSET Local, seen : SUBSET Local, mirror : Nat, token : BOOLEAN]

\* The shape of the state, calls apart.
DeckTypes ==
    /\ rows \subseteq Local /\ hidden \subseteq Local /\ judged \in [Users -> SUBSET Local]
    /\ live \subseteq Places /\ inserting \in [Places -> Slots \cup {NoSlot}]
    /\ decks \in [Slots -> SUBSET (Local \cup Places)]
    /\ req \in [Slots -> Requests]
    /\ marker \in {"none", "ready", "error"} /\ lock \in Slots \cup {NoSlot} /\ lapsed \subseteq Slots

\* Where a request waits for its calls; elsewhere it has none.
Awaits(c) == IF c[2] = "nearby_search" THEN "asking"
             ELSE IF c[2] = "place_photo" THEN "photos" ELSE "details"
CallsOwned == \A c \in Calls : call[c].stage # "idle" => req[c[1]].pc = Awaits(c)

\* A request takes the steps of its kind, and has a token only while it fills.
Steps(r) ==
    /\ r.kind = "recover" => r.pc \in {"recover", "details", "done"}
    /\ r.pc \in {"recover", "details"} => r.kind = "recover"
    /\ r.pc \in {"insert", "commit"} => r.kind = "session"
    /\ r.token => r.pc \in Filling

\* What a request is not to be dealt is hidden, or was judged, and it is not dealt it.
Unwanted(r, hid, jud) == r.kept \subseteq hid /\ r.seen \subseteq jud[r.who]
Clean(r) ==
    /\ r.pc = "found" => r.within \cap r.kept = {}
    /\ r.pc \in {"photos", "insert", "commit", "done"} /\ r.kind \in {"solo", "session"} =>
          \A x \in r.cards : x \notin r.kept /\ (x \in Places => Twin[x] \notin r.kept)
    /\ r.pc \in {"photos", "insert", "commit", "done"} /\ r.kind = "solo" =>
          r.cards \cap (r.seen \cup r.query.seen) = {}

\* A deck on its way into a session is whole and of one source, and what is still to
\* be inserted comes after what is inserted.
Homogeneous(C) == C \subseteq Local \/ C \subseteq Places
WholeDeck(C)   == Cardinality(C) \in MinLocal..MaxDeck
OnTheWay(r) ==
    /\ Homogeneous(r.cards)
    /\ r.pc = "persist" => r.cards \subseteq Local
    /\ r.pc \in {"photos", "insert"} => r.cards \subseteq Places
    /\ r.kind = "session" /\ r.pc \in {"photos", "insert", "commit"} => WholeDeck(r.cards)
    /\ r.kind = "session" /\ r.pc = "photos" => r.cards # {}
    /\ r.pc = "insert" => r.todo # {}

Placing(s, r, ins, liv) ==
    /\ \A p \in Places : ins[p] = s =>
          r.pc \in {"insert", "commit"} /\ \A q \in r.todo : r.pc = "insert" => p < q
    /\ r.pc = "insert" => \A p \in r.cards \ r.todo : p \in liv \/ ins[p] = s
    /\ r.pc = "commit" => \/ r.cards \subseteq Local
                          \/ \A p \in r.cards : p \in Places /\ (p \in liv \/ ins[p] = s)

\* A session's deck is stored once, and who looks one up has its cards.
Decking(s, r, dec) ==
    /\ r.kind = "session" /\ r.pc # "done" => dec[s] = {}
    /\ r.kind = "recover" => \E d \in Slots : dec[d] # {} /\ r.cards = dec[d]

SlotOK(s, r, hid, jud, ins, liv, dec) ==
    /\ Steps(r) /\ Unwanted(r, hid, jud) /\ Clean(r) /\ OnTheWay(r)
    /\ Placing(s, r, ins, liv) /\ Decking(s, r, dec)

Okay(s) == SlotOK(s, req[s], hidden, judged, inserting, live, decks)

StoredDecks ==
    \A s \in Slots : /\ decks[s] = {} \/ WholeDeck(decks[s])
                     /\ decks[s] \subseteq Local \/ decks[s] \subseteq live

DeckIInv ==
    /\ QuotaIInv /\ DeckTypes /\ CallsOwned /\ OneFiller /\ StoredDecks
    /\ \A s \in Slots : Okay(s)
--------------------------------------------------------------------------------
(* Records and sets.                                                       *)

USE DEF Stations

\* A nonempty set of numbers has a least one.
LEMMA LeastOne ==
    ASSUME NEW T \in SUBSET Nat, T # {}
    PROVE  Min(T) \in T /\ \A x \in T : Min(T) <= x
<1> DEFINE R == OpToRel(<, Nat)
<1>1. IsWellFoundedOn(R, Nat)  BY NatLessThanWellFounded
<1>2. \A x, y \in Nat : <<y, x>> \in R <=> y < x  BY DEF OpToRel
<1> HIDE DEF R
<1>3. PICK x \in T : \A y \in T : ~ (<<y, x>> \in R)  BY <1>1, WFMin
<1>4. x \in Nat /\ \A y \in T : y \in Nat /\ ~ (y < x)  BY <1>2, <1>3
<1>5. \A y \in T : x <= y  BY <1>4
<1> QED  BY <1>3, <1>5 DEF Min

\* A request that is about to begin.
LEMMA BeginOn ==
    /\ NoRequest \in Requests /\ NoRequest.pc = "idle" /\ NoRequest.kind = "solo"
    /\ NoRequest.cards = {} /\ NoRequest.todo = {} /\ NoRequest.kept = {} /\ NoRequest.seen = {}
    /\ NoRequest.token = FALSE
<1>1. (CHOOSE u \in Users : TRUE) \in Users /\ (CHOOSE q \in Queries : TRUE) \in Queries
  BY DiscoveryAssumption
<1>2. NoRequest \in Requests  BY <1>1 DEF Requests, NoRequest
<1>3. /\ NoRequest.pc = "idle" /\ NoRequest.kind = "solo" /\ NoRequest.cards = {} /\ NoRequest.todo = {}
      /\ NoRequest.kept = {} /\ NoRequest.seen = {} /\ NoRequest.token = FALSE
  BY DEF NoRequest
<1> QED  BY <1>2, <1>3
--------------------------------------------------------------------------------
(* What a step may leave to the frame.                                     *)

\* Without requests everything is in order.
LEMMA DeckInit == DiscoveryInit => DeckIInv
<1> SUFFICES ASSUME DiscoveryInit PROVE DeckIInv  OBVIOUS
<1> USE DEF DiscoveryInit
<1>1. QuotaIInv  BY QuotaInitIInv
<1>2. \A s \in Slots : req[s] = NoRequest  OBVIOUS
<1>3. DeckTypes  BY BeginOn DEF DeckTypes
<1>4. CallsOwned  BY DEF CallsOwned, QuotaInit, NoCall
<1>5. OneFiller  BY <1>2, BeginOn DEF OneFiller, Holds
<1>6. StoredDecks  BY DEF StoredDecks
<1>7. ASSUME NEW s \in Slots PROVE Okay(s)
  <2>1. \A p \in Places : inserting[p] # s  BY DiscoveryAssumption
  <2> QED
    BY <1>2, <2>1, BeginOn DEF Okay, SlotOK, Steps, Unwanted, Clean, OnTheWay, Homogeneous, Placing, Decking
<1> QED  BY <1>1, <1>3, <1>4, <1>5, <1>6, <1>7 DEF DeckIInv

\* The requests that a step does not touch stay in order, if the step takes back no
\* row, no deck and no secret of theirs.
LEMMA OthersOkay ==
    ASSUME NEW t \in Slots, Okay(t), req'[t] = req[t],
           hidden \subseteq hidden', judged' \in [Users -> SUBSET Local], req[t] \in Requests,
           \A u \in Users : judged[u] \subseteq judged'[u],
           live \subseteq live', \A p \in Places : inserting'[p] = t <=> inserting[p] = t,
           decks'[t] = decks[t], \A d \in Slots : decks[d] # {} => decks'[d] = decks[d]
    PROVE  Okay(t)'
<1> USE DEF Okay, SlotOK
<1>1. Steps(req[t]) /\ Clean(req[t]) /\ OnTheWay(req[t])  OBVIOUS
<1>2. Unwanted(req[t], hidden', judged')  BY DEF Unwanted, Requests
<1>3. Placing(t, req[t], inserting', live')  BY DEF Placing, OnTheWay
<1>4. Decking(t, req[t], decks')  BY DEF Decking
<1> QED  BY <1>1, <1>2, <1>3, <1>4

\* A step of one request that changes nobody else's: what is left to show.
LEMMA OneMoves ==
    ASSUME DeckIInv, NEW s \in Slots, NEW r \in Requests, Set(s, r),
           UNCHANGED <<hidden, judged, live, inserting, decks>>, rows' \subseteq Local,
           marker' \in {"none", "ready", "error"}, lock' \in Slots \cup {NoSlot}, lapsed' \subseteq Slots,
           SlotOK(s, r, hidden, judged, inserting, live, decks),
           QuotaIInv', CallsOwned', OneFiller'
    PROVE  DeckIInv'
<1> USE DEF DeckIInv
<1>1. req' \in [Slots -> Requests] /\ req'[s] = r /\ \A t \in Slots \ {s} : req'[t] = req[t]
  BY DEF Set, DeckTypes
<1>2. DeckTypes'  BY <1>1 DEF DeckTypes
<1>3. StoredDecks'  BY DEF StoredDecks
<1>4. Okay(s)'  BY <1>1 DEF Okay
<1>5. \A t \in Slots \ {s} : Okay(t)'  BY <1>1, OthersOkay DEF DeckTypes
<1> QED  BY <1>2, <1>3, <1>4, <1>5

\* A request without calls that starts none.
LEMMA NoCalls ==
    ASSUME DeckIInv, NEW s \in Slots, NEW r \in Requests, Set(s, r), UNCHANGED quotaVars,
           req[s].pc \notin {"asking", "photos", "details"}
    PROVE  QuotaIInv' /\ CallsOwned'
<1>1. QuotaIInv'  BY QuotaStep DEF DeckIInv
<1>2. \A c \in Calls : c[1] \in Slots
  BY CallsAssumption
<1>3. \A t \in Slots \ {s} : req'[t] = req[t]  BY DEF Set, DeckIInv, DeckTypes
<1>4. \A c \in Calls : c[1] = s => call[c].stage = "idle"
  BY DEF DeckIInv, CallsOwned, Awaits
<1> QED  BY <1>1, <1>2, <1>3, <1>4 DEF DeckIInv, CallsOwned, quotaVars

\* A request that is not filling the cell does not begin to.
LEMMA NoFilling ==
    ASSUME DeckIInv, NEW s \in Slots, NEW r \in Requests, Set(s, r), UNCHANGED osmVars,
           req[s].pc \notin Filling, r.token = req[s].token \/ r.token = FALSE
    PROVE  OneFiller' /\ r.token = FALSE
<1>1. req'[s] = r /\ \A t \in Slots \ {s} : req'[t] = req[t]  BY DEF Set, DeckIInv, DeckTypes
<1>2. r.token = FALSE  BY DEF DeckIInv, Okay, SlotOK, Steps, DeckTypes, Requests
<1> QED  BY <1>1, <1>2 DEF DeckIInv, OneFiller, Holds, osmVars

\* Starting calls, or giving the one up that has ended.
LEMMA StartsCalls ==
    ASSUME DeckIInv, NEW s \in Slots, NEW r \in Requests, Set(s, r), NEW new, Start(new),
           \A c \in Calls : c[1] = s /\ c \notin DOMAIN new => call[c].stage = "idle",
           \A c \in Calls : c \in DOMAIN new =>
              /\ c[1] = s
              /\ \/ new[c] = NoCall
                 \/ call[c].stage = "idle" /\ new[c] \in Openings /\ Awaits(c) = r.pc
    PROVE  QuotaIInv' /\ CallsOwned' /\ Requesting
<1>1. req'[s] = r /\ \A t \in Slots \ {s} : req'[t] = req[t]  BY DEF Set, DeckIInv, DeckTypes
<1>2. \A c \in Calls : c[1] \in Slots  BY CallsAssumption
<1>3. \A c \in Calls : call'[c] = IF c \in DOMAIN new THEN new[c] ELSE call[c]  BY DEF Start
<1>4. call' = [c \in Calls |-> call'[c]]  BY DEF Start
<1>5. Requesting  BY <1>3, <1>4 DEF Requesting, Start
<1>6. QuotaIInv'  BY <1>5, QuotaStep DEF QuotaNext, DeckIInv
<1>7. NoCall.stage = "idle"  BY DEF NoCall
<1>8. CallsOwned'
  <2> SUFFICES ASSUME NEW c \in Calls, call'[c].stage # "idle" PROVE req'[c[1]].pc = Awaits(c)
    BY DEF CallsOwned
  <2>1. CASE c[1] = s  BY <1>1, <1>3, <1>7, <2>1
  <2>2. CASE c[1] # s
    <3>1. c \notin DOMAIN new  BY <2>2
    <3>2. call'[c] = call[c] /\ req'[c[1]] = req[c[1]]  BY <1>1, <1>2, <1>3, <2>2, <3>1
    <3> QED  BY <3>2 DEF DeckIInv, CallsOwned
  <2> QED  BY <2>1, <2>2
<1> QED  BY <1>5, <1>6, <1>8

LEMMA DropsCalls ==
    ASSUME DeckIInv, NEW s \in Slots, NEW r \in Requests, Set(s, r), NEW done, Drop(done),
           \A c \in Calls : c[1] = s /\ c \notin done => call[c].stage = "idle"
    PROVE  QuotaIInv' /\ CallsOwned' /\ Requesting
<1>1. req'[s] = r /\ \A t \in Slots \ {s} : req'[t] = req[t]  BY DEF Set, DeckIInv, DeckTypes
<1>2. \A c \in Calls : c[1] \in Slots  BY CallsAssumption
<1>3. \A c \in Calls : call'[c] = IF c \in done THEN NoCall ELSE call[c]  BY DEF Drop
<1>4. call' = [c \in Calls |-> call'[c]]  BY DEF Drop
<1>5. Requesting  BY <1>3, <1>4 DEF Requesting, Drop
<1>6. QuotaIInv'  BY <1>5, QuotaStep DEF QuotaNext, DeckIInv
<1>7. NoCall.stage = "idle"  BY DEF NoCall
<1>8. CallsOwned'
  <2> SUFFICES ASSUME NEW c \in Calls, call'[c].stage # "idle" PROVE req'[c[1]].pc = Awaits(c)
    BY DEF CallsOwned
  <2>1. CASE c[1] = s  BY <1>1, <1>3, <1>7, <2>1
  <2>2. CASE c[1] # s
    <3>1. c \notin done  BY <1>3, <1>7
    <3>2. call'[c] = call[c] /\ req'[c[1]] = req[c[1]]  BY <1>1, <1>2, <1>3, <2>2, <3>1
    <3> QED  BY <3>2 DEF DeckIInv, CallsOwned
  <2> QED  BY <2>1, <2>2
<1> QED  BY <1>5, <1>6, <1>8

\* Where a request is in nobody's way: it places and deals nothing.
Passing == Stations \ {"idle", "recover", "photos", "insert", "commit", "details", "done"}

LEMMA PassesOn ==
    ASSUME NEW s \in Slots, NEW r \in Requests, NEW n \in Requests,
           SlotOK(s, r, hidden, judged, inserting, live, decks), r.pc \in Passing, n.pc \in Passing,
           n.kind = r.kind, n.who = r.who, n.kept = r.kept, n.seen = r.seen,
           Homogeneous(n.cards), n.pc = "persist" => n.cards \subseteq Local,
           n.token => n.pc \in Filling, n.pc = "found" => n.within \cap n.kept = {}
    PROVE  SlotOK(s, n, hidden, judged, inserting, live, decks)
<1> USE DEF SlotOK, Passing
<1>1. Steps(n) /\ Unwanted(n, hidden, judged)  BY DEF Steps, Unwanted
<1>2. Clean(n) /\ OnTheWay(n)  BY DEF Clean, OnTheWay
<1>3. Placing(s, n, inserting, live)  BY DEF Placing
<1>4. Decking(s, n, decks)  BY DEF Decking, Steps
<1> QED  BY <1>1, <1>2, <1>3, <1>4

\* The quota's view of a step that leaves money alone.
LEMMA NoMoney == UNCHANGED quotaVars => [QuotaNext]_quotaVars
  OBVIOUS
--------------------------------------------------------------------------------
(* Requests.                                                               *)

LEMMA BeginSafe ==
    ASSUME DeckIInv, NEW s \in Slots, Begin(s)
    PROVE  DeckIInv' /\ [QuotaNext]_quotaVars
<1>1. /\ UNCHANGED <<quotaVars, osmVars, rows, hidden, judged, live, inserting, decks>>
      /\ req[s].pc = "idle"
  BY DEF Begin
<1>2. DeckTypes /\ Okay(s) /\ \A p \in Places : inserting[p] # s
  BY <1>1 DEF DeckIInv, Okay, SlotOK, Placing
<1>3. ASSUME NEW r \in Requests, Set(s, r), r.token = FALSE,
             SlotOK(s, r, hidden, judged, inserting, live, decks)
      PROVE  DeckIInv'
  <2>1. QuotaIInv' /\ CallsOwned'  BY <1>1, <1>3, NoCalls
  <2>2. OneFiller'  BY <1>1, <1>3, NoFilling DEF Filling
  <2> QED  BY <1>1, <1>2, <1>3, <2>1, <2>2, OneMoves DEF DeckTypes, osmVars
<1>4. ASSUME NEW u \in Users, NEW kind \in {"solo", "session"}, NEW q \in Queries,
             kind = "session" => decks[s] = {},
             Set(s, [NoRequest EXCEPT !.pc = "search", !.kind = kind, !.who = u, !.query = q,
                                      !.kept = hidden, !.seen = judged[u]])
      PROVE  DeckIInv'
  <2> DEFINE n == [NoRequest EXCEPT !.pc = "search", !.kind = kind, !.who = u, !.query = q,
                                    !.kept = hidden, !.seen = judged[u]]
  <2>1. hidden \in SUBSET Local /\ judged[u] \in SUBSET Local  BY <1>2 DEF DeckTypes
  <2>2. /\ n \in Requests /\ n.pc = "search" /\ n.kind = kind /\ n.who = u /\ n.cards = {}
        /\ n.todo = {} /\ n.kept = hidden /\ n.seen = judged[u] /\ n.token = FALSE
    BY <2>1, BeginOn DEF Requests
  <2>3. Set(s, n)  BY <1>4
  <2> HIDE DEF n
  <2>4. SlotOK(s, n, hidden, judged, inserting, live, decks)
    BY <1>2, <1>4, <2>2 DEF SlotOK, Steps, Unwanted, Clean, OnTheWay, Homogeneous, Placing, Decking
  <2> QED  BY <1>3, <2>2, <2>3, <2>4
<1>5. ASSUME NEW u \in Users, NEW d \in Slots, decks[d] # {},
             Set(s, [NoRequest EXCEPT !.pc = "recover", !.kind = "recover", !.who = u, !.cards = decks[d]])
      PROVE  DeckIInv'
  <2> DEFINE n == [NoRequest EXCEPT !.pc = "recover", !.kind = "recover", !.who = u, !.cards = decks[d]]
  <2>1. decks[d] \in SUBSET (Local \cup Places)  BY <1>2 DEF DeckTypes
  <2>2. /\ n \in Requests /\ n.pc = "recover" /\ n.kind = "recover" /\ n.who = u /\ n.cards = decks[d]
        /\ n.todo = {} /\ n.kept = {} /\ n.seen = {} /\ n.token = FALSE
    BY <2>1, BeginOn DEF Requests
  <2>3. Set(s, n)  BY <1>5
  <2>4. Homogeneous(decks[d])
    BY <1>2 DEF DeckIInv, StoredDecks, Homogeneous, DeckTypes
  <2> HIDE DEF n
  <2>5. SlotOK(s, n, hidden, judged, inserting, live, decks)
    BY <1>2, <1>5, <2>2, <2>4 DEF SlotOK, Steps, Unwanted, Clean, OnTheWay, Placing, Decking
  <2> QED  BY <1>3, <2>2, <2>3, <2>5
<1> QED  BY <1>1, <1>4, <1>5, NoMoney DEF Begin

\* Both searches take rows that are not hidden.
LEMMA SearchSafe ==
    ASSUME DeckIInv, NEW s \in Slots, FirstSearch(s) \/ SearchAgain(s)
    PROVE  DeckIInv' /\ [QuotaNext]_quotaVars
<1>1. /\ UNCHANGED <<quotaVars, osmVars, rows, hidden, judged, live, inserting, decks>>
      /\ req[s].pc \in {"search", "requery"}
  BY DEF FirstSearch, SearchAgain, Kept
<1>2. DeckTypes /\ Okay(s) /\ req[s] \in Requests  BY DEF DeckIInv, DeckTypes
<1>3. PICK n \in Requests :
          /\ Set(s, n) /\ n.pc \in {"marker", "found"} /\ n.kind = req[s].kind /\ n.who = req[s].who
          /\ n.kept = req[s].kept /\ n.seen = req[s].seen /\ n.cards = req[s].cards
          /\ n.token = req[s].token /\ (n.pc = "found" => n.within \cap hidden = {})
  <2>1. CASE Go(s, "marker")
    <3> DEFINE m == [req[s] EXCEPT !.pc = "marker"]
    <3>1. Set(s, m)  BY <2>1 DEF Go
    <3>2. /\ m \in Requests /\ m.pc = "marker" /\ m.kind = req[s].kind /\ m.who = req[s].who
          /\ m.kept = req[s].kept /\ m.seen = req[s].seen /\ m.cards = req[s].cards
          /\ m.token = req[s].token
      BY <1>2 DEF Requests
    <3> HIDE DEF m
    <3> QED  BY <3>1, <3>2
  <2>2. CASE Found(s, Within(req[s].query))
    <3> DEFINE W == Within(req[s].query) \cap req[s].query.open
    <3>1. W \in SUBSET Local /\ W \cap hidden = {}  BY <1>2 DEF Within, Dealable, DeckTypes
    <3> DEFINE m == [req[s] EXCEPT !.pc = "found", !.within = W]
    <3>2. Set(s, m)  BY <2>2 DEF Found
    <3> HIDE DEF W
    <3>3. /\ m \in Requests /\ m.pc = "found" /\ m.kind = req[s].kind /\ m.who = req[s].who
          /\ m.kept = req[s].kept /\ m.seen = req[s].seen /\ m.cards = req[s].cards
          /\ m.token = req[s].token /\ m.within = W
      BY <1>2, <3>1 DEF Requests
    <3> HIDE DEF m
    <3> QED  BY <3>1, <3>2, <3>3
  <2> QED  BY <2>1, <2>2 DEF FirstSearch, SearchAgain
<1>4. QuotaIInv' /\ CallsOwned'  BY <1>1, <1>3, NoCalls
<1>5. OneFiller' /\ n.token = FALSE  BY <1>1, <1>3, NoFilling DEF Filling
<1>6. n.kept \subseteq hidden /\ Homogeneous(n.cards)
  BY <1>2, <1>3 DEF Okay, SlotOK, Unwanted, OnTheWay
<1>7. SlotOK(s, n, hidden, judged, inserting, live, decks)
  BY <1>1, <1>2, <1>3, <1>5, <1>6, PassesOn DEF Okay, Passing
<1>8. DeckIInv'  BY <1>1, <1>2, <1>3, <1>4, <1>5, <1>7, OneMoves DEF DeckTypes, osmVars
<1> QED  BY <1>1, <1>8, NoMoney

\* A deck is a subset of what it was shuffled from, and as large as it may be.
LEMMA DeckOfCards ==
    ASSUME NEW C, IsFiniteSet(C), NEW deck \in DecksOf(C)
    PROVE  /\ deck \subseteq C /\ Cardinality(deck) \in Nat /\ Cardinality(deck) <= MaxDeck
           /\ Cardinality(C) >= MinLocal => WholeDeck(deck)
<1>1. deck \subseteq C /\ Cardinality(deck) = Smaller(MaxDeck, Cardinality(C))
  BY DEF DecksOf, kSubset
<1>2. Cardinality(C) \in Nat  BY FS_CardinalityType
<1> QED  BY <1>1, <1>2, DiscoveryAssumption DEF Smaller, WholeDeck

\* A request is answered, or takes what it was dealt further.
LEMMA DealsOn ==
    ASSUME NEW s \in Slots, NEW r \in Requests, NEW n \in Requests,
           SlotOK(s, r, hidden, judged, inserting, live, decks), r.pc \in {"found", "asking"},
           n.kind = r.kind, n.who = r.who, n.query = r.query, n.kept = r.kept, n.seen = r.seen,
           n.token = FALSE, n.pc \in {"done", "photos", "commit"}, Homogeneous(n.cards),
           n.pc = "commit" => n.kind = "session" /\ n.cards \subseteq Local,
           n.pc = "photos" => n.cards \subseteq Places /\ n.cards # {},
           n.kind = "session" /\ n.pc # "done" => WholeDeck(n.cards),
           \A x \in n.cards : x \notin n.kept /\ (x \in Places => Twin[x] \notin n.kept),
           n.kind = "solo" => n.cards \cap (n.seen \cup n.query.seen) = {}
    PROVE  SlotOK(s, n, hidden, judged, inserting, live, decks)
<1> USE DEF SlotOK
<1>1. r.kind # "recover" /\ n.kind # "recover"  BY DEF Steps
<1>2. Steps(n) /\ Unwanted(n, hidden, judged)  BY <1>1 DEF Steps, Unwanted
<1>3. Clean(n) /\ OnTheWay(n)  BY DEF Clean, OnTheWay
<1>4. Placing(s, n, inserting, live)  BY DEF Placing
<1>5. Decking(s, n, decks)  BY <1>1 DEF Decking
<1> QED  BY <1>2, <1>3, <1>4, <1>5

\* Asking Google starts the call of the search.
LEMMA AskSafe ==
    ASSUME DeckIInv, NEW s \in Slots, req[s].pc = "found", AskGoogle(s), UNCHANGED osmVars, Kept
    PROVE  DeckIInv' /\ [QuotaNext]_quotaVars
<1> DEFINE n == [req[s] EXCEPT !.pc = "asking"]
           new == [c \in {SearchCall(s)} |-> Reserving("nearby_search", SearchKey(req[s].who))]
<1>1. DeckTypes /\ Okay(s) /\ req[s] \in Requests  BY DEF DeckIInv, DeckTypes
<1>2. Set(s, n) /\ Start(new)  BY DEF AskGoogle, Go
<1>3. /\ n \in Requests /\ n.pc = "asking" /\ n.kind = req[s].kind /\ n.who = req[s].who
      /\ n.kept = req[s].kept /\ n.seen = req[s].seen /\ n.cards = req[s].cards
      /\ n.token = req[s].token
  BY <1>1 DEF Requests
<1>4. \A c \in Calls : c[1] = s => call[c].stage = "idle"
  BY DEF DeckIInv, CallsOwned, Awaits
<1>5. SearchKey(req[s].who) \in Keys
  BY <1>1, CallsAssumption DEF SearchKey, Requests
<1>6. Reserving("nearby_search", SearchKey(req[s].who)) \in Openings
  BY <1>5 DEF Openings, Ops
<1>7. /\ \A c \in Calls : c \in DOMAIN new => c[1] = s /\ new[c] \in Openings /\ Awaits(c) = "asking"
  BY <1>6 DEF SearchCall, Awaits
<1> HIDE DEF n, new
<1>8. QuotaIInv' /\ CallsOwned' /\ Requesting
  BY <1>2, <1>3, <1>4, <1>7, StartsCalls
<1>9. OneFiller' /\ n.token = FALSE  BY <1>2, <1>3, NoFilling DEF Filling
<1>10. SlotOK(s, n, hidden, judged, inserting, live, decks)
  BY <1>1, <1>3, <1>9, PassesOn DEF Okay, Passing, SlotOK, OnTheWay
<1>11. DeckIInv'
  BY <1>1, <1>2, <1>3, <1>8, <1>9, <1>10, OneMoves DEF DeckTypes, osmVars, Kept
<1> QED  BY <1>8, <1>11 DEF QuotaNext

\* An answer without a word to Google.
LEMMA AnswerSafe ==
    ASSUME DeckIInv, NEW s \in Slots, req[s].pc = "found", NEW C \in SUBSET Local,
           NEW pc \in {"done", "commit"}, Answered(s, C, pc), UNCHANGED <<quotaVars, osmVars>>, Kept,
           C \subseteq req[s].within, pc = "commit" => req[s].kind = "session" /\ WholeDeck(C),
           req[s].kind = "solo" => C \cap judged[req[s].who] = {}
    PROVE  DeckIInv' /\ [QuotaNext]_quotaVars
<1> DEFINE n == [req[s] EXCEPT !.pc = pc, !.cards = C, !.within = {}]
<1>1. DeckTypes /\ Okay(s) /\ req[s] \in Requests  BY DEF DeckIInv, DeckTypes
<1>2. Set(s, n)  BY DEF Answered
<1>3. /\ n \in Requests /\ n.pc = pc /\ n.kind = req[s].kind /\ n.who = req[s].who
      /\ n.query = req[s].query /\ n.kept = req[s].kept /\ n.seen = req[s].seen /\ n.cards = C
      /\ n.token = req[s].token
  BY <1>1 DEF Requests
<1> HIDE DEF n
<1>4. QuotaIInv' /\ CallsOwned'  BY <1>2, <1>3, NoCalls
<1>5. OneFiller' /\ n.token = FALSE  BY <1>2, <1>3, NoFilling DEF Filling
<1>6. /\ req[s].within \cap req[s].kept = {} /\ req[s].seen \subseteq judged[req[s].who]
      /\ req[s].query.seen \subseteq Places /\ Local \cap Places = {}
  BY <1>1, DiscoveryAssumption DEF Okay, SlotOK, Clean, Unwanted, Requests
<1>7. SlotOK(s, n, hidden, judged, inserting, live, decks)
  BY <1>1, <1>3, <1>5, <1>6, DealsOn DEF Okay, Homogeneous
<1>8. DeckIInv'
  BY <1>1, <1>2, <1>3, <1>4, <1>5, <1>7, OneMoves DEF DeckTypes, osmVars, Kept
<1> QED  BY <1>8, NoMoney

\* Decks of rows are dealt from rows that are not hidden and not known.
LEMMA DealSafe ==
    ASSUME DeckIInv, NEW s \in Slots, DealSolo(s) \/ DealSession(s)
    PROVE  DeckIInv' /\ [QuotaNext]_quotaVars
<1> DEFINE w == req[s].within  unseen == w \ judged[req[s].who]
<1>1. req[s].pc = "found" /\ Kept /\ UNCHANGED osmVars  BY DEF DealSolo, DealSession
<1>2. w \in SUBSET Local /\ IsFiniteSet(w) /\ IsFiniteSet(unseen) /\ {} \in SUBSET Local
  BY DiscoveryAssumption, FS_Subset DEF DeckIInv, DeckTypes, Requests
<1>3. CASE AskGoogle(s)  BY <1>1, <1>3, AskSafe
<1>4. ASSUME NEW C \in {{}} \cup DecksOf(unseen), Answered(s, C, "done"), UNCHANGED quotaVars
      PROVE  DeckIInv' /\ [QuotaNext]_quotaVars
  <2>1. C \subseteq unseen  BY <1>2, <1>4, DeckOfCards
  <2> QED  BY <1>1, <1>2, <1>4, <2>1, AnswerSafe
<1>5. ASSUME NEW C \in DecksOf(w), EnoughForSession(w), req[s].kind = "session",
             Answered(s, C, "commit"), UNCHANGED quotaVars
      PROVE  DeckIInv' /\ [QuotaNext]_quotaVars
  <2>1. C \subseteq w /\ WholeDeck(C)  BY <1>2, <1>5, DeckOfCards DEF EnoughForSession
  <2> QED  BY <1>1, <1>2, <1>5, <2>1, AnswerSafe
<1> QED  BY <1>3, <1>4, <1>5 DEF DealSolo, DealSession

\* What Google's answer is reduced to: places that are neither known nor hidden, and
\* not the ones that the asking phone has shown.
LEMMA FreshOnes ==
    ASSUME DeckIInv, NEW s \in Slots, req[s].pc = "asking", NEW found \in Answers
    PROVE  /\ Fresh(s, found) \subseteq Places /\ IsFiniteSet(Fresh(s, found))
           /\ \A x \in Fresh(s, found) : x \notin req[s].kept /\ Twin[x] \notin req[s].kept
           /\ req[s].kind = "solo" => Fresh(s, found) \cap (req[s].seen \cup req[s].query.seen) = {}
<1>1. /\ req[s].kept \subseteq hidden /\ req[s].kept \subseteq Local /\ req[s].seen \subseteq Local
      /\ Local \cap Places = {} /\ found \subseteq Places /\ hidden \subseteq Local
  BY DiscoveryAssumption
     DEF DeckIInv, Okay, SlotOK, Unwanted, DeckTypes, Requests, Answers
<1>2. Fresh(s, found) \subseteq found \ Duplicates(hidden)
  BY DEF Fresh, Duplicates
<1>3. req[s].kind = "solo" => Fresh(s, found) \cap req[s].query.seen = {}
  BY DEF Fresh
<1>4. Fresh(s, found) \subseteq Places /\ IsFiniteSet(Fresh(s, found))
  BY <1>1, <1>2, DiscoveryAssumption, FS_Subset
<1>5. \A x \in Fresh(s, found) : Twin[x] \notin hidden
  BY <1>1, <1>2 DEF Duplicates
<1> QED  BY <1>1, <1>3, <1>4, <1>5

\* The answer of the search ends the request, or starts the calls for its photos.
LEMMA ReceiveSafe ==
    ASSUME DeckIInv, NEW s \in Slots, ReceiveCards(s)
    PROVE  DeckIInv' /\ [QuotaNext]_quotaVars
<1> DEFINE c == SearchCall(s)
<1>1. DeckTypes /\ Okay(s) /\ req[s] \in Requests  BY DEF DeckIInv, DeckTypes
<1>2. req[s].pc = "asking" /\ Kept /\ UNCHANGED osmVars  BY DEF ReceiveCards
<1>3. \A d \in Calls : d[1] = s /\ d # c => call[d].stage = "idle"
  BY <1>2, CallsAssumption DEF DeckIInv, CallsOwned, Awaits, SearchCall
<1>4. ASSUME NEW n \in Requests, Set(s, n), n.token = req[s].token, QuotaIInv', CallsOwned',
             n.token = FALSE => SlotOK(s, n, hidden, judged, inserting, live, decks)
      PROVE  DeckIInv'
  <2>1. OneFiller' /\ n.token = FALSE  BY <1>2, <1>4, NoFilling DEF Filling
  <2> QED  BY <1>1, <1>2, <1>4, <2>1, OneMoves DEF DeckTypes, osmVars, Kept
<1>5. ASSUME Answered(s, {}, "done"), Drop({c})
      PROVE  DeckIInv' /\ [QuotaNext]_quotaVars
  <2> DEFINE n == [req[s] EXCEPT !.pc = "done", !.cards = {}, !.within = {}]
  <2>1. Set(s, n)  BY <1>5 DEF Answered
  <2>2. /\ n \in Requests /\ n.pc = "done" /\ n.kind = req[s].kind /\ n.who = req[s].who
        /\ n.query = req[s].query /\ n.kept = req[s].kept /\ n.seen = req[s].seen /\ n.cards = {}
        /\ n.token = req[s].token
    BY <1>1 DEF Requests
  <2> HIDE DEF n
  <2>3. QuotaIInv' /\ CallsOwned' /\ Requesting  BY <1>3, <1>5, <2>1, <2>2, DropsCalls
  <2>4. n.token = FALSE => SlotOK(s, n, hidden, judged, inserting, live, decks)
    BY <1>1, <1>2, <2>2, DealsOn DEF Okay, Homogeneous
  <2> QED  BY <1>4, <2>1, <2>2, <2>3, <2>4 DEF QuotaNext
<1>6. ASSUME NEW found \in Answers, NEW deck \in DecksOf(Fresh(s, found)), Enough(s, deck),
             NEW P \in SUBSET deck, Answered(s, deck, "photos"), Start(InsteadOf(c, PhotoCalls(s, P)))
      PROVE  DeckIInv' /\ [QuotaNext]_quotaVars
  <2> DEFINE n == [req[s] EXCEPT !.pc = "photos", !.cards = deck, !.within = {}]
             new == InsteadOf(c, PhotoCalls(s, P))
  <2>1. Set(s, n) /\ Start(new)  BY <1>6 DEF Answered
  <2>2. /\ deck \subseteq Fresh(s, found) /\ deck \subseteq Places /\ deck # {}
        /\ Cardinality(deck) \in Nat /\ Cardinality(deck) <= MaxDeck
    BY <1>2, <1>6, FreshOnes, DeckOfCards DEF Enough
  <2>3. /\ n \in Requests /\ n.pc = "photos" /\ n.kind = req[s].kind /\ n.who = req[s].who
        /\ n.query = req[s].query /\ n.kept = req[s].kept /\ n.seen = req[s].seen /\ n.cards = deck
        /\ n.token = req[s].token
    BY <1>1, <2>2 DEF Requests
  <2>4. n.kind = "session" => WholeDeck(deck)
    BY <1>6, <2>2, <2>3, DiscoveryAssumption DEF Enough, EnoughForSession, WholeDeck
  <2>5. ASSUME NEW d \in Calls, d \in DOMAIN new
        PROVE  /\ d[1] = s
               /\ \/ new[d] = NoCall
                  \/ call[d].stage = "idle" /\ new[d] \in Openings /\ Awaits(d) = "photos"
    <3>1. CASE d = c  BY <3>1 DEF InsteadOf, SearchCall
    <3>2. CASE d # c
      <4>1. PICK p \in P : d = Photo(s, p)  BY <2>5, <3>2 DEF InsteadOf, PhotoCalls
      <4>2. d[1] = s /\ d[2] = "place_photo" /\ d[3] = p  BY <4>1 DEF Photo
      <4>3. ResourceKey("place_photo", req[s].who, p) \in Keys
        BY <1>1, <2>2, CallsAssumption DEF ResourceKey, Requests
      <4>4. new[d] = Reserving("place_photo", ResourceKey("place_photo", req[s].who, p))
        BY <2>5, <3>2, <4>1, <4>2 DEF InsteadOf, PhotoCalls
      <4>5. new[d] \in Openings  BY <4>3, <4>4 DEF Openings, Ops
      <4> QED  BY <1>3, <3>2, <4>2, <4>5 DEF Awaits
    <3> QED  BY <3>1, <3>2
  <2>6. c \in DOMAIN new  BY DEF InsteadOf
  <2> HIDE DEF n, new, c
  <2>7. QuotaIInv' /\ CallsOwned' /\ Requesting
    BY <1>3, <2>1, <2>3, <2>5, <2>6, StartsCalls
  <2>8. /\ \A x \in deck : x \notin n.kept /\ Twin[x] \notin n.kept
        /\ n.kind = "solo" => deck \cap (n.seen \cup n.query.seen) = {}
    BY <1>2, <1>6, <2>2, <2>3, FreshOnes
  <2>9. n.token = FALSE => SlotOK(s, n, hidden, judged, inserting, live, decks)
    BY <1>1, <1>2, <2>2, <2>3, <2>4, <2>8, DealsOn DEF Okay, Homogeneous
  <2> QED  BY <1>4, <2>1, <2>3, <2>7, <2>9 DEF QuotaNext
<1> QED  BY <1>5, <1>6 DEF ReceiveCards

\* A step of one request that writes placeholder rows or its own deck.
LEMMA OneWrites ==
    ASSUME DeckIInv, NEW s \in Slots, NEW r \in Requests, Set(s, r), UNCHANGED <<rows, hidden, judged>>,
           live' \subseteq Places, live \subseteq live', inserting' \in [Places -> Slots \cup {NoSlot}],
           \A t \in Slots \ {s}, p \in Places : inserting'[p] = t <=> inserting[p] = t,
           decks' \in [Slots -> SUBSET (Local \cup Places)],
           \A t \in Slots \ {s} : decks'[t] = decks[t],
           \/ decks'[s] = decks[s]
           \/ /\ decks[s] = {} /\ WholeDeck(decks'[s])
              /\ decks'[s] \subseteq Local \/ decks'[s] \subseteq live',
           marker' \in {"none", "ready", "error"}, lock' \in Slots \cup {NoSlot}, lapsed' \subseteq Slots,
           SlotOK(s, r, hidden, judged, inserting', live', decks'),
           QuotaIInv', CallsOwned', OneFiller'
    PROVE  DeckIInv'
<1> USE DEF DeckIInv
<1>1. req' \in [Slots -> Requests] /\ req'[s] = r /\ \A t \in Slots \ {s} : req'[t] = req[t]
  BY DEF Set, DeckTypes
<1>2. DeckTypes'  BY <1>1 DEF DeckTypes
<1>3. StoredDecks'
  <2>1. ASSUME NEW t \in Slots
        PROVE  /\ decks'[t] = {} \/ WholeDeck(decks'[t])
               /\ decks'[t] \subseteq Local \/ decks'[t] \subseteq live'
    <3>1. CASE decks'[t] = decks[t]  BY <3>1 DEF StoredDecks
    <3>2. CASE decks'[t] # decks[t]  BY <3>2
    <3> QED  BY <3>1, <3>2
  <2> QED  BY <2>1 DEF StoredDecks, WholeDeck
<1>4. Okay(s)'  BY <1>1 DEF Okay
<1>5. \A d \in Slots : decks[d] # {} => decks'[d] = decks[d]  OBVIOUS
<1>6. \A t \in Slots \ {s} : Okay(t)'  BY <1>1, <1>5, OthersOkay DEF DeckTypes
<1> QED  BY <1>2, <1>3, <1>4, <1>6

\* Own calls are those of the slot.
LEMMA OwnCalls ==
    ASSUME NEW s \in Slots, NEW c \in Calls
    PROVE  c[1] = s => c \in Own(s)
  BY DEF Own

\* The deck goes out with or without its photos, or on to its placeholder rows.
LEMMA PhotosSafe ==
    ASSUME DeckIInv, NEW s \in Slots, PhotosLoaded(s)
    PROVE  DeckIInv' /\ [QuotaNext]_quotaVars
<1> DEFINE m == [req[s] EXCEPT !.pc = "done"]
           n == [req[s] EXCEPT !.pc = "insert", !.todo = req[s].cards]
<1>1. DeckTypes /\ Okay(s) /\ req[s] \in Requests  BY DEF DeckIInv, DeckTypes
<1>2. req[s].pc = "photos" /\ Kept /\ UNCHANGED osmVars /\ Drop(Own(s))  BY DEF PhotosLoaded
<1>3. req[s].kind # "recover" /\ req[s].cards \subseteq Places /\ \A p \in Places : inserting[p] # s
  BY <1>1, <1>2 DEF Okay, SlotOK, Steps, OnTheWay, Placing
<1>4. ASSUME NEW k \in Requests, Set(s, k), k.token = req[s].token,
             k.token = FALSE => SlotOK(s, k, hidden, judged, inserting, live, decks)
      PROVE  DeckIInv' /\ [QuotaNext]_quotaVars
  <2>1. QuotaIInv' /\ CallsOwned' /\ Requesting  BY <1>2, <1>4, OwnCalls, DropsCalls
  <2>2. OneFiller' /\ k.token = FALSE  BY <1>2, <1>4, NoFilling DEF Filling
  <2> QED  BY <1>1, <1>2, <1>4, <2>1, <2>2, OneMoves DEF DeckTypes, osmVars, Kept, QuotaNext
<1>5. CASE req[s].kind = "solo" /\ Set(s, m)
  <2>1. /\ m \in Requests /\ m.pc = "done" /\ m.kind = req[s].kind /\ m.who = req[s].who
        /\ m.query = req[s].query /\ m.kept = req[s].kept /\ m.seen = req[s].seen
        /\ m.cards = req[s].cards /\ m.token = req[s].token
    BY <1>1 DEF Requests
  <2> HIDE DEF m
  <2>2. m.token = FALSE => SlotOK(s, m, hidden, judged, inserting, live, decks)
    BY <1>1, <1>2, <1>3, <2>1
       DEF Okay, SlotOK, Steps, Unwanted, Clean, OnTheWay, Homogeneous, Placing, Decking
  <2> QED  BY <1>4, <1>5, <2>1, <2>2
<1>6. CASE req[s].kind = "session" /\ Set(s, n)
  <2>1. /\ n \in Requests /\ n.pc = "insert" /\ n.kind = req[s].kind /\ n.who = req[s].who
        /\ n.query = req[s].query /\ n.kept = req[s].kept /\ n.seen = req[s].seen
        /\ n.cards = req[s].cards /\ n.token = req[s].token /\ n.todo = req[s].cards
    BY <1>1, <1>3 DEF Requests
  <2> HIDE DEF n
  <2>2. n.token = FALSE => SlotOK(s, n, hidden, judged, inserting, live, decks)
    BY <1>1, <1>2, <1>3, <1>6, <2>1
       DEF Okay, SlotOK, Steps, Unwanted, Clean, OnTheWay, Homogeneous, Placing, Decking
  <2> QED  BY <1>4, <1>6, <2>1, <2>2
<1> QED  BY <1>1, <1>3, <1>5, <1>6 DEF PhotosLoaded, Go, Requests

\* Placeholder rows are inserted in their order.
LEMMA InsertSafe ==
    ASSUME DeckIInv, NEW s \in Slots, InsertPlaceholder(s)
    PROVE  DeckIInv' /\ [QuotaNext]_quotaVars
<1> DEFINE p == NextPlaceholder(s)  rest == req[s].todo \ {p}
           pc == IF rest = {} THEN "commit" ELSE "insert"
           n == [req[s] EXCEPT !.todo = rest, !.pc = pc]
<1>1. DeckTypes /\ Okay(s) /\ req[s] \in Requests  BY DEF DeckIInv, DeckTypes
<1>2. /\ req[s].pc = "insert" /\ Set(s, n) /\ inserting[p] = NoSlot
      /\ inserting' = IF p \in live THEN inserting ELSE [inserting EXCEPT ![p] = s]
      /\ UNCHANGED <<quotaVars, osmVars, rows, hidden, judged, live, decks>>
  BY DEF InsertPlaceholder
<1>3. p \in req[s].todo /\ \A q \in req[s].todo : p <= q
  <2>1. req[s].todo # {} /\ req[s].todo \in SUBSET Nat
    BY <1>1, <1>2, DiscoveryAssumption DEF Okay, SlotOK, OnTheWay, Requests
  <2> QED  BY <2>1, LeastOne DEF NextPlaceholder
<1>4. p \in Places /\ rest \in SUBSET Places /\ pc \in Stations
  BY <1>1, <1>3 DEF Requests
<1>5. /\ n \in Requests /\ n.pc = pc /\ n.kind = req[s].kind /\ n.who = req[s].who
      /\ n.query = req[s].query /\ n.kept = req[s].kept /\ n.seen = req[s].seen
      /\ n.cards = req[s].cards /\ n.token = req[s].token /\ n.todo = rest
  <2> HIDE DEF p, rest, pc
  <2> QED  BY <1>1, <1>4 DEF Requests
<1>6. pc \in {"commit", "insert"} /\ (pc = "insert" <=> rest # {})  OBVIOUS
<1>7. req[s].cards \subseteq Places /\ \A q \in rest : p < q
  BY <1>1, <1>2, <1>3, <1>4, DiscoveryAssumption DEF Okay, SlotOK, OnTheWay
<1> HIDE DEF p, pc, n
<1>8. /\ inserting' \in [Places -> Slots \cup {NoSlot}]
      /\ \A t \in Slots \ {s}, q \in Places : inserting'[q] = t <=> inserting[q] = t
      /\ \A q \in Places : inserting'[q] = s => inserting[q] = s \/ q = p
      /\ \A q \in Places : inserting[q] = s => inserting'[q] = s
      /\ p \in live \/ inserting'[p] = s
  BY <1>1, <1>2, <1>4, DiscoveryAssumption DEF DeckTypes
<1>9. QuotaIInv' /\ CallsOwned'  BY <1>2, <1>5, NoCalls
<1>10. OneFiller' /\ n.token = FALSE  BY <1>2, <1>5, NoFilling DEF Filling
<1>11. Placing(s, n, inserting', live)
  <2>1. ASSUME NEW q \in Places, inserting'[q] = s
        PROVE  n.pc \in {"insert", "commit"} /\ \A x \in n.todo : n.pc = "insert" => q < x
    BY <1>1, <1>2, <1>5, <1>6, <1>7, <1>8, <2>1 DEF Okay, SlotOK, Placing
  <2>2. \A q \in req[s].cards \ rest : q \in live \/ inserting'[q] = s
    BY <1>1, <1>2, <1>7, <1>8 DEF Okay, SlotOK, Placing
  <2> QED  BY <1>5, <1>6, <1>7, <2>1, <2>2 DEF Placing
<1>12. SlotOK(s, n, hidden, judged, inserting', live, decks)
  BY <1>1, <1>2, <1>5, <1>6, <1>10, <1>11
     DEF Okay, SlotOK, Steps, Unwanted, Clean, OnTheWay, Decking
<1>13. DeckIInv'
  BY <1>1, <1>2, <1>5, <1>8, <1>9, <1>10, <1>12, OneWrites DEF DeckTypes, osmVars
<1> QED  BY <1>2, <1>13, NoMoney

\* A transaction that ends leaves no row that waits for its commit.
LEMMA RowsUndone ==
    ASSUME DeckTypes, NEW s \in Slots
    PROVE  /\ Undone(s) \in [Places -> Slots \cup {NoSlot}] /\ \A p \in Places : Undone(s)[p] # s
           /\ \A t \in Slots \ {s}, p \in Places : Undone(s)[p] = t <=> inserting[p] = t
<1>1. NoSlot \notin Slots  BY DiscoveryAssumption
<1>2. \A p \in Places : Undone(s)[p] = IF inserting[p] = s THEN NoSlot ELSE inserting[p]
  BY DEF Undone
<1>3. Undone(s) \in [Places -> Slots \cup {NoSlot}]  BY DEF Undone, DeckTypes
<1> QED  BY <1>1, <1>2, <1>3

\* The commit of a start stores the deck and makes its placeholder rows live.
LEMMA CommitSafe ==
    ASSUME DeckIInv, NEW s \in Slots, CommitDeck(s)
    PROVE  DeckIInv' /\ [QuotaNext]_quotaVars
<1> DEFINE n == [req[s] EXCEPT !.pc = "done"]
<1>1. DeckTypes /\ Okay(s) /\ req[s] \in Requests  BY DEF DeckIInv, DeckTypes
<1>2. /\ req[s].pc = "commit" /\ Set(s, n) /\ decks' = [decks EXCEPT ![s] = req[s].cards]
      /\ live' = live \cup Mine(s) /\ inserting' = Undone(s)
      /\ UNCHANGED <<quotaVars, osmVars, rows, hidden, judged>>
  BY DEF CommitDeck, Go
<1>3. /\ n \in Requests /\ n.pc = "done" /\ n.kind = req[s].kind /\ n.who = req[s].who
      /\ n.query = req[s].query /\ n.kept = req[s].kept /\ n.seen = req[s].seen
      /\ n.cards = req[s].cards /\ n.token = req[s].token
  BY <1>1 DEF Requests
<1> HIDE DEF n
<1>4. req[s].kind = "session" /\ decks[s] = {} /\ WholeDeck(req[s].cards)
  BY <1>1, <1>2 DEF Okay, SlotOK, Steps, OnTheWay, Decking
<1>5. /\ inserting' \in [Places -> Slots \cup {NoSlot}] /\ \A p \in Places : inserting'[p] # s
      /\ \A t \in Slots \ {s}, p \in Places : inserting'[p] = t <=> inserting[p] = t
      /\ live' \subseteq Places /\ live \subseteq live'
  <2>1. live' \subseteq Places /\ live \subseteq live'  BY <1>1, <1>2 DEF DeckTypes, Mine
  <2> QED  BY <1>1, <1>2, <2>1, RowsUndone
<1>6. req[s].cards \subseteq Local \/ req[s].cards \subseteq live'
  BY <1>1, <1>2 DEF Okay, SlotOK, Placing, Mine
<1>7. /\ decks' \in [Slots -> SUBSET (Local \cup Places)] /\ decks'[s] = req[s].cards
      /\ \A t \in Slots \ {s} : decks'[t] = decks[t]
  BY <1>1, <1>2 DEF DeckTypes, Requests
<1>8. QuotaIInv' /\ CallsOwned'  BY <1>2, <1>3, NoCalls
<1>9. OneFiller' /\ n.token = FALSE  BY <1>2, <1>3, NoFilling DEF Filling
<1>10. SlotOK(s, n, hidden, judged, inserting', live', decks')
  BY <1>1, <1>2, <1>3, <1>4, <1>5, <1>9
     DEF Okay, SlotOK, Steps, Unwanted, Clean, OnTheWay, Placing, Decking
<1>11. DeckIInv'
  BY <1>1, <1>2, <1>3, <1>4, <1>5, <1>6, <1>7, <1>8, <1>9, <1>10, OneWrites DEF DeckTypes, osmVars
<1> QED  BY <1>2, <1>11, NoMoney

\* A stored deck is looked up by the calls that its places need.
LEMMA RecoverSafe ==
    ASSUME DeckIInv, NEW s \in Slots, Recover(s)
    PROVE  DeckIInv' /\ [QuotaNext]_quotaVars
<1> DEFINE google == {p \in req[s].cards : p \in Places}
           n == [req[s] EXCEPT !.pc = "details"]
           m == [req[s] EXCEPT !.pc = "done"]
           new == [c \in {Details(s, p) : p \in google} |->
                      Reserving("place_details", ResourceKey("place_details", req[s].who, c[3]))]
<1>1. DeckTypes /\ Okay(s) /\ req[s] \in Requests  BY DEF DeckIInv, DeckTypes
<1>2. req[s].pc = "recover" /\ Kept /\ UNCHANGED osmVars  BY DEF Recover
<1>3. req[s].kind = "recover"  BY <1>1, <1>2 DEF Okay, SlotOK, Steps
<1>4. \A c \in Calls : c[1] = s => call[c].stage = "idle"
  BY <1>2 DEF DeckIInv, CallsOwned, Awaits
<1>5. ASSUME NEW k \in Requests, Set(s, k), k.pc \in {"details", "done"}, k.kind = req[s].kind,
             k.who = req[s].who, k.kept = req[s].kept, k.seen = req[s].seen,
             k.cards = req[s].cards, k.token = req[s].token, QuotaIInv', CallsOwned'
      PROVE  DeckIInv'
  <2>1. OneFiller' /\ k.token = FALSE  BY <1>2, <1>5, NoFilling DEF Filling
  <2>2. SlotOK(s, k, hidden, judged, inserting, live, decks)
    BY <1>1, <1>2, <1>3, <1>5, <2>1
       DEF Okay, SlotOK, Steps, Unwanted, Clean, OnTheWay, Homogeneous, Placing, Decking
  <2> QED  BY <1>1, <1>2, <1>5, <2>1, <2>2, OneMoves DEF DeckTypes, osmVars, Kept
<1>6. CASE Set(s, n) /\ Start(new)
  <2>1. /\ n \in Requests /\ n.pc = "details" /\ n.kind = req[s].kind /\ n.who = req[s].who
        /\ n.kept = req[s].kept /\ n.seen = req[s].seen /\ n.cards = req[s].cards
        /\ n.token = req[s].token
    BY <1>1 DEF Requests
  <2>2. ASSUME NEW c \in Calls, c \in DOMAIN new
        PROVE  c[1] = s /\ new[c] \in Openings /\ Awaits(c) = "details"
    <3>1. PICK p \in google : c = Details(s, p)  BY <2>2
    <3>2. c[1] = s /\ c[2] = "place_details" /\ c[3] = p /\ p \in Places  BY <3>1 DEF Details
    <3>3. ResourceKey("place_details", req[s].who, p) \in Keys
      BY <1>1, <3>2, CallsAssumption DEF ResourceKey, Requests
    <3>4. new[c] = Reserving("place_details", ResourceKey("place_details", req[s].who, p))
      BY <2>2, <3>2
    <3> HIDE DEF new, google
    <3> QED  BY <3>2, <3>3, <3>4 DEF Openings, Ops, Awaits
  <2> HIDE DEF n, new, google
  <2>3. QuotaIInv' /\ CallsOwned' /\ Requesting
    BY <1>4, <1>6, <2>1, <2>2, StartsCalls
  <2> QED  BY <1>5, <1>6, <2>1, <2>3 DEF QuotaNext
<1>7. CASE Set(s, m) /\ UNCHANGED quotaVars
  <2>1. /\ m \in Requests /\ m.pc = "done" /\ m.kind = req[s].kind /\ m.who = req[s].who
        /\ m.kept = req[s].kept /\ m.seen = req[s].seen /\ m.cards = req[s].cards
        /\ m.token = req[s].token
    BY <1>1 DEF Requests
  <2> HIDE DEF m
  <2>2. QuotaIInv' /\ CallsOwned'  BY <1>2, <1>7, <2>1, NoCalls
  <2> QED  BY <1>5, <1>7, <2>1, <2>2, NoMoney
<1> QED  BY <1>6, <1>7 DEF Recover, Go

\* Whatever Google answers, the cards stay those that were stored.
LEMMA RecoveredSafe ==
    ASSUME DeckIInv, NEW s \in Slots, Recovered(s)
    PROVE  DeckIInv' /\ [QuotaNext]_quotaVars
<1> DEFINE C == req[s].cards  n == [req[s] EXCEPT !.pc = "done", !.cards = C]
           got == {p \in C : call[Details(s, p)].stage = "answered"}
<1>1. DeckTypes /\ Okay(s) /\ req[s] \in Requests  BY DEF DeckIInv, DeckTypes
<1>2. req[s].pc = "details" /\ Kept /\ UNCHANGED osmVars /\ Drop(Own(s))  BY DEF Recovered
<1>3. req[s].kind = "recover"  BY <1>1, <1>2 DEF Okay, SlotOK, Steps
<1>4. Set(s, n)
  <2>1. PICK place \in [got -> Places] :
            Set(s, [req[s] EXCEPT !.pc = "done",
                    !.cards = (C \ got) \cup {Resolved(p, place[p]) : p \in got}])
    BY DEF Recovered
  <2>2. (C \ got) \cup {Resolved(p, place[p]) : p \in got} = C  BY DEF Resolved
  <2> QED  BY <2>1, <2>2
<1>5. /\ n \in Requests /\ n.pc = "done" /\ n.kind = req[s].kind /\ n.who = req[s].who
      /\ n.kept = req[s].kept /\ n.seen = req[s].seen /\ n.cards = req[s].cards
      /\ n.token = req[s].token
  BY <1>1 DEF Requests
<1> HIDE DEF n
<1>6. QuotaIInv' /\ CallsOwned' /\ Requesting  BY <1>2, <1>4, <1>5, OwnCalls, DropsCalls
<1>7. OneFiller' /\ n.token = FALSE  BY <1>2, <1>4, <1>5, NoFilling DEF Filling
<1>8. SlotOK(s, n, hidden, judged, inserting, live, decks)
  BY <1>1, <1>2, <1>3, <1>5, <1>7
     DEF Okay, SlotOK, Steps, Unwanted, Clean, OnTheWay, Homogeneous, Placing, Decking
<1>9. DeckIInv'
  BY <1>1, <1>2, <1>4, <1>5, <1>6, <1>7, <1>8, OneMoves DEF DeckTypes, osmVars, Kept
<1> QED  BY <1>6, <1>9 DEF QuotaNext

\* A request that is over is forgotten.
LEMMA RespondSafe ==
    ASSUME DeckIInv, NEW s \in Slots, Respond(s)
    PROVE  DeckIInv' /\ [QuotaNext]_quotaVars
<1>1. DeckTypes /\ Okay(s)  BY DEF DeckIInv
<1>2. /\ req[s].pc = "done" /\ Set(s, NoRequest) /\ Kept /\ UNCHANGED <<quotaVars, osmVars>>
  BY DEF Respond
<1>3. \A p \in Places : inserting[p] # s  BY <1>1, <1>2 DEF Okay, SlotOK, Placing
<1>4. QuotaIInv' /\ CallsOwned'  BY <1>2, BeginOn, NoCalls
<1>5. OneFiller'  BY <1>2, BeginOn, NoFilling DEF Filling
<1>6. SlotOK(s, NoRequest, hidden, judged, inserting, live, decks)
  BY <1>3, BeginOn DEF SlotOK, Steps, Unwanted, Clean, OnTheWay, Homogeneous, Placing, Decking
<1>7. DeckIInv'
  BY <1>1, <1>2, <1>4, <1>5, <1>6, BeginOn, OneMoves DEF DeckTypes, osmVars, Kept
<1> QED  BY <1>2, <1>7, NoMoney

\* So is one whose process dies, with its calls and its transaction.
LEMMA CrashSafe ==
    ASSUME DeckIInv, NEW s \in Slots, Crash(s)
    PROVE  DeckIInv' /\ [QuotaNext]_quotaVars
<1>1. DeckTypes /\ Okay(s)  BY DEF DeckIInv
<1>2. /\ Set(s, NoRequest) /\ Drop(Own(s)) /\ inserting' = Undone(s) /\ lapsed' = lapsed \ {s}
      /\ UNCHANGED <<marker, lock, rows, hidden, judged, live, decks>>
  BY DEF Crash
<1>3. QuotaIInv' /\ CallsOwned' /\ Requesting  BY <1>2, BeginOn, OwnCalls, DropsCalls
<1>4. OneFiller'
  <2>1. req'[s] = NoRequest /\ \A t \in Slots \ {s} : req'[t] = req[t]
    BY <1>1, <1>2 DEF Set, DeckTypes
  <2> QED  BY <1>2, <2>1, BeginOn DEF OneFiller, Holds, DeckIInv
<1>5. /\ inserting' \in [Places -> Slots \cup {NoSlot}] /\ \A p \in Places : inserting'[p] # s
      /\ \A t \in Slots \ {s}, p \in Places : inserting'[p] = t <=> inserting[p] = t
  BY <1>1, <1>2, RowsUndone
<1>6. SlotOK(s, NoRequest, hidden, judged, inserting', live, decks)
  BY <1>5, BeginOn DEF SlotOK, Steps, Unwanted, Clean, OnTheWay, Homogeneous, Placing, Decking
<1>7. DeckIInv'
  BY <1>1, <1>2, <1>3, <1>4, <1>5, <1>6, BeginOn, OneWrites DEF DeckTypes
<1> QED  BY <1>3, <1>7 DEF QuotaNext

--------------------------------------------------------------------------------
(* The cell of the cache.                                                  *)

\* A step of a request that is busy with the cell.
LEMMA CellMoves ==
    ASSUME DeckIInv, NEW s \in Slots, NEW n \in Requests, Set(s, n),
           req[s].pc \in Passing \ {"asking"}, n.pc \in Passing,
           n.kind = req[s].kind, n.who = req[s].who, n.kept = req[s].kept, n.seen = req[s].seen,
           n.cards = req[s].cards \/ n.cards \subseteq Local, n.pc = "persist" => n.cards \subseteq Local,
           n.token => n.pc \in Filling,
           n.pc = "found" => n.within = {},
           UNCHANGED <<quotaVars, hidden, judged, live, inserting, decks>>, rows' \subseteq Local,
           marker' \in {"none", "ready", "error"}, lock' \in Slots \cup {NoSlot}, lapsed' \subseteq Slots,
           OneFiller'
    PROVE  DeckIInv' /\ [QuotaNext]_quotaVars
<1>1. DeckTypes /\ Okay(s) /\ req[s] \in Requests  BY DEF DeckIInv, DeckTypes
<1>2. QuotaIInv' /\ CallsOwned'  BY NoCalls DEF Passing
<1>3. Homogeneous(n.cards)  BY <1>1 DEF Okay, SlotOK, OnTheWay, Homogeneous
<1>4. SlotOK(s, n, hidden, judged, inserting, live, decks)
  BY <1>1, <1>3, PassesOn DEF Okay
<1>5. DeckIInv'  BY <1>1, <1>2, <1>4, OneMoves
<1> QED  BY <1>5, NoMoney

\* While the lock is left alone, whoever fills was filling.
LEMMA StillFilling ==
    ASSUME DeckIInv, NEW s \in Slots, NEW n \in Requests, Set(s, n), UNCHANGED <<lock, lapsed>>,
           n.token => req[s].token
    PROVE  OneFiller'
<1>1. req'[s] = n /\ \A t \in Slots \ {s} : req'[t] = req[t]  BY DEF Set, DeckIInv, DeckTypes
<1>2. n.token => Holds(s)  BY DEF DeckIInv, Okay, SlotOK, Steps, Holds
<1> QED  BY <1>1, <1>2 DEF DeckIInv, OneFiller, Holds

\* The steps that neither take nor give back the lock.
LEMMA CellReads ==
    ASSUME DeckIInv, NEW s \in Slots,
           ReadMarker(s) \/ AwaitMarker(s) \/ Fetch(s) \/ Persist(s) \/ SetMarker(s)
    PROVE  DeckIInv' /\ [QuotaNext]_quotaVars
<1>1. DeckTypes /\ Okay(s) /\ req[s] \in Requests  BY DEF DeckIInv, DeckTypes
<1>2. UNCHANGED <<quotaVars, hidden, judged, live, inserting, decks, lock, lapsed>>
  BY DEF ReadMarker, AwaitMarker, Fetch, Persist, SetMarker, Kept, Kept2, osmVars
<1>3. marker' \in {"none", "ready", "error"}
  BY <1>1 DEF ReadMarker, AwaitMarker, Fetch, Persist, SetMarker, osmVars, DeckTypes
<1>4. rows' \subseteq Local
  <2>1. CASE Persist(s)
    <3>1. req[s].cards \subseteq Local  BY <1>1, <2>1 DEF Persist, Okay, SlotOK, OnTheWay
    <3> QED  BY <1>1, <2>1, <3>1 DEF Persist, DeckTypes
  <2>2. CASE ~ Persist(s)
    BY <1>1, <2>2 DEF ReadMarker, AwaitMarker, Fetch, SetMarker, Kept, Kept2, DeckTypes
  <2> QED  BY <2>1, <2>2
<1>5. req[s].pc \in {"marker", "recheck", "wait", "fetch", "persist", "markready", "markerror"}
  BY DEF ReadMarker, AwaitMarker, Fetch, Persist, SetMarker
<1>6. ASSUME NEW n \in Requests, Set(s, n), n.pc \in Passing \ {"found"}, n.kind = req[s].kind,
             n.who = req[s].who, n.kept = req[s].kept, n.seen = req[s].seen, n.token = req[s].token,
             n.cards = req[s].cards \/ n.cards \subseteq Local, n.pc = "persist" => n.cards \subseteq Local,
             req[s].pc \in Filling => n.pc \in Filling
      PROVE  DeckIInv' /\ [QuotaNext]_quotaVars
  <2>1. OneFiller'  BY <1>2, <1>6, StillFilling
  <2>2. n.token => n.pc \in Filling  BY <1>1, <1>6 DEF Okay, SlotOK, Steps
  <2>3. req[s].pc \in Passing \ {"asking"}  BY <1>5 DEF Passing
  <2> QED  BY <1>1, <1>2, <1>3, <1>4, <1>6, <2>1, <2>2, <2>3, CellMoves DEF DeckTypes
<1>7. ASSUME NEW pc \in Passing \ {"found", "persist"}, Go(s, pc), req[s].pc \in Filling => pc \in Filling
      PROVE  DeckIInv' /\ [QuotaNext]_quotaVars
  <2> DEFINE n == [req[s] EXCEPT !.pc = pc]
  <2>1. /\ n \in Requests /\ n.pc = pc /\ n.kind = req[s].kind /\ n.who = req[s].who
        /\ n.kept = req[s].kept /\ n.seen = req[s].seen /\ n.cards = req[s].cards
        /\ n.token = req[s].token
    BY <1>1 DEF Requests, Passing
  <2>2. Set(s, n)  BY <1>7 DEF Go
  <2> HIDE DEF n
  <2> QED  BY <1>6, <1>7, <2>1, <2>2
<1>8. ASSUME NEW m \in Nat, Set(s, [req[s] EXCEPT !.pc = "fetch", !.mirror = m])
      PROVE  DeckIInv' /\ [QuotaNext]_quotaVars
  <2> DEFINE n == [req[s] EXCEPT !.pc = "fetch", !.mirror = m]
  <2>1. /\ n \in Requests /\ n.pc = "fetch" /\ n.kind = req[s].kind /\ n.who = req[s].who
        /\ n.kept = req[s].kept /\ n.seen = req[s].seen /\ n.cards = req[s].cards
        /\ n.token = req[s].token
    BY <1>1 DEF Requests
  <2>2. Set(s, n)  BY <1>8
  <2> HIDE DEF n
  <2> QED  BY <1>6, <2>1, <2>2 DEF Passing, Filling
<1>9. ASSUME NEW pc \in {"persist", "markready", "markerror"}, NEW C \in SUBSET Local,
             Set(s, [req[s] EXCEPT !.pc = pc, !.cards = C])
      PROVE  DeckIInv' /\ [QuotaNext]_quotaVars
  <2> DEFINE n == [req[s] EXCEPT !.pc = pc, !.cards = C]
  <2>1. /\ n \in Requests /\ n.pc = pc /\ n.kind = req[s].kind /\ n.who = req[s].who
        /\ n.kept = req[s].kept /\ n.seen = req[s].seen /\ n.cards = C
        /\ n.token = req[s].token
    BY <1>1 DEF Requests
  <2>2. Set(s, n)  BY <1>9
  <2> HIDE DEF n
  <2> QED  BY <1>6, <2>1, <2>2 DEF Passing, Filling
<1>10. CASE ReadMarker(s)
  BY <1>7, <1>8, <1>10 DEF ReadMarker, Passing, Filling
<1>11. CASE AwaitMarker(s)
  BY <1>7, <1>11 DEF AwaitMarker, Passing, Filling
<1>12. CASE Fetch(s)
  <2>1. ASSUME NEW elements \in Overpass, Set(s, [req[s] EXCEPT !.pc = "persist", !.cards = Parsed(elements)])
        PROVE  DeckIInv' /\ [QuotaNext]_quotaVars
    <3>1. elements \subseteq [row : Local, complete : BOOLEAN]  BY DiscoveryAssumption
    <3>2. Parsed(elements) \in SUBSET Local  BY <3>1 DEF Parsed
    <3> QED  BY <1>9, <2>1, <3>2
  <2>2. ASSUME req[s].pc = "fetch", Set(s, [req[s] EXCEPT !.mirror = req[s].mirror + 1])
        PROVE  DeckIInv' /\ [QuotaNext]_quotaVars
    <3> DEFINE n == [req[s] EXCEPT !.mirror = req[s].mirror + 1]
    <3>1. /\ n \in Requests /\ n.pc = "fetch" /\ n.kind = req[s].kind /\ n.who = req[s].who
          /\ n.kept = req[s].kept /\ n.seen = req[s].seen /\ n.cards = req[s].cards
          /\ n.token = req[s].token
      BY <1>1, <2>2 DEF Requests
    <3>2. Set(s, n)  BY <2>2
    <3> HIDE DEF n
    <3> QED  BY <1>6, <3>1, <3>2 DEF Passing, Filling
  <2>3. ASSUME Go(s, "markerror") PROVE DeckIInv' /\ [QuotaNext]_quotaVars
    BY <1>7, <2>3 DEF Passing, Filling
  <2> QED  BY <1>12, <2>1, <2>2, <2>3 DEF Fetch
<1>13. CASE Persist(s)
  <2>1. {} \in SUBSET Local  OBVIOUS
  <2> QED  BY <1>9, <1>13, <2>1 DEF Persist
<1>14. CASE SetMarker(s)
  BY <1>7, <1>14 DEF SetMarker, Passing, Filling
<1> QED  BY <1>10, <1>11, <1>12, <1>13, <1>14

\* Whoever takes the lock finds it free; whoever goes on without it has no token.
LEMMA AcquireSafe ==
    ASSUME DeckIInv, NEW s \in Slots, AcquireLock(s)
    PROVE  DeckIInv' /\ [QuotaNext]_quotaVars
<1>1. DeckTypes /\ Okay(s) /\ req[s] \in Requests  BY DEF DeckIInv, DeckTypes
<1>2. /\ UNCHANGED <<quotaVars, hidden, judged, live, inserting, decks, rows, marker, lapsed>>
      /\ req[s].pc = "lock"
  BY DEF AcquireLock, Kept2
<1>3. req[s].token = FALSE  BY <1>1, <1>2 DEF Okay, SlotOK, Steps, Filling, Requests
<1>4. ASSUME NEW n \in Requests, Set(s, n), n.pc \in {"recheck", "wait"}, n.kind = req[s].kind,
             n.who = req[s].who, n.kept = req[s].kept, n.seen = req[s].seen, n.cards = req[s].cards,
             n.token => n.pc \in Filling, lock' \in Slots \cup {NoSlot}, OneFiller'
      PROVE  DeckIInv' /\ [QuotaNext]_quotaVars
  <2>1. req[s].pc \in Passing \ {"asking"} /\ n.pc \in Passing  BY <1>2, <1>4 DEF Passing
  <2> QED  BY <1>1, <1>2, <1>4, <2>1, CellMoves DEF DeckTypes
<1>5. ASSUME lock = NoSlot, lock' = s, Set(s, [req[s] EXCEPT !.pc = "recheck", !.token = TRUE])
      PROVE  DeckIInv' /\ [QuotaNext]_quotaVars
  <2> DEFINE n == [req[s] EXCEPT !.pc = "recheck", !.token = TRUE]
  <2>1. /\ n \in Requests /\ n.pc = "recheck" /\ n.kind = req[s].kind /\ n.who = req[s].who
        /\ n.kept = req[s].kept /\ n.seen = req[s].seen /\ n.cards = req[s].cards
    BY <1>1 DEF Requests
  <2>2. Set(s, n)  BY <1>5
  <2> HIDE DEF n
  <2>3. \A t \in Slots \ {s} : req'[t] = req[t]  BY <1>1, <2>2 DEF Set, DeckTypes
  <2>4. OneFiller'
    BY <1>2, <1>5, <2>3, DiscoveryAssumption DEF DeckIInv, OneFiller, Holds
  <2> QED  BY <1>4, <1>5, <2>1, <2>2, <2>4 DEF Filling
<1>6. ASSUME NEW pc \in {"recheck", "wait"}, Go(s, pc), lock' = lock
      PROVE  DeckIInv' /\ [QuotaNext]_quotaVars
  <2> DEFINE n == [req[s] EXCEPT !.pc = pc]
  <2>1. /\ n \in Requests /\ n.pc = pc /\ n.kind = req[s].kind /\ n.who = req[s].who
        /\ n.kept = req[s].kept /\ n.seen = req[s].seen /\ n.cards = req[s].cards
        /\ n.token = req[s].token
    BY <1>1 DEF Requests
  <2>2. Set(s, n)  BY <1>6 DEF Go
  <2> HIDE DEF n
  <2>3. OneFiller'  BY <1>2, <1>6, <2>1, <2>2, StillFilling
  <2> QED  BY <1>1, <1>3, <1>4, <1>6, <2>1, <2>2, <2>3 DEF DeckTypes
<1> QED  BY <1>5, <1>6 DEF AcquireLock

\* A release deletes nobody else's token.
LEMMA ReleaseSafe ==
    ASSUME DeckIInv, NEW s \in Slots, ReleaseLock(s)
    PROVE  DeckIInv' /\ [QuotaNext]_quotaVars
<1>1. DeckTypes /\ Okay(s) /\ req[s] \in Requests  BY DEF DeckIInv, DeckTypes
<1>2. /\ UNCHANGED <<quotaVars, hidden, judged, live, inserting, decks, rows, marker>>
      /\ req[s].pc \in {"release", "raise"} /\ lapsed' = lapsed \ {s}
      /\ lock' = IF MayDelete(s) /\ lock' # lock THEN NoSlot ELSE lock
  BY DEF ReleaseLock, Kept2
<1>3. lock' \in Slots \cup {NoSlot} /\ (lock # s => lock' = lock)
  BY <1>1, <1>2 DEF MayDelete, DeckTypes
<1>4. ASSUME NEW n \in Requests, Set(s, n), n.pc \in {"requery", "found"}, n.kind = req[s].kind,
             n.who = req[s].who, n.kept = req[s].kept, n.seen = req[s].seen, n.cards = req[s].cards,
             n.token = FALSE, n.pc = "found" => n.within = {}
      PROVE  DeckIInv' /\ [QuotaNext]_quotaVars
  <2>1. req[s].pc \in Passing \ {"asking"} /\ n.pc \in Passing  BY <1>2, <1>4 DEF Passing
  <2>2. req'[s] = n /\ \A t \in Slots \ {s} : req'[t] = req[t]  BY <1>1, <1>4 DEF Set, DeckTypes
  <2>3. OneFiller'  BY <1>2, <1>3, <1>4, <2>2 DEF DeckIInv, OneFiller, Holds
  <2>4. lapsed' \subseteq Slots  BY <1>1, <1>2 DEF DeckTypes
  <2> QED  BY <1>1, <1>2, <1>3, <1>4, <2>1, <2>3, <2>4, CellMoves DEF DeckTypes
<1>5. ASSUME Set(s, [req[s] EXCEPT !.pc = "requery", !.token = FALSE])
      PROVE  DeckIInv' /\ [QuotaNext]_quotaVars
  <2> DEFINE n == [req[s] EXCEPT !.pc = "requery", !.token = FALSE]
  <2>1. /\ n \in Requests /\ n.pc = "requery" /\ n.kind = req[s].kind /\ n.who = req[s].who
        /\ n.kept = req[s].kept /\ n.seen = req[s].seen /\ n.cards = req[s].cards /\ n.token = FALSE
    BY <1>1 DEF Requests
  <2>2. Set(s, n)  BY <1>5
  <2> HIDE DEF n
  <2> QED  BY <1>4, <2>1, <2>2
<1>6. ASSUME Set(s, [req[s] EXCEPT !.pc = "found", !.token = FALSE, !.within = {}])
      PROVE  DeckIInv' /\ [QuotaNext]_quotaVars
  <2> DEFINE n == [req[s] EXCEPT !.pc = "found", !.token = FALSE, !.within = {}]
  <2>1. /\ n \in Requests /\ n.pc = "found" /\ n.kind = req[s].kind /\ n.who = req[s].who
        /\ n.kept = req[s].kept /\ n.seen = req[s].seen /\ n.cards = req[s].cards /\ n.token = FALSE
        /\ n.within = {}
    BY <1>1 DEF Requests
  <2>2. Set(s, n)  BY <1>6
  <2> HIDE DEF n
  <2> QED  BY <1>4, <2>1, <2>2
<1> QED  BY <1>5, <1>6 DEF ReleaseLock
--------------------------------------------------------------------------------
(* The world.                                                              *)

\* What happens to no request: restaurants are hidden and swiped, rows and keys expire.
LEMMA WorldMoves ==
    ASSUME DeckIInv, UNCHANGED <<quotaVars, live, inserting, decks, req>>,
           rows' \subseteq Local, hidden \subseteq hidden', hidden' \subseteq Local,
           judged' \in [Users -> SUBSET Local], \A u \in Users : judged[u] \subseteq judged'[u],
           marker' \in {"none", "ready", "error"}, lock' \in Slots \cup {NoSlot}, lapsed' \subseteq Slots,
           OneFiller'
    PROVE  DeckIInv' /\ [QuotaNext]_quotaVars
<1> USE DEF DeckIInv
<1>1. QuotaIInv'  BY QuotaStep
<1>2. CallsOwned'  BY DEF CallsOwned, quotaVars
<1>3. DeckTypes'  BY DEF DeckTypes
<1>4. StoredDecks'  BY DEF StoredDecks
<1>5. \A t \in Slots : Okay(t)'  BY OthersOkay DEF DeckTypes
<1> QED  BY <1>1, <1>2, <1>3, <1>4, <1>5, NoMoney

LEMMA WorldSafe ==
    ASSUME DeckIInv,
           \/ LockExpires \/ MarkerExpires \/ RowsExpire
           \/ \E r \in Local : Hide(r) \/ \E u \in Users : Judge(u, r)
    PROVE  DeckIInv' /\ [QuotaNext]_quotaVars
<1>1. DeckTypes /\ OneFiller  BY DEF DeckIInv
<1>2. CASE LockExpires
  <2>1. OneFiller'  BY <1>1, <1>2 DEF LockExpires, Kept2, OneFiller, Holds
  <2> QED  BY <1>1, <1>2, <2>1, WorldMoves DEF LockExpires, Kept2, DeckTypes
<1>3. CASE MarkerExpires \/ RowsExpire
  <2>1. OneFiller'  BY <1>1, <1>3 DEF MarkerExpires, RowsExpire, osmVars, OneFiller, Holds
  <2> QED  BY <1>1, <1>3, <2>1, WorldMoves DEF MarkerExpires, RowsExpire, osmVars, DeckTypes
<1>4. ASSUME NEW r \in Local, Hide(r) PROVE DeckIInv' /\ [QuotaNext]_quotaVars
  <2>1. OneFiller'  BY <1>1, <1>4 DEF Hide, osmVars, OneFiller, Holds
  <2> QED  BY <1>1, <1>4, <2>1, WorldMoves DEF Hide, osmVars, DeckTypes
<1>5. ASSUME NEW r \in Local, NEW u \in Users, Judge(u, r) PROVE DeckIInv' /\ [QuotaNext]_quotaVars
  <2>1. OneFiller'  BY <1>1, <1>5 DEF Judge, osmVars, OneFiller, Holds
  <2>2. judged' \in [Users -> SUBSET Local] /\ \A v \in Users : judged[v] \subseteq judged'[v]
    BY <1>1, <1>5 DEF Judge, DeckTypes
  <2> QED  BY <1>1, <1>5, <2>1, <2>2, WorldMoves DEF Judge, osmVars, DeckTypes
<1> QED  BY <1>2, <1>3, <1>4, <1>5

\* A restaurant that comes back is one that requests under way may deal.
LEMMA UnhideSafe ==
    ASSUME DeckIInv, NEW r \in Local, Unhide(r)
    PROVE  DeckIInv' /\ [QuotaNext]_quotaVars
<1>1. DeckTypes  BY DEF DeckIInv
<1>2. /\ hidden' = hidden \ {r}
      /\ req' = [s \in Slots |-> [req[s] EXCEPT !.kept = req[s].kept \ {r}]]
      /\ UNCHANGED <<quotaVars, osmVars, rows, judged, live, inserting, decks>>
  BY DEF Unhide
<1>3. ASSUME NEW s \in Slots
      PROVE  /\ req'[s] \in Requests /\ req'[s].pc = req[s].pc /\ req'[s].kind = req[s].kind
             /\ req'[s].who = req[s].who /\ req'[s].query = req[s].query
             /\ req'[s].within = req[s].within /\ req'[s].cards = req[s].cards
             /\ req'[s].todo = req[s].todo /\ req'[s].kept = req[s].kept \ {r}
             /\ req'[s].seen = req[s].seen /\ req'[s].token = req[s].token
  BY <1>1, <1>2 DEF DeckTypes, Requests
<1>4. DeckTypes'  BY <1>1, <1>2, <1>3 DEF DeckTypes, osmVars
<1>5. QuotaIInv'  BY <1>2, QuotaStep DEF DeckIInv
<1>6. CallsOwned'
  <2>1. \A c \in Calls : c[1] \in Slots  BY CallsAssumption
  <2> QED  BY <1>2, <1>3, <2>1 DEF DeckIInv, CallsOwned, quotaVars
<1>7. OneFiller'  BY <1>2, <1>3 DEF DeckIInv, OneFiller, Holds, osmVars
<1>8. StoredDecks'  BY <1>2 DEF DeckIInv, StoredDecks
<1>9. ASSUME NEW s \in Slots PROVE Okay(s)'
  <2>1. Okay(s)  BY DEF DeckIInv
  <2>2. Steps(req'[s]) /\ Unwanted(req'[s], hidden', judged) /\ Clean(req'[s]) /\ OnTheWay(req'[s])
    BY <1>2, <1>3, <2>1 DEF Okay, SlotOK, Steps, Unwanted, Clean, OnTheWay
  <2>3. Placing(s, req'[s], inserting, live) /\ Decking(s, req'[s], decks)
    BY <1>3, <2>1 DEF Okay, SlotOK, Placing, Decking
  <2> QED  BY <1>2, <2>2, <2>3 DEF Okay, SlotOK
<1> QED  BY <1>2, <1>4, <1>5, <1>6, <1>7, <1>8, <1>9, NoMoney DEF DeckIInv

\* Calls that are under way go on as GoogleQuota says.
LEMMA GoogleSafe ==
    ASSUME DeckIInv, Google
    PROVE  DeckIInv' /\ [QuotaNext]_quotaVars
<1>1. /\ UNCHANGED <<osmVars, req, rows, hidden, judged, live, inserting, decks>>
      /\ (\E c \in Calls : Calling(c)) \/ CooldownEnds \/ MonthTurns
  BY DEF Google
<1>2. QuotaNext  BY <1>1 DEF QuotaNext
<1>3. QuotaIInv'  BY <1>2, QuotaStep DEF DeckIInv
<1>4. CallsOwned'
  <2>1. \A c \in Calls : call'[c].stage # "idle" => call[c].stage # "idle"
    <3>1. CASE CooldownEnds \/ MonthTurns  BY <3>1 DEF CooldownEnds, MonthTurns
    <3>2. ASSUME NEW c \in Calls, Calling(c)
          PROVE  \A d \in Calls : call'[d].stage # "idle" => call[d].stage # "idle"
      <4>1. call[c].stage # "idle"
        BY <3>2 DEF Calling, Throttle, ReserveMonthly, Send, Answer
      <4>2. \A d \in Calls \ {c} : call'[d] = call[d]
        BY <3>2 DEF Calling, Throttle, ReserveMonthly, Send, Answer, DeckIInv, QuotaIInv, QuotaTypeOK
      <4> QED  BY <4>1, <4>2
    <3> QED  BY <1>1, <3>1, <3>2
  <2> QED  BY <1>1, <2>1 DEF DeckIInv, CallsOwned
<1>5. /\ DeckTypes' /\ OneFiller' /\ StoredDecks' /\ \A s \in Slots : Okay(s)'
  BY <1>1 DEF DeckIInv, DeckTypes, OneFiller, Holds, StoredDecks, Okay, osmVars
<1> QED  BY <1>2, <1>3, <1>4, <1>5 DEF DeckIInv


\* Every step keeps the invariant, and is a step of the quota or none of its business.
LEMMA DeckStep == DeckIInv /\ [DiscoveryNext]_vars => DeckIInv' /\ [QuotaNext]_quotaVars
<1> SUFFICES ASSUME DeckIInv, [DiscoveryNext]_vars
             PROVE  DeckIInv' /\ [QuotaNext]_quotaVars
  OBVIOUS
<1>1. ASSUME NEW s \in Slots, Asking(s) PROVE DeckIInv' /\ [QuotaNext]_quotaVars
  BY <1>1, BeginSafe, SearchSafe, DealSafe, ReceiveSafe, PhotosSafe, InsertSafe, CommitSafe,
     RecoverSafe, RecoveredSafe, RespondSafe DEF Asking
<1>2. ASSUME NEW s \in Slots, EnsuringArea(s) PROVE DeckIInv' /\ [QuotaNext]_quotaVars
  BY <1>2, CellReads, AcquireSafe, ReleaseSafe DEF EnsuringArea
<1>3. CASE UNCHANGED vars
  <2>1. UNCHANGED quotaVars /\ QuotaIInv'  BY <1>3, QuotaStep DEF vars, DeckIInv
  <2> QED
    BY <1>3, <2>1 DEF vars, quotaVars, osmVars, deckVars, DeckIInv, DeckTypes, CallsOwned, OneFiller,
                      Holds, StoredDecks, Okay
<1> QED
  BY <1>1, <1>2, <1>3, CrashSafe, GoogleSafe, WorldSafe, UnhideSafe DEF DiscoveryNext

LEMMA DeckInvariant == DiscoverySpec => []DeckIInv
<1> QED  BY DeckInit, DeckStep, PTL DEF DiscoverySpec

\* Decks, photos and look-ups spend money only as reserve allows: Discovery implements
\* GoogleQuota (restaurant_service.py, google_places_service.py).
THEOREM SpendsAsAllowed == DiscoverySpec => ImplementsQuota
<1>1. DiscoveryInit => QuotaInit  BY DEF DiscoveryInit
<1> QED  BY <1>1, DeckInvariant, DeckStep, PTL DEF DiscoverySpec, ImplementsQuota, QuotaSpec

\* No search, photo or look-up sends a call beyond the hard limit of its month
\* (quota_service.py, reserve).
THEOREM DecksWithinLimit == DiscoverySpec => []WithinLimit
<1> QED  BY SpendsAsAllowed, LimitHolds DEF ImplementsQuota

\* Who took the lock of the cell has it until it is given back or runs out
\* (osm_fallback_service.py, _release_lock).
THEOREM OneFillerAtATime == DiscoverySpec => []OneFiller
<1>1. DeckIInv => OneFiller  BY DEF DeckIInv
<1> QED  BY <1>1, DeckInvariant, PTL

\* A start that waits for a placeholder row of another one that waits is behind it.
LEMMA WaitsAhead ==
    ASSUME DeckIInv, NEW s \in Slots, NEW t \in Slots, WaitsFor(s, t), req[t].pc = "insert"
    PROVE  /\ NextPlaceholder(s) \in Places /\ NextPlaceholder(t) \in Places
           /\ NextPlaceholder(s) < NextPlaceholder(t)
<1> DEFINE p == NextPlaceholder(s)  q == NextPlaceholder(t)
<1>1. req[s].pc = "insert" /\ inserting[p] = t  BY DEF WaitsFor
<1>2. /\ req[s].todo # {} /\ req[s].todo \in SUBSET Nat /\ req[s].todo \subseteq Places
      /\ req[t].todo # {} /\ req[t].todo \in SUBSET Nat /\ req[t].todo \subseteq Places
  BY <1>1, DiscoveryAssumption DEF DeckIInv, DeckTypes, Okay, SlotOK, OnTheWay, Requests
<1>3. p \in req[s].todo /\ q \in req[t].todo  BY <1>2, LeastOne DEF NextPlaceholder
<1>4. p \in Places /\ q \in Places  BY <1>2, <1>3
<1> HIDE DEF p, q
<1>5. p < q  BY <1>1, <1>3, <1>4 DEF DeckIInv, Okay, SlotOK, Placing
<1> QED  BY <1>4, <1>5 DEF p, q

\* However many starts insert placeholder rows, one of them waits for none of the others,
\* as each inserts its own in the order of their ids (restaurant_service.py,
\* create_session_deck): the one that waits for the last row can only wait for a later one.
THEOREM InsertsInOrder == DiscoverySpec => []NoInsertDeadlock
<1>1. ASSUME DeckIInv, NEW W \in SUBSET Slots, W # {}, \A s \in W : \E t \in W : WaitsFor(s, t) PROVE FALSE
  <2> DEFINE Ahead(s) == {p \in Places : NextPlaceholder(s) <= p}
             T == {Cardinality(Ahead(s)) : s \in W}
  <2>1. \A s \in W : IsFiniteSet(Ahead(s)) /\ Cardinality(Ahead(s)) \in Nat
    BY DiscoveryAssumption, FS_Subset, FS_CardinalityType
  <2>2. T \in SUBSET Nat /\ T # {}  BY <1>1, <2>1
  <2>3. PICK s \in W : \A x \in T : Cardinality(Ahead(s)) <= x
    <3> HIDE DEF Ahead
    <3>1. Min(T) \in T /\ \A x \in T : Min(T) <= x
      <4> HIDE DEF T
      <4> QED  BY <2>2, LeastOne
    <3> QED  BY <3>1
  <2>4. PICK t \in W : WaitsFor(s, t)  BY <1>1
  <2>5. req[t].pc = "insert"  BY <1>1 DEF WaitsFor
  <2>6. /\ NextPlaceholder(s) \in Nat /\ NextPlaceholder(t) \in Nat /\ NextPlaceholder(s) \in Places
        /\ NextPlaceholder(s) < NextPlaceholder(t)
    BY <1>1, <2>4, <2>5, WaitsAhead, DiscoveryAssumption
  <2>7. Ahead(t) \subseteq Ahead(s) /\ NextPlaceholder(s) \in Ahead(s) \ Ahead(t)
    <3> DEFINE n == NextPlaceholder(s)  m == NextPlaceholder(t)
    <3>1. n \in Nat /\ m \in Nat /\ n \in Places /\ n < m  BY <2>6
    <3> HIDE DEF n, m
    <3>2. n <= n /\ ~ (m <= n) /\ \A p \in Places : m <= p => n <= p
      BY <3>1, DiscoveryAssumption
    <3>3. {p \in Places : m <= p} \subseteq {p \in Places : n <= p}  BY <3>2
    <3>4. n \in {p \in Places : n <= p} /\ n \notin {p \in Places : m <= p}  BY <3>1, <3>2
    <3> QED  BY <3>3, <3>4 DEF n, m
  <2>8. Cardinality(Ahead(s)) <= Cardinality(Ahead(t))  BY <2>3
  <2> HIDE DEF Ahead, T
  <2>9. Cardinality(Ahead(t)) <= Cardinality(Ahead(s)) /\ Cardinality(Ahead(t)) # Cardinality(Ahead(s))
    BY <2>1, <2>7, FS_Subset
  <2> QED  BY <2>1, <2>8, <2>9
<1>2. DeckIInv => NoInsertDeadlock  BY <1>1 DEF NoInsertDeadlock
<1> QED  BY <1>2, DeckInvariant, PTL

\* A session has no deck or a whole one, and who looks it up gets its cards
\* (restaurant_service.py, create_session_deck and get_session_deck).
THEOREM DecksWhole == DiscoverySpec => []SessionDecksWhole
<1>1. ASSUME DeckIInv PROVE SessionDecksWhole
  <2>1. DiscoveryTypeOK
    BY <1>1 DEF DeckIInv, DeckTypes, StoredDecks, CallsOwned, Awaits, Okay, SlotOK, OnTheWay,
                Homogeneous, DiscoveryTypeOK
  <2>2. \A s \in Slots : decks[s] = {} \/ Cardinality(decks[s]) \in MinLocal..MaxDeck
    BY <1>1 DEF DeckIInv, StoredDecks, WholeDeck
  <2>3. \A s \in Slots : Delivered(s, {"recover"}) => \E d \in Slots : req[s].cards = decks[d]
    BY <1>1 DEF DeckIInv, Okay, SlotOK, Decking, Delivered
  <2> QED  BY <2>1, <2>2, <2>3 DEF SessionDecksWhole
<1> QED  BY <1>1, DeckInvariant, PTL

\* Nobody is dealt what stayed hidden, nor alone what one had judged or seen
\* (restaurant_service.py, get_solo_deck and _deduplicate_google_cards).
THEOREM DecksFresh == DiscoverySpec => []DealtFresh
<1>1. DeckIInv => DealtFresh
  BY DEF DeckIInv, Okay, SlotOK, Clean, Delivered, DealtFresh
<1> QED  BY <1>1, DeckInvariant, PTL
================================================================================
