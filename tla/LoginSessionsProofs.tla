-------------------------- MODULE LoginSessionsProofs --------------------------
(***************************************************************************)
(* Proofs about LoginSessions, for any number of users, families, handlers,*)
(* tokens, resets and crashes.                                             *)
(***************************************************************************)
EXTENDS LoginSessions, TLAPS

\* One transaction at a time has the users row, and one the auth_sessions row.
UserExclusive ==
    \A t, s \in Slots, u \in Users :
        HoldsUser(t, u) /\ s # t => ~ HoldsUser(s, u) /\ ~ PinsUser(s, u)

FamilyExclusive ==
    \A t, s \in Slots, f \in Families :
        HoldsFamily(t, f) /\ s # t => ~ HoldsFamily(s, f)

\* What a running request is about.
Addressed ==
    \A t \in Slots : pc[t] # "idle" =>
        /\ req[t].kind \in {"login", "refresh", "reset"} => req[t].user \in Users
        /\ req[t].kind \in {"refresh", "logout"} => req[t].family \in Families
        /\ pc[t] = "verified" => req[t].kind = "login"

\* What a slot has read under the lock still holds; a login remembers password
\* and version of one moment.
HeldIsVersion ==
    \A t \in Slots : pc[t] # "idle" =>
        /\ req[t].kind = "login" => held[t] <= version[req[t].user] /\ req[t].proof = held[t]
        /\ req[t].kind = "refresh" => held[t] = version[req[t].user] /\ req[t].proof = held[t]
        /\ req[t].kind = "reset" => held[t] = version[req[t].user]

\* Every token names the version its login knew the password of.
TokensOfLogins ==
    \A k \in issued : k.proof = k.ver /\ k.ver <= version[k.user] /\ 1 <= k.id /\ k.id <= minted

\* A row exists only under an id that tokens were issued for, and the hash in it
\* is that of one token, which nobody has exchanged.
RowsOfTokens ==
    \A f \in Families :
        owner[f] # NoUser =>
            /\ \E k \in issued : k.family = f
            /\ 1 <= current[f] /\ current[f] <= minted /\ current[f] \notin spent
            /\ \A g \in Families : owner[g] # NoUser /\ current[g] = current[f] => g = f

SpentWereMinted == \A i \in spent : 1 <= i /\ i <= minted

\* A slot that has answered: its new token is nobody else's, a login's row is
\* not there yet, a refresh is about the row's present token.
Unsaved(t) == pc[t] = "written" /\ req[t].kind \in {"login", "refresh"}

FreshIsFresh ==
    \A t \in Slots :
        Unsaved(t) =>
            /\ req[t].family \in Families
            /\ 1 <= fresh[t] /\ fresh[t] <= minted /\ fresh[t] \notin spent
            /\ \A g \in Families : owner[g] # NoUser => current[g] # fresh[t]
            /\ \A s \in Slots : Unsaved(s) /\ s # t => fresh[s] # fresh[t]
            /\ \E k \in issued : k.family = req[t].family

LoginsAreNew ==
    \A t \in Slots :
        Unsaved(t) /\ req[t].kind = "login" =>
            /\ owner[req[t].family] = NoUser
            /\ \A s \in Slots : Unsaved(s) /\ s # t => req[s].family # req[t].family

RotatesPresent ==
    \A t \in Slots :
        Unsaved(t) /\ req[t].kind = "refresh" =>
            owner[req[t].family] # NoUser /\ current[req[t].family] = req[t].id

IInv ==
    /\ LoginTypeOK /\ ResetsCounted
    /\ UserExclusive /\ FamilyExclusive /\ Addressed /\ HeldIsVersion
    /\ TokensOfLogins /\ RowsOfTokens /\ SpentWereMinted
    /\ FreshIsFresh /\ LoginsAreNew /\ RotatesPresent
--------------------------------------------------------------------------------
(* Preservation, one lemma per kind of step.                               *)

\* A slot that is done, or died, holds nothing and is about nothing.
LEMMA EndStep ==
    ASSUME IInv, NEW t \in Slots, End(t),
           UNCHANGED <<password, version, owner, current, minted, issued, spent>>,
           revoked' \subseteq Families, expired' \subseteq Families,
           replayed' \subseteq Families, crashes' \in 0..MaxCrashes
    PROVE  IInv'
PROOF
<1>1. \A s \in Slots : s # t => pc'[s] = pc[s] /\ req'[s] = req[s] /\ held'[s] = held[s] /\ fresh'[s] = fresh[s]
  BY DEF IInv, LoginTypeOK, End
<1>2. pc'[t] = "idle"
  BY DEF IInv, LoginTypeOK, End
<1>3. LoginTypeOK'
  <2>1. NoRequest \in Requests
    BY DEF NoRequest, Requests
  <2> QED
    BY <2>1 DEF IInv, LoginTypeOK, End, Places
<1>4. UserExclusive' /\ FamilyExclusive'
  BY <1>1, <1>2 DEF IInv, UserExclusive, FamilyExclusive, HoldsUser, PinsUser, HoldsFamily
<1>5. Addressed' /\ HeldIsVersion'
  BY <1>1, <1>2 DEF IInv, Addressed, HeldIsVersion
<1>6. FreshIsFresh' /\ LoginsAreNew' /\ RotatesPresent'
  BY <1>1, <1>2 DEF IInv, FreshIsFresh, LoginsAreNew, RotatesPresent, Unsaved
<1> QED
  BY <1>3, <1>4, <1>5, <1>6
  DEF IInv, ResetsCounted, TokensOfLogins, RowsOfTokens, SpentWereMinted

\* A handler that begins has minted nothing yet.
LEMMA AcceptStep ==
    ASSUME IInv, NEW t \in Slots, NEW r \in Requests, NEW place \in {"verified", "locked", "written"},
           Accept(t, r, place), NEW h \in Nat, held' = [held EXCEPT ![t] = h],
           UNCHANGED <<password, version, owner, current, revoked, expired, fresh, minted, issued,
                       spent, replayed, crashes>>,
           r.kind = "login" => place = "verified" /\ r.user \in Users,
           r.kind \in {"refresh", "reset"} =>
               r.user \in Users /\ UserFree(r.user),
           place = "verified" => r.kind = "login",
           r.kind = "refresh" => place = "locked",
           r.kind \in {"refresh", "logout"} => r.family \in Families,
           r.kind = "logout" => FamilyFree(r.family),
           r.kind \in {"login", "refresh", "reset"} => h = version[r.user],
           r.kind \in {"login", "refresh"} => r.proof = h
    PROVE  IInv'
PROOF
<1>1. \A s \in Slots : s # t => pc'[s] = pc[s] /\ req'[s] = req[s] /\ held'[s] = held[s] /\ fresh'[s] = fresh[s]
  BY DEF IInv, LoginTypeOK, Accept
<1>2. pc'[t] = place /\ req'[t] = r /\ held'[t] = h
  BY DEF IInv, LoginTypeOK, Accept
<1>3. LoginTypeOK'
  BY DEF IInv, LoginTypeOK, Accept, Places
<1>4. UserExclusive'
  BY <1>1, <1>2 DEF IInv, UserExclusive, HoldsUser, PinsUser, UserFree
<1>5. FamilyExclusive'
  BY <1>1, <1>2 DEF IInv, FamilyExclusive, HoldsFamily, FamilyFree
<1>6. Addressed'
  BY <1>1, <1>2 DEF IInv, Addressed
<1>7. HeldIsVersion'
  BY <1>1, <1>2 DEF IInv, HeldIsVersion, LoginTypeOK
<1>8. FreshIsFresh' /\ LoginsAreNew' /\ RotatesPresent'
  BY <1>1, <1>2 DEF IInv, FreshIsFresh, LoginsAreNew, RotatesPresent, Unsaved
<1> QED
  BY <1>3, <1>4, <1>5, <1>6, <1>7, <1>8
  DEF IInv, ResetsCounted, TokensOfLogins, RowsOfTokens, SpentWereMinted

\* The new token of StartSession and RefreshRotates.
LEMMA IssuedIsToken ==
    ASSUME IInv, NEW t \in Slots, NEW f \in Families, NEW parent \in Nat,
           Issue(t, f, parent, req[t].proof),
           pc[t] # "idle", req[t].kind \in {"login", "refresh"}
    PROVE  /\ minted' = minted + 1 /\ minted \in Nat
           /\ fresh' = [fresh EXCEPT ![t] = minted + 1]
           /\ pc' = [pc EXCEPT ![t] = "written"]
           /\ \E k \in Tokens :
                 /\ issued' = issued \cup {k}
                 /\ k.user = req[t].user /\ k.family = f /\ k.id = minted + 1 /\ k.parent = parent
                 /\ k.proof = k.ver /\ k.ver <= version[k.user]
PROOF
<1> DEFINE k == [user |-> req[t].user, family |-> f, ver |-> held[t],
                 id |-> minted + 1, parent |-> parent, proof |-> req[t].proof]
<1>1. req[t].user \in Users /\ held[t] \in Nat /\ held[t] <= version[req[t].user]
      /\ req[t].proof = held[t] /\ minted \in Nat
  BY DEF IInv, Addressed, HeldIsVersion, LoginTypeOK
<1>2. k \in Tokens
  BY <1>1 DEF Tokens
<1> QED
  BY <1>1, <1>2 DEF Issue

\* The new token is younger than all others.
LEMMA TokenAges ==
    ASSUME IInv, NEW k \in Tokens, k.proof = k.ver, k.ver <= version[k.user], k.id = minted + 1,
           minted' = minted + 1, issued' = issued \cup {k}, UNCHANGED <<version, spent>>
    PROVE  TokensOfLogins' /\ SpentWereMinted'
PROOF
<1>1. minted \in Nat /\ \A i \in spent : i \in Nat
  BY DEF IInv, LoginTypeOK
<1>2. \A j \in issued : j.id \in Nat /\ 1 <= j.id /\ j.id <= minted /\ j.proof = j.ver /\ j.ver <= version[j.user]
  BY DEF IInv, LoginTypeOK, TokensOfLogins, Tokens
<1>3. TokensOfLogins'
  BY <1>1, <1>2 DEF TokensOfLogins
<1>4. SpentWereMinted'
  BY <1>1 DEF IInv, SpentWereMinted
<1> QED
  BY <1>3, <1>4

LEMMA StartSessionStep ==
    ASSUME IInv, NEW t \in Slots, StartSession(t)
    PROVE  IInv'
PROOF
<1>1. PICK f \in Families :
          /\ \A k \in issued : k.family # f
          /\ req' = [req EXCEPT ![t].family = f]
          /\ Issue(t, f, 0, req[t].proof)
  BY DEF StartSession
<1>2. pc[t] = "verified" /\ (\A s \in Slots : ~ HoldsUser(s, req[t].user))
      /\ UNCHANGED <<password, version, owner, current, revoked, expired, held, spent, replayed, crashes>>
  BY DEF StartSession, rows
<1>3. req[t] \in Requests /\ req[t].kind = "login" /\ req[t].user \in Users
  BY <1>2 DEF IInv, LoginTypeOK, Addressed
<1>4. req'[t] \in Requests /\ req'[t].kind = "login" /\ req'[t].user = req[t].user
      /\ req'[t].family = f /\ req'[t].proof = req[t].proof
  BY <1>1, <1>3 DEF IInv, LoginTypeOK, Requests
<1>5. PICK k \in Tokens :
          /\ minted' = minted + 1 /\ minted \in Nat
          /\ fresh' = [fresh EXCEPT ![t] = minted + 1]
          /\ pc' = [pc EXCEPT ![t] = "written"]
          /\ issued' = issued \cup {k}
          /\ k.user = req[t].user /\ k.family = f /\ k.id = minted + 1
          /\ k.proof = k.ver /\ k.ver <= version[k.user]
  BY <1>1, <1>2, <1>3, IssuedIsToken
<1>6. \A s \in Slots : s # t => pc'[s] = pc[s] /\ req'[s] = req[s] /\ fresh'[s] = fresh[s]
  BY <1>1, <1>5 DEF IInv, LoginTypeOK
<1>7. pc'[t] = "written" /\ fresh'[t] = minted + 1
  BY <1>5 DEF IInv, LoginTypeOK
<1>8. LoginTypeOK'
  <2>1. req' \in [Slots -> Requests]
    BY <1>1, <1>4, <1>6 DEF IInv, LoginTypeOK
  <2>2. pc' \in [Slots -> Places] /\ fresh' \in [Slots -> Nat] /\ minted' \in Nat
    BY <1>5 DEF IInv, LoginTypeOK, Places
  <2>3. issued' \subseteq Tokens
    BY <1>5 DEF IInv, LoginTypeOK
  <2> QED
    BY <1>2, <2>1, <2>2, <2>3 DEF IInv, LoginTypeOK
<1>9. UserExclusive' /\ FamilyExclusive'
  BY <1>2, <1>4, <1>6, <1>7 DEF IInv, UserExclusive, FamilyExclusive, HoldsUser, PinsUser, HoldsFamily
<1>10. Addressed' /\ HeldIsVersion'
  BY <1>2, <1>3, <1>4, <1>6, <1>7 DEF IInv, Addressed, HeldIsVersion
<1>11. TokensOfLogins' /\ SpentWereMinted'
  BY <1>2, <1>5, TokenAges
<1>12. RowsOfTokens'
  BY <1>2, <1>5 DEF IInv, RowsOfTokens, LoginTypeOK
<1>13. owner[f] = NoUser
  BY <1>1 DEF IInv, RowsOfTokens
<1>14. FreshIsFresh'
  <2>1. minted + 1 \notin spent /\ \A g \in Families : owner[g] # NoUser => current[g] # minted + 1
    BY <1>5 DEF IInv, SpentWereMinted, RowsOfTokens, LoginTypeOK
  <2>2. \A s \in Slots : s # t /\ Unsaved(s) => fresh[s] # minted + 1
    BY <1>5 DEF IInv, FreshIsFresh, LoginTypeOK
  <2> QED
    BY <1>2, <1>4, <1>5, <1>6, <1>7, <2>1, <2>2 DEF IInv, FreshIsFresh, Unsaved, LoginTypeOK
<1>15. LoginsAreNew'
  <2>1. \A s \in Slots : Unsaved(s) => req[s].family # f
    BY <1>1 DEF IInv, FreshIsFresh
  <2> QED
    BY <1>2, <1>4, <1>6, <1>7, <1>13, <2>1 DEF IInv, LoginsAreNew, Unsaved
<1>16. RotatesPresent'
  BY <1>2, <1>4, <1>6, <1>7 DEF IInv, RotatesPresent, Unsaved
<1> QED
  BY <1>2, <1>8, <1>9, <1>10, <1>11, <1>12, <1>14, <1>15, <1>16 DEF IInv, ResetsCounted

LEMMA RefreshRotatesStep ==
    ASSUME IInv, NEW t \in Slots, RefreshRotates(t)
    PROVE  IInv'
PROOF
<1> DEFINE f == req[t].family
<1>1. /\ pc[t] = "locked" /\ req[t].kind = "refresh" /\ FamilyFree(f)
      /\ Active(f) /\ current[f] = req[t].id /\ Issue(t, f, req[t].id, req[t].proof)
      /\ UNCHANGED <<password, version, owner, current, revoked, expired, req, held, spent,
                     replayed, crashes>>
  BY DEF RefreshRotates, rows
<1>2. f \in Families /\ req[t].user \in Users /\ req[t].id \in Nat
  BY <1>1 DEF IInv, LoginTypeOK, Addressed, Requests
<1>3. PICK k \in Tokens :
          /\ minted' = minted + 1 /\ minted \in Nat
          /\ fresh' = [fresh EXCEPT ![t] = minted + 1]
          /\ pc' = [pc EXCEPT ![t] = "written"]
          /\ issued' = issued \cup {k}
          /\ k.user = req[t].user /\ k.family = f /\ k.id = minted + 1
          /\ k.proof = k.ver /\ k.ver <= version[k.user]
  BY <1>1, <1>2, IssuedIsToken
<1>4. \A s \in Slots : s # t => pc'[s] = pc[s] /\ fresh'[s] = fresh[s]
  BY <1>3 DEF IInv, LoginTypeOK
<1>5. pc'[t] = "written" /\ fresh'[t] = minted + 1
  BY <1>3 DEF IInv, LoginTypeOK
<1>6. LoginTypeOK'
  BY <1>1, <1>3 DEF IInv, LoginTypeOK, Places
<1>7. UserExclusive'
  BY <1>1, <1>4, <1>5 DEF IInv, UserExclusive, HoldsUser, PinsUser
<1>8. FamilyExclusive'
  BY <1>1, <1>4, <1>5 DEF IInv, FamilyExclusive, HoldsFamily, FamilyFree
<1>9. Addressed' /\ HeldIsVersion'
  BY <1>1, <1>4, <1>5 DEF IInv, Addressed, HeldIsVersion
<1>10. TokensOfLogins' /\ SpentWereMinted'
  BY <1>1, <1>3, TokenAges
<1>11. RowsOfTokens'
  BY <1>1, <1>3 DEF IInv, RowsOfTokens, LoginTypeOK
<1>12. FreshIsFresh'
  <2>1. minted + 1 \notin spent /\ \A g \in Families : owner[g] # NoUser => current[g] # minted + 1
    BY <1>3 DEF IInv, SpentWereMinted, RowsOfTokens, LoginTypeOK
  <2>2. \A s \in Slots : s # t /\ Unsaved(s) => fresh[s] # minted + 1
    BY <1>3 DEF IInv, FreshIsFresh, LoginTypeOK
  <2> QED
    BY <1>1, <1>2, <1>3, <1>4, <1>5, <2>1, <2>2 DEF IInv, FreshIsFresh, Unsaved, LoginTypeOK
<1>13. LoginsAreNew' /\ RotatesPresent'
  BY <1>1, <1>2, <1>4, <1>5 DEF IInv, LoginsAreNew, RotatesPresent, Unsaved, Active
<1> QED
  BY <1>1, <1>6, <1>7, <1>8, <1>9, <1>10, <1>11, <1>12, <1>13 DEF IInv, ResetsCounted

LEMMA CommitLoginStep ==
    ASSUME IInv, NEW t \in Slots, CommitLogin(t)
    PROVE  IInv'
PROOF
<1> DEFINE f == req[t].family
<1>1. /\ Unsaved(t) /\ req[t].kind = "login" /\ End(t)
      /\ owner' = [owner EXCEPT ![f] = req[t].user]
      /\ current' = [current EXCEPT ![f] = fresh[t]]
      /\ UNCHANGED <<password, version, revoked, expired, minted, issued, spent, replayed, crashes>>
  BY DEF CommitLogin, Unsaved, logs
<1>2. f \in Families /\ req[t].user \in Users /\ fresh[t] \in Nat
  BY <1>1 DEF IInv, LoginTypeOK, Addressed, FreshIsFresh, Unsaved
<1>3. \A s \in Slots : s # t => pc'[s] = pc[s] /\ req'[s] = req[s] /\ held'[s] = held[s] /\ fresh'[s] = fresh[s]
  BY <1>1 DEF IInv, LoginTypeOK, End
<1>4. pc'[t] = "idle"
  BY <1>1 DEF IInv, LoginTypeOK, End
<1>5. \A g \in Families : /\ owner'[g] = IF g = f THEN req[t].user ELSE owner[g]
                          /\ current'[g] = IF g = f THEN fresh[t] ELSE current[g]
  BY <1>1, <1>2 DEF IInv, LoginTypeOK
<1>6. LoginTypeOK'
  <2>1. NoRequest \in Requests
    BY DEF NoRequest, Requests
  <2>2. pc' \in [Slots -> Places] /\ req' \in [Slots -> Requests] /\ held' \in [Slots -> Nat]
        /\ fresh' \in [Slots -> Nat]
    BY <1>1, <2>1 DEF IInv, LoginTypeOK, End, Places
  <2> QED
    BY <1>1, <1>2, <2>2 DEF IInv, LoginTypeOK
<1>7. UserExclusive' /\ FamilyExclusive'
  BY <1>3, <1>4 DEF IInv, UserExclusive, FamilyExclusive, HoldsUser, PinsUser, HoldsFamily
<1>8. Addressed' /\ HeldIsVersion'
  BY <1>1, <1>3, <1>4 DEF IInv, Addressed, HeldIsVersion
<1>9. RowsOfTokens'
  BY <1>1, <1>2, <1>5 DEF IInv, RowsOfTokens, FreshIsFresh
<1>10. FreshIsFresh'
  BY <1>1, <1>2, <1>3, <1>4, <1>5 DEF IInv, FreshIsFresh, Unsaved
<1>11. LoginsAreNew'
  BY <1>1, <1>2, <1>3, <1>4, <1>5 DEF IInv, LoginsAreNew, FreshIsFresh, Unsaved
<1>12. RotatesPresent'
  BY <1>1, <1>2, <1>3, <1>4, <1>5 DEF IInv, LoginsAreNew, RotatesPresent, FreshIsFresh, Unsaved
<1> QED
  BY <1>1, <1>6, <1>7, <1>8, <1>9, <1>10, <1>11, <1>12
  DEF IInv, ResetsCounted, TokensOfLogins, SpentWereMinted

LEMMA CommitRefreshStep ==
    ASSUME IInv, NEW t \in Slots, CommitRefresh(t)
    PROVE  IInv'
PROOF
<1> DEFINE f == req[t].family
<1>1. /\ Unsaved(t) /\ pc[t] = "written" /\ req[t].kind = "refresh" /\ End(t)
      /\ current' = [current EXCEPT ![f] = fresh[t]]
      /\ spent' = spent \cup {req[t].id}
      /\ UNCHANGED <<password, version, owner, revoked, expired, minted, issued, replayed, crashes>>
  BY DEF CommitRefresh, Unsaved
<1>2. f \in Families /\ fresh[t] \in Nat /\ owner[f] # NoUser /\ current[f] = req[t].id /\ req[t].id \in Nat
  BY <1>1 DEF IInv, LoginTypeOK, FreshIsFresh, RotatesPresent
<1>3. \A s \in Slots : s # t => pc'[s] = pc[s] /\ req'[s] = req[s] /\ held'[s] = held[s] /\ fresh'[s] = fresh[s]
  BY <1>1 DEF IInv, LoginTypeOK, End
<1>4. pc'[t] = "idle"
  BY <1>1 DEF IInv, LoginTypeOK, End
<1>5. \A g \in Families : current'[g] = IF g = f THEN fresh[t] ELSE current[g]
  BY <1>1, <1>2 DEF IInv, LoginTypeOK
<1>6. LoginTypeOK'
  <2>1. NoRequest \in Requests
    BY DEF NoRequest, Requests
  <2>2. pc' \in [Slots -> Places] /\ req' \in [Slots -> Requests] /\ held' \in [Slots -> Nat]
        /\ fresh' \in [Slots -> Nat]
    BY <1>1, <2>1 DEF IInv, LoginTypeOK, End, Places
  <2> QED
    BY <1>1, <1>2, <2>2 DEF IInv, LoginTypeOK
<1>7. UserExclusive' /\ FamilyExclusive'
  BY <1>3, <1>4 DEF IInv, UserExclusive, FamilyExclusive, HoldsUser, PinsUser, HoldsFamily
<1>8. Addressed' /\ HeldIsVersion'
  BY <1>1, <1>3, <1>4 DEF IInv, Addressed, HeldIsVersion
<1>9. RowsOfTokens'
  BY <1>1, <1>2, <1>5 DEF IInv, RowsOfTokens, FreshIsFresh
<1>10. SpentWereMinted'
  BY <1>1, <1>2 DEF IInv, RowsOfTokens, SpentWereMinted
<1>11. FreshIsFresh'
  BY <1>1, <1>2, <1>3, <1>4, <1>5 DEF IInv, FreshIsFresh, Unsaved
<1>12. LoginsAreNew'
  BY <1>1, <1>3, <1>4 DEF IInv, LoginsAreNew, Unsaved
<1>13. RotatesPresent'
  <2>1. \A s \in Slots : s # t /\ Unsaved(s) /\ req[s].kind = "refresh" => req[s].family # f
    BY <1>1, <1>2 DEF IInv, FamilyExclusive, HoldsFamily, Unsaved
  <2> QED
    BY <1>1, <1>3, <1>4, <1>5, <2>1 DEF IInv, RotatesPresent, FreshIsFresh, Unsaved
<1> QED
  BY <1>1, <1>6, <1>7, <1>8, <1>9, <1>10, <1>11, <1>12, <1>13
  DEF IInv, ResetsCounted, TokensOfLogins

LEMMA CommitResetStep ==
    ASSUME IInv, NEW t \in Slots, CommitReset(t)
    PROVE  IInv'
PROOF
<1> DEFINE u == req[t].user
<1>1. /\ pc[t] = "written" /\ req[t].kind = "reset" /\ End(t)
      /\ password' = [password EXCEPT ![u] = @ + 1]
      /\ version' = [version EXCEPT ![u] = held[t] + 1]
      /\ UNCHANGED <<owner, current, revoked, expired, minted, issued, spent, replayed, crashes>>
  BY DEF CommitReset, logs
<1>2. u \in Users /\ held[t] = version[u] /\ version[u] \in Nat /\ password[u] = version[u]
  BY <1>1 DEF IInv, LoginTypeOK, Addressed, HeldIsVersion, ResetsCounted
<1>3. \A s \in Slots : s # t => pc'[s] = pc[s] /\ req'[s] = req[s] /\ held'[s] = held[s] /\ fresh'[s] = fresh[s]
  BY <1>1 DEF IInv, LoginTypeOK, End
<1>4. pc'[t] = "idle"
  BY <1>1 DEF IInv, LoginTypeOK, End
<1>5. \A v \in Users : /\ version'[v] = IF v = u THEN version[u] + 1 ELSE version[v]
                       /\ password'[v] = IF v = u THEN password[u] + 1 ELSE password[v]
                       /\ version[v] \in Nat
  BY <1>1, <1>2 DEF IInv, LoginTypeOK
<1>6. LoginTypeOK'
  <2>1. NoRequest \in Requests
    BY DEF NoRequest, Requests
  <2>2. pc' \in [Slots -> Places] /\ req' \in [Slots -> Requests] /\ held' \in [Slots -> Nat]
        /\ fresh' \in [Slots -> Nat]
    BY <1>1, <2>1 DEF IInv, LoginTypeOK, End, Places
  <2>3. password' \in [Users -> Nat] /\ version' \in [Users -> Nat]
    BY <1>1, <1>2 DEF IInv, LoginTypeOK
  <2> QED
    BY <1>1, <2>2, <2>3 DEF IInv, LoginTypeOK
<1>7. ResetsCounted'
  BY <1>2, <1>5 DEF IInv, ResetsCounted
<1>8. UserExclusive' /\ FamilyExclusive'
  BY <1>3, <1>4 DEF IInv, UserExclusive, FamilyExclusive, HoldsUser, PinsUser, HoldsFamily
<1>9. Addressed'
  BY <1>3, <1>4 DEF IInv, Addressed
<1>10. HeldIsVersion'
  <2>1. \A s \in Slots : s # t /\ pc[s] # "idle" /\ req[s].kind \in {"refresh", "reset"} => req[s].user # u
    BY <1>1, <1>2 DEF IInv, UserExclusive, HoldsUser, Addressed, LoginTypeOK, Places
  <2>2. \A s \in Slots : held[s] \in Nat
    BY DEF IInv, LoginTypeOK
  <2> QED
    BY <1>2, <1>3, <1>4, <1>5, <2>1, <2>2 DEF IInv, HeldIsVersion, Addressed
<1>11. TokensOfLogins'
  <2>1. \A k \in issued : k.user \in Users /\ k.ver \in Nat
    BY DEF IInv, LoginTypeOK, Tokens
  <2> QED
    BY <1>1, <1>2, <1>5, <2>1 DEF IInv, TokensOfLogins
<1>12. FreshIsFresh' /\ LoginsAreNew' /\ RotatesPresent'
  BY <1>1, <1>3, <1>4 DEF IInv, FreshIsFresh, LoginsAreNew, RotatesPresent, Unsaved
<1> QED
  BY <1>1, <1>6, <1>7, <1>8, <1>9, <1>10, <1>11, <1>12 DEF IInv, RowsOfTokens, SpentWereMinted

LEMMA LoginStep ==
    ASSUME IInv, NEW t \in Slots, NEW u \in Users, Login(t, u)
    PROVE  IInv'
PROOF
<1>1. LoginRequest(u) \in Requests /\ version[u] \in Nat
  BY DEF LoginRequest, Requests, IInv, LoginTypeOK
<1>2. /\ LoginRequest(u).kind = "login" /\ LoginRequest(u).user = u
      /\ LoginRequest(u).proof = version[u]
  BY DEF LoginRequest, IInv, ResetsCounted
<1> QED
  BY <1>1, <1>2, AcceptStep DEF Login, rows, logs

LEMMA RefreshStep ==
    ASSUME IInv, NEW t \in Slots, NEW k \in issued, Refresh(t, k)
    PROVE  IInv'
PROOF
<1>1. k \in Tokens /\ k.proof = k.ver /\ k.ver = version[k.user]
  BY DEF Refresh, IInv, LoginTypeOK, TokensOfLogins
<1>2. RefreshRequest(k) \in Requests /\ version[k.user] \in Nat
  BY <1>1 DEF RefreshRequest, Requests, Tokens, IInv, LoginTypeOK
<1>3. /\ RefreshRequest(k).kind = "refresh" /\ RefreshRequest(k).user = k.user
      /\ RefreshRequest(k).family = k.family /\ RefreshRequest(k).proof = version[k.user]
      /\ k.user \in Users /\ k.family \in Families
  BY <1>1 DEF RefreshRequest, Tokens
<1> QED
  BY <1>2, <1>3, AcceptStep DEF Refresh, rows, logs

LEMMA LogoutStep ==
    ASSUME IInv, NEW t \in Slots, NEW k \in issued, Logout(t, k)
    PROVE  IInv'
PROOF
<1>1. k.user \in Users /\ k.family \in Families
  BY DEF IInv, LoginTypeOK, Tokens
<1>2. LogoutRequest(k) \in Requests
  BY <1>1 DEF LogoutRequest, Requests
<1>3. LogoutRequest(k).kind = "logout" /\ LogoutRequest(k).family = k.family
  BY DEF LogoutRequest
<1>4. held[t] \in Nat /\ held' = [held EXCEPT ![t] = held[t]]
  BY DEF IInv, LoginTypeOK, Logout
<1> QED
  BY <1>1, <1>2, <1>3, <1>4, AcceptStep DEF Logout, rows, logs

LEMMA ResetStep ==
    ASSUME IInv, NEW t \in Slots, NEW u \in Users, NEW n \in 0..password[u], Reset(t, u, n)
    PROVE  IInv'
PROOF
<1>1. version[u] \in Nat /\ n \in Nat
  BY DEF IInv, LoginTypeOK, Reset
<1>2. ResetRequest(u, n) \in Requests
  BY <1>1 DEF ResetRequest, Requests
<1>3. ResetRequest(u, n).kind = "reset" /\ ResetRequest(u, n).user = u
  BY DEF ResetRequest
<1> QED
  BY <1>1, <1>2, <1>3, AcceptStep DEF Reset, rows, logs

LEMMA ExpireStep ==
    ASSUME IInv, NEW f \in Families, Expire(f)
    PROVE  IInv'
PROOF
<1>1. expired' \subseteq Families
  BY DEF IInv, LoginTypeOK, Expire
<1>2. UNCHANGED <<password, version, owner, current, revoked, pc, req, held, fresh, minted, issued,
                  spent, replayed, crashes>>
  BY DEF Expire, local, logs
<1> QED
  BY <1>1, <1>2
  DEF IInv, LoginTypeOK, ResetsCounted, UserExclusive, FamilyExclusive, Addressed, HeldIsVersion,
      TokensOfLogins, RowsOfTokens, SpentWereMinted, FreshIsFresh, LoginsAreNew, RotatesPresent,
      Unsaved, HoldsUser, PinsUser, HoldsFamily

\* The steps that only end a slot, and may end a login with it.
LEMMA EndingSteps ==
    ASSUME IInv, NEW t \in Slots,
           Crash(t) \/ RefreshRefused(t) \/ RefreshReplayed(t) \/ CommitLogout(t)
    PROVE  IInv'
PROOF
<1>1. End(t) /\ UNCHANGED <<password, version, owner, current, minted, issued, spent>>
  BY DEF Crash, RefreshRefused, RefreshReplayed, CommitLogout, rows, logs
<1>2. pc[t] # "idle" /\ req[t].kind \in {"refresh", "logout"} => req[t].family \in Families
  BY DEF IInv, Addressed
<1>3. revoked' \subseteq Families /\ expired' \subseteq Families /\ replayed' \subseteq Families
  BY <1>2 DEF IInv, LoginTypeOK, Crash, RefreshRefused, RefreshReplayed, CommitLogout, rows, logs
<1>4. crashes' \in 0..MaxCrashes
  BY LoginAssumption DEF IInv, LoginTypeOK, Crash, RefreshRefused, RefreshReplayed, CommitLogout
<1> QED
  BY <1>1, <1>3, <1>4, EndStep

LEMMA InitIInv == LoginInit => IInv
PROOF
<1> SUFFICES ASSUME LoginInit PROVE IInv
  OBVIOUS
<1>1. NoRequest \in Requests
  BY DEF NoRequest, Requests
<1>2. LoginTypeOK
  BY <1>1, LoginAssumption DEF LoginInit, LoginTypeOK, Places
<1>3. \A t \in Slots : pc[t] = "idle"
  BY DEF LoginInit
<1>4. \A f \in Families : owner[f] = NoUser
  BY DEF LoginInit
<1> QED
  BY <1>2, <1>3, <1>4
  DEF LoginInit, IInv, ResetsCounted, UserExclusive, FamilyExclusive, Addressed, HeldIsVersion,
      TokensOfLogins, RowsOfTokens, SpentWereMinted, FreshIsFresh, LoginsAreNew, RotatesPresent,
      Unsaved, HoldsUser, PinsUser, HoldsFamily

LEMMA NextIInv == IInv /\ [LoginNext]_loginVars => IInv'
PROOF
<1> SUFFICES ASSUME IInv, [LoginNext]_loginVars PROVE IInv'
  OBVIOUS
<1>1. CASE UNCHANGED loginVars
  BY <1>1
  DEF loginVars, IInv, LoginTypeOK, ResetsCounted, UserExclusive, FamilyExclusive, Addressed,
      HeldIsVersion, TokensOfLogins, RowsOfTokens, SpentWereMinted, FreshIsFresh, LoginsAreNew,
      RotatesPresent, Unsaved, HoldsUser, PinsUser, HoldsFamily
<1>2. ASSUME NEW t \in Slots, Handle(t) PROVE IInv'
  BY <1>2, StartSessionStep, RefreshRotatesStep, CommitLoginStep, CommitRefreshStep,
     CommitResetStep, EndingSteps DEF Handle
<1>3. ASSUME NEW t \in Slots, Crash(t) PROVE IInv'
  BY <1>3, EndingSteps
<1>4. ASSUME NEW t \in Slots, NEW u \in Users, Login(t, u) PROVE IInv'
  BY <1>4, LoginStep
<1>5. ASSUME NEW t \in Slots, NEW u \in Users, NEW n \in 0..password[u], Reset(t, u, n) PROVE IInv'
  BY <1>5, ResetStep
<1>6. ASSUME NEW t \in Slots, NEW k \in issued, Refresh(t, k) \/ Logout(t, k) PROVE IInv'
  BY <1>6, RefreshStep, LogoutStep
<1>7. ASSUME NEW f \in Families, Expire(f) PROVE IInv'
  BY <1>7, ExpireStep
<1> QED
  BY <1>1, <1>2, <1>3, <1>4, <1>5, <1>6, <1>7 DEF LoginNext

\* The inductive invariant of the login transactions of auth_service.py.
THEOREM Invariance == LoginSpec => []IInv
PROOF
  BY InitIInv, NextIInv, PTL DEF LoginSpec
--------------------------------------------------------------------------------
(* The properties.                                                         *)

\* The variables keep their types.
THEOREM TypeCorrect == LoginSpec => []LoginTypeOK
PROOF
<1>1. IInv => LoginTypeOK
  BY DEF IInv
<1> QED
  BY <1>1, Invariance, PTL

\* reset_password never loses an update: version and password change together.
THEOREM CountedResets == LoginSpec => []ResetsCounted
PROOF
<1>1. IInv => ResetsCounted
  BY DEF IInv
<1> QED
  BY <1>1, Invariance, PTL

\* get_current_user and refresh accept only tokens of logins that knew the
\* password of today.
THEOREM OldPasswordsEnd == LoginSpec => []AcceptedKnowPassword
PROOF
<1>1. IInv => AcceptedKnowPassword
  BY DEF IInv, AcceptedKnowPassword, Accepted, TokensOfLogins, ResetsCounted, LoginTypeOK, Tokens
<1> QED
  BY <1>1, Invariance, PTL

\* Tokens are minted by StartSession and RefreshRotates alone.
LEMMA WhoMints ==
    ASSUME [LoginNext]_loginVars
    PROVE  issued' = issued \/ \E t \in Slots : StartSession(t) \/ RefreshRotates(t)
PROOF
  BY DEF LoginNext, loginVars, logs, Handle, Crash, Login, Reset, Refresh, Logout, Expire,
         RefreshRefused, RefreshReplayed, CommitLogin, CommitRefresh, CommitLogout, CommitReset

\* refresh never exchanges a token that was exchanged before.
THEOREM SpentIsSpent == LoginSpec => ReplayFails
PROOF
<1>1. ASSUME IInv, [LoginNext]_loginVars, NEW k \in issued' \ issued
      PROVE  k.parent \notin spent
  <2>1. CASE \E t \in Slots : StartSession(t)
    <3>1. k.parent = 0
      BY <1>1, <2>1 DEF StartSession, Issue
    <3> QED
      BY <1>1, <3>1 DEF IInv, SpentWereMinted
  <2>2. CASE \E t \in Slots : RefreshRotates(t)
    <3>1. PICK t \in Slots : RefreshRotates(t)
      BY <2>2
    <3>2. k.parent = req[t].id /\ req[t].family \in Families
      BY <1>1, <3>1 DEF RefreshRotates, Issue, IInv, Addressed
    <3>3. owner[req[t].family] # NoUser /\ current[req[t].family] = req[t].id
      BY <3>1 DEF RefreshRotates, Active
    <3> QED
      BY <1>1, <3>2, <3>3 DEF IInv, RowsOfTokens
  <2> QED
    BY <1>1, <2>1, <2>2, WhoMints
<1>2. IInv /\ [LoginNext]_loginVars
      => [\A k \in issued' \ issued : k.parent \notin spent]_loginVars
  BY <1>1
<1> QED
  BY <1>2, Invariance, PTL DEF LoginSpec, ReplayFails

\* What a step may do to the rows: the version of a user only grows, a login
\* keeps its user, and its end is for good.
LEMMA RowsMoveForward ==
    ASSUME IInv, [LoginNext]_loginVars
    PROVE  /\ \A u \in Users : version[u] <= version'[u] /\ version'[u] \in Nat
           /\ \A f \in Families : owner[f] # NoUser => owner'[f] = owner[f]
           /\ revoked \subseteq revoked' /\ expired \subseteq expired'
PROOF
<1> USE DEF loginVars, rows
<1>1. ASSUME NEW t \in Slots, CommitLogin(t)
      PROVE  \A f \in Families : owner[f] # NoUser => owner'[f] = owner[f]
  BY <1>1 DEF CommitLogin, IInv, LoginTypeOK, LoginsAreNew, Unsaved
<1>2. ASSUME NEW t \in Slots, CommitReset(t)
      PROVE  \A u \in Users : version[u] <= version'[u] /\ version'[u] \in Nat
  <2>1. req[t].user \in Users /\ held[t] = version[req[t].user]
    BY <1>2 DEF CommitReset, IInv, Addressed, HeldIsVersion
  <2> QED
    BY <1>2, <2>1 DEF CommitReset, IInv, LoginTypeOK
<1>3. version' = version \/ \E t \in Slots : CommitReset(t)
  BY DEF LoginNext, Handle, Crash, Login, Reset, Refresh, Logout, Expire, StartSession,
         RefreshRefused, RefreshReplayed, RefreshRotates, CommitLogin, CommitRefresh, CommitLogout
<1>4. owner' = owner \/ \E t \in Slots : CommitLogin(t)
  BY DEF LoginNext, Handle, Crash, Login, Reset, Refresh, Logout, Expire, StartSession,
         RefreshRefused, RefreshReplayed, RefreshRotates, CommitRefresh, CommitLogout, CommitReset
<1>5. revoked \subseteq revoked' /\ expired \subseteq expired'
  BY DEF LoginNext, Handle, Crash, Login, Reset, Refresh, Logout, Expire, StartSession,
         RefreshRefused, RefreshReplayed, RefreshRotates, CommitLogin, CommitRefresh, CommitLogout,
         CommitReset
<1>6. \A u \in Users : version[u] \in Nat
  BY DEF IInv, LoginTypeOK
<1> QED
  BY <1>1, <1>2, <1>3, <1>4, <1>5, <1>6

ReplayedEnded == replayed \subseteq revoked

\* A login of which a token was used again is revoked, although the request that
\* found out is answered with an error (auth_service.py, refresh).
LEMMA ReplaysEnd == LoginSpec => []ReplayedEnded
PROOF
<1>1. LoginInit => ReplayedEnded
  BY DEF LoginInit, ReplayedEnded
<1>2. IInv /\ ReplayedEnded /\ [LoginNext]_loginVars => ReplayedEnded'
  <2> SUFFICES ASSUME IInv, ReplayedEnded, [LoginNext]_loginVars PROVE ReplayedEnded'
    OBVIOUS
  <2>1. CASE \E t \in Slots : RefreshReplayed(t)
    BY <2>1 DEF RefreshReplayed, ReplayedEnded
  <2>2. CASE ~ \E t \in Slots : RefreshReplayed(t)
    <3>1. replayed' = replayed
      BY <2>2 DEF LoginNext, loginVars, logs, Handle, Crash, Login, Reset, Refresh, Logout, Expire,
             StartSession, RefreshRefused, RefreshRotates, CommitLogin, CommitRefresh,
             CommitLogout, CommitReset
    <3> QED
      BY <3>1, RowsMoveForward DEF ReplayedEnded
  <2> QED
    BY <2>1, <2>2
<1> QED
  BY <1>1, <1>2, Invariance, PTL DEF LoginSpec

\* A token the server has turned away, or whose login was replayed, stays turned
\* away, whatever transactions were under way (auth_service.py, get_current_user).
THEOREM RejectionIsFinal == LoginSpec => RejectedForGood
PROOF
<1>1. ASSUME IInv, ReplayedEnded, [LoginNext]_loginVars, NEW k \in issued,
             owner[k.family] # NoUser, k.family \in replayed \/ ~ Accepted(k)
      PROVE  ~ Accepted(k)'
  <2>1. k.family \in Families /\ k.user \in Users /\ k.ver \in Nat /\ k.ver <= version[k.user]
        /\ version[k.user] \in Nat
    BY <1>1 DEF IInv, LoginTypeOK, Tokens, TokensOfLogins
  <2>2. CASE k.family \in revoked \cup expired
    BY <1>1, <2>2, RowsMoveForward DEF Accepted, Active
  <2>3. CASE owner[k.family] # k.user
    BY <1>1, <2>1, <2>3, RowsMoveForward DEF Accepted
  <2>4. CASE k.ver # version[k.user]
    BY <1>1, <2>1, <2>4, RowsMoveForward DEF Accepted
  <2> QED
    BY <1>1, <2>2, <2>3, <2>4 DEF Accepted, Active, ReplayedEnded
<1>2. IInv /\ ReplayedEnded /\ [LoginNext]_loginVars
      => [\A k \in issued :
             /\ owner[k.family] # NoUser
             /\ k.family \in replayed \/ ~ Accepted(k)
             => ~ Accepted(k)']_loginVars
  BY <1>1
<1> QED
  BY <1>2, Invariance, ReplaysEnd, PTL DEF LoginSpec, RejectedForGood
================================================================================
