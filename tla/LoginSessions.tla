----------------------------- MODULE LoginSessions -----------------------------
(***************************************************************************)
(* Logins on the server: login, refresh-token rotation, logout and         *)
(* password reset as the interleaved READ COMMITTED transactions of        *)
(* backend/app/services/auth_service.py.                                   *)
(*                                                                         *)
(* A login is a row of auth_sessions (a "family"), which keeps the hash of *)
(* the one refresh token that may be exchanged next.  The access token     *)
(* handed out with a refresh token carries the same user, family and       *)
(* version, so one record stands for the pair.  get_db commits only after  *)
(* the response has been sent: a slot at "written" has answered and has    *)
(* not committed.                                                          *)
(***************************************************************************)
EXTENDS Naturals, FiniteSets

CONSTANTS
    Users,
    Families,       \* rows of auth_sessions that may be created
    Slots,          \* request handlers, one transaction each at a time
    MaxTokens,      \* bound on the tokens minted
    MaxResets,      \* bound on the password resets of one user
    MaxCrashes,     \* bound on the transactions that die half-way
    NoUser, NoFamily

ASSUME LoginAssumption ==
    /\ NoUser \notin Users /\ NoFamily \notin Families
    /\ MaxTokens \in Nat /\ MaxResets \in Nat /\ MaxCrashes \in Nat

VARIABLES
    password,       \* how often each user's password was changed: names the hash
    version,        \* users.token_version
    owner,          \* auth_sessions.user_id, or NoUser while there is no row
    current,        \* auth_sessions.refresh_hash: the id of the token it fits
    revoked, expired,   \* families with revoked_at set, or past expires_at
    pc, req, held, fresh,   \* per slot
    minted,         \* ids given to tokens so far
    issued,         \* every token a response has carried
    spent,          \* tokens that were exchanged for another one for good
    replayed,       \* families of which a spent token came back and was answered 401
    crashes

rows  == <<password, version, owner, current, revoked, expired>>
local == <<pc, req, held, fresh>>
logs  == <<minted, issued, spent, replayed>>
loginVars == <<password, version, owner, current, revoked, expired,
               pc, req, held, fresh, minted, issued, spent, replayed, crashes>>

\* ver, sub and sid are claims of the token, id is its jti; parent is the token
\* it was exchanged for (0 for a login) and proof the password its login knew.
Tokens == [user : Users, family : Families, ver : Nat, id : Nat, parent : Nat, proof : Nat]

NoRequest == [kind |-> "none", user |-> NoUser, family |-> NoFamily, id |-> 0, proof |-> 0]

Requests ==
    [kind : {"none", "login", "refresh", "logout", "reset"}, user : Users \cup {NoUser},
     family : Families \cup {NoFamily}, id : Nat, proof : Nat]

Places == {"idle", "verified", "locked", "written"}

LoginTypeOK ==
    /\ password \in [Users -> Nat] /\ version \in [Users -> Nat]
    /\ owner \in [Families -> Users \cup {NoUser}]
    /\ current \in [Families -> Nat]
    /\ revoked \subseteq Families /\ expired \subseteq Families
    /\ pc \in [Slots -> Places] /\ req \in [Slots -> Requests]
    /\ held \in [Slots -> Nat] /\ fresh \in [Slots -> Nat]
    /\ minted \in Nat /\ issued \subseteq Tokens /\ spent \subseteq Nat
    /\ replayed \subseteq Families
    /\ crashes \in 0..MaxCrashes

LoginInit ==
    /\ password = [u \in Users |-> 0] /\ version = [u \in Users |-> 0]
    /\ owner = [f \in Families |-> NoUser] /\ current = [f \in Families |-> 0]
    /\ revoked = {} /\ expired = {}
    /\ pc = [t \in Slots |-> "idle"] /\ req = [t \in Slots |-> NoRequest]
    /\ held = [t \in Slots |-> 0] /\ fresh = [t \in Slots |-> 0]
    /\ minted = 0 /\ issued = {} /\ spent = {} /\ replayed = {} /\ crashes = 0
--------------------------------------------------------------------------------
(* Row locks, seen from what the slots are doing.                          *)

\* MUTANT of HoldsUser: the users row is read without FOR UPDATE.
ReadsUser(t, u) == t \notin Slots /\ u \in Users

\* users FOR UPDATE: by refresh and reset_password until they commit.
HoldsUser(t, u) ==
    /\ req[t].user = u
    /\ req[t].kind \in {"refresh", "reset"}
    /\ pc[t] \in {"locked", "written"}

\* The foreign key of an uncommitted auth_sessions row pins its user.
PinsUser(t, u) == req[t].user = u /\ req[t].kind = "login" /\ pc[t] = "written"

\* auth_sessions FOR UPDATE: by refresh and logout until they commit.
HoldsFamily(t, f) ==
    /\ req[t].family = f
    /\ req[t].kind \in {"refresh", "logout"}
    /\ pc[t] = "written"

UserFree(u) == \A t \in Slots : ~ HoldsUser(t, u) /\ ~ PinsUser(t, u)

FamilyFree(f) == \A t \in Slots : ~ HoldsFamily(t, f)

\* is_login_active, and the version check of refresh and get_current_user.
Active(f) == owner[f] # NoUser /\ f \notin revoked \cup expired

Accepted(k) == Active(k.family) /\ owner[k.family] = k.user /\ k.ver = version[k.user]
--------------------------------------------------------------------------------
(* The life of a transaction.                                              *)

WithinBound == minted + Cardinality({t \in Slots : pc[t] \in {"verified", "locked"}}) < MaxTokens

Accept(t, r, place) ==
    /\ pc[t] = "idle"
    /\ pc' = [pc EXCEPT ![t] = place]
    /\ req' = [req EXCEPT ![t] = r]

End(t) ==
    /\ pc' = [pc EXCEPT ![t] = "idle"]
    /\ req' = [req EXCEPT ![t] = NoRequest]
    /\ held' = [held EXCEPT ![t] = 0]
    /\ fresh' = [fresh EXCEPT ![t] = 0]

\* _issue_tokens with the token_version this transaction has read; the
\* response goes out before the commit.
Issue(t, f, parent, proof) ==
    /\ minted' = minted + 1
    /\ fresh' = [fresh EXCEPT ![t] = minted + 1]
    /\ issued' = issued \cup {[user |-> req[t].user, family |-> f, ver |-> held[t],
                               id |-> minted + 1, parent |-> parent, proof |-> proof]}
    /\ pc' = [pc EXCEPT ![t] = "written"]

Crash(t) ==
    /\ pc[t] # "idle"
    /\ crashes < MaxCrashes
    /\ crashes' = crashes + 1
    /\ End(t)
    /\ UNCHANGED <<rows, logs>>
--------------------------------------------------------------------------------
(* login: one unlocked SELECT of the user, a slow hash, one INSERT.        *)

LoginRequest(u) ==
    [kind |-> "login", user |-> u, family |-> NoFamily, id |-> 0, proof |-> password[u]]

Login(t, u) ==
    /\ WithinBound
    /\ Accept(t, LoginRequest(u), "verified")
    /\ held' = [held EXCEPT ![t] = version[u]]
    /\ UNCHANGED <<rows, fresh, logs, crashes>>

\* MUTANT of StartSession: the user is read again after the password check.
StartSessionReread(t) ==
    /\ pc[t] = "verified"
    /\ \A s \in Slots : ~ HoldsUser(s, req[t].user)
    /\ \E f \in Families :
          /\ \A k \in issued : k.family # f
          /\ req' = [req EXCEPT ![t].family = f]
          /\ minted' = minted + 1
          /\ fresh' = [fresh EXCEPT ![t] = minted + 1]
          /\ issued' = issued \cup {[user |-> req[t].user, family |-> f, ver |-> version[req[t].user],
                                     id |-> minted + 1, parent |-> 0, proof |-> req[t].proof]}
          /\ pc' = [pc EXCEPT ![t] = "written"]
    /\ UNCHANGED <<rows, held, spent, replayed, crashes>>

\* _start_session under a fresh id; the foreign key waits for a refresh or a
\* reset of the same user.
StartSession(t) ==
    /\ pc[t] = "verified"
    /\ \A s \in Slots : ~ HoldsUser(s, req[t].user)
    /\ \E f \in Families :
          /\ \A k \in issued : k.family # f
          /\ req' = [req EXCEPT ![t].family = f]
          /\ Issue(t, f, 0, req[t].proof)
    /\ UNCHANGED <<rows, held, spent, replayed, crashes>>
--------------------------------------------------------------------------------
(* refresh: the user, then the family, both FOR UPDATE.                    *)

RefreshRequest(k) ==
    [kind |-> "refresh", user |-> k.user, family |-> k.family, id |-> k.id, proof |-> k.proof]

Refresh(t, k) ==
    /\ WithinBound
    /\ UserFree(k.user)
    /\ k.ver = version[k.user]
    /\ Accept(t, RefreshRequest(k), "locked")
    /\ held' = [held EXCEPT ![t] = version[k.user]]
    /\ UNCHANGED <<rows, fresh, logs, crashes>>

\* The family has ended or was never committed.
RefreshRefused(t) ==
    /\ pc[t] = "locked" /\ req[t].kind = "refresh"
    /\ FamilyFree(req[t].family)
    /\ ~ Active(req[t].family)
    /\ End(t)
    /\ UNCHANGED <<rows, logs, crashes>>

\* A token whose hash is not the stored one: the family is revoked, and that
\* is committed at once.
RefreshReplayed(t) ==
    LET f == req[t].family IN
    /\ pc[t] = "locked" /\ req[t].kind = "refresh"
    /\ FamilyFree(f)
    /\ Active(f) /\ current[f] # req[t].id
    /\ revoked' = revoked \cup {f}
    /\ replayed' = replayed \cup {f}
    /\ End(t)
    /\ UNCHANGED <<password, version, owner, current, expired, minted, issued, spent, crashes>>

\* MUTANT of RefreshRotates: the hash of the token is not compared.
RotatesAnyToken(t) ==
    LET f == req[t].family IN
    /\ pc[t] = "locked" /\ req[t].kind = "refresh"
    /\ FamilyFree(f)
    /\ Active(f)
    /\ Issue(t, f, req[t].id, req[t].proof)
    /\ UNCHANGED <<rows, req, held, spent, replayed, crashes>>

\* The tokens are exchanged; the new hash is written with the commit.
RefreshRotates(t) ==
    LET f == req[t].family IN
    /\ pc[t] = "locked" /\ req[t].kind = "refresh"
    /\ FamilyFree(f)
    /\ Active(f) /\ current[f] = req[t].id
    /\ Issue(t, f, req[t].id, req[t].proof)
    /\ UNCHANGED <<rows, req, held, spent, replayed, crashes>>
--------------------------------------------------------------------------------
(* logout and reset_password.                                              *)

LogoutRequest(k) ==
    [kind |-> "logout", user |-> k.user, family |-> k.family, id |-> 0, proof |-> 0]

ResetRequest(u, n) ==
    [kind |-> "reset", user |-> u, family |-> NoFamily, id |-> 0, proof |-> n]

\* Any token of the family will do, already-rotated ones included.
Logout(t, k) ==
    /\ FamilyFree(k.family)
    /\ owner[k.family] # NoUser /\ k.family \notin revoked
    /\ Accept(t, LogoutRequest(k), "written")
    /\ UNCHANGED <<rows, held, fresh, logs, crashes>>

\* The link was mailed when the password was the n-th and still is good for it;
\* forgot_password only reads.
Reset(t, u, n) ==
    /\ password[u] < MaxResets
    /\ UserFree(u)
    /\ n = password[u] /\ n = version[u]
    /\ Accept(t, ResetRequest(u, n), "written")
    /\ held' = [held EXCEPT ![t] = version[u]]
    /\ UNCHANGED <<rows, fresh, logs, crashes>>
--------------------------------------------------------------------------------
(* The commit of get_db.                                                   *)

CommitLogin(t) ==
    /\ pc[t] = "written" /\ req[t].kind = "login"
    /\ owner' = [owner EXCEPT ![req[t].family] = req[t].user]
    /\ current' = [current EXCEPT ![req[t].family] = fresh[t]]
    /\ End(t)
    /\ UNCHANGED <<password, version, revoked, expired, logs, crashes>>

CommitRefresh(t) ==
    /\ pc[t] = "written" /\ req[t].kind = "refresh"
    /\ current' = [current EXCEPT ![req[t].family] = fresh[t]]
    /\ spent' = spent \cup {req[t].id}
    /\ End(t)
    /\ UNCHANGED <<password, version, owner, revoked, expired, minted, issued, replayed, crashes>>

CommitLogout(t) ==
    /\ pc[t] = "written" /\ req[t].kind = "logout"
    /\ revoked' = revoked \cup {req[t].family}
    /\ End(t)
    /\ UNCHANGED <<password, version, owner, current, expired, logs, crashes>>

\* The new hash and token_version + 1, both computed from what was read.
CommitReset(t) ==
    /\ pc[t] = "written" /\ req[t].kind = "reset"
    /\ password' = [password EXCEPT ![req[t].user] = @ + 1]
    /\ version' = [version EXCEPT ![req[t].user] = held[t] + 1]
    /\ End(t)
    /\ UNCHANGED <<owner, current, revoked, expired, logs, crashes>>

\* REFRESH_TOKEN_EXPIRE_DAYS after the login, however often it was refreshed.
Expire(f) ==
    /\ owner[f] # NoUser /\ f \notin expired
    /\ expired' = expired \cup {f}
    /\ UNCHANGED <<password, version, owner, current, revoked, local, logs, crashes>>
--------------------------------------------------------------------------------
Handle(t) ==
    \/ StartSession(t)
    \/ RefreshRefused(t) \/ RefreshReplayed(t) \/ RefreshRotates(t)
    \/ CommitLogin(t) \/ CommitRefresh(t) \/ CommitLogout(t) \/ CommitReset(t)

\* Any token that was ever handed out may be presented, at any time and as
\* often as one likes: responses get lost, clients retry and may keep copies.
LoginNext ==
    \/ \E t \in Slots : Handle(t) \/ Crash(t)
    \/ \E t \in Slots, u \in Users : Login(t, u)
    \/ \E t \in Slots, u \in Users : \E n \in 0..password[u] : Reset(t, u, n)
    \/ \E t \in Slots, k \in issued : Refresh(t, k) \/ Logout(t, k)
    \/ \E f \in Families : Expire(f)

LoginSpec == LoginInit /\ [][LoginNext]_loginVars
--------------------------------------------------------------------------------
(* Properties.                                                             *)

\* A refresh token that was exchanged for good never yields tokens again, even
\* if it is presented several times at the same moment (auth_service.refresh).
ReplayFails ==
    [][\A k \in issued' \ issued : k.parent \notin spent]_loginVars

\* Every change of a password changes token_version with it: of two resets with
\* the same link at the same moment, one is refused (reset_password).
ResetsCounted == \A u \in Users : version[u] = password[u]

\* Tokens that are accepted now come from a login that knew the password that
\* is valid now: a login whose slow password check overlaps a reset is no way
\* around the reset (login, _issue_tokens, get_current_user).
AcceptedKnowPassword ==
    \A k \in issued : Accepted(k) => k.proof = password[k.user]

\* Once the server has rejected a token of a committed login, or has answered 401
\* because a token of that login was used again, it never accepts it again:
\* revocation and expiry are for good, the revocation of a replayed login is
\* committed although its request fails, and no lost update of token_version
\* brings the tokens of an earlier password back.
RejectedForGood ==
    [][\A k \in issued :
          /\ owner[k.family] # NoUser
          /\ k.family \in replayed \/ ~ Accepted(k)
          => ~ Accepted(k)']_loginVars
================================================================================
