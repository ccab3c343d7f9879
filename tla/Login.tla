---------------------------------- MODULE Login ----------------------------------
(***************************************************************************)
(* Signing in with the identity provider, and the browser sessions that    *)
(* come of it (application/services/auth_service.py,                       *)
(* infrastructure/security/oidc.py).                                       *)
(*                                                                         *)
(* A login is a transaction in Redis, which the callback of the provider   *)
(* takes away; the callback then redeems the code, verifies the identity   *)
(* token with keys that may be cached, writes the user and creates a       *)
(* session.  The two surfaces, admin and web, have a client of the         *)
(* provider and a key prefix each, and share the table of users.           *)
(***************************************************************************)
EXTENDS Naturals, FiniteSets

CONSTANTS
    None,
    Surfaces,
    Organizations, OrganizationsOf,   \* [Surfaces -> SUBSET Organizations]
    Roles, RolesOf,                   \* [Surfaces -> SUBSET Roles], role_allowlist
    Transactions,
    Handlers,         \* callbacks under way at the same time
    Keys,             \* signing keys of the provider, in the order it comes to use them
    TokenLife,        \* how long an identity token lives
    SessionLife,      \* session_ttl_seconds
    Leeway,           \* auth_clock_skew_seconds
    MaxTime,          \* bound: the clock
    MaxSessions,      \* bound: sessions
    MaxPolicy         \* bound: changes of the policy version

ASSUME NoneAssumption == None \notin Transactions
ASSUME SurfacesAssumption ==
    /\ OrganizationsOf \in [Surfaces -> SUBSET Organizations]
    /\ RolesOf \in [Surfaces -> SUBSET Roles]
ASSUME TimesAssumption ==
    /\ Keys \in Nat \ {0} /\ TokenLife \in Nat \ {0} /\ SessionLife \in Nat \ {0}
    /\ Leeway \in Nat /\ MaxTime \in Nat /\ MaxSessions \in Nat /\ MaxPolicy \in Nat

VARIABLES
    clock,
    published,     \* the keys the provider publishes; it signs with the newest
    keyCache,      \* per surface, the keys its client has cached, or None
    transaction,   \* the login transactions in Redis, and what became of them
    code,          \* is the provider's code for the transaction still to be redeemed
    user,          \* auth_user: the roles written last, of the one user
    handler,       \* where each callback is
    session,       \* the sessions made, and until when Redis keeps them
    policy,        \* the policy version that is deployed
    rejected,      \* the transactions whose token was rejected though its key is published
    served         \* the request served last

loginVars == <<clock, published, keyCache, transaction, code, user, handler, session,
               policy, rejected, served>>

Newest(ks) == CHOOSE k \in ks : \A other \in ks : other <= k
Least(a, b) == IF a <= b THEN a ELSE b

\* A token has the key it was signed with, its end, and what it says of the user.
NoToken == [key |-> 1, expires |-> 0, organization |-> None, roles |-> {}]

\* A session has its transaction, surface, token, roles, policy and end; kept is the time
\* its key in Redis lives to, or 0.
IdleHandler ==
    [pc |-> "idle", transaction |-> None, surface |-> None, token |-> NoToken,
     keys |-> {}, roles |-> {}, expires |-> 0]

LoginInit ==
    /\ clock = 1
    /\ published = {1}
    /\ keyCache = [s \in Surfaces |-> {}]
    /\ transaction = [t \in Transactions |-> [status |-> "absent", surface |-> None]]
    /\ code = [t \in Transactions |-> FALSE]
    /\ user = {}
    /\ handler = [h \in Handlers |-> IdleHandler]
    /\ session = <<>>
    /\ policy = 0
    /\ rejected = {}
    /\ served = None

In(h, pc) == handler[h].pc = pc

\* The callback answers with a redirect to the login page.
Refuse(h) == handler' = [handler EXCEPT ![h] = IdleHandler]

--------------------------------------------------------------------------------
(* Transactions.                                                            *)

\* begin_login.  If the provider cannot be asked, the transaction is deleted.
BeginLogin(t, s) ==
    /\ transaction[t].status = "absent"
    /\ transaction' = [transaction EXCEPT ![t] = [status |-> "open", surface |-> s]]
    /\ UNCHANGED <<clock, published, keyCache, code, user, handler, session, policy,
                   rejected, served>>

\* The user signs in at the provider, which sends the browser back with a code.
SignIn(t) ==
    /\ transaction[t].status = "open"
    /\ code' = [code EXCEPT ![t] = TRUE]
    /\ UNCHANGED <<clock, published, keyCache, transaction, user, handler, session,
                   policy, rejected, served>>

\* cancel_login, or auth_transaction_ttl_seconds have passed.
EndTransaction(t) ==
    /\ transaction[t].status = "open"
    /\ transaction' = [transaction EXCEPT ![t].status = "gone"]
    /\ UNCHANGED <<clock, published, keyCache, code, user, handler, session, policy,
                   rejected, served>>

TakeTransaction_bug(h, t, state) ==   \* reads the transaction and deletes it later
    /\ In(h, "idle")
    /\ transaction[t].status = "open"
    /\ IF state = t
       THEN handler' = [handler EXCEPT ![h] =
              [IdleHandler EXCEPT !.pc = "exchange", !.transaction = t,
                                  !.surface = transaction[t].surface]]
       ELSE Refuse(h)
    /\ UNCHANGED <<clock, published, keyCache, transaction, code, user, session,
                   policy, rejected, served>>

\* complete_login up to the exchange: GETDEL on the key of the surface.  A callback
\* with the state of another transaction (a second tab) uses this one up as well.
TakeTransaction(h, t, state) ==
    /\ In(h, "idle")
    /\ transaction[t].status = "open"
    /\ transaction' = [transaction EXCEPT ![t].status = "gone"]
    /\ IF state = t
       THEN handler' = [handler EXCEPT ![h] =
              [IdleHandler EXCEPT !.pc = "exchange", !.transaction = t,
                                  !.surface = transaction[t].surface]]
       ELSE Refuse(h)
    /\ UNCHANGED <<clock, published, keyCache, code, user, session, policy,
                   rejected, served>>

--------------------------------------------------------------------------------
(* The identity token.                                                      *)

\* exchange_authorization_code: the provider redeems a code once and signs with its
\* newest key.  Its refusal, and any failure of its own, is AbandonLogin.
ExchangeCode(h) ==
    LET t == handler[h].transaction IN
    /\ In(h, "exchange")
    /\ code[t]
    /\ code' = [code EXCEPT ![t] = FALSE]
    /\ \E o \in Organizations, rs \in SUBSET Roles :
          handler' = [handler EXCEPT ![h] =
            [@ EXCEPT !.pc = "cached",
                      !.token = [key |-> Newest(published), expires |-> clock + TokenLife,
                                 organization |-> o, roles |-> rs]]]
    /\ UNCHANGED <<clock, published, keyCache, transaction, user, session, policy,
                   rejected, served>>

Reject(h) ==
    /\ Refuse(h)
    /\ rejected' = IF handler[h].token.key \in published
                   THEN rejected \cup {handler[h].transaction} ELSE rejected

DecodeWithCache_bug(h) ==   \* one attempt, with the keys there are
    LET keys == keyCache[handler[h].surface] IN
    /\ In(h, "cached")
    /\ \/ /\ handler[h].token.key \in keys
          /\ handler' = [handler EXCEPT ![h].pc = "validate"]
          /\ UNCHANGED rejected
       \/ keys = {} /\ handler' = [handler EXCEPT ![h].pc = "ask"] /\ UNCHANGED rejected
       \/ keys # {} /\ handler[h].token.key \notin keys /\ Reject(h)
    /\ UNCHANGED <<clock, published, keyCache, transaction, code, user, session,
                   policy, served>>

\* _decode_signed_token, first attempt: the cached keys, unless there are none or they
\* are too old.  If they do not fit, the keys are fetched.
DecodeWithCache(h) ==
    /\ In(h, "cached")
    /\ \/ /\ handler[h].token.key \in keyCache[handler[h].surface]
          /\ handler' = [handler EXCEPT ![h].pc = "validate"]
       \/ handler' = [handler EXCEPT ![h].pc = "ask"]
    /\ UNCHANGED <<clock, published, keyCache, transaction, code, user, session,
                   policy, rejected, served>>

\* The provider answers with the keys it publishes; the answer may be overtaken.
AskForKeys(h) ==
    /\ In(h, "ask")
    /\ handler' = [handler EXCEPT ![h] = [@ EXCEPT !.pc = "answered", !.keys = published]]
    /\ UNCHANGED <<clock, published, keyCache, transaction, code, user, session,
                   policy, rejected, served>>

\* The second attempt, with the keys of this handler's own answer.
DecodeWithAnswer(h) ==
    /\ In(h, "answered")
    /\ keyCache' = [keyCache EXCEPT ![handler[h].surface] = handler[h].keys]
    /\ IF handler[h].token.key \in handler[h].keys
       THEN handler' = [handler EXCEPT ![h].pc = "validate"] /\ UNCHANGED rejected
       ELSE Reject(h)
    /\ UNCHANGED <<clock, published, transaction, code, user, session, policy, served>>

Validate_bug(h) ==   \* allows for the skew of the clocks here as well
    LET s == handler[h].surface
        token == handler[h].token
        expires == Least(token.expires + Leeway, clock + SessionLife)
    IN  /\ In(h, "validate")
        /\ IF /\ expires > clock
              /\ token.organization \in OrganizationsOf[s]
           THEN handler' = [handler EXCEPT ![h] =
                  [@ EXCEPT !.pc = "upsert", !.expires = expires]]
           ELSE Refuse(h)
        /\ UNCHANGED <<clock, published, keyCache, transaction, code, user, session,
                       policy, rejected, served>>

\* verify_id_token allows for the skew of the clocks, _principal_from_verified_claims
\* does not; the organization must be one of the surface's.
Validate(h) ==
    LET s == handler[h].surface
        token == handler[h].token
        expires == Least(token.expires, clock + SessionLife)
    IN  /\ In(h, "validate")
        /\ IF /\ clock <= token.expires + Leeway
              /\ expires > clock
              /\ token.organization \in OrganizationsOf[s]
           THEN handler' = [handler EXCEPT ![h] =
                  [@ EXCEPT !.pc = "upsert", !.expires = expires]]
           ELSE Refuse(h)
        /\ UNCHANGED <<clock, published, keyCache, transaction, code, user, session,
                       policy, rejected, served>>

--------------------------------------------------------------------------------
(* The user and the session.                                                *)

\* _load_or_create_user: the row of the user is overwritten, and returned as written.
UpsertUser(h) ==
    LET roles == handler[h].token.roles \cap RolesOf[handler[h].surface] IN
    /\ In(h, "upsert")
    /\ user' = roles
    /\ handler' = [handler EXCEPT ![h] = [@ EXCEPT !.pc = "create", !.roles = roles]]
    /\ UNCHANGED <<clock, published, keyCache, transaction, code, session, policy,
                   rejected, served>>

CreateSession_bug(h) ==   \* loads the user again
    LET from == handler[h] IN
    /\ In(h, "create")
    /\ Cardinality(DOMAIN session) < MaxSessions
    /\ session' = [x \in 1 .. Cardinality(DOMAIN session) + 1 |->
         IF x \in DOMAIN session THEN session[x]
         ELSE [transaction |-> from.transaction, surface |-> from.surface,
               token |-> from.token, roles |-> user, expires |-> from.expires,
               policy |-> policy,
               kept |-> IF from.expires > clock THEN from.expires ELSE clock + 1]]
    /\ Refuse(h)
    /\ UNCHANGED <<clock, published, keyCache, transaction, code, user, policy,
                   rejected, served>>

\* The key lives for max(1, expires_at - now) seconds, under a secret of its own.
CreateSession(h) ==
    LET from == handler[h] IN
    /\ In(h, "create")
    /\ Cardinality(DOMAIN session) < MaxSessions
    /\ session' = [x \in 1 .. Cardinality(DOMAIN session) + 1 |->
         IF x \in DOMAIN session THEN session[x]
         ELSE [transaction |-> from.transaction, surface |-> from.surface,
               token |-> from.token, roles |-> from.roles, expires |-> from.expires,
               policy |-> policy,
               kept |-> IF from.expires > clock THEN from.expires ELSE clock + 1]]
    /\ handler' = [handler EXCEPT ![h] = IdleHandler]
    /\ UNCHANGED <<clock, published, keyCache, transaction, code, user, policy,
                   rejected, served>>

\* The callback fails: the provider, Redis or the database does not answer.
AbandonLogin(h) ==
    /\ ~In(h, "idle")
    /\ Refuse(h)
    /\ UNCHANGED <<clock, published, keyCache, transaction, code, user, session, policy,
                   rejected, served>>

Kept(x) == session[x].kept > clock
Forget(x) == session' = [session EXCEPT ![x].kept = 0]

\* get_browser_session: what the key prefix of the surface finds is checked again, and
\* deleted if it is out of date.
ServeRequest(x, s) ==
    /\ Kept(x)
    /\ session[x].surface = s
    /\ IF session[x].expires > clock /\ session[x].policy = policy
       THEN /\ served' = [session |-> x, time |-> clock]
            /\ UNCHANGED session
       ELSE Forget(x) /\ UNCHANGED served
    /\ UNCHANGED <<clock, published, keyCache, transaction, code, user, handler, policy,
                   rejected>>

\* end_session does not depend on the provider.
Logout(x) ==
    /\ Kept(x)
    /\ Forget(x)
    /\ UNCHANGED <<clock, published, keyCache, transaction, code, user, handler, policy,
                   rejected, served>>

--------------------------------------------------------------------------------
(* The surroundings.                                                        *)

\* The provider starts to sign with a new key, and later stops publishing the old one.
RotateKeys ==
    /\ published' \in {published \cup {Newest(published) + 1}, {Newest(published)}}
    /\ Newest(published') <= Keys
    /\ published' # published
    /\ UNCHANGED <<clock, keyCache, transaction, code, user, handler, session, policy,
                   rejected, served>>

\* A deployment with another policy version, which starts with empty caches.
Deploy ==
    /\ policy < MaxPolicy
    /\ policy' = policy + 1
    /\ handler' = [h \in Handlers |-> IdleHandler]
    /\ keyCache' = [s \in Surfaces |-> {}]
    /\ UNCHANGED <<clock, published, transaction, code, user, session, rejected, served>>

Tick ==
    /\ clock < MaxTime
    /\ clock' = clock + 1
    /\ UNCHANGED <<published, keyCache, transaction, code, user, handler, session, policy,
                   rejected, served>>

CallbackStep(h) ==
    \/ \E t, state \in Transactions : TakeTransaction(h, t, state)
    \/ ExchangeCode(h)
    \/ DecodeWithCache(h)
    \/ AskForKeys(h)
    \/ DecodeWithAnswer(h)
    \/ Validate(h)
    \/ UpsertUser(h)
    \/ CreateSession(h)
    \/ AbandonLogin(h)

LoginNext ==
    \/ \E t \in Transactions : \/ \E s \in Surfaces : BeginLogin(t, s)
                               \/ SignIn(t)
                               \/ EndTransaction(t)
    \/ \E h \in Handlers : CallbackStep(h)
    \/ \E x \in DOMAIN session : (\E s \in Surfaces : ServeRequest(x, s)) \/ Logout(x)
    \/ RotateKeys
    \/ Deploy
    \/ Tick

LoginSpec == LoginInit /\ [][LoginNext]_loginVars

--------------------------------------------------------------------------------
(* Properties.                                                              *)

\* A login gives one session at most, however often and however concurrently its
\* callback is called, even before the provider has refused the code.
OneSessionPerLogin ==
    /\ \A h, other \in Handlers :
        /\ ~In(h, "idle")
        /\ handler[h].transaction = handler[other].transaction
        => h = other
    /\ \A x, y \in DOMAIN session : session[x].transaction = session[y].transaction => x = y

\* A session has the roles of the token it was made of, as far as its surface knows
\* them, though both surfaces write the same row of the user at the same time.
RolesOfOwnLogin ==
    \A x \in DOMAIN session :
        /\ session[x].roles = session[x].token.roles \cap RolesOf[session[x].surface]
        /\ session[x].token.organization \in OrganizationsOf[session[x].surface]

\* A token is never rejected for its signature while its key is published: keys that are
\* cached, or were overtaken by newer ones, are not the last word (oidc.py:431).
PublishedKeysAccepted == rejected = {}

\* No request is served with an identity token that has expired, though the token was
\* verified with an allowance for the skew of the clocks, Redis keeps every session for
\* a second at least, and the session may live longer than the token.
ServedWithinToken ==
    [][\A x \in DOMAIN session :
         served' # served /\ served'.session = x => served'.time < session[x].token.expires]_loginVars

==================================================================================
