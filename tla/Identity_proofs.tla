--------------------------------- MODULE Identity_proofs ---------------------------------
(* How users and this service itself are identified.  For any number of logins,          *)
(* callbacks, surfaces and keys: a login makes one session, with the roles of its own    *)
(* token and no longer than it, and no token is rejected while its key is published.     *)
(* For any number of callers, any lives of tokens and a clock that may be set back: one  *)
(* request for a token at a time.                                                        *)
EXTENDS Login, ServiceTokens, FiniteSetTheorems, TLAPS

--------------------------------------------------------------------------------------
(* Logins.                                                                               *)

Token == [key : Nat, expires : Nat, organization : Organizations \cup {None},
          roles : SUBSET Roles]

Callback == [pc : {"idle", "exchange", "cached", "ask", "answered", "validate", "upsert", "create"},
             transaction : Transactions \cup {None}, surface : Surfaces \cup {None},
             token : Token, keys : SUBSET Nat, roles : SUBSET Roles, expires : Nat]

BrowserSession == [transaction : Transactions, surface : Surfaces, token : Token,
                   roles : SUBSET Roles, expires : Nat, policy : Nat, kept : Nat]

Transaction == [status : {"absent", "open", "gone"}, surface : Surfaces \cup {None}]

LoginTypeInv ==
    /\ clock \in Nat /\ policy \in Nat
    /\ transaction \in [Transactions -> Transaction]
    /\ \A t \in Transactions :
         transaction[t].status # "absent" => transaction[t].surface \in Surfaces
    /\ handler \in [Handlers -> Callback]

\* The keys that are published follow each other: a key that was withdrawn is not
\* published again, as the next one is newer than all there have been.
PublishedInv == \E lo, hi \in Nat : lo <= hi /\ published = lo .. hi

SessionsInv ==
    /\ \E n \in Nat : DOMAIN session = 1 .. n
    /\ \A x \in DOMAIN session :
         /\ session[x] \in BrowserSession
         /\ transaction[session[x].transaction].status = "gone"
         /\ session[x].expires <= session[x].token.expires

\* A callback under way has a transaction nobody else has or ever will have, a token with
\* a key that is published or never will be again, and is as far as its checks say.
GoodCallback(row) ==
    IF row.pc = "idle" THEN row.transaction = None
    ELSE /\ row.transaction \in Transactions /\ row.surface \in Surfaces
         /\ transaction[row.transaction].status = "gone"
         /\ \A x \in DOMAIN session : session[x].transaction # row.transaction
         /\ row.pc # "exchange" => \E k \in published : row.token.key <= k
         /\ row.pc = "answered" => row.token.key \in row.keys \/ row.token.key \notin published
         /\ row.pc \in {"upsert", "create"} =>
              /\ row.token.organization \in OrganizationsOf[row.surface]
              /\ row.expires <= row.token.expires
         /\ row.pc = "create" => row.roles = row.token.roles \cap RolesOf[row.surface]

CallbacksInv == \A h \in Handlers : GoodCallback(handler[h])

LoginInv ==
    /\ LoginTypeInv /\ PublishedInv /\ SessionsInv /\ CallbacksInv
    /\ OneSessionPerLogin /\ RolesOfOwnLogin /\ PublishedKeysAccepted

--------------------------------------------------------------------------------------
(* Keys.                                                                                 *)

LEMMA NewestOfInterval ==
    ASSUME NEW lo \in Nat, NEW hi \in Nat, lo <= hi
    PROVE  Newest(lo .. hi) = hi
<1>1. hi \in lo .. hi /\ \A other \in lo .. hi : other <= hi
  OBVIOUS
<1>2. \A k \in lo .. hi : (\A other \in lo .. hi : other <= k) => k = hi
  BY <1>1
<1> QED  BY <1>1, <1>2 DEF Newest

\* What a rotation leaves: nothing that was withdrawn comes back, and there is always a
\* key no older than those before.
LEMMA Rotation ==
    ASSUME PublishedInv, RotateKeys
    PROVE  /\ PublishedInv'
           /\ \A key \in Nat : (\E k \in published : key <= k) =>
                /\ \E k \in published' : key <= k
                /\ key \in published' => key \in published
<1>1. PICK lo \in Nat, hi \in Nat : lo <= hi /\ published = lo .. hi
  BY DEF PublishedInv
<1>2. Newest(published) = hi
  BY <1>1, NewestOfInterval
<1>3. CASE published' = published \cup {hi + 1}
  <2>1. published' = lo .. hi + 1
    BY <1>1, <1>3
  <2> QED  BY <1>1, <2>1 DEF PublishedInv
<1>4. CASE published' = {hi}
  <2>1. published' = hi .. hi
    BY <1>1, <1>4
  <2> QED  BY <1>1, <2>1 DEF PublishedInv
<1> QED  BY <1>2, <1>3, <1>4 DEF RotateKeys

--------------------------------------------------------------------------------------
(* One callback moves.                                                                   *)

LEMMA IdleCallback ==
    IdleHandler \in Callback /\ IdleHandler.pc = "idle" /\ IdleHandler.transaction = None
BY DEF IdleHandler, Callback, NoToken, Token

LEMMA CallbackMoves ==
    ASSUME LoginInv, NEW h \in Handlers, NEW row \in Callback,
           handler' = [handler EXCEPT ![h] = row],
           UNCHANGED <<clock, policy, published, transaction, session, rejected>>,
           row.pc # "idle" => /\ handler[h].pc # "idle"
                              /\ row.transaction = handler[h].transaction,
           GoodCallback(row)
    PROVE  LoginInv'
<1> USE DEF LoginInv
<1>1. /\ handler' \in [Handlers -> Callback] /\ handler'[h] = row
      /\ \A other \in Handlers \ {h} : handler'[other] = handler[other]
  BY DEF LoginTypeInv
<1>2. LoginTypeInv' /\ PublishedInv' /\ SessionsInv' /\ RolesOfOwnLogin' /\ PublishedKeysAccepted'
  BY <1>1 DEF LoginTypeInv, PublishedInv, SessionsInv, RolesOfOwnLogin, PublishedKeysAccepted
<1>3. CallbacksInv'
  BY <1>1 DEF CallbacksInv, GoodCallback
<1>4. OneSessionPerLogin'
  <2>1. ASSUME NEW g \in Handlers, NEW other \in Handlers, handler'[g].pc # "idle",
               handler'[g].transaction = handler'[other].transaction
        PROVE  g = other
    <3>1. handler[g].pc # "idle" /\ handler'[g].transaction = handler[g].transaction
      BY <1>1, <2>1
    <3>2. handler'[g].transaction \in Transactions
      BY <3>1 DEF CallbacksInv, GoodCallback
    <3>3. handler'[other].pc # "idle"
      BY <1>3, <2>1, <3>2, NoneAssumption DEF CallbacksInv, GoodCallback
    <3>4. handler'[other].transaction = handler[other].transaction
      BY <1>1, <3>3
    <3> QED  BY <2>1, <3>1, <3>4 DEF OneSessionPerLogin, In
  <2>2. \A x, y \in DOMAIN session' : session'[x].transaction = session'[y].transaction => x = y
    BY DEF OneSessionPerLogin
  <2> QED  BY <2>1, <2>2 DEF OneSessionPerLogin, In
<1> QED  BY <1>2, <1>3, <1>4

\* A callback ends without a session.
LEMMA RefuseKeeps ==
    ASSUME LoginInv, NEW h \in Handlers, Refuse(h),
           UNCHANGED <<clock, policy, published, transaction, session, rejected>>
    PROVE  LoginInv'
<1>1. GoodCallback(IdleHandler)
  BY IdleCallback DEF GoodCallback
<1> QED  BY <1>1, IdleCallback, CallbackMoves DEF Refuse

\* A callback gets to another step, with what it has.
LEMMA OnlyStepMoves ==
    ASSUME LoginInv, NEW h \in Handlers, NEW pc \in {"ask", "validate"},
           handler[h].pc \in {"cached", "ask", "answered"},
           handler' = [handler EXCEPT ![h].pc = pc],
           UNCHANGED <<clock, policy, published, transaction, session, rejected>>
    PROVE  LoginInv'
<1> DEFINE row == [handler[h] EXCEPT !.pc = pc]
<1>1. handler[h] \in Callback /\ GoodCallback(handler[h])
  BY DEF LoginInv, LoginTypeInv, CallbacksInv
<1>2. /\ row \in Callback /\ row.pc = pc /\ row.transaction = handler[h].transaction
      /\ row.surface = handler[h].surface /\ row.token = handler[h].token
  BY <1>1 DEF Callback
<1>3. handler' = [handler EXCEPT ![h] = row]
  OBVIOUS
<1> HIDE DEF row
<1>4. GoodCallback(row)
  BY <1>1, <1>2 DEF GoodCallback
<1> QED  BY <1>2, <1>3, <1>4, CallbackMoves

LEMMA ExchangeKeeps ==
    ASSUME LoginInv, NEW h \in Handlers, ExchangeCode(h)
    PROVE  LoginInv'
<1>1. PICK o \in Organizations, rs \in SUBSET Roles :
        handler' = [handler EXCEPT ![h] =
          [@ EXCEPT !.pc = "cached",
                    !.token = [key |-> Newest(published), expires |-> clock + TokenLife,
                               organization |-> o, roles |-> rs]]]
  BY DEF ExchangeCode
<1>2. /\ handler[h] \in Callback /\ GoodCallback(handler[h]) /\ handler[h].pc = "exchange"
      /\ clock \in Nat
      /\ UNCHANGED <<clock, policy, published, transaction, session, rejected>>
  BY DEF ExchangeCode, In, LoginInv, LoginTypeInv, CallbacksInv
<1>3. Newest(published) \in published \cap Nat
  <2>1. PICK lo \in Nat, hi \in Nat : lo <= hi /\ published = lo .. hi
    BY DEF LoginInv, PublishedInv
  <2> QED  BY <2>1, NewestOfInterval
<1> DEFINE token == [key |-> Newest(published), expires |-> clock + TokenLife,
                     organization |-> o, roles |-> rs]
           half == [handler[h] EXCEPT !.pc = "cached"]
           row == [half EXCEPT !.token = token]
<1>4. token \in Token /\ token.key = Newest(published)
  BY <1>2, <1>3, TimesAssumption DEF Token
<1>5. handler' = [handler EXCEPT ![h] = row]
  BY <1>1
<1>6. /\ half \in Callback /\ half.pc = "cached" /\ half.transaction = handler[h].transaction
      /\ half.surface = handler[h].surface
  BY <1>2, Zenon DEF Callback
<1> HIDE DEF token, half
<1>7. /\ row \in Callback /\ row.pc = "cached" /\ row.transaction = handler[h].transaction
      /\ row.surface = handler[h].surface /\ row.token = token
  BY <1>4, <1>6, Zenon DEF Callback
<1> HIDE DEF row
<1>8. \E k \in published : token.key <= k
  BY <1>3, <1>4
<1>9. GoodCallback(row)
  BY <1>2, <1>7, <1>8 DEF GoodCallback
<1> QED  BY <1>2, <1>5, <1>7, <1>9, CallbackMoves

\* The answer holds the key of the token, unless that was withdrawn.
LEMMA AskKeeps ==
    ASSUME LoginInv, NEW h \in Handlers, AskForKeys(h)
    PROVE  LoginInv'
<1> DEFINE half == [handler[h] EXCEPT !.pc = "answered"]
           row == [half EXCEPT !.keys = published]
<1>1. /\ handler[h] \in Callback /\ GoodCallback(handler[h]) /\ handler[h].pc = "ask"
      /\ handler' = [handler EXCEPT ![h] = row]
      /\ UNCHANGED <<clock, policy, published, transaction, session, rejected>>
  BY DEF AskForKeys, In, LoginInv, LoginTypeInv, CallbacksInv
<1>2. published \subseteq Nat
  BY DEF LoginInv, PublishedInv
<1>3. /\ half \in Callback /\ half.pc = "answered" /\ half.transaction = handler[h].transaction
      /\ half.surface = handler[h].surface /\ half.token = handler[h].token
  BY <1>1, Zenon DEF Callback
<1> HIDE DEF half
<1>4. /\ row \in Callback /\ row.pc = "answered" /\ row.transaction = handler[h].transaction
      /\ row.surface = handler[h].surface /\ row.token = handler[h].token /\ row.keys = published
  BY <1>2, <1>3, Zenon DEF Callback
<1> HIDE DEF row
<1>5. GoodCallback(row)
  BY <1>1, <1>4 DEF GoodCallback
<1> QED  BY <1>1, <1>4, <1>5, CallbackMoves

LEMMA AnswerKeeps ==
    ASSUME LoginInv, NEW h \in Handlers, DecodeWithAnswer(h)
    PROVE  LoginInv'
<1>1. /\ GoodCallback(handler[h]) /\ handler[h].pc = "answered"
      /\ UNCHANGED <<clock, policy, published, transaction, session>>
  BY DEF DecodeWithAnswer, In, LoginInv, CallbacksInv
<1>2. CASE handler' = [handler EXCEPT ![h].pc = "validate"] /\ UNCHANGED rejected
  BY <1>1, <1>2, OnlyStepMoves
<1>3. CASE handler[h].token.key \notin handler[h].keys /\ Reject(h)
  <2>1. handler[h].token.key \notin published
    BY <1>1, <1>3 DEF GoodCallback
  <2>2. Refuse(h) /\ UNCHANGED rejected
    BY <1>3, <2>1 DEF Reject
  <2> QED  BY <1>1, <2>2, RefuseKeeps
<1> QED  BY <1>2, <1>3 DEF DecodeWithAnswer

LEMMA ValidateKeeps ==
    ASSUME LoginInv, NEW h \in Handlers, Validate(h)
    PROVE  LoginInv'
<1>1. /\ handler[h] \in Callback /\ GoodCallback(handler[h]) /\ handler[h].pc = "validate"
      /\ clock \in Nat
      /\ UNCHANGED <<clock, policy, published, transaction, session, rejected>>
  BY DEF Validate, In, LoginInv, LoginTypeInv, CallbacksInv
<1> DEFINE expires == Least(handler[h].token.expires, clock + SessionLife)
<1>2. CASE Refuse(h)
  BY <1>1, <1>2, RefuseKeeps
<1>3. CASE /\ handler[h].token.organization \in OrganizationsOf[handler[h].surface]
           /\ handler' = [handler EXCEPT ![h] = [@ EXCEPT !.pc = "upsert", !.expires = expires]]
  <2> DEFINE half == [handler[h] EXCEPT !.pc = "upsert"]
             row == [half EXCEPT !.expires = expires]
  <2>1. expires \in Nat /\ expires <= handler[h].token.expires
    BY <1>1, TimesAssumption DEF Callback, Token, Least
  <2>2. handler' = [handler EXCEPT ![h] = row]
    BY <1>3
  <2>3. /\ half \in Callback /\ half.pc = "upsert" /\ half.transaction = handler[h].transaction
        /\ half.surface = handler[h].surface /\ half.token = handler[h].token
    BY <1>1, Zenon DEF Callback
  <2> HIDE DEF half, expires
  <2>4. /\ row \in Callback /\ row.pc = "upsert" /\ row.transaction = handler[h].transaction
        /\ row.surface = handler[h].surface /\ row.token = handler[h].token
        /\ row.expires = expires
    BY <2>1, <2>3, Zenon DEF Callback
  <2> HIDE DEF row
  <2>5. GoodCallback(row)
    BY <1>1, <1>3, <2>1, <2>4 DEF GoodCallback
  <2> QED  BY <1>1, <2>2, <2>4, <2>5, CallbackMoves
<1> QED  BY <1>2, <1>3 DEF Validate

LEMMA UpsertKeeps ==
    ASSUME LoginInv, NEW h \in Handlers, UpsertUser(h)
    PROVE  LoginInv'
<1> DEFINE roles == handler[h].token.roles \cap RolesOf[handler[h].surface]
           half == [handler[h] EXCEPT !.pc = "create"]
           row == [half EXCEPT !.roles = roles]
<1>1. /\ handler[h] \in Callback /\ GoodCallback(handler[h]) /\ handler[h].pc = "upsert"
      /\ handler' = [handler EXCEPT ![h] = row]
      /\ UNCHANGED <<clock, policy, published, transaction, session, rejected>>
  BY DEF UpsertUser, In, LoginInv, LoginTypeInv, CallbacksInv
<1>2. roles \subseteq Roles
  BY <1>1 DEF Callback, Token
<1>3. /\ half \in Callback /\ half.pc = "create" /\ half.transaction = handler[h].transaction
      /\ half.surface = handler[h].surface /\ half.token = handler[h].token
      /\ half.expires = handler[h].expires
  BY <1>1, Zenon DEF Callback
<1> HIDE DEF half
<1>4. /\ row \in Callback /\ row.pc = "create" /\ row.transaction = handler[h].transaction
      /\ row.surface = handler[h].surface /\ row.token = handler[h].token /\ row.roles = roles
      /\ row.expires = handler[h].expires
  BY <1>2, <1>3, Zenon DEF Callback
<1> HIDE DEF row
<1>5. GoodCallback(row)
  BY <1>1, <1>4 DEF GoodCallback
<1> QED  BY <1>1, <1>4, <1>5, CallbackMoves

--------------------------------------------------------------------------------------
(* Transactions and sessions.                                                            *)

\* A transaction moves on, and none comes back.
LEMMA TransactionsMove ==
    ASSUME LoginInv, NEW t \in Transactions, NEW row \in Transaction,
           transaction' = [transaction EXCEPT ![t] = row],
           row.status # "absent" => row.surface \in Surfaces,
           transaction[t].status # "gone",
           UNCHANGED <<clock, policy, published, handler, session, rejected>>
    PROVE  LoginInv'
<1> USE DEF LoginInv
<1>1. /\ transaction' \in [Transactions -> Transaction] /\ transaction'[t] = row
      /\ \A u \in Transactions \ {t} : transaction'[u] = transaction[u]
  BY DEF LoginTypeInv
<1>2. LoginTypeInv' /\ PublishedInv' /\ RolesOfOwnLogin' /\ PublishedKeysAccepted'
      /\ OneSessionPerLogin'
  BY <1>1 DEF LoginTypeInv, PublishedInv, RolesOfOwnLogin, PublishedKeysAccepted,
              OneSessionPerLogin, In
<1>3. SessionsInv'
  BY <1>1 DEF SessionsInv, BrowserSession
<1>4. CallbacksInv'
  BY <1>1 DEF CallbacksInv, GoodCallback
<1> QED  BY <1>2, <1>3, <1>4

\* A callback takes the transaction away: nobody had it, as it was open.
LEMMA TakeKeeps ==
    ASSUME LoginInv, NEW h \in Handlers, NEW t \in Transactions, NEW state \in Transactions,
           TakeTransaction(h, t, state)
    PROVE  LoginInv'
<1> USE DEF LoginInv
<1>1. /\ transaction[t].status = "open" /\ transaction[t] \in Transaction
      /\ transaction' = [transaction EXCEPT ![t].status = "gone"]
      /\ UNCHANGED <<clock, policy, published, session, rejected>>
  BY DEF TakeTransaction, LoginTypeInv
<1>2. /\ transaction' \in [Transactions -> Transaction]
      /\ transaction'[t].status = "gone" /\ transaction'[t].surface = transaction[t].surface
      /\ \A u \in Transactions \ {t} : transaction'[u] = transaction[u]
  BY <1>1 DEF LoginTypeInv, Transaction
<1>3. PICK taken :
        /\ taken \in Callback /\ taken.pc = "exchange" /\ taken.transaction = t
        /\ taken.surface \in Surfaces
        /\ handler' = [handler EXCEPT ![h] = taken] \/ Refuse(h)
  <2> DEFINE row == [IdleHandler EXCEPT !.pc = "exchange", !.transaction = t,
                                        !.surface = transaction[t].surface]
  <2>1. /\ row \in Callback /\ row.pc = "exchange" /\ row.transaction = t
        /\ row.surface \in Surfaces
    BY <1>1 DEF LoginTypeInv, Callback, IdleHandler, NoToken, Token
  <2>2. handler' = [handler EXCEPT ![h] = row] \/ Refuse(h)
    BY DEF TakeTransaction
  <2> HIDE DEF row
  <2> QED  BY <2>1, <2>2
<1>4. /\ handler' \in [Handlers -> Callback]
      /\ \A other \in Handlers \ {h} : handler'[other] = handler[other]
      /\ handler'[h] \in {IdleHandler, taken}
  BY <1>3, IdleCallback DEF Refuse, LoginTypeInv
<1>5. LoginTypeInv' /\ PublishedInv' /\ RolesOfOwnLogin' /\ PublishedKeysAccepted'
  BY <1>1, <1>2, <1>3, <1>4 DEF LoginTypeInv, PublishedInv, RolesOfOwnLogin, PublishedKeysAccepted
<1>6. SessionsInv'
  BY <1>1, <1>2 DEF SessionsInv, BrowserSession
<1>7. \A x \in DOMAIN session : session[x].transaction # t
  BY <1>1 DEF SessionsInv
<1>8. \A other \in Handlers : handler[other].transaction # t
  BY <1>1, NoneAssumption DEF CallbacksInv, GoodCallback
<1>9. GoodCallback(taken)'
  BY <1>1, <1>2, <1>3, <1>7 DEF GoodCallback
<1>10. GoodCallback(IdleHandler)'
  BY IdleCallback DEF GoodCallback
<1>11. \A other \in Handlers \ {h} : GoodCallback(handler[other])'
  BY <1>1, <1>2, <1>4 DEF CallbacksInv, GoodCallback
<1>12. CallbacksInv'
  BY <1>4, <1>9, <1>10, <1>11 DEF CallbacksInv
<1>13. OneSessionPerLogin'
  BY <1>1, <1>3, <1>4, <1>8, <1>12, NoneAssumption, IdleCallback
     DEF OneSessionPerLogin, In, CallbacksInv, GoodCallback
<1> QED  BY <1>5, <1>6, <1>12, <1>13

LEMMA CreateKeeps ==
    ASSUME LoginInv, NEW h \in Handlers, CreateSession(h)
    PROVE  LoginInv'
<1> USE DEF LoginInv
<1> DEFINE from == handler[h]
           new == [transaction |-> from.transaction, surface |-> from.surface,
                   token |-> from.token, roles |-> from.roles, expires |-> from.expires,
                   policy |-> policy,
                   kept |-> IF from.expires > clock THEN from.expires ELSE clock + 1]
<1>1. /\ from \in Callback /\ GoodCallback(from) /\ from.pc = "create"
      /\ handler' = [handler EXCEPT ![h] = IdleHandler]
      /\ UNCHANGED <<clock, policy, published, transaction, rejected>>
  BY DEF CreateSession, In, LoginTypeInv, CallbacksInv
<1>2. PICK n \in Nat : DOMAIN session = 1 .. n
  BY DEF SessionsInv
<1>3. Cardinality(DOMAIN session) = n
  BY <1>2, FS_Interval
<1>4. session' = [x \in 1 .. n + 1 |-> IF x \in DOMAIN session THEN session[x] ELSE new]
  BY <1>3 DEF CreateSession
<1>5. new \in BrowserSession
  BY <1>1 DEF BrowserSession, Callback, GoodCallback, LoginTypeInv
<1>6. /\ DOMAIN session' = 1 .. n + 1 /\ session'[n + 1] = new
      /\ \A x \in DOMAIN session : session'[x] = session[x]
      /\ \A x \in DOMAIN session' : x \in DOMAIN session \/ x = n + 1
  BY <1>2, <1>4
<1>7. /\ new.transaction = from.transaction /\ new.surface = from.surface
      /\ new.token = from.token /\ new.roles = from.roles /\ new.expires = from.expires
  OBVIOUS
<1> HIDE DEF new
<1>8. /\ handler' \in [Handlers -> Callback] /\ handler'[h] = IdleHandler
      /\ \A other \in Handlers \ {h} : handler'[other] = handler[other]
  BY <1>1, IdleCallback DEF LoginTypeInv
<1>9. LoginTypeInv' /\ PublishedInv' /\ PublishedKeysAccepted'
  BY <1>1, <1>8 DEF LoginTypeInv, PublishedInv, PublishedKeysAccepted
<1>10. SessionsInv'
  BY <1>1, <1>5, <1>6, <1>7 DEF SessionsInv, GoodCallback
<1>11. RolesOfOwnLogin'
  BY <1>1, <1>6, <1>7 DEF RolesOfOwnLogin, GoodCallback
<1>12. \A other \in Handlers \ {h} : handler[other].transaction # from.transaction
  BY <1>1 DEF OneSessionPerLogin, In
<1>13. CallbacksInv'
  <2>1. ASSUME NEW other \in Handlers \ {h}
        PROVE  GoodCallback(handler[other])'
    BY <1>1, <1>6, <1>7, <1>8, <1>12 DEF CallbacksInv, GoodCallback
  <2>2. GoodCallback(handler[h])'
    BY <1>8, IdleCallback DEF GoodCallback
  <2> QED  BY <2>1, <2>2 DEF CallbacksInv
<1>14. \A g, other \in Handlers :
         /\ handler'[g].pc # "idle"
         /\ handler'[g].transaction = handler'[other].transaction
         => g = other
  BY <1>8, <1>13, IdleCallback, NoneAssumption DEF CallbacksInv, GoodCallback, OneSessionPerLogin, In
<1>15. \A x, y \in DOMAIN session' : session'[x].transaction = session'[y].transaction => x = y
  BY <1>1, <1>6, <1>7 DEF OneSessionPerLogin, GoodCallback
<1> QED  BY <1>9, <1>10, <1>11, <1>13, <1>14, <1>15 DEF OneSessionPerLogin, In

\* Redis forgets a session: what it was made of does not change.
LEMMA ForgetKeeps ==
    ASSUME LoginInv, NEW x \in DOMAIN session, Forget(x),
           UNCHANGED <<clock, policy, published, transaction, handler, rejected>>
    PROVE  LoginInv'
<1> USE DEF LoginInv
<1>1. /\ DOMAIN session' = DOMAIN session
      /\ \A y \in DOMAIN session :
           /\ session'[y] \in BrowserSession
           /\ session'[y].transaction = session[y].transaction
           /\ session'[y].surface = session[y].surface
           /\ session'[y].token = session[y].token
           /\ session'[y].expires = session[y].expires
           /\ session'[y].roles = session[y].roles
  <2>1. \A y \in DOMAIN session : session[y] \in BrowserSession
    BY DEF SessionsInv
  <2> QED  BY <2>1 DEF Forget, BrowserSession
<1>2. LoginTypeInv' /\ PublishedInv' /\ PublishedKeysAccepted'
  BY DEF LoginTypeInv, PublishedInv, PublishedKeysAccepted
<1>3. SessionsInv' /\ RolesOfOwnLogin'
  BY <1>1 DEF SessionsInv, RolesOfOwnLogin
<1>4. CallbacksInv'
  BY <1>1 DEF CallbacksInv, GoodCallback
<1>5. OneSessionPerLogin'
  BY <1>1 DEF OneSessionPerLogin, In
<1> QED  BY <1>2, <1>3, <1>4, <1>5

--------------------------------------------------------------------------------------
(* The invariant.                                                                        *)

LEMMA InitLoginInv == LoginInit => LoginInv
<1> SUFFICES ASSUME LoginInit
             PROVE  LoginInv
  OBVIOUS
<1> USE DEF LoginInit
<1>1. LoginTypeInv
  BY IdleCallback DEF LoginTypeInv, Transaction
<1>2. PublishedInv
  <2>1. published = 1 .. 1
    OBVIOUS
  <2> QED  BY <2>1 DEF PublishedInv
<1>3. DOMAIN session = {}
  OBVIOUS
<1>4. SessionsInv
  <2>1. 1 .. 0 = {}
    OBVIOUS
  <2> QED  BY <1>3, <2>1 DEF SessionsInv
<1>5. CallbacksInv
  BY IdleCallback DEF CallbacksInv, GoodCallback
<1> QED
  BY <1>1, <1>2, <1>3, <1>4, <1>5, IdleCallback
  DEF LoginInv, OneSessionPerLogin, In, RolesOfOwnLogin, PublishedKeysAccepted

\* Key rotation, deployments and time.
LEMMA SurroundingsKeep ==
    ASSUME LoginInv, RotateKeys \/ Deploy \/ Tick
    PROVE  LoginInv'
<1> USE DEF LoginInv
<1>1. UNCHANGED <<transaction, session, rejected>>
  BY DEF RotateKeys, Deploy, Tick
<1>2. SessionsInv' /\ RolesOfOwnLogin' /\ PublishedKeysAccepted'
  BY <1>1 DEF SessionsInv, RolesOfOwnLogin, PublishedKeysAccepted
<1>3. CASE RotateKeys
  <2>1. UNCHANGED <<clock, policy, handler>>
    BY <1>3 DEF RotateKeys
  <2>2. LoginTypeInv' /\ PublishedInv' /\ OneSessionPerLogin'
    BY <1>1, <1>3, <2>1, Rotation DEF LoginTypeInv, OneSessionPerLogin, In
  <2>3. CallbacksInv'
    <3> SUFFICES ASSUME NEW h \in Handlers
                 PROVE  GoodCallback(handler[h])'
      BY DEF CallbacksInv
    <3>1. handler[h].token.key \in Nat /\ GoodCallback(handler[h])
      BY DEF LoginTypeInv, Callback, Token, CallbacksInv
    <3>2. (\E k \in published : handler[h].token.key <= k) =>
            /\ \E k \in published' : handler[h].token.key <= k
            /\ handler[h].token.key \in published' => handler[h].token.key \in published
      BY <1>3, <3>1, Rotation
    <3> QED  BY <1>1, <2>1, <3>1, <3>2 DEF GoodCallback
  <2> QED  BY <1>2, <2>2, <2>3
<1>4. CASE Deploy
  <2>1. /\ UNCHANGED <<clock, published>> /\ policy' = policy + 1
        /\ handler' = [h \in Handlers |-> IdleHandler]
    BY <1>4 DEF Deploy
  <2>2. LoginTypeInv' /\ PublishedInv' /\ OneSessionPerLogin'
    BY <1>1, <2>1, IdleCallback DEF LoginTypeInv, PublishedInv, OneSessionPerLogin, In
  <2>3. CallbacksInv'
    BY <2>1, IdleCallback DEF CallbacksInv, GoodCallback
  <2> QED  BY <1>2, <2>2, <2>3
<1>5. CASE Tick
  <2>1. UNCHANGED <<policy, published, handler>> /\ clock' = clock + 1
    BY <1>5 DEF Tick
  <2> QED
    BY <1>1, <1>2, <2>1
    DEF LoginTypeInv, PublishedInv, OneSessionPerLogin, In, CallbacksInv, GoodCallback
<1> QED  BY <1>3, <1>4, <1>5

LEMMA LoginStep == LoginInv /\ [LoginNext]_loginVars => LoginInv'
<1> SUFFICES ASSUME LoginInv, [LoginNext]_loginVars
             PROVE  LoginInv'
  OBVIOUS
<1>1. ASSUME UNCHANGED <<clock, policy, published, transaction, handler, session, rejected>>
      PROVE  LoginInv'
  BY <1>1
  DEF LoginInv, LoginTypeInv, PublishedInv, SessionsInv, CallbacksInv, GoodCallback,
      OneSessionPerLogin, RolesOfOwnLogin, PublishedKeysAccepted, In
<1>2. ASSUME NEW t \in Transactions, NEW s \in Surfaces, BeginLogin(t, s)
      PROVE  LoginInv'
  <2>1. [status |-> "open", surface |-> s] \in Transaction
    BY DEF Transaction
  <2> QED  BY <1>2, <2>1, TransactionsMove DEF BeginLogin
<1>3. ASSUME NEW t \in Transactions, SignIn(t)
      PROVE  LoginInv'
  BY <1>1, <1>3 DEF SignIn
<1>4. ASSUME NEW t \in Transactions, EndTransaction(t)
      PROVE  LoginInv'
  <2> DEFINE row == [transaction[t] EXCEPT !.status = "gone"]
  <2>1. row \in Transaction /\ row.surface \in Surfaces
    BY <1>4 DEF EndTransaction, LoginInv, LoginTypeInv, Transaction
  <2>2. transaction' = [transaction EXCEPT ![t] = row]
    BY <1>4 DEF EndTransaction
  <2> HIDE DEF row
  <2> QED  BY <1>4, <2>1, <2>2, TransactionsMove DEF EndTransaction
<1>5. ASSUME NEW h \in Handlers, CallbackStep(h)
      PROVE  LoginInv'
  <2>1. CASE DecodeWithCache(h)
    BY <2>1, OnlyStepMoves DEF DecodeWithCache, In
  <2>2. CASE AbandonLogin(h)
    BY <2>2, RefuseKeeps DEF AbandonLogin
  <2> QED
    BY <1>5, <2>1, <2>2, TakeKeeps, ExchangeKeeps, AskKeeps, AnswerKeeps, ValidateKeeps,
       UpsertKeeps, CreateKeeps DEF CallbackStep
<1>6. ASSUME NEW x \in DOMAIN session, (\E s \in Surfaces : ServeRequest(x, s)) \/ Logout(x)
      PROVE  LoginInv'
  <2>1. /\ UNCHANGED <<clock, policy, published, transaction, handler, rejected>>
        /\ Forget(x) \/ UNCHANGED session
    BY <1>6 DEF ServeRequest, Logout
  <2> QED  BY <1>1, <2>1, ForgetKeeps
<1>7. CASE UNCHANGED loginVars
  BY <1>1, <1>7 DEF loginVars
<1> QED
  BY <1>2, <1>3, <1>4, <1>5, <1>6, <1>7, SurroundingsKeep DEF LoginNext

LEMMA LoginInvariant == LoginSpec => []LoginInv
BY InitLoginInv, LoginStep, PTL DEF LoginSpec

--------------------------------------------------------------------------------------
(* What it is for.                                                                       *)

\* However often and however concurrently its callback is called, a login makes one
\* session: the transaction is taken away before anything is done with it.
THEOREM OneSessionOfALogin == LoginSpec => []OneSessionPerLogin
<1>1. LoginInv => OneSessionPerLogin
  BY DEF LoginInv
<1> QED  BY <1>1, LoginInvariant, PTL

\* A session has the roles of its own token, whoever writes the row of the user between.
THEOREM RolesAreOfTheToken == LoginSpec => []RolesOfOwnLogin
<1>1. LoginInv => RolesOfOwnLogin
  BY DEF LoginInv
<1> QED  BY <1>1, LoginInvariant, PTL

\* A token whose key is published is not rejected for its signature, however the caches
\* are overwritten: a callback that rejects has asked for the keys after the token was
\* signed, and a key that is missing then is never published again.
THEOREM NoPublishedKeyRejected == LoginSpec => []PublishedKeysAccepted
<1>1. LoginInv => PublishedKeysAccepted
  BY DEF LoginInv
<1> QED  BY <1>1, LoginInvariant, PTL

\* A session ends with its token at the latest: that is decided when the token is looked at,
\* and whoever is served is asked for it again (get_browser_session).
THEOREM ServedBeforeTheTokenEnds == LoginSpec => ServedWithinToken
<1> DEFINE Within == \A x \in DOMAIN session :
             served' # served /\ served'.session = x => served'.time < session[x].token.expires
<1>1. ASSUME LoginInv, [LoginNext]_loginVars
      PROVE  Within
  <2>1. ASSUME NEW x \in DOMAIN session, NEW s \in Surfaces, ServeRequest(x, s)
        PROVE  Within
    <3>1. CASE /\ session[x].expires > clock
               /\ served' = [session |-> x, time |-> clock]
      <4>1. /\ clock \in Nat /\ session[x] \in BrowserSession
            /\ session[x].expires <= session[x].token.expires
        BY <1>1 DEF LoginInv, LoginTypeInv, SessionsInv
      <4>2. session[x].expires \in Nat /\ session[x].token.expires \in Nat
        BY <4>1 DEF BrowserSession, Token
      <4>3. served'.session = x /\ served'.time = clock
        BY <3>1
      <4> QED  BY <3>1, <4>1, <4>2, <4>3
    <3> QED  BY <2>1, <3>1 DEF ServeRequest
  <2>2. CASE UNCHANGED served
    BY <2>2
  <2>3. ASSUME NEW h \in Handlers, CallbackStep(h)
        PROVE  UNCHANGED served
    BY <2>3 DEF CallbackStep, TakeTransaction, ExchangeCode, DecodeWithCache, AskForKeys,
                DecodeWithAnswer, Validate, UpsertUser, CreateSession, AbandonLogin
  <2>4. ASSUME NEW t \in Transactions,
               (\E s \in Surfaces : BeginLogin(t, s)) \/ SignIn(t) \/ EndTransaction(t)
        PROVE  UNCHANGED served
    BY <2>4 DEF BeginLogin, SignIn, EndTransaction
  <2>5. ASSUME NEW x \in DOMAIN session, Logout(x)
        PROVE  UNCHANGED served
    BY <2>5 DEF Logout
  <2>6. CASE RotateKeys \/ Deploy \/ Tick \/ UNCHANGED loginVars
    BY <2>2, <2>6 DEF RotateKeys, Deploy, Tick, loginVars
  <2> HIDE DEF Within
  <2> QED  BY <1>1, <2>1, <2>2, <2>3, <2>4, <2>5, <2>6 DEF LoginNext
<1>2. LoginInv /\ [LoginNext]_loginVars => [Within]_loginVars
  BY <1>1
<1> QED  BY <1>2, LoginInvariant, PTL DEF LoginSpec, ServedWithinToken

--------------------------------------------------------------------------------------
(* The tokens of this service.                                                           *)

LooksInv == \A c \in Callers : caller[c].asof <= corrections

TokensInv == TokensTypeOK /\ LooksInv /\ OneRequest

LEMMA InitTokensInv == TokensInit => TokensInv
  BY SMT DEF TokensInit, TokensInv, TokensTypeOK, LooksInv, OneRequest, Cache, Caller, IdleCaller

LEMMA WaitingCaller ==
    ASSUME TokensTypeOK, NEW c \in Callers
    PROVE  /\ [caller[c] EXCEPT !.pc = "waiting"] \in Caller
           /\ [caller[c] EXCEPT !.pc = "waiting"].pc = "waiting"
           /\ [caller[c] EXCEPT !.pc = "waiting"].asof = caller[c].asof
  BY DEF TokensTypeOK, Caller

\* What a caller does next leaves the others where they are.
LEMMA CallerMoves ==
    ASSUME TokensTypeOK, LooksInv, NEW c \in Callers, NEW row \in Caller,
           row.asof <= corrections,
           caller' = [caller EXCEPT ![c] = row], UNCHANGED <<now, corrections>>
    PROVE  /\ caller' \in [Callers -> Caller] /\ LooksInv'
           /\ caller'[c] = row
           /\ \A other \in Callers \ {c} : caller'[other] = caller[other]
  BY DEF TokensTypeOK, LooksInv

\* A caller that asks holds the lock, with the cache as stale as it found it.
LEMMA TokensStep == TokensInv /\ [TokensNext]_tokenVars => TokensInv'
  <1> SUFFICES ASSUME TokensInv, [TokensNext]_tokenVars
               PROVE  TokensInv'
    OBVIOUS
  <1>1. TokensTypeOK /\ LooksInv /\ OneRequest
    BY DEF TokensInv
  <1>2. /\ now \in Nat /\ Margin \in Nat /\ corrections \in Nat /\ cache.until \in Nat
        /\ \A c \in Callers : caller[c].asof \in Nat
    BY <1>1, TokensBounds DEF TokensTypeOK, Cache, Caller
  <1>3. IdleCaller \in Caller /\ IdleCaller.pc = "idle" /\ IdleCaller.asof <= corrections
    BY <1>2 DEF IdleCaller, Caller
  <1>4. CASE UNCHANGED tokenVars
    BY <1>1, <1>4 DEF TokensInv, TokensTypeOK, LooksInv, OneRequest, Fresh, tokenVars
  <1>5. CASE PassTime
    <2>1. UNCHANGED <<corrections, cache, lock, caller>> /\ now' = now + 1
      BY <1>5 DEF PassTime
    <2>2. Fresh' => Fresh
      BY <1>2, <2>1 DEF Fresh
    <2> QED  BY <1>1, <1>2, <2>1, <2>2 DEF TokensInv, TokensTypeOK, LooksInv, OneRequest
  <1>6. CASE SetBack
    <2>1. /\ UNCHANGED <<cache, lock, caller>> /\ now' \in Nat
          /\ corrections' = corrections + 1
      BY <1>1, <1>6 DEF SetBack, TokensTypeOK
    <2>2. LooksInv' /\ \A c \in Callers : caller[c].asof < corrections'
      BY <1>1, <1>2, <2>1 DEF LooksInv
    <2> QED  BY <1>1, <1>2, <2>1, <2>2 DEF TokensInv, TokensTypeOK, OneRequest
  <1>7. ASSUME NEW c \in Callers, CallerStep(c)
        PROVE  TokensInv'
    <2>1. CASE AskForToken(c)
      <3>1. /\ UNCHANGED <<now, corrections, cache, lock>>
            /\ caller' = [caller EXCEPT ![c] = [caller[c] EXCEPT !.pc = "waiting"]]
        BY <2>1 DEF AskForToken
      <3>2. [caller[c] EXCEPT !.pc = "waiting"].asof <= corrections
        BY <1>1, WaitingCaller DEF LooksInv
      <3> DEFINE row == [caller[c] EXCEPT !.pc = "waiting"]
      <3>3. row \in Caller /\ row.pc = "waiting"
        BY <1>1, WaitingCaller
      <3> HIDE DEF row
      <3>4. /\ caller' \in [Callers -> Caller] /\ LooksInv' /\ caller'[c] = row
            /\ \A other \in Callers \ {c} : caller'[other] = caller[other]
        BY <1>1, <3>1, <3>2, <3>3, CallerMoves DEF row
      <3> QED  BY <1>1, <3>1, <3>3, <3>4 DEF TokensInv, TokensTypeOK, OneRequest, Fresh
    <2>2. CASE EnterLock(c) /\ ~Fresh
      <3> DEFINE row == [pc |-> "requesting", asof |-> corrections]
      <3>1. /\ UNCHANGED <<now, corrections, cache>> /\ lock = NoCaller /\ lock' = c
            /\ caller' = [caller EXCEPT ![c] = row]
        BY <2>2 DEF EnterLock
      <3>2. row \in Caller /\ row.asof <= corrections
        BY <1>2 DEF Caller
      <3> HIDE DEF row
      <3>3. /\ caller' \in [Callers -> Caller] /\ LooksInv'
            /\ \A other \in Callers \ {c} : caller'[other] = caller[other]
        BY <1>1, <3>1, <3>2, CallerMoves
      <3>4. \A other \in Callers : caller[other].pc # "requesting"
        BY <1>1, <3>1, CallersAssumption DEF OneRequest
      <3>5. ~Fresh'
        BY <2>2, <3>1 DEF Fresh
      <3> QED  BY <1>1, <3>1, <3>3, <3>4, <3>5 DEF TokensInv, TokensTypeOK, OneRequest
    <2>3. CASE EnterLock(c) /\ Fresh
      <3>1. /\ UNCHANGED <<now, corrections, cache, lock>>
            /\ caller' = [caller EXCEPT ![c] = IdleCaller]
        BY <2>3 DEF EnterLock
      <3>2. /\ caller' \in [Callers -> Caller] /\ LooksInv' /\ caller'[c].pc = "idle"
            /\ \A other \in Callers \ {c} : caller'[other] = caller[other]
        BY <1>1, <1>3, <3>1, CallerMoves
      <3> QED  BY <1>1, <3>1, <3>2 DEF TokensInv, TokensTypeOK, OneRequest, Fresh
    <2>4. CASE StoreToken(c) \/ RequestFails(c)
      <3>1. /\ UNCHANGED <<now, corrections>> /\ lock' = NoCaller
            /\ caller[c].pc = "requesting" /\ caller' = [caller EXCEPT ![c] = IdleCaller]
            /\ cache' \in Cache
        <4>1. cache \in Cache /\ \A l \in Lives : [held |-> TRUE, until |-> now + l] \in Cache
          BY <1>1, <1>2, LivesAssumption DEF TokensTypeOK, Cache
        <4> QED  BY <2>4, <4>1 DEF StoreToken, RequestFails
      <3>2. /\ caller' \in [Callers -> Caller] /\ LooksInv' /\ caller'[c].pc = "idle"
            /\ \A other \in Callers \ {c} : caller'[other] = caller[other]
        BY <1>1, <1>3, <3>1, CallerMoves
      <3>3. \A other \in Callers \ {c} : caller[other].pc # "requesting"
        BY <1>1, <3>1 DEF OneRequest
      <3>4. \A other \in Callers : caller'[other].pc # "requesting"
        BY <3>2, <3>3
      <3> QED  BY <1>1, <3>1, <3>2, <3>4 DEF TokensInv, TokensTypeOK, OneRequest
    <2> QED  BY <1>7, <2>1, <2>2, <2>3, <2>4 DEF CallerStep
  <1> QED  BY <1>4, <1>5, <1>6, <1>7 DEF TokensNext

\* One caller at a time asks the provider, and only for want of a token to use as it last
\* looked; while the clock is not set back that stays so until it has the answer
\* (DownstreamServiceClient._token, ServiceTokenProvider.get_token).
THEOREM OneRequestAtATime == TokensSpec => []OneRequest
  <1>1. TokensInv => OneRequest
    BY DEF TokensInv
  <1> QED  BY InitTokensInv, TokensStep, <1>1, PTL DEF TokensSpec
==========================================================================================
