------------------------------- MODULE ServiceTokens -------------------------------
(***************************************************************************)
(* The tokens this service identifies itself with to another one: a cache  *)
(* of one token per client, filled under a lock                            *)
(* (infrastructure/external/downstream_service.py, knowbase_app.py).       *)
(*                                                                         *)
(* The client puts a cached token aside a margin before it believes that   *)
(* it expires.  When the provider lets it expire is not in this module:    *)
(* what the client believes is its own reading of expires_in, counted from *)
(* the answer on a clock that may be set back.                             *)
(***************************************************************************)
EXTENDS Naturals

CONSTANTS
    NoCaller,
    Callers,         \* coroutines that need a token
    Lives,           \* the lives the client may believe a token has: expires_in, or 300 s
    Margin,          \* how long before its end a cached token is put aside: 30 s
    MaxNow,          \* bound: the clock
    MaxCorrections   \* bound: how often the clock is set back

ASSUME CallersAssumption == NoCaller \notin Callers
ASSUME LivesAssumption == Lives \subseteq Nat \ {0}
ASSUME TokensBounds == Margin \in Nat /\ MaxNow \in Nat /\ MaxCorrections \in Nat

VARIABLES
    now,
    corrections,   \* how often the clock was set back
    cache,         \* the token; until: when the client believes it to expire
    lock,          \* asyncio.Lock
    caller         \* where each coroutine is

tokenVars == <<now, corrections, cache, lock, caller>>

Cache == [held: BOOLEAN, until: Nat]

\* asof: the corrections there had been when the coroutine last looked at the cache.
Caller == [pc: {"idle", "waiting", "requesting"}, asof: Nat]

IdleCaller == [pc |-> "idle", asof |-> 0]

TokensInit ==
    /\ now = 0
    /\ corrections = 0
    /\ cache = [held |-> FALSE, until |-> 0]
    /\ lock = NoCaller
    /\ caller = [c \in Callers |-> IdleCaller]

Fresh == cache.held /\ cache.until > now + Margin

\* The first look, without the lock.  A caller that finds the token fresh takes it.
AskForToken(c) ==
    /\ caller[c].pc = "idle"
    /\ ~Fresh
    /\ caller' = [caller EXCEPT ![c].pc = "waiting"]
    /\ UNCHANGED <<now, corrections, cache, lock>>

EnterLock_bug(c) ==   \* does not look again
    /\ caller[c].pc = "waiting"
    /\ lock = NoCaller
    /\ lock' = c
    /\ caller' = [caller EXCEPT ![c] = [pc |-> "requesting", asof |-> corrections]]
    /\ UNCHANGED <<now, corrections, cache>>

\* The second look, with the lock: the token a caller before it has got is taken.
EnterLock(c) ==
    /\ caller[c].pc = "waiting"
    /\ lock = NoCaller
    /\ \/ /\ Fresh
          /\ caller' = [caller EXCEPT ![c] = IdleCaller]
          /\ UNCHANGED lock
       \/ /\ ~Fresh
          /\ lock' = c
          /\ caller' = [caller EXCEPT ![c] = [pc |-> "requesting", asof |-> corrections]]
    /\ UNCHANGED <<now, corrections, cache>>

\* The answer of exchange_client_credentials arrives, and its token is cached.  A life
\* shorter than the margin makes it a token for this caller alone.
StoreToken(c) ==
    /\ caller[c].pc = "requesting"
    /\ \E l \in Lives : cache' = [held |-> TRUE, until |-> now + l]
    /\ lock' = NoCaller
    /\ caller' = [caller EXCEPT ![c] = IdleCaller]
    /\ UNCHANGED <<now, corrections>>

\* No answer, or one without a token: the lock is given back, the cache left alone.
RequestFails(c) ==
    /\ caller[c].pc = "requesting"
    /\ lock' = NoCaller
    /\ caller' = [caller EXCEPT ![c] = IdleCaller]
    /\ UNCHANGED <<now, corrections, cache>>

PassTime ==
    /\ now < MaxNow
    /\ now' = now + 1
    /\ UNCHANGED <<corrections, cache, lock, caller>>

\* time.time() is set back (the monotonic clock of downstream_service.py is not).
SetBack ==
    /\ corrections < MaxCorrections
    /\ now' \in {t \in 0 .. now : t < now}
    /\ corrections' = corrections + 1
    /\ UNCHANGED <<cache, lock, caller>>

CallerStep(c) ==
    \/ AskForToken(c)
    \/ EnterLock(c)
    \/ StoreToken(c)
    \/ RequestFails(c)

TokensNext ==
    \/ PassTime
    \/ SetBack
    \/ \E c \in Callers : CallerStep(c)

TokensSpec == TokensInit /\ [][TokensNext]_tokenVars

--------------------------------------------------------------------------------
(* Properties.                                                              *)

TokensTypeOK ==
    /\ now \in Nat
    /\ corrections \in Nat
    /\ cache \in Cache
    /\ lock \in Callers \cup {NoCaller}
    /\ caller \in [Callers -> Caller]

\* Callers that find the token stale at the same time ask the provider for one token,
\* not for one each, and nobody asks while the cache holds one to use, unless the clock
\* was set back after the caller's look (get_token, _token).
OneRequest ==
    \A c \in Callers :
        caller[c].pc = "requesting" =>
            /\ lock = c
            /\ Fresh => caller[c].asof < corrections
====================================================================================
