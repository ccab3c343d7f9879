---------------------------------- MODULE Fetching ----------------------------------
(* Fetching a page of the public internet (infrastructure/external/crawl_http.py):     *)
(* names are resolved by threads that cannot be cancelled and hold one of a few slots, *)
(* redirects are followed hop by hop, and the body is read, and inflated, up to a      *)
(* limit.  The time allowed covers everything a fetch does; it may run out wherever    *)
(* the fetch waits.                                                                    *)
EXTENDS Naturals, FiniteSets

CONSTANTS
    Fetchers,       \* the coroutines that fetch
    Urls,           \* records of scheme and host: all that redirects depend on
    Numeric,        \* the hosts that are addresses themselves
    Internal,       \* those of them that are not public
    Slots,          \* _DNS_SLOTS
    MaxRedirects,
    MaxBytes,
    Chunks,         \* bound: the sizes of a chunk of the body
    Inflated        \* bound: how much a chunk inflates to

ASSUME UrlsAssumption ==
    /\ Urls # {}
    /\ \A u \in Urls : u.scheme \in {"http", "https"}
    /\ Internal \subseteq Numeric
ASSUME FetchersAssumption == IsFiniteSet(Fetchers)
ASSUME FetchLimitsAssumption ==
    /\ Slots \in Nat \ {0} /\ MaxRedirects \in Nat /\ MaxBytes \in Nat \ {0}
    /\ Chunks \subseteq Nat \ {0} /\ Inflated \subseteq Nat

VARIABLES
    fetch,       \* where each coroutine is in fetch_crawl_url
    lookup,      \* the thread it waits for: "none", "running", or how it has ended
    free,        \* the slots nobody holds
    abandoned    \* running threads whose caller has given up

fetchVars == <<fetch, lookup, free, abandoned>>

AnyUrl == CHOOSE u \in Urls : TRUE

\* The headers are two: one the caller gave for its own site, and what
\* _CROSS_ORIGIN_HEADERS lets any site see.  "away" tells whether another origin has
\* been visited.  "largest" is the largest piece the decoder was made to produce.
AtRest ==
    [pc |-> "idle", method |-> "GET", url |-> AnyUrl, hop |-> 0,
     headers |-> {}, away |-> FALSE, compressed |-> FALSE, complete |-> FALSE,
     received |-> 0, content |-> 0, largest |-> 0]

FetchInit ==
    /\ fetch = [f \in Fetchers |-> AtRest]
    /\ lookup = [f \in Fetchers |-> "none"]
    /\ free = Slots
    /\ abandoned = 0

\* The coroutine goes on; where it stops, it raises CrawlFetchError.
Becomes(f, s) == fetch' = [fetch EXCEPT ![f] = s]
Stops(f) == Becomes(f, AtRest)
At(f, pc) == fetch[f].pc = pc

--------------------------------------------------------------------------------------
(* Resolving the host of a hop.                                                        *)

StartFetch(f) ==
    /\ At(f, "idle")
    /\ \E u \in Urls, m \in {"GET", "POST"}, own \in {{}, {"own"}} :
         Becomes(f, [AtRest EXCEPT !.pc = "target", !.url = u, !.method = m,
                                   !.headers = own \cup {"common"}])
    /\ UNCHANGED <<lookup, free, abandoned>>

TargetAddress(f) ==
    /\ At(f, "target")
    /\ fetch[f].url.host \in Numeric
    /\ IF fetch[f].url.host \in Internal
       THEN Stops(f)
       ELSE Becomes(f, [fetch[f] EXCEPT !.pc = "request"])
    /\ UNCHANGED <<lookup, free, abandoned>>

\* All slots taken, or no thread to be had: the slot is given back at once.
NoLookup(f) ==
    /\ At(f, "target")
    /\ fetch[f].url.host \notin Numeric
    /\ Stops(f)
    /\ UNCHANGED <<lookup, free, abandoned>>

StartLookup(f) ==
    /\ At(f, "target")
    /\ fetch[f].url.host \notin Numeric
    /\ free > 0
    /\ free' = free - 1
    /\ lookup' = [lookup EXCEPT ![f] = "running"]
    /\ Becomes(f, [fetch[f] EXCEPT !.pc = "resolving"])
    /\ UNCHANGED abandoned

\* The thread releases its slot before it hands over what it found.
EndLookup(f) ==
    /\ lookup[f] = "running"
    /\ \E answers \in {"public", "mixed", "empty", "failed"} :
         lookup' = [lookup EXCEPT ![f] = answers]
    /\ free' = free + 1
    /\ UNCHANGED <<fetch, abandoned>>

EndAbandoned ==
    /\ abandoned > 0
    /\ abandoned' = abandoned - 1
    /\ free' = free + 1
    /\ UNCHANGED <<fetch, lookup>>

\* One answer that is not public refuses them all.
Deliver(f) ==
    /\ lookup[f] \notin {"none", "running"}
    /\ lookup' = [lookup EXCEPT ![f] = "none"]
    /\ IF lookup[f] = "public"
       THEN Becomes(f, [fetch[f] EXCEPT !.pc = "request"])
       ELSE Stops(f)
    /\ UNCHANGED <<free, abandoned>>

TimeOut_bug(f) ==   \* the caller gives back the slot its thread still holds
    /\ ~At(f, "idle")
    /\ Stops(f)
    /\ lookup' = [lookup EXCEPT ![f] = "none"]
    /\ IF lookup[f] = "running"
       THEN abandoned' = abandoned + 1 /\ free' = free + 1
       ELSE UNCHANGED <<free, abandoned>>

\* The deadline, or the caller's own cancellation.  A lookup that runs goes on.
TimeOut(f) ==
    /\ ~At(f, "idle")
    /\ Stops(f)
    /\ lookup' = [lookup EXCEPT ![f] = "none"]
    /\ abandoned' = abandoned + (IF lookup[f] = "running" THEN 1 ELSE 0)
    /\ UNCHANGED free

--------------------------------------------------------------------------------------
(* The exchange with the address: a failure, a redirect or an answer.                  *)

FailRequest(f) ==
    /\ fetch[f].pc \in {"request", "reading"}
    /\ Stops(f)
    /\ UNCHANGED <<lookup, free, abandoned>>

\* Two URLs with the same scheme and host are of one origin: _url allows no other
\* port than the scheme's own.
HeadersFor_bug(s, u) ==   \* compares the hosts only
    IF u.host = s.url.host THEN s.headers ELSE s.headers \cap {"common"}

HeadersFor(s, u) == IF u = s.url THEN s.headers ELSE s.headers \cap {"common"}

Follow(f, u) ==
    LET s == fetch[f] IN
    /\ At(f, "request")
    /\ s.method = "GET"
    /\ s.hop < MaxRedirects
    /\ s.url.scheme = "https" => u.scheme = "https"
    /\ Becomes(f, [s EXCEPT !.pc = "target", !.url = u, !.hop = @ + 1,
                            !.headers = HeadersFor(s, u), !.away = @ \/ u # s.url])
    /\ UNCHANGED <<lookup, free, abandoned>>

\* A body that is announced as too long, or encoded otherwise than the caller allows,
\* is a FailRequest.  Where the body was asked for has no influence on how it is read.
Answer(f, compressed) ==
    /\ At(f, "request")
    /\ Becomes(f, [AtRest EXCEPT !.pc = "reading", !.compressed = compressed])
    /\ UNCHANGED <<lookup, free, abandoned>>

\* zlib: at most limit bytes, and no limit at all when it is 0.
Decompress(n, limit) == IF limit = 0 \/ n < limit THEN n ELSE limit

Feed_bug(s, n) ==   \* asks for no more than there is room for
    LET piece == Decompress(n, MaxBytes - s.content)
    IN  [s EXCEPT !.largest = IF piece > @ THEN piece ELSE @,
                  !.content = IF piece > MaxBytes - @ THEN @ ELSE @ + piece,
                  !.pc = IF piece > MaxBytes - s.content THEN "idle" ELSE @]

\* _BoundedInflater.feed: asks for one byte more than there is room for, so that an
\* excess shows.  A body larger than the limit ends the fetch.
Feed(s, n) ==
    LET piece == Decompress(n, MaxBytes - s.content + 1)
    IN  [s EXCEPT !.largest = IF piece > @ THEN piece ELSE @,
                  !.content = IF piece > MaxBytes - @ THEN @ ELSE @ + piece,
                  !.pc = IF piece > MaxBytes - s.content THEN "idle" ELSE @]

\* n bytes arrive, inflating to m if they are compressed; ends tells whether the
\* compressed stream ends with them.
ReadChunk(f, n, m, ends) ==
    LET s == fetch[f]
        room == MaxBytes - s.received
    IN
    /\ At(f, "reading")
    /\ \/ /\ n > room \/ s.complete
          /\ Stops(f)
       \/ /\ n <= room /\ ~s.complete /\ s.compressed
          /\ Becomes(f, [Feed(s, m) EXCEPT !.received = @ + n, !.complete = ends])
       \/ /\ n <= room /\ ~s.complete /\ ~s.compressed
          /\ Becomes(f, [s EXCEPT !.received = @ + n, !.content = @ + n])
    /\ UNCHANGED <<lookup, free, abandoned>>

\* The answer of a compressed stream that is not complete is an error; either way the
\* fetch is over.
EndBody(f) ==
    /\ At(f, "reading")
    /\ Stops(f)
    /\ UNCHANGED <<lookup, free, abandoned>>

FetchStep(f) ==
    \/ StartFetch(f)
    \/ TargetAddress(f)
    \/ NoLookup(f)
    \/ StartLookup(f)
    \/ EndLookup(f)
    \/ Deliver(f)
    \/ TimeOut(f)
    \/ FailRequest(f)
    \/ \E u \in Urls : Follow(f, u)
    \/ \E compressed \in BOOLEAN : Answer(f, compressed)
    \/ \E n \in Chunks, m \in Inflated, ends \in BOOLEAN : ReadChunk(f, n, m, ends)
    \/ EndBody(f)

FetchNext == EndAbandoned \/ \E f \in Fetchers : FetchStep(f)

FetchSpec == FetchInit /\ [][FetchNext]_fetchVars

--------------------------------------------------------------------------------------

\* Every slot is free or held by exactly one thread that still runs, whoever gave up
\* waiting for it: never more than Slots lookups run, and no slot is lost.
SlotsKept ==
    free + abandoned + Cardinality({f \in Fetchers : lookup[f] = "running"}) = Slots

\* What the caller sends to its own site is sent to no other origin, and not to the
\* first one again once the redirects have led elsewhere.
OwnHeadersStayHome ==
    \A f \in Fetchers : "own" \in fetch[f].headers => ~fetch[f].away

\* However a body inflates, the process holds no more of it than the limit, and never
\* makes the decoder produce more than one byte beyond it.
MemoryBounded ==
    \A f \in Fetchers :
      /\ fetch[f].content <= MaxBytes
      /\ fetch[f].largest <= MaxBytes + 1
======================================================================================
