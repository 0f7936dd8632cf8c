--------------------------- MODULE RequestLimits ---------------------------
(***************************************************************************)
(* The API server's sliding window of requests (server/security.py,        *)
(* RateLimiter) behind the verdicts that come before it.  app.py adds the  *)
(* middlewares in the order size limit, rate limit, authentication, CSRF,  *)
(* and the one added last runs first: a request refused by the CSRF check  *)
(* or by authentication never reaches the window, one refused for its size *)
(* has already been counted.                                               *)
(*                                                                         *)
(* A request is its key (hashed token or address) and the outcome of the   *)
(* checks that read nothing but the request.  A call runs in one piece, on *)
(* the event loop and under the limiter's lock.                            *)
(***************************************************************************)
EXTENDS Naturals, Sequences, FiniteSets

CONSTANTS
    Senders,         \* tokens and addresses that send requests
    Limit,        \* requests_per_minute
    RateSpan,       \* window_ms / 1000, in ticks
    PurgeEvery,   \* _PURGE_INTERVAL, in ticks
    MaxNow        \* bound on the clock

ASSUME LimitsAssumption == {Limit, RateSpan, PurgeEvery, MaxNow} \subseteq Nat

Kinds == {"public", "forged", "anonymous", "oversized", "good"}

VARIABLES
    _requests,     \* RateLimiter._requests: the stamps kept for each key
    lastPurge,    \* RateLimiter._last_purge
    wall,          \* time.time()
    admitted      \* history: the last Limit + 1 times a key was let through

rlvars == <<_requests, lastPurge, wall, admitted>>

RInit ==
    /\ _requests = [k \in Senders |-> <<>>]
    /\ lastPurge = 0
    /\ wall = PurgeEvery
    /\ admitted = [k \in Senders |-> <<>>]

----------------------------------------------------------------------------
(* The window of the API server.                                           *)

\* Whether a stamp lies in the window that ends now: t > wall - RateSpan.
Recent(t) == t + RateSpan > wall

\* Mutated form: a key is stale once its first stamp is.
Stale_ByFirst(stamps) == stamps = <<>> \/ stamps[1] + RateSpan < wall

\* _purge_stale_keys: the last stamp is older than the window.
Stale(stamps) == stamps = <<>> \/ stamps[Len(stamps)] + RateSpan < wall

PurgeDue == wall > lastPurge + PurgeEvery

\* What is_allowed finds for each key after the purge.
Purged == IF PurgeDue
             THEN [k \in Senders |-> IF Stale(_requests[k]) THEN <<>> ELSE _requests[k]]
             ELSE _requests

\* _cleanup_old: the stamps are in order of time, the old ones first.
CleanedUp(stamps) ==
    SubSeq(stamps, 1 + Cardinality({i \in DOMAIN stamps : ~Recent(stamps[i])}), Len(stamps))

\* The history keeps as many stamps as the property relates.
Latest(s) == IF Len(s) > Limit + 1 THEN Tail(s) ELSE s

\* RateLimiter.is_allowed: purge, drop the old stamps, refuse or record.
IsAllowed(k) ==
    LET kept == CleanedUp(Purged[k])
        ok == Len(kept) < Limit
    IN  /\ lastPurge' = IF PurgeDue THEN wall ELSE lastPurge
        /\ _requests' = [Purged EXCEPT ![k] = IF ok THEN Append(kept, wall) ELSE kept]
        /\ admitted' = IF ok THEN [admitted EXCEPT ![k] = Latest(Append(@, wall))] ELSE admitted

\* The middlewares before the window refuse what is forged (CSRF) or carries
\* no valid token, and let what is public pass the window by.
ReachesWindow(kind) == kind \in {"oversized", "good"}

Request(k, kind) ==
    /\ IF ReachesWindow(kind) THEN IsAllowed(k)
                              ELSE UNCHANGED <<_requests, lastPurge, admitted>>
    /\ UNCHANGED wall

----------------------------------------------------------------------------
Tick ==
    /\ wall < MaxNow
    /\ wall' = wall + 1
    /\ UNCHANGED <<_requests, lastPurge, admitted>>

RNext ==
    \/ Tick
    \/ \E k \in Senders, kind \in Kinds : Request(k, kind)

RSpec == RInit /\ [][RNext]_rlvars

----------------------------------------------------------------------------
\* Whatever was purged in between, no window of time has more than Limit
\* requests of one key let through: any Limit + 1 successive admissions span
\* at least a window.  Two lists and a purge decide it (security.py:52-73).
RateHolds ==
    \A k \in Senders : \A i \in 1 .. Len(admitted[k]) :
        i + Limit <= Len(admitted[k]) => admitted[k][i + Limit] >= admitted[k][i] + RateSpan
=============================================================================
