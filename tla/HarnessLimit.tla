--------------------------- MODULE HarnessLimit ---------------------------
(***************************************************************************)
(* The request limiter of the harness's web server (harness/web/server.py, *)
(* _check_rate_limit): one counter and one window for each client.         *)
(* HTTPServer answers one request at a time, so a call is one step.        *)
(***************************************************************************)
EXTENDS Naturals, Sequences

CONSTANTS
    Clients,      \* addresses that ask
    RateLimit,    \* RATE_LIMIT_REQUESTS
    RateWindow,   \* RATE_LIMIT_WINDOW, in ticks
    MaxClock      \* bound on the clock

ASSUME HarnessLimitAssumption == {RateLimit, RateWindow, MaxClock} \subseteq Nat

VARIABLES
    counter,      \* _rate_counter
    windowStart,  \* _rate_window_start; NotBegun when absent
    clock,        \* time.time()
    asked,        \* history: when each client asked
    refused       \* history: whether its last request was refused

hlvars == <<counter, windowStart, clock, asked, refused>>

NotBegun == MaxClock + 1

HLInit ==
    /\ counter = [k \in Clients |-> 0]
    /\ windowStart = [k \in Clients |-> NotBegun]
    /\ clock = 0
    /\ asked = [k \in Clients |-> <<>>]
    /\ refused = [k \in Clients |-> FALSE]

\* _check_rate_limit: windowStart is read with the default "now" and written
\* only when a window that began has ended.
CheckRateLimit(k) ==
    LET begun == IF windowStart[k] = NotBegun THEN clock ELSE windowStart[k]
        ended == clock > begun + RateWindow
        n == (IF ended THEN 0 ELSE counter[k]) + 1
    IN  /\ counter' = [counter EXCEPT ![k] = n]
        /\ windowStart' = IF ended THEN [windowStart EXCEPT ![k] = clock] ELSE windowStart
        /\ refused' = [refused EXCEPT ![k] = n > RateLimit]

\* _handle_request for /api/...: what fails _check_auth is not counted.  The
\* history bounds the requests.
Asks(k, authentic) ==
    /\ Len(asked[k]) < RateLimit + 2
    /\ IF authentic
          THEN /\ CheckRateLimit(k)
               /\ asked' = [asked EXCEPT ![k] = Append(@, clock)]
          ELSE UNCHANGED <<counter, windowStart, refused, asked>>
    /\ UNCHANGED clock

ClockTick ==
    /\ clock < MaxClock
    /\ clock' = clock + 1
    /\ UNCHANGED <<counter, windowStart, asked, refused>>

HLNext ==
    \/ ClockTick
    \/ \E k \in Clients, authentic \in BOOLEAN : Asks(k, authentic)

HLSpec == HLInit /\ [][HLNext]_hlvars

----------------------------------------------------------------------------
\* "Rate limiting (120 req/min per IP)" (harness/web/server.py:9): a client is
\* refused only if it asked more than RateLimit times in the last RateWindow.
RefusedOnlyTheBusy ==
    \A k \in Clients : refused[k] =>
        Len(SelectSeq(asked[k], LAMBDA t : t + RateWindow >= asked[k][Len(asked[k])])) > RateLimit
=============================================================================
