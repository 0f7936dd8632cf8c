----------------------------- MODULE LogStream -----------------------------
(***************************************************************************)
(* The log stream of the server (server/ws_routes.py): LogBroadcaster and  *)
(* the handler of /ws/logs.  Any thread broadcasts; the event loop runs    *)
(* one coroutine for each broadcast and one handler for each WebSocket,    *)
(* and they interleave wherever a send is awaited.  The loop is the one    *)
(* the lifespan handler set before the server accepts anything.            *)
(*                                                                         *)
(* A message is its number in the order in which the broadcasts began.  A  *)
(* log line is kept in a buffer for clients to come, an output's health        *)
(* and a status are not.                                                   *)
(***************************************************************************)
EXTENDS Naturals, Sequences, FiniteSets

CONSTANTS
    Threads,      \* threads that broadcast
    Sockets,      \* WebSocket objects; each connects once
    MaxBuffer,    \* _max_buffer
    Replayed,     \* how much of the buffer a new client is sent
    MaxMessages   \* bound on the broadcasts

ASSUME LogAssumption == {MaxBuffer, Replayed, MaxMessages} \subseteq Nat

VARIABLES
    log_buffer,       \* _buffer
    subscribers,  \* _subscribers
    posting,      \* the broadcast each thread is in
    scheduled,    \* coroutines handed to the loop and not begun, in order
    delivering,   \* _async_broadcast coroutines under way
    handler,      \* the /ws/logs handler of each socket
    open,         \* sockets whose client is still there
    received,     \* history: which messages each client was sent
    begun,        \* history: how many broadcasts have begun
    since         \* history: how many had begun when the socket subscribed

lsvars == <<log_buffer, subscribers, posting, scheduled, delivering, handler,
            open, received, begun, since>>

Idle == [at |-> "idle", msg |-> 0, kept |-> <<>>]

\* subscribe sends _buffer[-50:] one by one.
NewestOf(s, n) == IF Len(s) > n THEN SubSeq(s, Len(s) - n + 1, Len(s)) ELSE s

LSInit ==
    /\ log_buffer = <<>>
    /\ subscribers = {}
    /\ posting = [t \in Threads |-> Idle]
    /\ scheduled = <<>>
    /\ delivering = {}
    /\ handler = [w \in Sockets |-> [at |-> "none", replay |-> <<>>]]
    /\ open = {}
    /\ received = [w \in Sockets |-> {}]
    /\ begun = 0
    /\ since = [w \in Sockets |-> 0]

----------------------------------------------------------------------------
(* Threads: broadcast, broadcast_status, broadcast_output_health.          *)

\* broadcast appends the line to the list it finds.
BroadcastLine(t) ==
    /\ posting[t].at = "idle" /\ begun < MaxMessages
    /\ begun' = begun + 1
    /\ log_buffer' = Append(log_buffer, begun')
    /\ posting' = [posting EXCEPT ![t] = [Idle EXCEPT !.at = "kept", !.msg = begun']]
    /\ UNCHANGED <<subscribers, scheduled, delivering, handler, open, received, since>>

\* Health and status go straight to the subscribers.
BroadcastEvent(t) ==
    /\ posting[t].at = "idle" /\ begun < MaxMessages
    /\ begun' = begun + 1
    /\ posting' = [posting EXCEPT ![t] = [Idle EXCEPT !.at = "posting", !.msg = begun']]
    /\ UNCHANGED <<log_buffer, subscribers, scheduled, delivering, handler, open, received, since>>

\* A buffer too long is sliced ...
Slice(t) ==
    /\ posting[t].at = "kept"
    /\ posting' = [posting EXCEPT ![t] =
          IF Len(log_buffer) > MaxBuffer
             THEN [@ EXCEPT !.at = "sliced", !.kept = NewestOf(log_buffer, MaxBuffer)]
             ELSE [@ EXCEPT !.at = "posting"]]
    /\ UNCHANGED <<log_buffer, subscribers, scheduled, delivering, handler, open, received, begun, since>>

\* ... and replaced by the slice, with whatever was appended in between lost.
Replace(t) ==
    /\ posting[t].at = "sliced"
    /\ log_buffer' = posting[t].kept
    /\ posting' = [posting EXCEPT ![t].at = "posting", ![t].kept = <<>>]
    /\ UNCHANGED <<subscribers, scheduled, delivering, handler, open, received, begun, since>>

\* run_coroutine_threadsafe, when anybody is subscribed.
Post(t) ==
    /\ posting[t].at = "posting"
    /\ scheduled' = IF subscribers # {} THEN Append(scheduled, posting[t].msg) ELSE scheduled
    /\ posting' = [posting EXCEPT ![t] = Idle]
    /\ UNCHANGED <<log_buffer, subscribers, delivering, handler, open, received, begun, since>>

----------------------------------------------------------------------------
(* The event loop: _async_broadcast.                                       *)

\* A coroutine begins and copies the subscribers.
BeginDelivery ==
    /\ scheduled # <<>>
    /\ delivering' = delivering \cup {[msg |-> Head(scheduled), left |-> subscribers, dead |-> {}]}
    /\ scheduled' = Tail(scheduled)
    /\ UNCHANGED <<log_buffer, subscribers, posting, handler, open, received, begun, since>>

\* Mutated form: a client that is gone ends the delivery.
AfterSend_Aborts(d, w) ==
    IF w \in open THEN [d EXCEPT !.left = @ \ {w}]
                  ELSE [d EXCEPT !.left = {}, !.dead = @ \cup {w}]

\* A send to a client that is gone raises and is remembered.
AfterSend(d, w) ==
    IF w \in open THEN [d EXCEPT !.left = @ \ {w}]
                  ELSE [d EXCEPT !.left = @ \ {w}, !.dead = @ \cup {w}]

Deliver(d, w) ==
    /\ w \in d.left
    /\ delivering' = (delivering \ {d}) \cup {AfterSend(d, w)}
    /\ received' = IF w \in open THEN [received EXCEPT ![w] = @ \cup {d.msg}] ELSE received
    /\ UNCHANGED <<log_buffer, subscribers, posting, scheduled, handler, open, begun, since>>

\* After the last send the dead are taken out.
EndDelivery(d) ==
    /\ d.left = {}
    /\ subscribers' = subscribers \ d.dead
    /\ delivering' = delivering \ {d}
    /\ UNCHANGED <<log_buffer, posting, scheduled, handler, open, received, begun, since>>

----------------------------------------------------------------------------
(* The event loop: ws_logs and its client.                                 *)

\* accept, then subscribe: into the set, and the buffer is sliced.
Connect(w) ==
    /\ handler[w].at = "none"
    /\ open' = open \cup {w}
    /\ subscribers' = subscribers \cup {w}
    /\ handler' = [handler EXCEPT ![w] = [at |-> "replaying", replay |-> NewestOf(log_buffer, Replayed)]]
    /\ since' = [since EXCEPT ![w] = begun]
    /\ UNCHANGED <<log_buffer, posting, scheduled, delivering, received, begun>>

\* subscribe sends the next buffered line; a failure ends the replay.
Replay(w) ==
    /\ handler[w].at = "replaying"
    /\ LET h == handler[w]
           more == h.replay # <<>> /\ w \in open
       IN  /\ received' = IF more THEN [received EXCEPT ![w] = @ \cup {Head(h.replay)}] ELSE received
           /\ handler' = [handler EXCEPT ![w] =
                 IF more THEN [h EXCEPT !.replay = Tail(@)]
                         ELSE [at |-> "listening", replay |-> <<>>]]
    /\ UNCHANGED <<log_buffer, subscribers, posting, scheduled, delivering, open, begun, since>>

\* The client goes away; the server learns of it from a send or a receive.
ClientLeaves(w) ==
    /\ w \in open
    /\ open' = open \ {w}
    /\ UNCHANGED <<log_buffer, subscribers, posting, scheduled, delivering, handler, received, begun, since>>

\* receive_text raises WebSocketDisconnect: unsubscribe.
Disconnect(w) ==
    /\ handler[w].at = "listening" /\ w \notin open
    /\ subscribers' = subscribers \ {w}
    /\ handler' = [handler EXCEPT ![w].at = "ended"]
    /\ UNCHANGED <<log_buffer, posting, scheduled, delivering, open, received, begun, since>>

LSNext ==
    \/ \E t \in Threads : \/ BroadcastLine(t) \/ BroadcastEvent(t)
                          \/ Slice(t) \/ Replace(t) \/ Post(t)
    \/ BeginDelivery
    \/ \E d \in delivering : EndDelivery(d) \/ \E w \in d.left : Deliver(d, w)
    \/ \E w \in Sockets : Connect(w) \/ Replay(w) \/ ClientLeaves(w) \/ Disconnect(w)

LSSpec == LSInit /\ [][LSNext]_lsvars

----------------------------------------------------------------------------
\* A message still on its way to a client: in a thread, with the loop, or in a
\* delivery that has not reached the client.
OnItsWay(m, w) ==
    \/ \E t \in Threads : posting[t].msg = m
    \/ \E i \in 1 .. Len(scheduled) : scheduled[i] = m
    \/ \E d \in delivering : d.msg = m /\ w \in d.left

\* A client that stays misses nothing broadcast after it subscribed, whatever
\* other clients do in the middle of a delivery (ws_routes.py:86-143).
NothingMissed ==
    \A w \in open : \A m \in since[w] + 1 .. begun :
        m \in received[w] \/ OnItsWay(m, w)
=============================================================================
