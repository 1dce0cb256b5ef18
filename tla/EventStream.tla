---------------------------- MODULE EventStream ----------------------------
(***************************************************************************)
(* The event streams of apps/api/sse.py over the durable log of a run, and *)
(* the wake-ups RunManager sends them (emit, broadcast_persisted).  The    *)
(* log is written as RunLifecycle allows, which RunService implements.     *)
(* A connection may drop with frames on the wire, and the client comes     *)
(* back with the id of the last event it received.                         *)
(***************************************************************************)
EXTENDS RunLifecycle

CONSTANTS
    Streams,    \* clients, each following one run
    Follows,    \* the run each client follows
    FirstIds,   \* Last-Event-ID values a client may start with (0: none)
    MaxSeq,     \* largest sequence number the store can bind (_MAX_STORED_SEQ)
    MaxLog,     \* bound: events of one run
    MaxLosses   \* bound: connections dropped, wake-ups lost, restarts

ASSUME StreamConstants ==
    /\ Follows \in [Streams -> Runs]
    /\ FirstIds \subseteq Nat
    /\ MaxSeq \in Nat /\ MaxLog \in 0..MaxSeq /\ MaxLosses \in Nat

VARIABLES
    step,       \* where the generator of each client stands
    cursor,     \* its cursor
    upto,       \* the last event of the rows it has read
    woken,      \* its subscription's asyncio.Event
    wire,       \* ids it has yielded and the client has not received
    inbox,      \* ids the client has received, over all its connections
    first,      \* the Last-Event-ID of the client's first connection
    owed,       \* runs with an event committed and not yet broadcast
    losses      \* losses so far

stream  == <<step, cursor, upto, woken, wire, inbox, first>>
wakes   == <<owed, losses>>
evars   == <<vars, stream, wakes>>

Steps == {"off", "list", "send", "status", "again", "wait", "ended"}
Open(c)  == step[c] \notin {"off", "ended"}
Events(c) == Len(log[Follows[c]])
LeastOf(a, b) == IF a <= b THEN a ELSE b

\* list_events_after(run_id, min(cursor, _MAX_STORED_SEQ)) finds an event.
Behind(c) == Events(c) > LeastOf(cursor[c], MaxSeq)

StreamInit ==
    /\ Init
    /\ step = [c \in Streams |-> "off"]
    /\ cursor = [c \in Streams |-> 0] /\ upto = [c \in Streams |-> 0]
    /\ woken = [c \in Streams |-> FALSE]
    /\ wire = [c \in Streams |-> <<>>] /\ inbox = [c \in Streams |-> <<>>]
    /\ first = [c \in Streams |-> 0]
    /\ owed = {} /\ losses = 0

Lose == losses < MaxLosses /\ losses' = losses + 1

-----------------------------------------------------------------------------
(* The run, and the wake-ups that follow its events. *)

\* A write of the run; an appended event owes the subscribers a wake-up.
Write(r) ==
    /\ Len(log[r]) < MaxLog
    /\ \/ Reserve(r) \/ Create(r) \/ Release(r) \/ Start(r) \/ Record(r) \/ Settle(r)
       \/ \E s \in Terminal, b \in Bills : Finish(r, s, b)
    /\ owed' = IF log'[r] # log[r] THEN owed \cup {r} ELSE owed
    /\ UNCHANGED <<stream, losses>>

Broadcast(r) ==
    /\ r \in owed
    /\ owed' = owed \ {r}
    /\ woken' = [c \in Streams |-> woken[c] \/ (Open(c) /\ Follows[c] = r)]
    /\ UNCHANGED <<vars, step, cursor, upto, wire, inbox, first, losses>>

\* The tail fails between the commit and the broadcast.
BroadcastLost(r) ==
    /\ Lose
    /\ r \in owed /\ owed' = owed \ {r}
    /\ UNCHANGED <<vars, stream>>

\* The process restarts: its connections and subscriptions are gone.
Reboot ==
    /\ Lose
    /\ Restart /\ \A r \in Runs : Len(log'[r]) <= MaxLog
    /\ step' = [c \in Streams |-> "off"]
    /\ woken' = [c \in Streams |-> FALSE]
    /\ wire' = [c \in Streams |-> <<>>]
    /\ owed' = {}
    /\ UNCHANGED <<cursor, upto, inbox, first>>

-----------------------------------------------------------------------------
(* event_stream *)

\* The subscription is registered before the first read.
Connect(c) ==
    /\ step[c] = "off" /\ status[Follows[c]] # "absent"
    /\ step' = [step EXCEPT ![c] = "list"]
    /\ woken' = [woken EXCEPT ![c] = FALSE]
    /\ \E id \in IF inbox[c] # <<>> THEN {inbox[c][Len(inbox[c])]}
                 ELSE IF cursor[c] # 0 THEN {first[c]} ELSE FirstIds :
         /\ cursor' = [cursor EXCEPT ![c] = id]
         /\ first' = [first EXCEPT ![c] = IF inbox[c] = <<>> THEN id ELSE @]
    /\ UNCHANGED <<vars, upto, wire, inbox, wakes>>

List(c) ==
    /\ step[c] = "list"
    /\ upto' = [upto EXCEPT ![c] = IF Behind(c) THEN Events(c) ELSE 0]
    /\ step' = [step EXCEPT ![c] = "send"]
    /\ UNCHANGED <<vars, cursor, woken, wire, inbox, first, wakes>>

\* The rows read are yielded one by one, those up to the cursor skipped.
Send(c) ==
    /\ step[c] = "send"
    /\ IF cursor[c] < upto[c]
         THEN /\ cursor' = [cursor EXCEPT ![c] = @ + 1]
              /\ wire' = [wire EXCEPT ![c] = Append(@, cursor[c] + 1)]
              /\ UNCHANGED step
         ELSE step' = [step EXCEPT ![c] = "status"] /\ UNCHANGED <<cursor, wire>>
    /\ UNCHANGED <<vars, upto, woken, inbox, first, wakes>>

\* The stream ends as soon as it sees a terminal row.
BugReadStatus(c) ==
    /\ step[c] = "status"
    /\ step' = [step EXCEPT ![c] = IF status[Follows[c]] \in Terminal THEN "ended" ELSE "wait"]
    /\ UNCHANGED <<vars, cursor, upto, woken, wire, inbox, first, wakes>>

ReadStatus(c) ==
    /\ step[c] = "status"
    /\ step' = [step EXCEPT ![c] = IF status[Follows[c]] \in Terminal THEN "again" ELSE "wait"]
    /\ UNCHANGED <<vars, cursor, upto, woken, wire, inbox, first, wakes>>

\* The terminal event may have been committed after the rows were read.
Again(c) ==
    /\ step[c] = "again"
    /\ step' = [step EXCEPT ![c] = IF Behind(c) THEN "list" ELSE "ended"]
    /\ UNCHANGED <<vars, cursor, upto, woken, wire, inbox, first, wakes>>

\* Waking and clearing is one step, before the next read.
Wake(c) ==
    /\ step[c] = "wait" /\ woken[c]
    /\ woken' = [woken EXCEPT ![c] = FALSE]
    /\ step' = [step EXCEPT ![c] = "list"]
    /\ UNCHANGED <<vars, cursor, upto, wire, inbox, first, wakes>>

\* A heartbeat is sent, and the stream waits on without reading.
BugHeartbeat(c) ==
    /\ step[c] = "wait" /\ step' = step
    /\ UNCHANGED <<vars, cursor, upto, woken, wire, inbox, first, wakes>>

\* After HEARTBEAT_SECONDS the stream reads again, woken or not.
Heartbeat(c) ==
    /\ step[c] = "wait"
    /\ step' = [step EXCEPT ![c] = "list"]
    /\ UNCHANGED <<vars, cursor, upto, woken, wire, inbox, first, wakes>>

Receive(c) ==
    /\ wire[c] # <<>>
    /\ inbox' = [inbox EXCEPT ![c] = Append(@, Head(wire[c]))]
    /\ wire' = [wire EXCEPT ![c] = Tail(@)]
    /\ UNCHANGED <<vars, step, cursor, upto, woken, first, wakes>>

Drop(c) ==
    /\ Lose
    /\ step[c] # "off"
    /\ step' = [step EXCEPT ![c] = "off"]
    /\ wire' = [wire EXCEPT ![c] = <<>>]
    /\ UNCHANGED <<vars, cursor, upto, woken, inbox, first, owed>>

-----------------------------------------------------------------------------
Generate(c) == List(c) \/ Send(c) \/ ReadStatus(c) \/ Again(c) \/ Wake(c) \/ Heartbeat(c)

StreamNext ==
    \/ \E r \in Runs : Write(r) \/ Broadcast(r) \/ BroadcastLost(r)
    \/ \E c \in Streams : Connect(c) \/ Generate(c) \/ Receive(c) \/ Drop(c)
    \/ Reboot

StreamSpec == StreamInit /\ [][StreamNext]_evars

\* The event loop runs the generator, its timer fires, and the network
\* delivers while the connection stands.
StreamFairness ==
    \A c \in Streams : WF_evars(Generate(c)) /\ WF_evars(Receive(c))
FairStreams == StreamSpec /\ StreamFairness
-----------------------------------------------------------------------------
(* Properties *)

StreamTypeOK ==
    /\ step \in [Streams -> Steps]
    /\ cursor \in [Streams -> FirstIds \cup 0..MaxLog] /\ upto \in [Streams -> 0..MaxLog]
    /\ woken \in [Streams -> BOOLEAN]
    /\ wire \in [Streams -> Seq(Nat)] /\ inbox \in [Streams -> Seq(Nat)]
    /\ first \in [Streams -> FirstIds \cup {0}]
    /\ owed \subseteq Runs /\ losses \in 0..MaxLosses

\* event_stream, docs/deployment.md:331-332: whatever drops and restarts, a
\* client sees the events after its first cursor, in order, none doubled and
\* none left out.
Sent(c) == inbox[c] \o wire[c]
InOrder ==
    \A c \in Streams :
        /\ \A i \in 1..Len(Sent(c)) : Sent(c)[i] = first[c] + i
        /\ Sent(c) # <<>> => first[c] + Len(Sent(c)) <= Events(c)

\* event_stream: a stream ends only behind a terminal event, however the
\* run's last write falls between the stream's two reads.
EndsOnTerminal ==
    \A c \in Streams : step[c] = "ended" =>
        \/ first[c] >= Events(c)
        \/ cursor[c] \in 1..Events(c) /\ log[Follows[c]][cursor[c]] \in Terminal

\* What a client is sent is the log, in order and up to its end.
StreamSound == InOrder /\ EndsOnTerminal

\* Every event reaches every client that stays connected, lost wake-ups or not.
Delivered ==
    \A c \in Streams : \A k \in 1..MaxLog :
        (Open(c) /\ Events(c) >= k /\ first[c] < k)
          ~> (step[c] = "off" \/ \E i \in 1..Len(inbox[c]) : inbox[c][i] = k)

\* A stream of a terminal run ends.
StreamEnds ==
    \A c \in Streams :
        (Open(c) /\ status[Follows[c]] \in Terminal) ~> (step[c] \in {"ended", "off"})

\* A client that stays connected is sent everything, and then told the end,
\* though wake-ups are lost: the heartbeat's read finds what they announced.
ClientServed == Delivered /\ StreamEnds
=============================================================================
