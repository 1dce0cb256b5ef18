--------------------------- MODULE Service_proofs ---------------------------
(***************************************************************************)
(* Proofs about the service: about EventStream, for any runs, clients,     *)
(* first cursors and bounds, that what a client is sent is the log of its  *)
(* run, in order, and that a stream ends only behind a terminal event; and *)
(* about RunService, for every set of runs, every capacity and every       *)
(* bound.  Of it first the effect of the operators the actions share, then *)
(* the types and the slots, then the invariant of the lifecycle.           *)
(***************************************************************************)
EXTENDS RunService, EventStream, FiniteSetTheorems, SequenceTheorems, TLAPS

-----------------------------------------------------------------------------
(* The inductive invariant. *)

\* The run of a client: its log only grows, and while it is in a terminal
\* status, the last event is a terminal one.
TailInv ==
    /\ status \in [Runs -> Statuses] /\ log \in [Runs -> Seq(EventKinds)]
    /\ \A r \in Runs : Len(log[r]) <= MaxLog
    /\ \A r \in Runs : status[r] \in Terminal =>
           Len(log[r]) > 0 /\ log[r][Len(log[r])] \in Terminal

\* Ids that were sent, those after the first cursor, up to the n-th event.
InOrderOf(sent, start, n) ==
    /\ \A i \in 1..Len(sent) : sent[i] = start + i
    /\ sent # <<>> => start + Len(sent) <= n
InOrderAt(c) == InOrderOf(Sent(c), first[c], Events(c))

\* What a client was sent is what its cursor passed, a connection's first
\* cursor not counted; a dropped connection leaves nothing on the wire.
CursorSent(c) ==
    /\ step[c] = "off" => wire[c] = <<>>
    /\ step[c] # "off" => cursor[c] = first[c] + Len(Sent(c))

\* Rows read are rows of the log.
RowsRead(c) == upto[c] <= Events(c)

\* A stream looks a second time, or has ended, only if the run is over; a
\* cursor behind which the stream ended is past the log or at a terminal event,
\* whatever events came since.
AtEnd(at, events) ==
    \/ at >= Len(events)
    \/ at \in 1..Len(events) /\ events[at] \in Terminal
EndSeen(c) ==
    /\ step[c] \in {"again", "ended"} => status[Follows[c]] \in Terminal
    /\ step[c] = "ended" => AtEnd(cursor[c], log[Follows[c]])

ClientInv(c) == InOrderAt(c) /\ CursorSent(c) /\ RowsRead(c) /\ EndSeen(c)

StreamInv == StreamTypeOK /\ TailInv /\ \A c \in Streams : ClientInv(c)

-----------------------------------------------------------------------------
(* Sequences. *)

LEMMA LengthType ==
    ASSUME NEW S, NEW s \in Seq(S)
    PROVE  Len(s) \in Nat
OBVIOUS

\* Receiving moves an id from the wire to the inbox.
LEMMA ReceivedIsSent ==
    ASSUME NEW inb \in Seq(Nat), NEW w \in Seq(Nat), w # <<>>
    PROVE  /\ Append(inb, Head(w)) \in Seq(Nat) /\ Tail(w) \in Seq(Nat)
           /\ Append(inb, Head(w)) \o Tail(w) = inb \o w
<1>1. Append(inb, Head(w)) \in Seq(Nat) /\ Tail(w) \in Seq(Nat)
  BY HeadTailProperties
<1> DEFINE s == Append(inb, Head(w)) \o Tail(w)
           t == inb \o w
<1>2. s \in Seq(Nat) /\ t \in Seq(Nat) BY <1>1, ConcatProperties
<1>3. Len(s) = Len(t) OBVIOUS
<1>4. \A i \in 1..Len(s) : s[i] = t[i] OBVIOUS
<1> HIDE DEF s, t
<1>5. s = t BY <1>2, <1>3, <1>4, SeqEqual
<1> QED BY <1>1, <1>5 DEF s, t

\* Sending appends to what was sent.
LEMMA SentGrows ==
    ASSUME NEW inb \in Seq(Nat), NEW w \in Seq(Nat), NEW x \in Nat
    PROVE  /\ Append(w, x) \in Seq(Nat)
           /\ inb \o Append(w, x) = Append(inb \o w, x)
<1> DEFINE s == inb \o Append(w, x)
           t == Append(inb \o w, x)
<1>1. s \in Seq(Nat) /\ t \in Seq(Nat) BY ConcatProperties
<1>2. Len(s) = Len(t) OBVIOUS
<1>3. \A i \in 1..Len(s) : s[i] = t[i] OBVIOUS
<1> HIDE DEF s, t
<1>4. s = t BY <1>1, <1>2, <1>3, SeqEqual
<1> QED BY <1>4 DEF s, t

LEMMA InOrderLonger ==
    ASSUME NEW sent \in Seq(Nat), NEW start \in Nat, NEW n \in Nat, NEW m \in Nat, n <= m,
           InOrderOf(sent, start, n)
    PROVE  InOrderOf(sent, start, m)
BY LengthType DEF InOrderOf

LEMMA InOrderSend ==
    ASSUME NEW sent \in Seq(Nat), NEW start \in Nat, NEW n \in Nat, InOrderOf(sent, start, n),
           NEW x \in Nat, x = start + Len(sent) + 1, x <= n
    PROVE  InOrderOf(Append(sent, x), start, n)
<1>1. Len(Append(sent, x)) = Len(sent) + 1 /\ Len(sent) \in Nat OBVIOUS
<1>2. \A i \in 1..Len(sent) + 1 : Append(sent, x)[i] = start + i
  BY <1>1 DEF InOrderOf
<1> QED BY <1>1, <1>2 DEF InOrderOf

\* What was received is in order, too.
LEMMA InOrderReceived ==
    ASSUME NEW inb \in Seq(Nat), NEW w \in Seq(Nat), NEW start \in Nat, NEW n \in Nat,
           InOrderOf(inb \o w, start, n)
    PROVE  InOrderOf(inb, start, n)
<1>1. Len(inb \o w) = Len(inb) + Len(w) /\ Len(inb) \in Nat /\ Len(w) \in Nat OBVIOUS
<1>2. \A i \in 1..Len(inb) : (inb \o w)[i] = inb[i] OBVIOUS
<1>3. ASSUME NEW i \in 1..Len(inb) PROVE inb[i] = start + i
  <2>1. i \in 1..Len(inb \o w) BY <1>1
  <2>2. (inb \o w)[i] = start + i BY <2>1 DEF InOrderOf
  <2> QED BY <1>2, <2>2
<1>4. inb # <<>> => inb \o w # <<>> OBVIOUS
<1>5. inb # <<>> => start + Len(inb) <= n BY <1>1, <1>4 DEF InOrderOf
<1> QED BY <1>3, <1>5 DEF InOrderOf

-----------------------------------------------------------------------------
(* The run. *)

\* A step of the run leaves a log as it is or appends to it, only a terminal
\* event once the run is over; and a run that is over stays so.
Extends(r) ==
    /\ \/ log'[r] = log[r]
       \/ \E e \in EventKinds : /\ log'[r] = Append(log[r], e)
                                /\ status[r] \in Terminal => e \in Terminal
    /\ status[r] \in Terminal => status'[r] \in Terminal

LEMMA BoundTypes == MaxLog \in Nat /\ MaxSeq \in Nat /\ MaxLog <= MaxSeq
BY StreamConstants

LEMMA RunStep ==
    ASSUME TailInv, NEW r \in Runs, NEW s \in Statuses, NEW l \in Seq(EventKinds),
           status' = [status EXCEPT ![r] = s], log' = [log EXCEPT ![r] = l],
           Len(l) <= MaxLog, s \in Terminal => Len(l) > 0 /\ l[Len(l)] \in Terminal,
           \/ l = log[r]
           \/ \E e \in EventKinds : l = Append(log[r], e) /\ (status[r] \in Terminal => e \in Terminal),
           status[r] \in Terminal => s \in Terminal
    PROVE  TailInv' /\ \A q \in Runs : Extends(q)
<1>1. status \in [Runs -> Statuses] /\ log \in [Runs -> Seq(EventKinds)] BY DEF TailInv
<1>2. status'[r] = s /\ log'[r] = l BY <1>1
<1>3. \A q \in Runs : q # r => status'[q] = status[q] /\ log'[q] = log[q] BY <1>1
<1>4. status' \in [Runs -> Statuses] /\ log' \in [Runs -> Seq(EventKinds)] BY <1>1
<1>5. ASSUME NEW q \in Runs
      PROVE  /\ Len(log'[q]) <= MaxLog
             /\ status'[q] \in Terminal => Len(log'[q]) > 0 /\ log'[q][Len(log'[q])] \in Terminal
  BY <1>2, <1>3 DEF TailInv
<1>6. TailInv' BY <1>4, <1>5 DEF TailInv
<1>7. ASSUME NEW q \in Runs PROVE Extends(q)
  BY <1>2, <1>3 DEF Extends
<1> QED BY <1>6, <1>7

\* Two ways to name a step of one run.
LEMMA LogUnchanged ==
    ASSUME TailInv, NEW r \in Runs, NEW s \in Statuses, s \notin Terminal \/ s = status[r],
           status[r] \in Terminal => s \in Terminal,
           status' = [status EXCEPT ![r] = s], log' = log
    PROVE  TailInv' /\ \A q \in Runs : Extends(q)
<1> DEFINE l == log[r]
<1>1. log \in [Runs -> Seq(EventKinds)] BY DEF TailInv
<1>2. l \in Seq(EventKinds) /\ log' = [log EXCEPT ![r] = l] BY <1>1
<1>3. Len(l) <= MaxLog /\ (s \in Terminal => Len(l) > 0 /\ l[Len(l)] \in Terminal)
  BY DEF TailInv
<1>4. l = log[r] OBVIOUS
<1> HIDE DEF l
<1> QED BY <1>2, <1>3, <1>4, RunStep

LEMMA LogAppended ==
    ASSUME TailInv, NEW r \in Runs, NEW s \in Statuses, NEW e \in EventKinds, Len(log[r]) < MaxLog,
           s \in Terminal \/ status[r] \in Terminal => e \in Terminal,
           status[r] \in Terminal => s \in Terminal,
           status' = [status EXCEPT ![r] = s], log' = [log EXCEPT ![r] = Append(log[r], e)]
    PROVE  TailInv' /\ \A q \in Runs : Extends(q)
<1> DEFINE l == Append(log[r], e)
<1>1. log[r] \in Seq(EventKinds) BY DEF TailInv
<1>2. /\ l \in Seq(EventKinds) /\ Len(l) = Len(log[r]) + 1 /\ Len(log[r]) \in Nat
      /\ l[Len(log[r]) + 1] = e
  BY <1>1
<1>3. Len(l) <= MaxLog /\ Len(l) > 0 BY <1>2, BoundTypes
<1>4. s \in Terminal => l[Len(l)] \in Terminal BY <1>2
<1>5. l = Append(log[r], e) /\ log' = [log EXCEPT ![r] = l] OBVIOUS
<1> HIDE DEF l
<1> QED BY <1>2, <1>3, <1>4, <1>5, RunStep

LEMMA StatusTypes ==
    /\ Terminal \subseteq Statuses /\ Terminal \subseteq EventKinds /\ "core" \in EventKinds
    /\ {"queued", "running"} \subseteq Statuses
    /\ {"absent", "queued", "running"} \cap Terminal = {}
    /\ \A s : Ends(s) \subseteq Terminal
BY DEF Terminal, Statuses, EventKinds, Ends

LEMMA WriteExtends ==
    ASSUME TailInv, NEW r \in Runs, Write(r)
    PROVE  TailInv' /\ \A q \in Runs : Extends(q)
<1>0. Len(log[r]) < MaxLog BY DEF Write
<1>1. status \in [Runs -> Statuses] /\ status[r] \in Statuses /\ log \in [Runs -> Seq(EventKinds)]
  BY DEF TailInv
<1>2. CASE Reserve(r) \/ Release(r) \/ Settle(r)
  <2>1. status' = status /\ log' = log BY <1>2 DEF Reserve, Release, Settle
  <2>2. status' = [status EXCEPT ![r] = status[r]] BY <1>1, <2>1
  <2> QED BY <1>1, <2>1, <2>2, LogUnchanged
<1>3. CASE Create(r)
  <2>1. status' = [status EXCEPT ![r] = "queued"] /\ log' = log /\ status[r] = "absent"
    BY <1>3 DEF Create
  <2> QED BY <2>1, StatusTypes, LogUnchanged
<1>4. CASE Start(r)
  <2>1. status' = [status EXCEPT ![r] = "running"] /\ log' = log /\ status[r] = "queued"
    BY <1>4 DEF Start
  <2> QED BY <2>1, StatusTypes, LogUnchanged
<1>5. CASE Record(r)
  <2>1. /\ status[r] = "running" /\ status' = status
        /\ log' = [log EXCEPT ![r] = Append(log[r], "core")]
    BY <1>5 DEF Record
  <2>2. status' = [status EXCEPT ![r] = status[r]] BY <1>1, <2>1
  <2> QED BY <1>0, <1>1, <2>1, <2>2, StatusTypes, LogAppended
<1>6. ASSUME NEW s \in Terminal, NEW b \in Bills, Finish(r, s, b)
      PROVE  TailInv' /\ \A q \in Runs : Extends(q)
  <2>1. /\ status' = [status EXCEPT ![r] = s] /\ log' = [log EXCEPT ![r] = Append(log[r], s)]
    BY <1>6 DEF Finish
  <2>2. s \in Statuses /\ s \in EventKinds BY StatusTypes
  <2> QED BY <1>0, <2>1, <2>2, LogAppended
<1> QED BY <1>2, <1>3, <1>4, <1>5, <1>6 DEF Write

LEMMA RestartExtends ==
    ASSUME TailInv, Restart, \A r \in Runs : Len(log'[r]) <= MaxLog
    PROVE  TailInv' /\ \A q \in Runs : Extends(q)
<1> DEFINE stale == {r \in Runs : status[r] \in {"queued", "running"}}
<1>1. /\ status' = [r \in Runs |-> IF r \in stale THEN "interrupted" ELSE status[r]]
      /\ log' = [r \in Runs |-> IF r \in stale THEN Append(log[r], "interrupted") ELSE log[r]]
  BY DEF Restart
<1>2. status \in [Runs -> Statuses] /\ log \in [Runs -> Seq(EventKinds)] BY DEF TailInv
<1>3. "interrupted" \in Terminal /\ "interrupted" \in Statuses /\ "interrupted" \in EventKinds
  BY DEF Terminal, Statuses, EventKinds
<1>4. ASSUME NEW q \in Runs
      PROVE  /\ status'[q] \in Statuses /\ log'[q] \in Seq(EventKinds) /\ Extends(q)
             /\ status'[q] \in Terminal => Len(log'[q]) > 0 /\ log'[q][Len(log'[q])] \in Terminal
  <2>1. CASE q \in stale
    <3>1. status'[q] = "interrupted" /\ log'[q] = Append(log[q], "interrupted") BY <1>1, <2>1
    <3>2. log[q] \in Seq(EventKinds) BY <1>2
    <3> DEFINE l == Append(log[q], "interrupted")
    <3>3. /\ l \in Seq(EventKinds) /\ Len(l) = Len(log[q]) + 1 /\ Len(log[q]) \in Nat
          /\ l[Len(log[q]) + 1] = "interrupted"
      BY <1>3, <3>2
    <3>4. Len(l) > 0 /\ l[Len(l)] \in Terminal BY <1>3, <3>3
    <3>5. status[q] \notin Terminal BY <2>1, StatusTypes
    <3> HIDE DEF l, stale
    <3>6. Extends(q) BY <1>3, <3>1, <3>5 DEF Extends
    <3> QED BY <1>3, <3>1, <3>3, <3>4, <3>6 DEF l
  <2>2. CASE q \notin stale
    <3>1. status'[q] = status[q] /\ log'[q] = log[q] BY <1>1, <2>2
    <3>2. Extends(q) BY <3>1 DEF Extends
    <3> HIDE DEF stale
    <3> QED BY <1>2, <3>1, <3>2 DEF TailInv
  <2> QED BY <2>1, <2>2
<1>5. status' \in [Runs -> Statuses] /\ log' \in [Runs -> Seq(EventKinds)]
  <2>1. status' = [r \in Runs |-> status'[r]] /\ log' = [r \in Runs |-> log'[r]] BY <1>1
  <2> HIDE DEF stale
  <2> QED BY <1>4, <2>1
<1> QED BY <1>4, <1>5 DEF TailInv

-----------------------------------------------------------------------------
(* The clients, while the run goes on. *)

\* What the types say of one client.
LEMMA ClientTypes ==
    ASSUME StreamTypeOK, TailInv, NEW c \in Streams
    PROVE  /\ step[c] \in Steps /\ cursor[c] \in Nat /\ upto[c] \in Nat /\ first[c] \in Nat
           /\ wire[c] \in Seq(Nat) /\ inbox[c] \in Seq(Nat) /\ Sent(c) \in Seq(Nat)
           /\ Follows[c] \in Runs /\ log[Follows[c]] \in Seq(EventKinds)
           /\ Events(c) \in Nat /\ Events(c) <= MaxLog
<1>1. Follows[c] \in Runs BY StreamConstants
<1>2. log[Follows[c]] \in Seq(EventKinds) /\ Len(log[Follows[c]]) <= MaxLog BY <1>1 DEF TailInv
<1>3. cursor[c] \in FirstIds \cup 0..MaxLog /\ upto[c] \in 0..MaxLog /\ first[c] \in FirstIds \cup {0}
  BY DEF StreamTypeOK
<1>4. cursor[c] \in Nat /\ upto[c] \in Nat /\ first[c] \in Nat
  <2>1. FirstIds \subseteq Nat BY StreamConstants
  <2>2. 0..MaxLog \subseteq Nat BY BoundTypes
  <2>3. cursor[c] \in Nat BY <1>3, <2>1, <2>2, Zenon
  <2>4. upto[c] \in Nat BY <1>3, <2>2, Zenon
  <2>5. 0 \in Nat OBVIOUS
  <2>6. first[c] \in Nat BY <1>3, <2>1, <2>5, Zenon
  <2> QED BY <2>3, <2>4, <2>6
<1>5. step[c] \in Steps /\ wire[c] \in Seq(Nat) /\ inbox[c] \in Seq(Nat) BY DEF StreamTypeOK
<1>6. Sent(c) \in Seq(Nat) BY <1>5, ConcatProperties DEF Sent
<1> QED BY <1>1, <1>2, <1>4, <1>5, <1>6 DEF Events

LEMMA EndKept ==
    ASSUME NEW events \in Seq(EventKinds), NEW e \in Terminal, NEW at \in Nat,
           Len(events) > 0, events[Len(events)] \in Terminal, AtEnd(at, events)
    PROVE  AtEnd(at, Append(events, e))
<1>1. Len(Append(events, e)) = Len(events) + 1 /\ Len(events) \in Nat OBVIOUS
<1>2. CASE at >= Len(events) + 1
  <2>1. at >= Len(Append(events, e)) BY <1>1, <1>2
  <2> QED BY <2>1 DEF AtEnd
<1>3. CASE at = Len(events)
  <2>1. Append(events, e)[at] \in Terminal BY <1>3
  <2> QED BY <1>1, <1>3, <2>1 DEF AtEnd
<1>4. CASE at \in 1..Len(events) /\ events[at] \in Terminal
  <2>1. Append(events, e)[at] \in Terminal BY <1>4
  <2> QED BY <1>1, <1>4, <2>1 DEF AtEnd
<1>5. at >= Len(events) => at = Len(events) \/ at >= Len(events) + 1 BY <1>1
<1> QED BY <1>2, <1>3, <1>4, <1>5 DEF AtEnd

\* Events that come are behind those that came, and an end stays an end.
LEMMA EventsCome ==
    ASSUME TailInv, NEW r \in Runs, Extends(r)
    PROVE  /\ Len(log[r]) \in Nat /\ Len(log'[r]) \in Nat /\ Len(log[r]) <= Len(log'[r])
           /\ \A at \in Nat : status[r] \in Terminal /\ AtEnd(at, log[r]) => AtEnd(at, log'[r])
<1>1. log[r] \in Seq(EventKinds) BY DEF TailInv
<1>2. CASE log'[r] = log[r] BY <1>1, <1>2
<1>3. ASSUME NEW e \in EventKinds, log'[r] = Append(log[r], e), status[r] \in Terminal => e \in Terminal
      PROVE  /\ Len(log[r]) \in Nat /\ Len(log'[r]) \in Nat /\ Len(log[r]) <= Len(log'[r])
             /\ \A at \in Nat : status[r] \in Terminal /\ AtEnd(at, log[r]) => AtEnd(at, log'[r])
  <2>1. Len(Append(log[r], e)) = Len(log[r]) + 1 /\ Len(log[r]) \in Nat BY <1>1
  <2>2. ASSUME NEW at \in Nat, status[r] \in Terminal, AtEnd(at, log[r])
        PROVE  AtEnd(at, log'[r])
    <3>1. Len(log[r]) > 0 /\ log[r][Len(log[r])] \in Terminal BY <2>2 DEF TailInv
    <3> QED BY <1>1, <1>3, <2>2, <3>1, EndKept
  <2>3. Len(log'[r]) = Len(log[r]) + 1 BY <1>3, <2>1
  <2>4. /\ Len(log[r]) \in Nat /\ Len(log'[r]) \in Nat /\ Len(log[r]) <= Len(log'[r])
    BY <2>1, <2>3
  <2> QED BY <2>2, <2>4
<1> QED BY <1>2, <1>3 DEF Extends

SameClient(c) ==
    /\ step'[c] = step[c] /\ cursor'[c] = cursor[c] /\ upto'[c] = upto[c]
    /\ wire'[c] = wire[c] /\ inbox'[c] = inbox[c] /\ first'[c] = first[c]

LEMMA ClientKept ==
    ASSUME StreamTypeOK, TailInv, NEW c \in Streams, ClientInv(c), Extends(Follows[c]), SameClient(c)
    PROVE  ClientInv(c)'
<1> DEFINE n == Len(log[Follows[c]])
           m == Len(log'[Follows[c]])
<1>1. /\ first[c] \in Nat /\ Sent(c) \in Seq(Nat) /\ Follows[c] \in Runs /\ cursor[c] \in Nat
      /\ upto[c] \in Nat
  BY ClientTypes
<1>2. n \in Nat /\ m \in Nat /\ n <= m BY <1>1, EventsCome
<1>3. Sent(c)' = Sent(c) BY DEF SameClient, Sent
<1>4. InOrderOf(Sent(c), first[c], n) /\ upto[c] <= n BY DEF ClientInv, InOrderAt, Events, RowsRead
<1> HIDE DEF n, m
<1>5. InOrderOf(Sent(c), first[c], m) BY <1>1, <1>2, <1>4, InOrderLonger
<1>6. upto[c] <= m BY <1>1, <1>2, <1>4
<1>7. InOrderAt(c)' BY <1>3, <1>5 DEF InOrderAt, Events, SameClient, m
<1>8. RowsRead(c)' BY <1>6 DEF RowsRead, Events, SameClient, m
<1>9. CursorSent(c)' BY <1>3 DEF ClientInv, CursorSent, SameClient
<1>10. EndSeen(c)'
  <2>1. step[c] \in {"again", "ended"} => status'[Follows[c]] \in Terminal
    BY DEF ClientInv, EndSeen, Extends
  <2>2. step[c] = "ended" => AtEnd(cursor[c], log'[Follows[c]])
    BY <1>1, EventsCome DEF ClientInv, EndSeen
  <2> QED BY <2>1, <2>2 DEF EndSeen, SameClient
<1> QED BY <1>7, <1>8, <1>9, <1>10 DEF ClientInv

\* A connection is gone: what it had sent and not delivered was not sent.
LEMMA ClientDropped ==
    ASSUME StreamTypeOK, TailInv, NEW c \in Streams, ClientInv(c), Extends(Follows[c]),
           step'[c] = "off", wire'[c] = <<>>, upto'[c] = upto[c], inbox'[c] = inbox[c],
           first'[c] = first[c]
    PROVE  ClientInv(c)'
<1> DEFINE n == Len(log[Follows[c]])
           m == Len(log'[Follows[c]])
<1>1. /\ first[c] \in Nat /\ inbox[c] \in Seq(Nat) /\ wire[c] \in Seq(Nat) /\ Follows[c] \in Runs
      /\ upto[c] \in Nat
  BY ClientTypes
<1>2. n \in Nat /\ m \in Nat /\ n <= m BY <1>1, EventsCome
<1>3. Sent(c)' = inbox[c] BY <1>1, ConcatEmptySeq DEF Sent
<1>4. InOrderOf(inbox[c] \o wire[c], first[c], n) /\ upto[c] <= n
  BY DEF ClientInv, InOrderAt, Events, RowsRead, Sent
<1> HIDE DEF n, m
<1>5. InOrderOf(inbox[c], first[c], n) BY <1>1, <1>2, <1>4, InOrderReceived
<1>6. InOrderOf(inbox[c], first[c], m) BY <1>1, <1>2, <1>5, InOrderLonger
<1>7. upto[c] <= m BY <1>1, <1>2, <1>4
<1>8. InOrderAt(c)' BY <1>3, <1>6 DEF InOrderAt, Events, m
<1>9. RowsRead(c)' BY <1>7 DEF RowsRead, Events, m
<1>10. CursorSent(c)' /\ EndSeen(c)' BY DEF CursorSent, EndSeen
<1> QED BY <1>8, <1>9, <1>10 DEF ClientInv

-----------------------------------------------------------------------------
(* The steps of a client. *)

LEMMA DurableExtends ==
    ASSUME status' = status, log' = log, NEW r \in Runs
    PROVE  Extends(r)
BY DEF Extends

\* A step of one client that leaves the run and the other clients alone.
LEMMA OneClient ==
    ASSUME StreamInv, NEW c \in Streams, UNCHANGED vars, StreamTypeOK',
           \A d \in Streams : d # c => SameClient(d), ClientInv(c)'
    PROVE  StreamInv'
<1>1. status' = status /\ log' = log BY DEF vars
<1>2. TailInv' BY <1>1 DEF StreamInv, TailInv
<1>3. ASSUME NEW d \in Streams, d # c PROVE ClientInv(d)'
  <2>1. Follows[d] \in Runs BY StreamConstants
  <2>2. Extends(Follows[d]) BY <1>1, <2>1, DurableExtends
  <2> QED BY <1>3, <2>2, ClientKept DEF StreamInv
<1> QED BY <1>2, <1>3 DEF StreamInv

\* The generator goes on to another place, with the rows it has read.
LEMMA GoesOn ==
    ASSUME StreamInv, NEW c \in Streams, UNCHANGED vars, UNCHANGED <<cursor, wire, inbox, first, wakes>>,
           woken' \in [Streams -> BOOLEAN],
           NEW s \in Steps, s # "off", step[c] # "off", step' = [step EXCEPT ![c] = s],
           NEW u \in Nat, u <= Events(c), upto' = [upto EXCEPT ![c] = u],
           s \in {"again", "ended"} => status[Follows[c]] \in Terminal,
           s = "ended" => AtEnd(cursor[c], log[Follows[c]])
    PROVE  StreamInv'
<1>1. StreamTypeOK /\ TailInv /\ ClientInv(c) BY DEF StreamInv
<1>2. step \in [Streams -> Steps] /\ upto \in [Streams -> 0..MaxLog] BY <1>1 DEF StreamTypeOK
<1>3. Events(c) \in Nat /\ Events(c) <= MaxLog BY <1>1, ClientTypes
<1>4. u \in 0..MaxLog BY <1>3, BoundTypes
<1>5. step' \in [Streams -> Steps] /\ upto' \in [Streams -> 0..MaxLog] BY <1>2, <1>4
<1>6. StreamTypeOK' BY <1>1, <1>5 DEF StreamTypeOK, wakes
<1>7. \A d \in Streams : d # c => SameClient(d) BY <1>2 DEF SameClient
<1>8. status' = status /\ log' = log BY DEF vars
<1>9. step'[c] = s /\ upto'[c] = u BY <1>2
<1>10. InOrderAt(c)' BY <1>1, <1>8 DEF ClientInv, InOrderAt, Sent, Events
<1>11. CursorSent(c)' BY <1>1, <1>9 DEF ClientInv, CursorSent, Sent
<1>12. RowsRead(c)' BY <1>8, <1>9 DEF RowsRead, Events
<1>13. EndSeen(c)' BY <1>8, <1>9 DEF EndSeen
<1>14. ClientInv(c)' BY <1>10, <1>11, <1>12, <1>13 DEF ClientInv
<1> QED BY <1>6, <1>7, <1>14, OneClient

LEMMA ConnectKeeps ==
    ASSUME StreamInv, NEW c \in Streams, Connect(c)
    PROVE  StreamInv'
<1>1. StreamTypeOK /\ TailInv /\ ClientInv(c) BY DEF StreamInv
<1>2. /\ first[c] \in Nat /\ inbox[c] \in Seq(Nat) /\ wire[c] \in Seq(Nat) /\ Follows[c] \in Runs
      /\ Events(c) \in Nat /\ Events(c) <= MaxLog
  BY <1>1, ClientTypes
<1>3. wire[c] = <<>> BY <1>1 DEF Connect, ClientInv, CursorSent
<1>4. Sent(c) = inbox[c] BY <1>2, <1>3, ConcatEmptySeq DEF Sent
<1>5. PICK id \in IF inbox[c] # <<>> THEN {inbox[c][Len(inbox[c])]}
                  ELSE IF cursor[c] # 0 THEN {first[c]} ELSE FirstIds :
        /\ cursor' = [cursor EXCEPT ![c] = id]
        /\ first' = [first EXCEPT ![c] = IF inbox[c] = <<>> THEN id ELSE first[c]]
  BY DEF Connect
<1>6. /\ step' = [step EXCEPT ![c] = "list"] /\ woken' = [woken EXCEPT ![c] = FALSE]
      /\ UNCHANGED vars /\ UNCHANGED <<upto, wire, inbox, wakes>>
  BY DEF Connect
<1>7. /\ step \in [Streams -> Steps] /\ woken \in [Streams -> BOOLEAN]
      /\ cursor \in [Streams -> FirstIds \cup 0..MaxLog] /\ first \in [Streams -> FirstIds \cup {0}]
  BY <1>1 DEF StreamTypeOK
<1>8. /\ step' \in [Streams -> Steps] /\ woken' \in [Streams -> BOOLEAN]
  BY <1>6, <1>7 DEF Steps
<1>9. /\ \A d \in Streams : d # c => SameClient(d)
  BY <1>5, <1>6, <1>7 DEF SameClient
<1>10. cursor'[c] = id /\ step'[c] = "list"
  BY <1>5, <1>6, <1>7
<1>11. status' = status /\ log' = log BY <1>6 DEF vars
<1>12. Sent(c)' = inbox[c] BY <1>4, <1>6 DEF Sent
<1>13. RowsRead(c)' /\ EndSeen(c)'
  BY <1>1, <1>6, <1>10, <1>11 DEF ClientInv, RowsRead, EndSeen, Events
<1>14. CASE inbox[c] # <<>>
  <2>1. id = inbox[c][Len(inbox[c])] /\ first' = first
    BY <1>5, <1>7, <1>14
  <2>2. Len(inbox[c]) \in 1..Len(inbox[c]) /\ Len(inbox[c]) \in Nat BY <1>2, <1>14
  <2>3. id = first[c] + Len(inbox[c]) /\ first[c] + Len(inbox[c]) <= Events(c)
    BY <1>1, <1>4, <1>14, <2>1, <2>2 DEF ClientInv, InOrderAt, InOrderOf
  <2>4. id \in 0..MaxLog BY <1>2, <2>2, <2>3, BoundTypes
  <2>5. cursor' \in [Streams -> FirstIds \cup 0..MaxLog] BY <1>5, <1>7, <2>4
  <2>6. StreamTypeOK' BY <1>1, <1>6, <1>8, <2>1, <2>5 DEF StreamTypeOK, wakes
  <2>7. InOrderAt(c)' BY <1>1, <1>4, <1>11, <1>12, <2>1 DEF ClientInv, InOrderAt, Events
  <2>8. CursorSent(c)' BY <1>10, <1>12, <2>1, <2>3 DEF CursorSent
  <2>9. ClientInv(c)' BY <1>13, <2>7, <2>8 DEF ClientInv
  <2> QED BY <1>6, <1>9, <2>6, <2>9, OneClient
<1>15. CASE inbox[c] = <<>>
  <2>1. id \in FirstIds \cup {0} BY <1>5, <1>7, <1>15
  <2>2. first' = [first EXCEPT ![c] = id] /\ first'[c] = id BY <1>5, <1>7, <1>15
  <2>3. 0 \in 0..MaxLog BY BoundTypes
  <2>4. id \in FirstIds \cup 0..MaxLog BY <2>1, <2>3
  <2>5. /\ cursor' \in [Streams -> FirstIds \cup 0..MaxLog]
        /\ first' \in [Streams -> FirstIds \cup {0}]
    BY <1>5, <1>7, <2>1, <2>2, <2>4
  <2>6. StreamTypeOK' BY <1>1, <1>6, <1>8, <2>5 DEF StreamTypeOK, wakes
  <2>7. Sent(c)' = <<>> BY <1>12, <1>15
  <2>8. InOrderAt(c)' BY <2>7 DEF InOrderAt, InOrderOf
  <2>9. id \in Nat
    <3>1. FirstIds \subseteq Nat BY StreamConstants
    <3> QED BY <2>1, <3>1
  <2>10. CursorSent(c)' BY <1>10, <2>2, <2>7, <2>9 DEF CursorSent
  <2>11. ClientInv(c)' BY <1>13, <2>8, <2>10 DEF ClientInv
  <2> QED BY <1>6, <1>9, <2>6, <2>11, OneClient
<1> QED BY <1>14, <1>15

LEMMA ListKeeps ==
    ASSUME StreamInv, NEW c \in Streams, List(c)
    PROVE  StreamInv'
<1>1. Events(c) \in Nat BY ClientTypes DEF StreamInv
<1> DEFINE u == IF Behind(c) THEN Events(c) ELSE 0
<1>2. u \in Nat /\ u <= Events(c) BY <1>1
<1>3. upto' = [upto EXCEPT ![c] = u] BY DEF List
<1>4. woken' \in [Streams -> BOOLEAN] BY DEF StreamInv, StreamTypeOK, List
<1>5. "send" \in Steps BY DEF Steps
<1> HIDE DEF u
<1>6. /\ step[c] # "off" /\ step' = [step EXCEPT ![c] = "send"] /\ UNCHANGED vars
      /\ UNCHANGED <<cursor, wire, inbox, first, wakes>>
  BY DEF List
<1> QED BY <1>2, <1>3, <1>4, <1>5, <1>6, GoesOn

\* A step that changes no more than the place and the wake-up.
LEMMA Moves ==
    ASSUME StreamInv, NEW c \in Streams, UNCHANGED vars,
           UNCHANGED <<cursor, upto, wire, inbox, first, wakes>>, woken' \in [Streams -> BOOLEAN],
           NEW s \in Steps, s # "off", step[c] # "off", step' = [step EXCEPT ![c] = s],
           s \in {"again", "ended"} => status[Follows[c]] \in Terminal,
           s = "ended" => AtEnd(cursor[c], log[Follows[c]])
    PROVE  StreamInv'
<1> DEFINE u == upto[c]
<1>1. upto \in [Streams -> 0..MaxLog] BY DEF StreamInv, StreamTypeOK
<1>2. u \in Nat /\ u <= Events(c) BY ClientTypes DEF StreamInv, ClientInv, RowsRead
<1>3. upto' = [upto EXCEPT ![c] = u] BY <1>1
<1> HIDE DEF u
<1> QED BY <1>2, <1>3, GoesOn

LEMMA SendKeeps ==
    ASSUME StreamInv, NEW c \in Streams, Send(c)
    PROVE  StreamInv'
<1>1. StreamTypeOK /\ TailInv /\ ClientInv(c) BY DEF StreamInv
<1>2. /\ first[c] \in Nat /\ inbox[c] \in Seq(Nat) /\ wire[c] \in Seq(Nat) /\ Follows[c] \in Runs
      /\ Events(c) \in Nat /\ Events(c) <= MaxLog /\ cursor[c] \in Nat /\ upto[c] \in Nat
      /\ Sent(c) \in Seq(Nat) /\ Len(Sent(c)) \in Nat
  BY <1>1, ClientTypes
<1>3. step[c] = "send" /\ UNCHANGED vars /\ UNCHANGED <<upto, woken, inbox, first, wakes>>
  BY DEF Send
<1>4. CASE cursor[c] < upto[c]
  <2> DEFINE x == cursor[c] + 1
  <2>1. cursor' = [cursor EXCEPT ![c] = x] /\ wire' = [wire EXCEPT ![c] = Append(wire[c], x)] /\ step' = step
    BY <1>4 DEF Send
  <2>2. x \in Nat /\ x <= Events(c) /\ x = cursor[c] + 1
    BY <1>1, <1>2, <1>4 DEF ClientInv, RowsRead
  <2>3. cursor[c] = first[c] + Len(Sent(c)) BY <1>1, <1>3 DEF ClientInv, CursorSent
  <2> HIDE DEF x
  <2>4. x = first[c] + Len(Sent(c)) + 1 BY <1>2, <2>2, <2>3
  <2>5. x \in 0..MaxLog BY <1>2, <2>2, BoundTypes
  <2>6. /\ cursor \in [Streams -> FirstIds \cup 0..MaxLog] /\ wire \in [Streams -> Seq(Nat)]
    BY <1>1 DEF StreamTypeOK
  <2>7. Append(wire[c], x) \in Seq(Nat) /\ inbox[c] \o Append(wire[c], x) = Append(Sent(c), x)
    BY <1>2, <2>2, SentGrows DEF Sent
  <2>8. cursor' \in [Streams -> FirstIds \cup 0..MaxLog] /\ wire' \in [Streams -> Seq(Nat)]
    BY <2>1, <2>5, <2>6, <2>7
  <2>9. StreamTypeOK' BY <1>1, <1>3, <2>1, <2>8 DEF StreamTypeOK, wakes
  <2>10. \A d \in Streams : d # c => SameClient(d) BY <1>3, <2>1, <2>6 DEF SameClient
  <2>11. cursor'[c] = x /\ Sent(c)' = Append(Sent(c), x)
    BY <1>3, <2>1, <2>6, <2>7 DEF Sent
  <2>12. InOrderOf(Append(Sent(c), x), first[c], Events(c))
    BY <1>1, <1>2, <2>2, <2>4, InOrderSend DEF ClientInv, InOrderAt
  <2>13. status' = status /\ log' = log BY <1>3 DEF vars
  <2>14. InOrderAt(c)' BY <1>3, <2>11, <2>12, <2>13 DEF InOrderAt, Events
  <2>15. Len(Append(Sent(c), x)) = Len(Sent(c)) + 1 BY <1>2
  <2>16. CursorSent(c)'
    <3> DEFINE n == Len(Sent(c))
               m == Len(Append(Sent(c), x))
    <3>0. first[c] \in Nat /\ n \in Nat /\ m = n + 1 /\ x = first[c] + n + 1 BY <1>2, <2>4, <2>15
    <3> HIDE DEF n, m
    <3>3. x = first[c] + m BY <3>0
    <3>1. x = first[c] + Len(Append(Sent(c), x)) BY <3>3 DEF m
    <3>2. cursor'[c] = first'[c] + Len(Sent(c)') BY <1>3, <2>11, <3>1
    <3> QED BY <1>3, <2>1, <3>2 DEF CursorSent
  <2>17. RowsRead(c)' /\ EndSeen(c)'
    BY <1>1, <1>3, <2>1, <2>13 DEF ClientInv, RowsRead, EndSeen, Events
  <2>18. ClientInv(c)' BY <2>14, <2>16, <2>17 DEF ClientInv
  <2> QED BY <1>3, <2>9, <2>10, <2>18, OneClient
<1>5. CASE ~(cursor[c] < upto[c])
  <2>1. step' = [step EXCEPT ![c] = "status"] /\ UNCHANGED <<cursor, wire>> BY <1>5 DEF Send
  <2>2. "status" \in Steps BY DEF Steps
  <2>3. woken' \in [Streams -> BOOLEAN] BY <1>1, <1>3 DEF StreamTypeOK
  <2>4. step[c] # "off" BY <1>3
  <2>5. UNCHANGED <<cursor, upto, wire, inbox, first, wakes>> BY <1>3, <2>1
  <2> QED BY <1>3, <2>1, <2>2, <2>3, <2>4, <2>5, Moves
<1> QED BY <1>4, <1>5

LEMMA ReadStatusKeeps ==
    ASSUME StreamInv, NEW c \in Streams, ReadStatus(c)
    PROVE  StreamInv'
<1> DEFINE s == IF status[Follows[c]] \in Terminal THEN "again" ELSE "wait"
<1>1. s \in Steps /\ s # "off" /\ s # "ended" /\ (s = "again" => status[Follows[c]] \in Terminal)
  BY DEF Steps
<1>2. /\ step' = [step EXCEPT ![c] = s] /\ step[c] # "off" /\ UNCHANGED vars
      /\ UNCHANGED <<cursor, upto, wire, inbox, first, wakes>>
  BY DEF ReadStatus
<1>3. woken' \in [Streams -> BOOLEAN] BY DEF StreamInv, StreamTypeOK, ReadStatus
<1> HIDE DEF s
<1> QED BY <1>1, <1>2, <1>3, Moves

LEMMA AgainKeeps ==
    ASSUME StreamInv, NEW c \in Streams, Again(c)
    PROVE  StreamInv'
<1> DEFINE s == IF Behind(c) THEN "list" ELSE "ended"
<1>1. s \in Steps /\ s # "off" /\ (s = "ended" => ~Behind(c)) BY DEF Steps
<1>2. /\ step' = [step EXCEPT ![c] = s] /\ step[c] = "again" /\ UNCHANGED vars
      /\ UNCHANGED <<cursor, upto, wire, inbox, first, wakes>>
  BY DEF Again
<1>3. woken' \in [Streams -> BOOLEAN] BY DEF StreamInv, StreamTypeOK, Again
<1>4. status[Follows[c]] \in Terminal BY <1>2 DEF StreamInv, ClientInv, EndSeen
<1>5. ~Behind(c) => AtEnd(cursor[c], log[Follows[c]])
  <2>1. Events(c) \in Nat /\ cursor[c] \in Nat BY ClientTypes DEF StreamInv
  <2>2. LeastOf(cursor[c], MaxSeq) <= cursor[c] BY <2>1, BoundTypes DEF LeastOf
  <2>3. LeastOf(cursor[c], MaxSeq) \in Nat BY <2>1, BoundTypes DEF LeastOf
  <2>4. ~Behind(c) => cursor[c] >= Events(c) BY <2>1, <2>2, <2>3 DEF Behind
  <2> QED BY <2>4 DEF AtEnd, Events
<1> HIDE DEF s
<1>6. step[c] # "off" BY <1>2
<1> QED BY <1>1, <1>2, <1>3, <1>4, <1>5, <1>6, Moves

LEMMA WakeKeeps ==
    ASSUME StreamInv, NEW c \in Streams, Wake(c) \/ Heartbeat(c)
    PROVE  StreamInv'
<1>1. "list" \in Steps BY DEF Steps
<1>2. /\ step' = [step EXCEPT ![c] = "list"] /\ step[c] # "off" /\ UNCHANGED vars
      /\ UNCHANGED <<cursor, upto, wire, inbox, first, wakes>>
  BY DEF Wake, Heartbeat
<1>3. woken \in [Streams -> BOOLEAN] BY DEF StreamInv, StreamTypeOK
<1>4. woken' \in [Streams -> BOOLEAN] BY <1>3 DEF Wake, Heartbeat
<1> QED BY <1>1, <1>2, <1>4, Moves

LEMMA ReceiveKeeps ==
    ASSUME StreamInv, NEW c \in Streams, Receive(c)
    PROVE  StreamInv'
<1>1. StreamTypeOK /\ TailInv /\ ClientInv(c) BY DEF StreamInv
<1>2. inbox[c] \in Seq(Nat) /\ wire[c] \in Seq(Nat) BY <1>1, ClientTypes
<1>3. /\ wire[c] # <<>> /\ inbox' = [inbox EXCEPT ![c] = Append(inbox[c], Head(wire[c]))]
      /\ wire' = [wire EXCEPT ![c] = Tail(wire[c])]
      /\ UNCHANGED vars /\ UNCHANGED <<step, cursor, upto, woken, first, wakes>>
  BY DEF Receive
<1>4. inbox \in [Streams -> Seq(Nat)] /\ wire \in [Streams -> Seq(Nat)] BY <1>1 DEF StreamTypeOK
<1>5. /\ Append(inbox[c], Head(wire[c])) \in Seq(Nat) /\ Tail(wire[c]) \in Seq(Nat)
      /\ Append(inbox[c], Head(wire[c])) \o Tail(wire[c]) = Sent(c)
  BY <1>2, <1>3, ReceivedIsSent DEF Sent
<1>6. inbox' \in [Streams -> Seq(Nat)] /\ wire' \in [Streams -> Seq(Nat)] BY <1>3, <1>4, <1>5
<1>7. StreamTypeOK' BY <1>1, <1>3, <1>6 DEF StreamTypeOK, wakes
<1>8. \A d \in Streams : d # c => SameClient(d) BY <1>3, <1>4 DEF SameClient
<1>9. Sent(c)' = Sent(c) BY <1>3, <1>4, <1>5 DEF Sent
<1>10. status' = status /\ log' = log BY <1>3 DEF vars
<1>11. InOrderAt(c)' /\ RowsRead(c)' /\ EndSeen(c)'
  BY <1>1, <1>3, <1>9, <1>10 DEF ClientInv, InOrderAt, RowsRead, EndSeen, Events
<1>12. step[c] # "off" BY <1>1, <1>3 DEF ClientInv, CursorSent
<1>13. CursorSent(c)' BY <1>1, <1>3, <1>9, <1>12 DEF ClientInv, CursorSent
<1>14. ClientInv(c)' BY <1>11, <1>13 DEF ClientInv
<1> QED BY <1>3, <1>7, <1>8, <1>14, OneClient

LEMMA LosesOne ==
    ASSUME losses \in 0..MaxLosses, Lose
    PROVE  losses' \in 0..MaxLosses
<1>1. MaxLosses \in Nat BY StreamConstants
<1> QED BY <1>1 DEF Lose

LEMMA DropKeeps ==
    ASSUME StreamInv, NEW c \in Streams, Drop(c)
    PROVE  StreamInv'
<1>1. StreamTypeOK /\ TailInv /\ ClientInv(c) BY DEF StreamInv
<1>2. /\ step' = [step EXCEPT ![c] = "off"] /\ wire' = [wire EXCEPT ![c] = <<>>] /\ Lose
      /\ UNCHANGED vars /\ UNCHANGED <<cursor, upto, woken, inbox, first, owed>>
  BY DEF Drop
<1>3. step \in [Streams -> Steps] /\ wire \in [Streams -> Seq(Nat)] /\ losses \in 0..MaxLosses
  BY <1>1 DEF StreamTypeOK
<1>4. "off" \in Steps /\ <<>> \in Seq(Nat) BY DEF Steps
<1>5. step' \in [Streams -> Steps] /\ wire' \in [Streams -> Seq(Nat)] BY <1>2, <1>3, <1>4
<1>6. losses' \in 0..MaxLosses BY <1>2, <1>3, LosesOne
<1>7. StreamTypeOK' BY <1>1, <1>2, <1>5, <1>6 DEF StreamTypeOK
<1>8. \A d \in Streams : d # c => SameClient(d) BY <1>2, <1>3 DEF SameClient
<1>9. step'[c] = "off" /\ wire'[c] = <<>> BY <1>2, <1>3
<1>10. status' = status /\ log' = log BY <1>2 DEF vars
<1>11. Follows[c] \in Runs BY StreamConstants
<1>12. Extends(Follows[c]) BY <1>10, <1>11, DurableExtends
<1>13. ClientInv(c)' BY <1>1, <1>2, <1>9, <1>12, ClientDropped
<1> QED BY <1>2, <1>7, <1>8, <1>13, OneClient

-----------------------------------------------------------------------------
(* The steps of the run and of its wake-ups. *)

LEMMA WriteKeeps ==
    ASSUME StreamInv, NEW r \in Runs, Write(r)
    PROVE  StreamInv'
<1>1. StreamTypeOK /\ TailInv BY DEF StreamInv
<1>2. TailInv' /\ \A q \in Runs : Extends(q) BY <1>1, WriteExtends
<1>3. /\ owed' = IF log'[r] # log[r] THEN owed \cup {r} ELSE owed
      /\ UNCHANGED <<stream, losses>>
  BY DEF Write
<1>4. owed' \subseteq Runs BY <1>1, <1>3 DEF StreamTypeOK
<1>5. StreamTypeOK' BY <1>1, <1>3, <1>4 DEF StreamTypeOK, stream
<1>6. ASSUME NEW c \in Streams PROVE ClientInv(c)'
  <2>1. Follows[c] \in Runs BY StreamConstants
  <2>2. SameClient(c) BY <1>3 DEF SameClient, stream
  <2>3. ClientInv(c) BY DEF StreamInv
  <2> QED BY <1>1, <1>2, <2>1, <2>2, <2>3, ClientKept
<1> QED BY <1>2, <1>5, <1>6 DEF StreamInv

\* A wake-up, sent or lost, is no more than a wake-up.
LEMMA WakesKeep ==
    ASSUME StreamInv, UNCHANGED vars, UNCHANGED <<step, cursor, upto, wire, inbox, first>>,
           woken' \in [Streams -> BOOLEAN], owed' \subseteq Runs, losses' \in 0..MaxLosses
    PROVE  StreamInv'
<1>1. StreamTypeOK /\ TailInv BY DEF StreamInv
<1>2. StreamTypeOK' BY <1>1 DEF StreamTypeOK
<1>3. status' = status /\ log' = log BY DEF vars
<1>4. TailInv' BY <1>1, <1>3 DEF TailInv
<1>5. ASSUME NEW c \in Streams PROVE ClientInv(c)'
  <2>1. Follows[c] \in Runs BY StreamConstants
  <2>2. Extends(Follows[c]) BY <1>3, <2>1, DurableExtends
  <2>3. SameClient(c) BY DEF SameClient
  <2>4. ClientInv(c) BY DEF StreamInv
  <2> QED BY <1>1, <2>2, <2>3, <2>4, ClientKept
<1> QED BY <1>2, <1>4, <1>5 DEF StreamInv

LEMMA BroadcastKeeps ==
    ASSUME StreamInv, NEW r \in Runs, Broadcast(r) \/ BroadcastLost(r)
    PROVE  StreamInv'
<1>1. woken \in [Streams -> BOOLEAN] /\ owed \subseteq Runs /\ losses \in 0..MaxLosses
  BY DEF StreamInv, StreamTypeOK
<1>2. CASE Broadcast(r)
  <2>1. woken' \in [Streams -> BOOLEAN] BY <1>1, <1>2 DEF Broadcast
  <2>2. owed' \subseteq Runs /\ losses' \in 0..MaxLosses BY <1>1, <1>2 DEF Broadcast
  <2>3. UNCHANGED vars /\ UNCHANGED <<step, cursor, upto, wire, inbox, first>>
    BY <1>2 DEF Broadcast
  <2> QED BY <2>1, <2>2, <2>3, WakesKeep
<1>3. CASE BroadcastLost(r)
  <2>1. losses' \in 0..MaxLosses BY <1>1, <1>3, LosesOne DEF BroadcastLost
  <2>2. owed' \subseteq Runs /\ woken' = woken BY <1>1, <1>3 DEF BroadcastLost, stream
  <2>3. UNCHANGED vars /\ UNCHANGED <<step, cursor, upto, wire, inbox, first>>
    BY <1>3 DEF BroadcastLost, stream
  <2> QED BY <1>1, <2>1, <2>2, <2>3, WakesKeep
<1> QED BY <1>2, <1>3

LEMMA RebootKeeps ==
    ASSUME StreamInv, Reboot
    PROVE  StreamInv'
<1>1. StreamTypeOK /\ TailInv BY DEF StreamInv
<1>2. TailInv' /\ \A q \in Runs : Extends(q) BY <1>1, RestartExtends DEF Reboot
<1>3. /\ step' = [c \in Streams |-> "off"] /\ woken' = [c \in Streams |-> FALSE]
      /\ wire' = [c \in Streams |-> <<>>] /\ owed' = {}
      /\ UNCHANGED <<cursor, upto, inbox, first>> /\ Lose
  BY DEF Reboot
<1>4. losses' \in 0..MaxLosses BY <1>1, <1>3, LosesOne DEF StreamTypeOK
<1>5. /\ step' \in [Streams -> Steps] /\ woken' \in [Streams -> BOOLEAN]
      /\ wire' \in [Streams -> Seq(Nat)] /\ owed' \subseteq Runs
  BY <1>3 DEF Steps
<1>6. StreamTypeOK' BY <1>1, <1>3, <1>4, <1>5 DEF StreamTypeOK
<1>7. ASSUME NEW c \in Streams PROVE ClientInv(c)'
  <2>1. Follows[c] \in Runs BY StreamConstants
  <2>2. step'[c] = "off" /\ wire'[c] = <<>> BY <1>3
  <2>3. ClientInv(c) BY DEF StreamInv
  <2> QED BY <1>1, <1>2, <1>3, <2>1, <2>2, <2>3, ClientDropped
<1> QED BY <1>2, <1>6, <1>7 DEF StreamInv

-----------------------------------------------------------------------------
(* The theorems. *)

LEMMA StreamInvInit == StreamInit => StreamInv
<1> SUFFICES ASSUME StreamInit PROVE StreamInv
  OBVIOUS
<1>1. 0 \in 0..MaxLog /\ 0 \in 0..MaxLosses BY BoundTypes, StreamConstants
<1>2. StreamTypeOK BY <1>1 DEF StreamTypeOK, StreamInit, Steps
<1>3. status = [r \in Runs |-> "absent"] /\ log = [r \in Runs |-> <<>>] BY DEF StreamInit, Init
<1>4. TailInv
  <2>1. "absent" \in Statuses /\ "absent" \notin Terminal BY DEF Statuses, Terminal
  <2>2. 0 <= MaxLog BY BoundTypes
  <2> QED BY <1>3, <2>1, <2>2 DEF TailInv
<1>5. ASSUME NEW c \in Streams PROVE ClientInv(c)
  <2>1. /\ step[c] = "off" /\ wire[c] = <<>> /\ inbox[c] = <<>> /\ upto[c] = 0
    BY DEF StreamInit
  <2>2. Sent(c) = <<>> BY <2>1 DEF Sent
  <2>3. Events(c) \in Nat BY <1>2, <1>4, ClientTypes
  <2>4. InOrderAt(c) BY <2>2 DEF InOrderAt, InOrderOf
  <2>5. CursorSent(c) /\ EndSeen(c) BY <2>1 DEF CursorSent, EndSeen
  <2>6. RowsRead(c) BY <2>1, <2>3 DEF RowsRead
  <2> QED BY <2>4, <2>5, <2>6 DEF ClientInv
<1> QED BY <1>2, <1>4, <1>5 DEF StreamInv

LEMMA StreamInvStep == StreamInv /\ [StreamNext]_evars => StreamInv'
<1> SUFFICES ASSUME StreamInv, [StreamNext]_evars PROVE StreamInv'
  OBVIOUS
<1>1. ASSUME NEW r \in Runs, Write(r) PROVE StreamInv'
  BY <1>1, WriteKeeps
<1>2. ASSUME NEW r \in Runs, Broadcast(r) \/ BroadcastLost(r) PROVE StreamInv'
  BY <1>2, BroadcastKeeps
<1>3. ASSUME NEW c \in Streams, Connect(c) PROVE StreamInv'
  BY <1>3, ConnectKeeps
<1>4. ASSUME NEW c \in Streams, Generate(c) PROVE StreamInv'
  BY <1>4, ListKeeps, SendKeeps, ReadStatusKeeps, AgainKeeps, WakeKeeps DEF Generate
<1>5. ASSUME NEW c \in Streams, Receive(c) PROVE StreamInv'
  BY <1>5, ReceiveKeeps
<1>6. ASSUME NEW c \in Streams, Drop(c) PROVE StreamInv'
  BY <1>6, DropKeeps
<1>7. CASE Reboot BY <1>7, RebootKeeps
<1>8. CASE UNCHANGED evars
  <2>1. /\ UNCHANGED vars /\ UNCHANGED <<step, cursor, upto, wire, inbox, first>>
        /\ woken' = woken /\ owed' = owed /\ losses' = losses
    BY <1>8 DEF evars, stream, wakes
  <2>2. woken \in [Streams -> BOOLEAN] /\ owed \subseteq Runs /\ losses \in 0..MaxLosses
    BY DEF StreamInv, StreamTypeOK
  <2> QED BY <2>1, <2>2, WakesKeep
<1> QED BY <1>1, <1>2, <1>3, <1>4, <1>5, <1>6, <1>7, <1>8 DEF StreamNext

\* A client that is done at an event is done at the end, or never got any.
LEMMA StreamSoundOf == StreamInv => StreamSound
<1> SUFFICES ASSUME StreamInv PROVE StreamSound
  OBVIOUS
<1>1. InOrder BY DEF StreamInv, ClientInv, InOrderAt, InOrderOf, InOrder
<1>2. ASSUME NEW c \in Streams, step[c] = "ended"
      PROVE  \/ first[c] >= Events(c)
             \/ cursor[c] \in 1..Events(c) /\ log[Follows[c]][cursor[c]] \in Terminal
  <2>1. /\ first[c] \in Nat /\ cursor[c] \in Nat /\ Events(c) \in Nat /\ Sent(c) \in Seq(Nat)
        /\ Len(Sent(c)) \in Nat /\ Follows[c] \in Runs
    BY ClientTypes DEF StreamInv
  <2>2. AtEnd(cursor[c], log[Follows[c]]) /\ status[Follows[c]] \in Terminal
    BY <1>2 DEF StreamInv, ClientInv, EndSeen
  <2>3. cursor[c] = first[c] + Len(Sent(c)) BY <1>2 DEF StreamInv, ClientInv, CursorSent
  <2>4. Sent(c) # <<>> => first[c] + Len(Sent(c)) <= Events(c) BY <1>1 DEF InOrder
  <2>5. CASE cursor[c] >= Events(c)
    <3>1. CASE Sent(c) = <<>>
      <4>1. cursor[c] = first[c] BY <2>1, <2>3, <3>1
      <4> QED BY <2>5, <4>1
    <3>2. CASE Sent(c) # <<>>
      <4>1. cursor[c] = Events(c) BY <2>1, <2>3, <2>4, <2>5, <3>2
      <4>2. Len(log[Follows[c]]) > 0 /\ log[Follows[c]][Len(log[Follows[c]])] \in Terminal
        BY <2>1, <2>2 DEF StreamInv, TailInv
      <4> QED BY <2>1, <4>1, <4>2 DEF Events
    <3> QED BY <3>1, <3>2
  <2> QED BY <2>2, <2>5 DEF AtEnd, Events
<1>3. EndsOnTerminal BY <1>2 DEF EndsOnTerminal
<1> QED BY <1>1, <1>3 DEF StreamSound

THEOREM StreamsKeepInv == StreamSpec => []StreamInv
BY StreamInvInit, StreamInvStep, PTL DEF StreamSpec

\* Every variable of the clients and of the wake-ups stays in its set, cursors
\* within the first ones and the log.
THEOREM StreamsTyped == StreamSpec => []StreamTypeOK
<1>1. StreamInv => StreamTypeOK BY DEF StreamInv
<1> QED BY <1>1, StreamsKeepInv, PTL

\* event_stream, whatever drops, restarts and is lost: a client is sent the
\* events behind its first cursor in order, none doubled and none left out,
\* and its stream ends only behind a terminal event.
THEOREM StreamsAreSound == StreamSpec => []StreamSound
BY StreamSoundOf, StreamsKeepInv, PTL

-----------------------------------------------------------------------------
(* RunService. *)

USE ServiceConstants, LifecycleConstants
    DEF durable, manager, slots, shutdown, history, budgets

-----------------------------------------------------------------------------
(* What the writes of the store and of the lock's holder leave typed. *)

LEMMA CommitType ==
    ASSUME DurableTypeOK, NEW r \in Runs,
           \/ CommitInsert(r) \/ CommitTransition(r) \/ CommitClear(r) \/ UNCHANGED durable
           \/ CommitLedger(r, "settled") \/ CommitLedger(r, "released")
    PROVE  DurableTypeOK'
BY DEF DurableTypeOK, CommitInsert, CommitTransition, CommitClear, CommitLedger,
       Statuses, LedgerStates

LEMMA FinalizeType ==
    ASSUME DurableTypeOK, ManagerTypeOK, NEW r \in Runs, CommitFinalize(r)
    PROVE  DurableTypeOK' /\ held[r].goal \in Terminal
<1>1. held[r].goal \in Terminal
  BY DEF CommitFinalize, Ends, Terminal
<1>2. held[r].cost \in Bills
  BY DEF ManagerTypeOK, WorkRecords
<1> QED BY <1>1, <1>2 DEF DurableTypeOK, CommitFinalize, Statuses, EventKinds

LEMMA ReconcileType ==
    ASSUME DurableTypeOK, Reconcile
    PROVE  DurableTypeOK'
BY DEF DurableTypeOK, Reconcile, ReconcileWith, Recovered, Statuses, Terminal, EventKinds,
       Bills, LedgerStates

LEMMA RecoveredType ==
    ASSUME DurableTypeOK, NEW r \in Runs, NEW b \in BOOLEAN
    PROVE  Recovered(r, b) \in Bills
BY DEF DurableTypeOK, Recovered, Bills

LEMMA FreeType == Free \in WorkRecords
BY DEF Free, Work, WorkRecords, Holders, WorkSteps, Statuses, Terminal, Bills

\* Hold and GoTo change the work of one run, GoTo only its step.
LEMMA HoldEffect ==
    ASSUME ManagerTypeOK, NEW r \in Runs, NEW w \in WorkRecords, Hold(r, w)
    PROVE  /\ held' \in [Runs -> WorkRecords]
           /\ held'[r] = w /\ \A q \in Runs : q # r => held'[q] = held[q]
BY DEF ManagerTypeOK, Hold

LEMMA GoToEffect ==
    ASSUME ManagerTypeOK, NEW r \in Runs, NEW s \in WorkSteps, GoTo(r, s)
    PROVE  /\ held' \in [Runs -> WorkRecords]
           /\ held'[r].step = s
           /\ held'[r].by = held[r].by /\ held'[r].expect = held[r].expect
           /\ held'[r].goal = held[r].goal /\ held'[r].cost = held[r].cost
           /\ \A q \in Runs : q # r => held'[q] = held[q]
<1> DEFINE w == [held[r] EXCEPT !.step = s]
<1>1. /\ w \in WorkRecords
      /\ w.step = s /\ w.by = held[r].by /\ w.expect = held[r].expect
      /\ w.goal = held[r].goal /\ w.cost = held[r].cost
  BY DEF ManagerTypeOK, WorkRecords
<1>2. held' = [held EXCEPT ![r] = w]
  BY DEF GoTo
<1> HIDE DEF w
<1> QED BY <1>1, <1>2 DEF ManagerTypeOK

LEMMA FailType ==
    ASSUME ManagerTypeOK, NEW r \in Runs, Fail(r)
    PROVE  ManagerTypeOK'
<1>1. held' \in [Runs -> WorkRecords]
  BY HoldEffect, FreeType DEF Fail, FailWith
<1> QED BY <1>1 DEF ManagerTypeOK, Fail, FailWith, TaskSteps, ShutSteps, CreateSteps

LEMMA LeaveType ==
    ASSUME ManagerTypeOK, NEW r \in Runs, Leave(r)
    PROVE  ManagerTypeOK' /\ (acked \subseteq Runs => acked' \subseteq Runs)
<1>1. held' \in [Runs -> WorkRecords]
  BY HoldEffect, FreeType DEF Leave
<1> QED BY <1>1 DEF ManagerTypeOK, Leave, TaskSteps, CreateSteps

\* A lease is given back once, and the gate with it.
LEMMA ReleaseLocalEffect ==
    ASSUME IsFiniteSet(leases), GateCountsLeases, NEW r \in Runs, ReleaseLocal(r)
    PROVE  /\ IsFiniteSet(leases') /\ GateCountsLeases'
           /\ gate' \in Nat /\ gate' <= gate /\ leases' \subseteq leases
<1>1. /\ IsFiniteSet(leases \ {r})
      /\ Cardinality(leases \ {r}) = IF r \in leases THEN Cardinality(leases) - 1
                                                    ELSE Cardinality(leases)
  BY FS_RemoveElement
<1>2. Cardinality(leases) \in Nat /\ Cardinality(leases \ {r}) \in Nat
  BY <1>1, FS_CardinalityType
<1> QED BY <1>1, <1>2 DEF ReleaseLocal, GateCountsLeases

\* The work that is ever taken on is typed.
LEMMA WorksTyped ==
    ASSUME DurableTypeOK, ManagerTypeOK, NEW r \in Runs
    PROVE  /\ Work("task", "transition", "queued", "running", "open") \in WorkRecords
           /\ \A by \in Holders, g \in Terminal, e \in Statuses, b \in BOOLEAN :
                Work(by, "finalize", e, g, Recovered(r, b)) \in WorkRecords
           /\ \A by \in Holders, s \in Statuses : Work(by, "account", s, s, bill[r]) \in WorkRecords
           /\ \A g \in Statuses, c \in Bills :
                Work("task", "finalize", "running", g, c) \in WorkRecords
<1>1. \A b \in BOOLEAN : Recovered(r, b) \in Bills
  BY RecoveredType
<1>2. bill[r] \in Bills
  BY DEF DurableTypeOK
<1> QED BY <1>1, <1>2 DEF Work, WorkRecords, Holders, WorkSteps, Statuses, Bills

-----------------------------------------------------------------------------
LEMMA TypeStep ==
    ASSUME TypeOK, IsFiniteSet(leases), GateCountsLeases, [ServiceNext]_svars
    PROVE  TypeOK'
<1> USE DEF TypeOK
<1>1. ASSUME NEW r \in Runs, Admit(r) PROVE TypeOK'
  <2>1. ManagerTypeOK'
    BY <1>1 DEF Admit, ManagerTypeOK, CreateSteps
  <2>2. DurableTypeOK'
    BY <1>1 DEF Admit, DurableTypeOK, LedgerStates
  <2>3. leases' \subseteq Metered /\ gate' \in 0..Capacity
    BY <1>1 DEF Admit
  <2> QED BY <1>1, <2>1, <2>2, <2>3 DEF Admit
<1>2. ASSUME NEW r \in Runs, Insert(r) PROVE TypeOK'
  BY <1>2, CommitType DEF Insert, ManagerTypeOK, CreateSteps, TaskSteps, TokenStates
<1>3. ASSUME NEW r \in Runs, ReleaseAdmission(r) PROVE TypeOK'
  BY <1>3, CommitType, ReleaseLocalEffect DEF ReleaseAdmission, ManagerTypeOK, CreateSteps
<1>4. ASSUME NEW r \in Runs, Finalize(r) PROVE TypeOK'
  BY <1>4, FinalizeType, GoToEffect DEF Finalize, At, ManagerTypeOK, WorkSteps
<1>5. ASSUME NEW r \in Runs, Account(r) PROVE TypeOK'
  <2>1. held' \in [Runs -> WorkRecords]
    BY <1>5, GoToEffect DEF Account, At, WorkSteps
  <2>2. leases' \subseteq Metered /\ gate' \in 0..Capacity
    BY <1>5, ReleaseLocalEffect DEF Account
  <2>3. DurableTypeOK'
    BY <1>5, CommitType DEF Account
  <2> QED BY <1>5, <2>1, <2>2, <2>3 DEF Account, ManagerTypeOK
<1>6. ASSUME NEW r \in Runs, ClearAdmission(r) PROVE TypeOK'
  BY <1>6, CommitType, GoToEffect DEF ClearAdmission, At, ManagerTypeOK, WorkSteps
<1>7. ASSUME NEW r \in Runs, Announce(r) PROVE TypeOK'
  <2>1. held[r].goal \in Statuses
    BY DEF ManagerTypeOK, WorkRecords
  <2>2. ManagerTypeOK' /\ acked' \subseteq Runs /\ started' = started
    BY <1>7, LeaveType DEF Announce, Leave
  <2> QED BY <1>7, <2>1, <2>2 DEF Announce, DurableTypeOK
<1>8. ASSUME NEW r \in Runs, StartBegin(r) PROVE TypeOK'
  <2>1. held' \in [Runs -> WorkRecords]
    BY <1>8, WorksTyped, HoldEffect DEF StartBegin, ManagerTypeOK
  <2>2. task' \in [Runs -> TaskSteps]
    BY <1>8 DEF StartBegin, ManagerTypeOK, TaskSteps
  <2> QED BY <1>8, <2>1, <2>2 DEF StartBegin, ManagerTypeOK, DurableTypeOK
<1>9. ASSUME NEW r \in Runs, Transition(r) PROVE TypeOK'
  BY <1>9, CommitType, HoldEffect, FreeType DEF Transition, At, ManagerTypeOK, TaskSteps
<1>10. ASSUME NEW r \in Runs, RecoverBegin(r) PROVE TypeOK'
   BY <1>10, HoldEffect, WorksTyped DEF RecoverBegin, DurableTypeOK, ManagerTypeOK, CreateSteps,
    TaskSteps, TokenStates, Holders, WorkSteps, ShutSteps, Statuses, Terminal, Bills,
    LedgerStates, EventKinds
<1>11. ASSUME NEW r \in Runs, CoreReturn(r) PROVE TypeOK'
   BY <1>11 DEF CoreReturn, DurableTypeOK, ManagerTypeOK, CreateSteps, TaskSteps, TokenStates,
    Holders, WorkSteps, ShutSteps, Statuses, Terminal, Bills, LedgerStates, EventKinds
<1>12. ASSUME NEW r \in Runs, ExecBegin(r) PROVE TypeOK'
   BY <1>12, HoldEffect, WorksTyped DEF ExecBegin, ExecWith, CoreOutcome, FinalCost, NoResult,
    DurableTypeOK, ManagerTypeOK, CreateSteps, TaskSteps, TokenStates, Holders, WorkSteps,
    ShutSteps, Statuses, Terminal, Bills, LedgerStates, EventKinds
<1>13. ASSUME NEW r \in Runs, Forget(r) PROVE TypeOK'
   BY <1>13 DEF Forget, DurableTypeOK, ManagerTypeOK, CreateSteps, TaskSteps, TokenStates,
    Holders, WorkSteps, ShutSteps, Statuses, Terminal, Bills, LedgerStates, EventKinds
<1>14. ASSUME NEW r \in Runs, CoreEmit(r) PROVE TypeOK'
   BY <1>14 DEF CoreEmit, DurableTypeOK, ManagerTypeOK, CreateSteps, TaskSteps, TokenStates,
    Holders, WorkSteps, ShutSteps, Statuses, Terminal, Bills, LedgerStates, EventKinds
<1>15. ASSUME NEW r \in Runs, CancelRunning(r) PROVE TypeOK'
   BY <1>15 DEF CancelRunning, CancelArrives, CancelSignals, LockFree, DurableTypeOK,
    ManagerTypeOK, CreateSteps, TaskSteps, TokenStates, Holders, WorkSteps, ShutSteps, Statuses,
    Terminal, Bills, LedgerStates, EventKinds
<1>16. ASSUME NEW r \in Runs, CancelInactive(r) PROVE TypeOK'
  <2>1. Work("cancel", "finalize", status[r], "cancelled", Recovered(r, status[r] = "queued"))
          \in WorkRecords
    BY WorksTyped DEF DurableTypeOK, Holders, Terminal
  <2>2. held' \in [Runs -> WorkRecords]
    BY <1>16, <2>1, HoldEffect DEF CancelInactive
  <2>3. userCancel' \subseteq Runs /\ token' \in [Runs -> TokenStates]
    BY <1>16 DEF CancelInactive, CancelSignals, ManagerTypeOK, TokenStates
  <2> QED BY <1>16, <2>2, <2>3 DEF CancelInactive, CancelArrives, ManagerTypeOK, DurableTypeOK
<1>17. ASSUME NEW r \in Runs, CancelRepair(r) PROVE TypeOK'
   BY <1>17, HoldEffect, WorksTyped DEF CancelRepair, CancelArrives, DurableTypeOK, ManagerTypeOK,
    CreateSteps, TaskSteps, TokenStates, Holders, WorkSteps, ShutSteps, Statuses, Terminal, Bills,
    LedgerStates, EventKinds
<1>18. ASSUME NEW r \in Runs, SweepSkip(r) PROVE TypeOK'
   BY <1>18 DEF SweepSkip, LockFree, AliveTask, DurableTypeOK, ManagerTypeOK, CreateSteps,
    TaskSteps, TokenStates, Holders, WorkSteps, ShutSteps, Statuses, Terminal, Bills,
    LedgerStates, EventKinds
<1>19. ASSUME NEW r \in Runs, SweepSignal(r) PROVE TypeOK'
  <2>1. Work("shutdown", "finalize", "queued", "interrupted", Recovered(r, TRUE)) \in WorkRecords
    BY WorksTyped DEF Holders, Statuses, Terminal
  <2>2. held' \in [Runs -> WorkRecords]
    BY <1>19, <2>1, HoldEffect DEF SweepSignal, ManagerTypeOK
  <2>3. shutReq' \subseteq Runs /\ pending' \subseteq Runs /\ token' \in [Runs -> TokenStates]
    BY <1>19 DEF SweepSignal, ManagerTypeOK, TokenStates
  <2> QED BY <1>19, <2>2, <2>3 DEF SweepSignal, ManagerTypeOK, DurableTypeOK
<1>20. ASSUME NEW r \in Runs, AdmitLost(r) PROVE TypeOK'
   BY <1>20 DEF AdmitLost, Fault, DurableTypeOK, ManagerTypeOK, CreateSteps, TaskSteps,
    TokenStates, Holders, WorkSteps, ShutSteps, Statuses, Terminal, Bills, LedgerStates,
    EventKinds
<1>21. ASSUME NEW r \in Runs, InsertUntasked(r) PROVE TypeOK'
  <2>1. Work("create", "finalize", "queued", "interrupted", Recovered(r, TRUE)) \in WorkRecords
    BY WorksTyped DEF Holders, Statuses, Terminal
  <2>2. held' \in [Runs -> WorkRecords]
    BY <1>21, <2>1, HoldEffect DEF InsertUntasked
  <2>3. DurableTypeOK' /\ creating' \in [Runs -> CreateSteps]
    BY <1>21, CommitType DEF InsertUntasked, ManagerTypeOK, CreateSteps
  <2> QED BY <1>21, <2>2, <2>3 DEF InsertUntasked, Fault, ManagerTypeOK
<1>22. ASSUME NEW r \in Runs, InsertLost(r) PROVE TypeOK'
  BY <1>22, CommitType DEF InsertLost, Fault, ManagerTypeOK, CreateSteps
<1>23. ASSUME NEW r \in Runs, ReleaseAdmissionLost(r) PROVE TypeOK'
  BY <1>23, CommitType DEF ReleaseAdmissionLost, Fault, ManagerTypeOK, CreateSteps
<1>24. ASSUME NEW r \in Runs, FinalizeLost(r) PROVE TypeOK'
  BY <1>24, FinalizeType, CommitType, FailType DEF FinalizeLost, Fault
<1>25. ASSUME NEW r \in Runs, AccountLost(r) PROVE TypeOK'
  BY <1>25, CommitType, FailType DEF AccountLost, Fault
<1>26. ASSUME NEW r \in Runs, ClearAdmissionLost(r) PROVE TypeOK'
  BY <1>26, CommitType, FailType DEF ClearAdmissionLost, Fault
<1>27. ASSUME NEW r \in Runs, AnnounceLost(r) PROVE TypeOK'
  BY <1>27, CommitType, FailType DEF AnnounceLost, Fault
<1>28. ASSUME NEW r \in Runs, StartReadLost(r) PROVE TypeOK'
   BY <1>28 DEF StartReadLost, Fault, LockFree, DurableTypeOK, ManagerTypeOK, CreateSteps,
    TaskSteps, TokenStates, Holders, WorkSteps, ShutSteps, Statuses, Terminal, Bills,
    LedgerStates, EventKinds
<1>29. ASSUME NEW r \in Runs, TransitionLost(r) PROVE TypeOK'
  BY <1>29, CommitType, FailType DEF TransitionLost, Fault
<1>30. ASSUME NEW r \in Runs, CoreRaisesLost(r) PROVE TypeOK'
   BY <1>30 DEF CoreRaisesLost, Fault, DurableTypeOK, ManagerTypeOK, CreateSteps, TaskSteps,
    TokenStates, Holders, WorkSteps, ShutSteps, Statuses, Terminal, Bills, LedgerStates,
    EventKinds
<1>31. CASE ShutdownBegin
   BY <1>31 DEF ShutdownBegin, DurableTypeOK, ManagerTypeOK, CreateSteps, TaskSteps, TokenStates,
    Holders, WorkSteps, ShutSteps, Statuses, Terminal, Bills, LedgerStates, EventKinds
<1>32. CASE ShutdownSnapshot
   BY <1>32 DEF ShutdownSnapshot, DurableTypeOK, ManagerTypeOK, CreateSteps, TaskSteps,
    TokenStates, Holders, WorkSteps, ShutSteps, Statuses, Terminal, Bills, LedgerStates,
    EventKinds
<1>33. CASE GraceOver
   BY <1>33 DEF GraceOver, AliveTask, DurableTypeOK, ManagerTypeOK, CreateSteps, TaskSteps,
    TokenStates, Holders, WorkSteps, ShutSteps, Statuses, Terminal, Bills, LedgerStates,
    EventKinds
<1>34. CASE SweepDone
   BY <1>34 DEF SweepDone, DurableTypeOK, ManagerTypeOK, CreateSteps, TaskSteps, TokenStates,
    Holders, WorkSteps, ShutSteps, Statuses, Terminal, Bills, LedgerStates, EventKinds
<1>35. CASE GatherDone
   BY <1>35 DEF GatherDone, DurableTypeOK, ManagerTypeOK, CreateSteps, TaskSteps, TokenStates,
    Holders, WorkSteps, ShutSteps, Statuses, Terminal, Bills, LedgerStates, EventKinds
<1>36. CASE SweepLost
   BY <1>36 DEF SweepLost, Fault, DurableTypeOK, ManagerTypeOK, CreateSteps, TaskSteps,
    TokenStates, Holders, WorkSteps, ShutSteps, Statuses, Terminal, Bills, LedgerStates,
    EventKinds
<1>37. CASE StartupLost
  BY <1>37, ReconcileType DEF StartupLost, Fault, ManagerTypeOK
<1>38. CASE Crash
  <2>1. task' \in [Runs -> TaskSteps] /\ token' \in [Runs -> TokenStates]
        /\ creating' \in [Runs -> CreateSteps] /\ announced' \in [Runs -> Statuses]
    BY <1>38 DEF Crash, TaskSteps, TokenStates, CreateSteps, Statuses
  <2>2. held' \in [Runs -> WorkRecords]
    BY <1>38, FreeType DEF Crash
  <2>3. result' \in [Runs -> [goal : Statuses, cost : Bills]]
    BY <1>38 DEF Crash, NoResult, Statuses, Bills
  <2>4. ManagerTypeOK'
    BY <1>38, <2>1, <2>2, <2>3 DEF Crash, ManagerTypeOK, ShutSteps
  <2>5. restarts' \in 0..MaxRestarts /\ gate' \in 0..Capacity
    BY <1>38 DEF Crash
  <2> QED BY <1>38, <2>1, <2>4, <2>5 DEF Crash, DurableTypeOK
<1>39. CASE Startup
  BY <1>39, ReconcileType DEF Startup, ManagerTypeOK
<1>40. CASE UNCHANGED svars
  BY <1>40 DEF svars, DurableTypeOK, ManagerTypeOK
<1> QED BY <1>1, <1>2, <1>3, <1>4, <1>5, <1>6, <1>7, <1>8, <1>9, <1>10, <1>11, <1>12, <1>13,
    <1>14, <1>15, <1>16, <1>17, <1>18, <1>19, <1>20, <1>21, <1>22, <1>23, <1>24, <1>25, <1>26,
    <1>27, <1>28, <1>29, <1>30, <1>31, <1>32, <1>33, <1>34, <1>35, <1>36, <1>37, <1>38, <1>39,
    <1>40 DEF ServiceNext, CreateStep, TailStep, TaskStep, CancelStep, ShutdownStep, FaultStep

\* Only admission, release, accounting and a crash touch the slots.
LEMMA SlotStep ==
    ASSUME IsFiniteSet(leases), GateCountsLeases, [ServiceNext]_svars,
           \A r \in leases : ledger[r] # "none"
    PROVE  IsFiniteSet(leases') /\ GateCountsLeases'
<1>1. ASSUME NEW r \in Runs, Admit(r) PROVE IsFiniteSet(leases') /\ GateCountsLeases'
  <2>1. r \notin leases
    BY <1>1 DEF Admit
  <2>2. /\ IsFiniteSet(leases \cup {r})
        /\ Cardinality(leases \cup {r}) = Cardinality(leases) + 1
    BY <2>1, FS_AddElement
  <2> QED BY <1>1, <2>2 DEF Admit, GateCountsLeases
<1>2. ASSUME NEW r \in Runs, ReleaseAdmission(r) \/ Account(r)
      PROVE  IsFiniteSet(leases') /\ GateCountsLeases'
  BY <1>2, ReleaseLocalEffect DEF ReleaseAdmission, Account, GateCountsLeases
<1>3. CASE Crash
  BY <1>3, FS_EmptySet DEF Crash, GateCountsLeases
<1>4. CASE UNCHANGED slots
  BY <1>4 DEF GateCountsLeases
<1>5. CASE UNCHANGED svars
  BY <1>5, <1>4 DEF svars
<1>6. ASSUME NEW r \in Runs, CreateStep(r) \/ TailStep(r) \/ TaskStep(r) \/ CoreEmit(r) \/ CancelStep(r)
      PROVE  Admit(r) \/ ReleaseAdmission(r) \/ Account(r) \/ UNCHANGED slots
  BY <1>6 DEF CreateStep, TailStep, TaskStep, CancelStep, Insert, Finalize, ClearAdmission,
      Announce,
       StartBegin, Transition, RecoverBegin, CoreReturn, ExecBegin, ExecWith, Forget, CoreEmit,
       CancelRunning, CancelInactive, CancelRepair
<1>7. ShutdownStep \/ FaultStep \/ Startup => UNCHANGED slots
  BY DEF ShutdownStep, FaultStep, Startup, ShutdownBegin, ShutdownSnapshot, GraceOver, SweepDone,
       GatherDone, SweepSkip, SweepSignal, SweepLost, StartupLost, AdmitLost, InsertUntasked,
       InsertLost, ReleaseAdmissionLost, FinalizeLost, AccountLost, ClearAdmissionLost,
       AnnounceLost, StartReadLost, TransitionLost, CoreRaisesLost
<1> QED BY <1>1, <1>2, <1>3, <1>4, <1>5, <1>6, <1>7 DEF ServiceNext

-----------------------------------------------------------------------------
(* The invariant of the lifecycle, run by run. *)

\* Nothing the invariant says of run q has changed.
Same(q) ==
    /\ status'[q] = status[q] /\ log'[q] = log[q] /\ bill'[q] = bill[q] /\ ledger'[q] = ledger[q]
    /\ creating'[q] = creating[q] /\ task'[q] = task[q] /\ held'[q] = held[q]
    /\ announced'[q] = announced[q] /\ result'[q] = result[q]
    /\ q \in link' <=> q \in link
    /\ q \in leases' <=> q \in leases
    /\ q \in userCancel' <=> q \in userCancel
    /\ q \in started' <=> q \in started
    /\ q \in acked' <=> q \in acked

LEMMA Frame ==
    ASSUME NEW q \in Runs, RunInv(q), Same(q)
    PROVE  RunInv(q)'
BY DEF Same, RunInv, HolderInv, WorkInv, CreateInv, TaskInv, RowInv, LogSound, LockFree,
    AliveTask,
       Reserved, Admitted, Accounted

\* The terminal event goes to the end of a log that has none, or of the log of
\* an interrupted run that is now cancelled.
LEMMA FinalizeLog ==
    ASSUME DurableTypeOK, ManagerTypeOK, NEW r \in Runs, LogSound(r), CommitFinalize(r)
    PROVE  LogSound(r)'
<1> DEFINE n == Len(log[r])
<1>1. log[r] \in Seq(EventKinds) /\ n \in Nat
  BY DEF DurableTypeOK
<1>2. /\ status'[r] = held[r].goal /\ held[r].goal \in Ends(status[r])
      /\ log'[r] = Append(log[r], held[r].goal)
  BY DEF DurableTypeOK, CommitFinalize
<1>3. held[r].goal \in Terminal
  BY FinalizeType
<1>4. /\ Len(log'[r]) = n + 1 /\ log'[r][n + 1] = held[r].goal
      /\ \A i \in 1..n : log'[r][i] = log[r][i]
  BY <1>1, <1>2, <1>3 DEF EventKinds
<1>5. ASSUME NEW i \in 1..n, log[r][i] \in Terminal
      PROVE  i = n /\ log[r][i] = "interrupted" /\ held[r].goal = "cancelled"
  <2>1. CASE status[r] = "queued"
    BY <2>1, <1>1, <1>5 DEF LogSound
  <2>2. CASE status[r] = "running"
    BY <2>2, <1>5 DEF LogSound, Terminal
  <2>3. CASE status[r] = "interrupted"
    BY <2>3, <1>1, <1>2, <1>5 DEF LogSound, Ends, Terminal
  <2> QED BY <1>2, <2>1, <2>2, <2>3 DEF Ends
<1> HIDE DEF n
<1> QED BY <1>1, <1>2, <1>3, <1>4, <1>5 DEF LogSound, Terminal

-----------------------------------------------------------------------------
(* One lemma per action: other runs are framed, the run acted on keeps each *)
(* part of its invariant.                                                   *)

LEMMA AdmitKeeps ==
    ASSUME TypeOK, ServiceInv, NEW r \in Runs, Admit(r)
    PROVE  ServiceInv'
<1>1. \A q \in Runs : q # r => Same(q)
  BY DEF Same, Admit, CreationLockFree, TypeOK, DurableTypeOK, ManagerTypeOK
<1>2. RunInv(r)'
  BY DEF ServiceInv, Admit, CreationLockFree, RunInv, HolderInv, WorkInv, CreateInv, TaskInv,
      RowInv, LogSound, LockFree, AliveTask, Reserved, Admitted, Accounted, Terminal, Ends,
      TypeOK, DurableTypeOK, ManagerTypeOK, WorkRecords, WorkSteps, Work, Free
<1>3. DownInv'
  BY DEF DownInv, Admit, CreationLockFree, ServiceInv
<1> QED BY <1>1, <1>2, <1>3, Frame DEF ServiceInv

LEMMA InsertKeeps ==
    ASSUME TypeOK, ServiceInv, NEW r \in Runs, Insert(r)
    PROVE  ServiceInv'
<1>1. \A q \in Runs : q # r => Same(q)
  BY DEF Same, Insert, CommitInsert, TypeOK, DurableTypeOK, ManagerTypeOK
<1>2. RunInv(r)'
  BY DEF ServiceInv, Insert, CommitInsert, RunInv, HolderInv, WorkInv, CreateInv, TaskInv,
      RowInv, LogSound, LockFree, AliveTask, Reserved, Admitted, Accounted, Terminal, Ends,
      TypeOK, DurableTypeOK, ManagerTypeOK, WorkRecords, WorkSteps, Work, Free
<1>3. DownInv'
  BY DEF DownInv, Insert, CommitInsert, ServiceInv
<1> QED BY <1>1, <1>2, <1>3, Frame DEF ServiceInv

LEMMA ReleaseAdmissionKeeps ==
    ASSUME TypeOK, ServiceInv, NEW r \in Runs, ReleaseAdmission(r)
    PROVE  ServiceInv'
<1>1. \A q \in Runs : q # r => Same(q)
  BY DEF Same, ReleaseAdmission, CommitLedger, ReleaseLocal, TypeOK, DurableTypeOK,
      ManagerTypeOK
<1>2. RunInv(r)'
  BY DEF ServiceInv, ReleaseAdmission, CommitLedger, ReleaseLocal, RunInv, HolderInv, WorkInv,
      CreateInv, TaskInv, RowInv, LogSound, LockFree, AliveTask, Reserved, Admitted, Accounted,
      Terminal, Ends, TypeOK, DurableTypeOK, ManagerTypeOK, WorkRecords, WorkSteps, Work, Free
<1>3. DownInv'
  BY DEF DownInv, ReleaseAdmission, CommitLedger, ReleaseLocal, ServiceInv
<1> QED BY <1>1, <1>2, <1>3, Frame DEF ServiceInv

LEMMA FinalizeKeeps ==
    ASSUME TypeOK, ServiceInv, NEW r \in Runs, Finalize(r)
    PROVE  ServiceInv'
<1>1. \A q \in Runs : q # r => Same(q)
  BY DEF Same, Finalize, At, CommitFinalize, GoTo, TypeOK, DurableTypeOK, ManagerTypeOK
<1>2. RunInv(r)'
  <2> USE DEF TypeOK, DurableTypeOK, ManagerTypeOK
  <2>1. held[r].cost \in Bills /\ held[r].by \in Holders /\ held[r].goal \in Terminal
    BY FinalizeType DEF Finalize, WorkRecords
  <2>2. /\ held'[r].by = held[r].by /\ held'[r].goal = held[r].goal
        /\ held'[r].expect = held[r].expect /\ held'[r].cost = held[r].cost
        /\ held'[r].step = "account"
    BY GoToEffect DEF Finalize, At, WorkSteps
  <2>3. held[r].by # "nobody" /\ held'[r] # Free /\ status'[r] = held[r].goal
    BY <2>2 DEF ServiceInv, RunInv, HolderInv, Finalize, At, CommitFinalize, Free, Work
  <2>4. HolderInv(r)'
    BY <2>2, <2>3 DEF ServiceInv, RunInv, HolderInv, Finalize, At, Free, Work
  <2>5. WorkInv(r)'
    BY <2>1, <2>2, <2>3 DEF Finalize, At, CommitFinalize, ServiceInv, RunInv, HolderInv,
        WorkInv, CreateInv, TaskInv, RowInv, LogSound, LockFree, AliveTask, Reserved, Admitted,
        Accounted, Terminal, Ends, WorkRecords
  <2>6. CreateInv(r)'
    BY <2>1, <2>2, <2>3 DEF Finalize, At, CommitFinalize, ServiceInv, RunInv, HolderInv,
        WorkInv, CreateInv, TaskInv, RowInv, LogSound, LockFree, AliveTask, Reserved, Admitted,
        Accounted, Terminal, Ends, WorkRecords
  <2>7. TaskInv(r)'
    BY <2>1, <2>3 DEF ServiceInv, RunInv, HolderInv, TaskInv, Finalize, At, AliveTask, LockFree,
       Terminal, Free, Work
  <2>8. RowInv(r)'
    BY <2>1, <2>2, <2>3 DEF Finalize, At, CommitFinalize, ServiceInv, RunInv, HolderInv,
        WorkInv, CreateInv, TaskInv, RowInv, LogSound, LockFree, AliveTask, Reserved, Admitted,
        Accounted, Terminal, Ends, WorkRecords
  <2>9. LogSound(r)'
    BY FinalizeLog DEF ServiceInv, RunInv, Finalize
  <2> QED BY <2>4, <2>5, <2>6, <2>7, <2>8, <2>9 DEF RunInv
<1>3. DownInv'
  BY DEF DownInv, Finalize, At, CommitFinalize, GoTo, ServiceInv
<1> QED BY <1>1, <1>2, <1>3, Frame DEF ServiceInv

LEMMA AccountKeeps ==
    ASSUME TypeOK, ServiceInv, NEW r \in Runs, Account(r)
    PROVE  ServiceInv'
<1>1. \A q \in Runs : q # r => Same(q)
  BY DEF Same, Account, At, GoTo, CommitLedger, ReleaseLocal, TypeOK, DurableTypeOK,
      ManagerTypeOK
<1>2. RunInv(r)'
  <2> USE DEF TypeOK, DurableTypeOK, ManagerTypeOK
  <2>1. held[r].by \in Holders /\ bill[r] \in Bills /\ ledger[r] \in LedgerStates
    BY DEF WorkRecords
  <2>2. /\ held'[r].by = held[r].by /\ held'[r].goal = held[r].goal
        /\ held'[r].expect = held[r].expect /\ held'[r].cost = held[r].cost
        /\ held'[r].step \in {"clear", "announce"}
        /\ held'[r].step = "clear" <=> r \in link /\ bill[r] = "known"
    BY GoToEffect DEF Account, At, WorkSteps
  <2>3. held[r].by # "nobody" /\ held'[r] # Free /\ status[r] \in Terminal
    BY <2>2 DEF ServiceInv, RunInv, HolderInv, WorkInv, Account, At, Free, Work
  <2>4. HolderInv(r)'
    BY <2>2, <2>3 DEF ServiceInv, RunInv, HolderInv, Account, At, Free, Work
  <2>5. WorkInv(r)'
    BY <2>1, <2>2, <2>3 DEF Account, At, CommitLedger, ReleaseLocal, ServiceInv, RunInv,
        HolderInv, WorkInv, CreateInv, TaskInv, RowInv, LogSound, LockFree, AliveTask, Reserved,
        Admitted, Accounted, Terminal, Ends, Bills, LedgerStates, WorkRecords
  <2>6. CreateInv(r)'
    BY <2>1, <2>2, <2>3 DEF Account, At, CommitLedger, ReleaseLocal, ServiceInv, RunInv,
        HolderInv, WorkInv, CreateInv, TaskInv, RowInv, LogSound, LockFree, AliveTask, Reserved,
        Admitted, Accounted, Terminal, Ends, WorkRecords
  <2>7. TaskInv(r)'
    BY <2>2, <2>3 DEF ServiceInv, RunInv, TaskInv, Account, CommitLedger, AliveTask, LockFree,
        Terminal
  <2>8. RowInv(r)'
    BY <2>1, <2>2, <2>3 DEF Account, At, CommitLedger, ReleaseLocal, ServiceInv, RunInv,
        HolderInv, WorkInv, CreateInv, TaskInv, RowInv, LogSound, LockFree, AliveTask, Reserved,
        Admitted, Accounted, Terminal, Ends, Bills, LedgerStates, WorkRecords
  <2>9. LogSound(r)'
    BY SMTT(40), <2>1, <2>2, <2>3 DEF Account, At, CommitLedger, ReleaseLocal, ServiceInv, RunInv,
        HolderInv, WorkInv, CreateInv, TaskInv, RowInv, LogSound, LockFree, AliveTask, Reserved,
        Admitted, Accounted, Terminal, Ends, WorkRecords
  <2> QED BY <2>4, <2>5, <2>6, <2>7, <2>8, <2>9 DEF RunInv
<1>3. DownInv'
  BY DEF DownInv, Account, At, GoTo, CommitLedger, ReleaseLocal, ServiceInv
<1> QED BY <1>1, <1>2, <1>3, Frame DEF ServiceInv

LEMMA ClearAdmissionKeeps ==
    ASSUME TypeOK, ServiceInv, NEW r \in Runs, ClearAdmission(r)
    PROVE  ServiceInv'
<1>1. \A q \in Runs : q # r => Same(q)
  BY DEF Same, ClearAdmission, At, GoTo, CommitClear, TypeOK, DurableTypeOK, ManagerTypeOK
<1>2. RunInv(r)'
  BY SMTT(40), GoToEffect DEF ServiceInv, ClearAdmission, At, GoTo, CommitClear, RunInv, HolderInv,
      WorkInv, CreateInv, TaskInv, RowInv, LogSound, LockFree, AliveTask, Reserved, Admitted,
      Accounted, Terminal, Ends, TypeOK, DurableTypeOK, ManagerTypeOK, WorkRecords, WorkSteps,
      Work, Free
<1>3. DownInv'
  BY DEF DownInv, ClearAdmission, At, GoTo, CommitClear, ServiceInv
<1> QED BY <1>1, <1>2, <1>3, Frame DEF ServiceInv

LEMMA AnnounceKeeps ==
    ASSUME TypeOK, ServiceInv, NEW r \in Runs, Announce(r)
    PROVE  ServiceInv'
<1>1. \A q \in Runs : q # r => Same(q)
  BY DEF Same, Announce, At, Leave, Hold, AliveTask, Free, Work, TypeOK, DurableTypeOK,
      ManagerTypeOK
<1>2. RunInv(r)'
  <2> USE DEF TypeOK, DurableTypeOK, ManagerTypeOK
  <2>1. held'[r] = Free
    BY HoldEffect, FreeType DEF Announce, Leave
  <2>2. /\ status[r] \in Terminal /\ status[r] = held[r].goal /\ Accounted(r)
        /\ held[r].by = "cancel" => status[r] = "cancelled"
    BY DEF ServiceInv, Announce, At, RunInv, HolderInv, WorkInv
  <2>3. HolderInv(r)'
    BY <2>1, <2>2 DEF Announce, At, Leave, Hold, AliveTask, Free, Work, ServiceInv, RunInv,
        HolderInv, WorkInv, CreateInv, TaskInv, RowInv, LogSound, LockFree, Reserved, Admitted,
        Accounted, Terminal, Ends, WorkRecords
  <2>4. WorkInv(r)'
    BY <2>1, <2>2 DEF Announce, At, Leave, Hold, AliveTask, Free, Work, ServiceInv, RunInv,
        HolderInv, WorkInv, CreateInv, TaskInv, RowInv, LogSound, LockFree, Reserved, Admitted,
        Accounted, Terminal, Ends, WorkRecords
  <2>5. CreateInv(r)'
    BY <2>1, <2>2 DEF ServiceInv, RunInv, HolderInv, CreateInv, Announce, At, Leave, Free, Work,
        Terminal,
       CreateSteps, LockFree
  <2>6. TaskInv(r)'
    BY <2>1, <2>2 DEF Announce, At, Leave, Hold, AliveTask, Free, Work, ServiceInv, RunInv,
        HolderInv, WorkInv, CreateInv, TaskInv, RowInv, LogSound, LockFree, Reserved, Admitted,
        Accounted, Terminal, Ends, TaskSteps, WorkRecords
  <2>7. RowInv(r)'
    BY <2>1, <2>2 DEF Announce, At, Leave, Hold, AliveTask, Free, Work, ServiceInv, RunInv,
        HolderInv, WorkInv, CreateInv, TaskInv, RowInv, LogSound, LockFree, Reserved, Admitted,
        Accounted, Terminal, Ends, WorkRecords
  <2>8. LogSound(r)'
    BY <2>1, <2>2 DEF Announce, At, Leave, Hold, AliveTask, Free, Work, ServiceInv, RunInv,
        HolderInv, WorkInv, CreateInv, TaskInv, RowInv, LogSound, LockFree, Reserved, Admitted,
        Accounted, Terminal, Ends, WorkRecords
  <2> QED BY <2>3, <2>4, <2>5, <2>6, <2>7, <2>8 DEF RunInv
<1>3. DownInv'
  BY DEF DownInv, Announce, At, Leave, Hold, AliveTask, Free, Work, ServiceInv
<1> QED BY <1>1, <1>2, <1>3, Frame DEF ServiceInv

LEMMA StartBeginKeeps ==
    ASSUME TypeOK, ServiceInv, NEW r \in Runs, StartBegin(r)
    PROVE  ServiceInv'
<1>1. \A q \in Runs : q # r => Same(q)
  BY DEF Same, StartBegin, LockFree, Hold, Work, Free, TypeOK, DurableTypeOK, ManagerTypeOK
<1>2. RunInv(r)'
  BY DEF ServiceInv, StartBegin, LockFree, Hold, Work, Free, RunInv, HolderInv, WorkInv,
      CreateInv, TaskInv, RowInv, LogSound, AliveTask, Reserved, Admitted, Accounted, Terminal,
      Ends, TypeOK, DurableTypeOK, ManagerTypeOK, WorkRecords, WorkSteps
<1>3. DownInv'
  BY DEF DownInv, StartBegin, LockFree, Hold, Work, Free, ServiceInv
<1> QED BY <1>1, <1>2, <1>3, Frame DEF ServiceInv

LEMMA TransitionKeeps ==
    ASSUME TypeOK, ServiceInv, NEW r \in Runs, Transition(r)
    PROVE  ServiceInv'
<1>1. \A q \in Runs : q # r => Same(q)
  BY DEF Same, Transition, At, CommitTransition, Hold, Free, Work, TypeOK, DurableTypeOK,
      ManagerTypeOK
<1>2. RunInv(r)'
  BY DEF ServiceInv, Transition, At, CommitTransition, Hold, Free, Work, RunInv, HolderInv,
      WorkInv, CreateInv, TaskInv, RowInv, LogSound, LockFree, AliveTask, Reserved, Admitted,
      Accounted, Terminal, Ends, TypeOK, DurableTypeOK, ManagerTypeOK, WorkRecords, WorkSteps
<1>3. DownInv'
  BY DEF DownInv, Transition, At, CommitTransition, Hold, Free, Work, ServiceInv
<1> QED BY <1>1, <1>2, <1>3, Frame DEF ServiceInv

LEMMA RecoverBeginKeeps ==
    ASSUME TypeOK, ServiceInv, NEW r \in Runs, RecoverBegin(r)
    PROVE  ServiceInv'
<1>1. \A q \in Runs : q # r => Same(q)
  BY DEF Same, RecoverBegin, LockFree, Hold, Work, Free, Recovered, TypeOK, DurableTypeOK,
      ManagerTypeOK
<1>2. RunInv(r)'
  <2> USE DEF TypeOK, DurableTypeOK, ManagerTypeOK
  <2>1. /\ status[r] \in {"queued", "running"} => Recovered(r, TRUE) = "known"
        /\ status[r] \in {"queued", "running"} \cup Terminal
    BY DEF ServiceInv, RunInv, TaskInv, RowInv, LogSound, RecoverBegin, Recovered, Statuses,
        Terminal
  <2>2. /\ held'[r].by = "task" /\ held'[r] # Free
        /\ held'[r].expect = status[r]
        /\ status[r] \in {"queued", "running"} =>
              /\ held'[r].step = "finalize" /\ held'[r].goal \in {"cancelled", "interrupted"}
              /\ held'[r].cost = "known"
        /\ status[r] \in Terminal => held'[r].step = "account" /\ held'[r].goal = status[r]
    BY <2>1 DEF RecoverBegin, Hold, Work, Free, Terminal
  <2>3. HolderInv(r)'
    BY <2>1, <2>2 DEF RecoverBegin, LockFree, Hold, Work, Free, Recovered, ServiceInv, RunInv,
        HolderInv, WorkInv, CreateInv, TaskInv, RowInv, LogSound, AliveTask, Reserved, Admitted,
        Accounted, Terminal, Ends, WorkRecords
  <2>4. WorkInv(r)'
    BY <2>1, <2>2 DEF RecoverBegin, LockFree, Hold, Work, Free, Recovered, ServiceInv, RunInv,
        HolderInv, WorkInv, CreateInv, TaskInv, RowInv, LogSound, AliveTask, Reserved, Admitted,
        Accounted, Terminal, Ends, WorkRecords
  <2>5. CreateInv(r)'
    BY <2>1, <2>2 DEF RecoverBegin, LockFree, Hold, Work, Free, Recovered, ServiceInv, RunInv,
        HolderInv, WorkInv, CreateInv, TaskInv, RowInv, LogSound, AliveTask, Reserved, Admitted,
        Accounted, Terminal, Ends, WorkRecords
  <2>6. TaskInv(r)'
    BY ZenonT(60), <2>1, <2>2 DEF RecoverBegin, LockFree, Hold, Work, Free, Recovered, ServiceInv, RunInv,
        HolderInv, WorkInv, CreateInv, TaskInv, RowInv, LogSound, AliveTask, Reserved, Admitted,
        Accounted, Terminal, Ends, WorkRecords
  <2>7. RowInv(r)'
    BY <2>1, <2>2 DEF RecoverBegin, LockFree, Hold, Work, Free, Recovered, ServiceInv, RunInv,
        HolderInv, WorkInv, CreateInv, TaskInv, RowInv, LogSound, AliveTask, Reserved, Admitted,
        Accounted, Terminal, Ends, WorkRecords
  <2>8. LogSound(r)'
    BY <2>1, <2>2 DEF RecoverBegin, LockFree, Hold, Work, Free, Recovered, ServiceInv, RunInv,
        HolderInv, WorkInv, CreateInv, TaskInv, RowInv, LogSound, AliveTask, Reserved, Admitted,
        Accounted, Terminal, Ends, WorkRecords
  <2> QED BY <2>3, <2>4, <2>5, <2>6, <2>7, <2>8 DEF RunInv
<1>3. DownInv'
  BY DEF DownInv, RecoverBegin, LockFree, Hold, Work, Free, Recovered, ServiceInv
<1> QED BY <1>1, <1>2, <1>3, Frame DEF ServiceInv

LEMMA CoreReturnKeeps ==
    ASSUME TypeOK, ServiceInv, NEW r \in Runs, CoreReturn(r)
    PROVE  ServiceInv'
<1>1. \A q \in Runs : q # r => Same(q)
  BY DEF Same, CoreReturn, TypeOK, DurableTypeOK, ManagerTypeOK
<1>2. RunInv(r)'
  BY DEF ServiceInv, CoreReturn, RunInv, HolderInv, WorkInv, CreateInv, TaskInv, RowInv,
      LogSound, LockFree, AliveTask, Reserved, Admitted, Accounted, Terminal, Ends, TypeOK,
      DurableTypeOK, ManagerTypeOK, WorkRecords, WorkSteps, Work, Free
<1>3. DownInv'
  BY DEF DownInv, CoreReturn, ServiceInv
<1> QED BY <1>1, <1>2, <1>3, Frame DEF ServiceInv

LEMMA ExecBeginKeeps ==
    ASSUME TypeOK, ServiceInv, NEW r \in Runs, ExecBegin(r)
    PROVE  ServiceInv'
<1>1. \A q \in Runs : q # r => Same(q)
  BY DEF Same, ExecBegin, ExecWith, CoreOutcome, FinalCost, LockFree, Hold, Work, Free,
      NoResult, TypeOK, DurableTypeOK, ManagerTypeOK
<1>2. RunInv(r)'
  <2> USE DEF TypeOK, DurableTypeOK, ManagerTypeOK
  <2>1. /\ held'[r].by = "task" /\ held'[r].step = "finalize" /\ held'[r].expect = "running"
        /\ held'[r].cost = FinalCost(r) /\ held'[r] # Free
        /\ held'[r].goal = IF r \in userCancel THEN "cancelled"
                           ELSE IF r \in shutReq THEN "interrupted" ELSE CoreOutcome(r)
    BY DEF ExecBegin, ExecWith, Hold, Work, Free
  <2>2. /\ FinalCost(r) # "open" /\ CoreOutcome(r) \in Terminal
        /\ status[r] = "running" /\ bill[r] = "open" /\ Reserved(r)
        /\ r \in acked => r \in userCancel
    BY DEF ServiceInv, RunInv, TaskInv, RowInv, AliveTask, ExecBegin, ExecWith, FinalCost,
       CoreOutcome, Terminal
  <2>3. HolderInv(r)'
    BY <2>1, <2>2 DEF ExecBegin, ExecWith, CoreOutcome, FinalCost, LockFree, Hold, Work, Free,
        NoResult, ServiceInv, RunInv, HolderInv, WorkInv, CreateInv, TaskInv, RowInv, LogSound,
        AliveTask, Reserved, Admitted, Accounted, Terminal, Ends, WorkRecords
  <2>4. WorkInv(r)'
    BY <2>1, <2>2 DEF ExecBegin, ExecWith, CoreOutcome, FinalCost, LockFree, Hold, Work, Free,
        NoResult, ServiceInv, RunInv, HolderInv, WorkInv, CreateInv, TaskInv, RowInv, LogSound,
        AliveTask, Reserved, Admitted, Accounted, Terminal, Ends, WorkRecords
  <2>5. CreateInv(r)'
    BY <2>1, <2>2 DEF ExecBegin, ExecWith, CoreOutcome, FinalCost, LockFree, Hold, Work, Free,
        NoResult, ServiceInv, RunInv, HolderInv, WorkInv, CreateInv, TaskInv, RowInv, LogSound,
        AliveTask, Reserved, Admitted, Accounted, Terminal, Ends, WorkRecords
  <2>6. TaskInv(r)'
    BY ZenonT(60), <2>1, <2>2 DEF ExecBegin, ExecWith, CoreOutcome, FinalCost, LockFree, Hold, Work, Free,
        NoResult, ServiceInv, RunInv, HolderInv, WorkInv, CreateInv, TaskInv, RowInv, LogSound,
        AliveTask, Reserved, Admitted, Accounted, Terminal, Ends, WorkRecords
  <2>7. RowInv(r)'
    BY <2>1, <2>2 DEF ExecBegin, ExecWith, CoreOutcome, FinalCost, LockFree, Hold, Work, Free,
        NoResult, ServiceInv, RunInv, HolderInv, WorkInv, CreateInv, TaskInv, RowInv, LogSound,
        AliveTask, Reserved, Admitted, Accounted, Terminal, Ends, WorkRecords
  <2>8. LogSound(r)'
    BY <2>1, <2>2 DEF ExecBegin, ExecWith, CoreOutcome, FinalCost, LockFree, Hold, Work, Free,
        NoResult, ServiceInv, RunInv, HolderInv, WorkInv, CreateInv, TaskInv, RowInv, LogSound,
        AliveTask, Reserved, Admitted, Accounted, Terminal, Ends, WorkRecords
  <2> QED BY <2>3, <2>4, <2>5, <2>6, <2>7, <2>8 DEF RunInv
<1>3. DownInv'
  BY DEF DownInv, ExecBegin, ExecWith, CoreOutcome, FinalCost, LockFree, Hold, Work, Free,
      NoResult, ServiceInv
<1> QED BY <1>1, <1>2, <1>3, Frame DEF ServiceInv

LEMMA ForgetKeeps ==
    ASSUME TypeOK, ServiceInv, NEW r \in Runs, Forget(r)
    PROVE  ServiceInv'
<1>1. \A q \in Runs : q # r => Same(q)
  BY DEF Same, Forget, TypeOK, DurableTypeOK, ManagerTypeOK
<1>2. RunInv(r)'
  BY DEF ServiceInv, Forget, RunInv, HolderInv, WorkInv, CreateInv, TaskInv, RowInv, LogSound,
      LockFree, AliveTask, Reserved, Admitted, Accounted, Terminal, Ends, TypeOK, DurableTypeOK,
      ManagerTypeOK, WorkRecords, WorkSteps, Work, Free
<1>3. DownInv'
  BY DEF DownInv, Forget, ServiceInv
<1> QED BY <1>1, <1>2, <1>3, Frame DEF ServiceInv

LEMMA CoreEmitKeeps ==
    ASSUME TypeOK, ServiceInv, NEW r \in Runs, CoreEmit(r)
    PROVE  ServiceInv'
<1>1. \A q \in Runs : q # r => Same(q)
  BY DEF Same, CoreEmit, TypeOK, DurableTypeOK, ManagerTypeOK
<1>2. RunInv(r)'
  BY DEF ServiceInv, CoreEmit, RunInv, HolderInv, WorkInv, CreateInv, TaskInv, RowInv, LogSound,
      LockFree, AliveTask, Reserved, Admitted, Accounted, Terminal, Ends, TypeOK, DurableTypeOK,
      ManagerTypeOK, WorkRecords, WorkSteps, Work, Free
<1>3. DownInv'
  BY DEF DownInv, CoreEmit, ServiceInv
<1> QED BY <1>1, <1>2, <1>3, Frame DEF ServiceInv

LEMMA CancelRunningKeeps ==
    ASSUME TypeOK, ServiceInv, NEW r \in Runs, CancelRunning(r)
    PROVE  ServiceInv'
<1>1. \A q \in Runs : q # r => Same(q)
  BY DEF Same, CancelRunning, CancelArrives, CancelSignals, LockFree, TypeOK, DurableTypeOK,
      ManagerTypeOK
<1>2. RunInv(r)'
  BY DEF ServiceInv, CancelRunning, CancelArrives, CancelSignals, LockFree, RunInv, HolderInv,
      WorkInv, CreateInv, TaskInv, RowInv, LogSound, AliveTask, Reserved, Admitted, Accounted,
      Terminal, Ends, TypeOK, DurableTypeOK, ManagerTypeOK, WorkRecords, WorkSteps, Work, Free
<1>3. DownInv'
  BY DEF DownInv, CancelRunning, CancelArrives, CancelSignals, LockFree, ServiceInv
<1> QED BY <1>1, <1>2, <1>3, Frame DEF ServiceInv

LEMMA CancelInactiveKeeps ==
    ASSUME TypeOK, ServiceInv, NEW r \in Runs, CancelInactive(r)
    PROVE  ServiceInv'
<1>1. \A q \in Runs : q # r => Same(q)
  BY DEF Same, CancelInactive, CancelArrives, CancelSignals, Hold, Work, Free, LockFree,
      Recovered, TypeOK, DurableTypeOK, ManagerTypeOK
<1>2. RunInv(r)'
  BY DEF ServiceInv, CancelInactive, CancelArrives, CancelSignals, Hold, Work, Free, LockFree,
      Recovered, RunInv, HolderInv, WorkInv, CreateInv, TaskInv, RowInv, LogSound, AliveTask,
      Reserved, Admitted, Accounted, Terminal, Ends, TypeOK, DurableTypeOK, ManagerTypeOK,
      WorkRecords, WorkSteps
<1>3. DownInv'
  BY DEF DownInv, CancelInactive, CancelArrives, CancelSignals, Hold, Work, Free, LockFree,
      Recovered, ServiceInv
<1> QED BY <1>1, <1>2, <1>3, Frame DEF ServiceInv

LEMMA CancelRepairKeeps ==
    ASSUME TypeOK, ServiceInv, NEW r \in Runs, CancelRepair(r)
    PROVE  ServiceInv'
<1>1. \A q \in Runs : q # r => Same(q)
  BY DEF Same, CancelRepair, CancelArrives, Hold, Work, Free, LockFree, TypeOK, DurableTypeOK,
      ManagerTypeOK
<1>2. RunInv(r)'
  BY DEF ServiceInv, CancelRepair, CancelArrives, Hold, Work, Free, LockFree, RunInv, HolderInv,
      WorkInv, CreateInv, TaskInv, RowInv, LogSound, AliveTask, Reserved, Admitted, Accounted,
      Terminal, Ends, TypeOK, DurableTypeOK, ManagerTypeOK, WorkRecords, WorkSteps
<1>3. DownInv'
  BY DEF DownInv, CancelRepair, CancelArrives, Hold, Work, Free, LockFree, ServiceInv
<1> QED BY <1>1, <1>2, <1>3, Frame DEF ServiceInv

LEMMA SweepSkipKeeps ==
    ASSUME TypeOK, ServiceInv, NEW r \in Runs, SweepSkip(r)
    PROVE  ServiceInv'
<1>1. \A q \in Runs : q # r => Same(q)
  BY DEF Same, SweepSkip, LockFree, AliveTask, TypeOK, DurableTypeOK, ManagerTypeOK
<1>2. RunInv(r)'
  BY DEF ServiceInv, SweepSkip, LockFree, AliveTask, RunInv, HolderInv, WorkInv, CreateInv,
      TaskInv, RowInv, LogSound, Reserved, Admitted, Accounted, Terminal, Ends, TypeOK,
      DurableTypeOK, ManagerTypeOK, WorkRecords, WorkSteps, Work, Free
<1>3. DownInv'
  BY DEF DownInv, SweepSkip, LockFree, AliveTask, ServiceInv
<1> QED BY <1>1, <1>2, <1>3, Frame DEF ServiceInv

LEMMA SweepSignalKeeps ==
    ASSUME TypeOK, ServiceInv, NEW r \in Runs, SweepSignal(r)
    PROVE  ServiceInv'
<1>1. \A q \in Runs : q # r => Same(q)
  BY DEF Same, SweepSignal, LockFree, AliveTask, Hold, Work, Free, Recovered, TypeOK,
      DurableTypeOK, ManagerTypeOK
<1>2. RunInv(r)'
  BY DEF ServiceInv, SweepSignal, LockFree, AliveTask, Hold, Work, Free, Recovered, RunInv,
      HolderInv, WorkInv, CreateInv, TaskInv, RowInv, LogSound, Reserved, Admitted, Accounted,
      Terminal, Ends, TypeOK, DurableTypeOK, ManagerTypeOK, WorkRecords, WorkSteps
<1>3. DownInv'
  BY DEF DownInv, SweepSignal, LockFree, AliveTask, Hold, Work, Free, Recovered, ServiceInv
<1> QED BY <1>1, <1>2, <1>3, Frame DEF ServiceInv

LEMMA AdmitLostKeeps ==
    ASSUME TypeOK, ServiceInv, NEW r \in Runs, AdmitLost(r)
    PROVE  ServiceInv'
<1>1. \A q \in Runs : q # r => Same(q)
  BY DEF Same, AdmitLost, Fault, TypeOK, DurableTypeOK, ManagerTypeOK
<1>2. RunInv(r)'
  BY DEF ServiceInv, AdmitLost, Fault, RunInv, HolderInv, WorkInv, CreateInv, TaskInv, RowInv,
      LogSound, LockFree, AliveTask, Reserved, Admitted, Accounted, Terminal, Ends, TypeOK,
      DurableTypeOK, ManagerTypeOK, WorkRecords, WorkSteps, Work, Free
<1>3. DownInv'
  BY DEF DownInv, AdmitLost, Fault, ServiceInv
<1> QED BY <1>1, <1>2, <1>3, Frame DEF ServiceInv

LEMMA InsertUntaskedKeeps ==
    ASSUME TypeOK, ServiceInv, NEW r \in Runs, InsertUntasked(r)
    PROVE  ServiceInv'
<1>1. \A q \in Runs : q # r => Same(q)
  BY DEF Same, InsertUntasked, Fault, CommitInsert, Hold, Work, Recovered, TypeOK,
      DurableTypeOK, ManagerTypeOK
<1>2. RunInv(r)'
  BY DEF ServiceInv, InsertUntasked, Fault, CommitInsert, Hold, Work, Recovered, RunInv,
      HolderInv, WorkInv, CreateInv, TaskInv, RowInv, LogSound, LockFree, AliveTask, Reserved,
      Admitted, Accounted, Terminal, Ends, TypeOK, DurableTypeOK, ManagerTypeOK, WorkRecords,
      WorkSteps, Free
<1>3. DownInv'
  BY DEF DownInv, InsertUntasked, Fault, CommitInsert, Hold, Work, Recovered, ServiceInv
<1> QED BY <1>1, <1>2, <1>3, Frame DEF ServiceInv

LEMMA InsertLostKeeps ==
    ASSUME TypeOK, ServiceInv, NEW r \in Runs, InsertLost(r)
    PROVE  ServiceInv'
<1>1. \A q \in Runs : q # r => Same(q)
  BY DEF Same, InsertLost, Fault, CommitInsert, TypeOK, DurableTypeOK, ManagerTypeOK
<1>2. RunInv(r)'
  BY DEF ServiceInv, InsertLost, Fault, CommitInsert, RunInv, HolderInv, WorkInv, CreateInv,
      TaskInv, RowInv, LogSound, LockFree, AliveTask, Reserved, Admitted, Accounted, Terminal,
      Ends, TypeOK, DurableTypeOK, ManagerTypeOK, WorkRecords, WorkSteps, Work, Free
<1>3. DownInv'
  BY DEF DownInv, InsertLost, Fault, CommitInsert, ServiceInv
<1> QED BY <1>1, <1>2, <1>3, Frame DEF ServiceInv

LEMMA ReleaseAdmissionLostKeeps ==
    ASSUME TypeOK, ServiceInv, NEW r \in Runs, ReleaseAdmissionLost(r)
    PROVE  ServiceInv'
<1>1. \A q \in Runs : q # r => Same(q)
  BY DEF Same, ReleaseAdmissionLost, Fault, CommitLedger, TypeOK, DurableTypeOK, ManagerTypeOK
<1>2. RunInv(r)'
  BY DEF ServiceInv, ReleaseAdmissionLost, Fault, CommitLedger, RunInv, HolderInv, WorkInv,
      CreateInv, TaskInv, RowInv, LogSound, LockFree, AliveTask, Reserved, Admitted, Accounted,
      Terminal, Ends, TypeOK, DurableTypeOK, ManagerTypeOK, WorkRecords, WorkSteps, Work, Free
<1>3. DownInv'
  BY DEF DownInv, ReleaseAdmissionLost, Fault, CommitLedger, ServiceInv
<1> QED BY <1>1, <1>2, <1>3, Frame DEF ServiceInv

LEMMA FinalizeLostKeeps ==
    ASSUME TypeOK, ServiceInv, NEW r \in Runs, FinalizeLost(r)
    PROVE  ServiceInv'
<1>1. \A q \in Runs : q # r => Same(q)
  BY DEF Same, FinalizeLost, Fault, At, CommitFinalize, Fail, FailWith, Hold, Free, Work,
      TypeOK, DurableTypeOK, ManagerTypeOK
<1>2. RunInv(r)'
  <2> USE DEF TypeOK, DurableTypeOK, ManagerTypeOK
  <2>1. held'[r] = Free
    BY HoldEffect, FreeType DEF FinalizeLost, Fail, FailWith
  <2>2. held[r].cost \in Bills /\ held[r].by \in Holders
    BY DEF WorkRecords
  <2>3. HolderInv(r)'
    BY <2>1, <2>2 DEF FinalizeLost, Fault, At, CommitFinalize, Fail, FailWith, Hold, Free, Work,
        ServiceInv, RunInv, HolderInv, WorkInv, CreateInv, TaskInv, RowInv, LogSound, LockFree,
        AliveTask, Reserved, Admitted, Accounted, Terminal, Ends, WorkRecords
  <2>4. WorkInv(r)'
    BY <2>1, <2>2 DEF FinalizeLost, Fault, At, CommitFinalize, Fail, FailWith, Hold, Free, Work,
        ServiceInv, RunInv, HolderInv, WorkInv, CreateInv, TaskInv, RowInv, LogSound, LockFree,
        AliveTask, Reserved, Admitted, Accounted, Terminal, Ends, WorkRecords
  <2>5. CreateInv(r)'
    BY <2>1, <2>2 DEF FinalizeLost, Fault, At, CommitFinalize, Fail, FailWith, Hold, Free, Work,
        ServiceInv, RunInv, HolderInv, WorkInv, CreateInv, TaskInv, RowInv, LogSound, LockFree,
        AliveTask, Reserved, Admitted, Accounted, Terminal, Ends, WorkRecords
  <2>6. TaskInv(r)'
    <3>1. CASE CommitFinalize(r)
      <4>1. status'[r] \in Terminal
        BY <3>1, FinalizeType DEF CommitFinalize
      <4>2. task[r] # "core" /\ task'[r] \in {task[r], "recover", "done"} /\ task'[r] # "exec"
        BY DEF ServiceInv, RunInv, HolderInv, FinalizeLost, At, Fail, FailWith, Free, Work,
            Holders, TaskSteps
      <4> QED BY <4>1, <4>2 DEF ServiceInv, RunInv, TaskInv, FinalizeLost, AliveTask, Terminal
    <3>2. CASE UNCHANGED durable
      BY <2>1, <2>2, <3>2 DEF ServiceInv, RunInv, HolderInv, WorkInv, TaskInv, RowInv, LogSound,
          FinalizeLost, At,
         Fail, FailWith, AliveTask, LockFree, Terminal, Free, Work, Admitted, Ends
    <3> QED BY <3>1, <3>2 DEF FinalizeLost
  <2>7. RowInv(r)'
    BY <2>1, <2>2 DEF FinalizeLost, Fault, At, CommitFinalize, Fail, FailWith, Hold, Free, Work,
        ServiceInv, RunInv, HolderInv, WorkInv, CreateInv, TaskInv, RowInv, LogSound, LockFree,
        AliveTask, Reserved, Admitted, Accounted, Terminal, Ends, WorkRecords
  <2>8. LogSound(r)'
    <3>1. CASE CommitFinalize(r)
      BY <3>1, FinalizeLog DEF ServiceInv, RunInv
    <3>2. CASE UNCHANGED durable
      BY <3>2 DEF ServiceInv, RunInv, LogSound
    <3> QED BY <3>1, <3>2 DEF FinalizeLost
  <2> QED BY <2>3, <2>4, <2>5, <2>6, <2>7, <2>8 DEF RunInv
<1>3. DownInv'
  BY DEF DownInv, FinalizeLost, Fault, At, CommitFinalize, Fail, FailWith, Hold, Free, Work,
      ServiceInv
<1> QED BY <1>1, <1>2, <1>3, Frame DEF ServiceInv

LEMMA AccountLostKeeps ==
    ASSUME TypeOK, ServiceInv, NEW r \in Runs, AccountLost(r)
    PROVE  ServiceInv'
<1>1. \A q \in Runs : q # r => Same(q)
  BY DEF Same, AccountLost, Fault, At, CommitLedger, Fail, FailWith, Hold, Free, Work, TypeOK,
      DurableTypeOK, ManagerTypeOK
<1>2. RunInv(r)'
  BY SMTT(40) DEF ServiceInv, AccountLost, Fault, At, CommitLedger, Fail, FailWith, Hold, Free, Work,
      RunInv, HolderInv, WorkInv, CreateInv, TaskInv, RowInv, LogSound, LockFree, AliveTask,
      Reserved, Admitted, Accounted, Terminal, Ends, TypeOK, DurableTypeOK, ManagerTypeOK,
      WorkRecords, WorkSteps
<1>3. DownInv'
  BY DEF DownInv, AccountLost, Fault, At, CommitLedger, Fail, FailWith, Hold, Free, Work,
      ServiceInv
<1> QED BY <1>1, <1>2, <1>3, Frame DEF ServiceInv

LEMMA ClearAdmissionLostKeeps ==
    ASSUME TypeOK, ServiceInv, NEW r \in Runs, ClearAdmissionLost(r)
    PROVE  ServiceInv'
<1>1. \A q \in Runs : q # r => Same(q)
  BY DEF Same, ClearAdmissionLost, Fault, At, CommitClear, Fail, FailWith, Hold, Free, Work,
      TypeOK, DurableTypeOK, ManagerTypeOK
<1>2. RunInv(r)'
  BY SMTT(40) DEF ServiceInv, ClearAdmissionLost, Fault, At, CommitClear, Fail, FailWith, Hold, Free,
      Work, RunInv, HolderInv, WorkInv, CreateInv, TaskInv, RowInv, LogSound, LockFree,
      AliveTask, Reserved, Admitted, Accounted, Terminal, Ends, TypeOK, DurableTypeOK,
      ManagerTypeOK, WorkRecords, WorkSteps
<1>3. DownInv'
  BY DEF DownInv, ClearAdmissionLost, Fault, At, CommitClear, Fail, FailWith, Hold, Free, Work,
      ServiceInv
<1> QED BY <1>1, <1>2, <1>3, Frame DEF ServiceInv

LEMMA AnnounceLostKeeps ==
    ASSUME TypeOK, ServiceInv, NEW r \in Runs, AnnounceLost(r)
    PROVE  ServiceInv'
<1>1. \A q \in Runs : q # r => Same(q)
  BY DEF Same, AnnounceLost, Fault, At, Fail, FailWith, Hold, Free, Work, TypeOK, DurableTypeOK,
      ManagerTypeOK
<1>2. RunInv(r)'
  BY DEF ServiceInv, AnnounceLost, Fault, At, Fail, FailWith, Hold, Free, Work, RunInv,
      HolderInv, WorkInv, CreateInv, TaskInv, RowInv, LogSound, LockFree, AliveTask, Reserved,
      Admitted, Accounted, Terminal, Ends, TypeOK, DurableTypeOK, ManagerTypeOK, WorkRecords,
      WorkSteps
<1>3. DownInv'
  BY DEF DownInv, AnnounceLost, Fault, At, Fail, FailWith, Hold, Free, Work, ServiceInv
<1> QED BY <1>1, <1>2, <1>3, Frame DEF ServiceInv

LEMMA StartReadLostKeeps ==
    ASSUME TypeOK, ServiceInv, NEW r \in Runs, StartReadLost(r)
    PROVE  ServiceInv'
<1>1. \A q \in Runs : q # r => Same(q)
  BY DEF Same, StartReadLost, Fault, LockFree, TypeOK, DurableTypeOK, ManagerTypeOK
<1>2. RunInv(r)'
  BY DEF ServiceInv, StartReadLost, Fault, LockFree, RunInv, HolderInv, WorkInv, CreateInv,
      TaskInv, RowInv, LogSound, AliveTask, Reserved, Admitted, Accounted, Terminal, Ends,
      TypeOK, DurableTypeOK, ManagerTypeOK, WorkRecords, WorkSteps, Work, Free
<1>3. DownInv'
  BY DEF DownInv, StartReadLost, Fault, LockFree, ServiceInv
<1> QED BY <1>1, <1>2, <1>3, Frame DEF ServiceInv

LEMMA TransitionLostKeeps ==
    ASSUME TypeOK, ServiceInv, NEW r \in Runs, TransitionLost(r)
    PROVE  ServiceInv'
<1>1. \A q \in Runs : q # r => Same(q)
  BY DEF Same, TransitionLost, Fault, At, CommitTransition, Fail, FailWith, Hold, Free, Work,
      TypeOK, DurableTypeOK, ManagerTypeOK
<1>2. RunInv(r)'
  BY DEF ServiceInv, TransitionLost, Fault, At, CommitTransition, Fail, FailWith, Hold, Free,
      Work, RunInv, HolderInv, WorkInv, CreateInv, TaskInv, RowInv, LogSound, LockFree,
      AliveTask, Reserved, Admitted, Accounted, Terminal, Ends, TypeOK, DurableTypeOK,
      ManagerTypeOK, WorkRecords, WorkSteps
<1>3. DownInv'
  BY DEF DownInv, TransitionLost, Fault, At, CommitTransition, Fail, FailWith, Hold, Free, Work,
      ServiceInv
<1> QED BY <1>1, <1>2, <1>3, Frame DEF ServiceInv

LEMMA CoreRaisesLostKeeps ==
    ASSUME TypeOK, ServiceInv, NEW r \in Runs, CoreRaisesLost(r)
    PROVE  ServiceInv'
<1>1. \A q \in Runs : q # r => Same(q)
  BY DEF Same, CoreRaisesLost, Fault, TypeOK, DurableTypeOK, ManagerTypeOK
<1>2. RunInv(r)'
  BY DEF ServiceInv, CoreRaisesLost, Fault, RunInv, HolderInv, WorkInv, CreateInv, TaskInv,
      RowInv, LogSound, LockFree, AliveTask, Reserved, Admitted, Accounted, Terminal, Ends,
      TypeOK, DurableTypeOK, ManagerTypeOK, WorkRecords, WorkSteps, Work, Free
<1>3. DownInv'
  BY DEF DownInv, CoreRaisesLost, Fault, ServiceInv
<1> QED BY <1>1, <1>2, <1>3, Frame DEF ServiceInv

\* The actions of shutdown that touch no run.
LEMMA ShutdownKeeps ==
    ASSUME ServiceInv,
           \/ ShutdownBegin \/ ShutdownSnapshot \/ GraceOver \/ SweepDone \/ GatherDone
           \/ SweepLost \/ UNCHANGED svars
    PROVE  ServiceInv'
<1>1. UNCHANGED <<up, creating, task, held>> /\ \A q \in Runs : Same(q)
  BY DEF Same, ShutdownBegin, ShutdownSnapshot, GraceOver, SweepDone, GatherDone, SweepLost, svars
<1>2. DownInv'
  BY <1>1 DEF ServiceInv, DownInv, LockFree
<1> QED BY <1>1, <1>2, Frame DEF ServiceInv

\* The durable rows survive the process; what says more than them is gone.
LEMMA CrashKeeps ==
    ASSUME TypeOK, ServiceInv, Crash
    PROVE  ServiceInv'
<1>1. ASSUME NEW r \in Runs PROVE RunInv(r)'
  <2>1. /\ task'[r] = "none" /\ creating'[r] = "idle" /\ held'[r] = Free
        /\ announced'[r] = "absent" /\ leases' = {}
    BY DEF Crash
  <2>2. HolderInv(r)' /\ WorkInv(r)' /\ CreateInv(r)' /\ TaskInv(r)'
    BY <2>1 DEF HolderInv, WorkInv, CreateInv, TaskInv, LockFree, AliveTask, Free, Work
  <2>3. RowInv(r)'
    BY <2>1 DEF ServiceInv, RunInv, RowInv, Crash, LockFree, Reserved, Accounted
  <2>4. LogSound(r)'
    BY DEF ServiceInv, RunInv, LogSound, Crash
  <2> QED BY <2>2, <2>3, <2>4 DEF RunInv
<1>2. DownInv'
  BY DEF Crash, DownInv, LockFree
<1> QED BY <1>1, <1>2 DEF ServiceInv

\* What the reconciliation of a dead process's rows leaves of one run.
LEMMA ReconcileKeeps ==
    ASSUME TypeOK, ServiceInv, NEW r \in Runs, ~up, Reconcile,
           UNCHANGED <<task, creating, held, leases, announced, userCancel, started, acked, result>>
    PROVE  RunInv(r)'
<1> USE DEF TypeOK, DurableTypeOK
<1>1. /\ task[r] = "none" /\ creating[r] = "idle" /\ held[r] = Free
      /\ RowInv(r) /\ LogSound(r)
  BY DEF ServiceInv, RunInv, DownInv, LockFree
<1>2. HolderInv(r)' /\ WorkInv(r)' /\ CreateInv(r)' /\ TaskInv(r)'
  BY <1>1 DEF HolderInv, WorkInv, CreateInv, TaskInv, LockFree, AliveTask, Free, Work
<1>3. CASE status[r] \in {"queued", "running"}
  <2>1. /\ status'[r] = "interrupted" /\ log'[r] = Append(log[r], "interrupted")
        /\ bill'[r] \in {"known", "unknown"} /\ link' = link
        /\ ledger'[r] = IF ledger[r] = "reserved" /\ bill'[r] = "known" THEN "settled"
                                                                       ELSE ledger[r]
    BY <1>3 DEF Reconcile, ReconcileWith, Recovered, Bills
  <2>2. bill[r] = "open" /\ bill'[r] = IF status[r] = "queued" THEN "known" ELSE "unknown"
    BY <1>1, <1>3 DEF RowInv, LogSound, Terminal, Reconcile, ReconcileWith, Recovered
  <2>3. RowInv(r)'
    BY <1>1, <1>3, <2>1, <2>2 DEF RowInv, LockFree, Reserved, Accounted, Terminal
  <2>4. LogSound(r)'
    <3> DEFINE n == Len(log[r])
    <3>1. log[r] \in Seq(EventKinds) /\ n \in Nat
      OBVIOUS
    <3>2. /\ Len(log'[r]) = n + 1 /\ log'[r][n + 1] = "interrupted"
          /\ \A i \in 1..n : log'[r][i] = log[r][i]
      BY <2>1, <3>1 DEF EventKinds, Terminal
    <3>3. \A i \in 1..n : log[r][i] \notin Terminal
      BY <1>1, <1>3, <3>1 DEF LogSound, Terminal
    <3> HIDE DEF n
    <3> QED BY <2>1, <3>1, <3>2, <3>3 DEF LogSound, Terminal
  <2> QED BY <1>2, <2>3, <2>4 DEF RunInv
<1>4. CASE status[r] \notin {"queued", "running"}
  <2>1. /\ status'[r] = status[r] /\ log'[r] = log[r] /\ bill'[r] = bill[r] /\ link' = link
        /\ ledger'[r] = CASE ledger[r] # "reserved" -> ledger[r]
                          [] ledger[r] = "reserved" /\ status[r] = "absent" -> "released"
                          [] ledger[r] = "reserved" /\ bill[r] = "known" -> "settled"
                          [] OTHER -> "reserved"
    BY <1>4 DEF Reconcile, ReconcileWith
  <2>2. RowInv(r)'
    BY <1>1, <1>4, <2>1 DEF RowInv, LockFree, Reserved, Accounted, Terminal
  <2>3. LogSound(r)'
    BY <1>1, <2>1 DEF LogSound
  <2> QED BY <1>2, <2>2, <2>3 DEF RunInv
<1> QED BY <1>3, <1>4

LEMMA StartupKeeps ==
    ASSUME TypeOK, ServiceInv, Startup \/ StartupLost
    PROVE  ServiceInv'
<1>1. \A r \in Runs : RunInv(r)'
  BY ReconcileKeeps DEF Startup, StartupLost
<1>2. DownInv'
  BY DEF Startup, StartupLost, ServiceInv, DownInv, LockFree
<1> QED BY <1>1, <1>2 DEF ServiceInv

LEMMA ServiceInvStep ==
    ASSUME TypeOK, ServiceInv, [ServiceNext]_svars
    PROVE  ServiceInv'
<1>1. ASSUME NEW r \in Runs, CreateStep(r) PROVE ServiceInv'
  BY <1>1, AdmitKeeps, InsertKeeps, ReleaseAdmissionKeeps DEF CreateStep
<1>2. ASSUME NEW r \in Runs, TailStep(r) PROVE ServiceInv'
  BY <1>2, FinalizeKeeps, AccountKeeps, ClearAdmissionKeeps, AnnounceKeeps DEF TailStep
<1>3. ASSUME NEW r \in Runs, TaskStep(r) \/ CoreEmit(r) PROVE ServiceInv'
  BY <1>3, StartBeginKeeps, TransitionKeeps, RecoverBeginKeeps, CoreReturnKeeps, ExecBeginKeeps,
     ForgetKeeps, CoreEmitKeeps DEF TaskStep
<1>4. ASSUME NEW r \in Runs, CancelStep(r) PROVE ServiceInv'
  BY <1>4, CancelRunningKeeps, CancelInactiveKeeps, CancelRepairKeeps DEF CancelStep
<1>5. CASE ShutdownStep
  BY <1>5, ShutdownKeeps, SweepSkipKeeps, SweepSignalKeeps DEF ShutdownStep
<1>6. CASE FaultStep
  BY <1>6, ShutdownKeeps, StartupKeeps, AdmitLostKeeps, InsertUntaskedKeeps, InsertLostKeeps,
     ReleaseAdmissionLostKeeps, FinalizeLostKeeps, AccountLostKeeps, ClearAdmissionLostKeeps,
     AnnounceLostKeeps, StartReadLostKeeps, TransitionLostKeeps, CoreRaisesLostKeeps
  DEF FaultStep
<1>7. CASE Crash \/ Startup \/ UNCHANGED svars
  BY <1>7, CrashKeeps, StartupKeeps, ShutdownKeeps
<1> QED BY <1>1, <1>2, <1>3, <1>4, <1>5, <1>6, <1>7 DEF ServiceNext

-----------------------------------------------------------------------------
(* The inductive invariant, and what follows from it. *)

IInv == TypeOK /\ IsFiniteSet(leases) /\ GateCountsLeases /\ ServiceInv

LEMMA IInvInit == ServiceInit => IInv
<1> SUFFICES ASSUME ServiceInit PROVE IInv
  OBVIOUS
<1> USE DEF ServiceInit, Init
<1>1. TypeOK
  BY FreeType DEF TypeOK, DurableTypeOK, ManagerTypeOK, Statuses, Bills, LedgerStates,
      CreateSteps,
     TaskSteps, TokenStates, ShutSteps, NoResult
<1>2. IsFiniteSet(leases) /\ GateCountsLeases
  BY FS_EmptySet DEF GateCountsLeases
<1>3. ASSUME NEW r \in Runs PROVE RunInv(r)
  BY DEF RunInv, HolderInv, WorkInv, CreateInv, TaskInv, RowInv, LogSound, LockFree, AliveTask,
     Accounted, Reserved, Free, Work, Terminal
<1>4. DownInv
  BY DEF DownInv
<1> QED BY <1>1, <1>2, <1>3, <1>4 DEF IInv, ServiceInv

LEMMA IInvStep == IInv /\ [ServiceNext]_svars => IInv'
<1> SUFFICES ASSUME IInv, [ServiceNext]_svars PROVE IInv'
  OBVIOUS
<1>1. \A r \in leases : ledger[r] # "none"
  BY DEF IInv, TypeOK, ServiceInv, RunInv, RowInv
<1> QED BY <1>1, TypeStep, SlotStep, ServiceInvStep DEF IInv

LEMMA Invariance == ServiceSpec => []IInv
BY IInvInit, IInvStep, PTL DEF ServiceSpec

\* Every variable of the service keeps its type.  (manager.py, limits.py)
THEOREM TypeCorrect == ServiceSpec => []TypeOK
<1>1. IInv => TypeOK
  BY DEF IInv
<1> QED BY <1>1, Invariance, PTL

\* The gate of LimitManager counts exactly the leases held, however often a run
\* is settled, released or recovered (_release_local).
THEOREM SlotsExact == ServiceSpec => []GateCountsLeases
<1>1. IInv => GateCountsLeases
  BY DEF IInv
<1> QED BY <1>1, Invariance, PTL

\* The durable log of every run tells the story of its row, whatever finalizes
\* it and however often (finalize_run, reconcile_startup).
THEOREM LogsSound == ServiceSpec => []EventLogSound
<1>1. IInv => EventLogSound
  BY DEF IInv, ServiceInv, RunInv, EventLogSound
<1> QED BY <1>1, Invariance, PTL

\* Core only works for a run that is running and admitted (_start).
THEOREM CoreAdmitted == ServiceSpec => []CoreIsAdmitted
<1>1. IInv => CoreIsAdmitted
  BY ZenonT(60) DEF IInv, ServiceInv, RunInv, HolderInv, TaskInv, RowInv, CoreIsAdmitted, AliveTask,
      Admitted,
     LockFree, Free, Work, Terminal, TypeOK, DurableTypeOK, Bills
<1> QED BY <1>1, Invariance, PTL

\* A lifecycle is never announced while it is partially settled
\* (_complete_accounting).
THEOREM Accounts == ServiceSpec => []AnnouncedIsAccounted
<1>1. IInv => AnnouncedIsAccounted
  BY DEF IInv, ServiceInv, RunInv, RowInv, AnnouncedIsAccounted, Accounted
<1> QED BY <1>1, Invariance, PTL

\* The reservation of an unknown bill survives everything, and only a known
\* bill is settled (settle, defer, reconcile_startup).
THEOREM UnknownBills == ServiceSpec => []UnknownBillStands
<1>1. IInv => UnknownBillStands
  BY DEF IInv, ServiceInv, RunInv, RowInv, UnknownBillStands, Reserved, Terminal
<1> QED BY <1>1, Invariance, PTL

\* An acknowledged cancellation is honoured (cancel, _execute).
THEOREM Cancellations == ServiceSpec => []AckedCancelHonoured
<1>1. IInv => AckedCancelHonoured
  BY DEF IInv, TypeOK, ServiceInv, RunInv, RowInv, AckedCancelHonoured
<1> QED BY <1>1, Invariance, PTL

\* Nothing but the transition to running invokes Core.
LEMMA OnlyTransition ==
    ASSUME [ServiceNext]_svars, NEW r \in Runs, task[r] # "core", task'[r] = "core",
           task \in [Runs -> TaskSteps]
    PROVE  \E q \in Runs : Transition(q)
<1>1. ASSUME NEW q \in Runs, CreateStep(q) \/ TailStep(q) \/ CoreEmit(q) \/ CancelStep(q) PROVE FALSE
  BY <1>1 DEF CreateStep, Admit, Insert, ReleaseAdmission, TailStep, Finalize, Account,
      ClearAdmission,
     Announce, Leave, CoreEmit, CancelStep, CancelRunning, CancelInactive, CancelRepair
<1>2. ASSUME NEW q \in Runs, TaskStep(q) PROVE Transition(q)
  BY <1>2 DEF TaskStep, StartBegin, RecoverBegin, CoreReturn, ExecBegin, ExecWith, Forget
<1>3. ASSUME ShutdownStep \/ Crash \/ Startup \/ UNCHANGED svars PROVE FALSE
  BY <1>3 DEF ShutdownStep, ShutdownBegin, ShutdownSnapshot, GraceOver, SweepDone, GatherDone,
      SweepSkip,
     SweepSignal, Crash, Startup, svars
<1>4. ASSUME FaultStep PROVE FALSE
  BY ZenonT(60), <1>4 DEF FaultStep, SweepLost, StartupLost, AdmitLost, InsertUntasked, InsertLost,
     ReleaseAdmissionLost, FinalizeLost, AccountLost, ClearAdmissionLost, AnnounceLost,
     StartReadLost, TransitionLost, CoreRaisesLost, Fail, FailWith
<1> QED BY <1>1, <1>2, <1>3, <1>4 DEF ServiceNext

\* Core is invoked at most once for a run (_start, _recover_start).
THEOREM CoreOnce == ServiceSpec => CoreRunsOnce
<1>1. ASSUME IInv, [ServiceNext]_svars, NEW r \in Runs, task[r] # "core", task'[r] = "core"
      PROVE  r \notin started
  <2>1. PICK q \in Runs : Transition(q)
    BY <1>1, OnlyTransition DEF IInv, TypeOK, ManagerTypeOK
  <2>2. q = r
    BY <1>1, <2>1 DEF IInv, TypeOK, ManagerTypeOK, Transition
  <2>3. held[r].step = "transition" /\ RunInv(r)
    BY <1>1, <2>1, <2>2 DEF IInv, ServiceInv, Transition, At
  <2> QED BY <2>3 DEF RunInv, WorkInv, RowInv
<1>2. IInv /\ [ServiceNext]_svars
        => [\A r \in Runs : task[r] # "core" /\ task'[r] = "core" => r \notin started]_svars
  BY <1>1
<1> QED BY <1>2, Invariance, PTL DEF ServiceSpec, CoreRunsOnce

-----------------------------------------------------------------------------
(* Nothing is left over while no store call has failed: one lemma per action, *)
(* for the run acted on; the others are framed.                               *)

\* Nothing QuietRun says of run q has changed.
Untouched(q) ==
    /\ status'[q] = status[q] /\ bill'[q] = bill[q] /\ ledger'[q] = ledger[q]
    /\ creating'[q] = creating[q] /\ task'[q] = task[q] /\ held'[q] = held[q]
    /\ q \in leases' => q \in leases

LEMMA QuietFrame ==
    ASSUME NEW q \in Runs, QuietRun(q), UNCHANGED up, Untouched(q)
    PROVE  QuietRun(q)'
BY DEF QuietRun, Untouched, AliveTask

LEMMA AdmitQuiet ==
    ASSUME TypeOK, ServiceInv, NEW r \in Runs, Admit(r), \A q \in Runs : QuietRun(q)
    PROVE  \A q \in Runs : QuietRun(q)'
<1> USE DEF TypeOK, DurableTypeOK, ManagerTypeOK
<1>1. UNCHANGED up /\ \A q \in Runs : q # r => Untouched(q)
  BY DEF Untouched, Admit, CreationLockFree, TypeOK, DurableTypeOK, ManagerTypeOK
<1>2. QuietRun(r) /\ RunInv(r)
  BY DEF ServiceInv
<1>3. QuietRun(r)'
  BY <1>1, <1>2 DEF Admit, CreationLockFree, QuietRun, RunInv, HolderInv, WorkInv, CreateInv,
      TaskInv, RowInv, LockFree, AliveTask, Accounted, Terminal, Ends, Work, Free, WorkRecords
<1> QED BY <1>1, <1>3, QuietFrame

LEMMA InsertQuiet ==
    ASSUME TypeOK, ServiceInv, NEW r \in Runs, Insert(r), \A q \in Runs : QuietRun(q)
    PROVE  \A q \in Runs : QuietRun(q)'
<1> USE DEF TypeOK, DurableTypeOK, ManagerTypeOK
<1>1. UNCHANGED up /\ \A q \in Runs : q # r => Untouched(q)
  BY DEF Untouched, Insert, CommitInsert, TypeOK, DurableTypeOK, ManagerTypeOK
<1>2. QuietRun(r) /\ RunInv(r)
  BY DEF ServiceInv
<1>3. QuietRun(r)'
  BY <1>1, <1>2 DEF Insert, CommitInsert, QuietRun, RunInv, HolderInv, WorkInv, CreateInv,
      TaskInv, RowInv, LockFree, AliveTask, Accounted, Terminal, Ends, Work, Free, WorkRecords
<1> QED BY <1>1, <1>3, QuietFrame

LEMMA ReleaseAdmissionQuiet ==
    ASSUME TypeOK, ServiceInv, NEW r \in Runs, ReleaseAdmission(r), \A q \in Runs : QuietRun(q)
    PROVE  \A q \in Runs : QuietRun(q)'
<1> USE DEF TypeOK, DurableTypeOK, ManagerTypeOK
<1>1. UNCHANGED up /\ \A q \in Runs : q # r => Untouched(q)
  BY DEF Untouched, ReleaseAdmission, CommitLedger, ReleaseLocal, TypeOK, DurableTypeOK,
      ManagerTypeOK
<1>2. QuietRun(r) /\ RunInv(r)
  BY DEF ServiceInv
<1>3. QuietRun(r)'
  BY <1>1, <1>2 DEF ReleaseAdmission, QuietRun, RunInv, HolderInv, WorkInv, CreateInv, TaskInv,
      RowInv, LockFree, AliveTask, Accounted, Terminal, Ends, Work, Free, WorkRecords
<1> QED BY <1>1, <1>3, QuietFrame

LEMMA FinalizeQuiet ==
    ASSUME TypeOK, ServiceInv, NEW r \in Runs, Finalize(r), \A q \in Runs : QuietRun(q)
    PROVE  \A q \in Runs : QuietRun(q)'
<1> USE DEF TypeOK, DurableTypeOK, ManagerTypeOK
<1>1. UNCHANGED up /\ \A q \in Runs : q # r => Untouched(q)
  BY DEF Untouched, Finalize, At, CommitFinalize, GoTo, TypeOK, DurableTypeOK, ManagerTypeOK
<1>2. QuietRun(r) /\ RunInv(r)
  BY DEF ServiceInv
<1>3. QuietRun(r)'
  <2>1. held'[r].step = "account" /\ status'[r] \in Terminal
    BY FinalizeType, GoToEffect DEF Finalize, At, WorkSteps, CommitFinalize
  <2>2. UNCHANGED <<creating, leases, task, ledger>>
    BY DEF Finalize, CommitFinalize
  <2>3. creating[r] = "idle"
    BY <1>2 DEF Finalize, At, QuietRun, RunInv, HolderInv, CreateInv, LockFree, Free, Work
  <2>4. status[r] # "absent"
    BY <1>2 DEF Finalize, At, CommitFinalize, Ends, RunInv, RowInv, LockFree, Free, Work
  <2> QED BY <1>1, <1>2, <2>1, <2>2, <2>3, <2>4 DEF QuietRun, Terminal
<1> QED BY <1>1, <1>3, QuietFrame

LEMMA AccountQuiet ==
    ASSUME TypeOK, ServiceInv, NEW r \in Runs, Account(r), \A q \in Runs : QuietRun(q)
    PROVE  \A q \in Runs : QuietRun(q)'
<1> USE DEF TypeOK, DurableTypeOK, ManagerTypeOK
<1>1. UNCHANGED up /\ \A q \in Runs : q # r => Untouched(q)
  BY DEF Untouched, Account, At, GoTo, CommitLedger, ReleaseLocal, TypeOK, DurableTypeOK,
      ManagerTypeOK
<1>2. QuietRun(r) /\ RunInv(r)
  BY DEF ServiceInv
<1>3. QuietRun(r)'
  BY <1>1, <1>2 DEF Account, At, GoTo, CommitLedger, ReleaseLocal, QuietRun, RunInv, HolderInv,
      WorkInv, CreateInv, TaskInv, RowInv, LockFree, AliveTask, Accounted, Terminal, Ends, Work,
      Free, WorkRecords
<1> QED BY <1>1, <1>3, QuietFrame

LEMMA ClearAdmissionQuiet ==
    ASSUME TypeOK, ServiceInv, NEW r \in Runs, ClearAdmission(r), \A q \in Runs : QuietRun(q)
    PROVE  \A q \in Runs : QuietRun(q)'
<1> USE DEF TypeOK, DurableTypeOK, ManagerTypeOK
<1>1. UNCHANGED up /\ \A q \in Runs : q # r => Untouched(q)
  BY DEF Untouched, ClearAdmission, At, GoTo, CommitClear, TypeOK, DurableTypeOK, ManagerTypeOK
<1>2. QuietRun(r) /\ RunInv(r)
  BY DEF ServiceInv
<1>3. QuietRun(r)'
  BY <1>1, <1>2 DEF ClearAdmission, At, GoTo, CommitClear, QuietRun, RunInv, HolderInv, WorkInv,
      CreateInv, TaskInv, RowInv, LockFree, AliveTask, Accounted, Terminal, Ends, Work, Free,
      WorkRecords
<1> QED BY <1>1, <1>3, QuietFrame

LEMMA AnnounceQuiet ==
    ASSUME TypeOK, ServiceInv, NEW r \in Runs, Announce(r), \A q \in Runs : QuietRun(q)
    PROVE  \A q \in Runs : QuietRun(q)'
<1> USE DEF TypeOK, DurableTypeOK, ManagerTypeOK
<1>1. UNCHANGED up /\ \A q \in Runs : q # r => Untouched(q)
  BY DEF Untouched, Announce, At, Leave, Hold, TypeOK, DurableTypeOK, ManagerTypeOK
<1>2. QuietRun(r) /\ RunInv(r)
  BY DEF ServiceInv
<1>3. QuietRun(r)'
  BY <1>1, <1>2 DEF Announce, At, Leave, Hold, QuietRun, RunInv, HolderInv, WorkInv, CreateInv,
      TaskInv, RowInv, LockFree, AliveTask, Accounted, Terminal, Ends, Work, Free, WorkRecords
<1> QED BY <1>1, <1>3, QuietFrame

LEMMA StartBeginQuiet ==
    ASSUME TypeOK, ServiceInv, NEW r \in Runs, StartBegin(r), \A q \in Runs : QuietRun(q)
    PROVE  \A q \in Runs : QuietRun(q)'
<1> USE DEF TypeOK, DurableTypeOK, ManagerTypeOK
<1>1. UNCHANGED up /\ \A q \in Runs : q # r => Untouched(q)
  BY DEF Untouched, StartBegin, Hold, TypeOK, DurableTypeOK, ManagerTypeOK
<1>2. QuietRun(r) /\ RunInv(r)
  BY DEF ServiceInv
<1>3. QuietRun(r)'
  BY <1>1, <1>2 DEF StartBegin, Hold, QuietRun, RunInv, HolderInv, WorkInv, CreateInv, TaskInv,
      RowInv, LockFree, AliveTask, Accounted, Terminal, Ends, Work, Free, WorkRecords
<1> QED BY <1>1, <1>3, QuietFrame

LEMMA TransitionQuiet ==
    ASSUME TypeOK, ServiceInv, NEW r \in Runs, Transition(r), \A q \in Runs : QuietRun(q)
    PROVE  \A q \in Runs : QuietRun(q)'
<1> USE DEF TypeOK, DurableTypeOK, ManagerTypeOK
<1>1. UNCHANGED up /\ \A q \in Runs : q # r => Untouched(q)
  BY DEF Untouched, Transition, At, CommitTransition, Hold, TypeOK, DurableTypeOK, ManagerTypeOK
<1>2. QuietRun(r) /\ RunInv(r)
  BY DEF ServiceInv
<1>3. QuietRun(r)'
  BY <1>1, <1>2 DEF Transition, At, CommitTransition, Hold, QuietRun, RunInv, HolderInv,
      WorkInv, CreateInv, TaskInv, RowInv, LockFree, AliveTask, Accounted, Terminal, Ends, Work,
      Free, WorkRecords
<1> QED BY <1>1, <1>3, QuietFrame

LEMMA RecoverBeginQuiet ==
    ASSUME TypeOK, ServiceInv, NEW r \in Runs, RecoverBegin(r), \A q \in Runs : QuietRun(q)
    PROVE  \A q \in Runs : QuietRun(q)'
<1> USE DEF TypeOK, DurableTypeOK, ManagerTypeOK
<1>1. UNCHANGED up /\ \A q \in Runs : q # r => Untouched(q)
  BY DEF Untouched, RecoverBegin, Hold, TypeOK, DurableTypeOK, ManagerTypeOK
<1>2. QuietRun(r) /\ RunInv(r)
  BY DEF ServiceInv
<1>3. QuietRun(r)'
  BY <1>1, <1>2 DEF RecoverBegin, Hold, QuietRun, RunInv, HolderInv, WorkInv, CreateInv,
      TaskInv, RowInv, LockFree, AliveTask, Accounted, Terminal, Ends, Work, Free, WorkRecords
<1> QED BY <1>1, <1>3, QuietFrame

LEMMA CoreReturnQuiet ==
    ASSUME TypeOK, ServiceInv, NEW r \in Runs, CoreReturn(r), \A q \in Runs : QuietRun(q)
    PROVE  \A q \in Runs : QuietRun(q)'
<1> USE DEF TypeOK, DurableTypeOK, ManagerTypeOK
<1>1. UNCHANGED up /\ \A q \in Runs : q # r => Untouched(q)
  BY DEF Untouched, CoreReturn, TypeOK, DurableTypeOK, ManagerTypeOK
<1>2. QuietRun(r) /\ RunInv(r)
  BY DEF ServiceInv
<1>3. QuietRun(r)'
  BY <1>1, <1>2 DEF CoreReturn, QuietRun, RunInv, HolderInv, WorkInv, CreateInv, TaskInv,
      RowInv, LockFree, AliveTask, Accounted, Terminal, Ends, Work, Free, WorkRecords
<1> QED BY <1>1, <1>3, QuietFrame

LEMMA ExecBeginQuiet ==
    ASSUME TypeOK, ServiceInv, NEW r \in Runs, ExecBegin(r), \A q \in Runs : QuietRun(q)
    PROVE  \A q \in Runs : QuietRun(q)'
<1> USE DEF TypeOK, DurableTypeOK, ManagerTypeOK
<1>1. UNCHANGED up /\ \A q \in Runs : q # r => Untouched(q)
  BY DEF Untouched, ExecBegin, ExecWith, Hold, TypeOK, DurableTypeOK, ManagerTypeOK
<1>2. QuietRun(r) /\ RunInv(r)
  BY DEF ServiceInv
<1>3. QuietRun(r)'
  BY <1>1, <1>2 DEF ExecBegin, ExecWith, Hold, QuietRun, RunInv, HolderInv, WorkInv, CreateInv,
      TaskInv, RowInv, LockFree, AliveTask, Accounted, Terminal, Ends, Work, Free, WorkRecords
<1> QED BY <1>1, <1>3, QuietFrame

LEMMA ForgetQuiet ==
    ASSUME TypeOK, ServiceInv, NEW r \in Runs, Forget(r), \A q \in Runs : QuietRun(q)
    PROVE  \A q \in Runs : QuietRun(q)'
<1> USE DEF TypeOK, DurableTypeOK, ManagerTypeOK
<1>1. UNCHANGED up /\ \A q \in Runs : q # r => Untouched(q)
  BY DEF Untouched, Forget, TypeOK, DurableTypeOK, ManagerTypeOK
<1>2. QuietRun(r) /\ RunInv(r)
  BY DEF ServiceInv
<1>3. QuietRun(r)'
  BY <1>1, <1>2 DEF Forget, QuietRun, RunInv, HolderInv, WorkInv, CreateInv, TaskInv, RowInv,
      LockFree, AliveTask, Accounted, Terminal, Ends, Work, Free, WorkRecords
<1> QED BY <1>1, <1>3, QuietFrame

LEMMA CoreEmitQuiet ==
    ASSUME TypeOK, ServiceInv, NEW r \in Runs, CoreEmit(r), \A q \in Runs : QuietRun(q)
    PROVE  \A q \in Runs : QuietRun(q)'
<1> USE DEF TypeOK, DurableTypeOK, ManagerTypeOK
<1>1. UNCHANGED up /\ \A q \in Runs : q # r => Untouched(q)
  BY DEF Untouched, CoreEmit, TypeOK, DurableTypeOK, ManagerTypeOK
<1>2. QuietRun(r) /\ RunInv(r)
  BY DEF ServiceInv
<1>3. QuietRun(r)'
  BY <1>1, <1>2 DEF CoreEmit, QuietRun, RunInv, HolderInv, WorkInv, CreateInv, TaskInv, RowInv,
      LockFree, AliveTask, Accounted, Terminal, Ends, Work, Free, WorkRecords
<1> QED BY <1>1, <1>3, QuietFrame

LEMMA CancelRunningQuiet ==
    ASSUME TypeOK, ServiceInv, NEW r \in Runs, CancelRunning(r), \A q \in Runs : QuietRun(q)
    PROVE  \A q \in Runs : QuietRun(q)'
<1> USE DEF TypeOK, DurableTypeOK, ManagerTypeOK
<1>1. UNCHANGED up /\ \A q \in Runs : q # r => Untouched(q)
  BY DEF Untouched, CancelRunning, CancelSignals, TypeOK, DurableTypeOK, ManagerTypeOK
<1>2. QuietRun(r) /\ RunInv(r)
  BY DEF ServiceInv
<1>3. QuietRun(r)'
  BY <1>1, <1>2 DEF CancelRunning, CancelSignals, QuietRun, RunInv, HolderInv, WorkInv,
      CreateInv, TaskInv, RowInv, LockFree, AliveTask, Accounted, Terminal, Ends, Work, Free,
      WorkRecords
<1> QED BY <1>1, <1>3, QuietFrame

LEMMA CancelInactiveQuiet ==
    ASSUME TypeOK, ServiceInv, NEW r \in Runs, CancelInactive(r), \A q \in Runs : QuietRun(q)
    PROVE  \A q \in Runs : QuietRun(q)'
<1> USE DEF TypeOK, DurableTypeOK, ManagerTypeOK
<1>1. UNCHANGED up /\ \A q \in Runs : q # r => Untouched(q)
  BY DEF Untouched, CancelInactive, CancelSignals, Hold, TypeOK, DurableTypeOK, ManagerTypeOK
<1>2. QuietRun(r) /\ RunInv(r)
  BY DEF ServiceInv
<1>3. QuietRun(r)'
  <2>1. UNCHANGED <<creating, leases, task, status, ledger, bill, up>>
    BY DEF CancelInactive
  <2>2. held[r].step # "account"
    BY DEF CancelInactive, CancelArrives, LockFree, Free, Work
  <2> QED BY <1>2, <2>1, <2>2 DEF QuietRun, AliveTask
<1> QED BY <1>1, <1>3, QuietFrame

LEMMA CancelRepairQuiet ==
    ASSUME TypeOK, ServiceInv, NEW r \in Runs, CancelRepair(r), \A q \in Runs : QuietRun(q)
    PROVE  \A q \in Runs : QuietRun(q)'
<1> USE DEF TypeOK, DurableTypeOK, ManagerTypeOK
<1>1. UNCHANGED up /\ \A q \in Runs : q # r => Untouched(q)
  BY DEF Untouched, CancelRepair, Hold, TypeOK, DurableTypeOK, ManagerTypeOK
<1>2. QuietRun(r) /\ RunInv(r)
  BY DEF ServiceInv
<1>3. QuietRun(r)'
  BY <1>1, <1>2 DEF CancelRepair, Hold, QuietRun, RunInv, HolderInv, WorkInv, CreateInv,
      TaskInv, RowInv, LockFree, AliveTask, Accounted, Terminal, Ends, Work, Free, WorkRecords
<1> QED BY <1>1, <1>3, QuietFrame

LEMMA SweepSkipQuiet ==
    ASSUME TypeOK, ServiceInv, NEW r \in Runs, SweepSkip(r), \A q \in Runs : QuietRun(q)
    PROVE  \A q \in Runs : QuietRun(q)'
<1> USE DEF TypeOK, DurableTypeOK, ManagerTypeOK
<1>1. UNCHANGED up /\ \A q \in Runs : q # r => Untouched(q)
  BY DEF Untouched, SweepSkip, TypeOK, DurableTypeOK, ManagerTypeOK
<1>2. QuietRun(r) /\ RunInv(r)
  BY DEF ServiceInv
<1>3. QuietRun(r)'
  BY <1>1, <1>2 DEF SweepSkip, QuietRun, RunInv, HolderInv, WorkInv, CreateInv, TaskInv, RowInv,
      LockFree, AliveTask, Accounted, Terminal, Ends, Work, Free, WorkRecords
<1> QED BY <1>1, <1>3, QuietFrame

LEMMA SweepSignalQuiet ==
    ASSUME TypeOK, ServiceInv, NEW r \in Runs, SweepSignal(r), \A q \in Runs : QuietRun(q)
    PROVE  \A q \in Runs : QuietRun(q)'
<1> USE DEF TypeOK, DurableTypeOK, ManagerTypeOK
<1>1. UNCHANGED up /\ \A q \in Runs : q # r => Untouched(q)
  BY DEF Untouched, SweepSignal, Hold, TypeOK, DurableTypeOK, ManagerTypeOK
<1>2. QuietRun(r) /\ RunInv(r)
  BY DEF ServiceInv
<1>3. QuietRun(r)'
  BY <1>1, <1>2 DEF SweepSignal, Hold, QuietRun, RunInv, HolderInv, WorkInv, CreateInv, TaskInv,
      RowInv, LockFree, AliveTask, Accounted, Terminal, Ends, Work, Free, WorkRecords
<1> QED BY <1>1, <1>3, QuietFrame

\* The actions that touch no run, or that end and start the process.
LEMMA ProcessQuiet ==
    ASSUME TypeOK, ServiceInv, \A q \in Runs : QuietRun(q),
           \/ ShutdownBegin \/ ShutdownSnapshot \/ GraceOver \/ SweepDone \/ GatherDone
           \/ Crash \/ Startup \/ UNCHANGED svars
    PROVE  \A q \in Runs : QuietRun(q)'
<1>1. CASE \/ ShutdownBegin \/ ShutdownSnapshot \/ GraceOver \/ SweepDone \/ GatherDone
           \/ UNCHANGED svars
  <2>1. UNCHANGED up /\ \A q \in Runs : Untouched(q)
    BY <1>1 DEF Untouched, ShutdownBegin, ShutdownSnapshot, GraceOver, SweepDone, GatherDone,
        svars
  <2> QED BY <2>1, QuietFrame
<1>2. CASE Crash
  BY <1>2 DEF Crash, QuietRun
<1>3. CASE Startup
  <2> SUFFICES ASSUME NEW q \in Runs PROVE QuietRun(q)'
    OBVIOUS
  <2>1. /\ creating'[q] = "idle" /\ held'[q] = Free /\ q \notin leases'
        /\ QuietRun(q) /\ RowInv(q)
    BY <1>3 DEF Startup, ServiceInv, DownInv, RunInv, QuietRun, LockFree
  <2>2. status'[q] \notin {"queued", "running"}
    BY <1>3 DEF Startup, Reconcile, ReconcileWith
  <2>3. status'[q] \in Terminal /\ bill'[q] = "known" => ledger'[q] # "reserved"
    BY <1>3 DEF Startup, Reconcile, ReconcileWith, Terminal
  <2> QED BY <2>1, <2>2, <2>3 DEF QuietRun
<1> QED BY <1>1, <1>2, <1>3

LEMMA QuietStep ==
    ASSUME TypeOK, ServiceInv, QuietInv, [ServiceNext]_svars
    PROVE  QuietInv'
<1>1. ASSUME FaultStep PROVE faults' # 0
  <2>1. Fault
    BY <1>1 DEF FaultStep, SweepLost, StartupLost, AdmitLost, InsertUntasked, InsertLost,
       ReleaseAdmissionLost, FinalizeLost, AccountLost, ClearAdmissionLost, AnnounceLost,
       StartReadLost, TransitionLost, CoreRaisesLost
  <2>2. faults \in Nat
    BY DEF TypeOK
  <2> QED BY <2>1, <2>2 DEF Fault
<1>2. faults' = 0 => faults = 0
  <2>1. ASSUME NEW r \in Runs, CreateStep(r) \/ TailStep(r) \/ CoreEmit(r) PROVE faults' = faults
    BY <2>1 DEF CreateStep, Admit, Insert, ReleaseAdmission, TailStep, Finalize, Account,
       ClearAdmission, Announce, CoreEmit
  <2>2. ASSUME NEW r \in Runs, TaskStep(r) \/ CancelStep(r) PROVE faults' = faults
    BY <2>2 DEF TaskStep, StartBegin, Transition, RecoverBegin, CoreReturn, ExecBegin, ExecWith,
       Forget, CancelStep, CancelRunning, CancelInactive, CancelRepair
  <2>3. ASSUME ShutdownStep \/ Crash \/ Startup \/ UNCHANGED svars PROVE faults' = faults
    BY <2>3 DEF ShutdownStep, ShutdownBegin, ShutdownSnapshot, GraceOver, SweepSkip, SweepSignal,
       SweepDone, GatherDone, Crash, Startup, svars
  <2> QED BY <1>1, <2>1, <2>2, <2>3 DEF ServiceNext
<1> SUFFICES ASSUME faults' = 0 PROVE \A q \in Runs : QuietRun(q)'
  BY DEF QuietInv
<1>3. ~FaultStep /\ \A q \in Runs : QuietRun(q)
  BY <1>1, <1>2 DEF QuietInv
<1>4. ASSUME NEW r \in Runs, CreateStep(r) \/ TailStep(r) PROVE \A q \in Runs : QuietRun(q)'
  BY <1>3, <1>4, AdmitQuiet, InsertQuiet, ReleaseAdmissionQuiet, FinalizeQuiet, AccountQuiet,
     ClearAdmissionQuiet, AnnounceQuiet DEF CreateStep, TailStep
<1>5. ASSUME NEW r \in Runs, TaskStep(r) \/ CoreEmit(r) PROVE \A q \in Runs : QuietRun(q)'
  BY <1>3, <1>5, StartBeginQuiet, TransitionQuiet, RecoverBeginQuiet, CoreReturnQuiet,
     ExecBeginQuiet, ForgetQuiet, CoreEmitQuiet DEF TaskStep
<1>6. ASSUME NEW r \in Runs, CancelStep(r) PROVE \A q \in Runs : QuietRun(q)'
  BY <1>3, <1>6, CancelRunningQuiet, CancelInactiveQuiet, CancelRepairQuiet DEF CancelStep
<1>7. CASE ShutdownStep
  BY <1>3, <1>7, ProcessQuiet, SweepSkipQuiet, SweepSignalQuiet DEF ShutdownStep
<1>8. CASE Crash \/ Startup \/ UNCHANGED svars
  BY <1>3, <1>8, ProcessQuiet
<1> QED BY <1>3, <1>4, <1>5, <1>6, <1>7, <1>8 DEF ServiceNext

\* While no store call has failed, a run nobody works on is absent or terminal,
\* holds no slot, and no known bill is still reserved: whatever cancels,
\* shutdown and restarts do (create, _start, _execute, reconcile_startup).
THEOREM NothingIsLeft == ServiceSpec => []NothingLeftOver
<1>1. ServiceInit => QuietInv
  BY DEF ServiceInit, Init, QuietInv, QuietRun, Terminal
<1>2. IInv /\ QuietInv /\ [ServiceNext]_svars => QuietInv'
  BY QuietStep DEF IInv
<1>3. IInv /\ QuietInv => NothingLeftOver
  <2> SUFFICES ASSUME IInv, QuietInv, NEW r \in Runs, faults = 0, up, creating[r] = "idle",
                      LockFree(r), ~AliveTask(r)
               PROVE  /\ status[r] \in Terminal \cup {"absent"}
                      /\ r \notin leases
                      /\ bill[r] = "known" => ledger[r] # "reserved"
    BY DEF NothingLeftOver
  <2>1. QuietRun(r) /\ RowInv(r) /\ status[r] \in Statuses
    BY DEF IInv, TypeOK, DurableTypeOK, ServiceInv, RunInv, QuietInv
  <2> QED BY <2>1 DEF QuietRun, RowInv, LockFree, Free, Work, Statuses
<1> QED BY <1>1, <1>2, <1>3, Invariance, PTL DEF ServiceSpec

-----------------------------------------------------------------------------
(* RunService implements RunLifecycle: what each step is to the contract. *)

\* Whatever the settlement of a reservation or its return finds is a step of
\* the contract or none.
LEMMA LedgerSteps ==
    ASSUME TypeOK, NEW r \in Runs
    PROVE  /\ CommitLedger(r, "settled") /\ status[r] \in Terminal /\ bill[r] = "known"
                => Settle(r) \/ UNCHANGED vars
           /\ CommitLedger(r, "released") /\ status[r] \in {"absent", "queued"}
                => Release(r) \/ UNCHANGED vars
BY DEF CommitLedger, Settle, Release, vars

\* A create request reserves, creates or hands back.
LEMMA CreateMaps ==
    ASSUME TypeOK, ServiceInv, NEW r \in Runs,
           \/ CreateStep(r) \/ AdmitLost(r) \/ InsertUntasked(r) \/ InsertLost(r)
           \/ ReleaseAdmissionLost(r)
    PROVE  Reserve(r) \/ Create(r) \/ Release(r) \/ UNCHANGED vars
<1>1. ASSUME Admit(r) \/ AdmitLost(r) PROVE Reserve(r) \/ UNCHANGED vars
  BY <1>1 DEF Admit, AdmitLost, Reserve, vars
<1>2. ASSUME CommitInsert(r), creating[r] = "insert" PROVE Create(r)
  BY <1>2 DEF CommitInsert, Create, ServiceInv, RunInv, CreateInv
<1>3. ASSUME Insert(r) \/ InsertUntasked(r) \/ InsertLost(r) PROVE Create(r) \/ UNCHANGED vars
  BY <1>2, <1>3 DEF Insert, InsertUntasked, InsertLost, vars
<1>4. ASSUME ReleaseAdmission(r) \/ ReleaseAdmissionLost(r) PROVE Release(r) \/ UNCHANGED vars
  BY <1>4, LedgerSteps DEF ReleaseAdmission, ReleaseAdmissionLost, ServiceInv, RunInv,
      CreateInv, vars
<1> QED BY <1>1, <1>3, <1>4 DEF CreateStep

\* The tail settles, finishes the run, or is not seen.
LEMMA TailMaps ==
    ASSUME TypeOK, ServiceInv, NEW r \in Runs,
           \/ TailStep(r) \/ FinalizeLost(r) \/ AccountLost(r) \/ ClearAdmissionLost(r)
           \/ AnnounceLost(r)
    PROVE  Settle(r) \/ (\E s \in Terminal, b \in Bills : Finish(r, s, b)) \/ UNCHANGED vars
<1>1. ASSUME CommitFinalize(r), At(r, "finalize")
      PROVE  \E s \in Terminal, b \in Bills : Finish(r, s, b)
  <2>1. held[r].goal \in Terminal /\ held[r].cost \in Bills
    BY <1>1, FinalizeType DEF TypeOK, ManagerTypeOK, WorkRecords
  <2>2. Finish(r, held[r].goal, held[r].cost)
    BY <1>1 DEF CommitFinalize, Finish, At, ServiceInv, RunInv, WorkInv
  <2> QED BY <2>1, <2>2
<1>2. ASSUME Finalize(r) \/ FinalizeLost(r)
      PROVE  (\E s \in Terminal, b \in Bills : Finish(r, s, b)) \/ UNCHANGED vars
  BY <1>1, <1>2 DEF Finalize, FinalizeLost, vars
<1>3. ASSUME Account(r) \/ AccountLost(r) PROVE Settle(r) \/ UNCHANGED vars
  BY <1>3, LedgerSteps DEF Account, AccountLost, At, ServiceInv, RunInv, WorkInv, vars
<1>4. ASSUME ClearAdmission(r) \/ ClearAdmissionLost(r) \/ Announce(r) \/ AnnounceLost(r)
      PROVE  UNCHANGED vars
  BY <1>4 DEF ClearAdmission, ClearAdmissionLost, CommitClear, Announce, AnnounceLost, vars
<1> QED BY <1>2, <1>3, <1>4 DEF TailStep

\* The task starts the run and records its events; signals are not seen.
LEMMA TaskMaps ==
    ASSUME TypeOK, ServiceInv, NEW r \in Runs,
           \/ TaskStep(r) \/ CoreEmit(r) \/ CancelStep(r) \/ SweepSkip(r) \/ SweepSignal(r)
           \/ StartReadLost(r) \/ TransitionLost(r) \/ CoreRaisesLost(r)
    PROVE  Start(r) \/ Record(r) \/ UNCHANGED vars
<1>1. ASSUME Transition(r) \/ TransitionLost(r) PROVE Start(r) \/ UNCHANGED vars
  <2>1. status[r] = "queued" /\ held[r].expect = "queued" /\ task[r] = "created"
    BY <1>1 DEF Transition, TransitionLost, At, ServiceInv, RunInv, WorkInv, HolderInv
  <2>2. r \in Metered => ledger[r] = "reserved"
    BY <2>1 DEF ServiceInv, RunInv, TaskInv, AliveTask, Admitted
  <2> QED BY <1>1, <2>1, <2>2 DEF Transition, TransitionLost, CommitTransition, Start, vars
<1>2. ASSUME CoreEmit(r) PROVE Record(r)
  BY <1>2 DEF CoreEmit, Record, ServiceInv, RunInv, TaskInv
<1>3. ASSUME \/ StartBegin(r) \/ RecoverBegin(r) \/ CoreReturn(r) \/ ExecBegin(r) \/ Forget(r)
             \/ CancelStep(r) \/ SweepSkip(r) \/ SweepSignal(r)
             \/ StartReadLost(r) \/ CoreRaisesLost(r)
      PROVE  UNCHANGED vars
  BY <1>3 DEF StartBegin, RecoverBegin, CoreReturn, ExecBegin, ExecWith, Forget, CancelStep,
     CancelRunning, CancelInactive, CancelRepair, SweepSkip, SweepSignal, StartReadLost,
     CoreRaisesLost, vars
<1> QED BY <1>1, <1>2, <1>3 DEF TaskStep

\* The recovered bills are exactly those of a restart: a row that is still
\* queued has no event, so it is known to be free.
LEMMA ReconcileIsRestart ==
    ASSUME TypeOK, ServiceInv, Reconcile
    PROVE  Restart
<1> USE DEF Reconcile, ReconcileWith
<1>1. \A r \in Runs : status[r] \in {"queued", "running"} =>
         bill'[r] = IF status[r] = "queued" THEN "known" ELSE "unknown"
  <2> SUFFICES ASSUME NEW r \in Runs, status[r] \in {"queued", "running"}
               PROVE  bill'[r] = IF status[r] = "queued" THEN "known" ELSE "unknown"
    OBVIOUS
  <2>1. bill[r] = "open" /\ (status[r] = "queued" => log[r] = <<>>)
    BY DEF TypeOK, DurableTypeOK, ServiceInv, RunInv, RowInv, LogSound, Terminal, Bills
  <2> QED BY <2>1 DEF Recovered
<1>2. bill' = [r \in Runs |->
                 IF status[r] \in {"queued", "running"}
                   THEN IF status[r] = "queued" THEN "known" ELSE "unknown" ELSE bill[r]]
  BY <1>1
<1>3. ledger' = [r \in Runs |->
                   IF ledger[r] # "reserved" THEN ledger[r]
                   ELSE IF status[r] = "absent" THEN "released"
                   ELSE IF bill'[r] = "known" THEN "settled" ELSE "reserved"]
  <2>1. \A r \in Runs :
           (CASE ledger[r] # "reserved" -> ledger[r]
              [] ledger[r] = "reserved" /\ status[r] = "absent" -> "released"
              [] ledger[r] = "reserved" /\ bill'[r] = "known"   -> "settled"
              [] OTHER -> "reserved")
           = IF ledger[r] # "reserved" THEN ledger[r]
             ELSE IF status[r] = "absent" THEN "released"
             ELSE IF bill'[r] = "known" THEN "settled" ELSE "reserved"
    BY <1>2 DEF TypeOK, DurableTypeOK, ServiceInv, RunInv, RowInv, Terminal
  <2> QED BY <2>1
<1> QED BY <1>2, <1>3 DEF Restart

\* The service implements the contract of RunLifecycle: every step of a create
\* request, a task, a cancel, shutdown, crash or restart, with or without a
\* failing store, is one step of the contract or none.
THEOREM Implements == ServiceSpec => LifecycleContract
<1>1. ServiceInit => Init
  BY DEF ServiceInit
<1>2. IInv /\ [ServiceNext]_svars => [Next]_vars
  <2> SUFFICES ASSUME IInv, [ServiceNext]_svars PROVE Next \/ UNCHANGED vars
    BY DEF vars
  <2>1. ASSUME NEW r \in Runs,
               \/ CreateStep(r) \/ AdmitLost(r) \/ InsertUntasked(r) \/ InsertLost(r)
               \/ ReleaseAdmissionLost(r)
        PROVE  Next \/ UNCHANGED vars
    BY <2>1, CreateMaps DEF IInv, Next
  <2>2. ASSUME NEW r \in Runs,
               \/ TailStep(r) \/ FinalizeLost(r) \/ AccountLost(r) \/ ClearAdmissionLost(r)
               \/ AnnounceLost(r)
        PROVE  Next \/ UNCHANGED vars
    BY <2>2, TailMaps DEF IInv, Next
  <2>3. ASSUME NEW r \in Runs,
               \/ TaskStep(r) \/ CoreEmit(r) \/ CancelStep(r) \/ SweepSkip(r) \/ SweepSignal(r)
               \/ StartReadLost(r) \/ TransitionLost(r) \/ CoreRaisesLost(r)
        PROVE  Next \/ UNCHANGED vars
    BY <2>3, TaskMaps DEF IInv, Next
  <2>4. ASSUME Startup \/ StartupLost PROVE Next \/ UNCHANGED vars
    BY <2>4, ReconcileIsRestart DEF IInv, Startup, StartupLost, Next
  <2>5. ASSUME \/ ShutdownBegin \/ ShutdownSnapshot \/ GraceOver \/ SweepDone \/ GatherDone
               \/ SweepLost \/ Crash \/ UNCHANGED svars
        PROVE  UNCHANGED vars
    BY <2>5 DEF ShutdownBegin, ShutdownSnapshot, GraceOver, SweepDone, GatherDone, SweepLost,
        Crash,
       svars, vars
  <2> QED BY <2>1, <2>2, <2>3, <2>4, <2>5 DEF ServiceNext, ShutdownStep, FaultStep
<1> QED BY <1>1, <1>2, Invariance, PTL DEF ServiceSpec, LifecycleContract, Spec
=============================================================================
