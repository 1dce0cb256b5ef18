------------------------ MODULE ProviderCalls_proofs ------------------------
(***************************************************************************)
(* Proofs about ProviderCalls and the replies its attempts end with, for   *)
(* every budget, retry policy and bound on streams: first what a stream    *)
(* says that is taken, then what a verdict may charge, whatever the        *)
(* network answers, then the call's steps.                                 *)
(***************************************************************************)
EXTENDS ProviderCalls, FiniteInduction

-----------------------------------------------------------------------------
(* What a stream leaves its reader with. *)

Tokens == {Absent} \cup 0..MostUnits
Readers ==
    {s \in [open : BOOLEAN, role : BOOLEAN, begun : BOOLEAN, ids : Seq({"a", "b"}),
            args : Seq(Texts), finish : Finishes, usage : Tokens, done : BOOLEAN,
            raised : BOOLEAN] : s.done => s.usage # Absent}

LEMMA EventType ==
    ASSUME NEW e \in Events
    PROVE  /\ e.kind \in {"delta", "usage", "done", "junk"}
           /\ e.kind = "usage" => e.usage = Bad \/ e.usage \in 0..MostUnits
           /\ e.kind = "delta" => /\ e.role \in BOOLEAN /\ e.finish \in Finishes
                                  /\ e.piece \in Pieces \cup {NoPiece}
<1>0. MostUnits \in 0..MostUnits BY ModelConstants
<1>1. ASSUME NEW role \in BOOLEAN, NEW text \in BOOLEAN, NEW p \in Pieces \cup {NoPiece},
             NEW f \in Finishes, e = Delta(role, text, p, f)
      PROVE  e.kind = "delta" /\ e.role = role /\ e.finish = f /\ e.piece = p
  BY <1>1 DEF Delta
<1>2. CASE e \in Deltas
  <2> DEFINE Without == {Delta(role, text, NoPiece, f) :
                            role \in BOOLEAN, text \in BOOLEAN, f \in Finishes}
             With == {Delta(FALSE, FALSE, p, f) : p \in Pieces, f \in Finishes}
  <2>1. CASE e \in Without
    <3>1. PICK role \in BOOLEAN, text \in BOOLEAN, f \in Finishes :
            e = Delta(role, text, NoPiece, f)
      BY <2>1
    <3>2. e.kind = "delta" /\ e.role = role /\ e.finish = f /\ e.piece = NoPiece
      BY <1>1, <3>1
    <3> QED BY <3>2
  <2>2. CASE e \in With
    <3>1. PICK p \in Pieces, f \in Finishes :
            e = [kind |-> "delta", role |-> FALSE, text |-> FALSE, piece |-> p,
                 finish |-> f, usage |-> 0]
      BY <2>2 DEF Delta
    <3>2. e.kind = "delta" BY <3>1
    <3>3. e.role \in BOOLEAN BY <3>1
    <3>4. e.finish \in Finishes BY <3>1
    <3>5. e.piece \in Pieces \cup {NoPiece} BY <3>1
    <3> QED BY <3>2, <3>3, <3>4, <3>5, Zenon
  <2>3. Deltas = Without \cup With BY DEF Deltas
  <2> HIDE DEF Without, With
  <2> QED BY <1>2, <2>1, <2>2, <2>3
<1>3. CASE e \in {Other("usage", u) : u \in {Bad, MostUnits}}
  <2>1. e.kind = "usage" /\ e.usage \in {Bad, MostUnits} BY <1>3 DEF Other
  <2> QED BY <1>0, <2>1
<1>4. CASE e \in {Other(k, 0) : k \in {"done", "junk"}}
  BY <1>4 DEF Other
<1> QED BY <1>2, <1>3, <1>4 DEF Events

LEMMA PieceType ==
    ASSUME NEW p \in Pieces
    PROVE  /\ p.index \in {-1, 0, 1} /\ p.id \in {"none", "a", "b"}
           /\ p.args \in Texts
<1>1. CASE p \in [index : 0..1, id : {"none", "a", "b"}, args : {"", "half", "odd"}]
  <2>1. p.index \in 0..1 BY <1>1, Zenon
  <2>2. p.index \in {-1, 0, 1} BY <2>1
  <2>3. p.id \in {"none", "a", "b"} BY <1>1, Zenon
  <2>4. p.args \in {"", "half", "odd"} BY <1>1, Zenon
  <2>5. p.args \in Texts BY <2>4 DEF Texts
  <2> QED BY <2>2, <2>3, <2>5
<1>2. CASE p \in {[index |-> -1, id |-> "none", args |-> ""]}
  <2>1. p = [index |-> -1, id |-> "none", args |-> ""] BY <1>2
  <2>2. p.index = -1 /\ p.id = "none" /\ p.args = "" BY <2>1
  <2>3. p.args \in Texts BY <2>2 DEF Texts
  <2> QED BY <2>2, <2>3
<1>3. p \in [index : 0..1, id : {"none", "a", "b"}, args : {"", "half", "odd"}]
      \/ p \in {[index |-> -1, id |-> "none", args |-> ""]}
  BY Zenon DEF Pieces
<1> QED BY <1>1, <1>2, <1>3

LEMMA JoinType ==
    ASSUME NEW a \in Texts, NEW b \in Texts
    PROVE  Join(a, b) \in Texts
BY DEF Texts, Join

LEMMA BrokenType ==
    ASSUME NEW s \in Readers
    PROVE  Broken(s) \in Readers
BY DEF Readers, Broken

LEMMA ReadPieceType ==
    ASSUME NEW s \in Readers, NEW p \in Pieces \cup {NoPiece}
    PROVE  ReadPiece(s, p) \in Readers
<1>1. CASE ReadPiece(s, p) = s
  BY <1>1
<1>2. CASE ReadPiece(s, p) = Broken(s)
  BY <1>2, BrokenType
<1>3. CASE ReadPiece(s, p) = BeginTool(s, p) /\ p # NoPiece
  <2>1. CASE p.id = "none" \/ p.id \in ToSet(s.ids)
    BY <1>3, <2>1, BrokenType DEF BeginTool
  <2>2. CASE ~(p.id = "none" \/ p.id \in ToSet(s.ids))
    <3>1. p.id \in {"a", "b"} /\ p.args \in Texts
      BY <1>3, <2>2, PieceType
    <3>2. Append(s.ids, p.id) \in Seq({"a", "b"}) /\ Append(s.args, p.args) \in Seq(Texts)
      BY <3>1 DEF Readers
    <3>3. BeginTool(s, p) = [s EXCEPT !.ids = Append(s.ids, p.id), !.args = Append(s.args, p.args)]
      BY <2>2 DEF BeginTool
    <3> QED BY ZenonT(60), <1>3, <3>2, <3>3 DEF Readers
  <2> QED BY <2>1, <2>2
<1>4. CASE ReadPiece(s, p) = ContinueTool(s, p) /\ p # NoPiece
  <2>1. CASE p.index = -1
    <3>1. [Broken(s) EXCEPT !.raised = TRUE] \in Readers
      BY BrokenType DEF Readers
    <3>2. ContinueTool(s, p) = [Broken(s) EXCEPT !.raised = TRUE]
      BY <2>1, Zenon DEF ContinueTool
    <3> QED BY <1>4, <3>1, <3>2
  <2>2. CASE ContinueTool(s, p) = Broken(s)
    BY <1>4, <2>2, BrokenType
  <2>3. CASE ContinueTool(s, p) = [s EXCEPT !.args[p.index + 1] = Join(s.args[p.index + 1], p.args)]
    <3> DEFINE i == p.index + 1
               args == [s.args EXCEPT ![i] = Join(s.args[i], p.args)]
    <3>1. p.args \in Texts BY <1>4, PieceType
    <3>2. s.args \in Seq(Texts) BY DEF Readers
    <3>3. args \in Seq(Texts)
      <4>1. CASE i \in DOMAIN s.args
        <5>1. Join(s.args[i], p.args) \in Texts BY <3>1, <3>2, <4>1, JoinType
        <5> QED BY <3>2, <4>1, <5>1
      <4>2. CASE i \notin DOMAIN s.args
        <5>1. args = s.args BY <3>2, <4>2
        <5> QED BY <3>2, <5>1
      <4> QED BY <4>1, <4>2
    <3>4. ContinueTool(s, p) = [s EXCEPT !.args = args]
      BY <2>3
    <3> HIDE DEF args
    <3> QED BY <1>4, <3>3, <3>4 DEF Readers
  <2>4. p.index = -1 \/ ContinueTool(s, p) = Broken(s)
        \/ ContinueTool(s, p) = [s EXCEPT !.args[p.index + 1] = Join(s.args[p.index + 1], p.args)]
    BY Zenon DEF ContinueTool
  <2> QED BY <2>1, <2>2, <2>3, <2>4
<1>5. \/ ReadPiece(s, p) = s \/ ReadPiece(s, p) = Broken(s)
      \/ ReadPiece(s, p) = BeginTool(s, p) /\ p # NoPiece
      \/ ReadPiece(s, p) = ContinueTool(s, p) /\ p # NoPiece
  BY Zenon DEF ReadPiece
<1> QED BY <1>1, <1>2, <1>3, <1>4, <1>5

LEMMA ReadType ==
    ASSUME NEW s \in Readers, NEW e \in Events
    PROVE  Read(s, e) \in Readers
<1>1. CASE Read(s, e) = s \/ Read(s, e) = Broken(s)
  BY <1>1, BrokenType
<1>2. CASE Read(s, e) = ReadDone(s)
  <2>1. CASE s.usage = Absent BY <1>2, <2>1, BrokenType DEF ReadDone
  <2>2. CASE s.usage # Absent
    <3>1. [s EXCEPT !.done = TRUE] \in Readers BY <2>2 DEF Readers
    <3>2. ReadDone(s) = Broken(s) \/ ReadDone(s) = [s EXCEPT !.done = TRUE]
      BY DEF ReadDone
    <3> QED BY <1>2, <3>1, <3>2, BrokenType
  <2> QED BY <2>1, <2>2
<1>3. CASE e.kind = "usage" /\ Read(s, e) = ReadUsage(s, e.usage)
  <2>1. CASE e.usage = Bad
    BY <1>3, <2>1, BrokenType DEF ReadUsage
  <2>2. CASE e.usage # Bad
    <3>1. e.usage \in 0..MostUnits /\ e.usage # Absent
      BY <1>3, <2>2, EventType, ModelConstants DEF Absent
    <3>2. \A r \in Readers : [r EXCEPT !.usage = e.usage] \in Readers
      BY <3>1 DEF Readers, Tokens
    <3> QED BY <1>3, <3>2, BrokenType DEF ReadUsage
  <2> QED BY <2>1, <2>2
<1>4. CASE e.kind = "delta" /\ Read(s, e) = ReadDelta(s, e)
  <2> DEFINE begun == [s EXCEPT !.role = s.role \/ e.role, !.begun = TRUE]
             tool == ReadPiece(begun, e.piece)
  <2>1. e.role \in BOOLEAN /\ e.finish \in Finishes /\ e.piece \in Pieces \cup {NoPiece}
    BY <1>4, EventType
  <2>2. begun \in Readers
    <3>1. (s.role \/ e.role) \in BOOLEAN OBVIOUS
    <3> QED BY <3>1 DEF Readers
  <2>3. tool \in Readers BY <2>1, <2>2, ReadPieceType
  <2>4. ReadFinish(tool, e.finish) \in Readers
    <3> HIDE DEF tool
    <3>1. [tool EXCEPT !.finish = e.finish] \in Readers BY <2>1, <2>3 DEF Readers
    <3> QED BY <2>3, <3>1, BrokenType DEF ReadFinish
  <2>5. ReadDelta(s, e) \in {Broken(s), tool, ReadFinish(tool, e.finish)}
    BY DEF ReadDelta
  <2> HIDE DEF tool
  <2> QED BY <1>4, <2>3, <2>4, <2>5, BrokenType
<1>5. e.kind \in {"delta", "usage", "done", "junk"} BY EventType
<1> QED BY <1>1, <1>2, <1>3, <1>4, <1>5 DEF Read

\* What a reader remembers of the events at some positions of a stream.
Reads(g, D, events) ==
    g = [T \in SUBSET D |->
            IF T = {} THEN Fresh ELSE Read(g[T \ {Max(T)}], events[Max(T)])]

LEMMA FreshType == Fresh \in Readers
BY DEF Fresh, Readers, Tokens, Finishes, Absent

LEMMA ReadsType ==
    ASSUME NEW D, IsFiniteSet(D), D \subseteq Int, NEW events, \A i \in D : events[i] \in Events,
           NEW h, Reads(h, D, events)
    PROVE  h[D] \in Readers
<1> DEFINE Good == {T \in SUBSET D : h[T] \in Readers}
<1>1. ASSUME NEW T \in SUBSET D, \A W \in SUBSET T : W # T => W \in Good
      PROVE  T \in Good
  <2>1. h[T] = IF T = {} THEN Fresh ELSE Read(h[T \ {Max(T)}], events[Max(T)])
    BY DEF Reads
  <2>2. CASE T = {} BY <2>1, <2>2, FreshType
  <2>3. CASE T # {}
    <3>1. IsFiniteSet(T) /\ T \subseteq Int BY FS_Subset
    <3>2. Max(T) \in T BY <2>3, <3>1, MaxIn
    <3>3. T \ {Max(T)} \in Good BY <1>1, <3>2
    <3>4. events[Max(T)] \in Events BY <3>2
    <3> QED BY <2>1, <2>3, <3>3, <3>4, ReadType
  <2> QED BY <2>2, <2>3
<1> HIDE DEF Good
<1>2. D \in Good BY <1>1, SubsetInduction
<1> QED BY <1>2 DEF Good

LEMMA ReadsExist ==
    ASSUME NEW D, IsFiniteSet(D), D \subseteq Int, NEW events, \A i \in D : events[i] \in Events
    PROVE  \E g : Reads(g, D, events)
<1> DEFINE F == [q \in Readers \X D |-> Read(q[1], events[q[2]])]
           c == [T \in SUBSET D |-> Max(T)]
<1>1. ASSUME NEW T \in SUBSET D, T # {} PROVE Max(T) \in T
  <2>1. IsFiniteSet(T) /\ T \subseteq Int BY FS_Subset
  <2> QED BY <1>1, <2>1, MaxIn
<1>2. F \in [Readers \X D -> Readers]
  BY ReadType
<1>3. PICK g \in [SUBSET D -> Readers] : Fold(g, D, Fresh, F, c)
  <2>1. \A T \in SUBSET D : T # {} => c[T] \in T BY <1>1
  <2> HIDE DEF F, c
  <2> QED BY <1>2, <2>1, FreshType, FoldExists
<1>4. ASSUME NEW T \in SUBSET D, T # {}
      PROVE  g[T] = Read(g[T \ {Max(T)}], events[Max(T)])
  <2>1. c[T] = Max(T) /\ c[T] \in D BY <1>1, <1>4
  <2>2. g[T \ {c[T]}] \in Readers OBVIOUS
  <2>3. g[T] = F[<<g[T \ {c[T]}], c[T]>>] BY <1>3, <1>4 DEF Fold
  <2> DEFINE q == <<g[T \ {c[T]}], c[T]>>
  <2>4. q \in Readers \X D /\ q[1] = g[T \ {c[T]}] /\ q[2] = c[T] BY <2>1, <2>2
  <2> HIDE DEF q
  <2>5. F[q] = Read(g[T \ {c[T]}], events[c[T]]) BY <2>4
  <2> QED BY <2>1, <2>3, <2>5 DEF q
<1>5. g[{}] = Fresh BY <1>3 DEF Fold
<1>6. \A T \in SUBSET D :
        g[T] = IF T = {} THEN Fresh ELSE Read(g[T \ {Max(T)}], events[Max(T)])
  BY <1>4, <1>5
<1>7. g = [T \in SUBSET D |-> g[T]] OBVIOUS
<1>8. Reads(g, D, events) BY <1>6, <1>7, Zenon DEF Reads
<1> QED BY <1>8

LEMMA HeardType ==
    ASSUME NEW events \in Seq(Events)
    PROVE  Heard(events) \in Readers
<1> DEFINE D == DOMAIN events
<1>1. /\ IsFiniteSet(D) /\ D \subseteq Int
      /\ \A i \in D : events[i] \in Events
  <2>1. Len(events) \in Nat /\ D = 1..Len(events) OBVIOUS
  <2>2. \A i \in 1..Len(events) : events[i] \in Events OBVIOUS
  <2> QED BY <2>1, <2>2, FS_Interval
<1>2. Heard(events) = (CHOOSE g : Reads(g, D, events))[D]
  BY DEF Heard, FoldLeft, MapThenFoldSet, Reads
<1> HIDE DEF D
<1>3. Reads(CHOOSE g : Reads(g, D, events), D, events) BY <1>1, ReadsExist
<1>4. (CHOOSE g : Reads(g, D, events))[D] \in Readers BY <1>1, <1>3, ReadsType
<1> QED BY <1>2, <1>4

\* The streams that are one event longer, and the recursion that gathers them.
Longer(W, n) ==
    {events \in {Append(w, e) : w \in W,
                               e \in IF n <= MaxDeltas THEN Events ELSE Events \ Deltas} :
        Heard(events).open}
Gathers(g, N) == g = [n \in 0..N |-> IF n = 0 THEN {<<>>} ELSE Longer(g[n - 1], n)]

\* What holds of the stream without events, and is handed on to every stream
\* of which no event is refused, holds of all of them.
LEMMA StreamsWithin ==
    ASSUME NEW All, All \subseteq Seq(Events), <<>> \in All,
           \A w \in All, e \in Events : Heard(Append(w, e)).open => Append(w, e) \in All
    PROVE  Streams \subseteq All
<1> DEFINE N == MaxDeltas + 2
           States == SUBSET All
           F == [q \in States \X Nat |-> Longer(q[1], q[2])]
<1>1. N \in Nat BY ModelConstants
<1>2. ASSUME NEW W \in States, NEW n PROVE Longer(W, n) \in States
  <2>1. ASSUME NEW events \in Longer(W, n) PROVE events \in All
    <3>1. PICK w \in W, e \in Events : events = Append(w, e) /\ Heard(events).open
      BY DEF Longer
    <3> QED BY <3>1
  <2> QED BY <2>1
<1> HIDE DEF N
<1>3. {<<>>} \in States OBVIOUS
<1> HIDE DEF States
<1>4. F \in [States \X Nat -> States] BY <1>2
<1>5. PICK g \in [0..N -> States] : Chain(g, N, {<<>>}, F)
  <2> HIDE DEF F
  <2> QED BY <1>1, <1>3, <1>4, ChainExists
<1>6. ASSUME NEW n \in 0..N, n # 0 PROVE g[n] = Longer(g[n - 1], n)
  <2>1. n \in Nat /\ n - 1 \in 0..N BY <1>1, <1>6
  <2>2. g[n] = F[<<g[n - 1], n>>] BY <1>5, <1>6 DEF Chain
  <2> DEFINE q == <<g[n - 1], n>>
  <2>3. q \in States \X Nat /\ q[1] = g[n - 1] /\ q[2] = n BY <2>1
  <2> HIDE DEF q
  <2>4. F[q] = Longer(g[n - 1], n) BY <2>3
  <2> QED BY <2>2, <2>4 DEF q
<1>7. g[0] = {<<>>}
  <2>1. 0 \in 0..N BY <1>1
  <2> QED BY <1>5, <2>1 DEF Chain
<1>8. \A n \in 0..N : g[n] = IF n = 0 THEN {<<>>} ELSE Longer(g[n - 1], n)
  BY <1>6, <1>7
<1>9. g = [n \in 0..N |-> g[n]] OBVIOUS
<1>10. g = [n \in 0..N |-> IF n = 0 THEN {<<>>} ELSE Longer(g[n - 1], n)]
  BY <1>8, <1>9, Zenon
<1>11. Gathers(g, N) BY <1>10 DEF Gathers
<1> DEFINE h == CHOOSE f : Gathers(f, N)
<1>12. StreamsOf = h BY DEF StreamsOf, Gathers, Longer, N
<1>13. Gathers(h, N) BY <1>11
<1> HIDE DEF h
<1>14. \A n \in 0..N : h[n] = IF n = 0 THEN {<<>>} ELSE Longer(h[n - 1], n)
  BY <1>13 DEF Gathers
<1> DEFINE Good == {n \in 0..N : h[n] \in States}
<1>15. 0 \in Good BY <1>1, <1>3, <1>14
<1>16. ASSUME NEW n \in 0..(N - 1), n \in Good PROVE n + 1 \in Good
  <2>1. n + 1 \in 0..N /\ n + 1 # 0 /\ (n + 1) - 1 = n BY <1>1
  <2>2. h[n + 1] = Longer(h[n], n + 1) BY <1>14, <2>1
  <2> QED BY <1>2, <1>16, <2>1, <2>2
<1>17. ASSUME NEW n \in 0..N PROVE n \in Good
  <2>1. n \in Nat BY <1>1
  <2>2. \A i \in 0..(n - 1) : i \in 0..(N - 1) BY <1>1
  <2>3. \A i \in 0..(n - 1) : i \in Good => i + 1 \in Good BY <1>16, <2>2
  <2> HIDE DEF Good
  <2> QED BY <1>15, <2>1, <2>3, IntervalInduction
<1>18. ASSUME NEW n \in 0..N PROVE StreamsOf[n] \subseteq All
  BY <1>12, <1>17 DEF States
<1> QED BY <1>18 DEF Streams, N

LEMMA StreamsType == Streams \subseteq Seq(Events)
<1> DEFINE All == Seq(Events)
<1>1. <<>> \in All /\ \A w \in All, e \in Events : Append(w, e) \in All OBVIOUS
<1>2. All \subseteq Seq(Events) OBVIOUS
<1> HIDE DEF All
<1>3. Streams \subseteq All BY <1>1, <1>2, StreamsWithin
<1> QED BY <1>3 DEF All

-----------------------------------------------------------------------------
(* What a stream that is taken says, to a reader that validates nothing. *)

\* The positions of a stream.
LEMMA PositionsType ==
    ASSUME NEW events \in Seq(Events)
    PROVE  /\ DOMAIN events = 1..Len(events) /\ Len(events) \in Nat
           /\ IsFiniteSet(DOMAIN events) /\ DOMAIN events \subseteq Int
           /\ \A j \in DOMAIN events : events[j] \in Events
<1>1. Len(events) \in Nat /\ DOMAIN events = 1..Len(events) OBVIOUS
<1>2. \A j \in 1..Len(events) : events[j] \in Events OBVIOUS
<1> QED BY <1>1, <1>2, FS_Interval

LEMMA AppendPositions ==
    ASSUME NEW w \in Seq(Events), NEW e \in Events
    PROVE  LET events == Append(w, e)  m == Len(w) + 1 IN
           /\ events \in Seq(Events) /\ m \in Int
           /\ DOMAIN events = DOMAIN w \cup {m} /\ m \notin DOMAIN w
           /\ events[m] = e /\ \A j \in DOMAIN w : events[j] = w[j] /\ j < m
           /\ DOMAIN events \ {Max(DOMAIN events)} = DOMAIN w
           /\ events[Max(DOMAIN events)] = e /\ DOMAIN events # {} /\ DOMAIN w \subseteq DOMAIN events
<1> DEFINE events == Append(w, e)
           m == Len(w) + 1
<1>1. Len(w) \in Nat /\ DOMAIN w = 1..Len(w) OBVIOUS
<1>2. /\ events \in Seq(Events) /\ DOMAIN events = 1..m /\ events[m] = e
      /\ \A j \in DOMAIN w : events[j] = w[j]
  BY <1>1
<1>3. 1..m = 1..Len(w) \cup {m} /\ m \notin 1..Len(w) BY <1>1
<1>4. \A j \in 1..Len(w) : j < m BY <1>1
<1>5. Max(1..m) = m
  <2>1. IsFiniteSet(1..m) /\ 1..m \subseteq Int /\ m \in 1..m BY <1>1, FS_Interval
  <2>2. Max(1..m) \in 1..m /\ Max(1..m) >= m BY <2>1, MaxIn
  <2> QED BY <1>1, <2>2
<1> QED BY <1>1, <1>2, <1>3, <1>4, <1>5

LEMMA HeardIs ==
    ASSUME NEW events \in Seq(Events)
    PROVE  LET h == CHOOSE g : Reads(g, DOMAIN events, events) IN
           Heard(events) = h[DOMAIN events] /\ Reads(h, DOMAIN events, events)
<1>1. Heard(events) = (CHOOSE g : Reads(g, DOMAIN events, events))[DOMAIN events]
  BY DEF Heard, FoldLeft, MapThenFoldSet, Reads
<1> DEFINE D == DOMAIN events
<1>2. IsFiniteSet(D) /\ D \subseteq Int /\ \A i \in D : events[i] \in Events BY PositionsType
<1> HIDE DEF D
<1>3. \E g : Reads(g, D, events) BY <1>2, ReadsExist
<1> QED BY <1>1, <1>3 DEF D

LEMMA HeardEmpty == Heard(<<>>) = Fresh
<1> DEFINE none == <<>>
<1>1. none \in Seq(Events) /\ DOMAIN none = {} OBVIOUS
<1> HIDE DEF none
<1>2. PICK h : Heard(none) = h[{}] /\ Reads(h, {}, none) BY <1>1, HeardIs
<1>3. {} \in SUBSET {} OBVIOUS
<1> QED BY <1>2, <1>3 DEF Reads, none

LEMMA HeardAppend ==
    ASSUME NEW w \in Seq(Events), NEW e \in Events
    PROVE  Heard(Append(w, e)) = Read(Heard(w), e)
<1> DEFINE events == Append(w, e)
           D == DOMAIN events
           C == DOMAIN w
<1>1. /\ events \in Seq(Events) /\ D \ {Max(D)} = C /\ events[Max(D)] = e /\ D # {}
      /\ C \subseteq D /\ \A j \in C : events[j] = w[j]
  <2>1. \A j \in C : events[j] = w[j] BY AppendPositions
  <2>2. events \in Seq(Events) /\ D # {} /\ C \subseteq D BY AppendPositions
  <2>3. D \ {Max(D)} = C BY AppendPositions
  <2>4. events[Max(D)] = e BY AppendPositions
  <2> QED BY <2>1, <2>2, <2>3, <2>4
<1> HIDE DEF events
<1>2. PICK h : Heard(events) = h[D] /\ Reads(h, D, events) BY <1>1, HeardIs
<1>3. PICK g : Heard(w) = g[C] /\ Reads(g, C, w) BY HeardIs
<1>4. h[D] = Read(h[C], e)
  <2>1. D \in SUBSET D OBVIOUS
  <2> HIDE DEF D
  <2>2. h[D] = IF D = {} THEN Fresh ELSE Read(h[D \ {Max(D)}], events[Max(D)])
    BY <1>2, <2>1 DEF Reads
  <2> QED BY <1>1, <2>2
<1>5. h[C] = g[C]
  <2> DEFINE Good == {T \in SUBSET C : h[T] = g[T]}
  <2>1. IsFiniteSet(C) /\ C \subseteq Int BY PositionsType
  <2>2. ASSUME NEW T \in SUBSET C, \A W \in SUBSET T : W # T => W \in Good
        PROVE  T \in Good
    <3>1. T \in SUBSET D /\ T \in SUBSET C BY <1>1
    <3>2. h[T] = IF T = {} THEN Fresh ELSE Read(h[T \ {Max(T)}], events[Max(T)])
      <4> HIDE DEF D
      <4> QED BY <1>2, <3>1 DEF Reads
    <3>3. g[T] = IF T = {} THEN Fresh ELSE Read(g[T \ {Max(T)}], w[Max(T)])
      BY <1>3, <3>1 DEF Reads
    <3>4. CASE T = {} BY <3>2, <3>3, <3>4
    <3>5. CASE T # {}
      <4>1. IsFiniteSet(T) /\ T \subseteq Int BY <2>1, FS_Subset
      <4>2. Max(T) \in T BY <3>5, <4>1, MaxIn
      <4>3. T \ {Max(T)} \in Good /\ events[Max(T)] = w[Max(T)] BY <1>1, <2>2, <4>2
      <4> QED BY <3>2, <3>3, <3>5, <4>3
    <3> QED BY <3>4, <3>5
  <2> HIDE DEF Good, C
  <2>3. C \in Good BY <2>1, <2>2, SubsetInduction
  <2> QED BY <2>3 DEF Good
<1> QED BY <1>2, <1>3, <1>4, <1>5 DEF events

\* The same of the text a validating reader would not need.
Joins(g, D, events, i) ==
    g = [T \in SUBSET D |-> IF T = {} THEN "" ELSE JoinAt(g[T \ {Max(T)}], events[Max(T)], i)]

LEMMA JoinAtType ==
    ASSUME NEW text \in Texts, NEW e \in Events, NEW i \in Nat
    PROVE  JoinAt(text, e, i) \in Texts
<1>1. CASE ~PieceAt(e, i) BY <1>1 DEF JoinAt
<1>2. CASE PieceAt(e, i)
  <2>1. e.piece # NoPiece
    <3>1. NoPiece.index = -2 /\ e.piece.index = i BY <1>2 DEF PieceAt, NoPiece
    <3> QED BY <3>1
  <2>2. e.piece.args \in Texts BY <1>2, <2>1, EventType, PieceType DEF PieceAt
  <2> QED BY <1>2, <2>2, JoinType DEF JoinAt
<1> QED BY <1>1, <1>2

LEMMA JoinsExist ==
    ASSUME NEW D, IsFiniteSet(D), D \subseteq Int, NEW events, \A j \in D : events[j] \in Events,
           NEW i \in Nat
    PROVE  \E g : Joins(g, D, events, i)
<1> DEFINE F == [q \in Texts \X D |-> JoinAt(q[1], events[q[2]], i)]
           c == [T \in SUBSET D |-> Max(T)]
<1>1. ASSUME NEW T \in SUBSET D, T # {} PROVE Max(T) \in T
  <2>1. IsFiniteSet(T) /\ T \subseteq Int BY FS_Subset
  <2> QED BY <1>1, <2>1, MaxIn
<1>2. F \in [Texts \X D -> Texts]
  BY JoinAtType
<1>3. PICK g \in [SUBSET D -> Texts] : Fold(g, D, "", F, c)
  <2>1. \A T \in SUBSET D : T # {} => c[T] \in T BY <1>1
  <2>2. "" \in Texts BY DEF Texts
  <2> HIDE DEF F, c
  <2> QED BY <1>2, <2>1, <2>2, FoldExists
<1>4. ASSUME NEW T \in SUBSET D, T # {}
      PROVE  g[T] = JoinAt(g[T \ {Max(T)}], events[Max(T)], i)
  <2>1. c[T] = Max(T) /\ c[T] \in D BY <1>1, <1>4
  <2>2. g[T \ {c[T]}] \in Texts OBVIOUS
  <2>3. g[T] = F[<<g[T \ {c[T]}], c[T]>>] BY <1>3, <1>4 DEF Fold
  <2> DEFINE q == <<g[T \ {c[T]}], c[T]>>
  <2>4. q \in Texts \X D /\ q[1] = g[T \ {c[T]}] /\ q[2] = c[T] BY <2>1, <2>2
  <2> HIDE DEF q
  <2>5. F[q] = JoinAt(g[T \ {c[T]}], events[c[T]], i) BY <2>4
  <2> QED BY <2>1, <2>3, <2>5 DEF q
<1>5. g[{}] = "" BY <1>3 DEF Fold
<1>6. \A T \in SUBSET D :
        g[T] = IF T = {} THEN "" ELSE JoinAt(g[T \ {Max(T)}], events[Max(T)], i)
  BY <1>4, <1>5
<1>7. g = [T \in SUBSET D |-> g[T]] OBVIOUS
<1>8. Joins(g, D, events, i) BY <1>6, <1>7, Zenon DEF Joins
<1> QED BY <1>8

LEMMA ArgsAtIs ==
    ASSUME NEW events \in Seq(Events), NEW i \in Nat
    PROVE  LET h == CHOOSE g : Joins(g, DOMAIN events, events, i) IN
           ArgsAt(events, i) = h[DOMAIN events] /\ Joins(h, DOMAIN events, events, i)
<1>1. ArgsAt(events, i) = (CHOOSE g : Joins(g, DOMAIN events, events, i))[DOMAIN events]
  BY DEF ArgsAt, FoldLeft, MapThenFoldSet, Joins
<1> DEFINE D == DOMAIN events
<1>2. IsFiniteSet(D) /\ D \subseteq Int /\ \A j \in D : events[j] \in Events BY PositionsType
<1> HIDE DEF D
<1>3. \E g : Joins(g, D, events, i) BY <1>2, JoinsExist
<1> QED BY <1>1, <1>3 DEF D

LEMMA ArgsAtEmpty ==
    ASSUME NEW i \in Nat
    PROVE  ArgsAt(<<>>, i) = ""
<1> DEFINE none == <<>>
<1>1. none \in Seq(Events) /\ DOMAIN none = {} OBVIOUS
<1> HIDE DEF none
<1>2. PICK h : ArgsAt(none, i) = h[{}] /\ Joins(h, {}, none, i) BY <1>1, ArgsAtIs
<1>3. {} \in SUBSET {} OBVIOUS
<1> QED BY <1>2, <1>3 DEF Joins, none

LEMMA ArgsAtAppend ==
    ASSUME NEW w \in Seq(Events), NEW e \in Events, NEW i \in Nat
    PROVE  ArgsAt(Append(w, e), i) = JoinAt(ArgsAt(w, i), e, i)
<1> DEFINE events == Append(w, e)
           D == DOMAIN events
           C == DOMAIN w
<1>1. /\ events \in Seq(Events) /\ D \ {Max(D)} = C /\ events[Max(D)] = e /\ D # {}
      /\ C \subseteq D /\ \A j \in C : events[j] = w[j]
  <2>1. \A j \in C : events[j] = w[j] BY AppendPositions
  <2>2. events \in Seq(Events) /\ D # {} /\ C \subseteq D BY AppendPositions
  <2>3. D \ {Max(D)} = C BY AppendPositions
  <2>4. events[Max(D)] = e BY AppendPositions
  <2> QED BY <2>1, <2>2, <2>3, <2>4
<1> HIDE DEF events
<1>2. PICK h : ArgsAt(events, i) = h[D] /\ Joins(h, D, events, i) BY <1>1, ArgsAtIs
<1>3. PICK g : ArgsAt(w, i) = g[C] /\ Joins(g, C, w, i) BY ArgsAtIs
<1>4. h[D] = JoinAt(h[C], e, i)
  <2>1. D \in SUBSET D OBVIOUS
  <2> HIDE DEF D
  <2>2. h[D] = IF D = {} THEN "" ELSE JoinAt(h[D \ {Max(D)}], events[Max(D)], i)
    BY <1>2, <2>1 DEF Joins
  <2> QED BY <1>1, <2>2
<1>5. h[C] = g[C]
  <2> DEFINE Good == {T \in SUBSET C : h[T] = g[T]}
  <2>1. IsFiniteSet(C) /\ C \subseteq Int BY PositionsType
  <2>2. ASSUME NEW T \in SUBSET C, \A W \in SUBSET T : W # T => W \in Good
        PROVE  T \in Good
    <3>1. T \in SUBSET D /\ T \in SUBSET C BY <1>1
    <3>2. h[T] = IF T = {} THEN "" ELSE JoinAt(h[T \ {Max(T)}], events[Max(T)], i)
      <4> HIDE DEF D
      <4> QED BY <1>2, <3>1 DEF Joins
    <3>3. g[T] = IF T = {} THEN "" ELSE JoinAt(g[T \ {Max(T)}], w[Max(T)], i)
      BY <1>3, <3>1 DEF Joins
    <3>4. CASE T = {} BY <3>2, <3>3, <3>4
    <3>5. CASE T # {}
      <4>1. IsFiniteSet(T) /\ T \subseteq Int BY <2>1, FS_Subset
      <4>2. Max(T) \in T BY <3>5, <4>1, MaxIn
      <4>3. T \ {Max(T)} \in Good /\ events[Max(T)] = w[Max(T)] BY <1>1, <2>2, <4>2
      <4> QED BY <3>2, <3>3, <3>5, <4>3
    <3> QED BY <3>4, <3>5
  <2> HIDE DEF Good, C
  <2>3. C \in Good BY <2>1, <2>2, SubsetInduction
  <2> QED BY <2>3 DEF Good
<1> QED BY <1>2, <1>3, <1>4, <1>5 DEF events

\* What the reader of an accepted stream and one that validates nothing have
\* in common: the tool calls begun, with their first ids and whole arguments,
PiecesKnown(events, s) ==
    \A j \in DOMAIN events : events[j].kind = "delta" /\ events[j].piece # NoPiece
        => events[j].piece.index \in 0..(Len(s.ids) - 1)
Begun(events, s, i) ==
    /\ \E j \in DOMAIN events :
          /\ PieceAt(events[j], i) /\ events[j].piece.id = s.ids[i + 1]
          /\ \A k \in DOMAIN events : PieceAt(events[k], i) => j <= k
    /\ s.args[i + 1] = ArgsAt(events, i)
NotBegun(events, s) == \A i \in Nat : i >= Len(s.ids) => ArgsAt(events, i) = ""
Distinct(s) == \A i, j \in 1..Len(s.ids) : s.ids[i] = s.ids[j] => i = j
ToolsHeard(events, s) ==
    /\ Len(s.args) = Len(s.ids) /\ PiecesKnown(events, s)
    /\ \A i \in 0..(Len(s.ids) - 1) : Begun(events, s, i)
    /\ NotBegun(events, s) /\ Distinct(s)
\* the finish reason, and the usage behind it.
FinishHeard(events, s) ==
    /\ \A f \in {"stop", "tool_calls"} : Says(events, f) <=> s.finish = f
    /\ s.finish # "none" => ((s.finish = "tool_calls") <=> Len(s.ids) > 0)
UsagesOf(events) == {events[i].usage : i \in {j \in DOMAIN events : events[j].kind = "usage"}}
UsageHeard(events, s) ==
    /\ s.usage # Absent =>
          /\ s.finish # "none" /\ UsagesOf(events) = {s.usage}
          /\ \A i \in 1..Len(s.ids) : Strict(s.args[i])
    /\ s.usage = Absent => UsagesOf(events) = {}

ReadInv(events) ==
    /\ ToolsHeard(events, Heard(events)) /\ FinishHeard(events, Heard(events))
    /\ UsageHeard(events, Heard(events))

\* What an event that is not refused does to its reader.
LEMMA ReadOpen ==
    ASSUME NEW s \in Readers, NEW e \in Events, Read(s, e).open
    PROVE  /\ s.open
           /\ \/ /\ e.kind = "done" /\ Read(s, e) = [s EXCEPT !.done = TRUE]
              \/ /\ e.kind = "usage" /\ s.usage = Absent /\ s.finish # "none" /\ e.usage # Bad
                 /\ Read(s, e) = [s EXCEPT !.usage = e.usage]
                 /\ \A i \in DOMAIN s.args : Strict(s.args[i])
              \/ /\ e.kind = "delta" /\ s.usage = Absent /\ s.finish = "none"
                 /\ Read(s, e) = ReadDelta(s, e)
<1>1. s.open BY DEF Read
<1>2. ~Broken(s).open BY DEF Broken, Readers
<1>3. CASE e.kind = "done"
  <2>1. Read(s, e) = ReadDone(s) BY <1>1, <1>3 DEF Read
  <2>2. ReadDone(s) = [s EXCEPT !.done = TRUE] BY <1>2, <2>1 DEF ReadDone
  <2> QED BY <1>1, <1>3, <2>1, <2>2
<1>4. CASE e.kind = "usage"
  <2>1. Read(s, e) = ReadUsage(s, e.usage) BY <1>1, <1>2, <1>4 DEF Read
  <2>2. ~[Broken(s) EXCEPT !.usage = e.usage].open BY DEF Broken, Readers
  <2>3. s.usage = Absent /\ s.finish # "none" /\ e.usage # Bad
    BY <1>2, <2>1 DEF ReadUsage
  <2>4. ~\E i \in DOMAIN s.args : ~Strict(s.args[i])
    BY <1>2, <2>1, <2>2, <2>3 DEF ReadUsage
  <2>5. ReadUsage(s, e.usage) = [s EXCEPT !.usage = e.usage]
    BY <2>3, <2>4 DEF ReadUsage
  <2> QED BY <1>1, <1>4, <2>1, <2>3, <2>4, <2>5
<1>5. CASE e.kind = "delta"
  <2>1. Read(s, e) = ReadDelta(s, e) BY <1>1, <1>2, <1>5 DEF Read
  <2>2. s.usage = Absent /\ s.finish = "none" BY <1>2, <2>1 DEF ReadDelta
  <2> QED BY <1>1, <1>5, <2>1, <2>2
<1>6. e.kind # "junk" BY <1>1, <1>2 DEF Read
<1> QED BY <1>3, <1>4, <1>5, <1>6, EventType

\* What a piece that is not refused does.
Begins(s, p, t) ==
    /\ p.index = Len(s.ids) /\ p.id \in {"a", "b"} /\ p.id \notin ToSet(s.ids)
    /\ t.ids = Append(s.ids, p.id) /\ t.args = Append(s.args, p.args)
Continues(s, p, t) ==
    /\ p.index = Len(s.ids) - 1 /\ p.index # -1
    /\ t.ids = s.ids
    /\ t.args = [s.args EXCEPT ![p.index + 1] = Join(s.args[p.index + 1], p.args)]

LEMMA ReadPieceOpen ==
    ASSUME NEW s \in Readers, NEW p \in Pieces \cup {NoPiece}, ReadPiece(s, p).open
    PROVE  LET t == ReadPiece(s, p) IN
           /\ t.usage = s.usage /\ t.done = s.done /\ t.finish = s.finish
           /\ \/ p = NoPiece /\ t.ids = s.ids /\ t.args = s.args
              \/ p # NoPiece /\ (Begins(s, p, t) \/ Continues(s, p, t))
<1> DEFINE t == ReadPiece(s, p)
<1>1. ~Broken(s).open BY DEF Broken, Readers
<1>2. CASE p = NoPiece
  <2>1. t = s BY <1>2 DEF ReadPiece
  <2> QED BY <1>2, <2>1
<1>3. CASE p # NoPiece /\ p.index = NextIndex(s)
  <2>1. t = BeginTool(s, p) BY <1>3 DEF ReadPiece
  <2>2. ~(p.id = "none" \/ p.id \in ToSet(s.ids)) BY <1>1, <2>1 DEF BeginTool
  <2>3. t = [s EXCEPT !.ids = Append(s.ids, p.id), !.args = Append(s.args, p.args)]
    BY <2>1, <2>2 DEF BeginTool
  <2>4. /\ t.ids = Append(s.ids, p.id) /\ t.args = Append(s.args, p.args)
        /\ t.usage = s.usage /\ t.done = s.done /\ t.finish = s.finish
    BY <2>3 DEF Readers
  <2>5. p.id \in {"a", "b"} BY <1>3, <2>2, PieceType
  <2> HIDE DEF t
  <2> QED BY <1>3, <2>2, <2>4, <2>5 DEF Begins, NextIndex, t
<1>4. CASE p # NoPiece /\ p.index # NextIndex(s)
  <2>1. p.index = NextIndex(s) - 1 BY <1>1, <1>4 DEF ReadPiece
  <2>2. t = ContinueTool(s, p) BY <1>4, <2>1 DEF ReadPiece
  <2>3. ~[Broken(s) EXCEPT !.raised = TRUE].open BY DEF Broken, Readers
  <2>4. p.index # -1 BY <2>2, <2>3 DEF ContinueTool
  <2>5. p.id \in {"none", s.ids[p.index + 1]} BY <1>1, <2>2, <2>4 DEF ContinueTool
  <2> DEFINE args == [s.args EXCEPT ![p.index + 1] = Join(s.args[p.index + 1], p.args)]
  <2>6. t = [s EXCEPT !.args = args]
    <3>1. ContinueTool(s, p) = [s EXCEPT !.args[p.index + 1] = Join(s.args[p.index + 1], p.args)]
      BY <2>4, <2>5, Zenon DEF ContinueTool
    <3> QED BY <2>2, <3>1
  <2> HIDE DEF args
  <2>7. t.args = args /\ t.ids = s.ids
        /\ t.usage = s.usage /\ t.done = s.done /\ t.finish = s.finish
    BY <2>6 DEF Readers
  <2> HIDE DEF t
  <2> QED BY <1>4, <2>1, <2>4, <2>7 DEF Continues, NextIndex, args, t
<1> QED BY <1>2, <1>3, <1>4

\* What a delta that is not refused does.
LEMMA ReadDeltaOpen ==
    ASSUME NEW s \in Readers, NEW e \in Events, e.kind = "delta", ReadDelta(s, e).open
    PROVE  LET t == ReadDelta(s, e) IN
           /\ t.usage = s.usage /\ t.finish = e.finish
           /\ e.finish # "none" => ((e.finish = "tool_calls") <=> t.ids # <<>>)
           /\ \/ e.piece = NoPiece /\ t.ids = s.ids /\ t.args = s.args
              \/ e.piece # NoPiece /\ (Begins(s, e.piece, t) \/ Continues(s, e.piece, t))
<1> DEFINE t == ReadDelta(s, e)
           begun == [s EXCEPT !.role = s.role \/ e.role, !.begun = TRUE]
           tool == ReadPiece(begun, e.piece)
<1>1. ~Broken(s).open BY DEF Broken, Readers
<1>2. e.role \in BOOLEAN /\ e.finish \in Finishes /\ e.piece \in Pieces \cup {NoPiece}
  BY EventType
<1>3. begun \in Readers /\ begun.ids = s.ids /\ begun.args = s.args /\ begun.usage = s.usage
  <2>1. (s.role \/ e.role) \in BOOLEAN OBVIOUS
  <2> QED BY <2>1 DEF Readers
<1> HIDE DEF begun
<1>4. tool \in Readers BY <1>2, <1>3, ReadPieceType
<1>5. t = IF tool.open THEN ReadFinish(tool, e.finish) ELSE tool
  BY <1>1 DEF ReadDelta, begun
<1>6. tool.open
  <2> HIDE DEF tool
  <2> QED BY <1>5
<1>7. /\ tool.usage = s.usage
      /\ \/ e.piece = NoPiece /\ tool.ids = s.ids /\ tool.args = s.args
         \/ e.piece # NoPiece /\ (Begins(begun, e.piece, tool) \/ Continues(begun, e.piece, tool))
  BY <1>2, <1>3, <1>6, ReadPieceOpen
<1> HIDE DEF tool
<1>8. ~Broken(tool).open BY <1>4 DEF Broken, Readers
<1>9. t = ReadFinish(tool, e.finish) BY <1>5, <1>6
<1>10. ~(e.finish # "none" /\ (e.finish = "tool_calls") # (tool.ids # <<>>))
  BY <1>8, <1>9 DEF ReadFinish
<1>11. t = [tool EXCEPT !.finish = e.finish] BY <1>9, <1>10 DEF ReadFinish
<1> HIDE DEF t
<1>12. t.ids = tool.ids /\ t.args = tool.args /\ t.usage = tool.usage /\ t.finish = e.finish
  BY <1>4, <1>11 DEF Readers
<1>13. Begins(begun, e.piece, tool) => Begins(s, e.piece, t) BY <1>3, <1>12 DEF Begins
<1>14. Continues(begun, e.piece, tool) => Continues(s, e.piece, t) BY <1>3, <1>12 DEF Continues
<1>15. t.usage = s.usage /\ t.finish = e.finish BY <1>7, <1>12
<1>16. e.finish # "none" => ((e.finish = "tool_calls") <=> t.ids # <<>>) BY <1>10, <1>12
<1> QED BY <1>7, <1>12, <1>13, <1>14, <1>15, <1>16 DEF t

LEMMA SaysAppend ==
    ASSUME NEW w \in Seq(Events), NEW e \in Events, NEW f
    PROVE  Says(Append(w, e), f) <=> Says(w, f) \/ (e.kind = "delta" /\ e.finish = f)
<1> DEFINE events == Append(w, e)
           m == Len(w) + 1
<1>1. DOMAIN events = DOMAIN w \cup {m} /\ events[m] = e /\ \A j \in DOMAIN w : events[j] = w[j]
  BY AppendPositions
<1> HIDE DEF events, m
<1>2. Says(events, f) <=> Says(w, f) \/ (e.kind = "delta" /\ e.finish = f)
  BY <1>1 DEF Says
<1> QED BY <1>2 DEF events

LEMMA UsagesAppend ==
    ASSUME NEW w \in Seq(Events), NEW e \in Events
    PROVE  UsagesOf(Append(w, e)) = UsagesOf(w) \cup (IF e.kind = "usage" THEN {e.usage} ELSE {})
<1> DEFINE events == Append(w, e)
           m == Len(w) + 1
<1>1. DOMAIN events = DOMAIN w \cup {m} /\ events[m] = e /\ \A j \in DOMAIN w : events[j] = w[j]
  BY AppendPositions
<1> HIDE DEF events, m
<1>2. UsagesOf(events) = UsagesOf(w) \cup (IF e.kind = "usage" THEN {e.usage} ELSE {})
  BY <1>1 DEF UsagesOf
<1> QED BY <1>2 DEF events

\* An event without a piece leaves the tool calls what they were,
LEMMA ToolsQuiet ==
    ASSUME NEW w \in Seq(Events), NEW e \in Events, NEW s \in Readers, NEW t \in Readers,
           ToolsHeard(w, s), t.ids = s.ids, t.args = s.args, e.kind # "delta" \/ e.piece = NoPiece
    PROVE  ToolsHeard(Append(w, e), t)
<1> DEFINE events == Append(w, e)
           m == Len(w) + 1
<1>1. DOMAIN events = DOMAIN w \cup {m} /\ events[m] = e /\ \A j \in DOMAIN w : events[j] = w[j]
  BY AppendPositions
<1>2. Len(s.ids) \in Nat BY DEF Readers
<1>3. ASSUME NEW i \in Nat PROVE ~PieceAt(e, i) /\ ArgsAt(events, i) = ArgsAt(w, i)
  <2>1. ~PieceAt(e, i)
    <3>1. NoPiece.index = -2 BY DEF NoPiece
    <3> QED BY <3>1 DEF PieceAt
  <2>2. ArgsAt(events, i) = JoinAt(ArgsAt(w, i), e, i) BY ArgsAtAppend
  <2> HIDE DEF events
  <2> QED BY <2>1, <2>2 DEF JoinAt
<1> HIDE DEF events, m
<1>4. ASSUME NEW i \in 0..(Len(t.ids) - 1)
      PROVE  Begun(events, t, i)
  <2>1. i \in Nat /\ i \in 0..(Len(s.ids) - 1) BY <1>2
  <2>begun. Begun(w, s, i) BY <2>1 DEF ToolsHeard
  <2>2. PICK j \in DOMAIN w :
                /\ PieceAt(w[j], i) /\ w[j].piece.id = s.ids[i + 1]
                /\ \A k \in DOMAIN w : PieceAt(w[k], i) => j <= k
    BY <2>begun DEF Begun
  <2>3. s.args[i + 1] = ArgsAt(w, i) BY <2>begun DEF Begun
  <2>4. \A k \in DOMAIN events : PieceAt(events[k], i) => j <= k
    BY <1>1, <1>3, <2>1, <2>2
  <2>5. t.args[i + 1] = ArgsAt(events, i) BY <1>3, <2>1, <2>3
  <2>6. j \in DOMAIN events /\ PieceAt(events[j], i) /\ events[j].piece.id = t.ids[i + 1]
    BY <1>1, <2>2
  <2> QED BY <2>4, <2>5, <2>6 DEF Begun
<1>5. NotBegun(events, t) BY <1>3 DEF ToolsHeard, NotBegun
<1>6. Len(t.args) = Len(t.ids) /\ Distinct(t)
  BY DEF ToolsHeard, Distinct
<1>7. PiecesKnown(events, t) BY <1>1 DEF ToolsHeard, PiecesKnown
<1>8. ToolsHeard(events, t) BY <1>4, <1>5, <1>6, <1>7 DEF ToolsHeard
<1> QED BY <1>8 DEF events

\* the first piece of a tool call adds it,
LEMMA ToolsBegin ==
    ASSUME NEW w \in Seq(Events), NEW e \in Events, NEW s \in Readers, NEW t \in Readers,
           ToolsHeard(w, s), e.kind = "delta", Begins(s, e.piece, t)
    PROVE  ToolsHeard(Append(w, e), t)
<1> DEFINE events == Append(w, e)
           m == Len(w) + 1
           n == Len(s.ids)
           p == e.piece
<1>1. /\ DOMAIN events = DOMAIN w \cup {m} /\ events[m] = e /\ m \in Int
      /\ \A j \in DOMAIN w : events[j] = w[j] /\ j < m
  BY AppendPositions
<1>2. DOMAIN w \subseteq Int BY PositionsType
<1>3. n \in Nat /\ s.ids \in Seq({"a", "b"}) /\ s.args \in Seq(Texts) /\ Len(s.args) = n
  BY DEF Readers, ToolsHeard
<1>unbegun. \A i \in Nat : i >= n => ArgsAt(w, i) = ""
  <2>1. NotBegun(w, s) BY DEF ToolsHeard
  <2> QED BY <2>1 DEF NotBegun
<1>4. p.index = n /\ p.id \in {"a", "b"} /\ p.id \notin ToSet(s.ids) BY DEF Begins
<1>5. /\ Len(t.ids) = n + 1 /\ t.ids[n + 1] = p.id
      /\ \A i \in 1..n : t.ids[i] = s.ids[i]
  <2>1. t.ids = Append(s.ids, p.id) BY DEF Begins
  <2> HIDE DEF p
  <2> QED BY <1>3, <1>4, <2>1
<1>6. /\ Len(t.args) = n + 1 /\ t.args[n + 1] = p.args
      /\ \A i \in 1..n : t.args[i] = s.args[i]
  <2>1. t.args = Append(s.args, p.args) BY DEF Begins
  <2> HIDE DEF p
  <2> QED BY SMTT(40), <1>3, <2>1
<1>7. \A i \in Nat : PieceAt(e, i) <=> i = n BY <1>4 DEF PieceAt
<1>8. \A i \in Nat : ArgsAt(events, i) = JoinAt(ArgsAt(w, i), e, i) BY ArgsAtAppend
<1>9. \A i \in Nat : i # n => ArgsAt(events, i) = ArgsAt(w, i)
  <2> HIDE DEF events
  <2> QED BY <1>7, <1>8 DEF JoinAt
<1>10. ArgsAt(events, n) = p.args
  <2>1. ArgsAt(w, n) = ""
    <3> HIDE DEF n
    <3>1. n >= n BY <1>3
    <3> QED BY <1>3, <1>unbegun, <3>1
  <2>2. ArgsAt(events, n) = Join("", p.args)
    <3> HIDE DEF events, n
    <3> QED BY <1>3, <1>7, <1>8, <2>1 DEF JoinAt
  <2> QED BY <2>2 DEF Join
<1> HIDE DEF events, m, p
<1>11. ASSUME NEW i \in 0..(n - 1)
       PROVE  Begun(events, t, i)
  <2>1. i \in Nat /\ i # n /\ i + 1 \in 1..n BY <1>3
  <2>begun. Begun(w, s, i) BY DEF ToolsHeard
  <2>2. PICK j \in DOMAIN w :
                /\ PieceAt(w[j], i) /\ w[j].piece.id = s.ids[i + 1]
                /\ \A k \in DOMAIN w : PieceAt(w[k], i) => j <= k
    BY <2>begun DEF Begun
  <2>3. s.args[i + 1] = ArgsAt(w, i) BY <2>begun DEF Begun
  <2>4. \A k \in DOMAIN events : PieceAt(events[k], i) => j <= k
    BY <1>1, <1>7, <2>1, <2>2
  <2>5. t.args[i + 1] = ArgsAt(events, i) BY <1>6, <1>9, <2>1, <2>3
  <2>6. j \in DOMAIN events /\ PieceAt(events[j], i) /\ events[j].piece.id = t.ids[i + 1]
    BY <1>1, <1>5, <2>1, <2>2
  <2> QED BY <2>4, <2>5, <2>6 DEF Begun
<1>12. Begun(events, t, n)
  <2>1. m \in DOMAIN events /\ PieceAt(events[m], n) /\ events[m].piece.id = t.ids[n + 1]
    BY <1>1, <1>3, <1>5, <1>7 DEF p
  <2>2. ASSUME NEW k \in DOMAIN w PROVE ~PieceAt(w[k], n)
    <3>1. n # NoPiece.index BY <1>3 DEF NoPiece
    <3>2. SUFFICES ASSUME PieceAt(w[k], n) PROVE FALSE OBVIOUS
    <3>3. w[k].kind = "delta" /\ w[k].piece # NoPiece /\ w[k].piece.index = n
      BY <3>1, <3>2 DEF PieceAt
    <3>4. n \in 0..(n - 1) BY <3>3 DEF ToolsHeard, PiecesKnown
    <3> QED BY <1>3, <3>4
  <2>3. \A k \in DOMAIN events : PieceAt(events[k], n) => m <= k
    BY <1>1, <2>2
  <2> QED BY <1>6, <1>10, <2>1, <2>3 DEF Begun
<1>13. \A i \in 0..(Len(t.ids) - 1) : i \in 0..(n - 1) \/ i = n BY <1>3, <1>5
<1>14. NotBegun(events, t)
  <2>1. Len(t.ids) = n + 1 BY <1>5
  <2> HIDE DEF n
  <2>2. \A i \in Nat : i >= n + 1 => i >= n /\ i # n BY <1>3
  <2> QED BY <1>9, <1>unbegun, <2>1, <2>2 DEF NotBegun
<1>15. ASSUME NEW i \in 1..Len(t.ids), NEW j \in 1..Len(t.ids), t.ids[i] = t.ids[j]
       PROVE  i = j
  <2>1. \A k \in 1..n : s.ids[k] # p.id BY <1>3, <1>4 DEF ToSet
  <2>2. \A k \in 1..Len(t.ids) : k \in 1..n \/ k = n + 1 BY <1>3, <1>5
  <2>3. \A k, l \in 1..n : s.ids[k] = s.ids[l] => k = l BY DEF ToolsHeard, Distinct
  <2> QED BY <1>5, <1>15, <2>1, <2>2, <2>3
<1>16. PiecesKnown(events, t)
  <2>1. \A j \in DOMAIN w : w[j].kind = "delta" /\ w[j].piece # NoPiece
          => w[j].piece.index \in 0..(n - 1)
    BY DEF ToolsHeard, PiecesKnown
  <2>2. e.piece.index \in 0..(Len(t.ids) - 1) BY <1>3, <1>4, <1>5 DEF p
  <2>3. \A i \in 0..(n - 1) : i \in 0..(Len(t.ids) - 1) BY <1>3, <1>5
  <2> QED BY <1>1, <2>1, <2>2, <2>3 DEF PiecesKnown
<1> HIDE DEF n
<1>17. \A i \in 0..(Len(t.ids) - 1) :
          Begun(events, t, i)
  BY <1>11, <1>12, <1>13
<1>18. Len(t.args) = Len(t.ids) BY <1>5, <1>6
<1>19. ToolsHeard(events, t) BY <1>14, <1>15, <1>16, <1>17, <1>18 DEF ToolsHeard, Distinct
<1> QED BY <1>19 DEF events

\* a later one adds to its arguments.
LEMMA ToolsContinue ==
    ASSUME NEW w \in Seq(Events), NEW e \in Events, NEW s \in Readers, NEW t \in Readers,
           ToolsHeard(w, s), e.kind = "delta", e.piece # NoPiece, Continues(s, e.piece, t)
    PROVE  ToolsHeard(Append(w, e), t)
<1> DEFINE events == Append(w, e)
           m == Len(w) + 1
           n == Len(s.ids)
           p == e.piece
<1>1. /\ DOMAIN events = DOMAIN w \cup {m} /\ events[m] = e /\ m \in Int
      /\ \A j \in DOMAIN w : events[j] = w[j] /\ j < m
  BY AppendPositions
<1>2. DOMAIN w \subseteq Int BY PositionsType
<1>3. n \in Nat /\ s.ids \in Seq({"a", "b"}) /\ s.args \in Seq(Texts) /\ Len(s.args) = n
  BY DEF Readers, ToolsHeard
<1>unbegun. \A i \in Nat : i >= n => ArgsAt(w, i) = ""
  <2>1. NotBegun(w, s) BY DEF ToolsHeard
  <2> QED BY <2>1 DEF NotBegun
<1>4. p.index = n - 1 /\ p.index \in 0..(n - 1) /\ p.index \in Nat
  BY <1>3 DEF Continues
<1>5. t.ids = s.ids BY DEF Continues
<1>6. /\ Len(t.args) = n /\ t.args[n] = Join(s.args[n], p.args)
      /\ \A i \in 1..(n - 1) : t.args[i] = s.args[i]
  <2>1. t.args = [s.args EXCEPT ![n] = Join(s.args[n], p.args)]
    <3>1. p.index + 1 = n BY <1>3, <1>4
    <3> QED BY <3>1 DEF Continues
  <2>2. DOMAIN s.args = 1..n /\ n \in 1..n BY <1>3, <1>4
  <2>3. t.args \in Seq(Texts) BY DEF Readers
  <2> HIDE DEF p, n
  <2>4. DOMAIN t.args = 1..n BY <2>1, <2>2
  <2>5. Len(t.args) = n BY <1>3, <2>3, <2>4
  <2>6. t.args[n] = Join(s.args[n], p.args) BY <2>1, <2>2
  <2>7. \A i \in 1..(n - 1) : i \in 1..n /\ i # n BY <1>3
  <2>8. \A i \in 1..(n - 1) : t.args[i] = s.args[i] BY <2>1, <2>2, <2>7
  <2> QED BY <2>5, <2>6, <2>8
<1>7. \A i \in Nat : PieceAt(e, i) <=> i = n - 1 BY <1>4 DEF PieceAt
<1>8. \A i \in Nat : ArgsAt(events, i) = JoinAt(ArgsAt(w, i), e, i) BY ArgsAtAppend
<1>9. \A i \in Nat : i # n - 1 => ArgsAt(events, i) = ArgsAt(w, i)
  <2> HIDE DEF events
  <2> QED BY <1>7, <1>8 DEF JoinAt
<1>10. ArgsAt(events, n - 1) = Join(s.args[n], p.args)
  <2>1. n - 1 \in Nat /\ n - 1 \in 0..(n - 1) /\ (n - 1) + 1 = n BY <1>3, <1>4
  <2>2. s.args[n] = ArgsAt(w, n - 1)
    <3>1. Begun(w, s, n - 1) BY <2>1 DEF ToolsHeard
    <3>2. s.args[(n - 1) + 1] = ArgsAt(w, n - 1) BY <3>1 DEF Begun
    <3> QED BY <2>1, <3>2
  <2> HIDE DEF events, n
  <2> QED BY <1>7, <1>8, <2>1, <2>2 DEF JoinAt
<1> HIDE DEF events, m, p
<1>11. ASSUME NEW i \in 0..(n - 1)
       PROVE  Begun(events, t, i)
  <2>1. i \in Nat BY <1>3
  <2>begun. Begun(w, s, i) BY DEF ToolsHeard
  <2>2. PICK j \in DOMAIN w :
                /\ PieceAt(w[j], i) /\ w[j].piece.id = s.ids[i + 1]
                /\ \A k \in DOMAIN w : PieceAt(w[k], i) => j <= k
    BY <2>begun DEF Begun
  <2>3. s.args[i + 1] = ArgsAt(w, i) BY <2>begun DEF Begun
  <2>4. \A k \in DOMAIN events : PieceAt(events[k], i) => j <= k
    BY <1>1, <1>2, <2>1, <2>2
  <2>5. t.args[i + 1] = ArgsAt(events, i)
    <3>1. CASE i = n - 1
      <4>1. i + 1 = n BY <1>3, <3>1
      <4> QED BY <1>6, <1>10, <3>1, <4>1
    <3>2. CASE i # n - 1
      <4>1. i + 1 \in 1..(n - 1) BY <1>3, <3>2
      <4> QED BY <1>6, <1>9, <2>1, <2>3, <3>2, <4>1
    <3> QED BY <3>1, <3>2
  <2>6. j \in DOMAIN events /\ PieceAt(events[j], i) /\ events[j].piece.id = t.ids[i + 1]
    BY <1>1, <1>5, <2>1, <2>2
  <2> QED BY <2>4, <2>5, <2>6 DEF Begun
<1>12. NotBegun(events, t)
  <2>1. Len(t.ids) = n BY <1>5
  <2> HIDE DEF n
  <2>2. \A i \in Nat : i >= n => i >= n /\ i # n - 1 BY <1>3
  <2> QED BY <1>9, <1>unbegun, <2>1, <2>2 DEF NotBegun
<1>13. Len(t.args) = Len(t.ids) /\ Distinct(t)
  BY <1>5, <1>6 DEF ToolsHeard, Distinct
<1>14. PiecesKnown(events, t)
  <2>1. \A j \in DOMAIN w : w[j].kind = "delta" /\ w[j].piece # NoPiece
          => w[j].piece.index \in 0..(n - 1)
    BY DEF ToolsHeard, PiecesKnown
  <2>2. e.piece.index \in 0..(n - 1) BY <1>4 DEF p
  <2> QED BY <1>1, <1>5, <2>1, <2>2 DEF PiecesKnown
<1>15. n = Len(t.ids) BY <1>5
<1> HIDE DEF n
<1>16. \A i \in 0..(Len(t.ids) - 1) :
          Begun(events, t, i)
  BY <1>11, <1>15
<1>17. ToolsHeard(events, t) BY <1>12, <1>13, <1>14, <1>16 DEF ToolsHeard
<1> QED BY <1>17 DEF events

LEMMA ReadInvEmpty == ReadInv(<<>>)
<1> DEFINE none == <<>>
           s == Heard(none)
<1>1. DOMAIN none = {} OBVIOUS
<1>2. s = Fresh BY HeardEmpty
<1>3. Len(s.ids) = 0 /\ Len(s.args) = 0 /\ s.finish = "none" /\ s.usage = Absent
  BY <1>2 DEF Fresh
<1>4. NotBegun(none, s) BY ArgsAtEmpty DEF NotBegun
<1> HIDE DEF none, s
<1>5. PiecesKnown(none, s) BY <1>1 DEF PiecesKnown
<1>6. 0..(Len(s.ids) - 1) = {} /\ Distinct(s) BY <1>3 DEF Distinct
<1>7. ToolsHeard(none, s) BY <1>3, <1>4, <1>5, <1>6 DEF ToolsHeard
<1>8. FinishHeard(none, s) BY <1>1, <1>3 DEF FinishHeard, Says
<1>9. UsageHeard(none, s) BY <1>1, <1>3 DEF UsageHeard, UsagesOf
<1> QED BY <1>7, <1>8, <1>9 DEF ReadInv, none, s

LEMMA ReadInvStep ==
    ASSUME NEW w \in Seq(Events), NEW e \in Events, ReadInv(w), Heard(Append(w, e)).open
    PROVE  ReadInv(Append(w, e))
<1> DEFINE events == Append(w, e)
           s == Heard(w)
           t == Heard(events)
<1>1. events \in Seq(Events) BY AppendPositions
<1>2. s \in Readers /\ t \in Readers BY <1>1, HeardType
<1>3. t = Read(s, e) /\ t.open BY HeardAppend
<1>4. ToolsHeard(w, s) /\ FinishHeard(w, s) /\ UsageHeard(w, s) BY DEF ReadInv
<1>5. \A f : Says(events, f) <=> Says(w, f) \/ (e.kind = "delta" /\ e.finish = f)
  BY SaysAppend
<1>6. UsagesOf(events) = UsagesOf(w) \cup (IF e.kind = "usage" THEN {e.usage} ELSE {})
  BY UsagesAppend
<1>7. SUFFICES ToolsHeard(events, t) /\ FinishHeard(events, t) /\ UsageHeard(events, t)
  BY DEF ReadInv
<1> HIDE DEF s, t
<1>8. CASE e.kind = "done" /\ t = [s EXCEPT !.done = TRUE]
  <2>1. t.ids = s.ids /\ t.args = s.args /\ t.finish = s.finish /\ t.usage = s.usage
    BY <1>2, <1>8 DEF Readers
  <2>2. ToolsHeard(events, t) BY <1>2, <1>4, <1>8, <2>1, ToolsQuiet
  <2> HIDE DEF events
  <2>3. FinishHeard(events, t) BY <1>4, <1>5, <1>8, <2>1 DEF FinishHeard
  <2>4. UsageHeard(events, t) BY <1>4, <1>6, <1>8, <2>1 DEF UsageHeard
  <2> QED BY <2>2, <2>3, <2>4
<1>9. CASE /\ e.kind = "usage" /\ s.usage = Absent /\ s.finish # "none" /\ e.usage # Bad
           /\ t = [s EXCEPT !.usage = e.usage] /\ \A i \in DOMAIN s.args : Strict(s.args[i])
  <2>1. t.ids = s.ids /\ t.args = s.args /\ t.finish = s.finish /\ t.usage = e.usage
    BY <1>2, <1>9 DEF Readers
  <2>2. ToolsHeard(events, t) BY <1>2, <1>4, <1>9, <2>1, ToolsQuiet
  <2>3. e.usage # Absent
    <3>1. e.usage \in 0..MostUnits BY <1>9, EventType
    <3> QED BY <3>1, ModelConstants DEF Absent
  <2>4. \A i \in 1..Len(t.ids) : Strict(t.args[i])
    <3>1. s.args \in Seq(Texts) /\ Len(s.args) = Len(s.ids) BY <1>2, <1>4 DEF Readers, ToolsHeard
    <3>2. DOMAIN s.args = 1..Len(s.ids) BY <3>1
    <3> QED BY <1>9, <2>1, <3>2
  <2> HIDE DEF events
  <2>5. FinishHeard(events, t) BY <1>4, <1>5, <1>9, <2>1 DEF FinishHeard
  <2>6. UsageHeard(events, t) BY <1>4, <1>6, <1>9, <2>1, <2>3, <2>4 DEF UsageHeard
  <2> QED BY <2>2, <2>5, <2>6
<1>10. CASE e.kind = "delta" /\ s.usage = Absent /\ s.finish = "none" /\ t = ReadDelta(s, e)
  <2>1. /\ t.usage = s.usage /\ t.finish = e.finish
        /\ e.finish # "none" => ((e.finish = "tool_calls") <=> t.ids # <<>>)
        /\ \/ e.piece = NoPiece /\ t.ids = s.ids /\ t.args = s.args
           \/ e.piece # NoPiece /\ (Begins(s, e.piece, t) \/ Continues(s, e.piece, t))
    BY <1>2, <1>3, <1>10, ReadDeltaOpen
  <2>2. ToolsHeard(events, t)
    BY <1>2, <1>4, <1>10, <2>1, ToolsQuiet, ToolsBegin, ToolsContinue
  <2>3. t.ids # <<>> <=> Len(t.ids) > 0
    <3>1. t.ids \in Seq({"a", "b"}) BY <1>2 DEF Readers
    <3> QED BY <3>1
  <2>4. e.finish \in {"none", "stop", "tool_calls"} BY <1>10, EventType DEF Finishes
  <2> HIDE DEF events
  <2>5. FinishHeard(events, t)
    BY <1>4, <1>5, <1>10, <2>1, <2>3, <2>4 DEF FinishHeard
  <2>6. UsageHeard(events, t) BY <1>4, <1>6, <1>10, <2>1 DEF UsageHeard
  <2> QED BY <2>2, <2>5, <2>6
<1> QED BY <1>2, <1>3, <1>8, <1>9, <1>10, ReadOpen

LEMMA StreamsSaid == \A events \in Streams : ReadInv(events)
<1> DEFINE All == {events \in Seq(Events) : ReadInv(events)}
<1>1. <<>> \in All BY ReadInvEmpty
<1>2. ASSUME NEW w \in All, NEW e \in Events, Heard(Append(w, e)).open
      PROVE  Append(w, e) \in All
  BY <1>2, ReadInvStep
<1>3. All \subseteq Seq(Events) OBVIOUS
<1> HIDE DEF All
<1>4. Streams \subseteq All BY <1>1, <1>2, <1>3, StreamsWithin
<1> QED BY <1>4 DEF All

\* A reader that validates nothing finds the same tool calls.
LEMMA SameTools ==
    ASSUME NEW events \in Seq(Events), NEW s \in Readers, ToolsHeard(events, s)
    PROVE  /\ Cardinality(ToolsOf(events)) = Len(s.ids)
           /\ \A i \in 1..Len(s.ids) :
                ToolAt(events, i - 1) = [named |-> TRUE, id |-> s.ids[i], args |-> s.args[i]]
<1> DEFINE n == Len(s.ids)
<1>1. n \in Nat BY DEF Readers
<1>2. DOMAIN events \subseteq Int BY PositionsType
<1>3. ASSUME NEW i \in 0..(n - 1)
      PROVE  /\ i \in ToolsOf(events)
             /\ ToolAt(events, i) = [named |-> TRUE, id |-> s.ids[i + 1], args |-> s.args[i + 1]]
  <2>1. Begun(events, s, i) BY DEF ToolsHeard
  <2>2. PICK j \in DOMAIN events :
          /\ PieceAt(events[j], i) /\ events[j].piece.id = s.ids[i + 1]
          /\ \A k \in DOMAIN events : PieceAt(events[k], i) => j <= k
    BY <2>1 DEF Begun
  <2> DEFINE Here == {k \in DOMAIN events : PieceAt(events[k], i)}
  <2>3. j \in Here /\ Here \subseteq Int /\ \A k \in Here : j <= k BY <1>2, <2>2
  <2>4. FirstAt(events, i) = Min(Here) BY DEF FirstAt
  <2> HIDE DEF Here
  <2>5. Min(Here) \in Here /\ \A k \in Here : Min(Here) <= k BY <2>3 DEF Min
  <2>6. Min(Here) = j BY <2>3, <2>5
  <2>7. ToolAt(events, i) = [named |-> TRUE, id |-> s.ids[i + 1], args |-> s.args[i + 1]]
    BY <2>1, <2>2, <2>4, <2>6 DEF ToolAt, Begun
  <2>8. NoPiece.index # i BY <1>1 DEF NoPiece
  <2>9. events[j].kind = "delta" /\ events[j].piece # NoPiece /\ events[j].piece.index = i
    BY <2>2, <2>8 DEF PieceAt
  <2>10. i \in ToolsOf(events) BY <2>9 DEF ToolsOf
  <2> QED BY <2>7, <2>10
<1>4. ToolsOf(events) \subseteq 0..(n - 1)
  BY DEF ToolsHeard, PiecesKnown, ToolsOf
<1>5. ToolsOf(events) = 0..(n - 1) BY <1>3, <1>4
<1>6. Cardinality(0..(n - 1)) = n
  <2> DEFINE last == n - 1
  <2>1. last \in Int /\ last >= -1 /\ n = last + 1 BY <1>1
  <2> HIDE DEF n, last
  <2>2. Cardinality(0..last) = IF 0 > last THEN 0 ELSE last - 0 + 1 BY <2>1, FS_Interval
  <2>3. Cardinality(0..last) = n BY <2>1, <2>2
  <2> QED BY <2>3 DEF last
<1>7. ASSUME NEW i \in 1..n
      PROVE  ToolAt(events, i - 1) = [named |-> TRUE, id |-> s.ids[i], args |-> s.args[i]]
  <2>1. i - 1 \in 0..(n - 1) /\ (i - 1) + 1 = i BY <1>1
  <2>2. ToolAt(events, i - 1)
          = [named |-> TRUE, id |-> s.ids[(i - 1) + 1], args |-> s.args[(i - 1) + 1]]
    BY <1>3, <2>1
  <2> QED BY <2>1, <2>2
<1> QED BY <1>5, <1>6, <1>7

LEMMA AcceptedReadsAsReply ==
    ASSUME NEW events \in Streams, Accepts(Heard(events))
    PROVE  ReadsAsReply(events)
<1> DEFINE s == Heard(events)
           n == Len(s.ids)
           tools == [i \in 1..Cardinality(ToolsOf(events)) |-> ToolAt(events, i - 1)]
           finish == IF Says(events, "tool_calls") THEN "tool_calls"
                     ELSE IF Says(events, "stop") THEN "stop" ELSE "none"
           message == Assembled(events)
<1>1. events \in Seq(Events) BY StreamsType
<1>2. s \in Readers BY <1>1, HeardType
<1>3. ToolsHeard(events, s) /\ FinishHeard(events, s) /\ UsageHeard(events, s)
  BY StreamsSaid DEF ReadInv
<1>4. s.done BY DEF Accepts
<1> HIDE DEF s
<1>5. s.usage # Absent BY <1>2, <1>4 DEF Readers
<1>6. s.finish # "none" /\ UsagesOf(events) = {s.usage} /\ \A i \in 1..n : Strict(s.args[i])
  BY <1>3, <1>5 DEF UsageHeard
<1>7. n \in Nat /\ s.finish \in {"none", "stop", "tool_calls"} BY <1>2 DEF Readers, Finishes
<1>8. finish = s.finish BY <1>3, <1>6, <1>7 DEF FinishHeard
<1>9. tools = [i \in 1..n |-> [named |-> TRUE, id |-> s.ids[i], args |-> s.args[i]]]
  <2>1. Cardinality(ToolsOf(events)) = n BY <1>1, <1>2, <1>3, SameTools
  <2>2. \A i \in 1..n :
          ToolAt(events, i - 1) = [named |-> TRUE, id |-> s.ids[i], args |-> s.args[i]]
    BY <1>1, <1>2, <1>3, SameTools
  <2> QED BY <2>1, <2>2
<1>10. /\ message.sole /\ message.role = "assistant" /\ message.text
       /\ message.tools = tools /\ message.finish = finish
  BY DEF Assembled, Message
<1> HIDE DEF message, finish
<1>11. DOMAIN tools = 1..n BY <1>9
<1>12. ASSUME NEW i \in 1..n
       PROVE  tools[i].named /\ tools[i].id = s.ids[i] /\ tools[i].args = s.args[i]
  <2>1. tools[i] = [named |-> TRUE, id |-> s.ids[i], args |-> s.args[i]] BY <1>9
  <2> HIDE DEF tools
  <2> QED BY <2>1
<1>13. tools = <<>> <=> n = 0
  <2>1. ASSUME n = 0 PROVE tools = <<>>
    <3>1. 1..n = {} BY <2>1
    <3> HIDE DEF n, tools
    <3>2. tools = [i \in {} |-> [named |-> TRUE, id |-> s.ids[i], args |-> s.args[i]]] BY <1>9, <3>1
    <3> QED BY <3>2
  <2>2. ASSUME tools = <<>> PROVE n = 0
    <3>1. DOMAIN tools = {} BY <2>2
    <3> HIDE DEF n, tools
    <3> QED BY <1>7, <1>11, <3>1
  <2> QED BY <2>1, <2>2
<1>14. \A i \in 1..n : Decodes(s.args[i]) BY <1>6 DEF Strict, Decodes
<1>15. \A i, j \in 1..n : s.ids[i] = s.ids[j] => i = j BY <1>3 DEF ToolsHeard, Distinct
<1>16. (s.finish = "tool_calls") <=> n > 0 BY <1>3, <1>6 DEF FinishHeard
<1> HIDE DEF tools, n
<1>17. MessageOK(message)
  <2>1. message.sole /\ message.role = "assistant" /\ message.finish # "none"
    BY <1>6, <1>8, <1>10
  <2>2. \A i \in DOMAIN message.tools : message.tools[i].named /\ Decodes(message.tools[i].args)
    BY <1>10, <1>11, <1>12, <1>14
  <2>3. \A i, j \in DOMAIN message.tools : message.tools[i].id = message.tools[j].id => i = j
    BY <1>10, <1>11, <1>12, <1>15
  <2>4. (message.finish = "tool_calls") = (message.tools # <<>>)
    BY <1>7, <1>8, <1>10, <1>13, <1>16
  <2> QED BY <1>10, <2>1, <2>2, <2>3, <2>4 DEF MessageOK
<1> QED BY <1>6, <1>17 DEF ReadsAsReply, UsagesOf, message, s

-----------------------------------------------------------------------------
(* What a verdict may charge, and how long it may ask to wait. *)

VerdictsOf(units) ==
    [result : {"ok", "failed", "retry", "raised"}, units : units, wait : {OwnPause} \cup Nat]

LEMMA VerdictTypes ==
    ASSUME NEW units, NEW u \in units
    PROVE  /\ Done(u) \in VerdictsOf(units) /\ Rejected(u) \in VerdictsOf(units)
           /\ \A w \in {OwnPause} \cup Nat : Again(u, w) \in VerdictsOf(units)
           /\ Verdict("raised", u, OwnPause) \in VerdictsOf(units)
BY DEF VerdictsOf, Done, Rejected, Again, Verdict

LEMMA AnsweredType ==
    ASSUME NEW bodies, NEW reply \in Answered(bodies)
    PROVE  /\ reply.status # "2xx" => reply.wait \in {OwnPause} \cup Nat
           /\ reply.status = "2xx" => reply.body \in bodies
<1>1. CASE reply \in [status : Statuses \ {"2xx"}, wait : Waits]
  <2>1. reply.status # "2xx" /\ reply.wait \in Waits BY <1>1
  <2> QED BY <2>1, ReplyConstants DEF Waits
<1>2. CASE reply \in [status : {"2xx"}, body : bodies]
  BY <1>2
<1> QED BY <1>1, <1>2 DEF Answered

\* A search that was asked for counts as one, whatever comes back.
LEMMA SearchUnits == SearchVerdicts \subseteq VerdictsOf({1})
<1> SUFFICES ASSUME NEW fit \in BOOLEAN, NEW limit \in 0..1, NEW reply \in SearchReplies
             PROVE  SearchOnce(fit, limit, reply) \in VerdictsOf({1})
  BY DEF SearchVerdicts
<1>1. reply.status # "2xx" => reply.wait \in {OwnPause} \cup Nat
  BY AnsweredType DEF SearchReplies
<1>2. /\ Done(1) \in VerdictsOf({1}) /\ Rejected(1) \in VerdictsOf({1})
      /\ \A w \in {OwnPause} \cup Nat : Again(1, w) \in VerdictsOf({1})
  BY VerdictTypes
<1>3. SearchBody(reply, limit) \in VerdictsOf({1}) BY <1>2 DEF SearchBody
<1>4. ASSUME reply.status # "2xx" PROVE SearchStatus(reply) \in VerdictsOf({1})
  BY <1>1, <1>2, <1>4 DEF SearchStatus
<1> QED BY <1>2, <1>3, <1>4 DEF SearchOnce

\* A page counts as one at most.
LEMMA PageUnits == PageVerdicts \subseteq VerdictsOf({0, 1})
<1> SUFFICES ASSUME NEW redirects \in 0..(MaxRedirects + 1), NEW hop \in Hops
             PROVE  FetchOnce(redirects, hop) \in VerdictsOf({0, 1})
  BY DEF PageVerdicts
<1>1. /\ Done(1) \in VerdictsOf({0, 1}) /\ Rejected(0) \in VerdictsOf({0, 1})
      /\ Again(0, OwnPause) \in VerdictsOf({0, 1})
  BY VerdictTypes
<1>2. /\ Resolve(hop) \in VerdictsOf({0, 1}) /\ Transport(hop.got) \in VerdictsOf({0, 1})
      /\ ReadBody(hop.page) \in VerdictsOf({0, 1}) /\ PageStatus(hop.got) \in VerdictsOf({0, 1})
  BY <1>1 DEF Resolve, Transport, ReadBody, PageStatus
<1> QED BY <1>1, <1>2 DEF FetchOnce

\* A model call counts as many as its reply stated, read whole or as a stream.
LEMMA ModelUnits == ModelVerdicts \subseteq VerdictsOf(0..MostUnits)
<1> DEFINE V == VerdictsOf(0..MostUnits)
<1>0. 0 \in 0..MostUnits BY ModelConstants
<1>1. \A u \in 0..MostUnits : Done(u) \in V /\ Rejected(u) \in V
  BY VerdictTypes
<1>2. \A w \in {OwnPause} \cup Nat : Again(0, w) \in V
  BY <1>0, VerdictTypes
<1>3. Raised \in V BY <1>0, VerdictTypes DEF Raised
<1> HIDE DEF V
<1>4. ASSUME NEW reply \in ModelReplies PROVE PostJson(reply) \in V /\ PostJson(reply).units \in 0..MostUnits
  <2>1. reply.status # "2xx" => reply.wait \in {OwnPause} \cup Nat
    BY AnsweredType DEF ModelReplies
  <2>2. reply.status = "2xx" => reply.body.usage \in Stated
    <3> DEFINE bodies == [json : BOOLEAN, usage : Stated, message : Messages]
    <3>1. reply \in Answered(bodies) BY DEF ModelReplies
    <3>2. \A body \in bodies : body.usage \in Stated OBVIOUS
    <3> HIDE DEF bodies
    <3> QED BY <3>1, <3>2, AnsweredType
  <2>3. PostJson(reply) \in V
    BY <1>0, <1>1, <1>2, <2>1, <2>2 DEF PostJson, Stated, Retried
  <2> QED BY <2>3 DEF V, VerdictsOf
<1>5. ASSUME NEW reply \in ModelReplies, NEW fits \in BOOLEAN PROVE Structured(reply, fits) \in V
  <2>1. Complete(reply) \in V /\ Complete(reply).units \in 0..MostUnits
    <3>1. CASE Complete(reply) = PostJson(reply) BY <1>4, <3>1
    <3>2. CASE Complete(reply) = Rejected(PostJson(reply).units)
      <4>1. Rejected(PostJson(reply).units).units = PostJson(reply).units
        BY DEF Rejected, Verdict
      <4> QED BY <1>1, <1>4, <3>2, <4>1
    <3> QED BY <3>1, <3>2 DEF Complete
  <2> QED BY <1>1, <2>1 DEF Structured
<1>6. ASSUME NEW s \in Readers PROVE StreamEnd(s) \in V
  <2>1. s.done => s.usage # Absent BY DEF Readers
  <2>2. s.usage # Absent => s.usage \in 0..MostUnits BY DEF Readers, Tokens
  <2> QED BY <1>0, <1>1, <1>3, <2>1, <2>2 DEF StreamEnd, Accepts
<1>7. ASSUME NEW status, NEW events \in Seq(Events), NEW dropped
      PROVE  StreamOnce(status, events, dropped) \in V
  <2>1. OwnPause \in {OwnPause} \cup Nat OBVIOUS
  <2> QED BY <1>0, <1>1, <1>2, <1>6, <2>1, HeardType DEF StreamOnce
<1>8. <<>> \in Seq(Events) OBVIOUS
<1> DEFINE Once(events) == StreamOnce("2xx", events, FALSE)
           Replied == {Structured(reply, fits) : reply \in ModelReplies, fits \in BOOLEAN}
           Streamed == {StreamOnce("2xx", events, dropped) : events \in Streams, dropped \in BOOLEAN}
           Refused == {Once(Append(events, e)) : events \in Streams, e \in Events}
           Unheard == {StreamOnce(status, <<>>, FALSE) : status \in Statuses}
<1>9. Replied \subseteq V BY <1>5
<1>10. Streamed \subseteq V
  <2> SUFFICES ASSUME NEW events \in Streams, NEW dropped \in BOOLEAN
               PROVE  StreamOnce("2xx", events, dropped) \in V
    OBVIOUS
  <2> QED BY <1>7, StreamsType
<1>11. Refused \subseteq V
  <2> SUFFICES ASSUME NEW events \in Streams, NEW e \in Events
               PROVE  Once(Append(events, e)) \in V
    <3> HIDE DEF Once
    <3> QED OBVIOUS
  <2>1. events \in Seq(Events) BY StreamsType
  <2>2. Append(events, e) \in Seq(Events) BY <2>1
  <2> QED BY <1>7, <2>2
<1>12. Unheard \subseteq V BY <1>7, <1>8
<1>13. ModelVerdicts = Replied \cup Streamed \cup Refused \cup Unheard BY DEF ModelVerdicts
<1> HIDE DEF Replied, Streamed, Refused, Unheard
<1> QED BY <1>9, <1>10, <1>11, <1>12, <1>13 DEF V

-----------------------------------------------------------------------------
(* The inductive invariant. *)

\* A call that has not been made has no reservation, and can get one.
NotYetBooked ==
    \A c \in Keys : outcome[c] = "none" /\ (phase # "idle" => c # current.call) => ~Booked(c)

\* What the call in flight reserved is still to be had: nothing is charged while
\* it is made.  The seconds charged before are those that passed before it.
UnitsOf(c) == IF c \in Counted THEN 1 ELSE Estimate
Covered ==
    phase # "idle" =>
        /\ current.call \in Keys
        /\ used["units"] + UnitsOf(current.call) <= Limit["units"]
        /\ used["retries"] <= Limit["retries"]
        /\ used["seconds"] <= current.since /\ current.since <= now
        /\ current.until <= Deadline

\* A pause is taken only if there is a retry left, and ends in the future.
PausesForRetry == phase = "pause" => current.retries < MaxRetries /\ now <= current.until

TimeIsSpentOnce == used["seconds"] <= now

CallInv ==
    /\ CallTypeOK /\ CallKeepsBounds /\ ReportedIsCharged
    /\ NotYetBooked /\ Covered /\ PausesForRetry /\ TimeIsSpentOnce

\* What is fixed for every run.
LEMMA ConstantTypes ==
    /\ Dimensions = {"units", "retries", "seconds"}
    /\ \A d \in Dimensions : Limit[d] \in Nat
    /\ Limit["units"] \in Nat /\ Limit["retries"] \in Nat /\ Deadline \in Nat
    /\ Limit["seconds"] = Deadline
    /\ Estimate \in Nat /\ MaxRetries \in Nat /\ Timeout \in Nat /\ Slack \in Nat
    /\ MostUnits \in Nat /\ Delays \subseteq Nat /\ Counted \subseteq Keys
    /\ Searches \subseteq Counted
BY CallConstants, ModelConstants, AccountantConstants DEF Deadline, Counted

LEMMA AmountType ==
    ASSUME NEW units \in Nat, NEW retries \in Nat, NEW seconds \in Nat
    PROVE  /\ Amount(units, retries, seconds) \in Amounts
           /\ Amount(units, retries, seconds)["units"] = units
           /\ Amount(units, retries, seconds)["retries"] = retries
           /\ Amount(units, retries, seconds)["seconds"] = seconds
BY ConstantTypes DEF Amount, Amounts

LEMMA PlusType ==
    ASSUME NEW a \in Amounts, NEW b \in Amounts
    PROVE  Plus(a, b) \in Amounts /\ \A d \in Dimensions : Plus(a, b)[d] = a[d] + b[d]
<1>1. \A d \in Dimensions : a[d] \in Nat /\ b[d] \in Nat BY DEF Amounts
<1>2. \A d \in Dimensions : a[d] + b[d] \in Nat BY <1>1
<1> QED BY <1>2 DEF Plus, Amounts

\* Releasing charges nothing.
LEMMA PlusNothing ==
    ASSUME NEW a \in Amounts
    PROVE  Plus(a, Amount(0, 0, 0)) = a
<1>1. \A d \in Dimensions : a[d] \in Nat BY DEF Amounts
<1>2. a = [d \in Dimensions |-> a[d]] BY DEF Amounts
<1>3. \A d \in Dimensions : a[d] + Amount(0, 0, 0)[d] = a[d]
  <2>1. \A d \in Dimensions : Amount(0, 0, 0)[d] = 0 BY DEF Amount
  <2> QED BY <1>1, <2>1
<1>4. Plus(a, Amount(0, 0, 0)) = [d \in Dimensions |-> a[d]] BY <1>3 DEF Plus
<1> QED BY <1>2, <1>4

\* While nothing is reserved, what is committed is what is used.
LEMMA IdleCommitted ==
    ASSUME CallTypeOK, Active = {}, NEW d \in Dimensions
    PROVE  Committed[d] = used[d] /\ used[d] \in Nat /\ Left(d) \in Nat
<1>1. used[d] \in Nat /\ Limit[d] \in Nat BY ConstantTypes DEF CallTypeOK, Amounts
<1>2. Reserved[d] = SumFunctionOnSet([k \in Keys |-> book[k].estimate[d]], Active)
  BY DEF Reserved
<1>3. Reserved[d] = 0 BY <1>2, SumEmpty
<1>4. Committed[d] = used[d] BY <1>1, <1>3 DEF Committed, Plus
<1> QED BY <1>1, <1>4 DEF Left

LEMMA DemandType ==
    ASSUME CallTypeOK, Active = {}, NEW c \in Keys
    PROVE  /\ Demand(c) \in Amounts
           /\ Demand(c)["units"] = UnitsOf(c)
           /\ Demand(c)["retries"] \in Nat /\ Demand(c)["seconds"] \in Nat
<1>1. Left("retries") \in Nat /\ Left("seconds") \in Nat BY IdleCommitted, ConstantTypes
<1>2. UnitsOf(c) \in Nat BY ConstantTypes DEF UnitsOf
<1>3. Demand(c) = Amount(UnitsOf(c), Left("retries"), Left("seconds")) BY DEF Demand, UnitsOf
<1> QED BY <1>1, <1>2, <1>3, AmountType

\* A call that is let through leaves room for what it asked.
LEMMA FitsMeans ==
    ASSUME CallTypeOK, Active = {}, NEW c \in Keys, Fits(Demand(c))
    PROVE  used["units"] + UnitsOf(c) <= Limit["units"] /\ used["retries"] <= Limit["retries"]
<1>1. \A d \in Dimensions : Committed[d] = used[d] /\ used[d] \in Nat BY IdleCommitted
<1>2. \A d \in Dimensions : used[d] + Demand(c)[d] <= Limit[d] BY <1>1 DEF Fits
<1>3. used["units"] + Demand(c)["units"] <= Limit["units"]
      /\ used["retries"] + Demand(c)["retries"] <= Limit["retries"]
  BY <1>2, ConstantTypes
<1>4. used["retries"] \in Nat /\ Limit["retries"] \in Nat BY <1>1, ConstantTypes
<1> QED BY <1>3, <1>4, DemandType

-----------------------------------------------------------------------------
(* A call ends: what it used is within its bounds, whatever it was. *)

LEMMA CallOver ==
    ASSUME CallInv, phase # "idle",
           NEW result \in Outcomes \ {"none"}, NEW state \in {"settled", "released"},
           NEW units \in Nat, units <= IF current.call \in Counted THEN 1 ELSE MostUnits,
           NEW retries \in 0..MaxRetries, NEW seconds \in Nat,
           now' \in Nat, now <= now', seconds <= now' - current.since,
           seconds = 0 \/ now' <= Deadline + Slack,
           book' = [book EXCEPT ![current.call].state = state],
           used' = Plus(used, Amount(units, retries, seconds)),
           \/ reported' = reported
           \/ reported' = Plus(reported, Amount(units, retries, seconds)),
           End(current.call, result)
    PROVE  CallInv'
<1> DEFINE c == current.call
           a == Amount(units, retries, seconds)
<1>0. /\ CallTypeOK /\ OnlyTheCallReserves /\ OverdraftIsOneCalls /\ ReportedIsCharged
      /\ NotYetBooked /\ Covered /\ TimeIsSpentOnce
  BY DEF CallInv, CallKeepsBounds
<1>1. c \in Keys /\ Active = {c} BY <1>0 DEF Covered, OnlyTheCallReserves
<1>2. retries \in Nat BY ConstantTypes
<1>3. /\ a \in Amounts /\ a["units"] = units /\ a["retries"] = retries
      /\ a["seconds"] = seconds
  BY <1>2, AmountType
<1>4. used \in Amounts /\ reported \in Amounts /\ book \in [Keys -> Bookings]
  BY <1>0 DEF CallTypeOK
<1> HIDE DEF a
<1>5. /\ used' \in Amounts
      /\ \A d \in Dimensions : used'[d] = used[d] + a[d] /\ used[d] \in Nat /\ a[d] \in Nat
  BY <1>3, <1>4, PlusType DEF Amounts, a
<1>6. reported' \in Amounts /\ \A d \in Dimensions : reported'[d] <= reported[d] + a[d]
  <2>1. \A d \in Dimensions : reported[d] \in Nat BY <1>4 DEF Amounts
  <2> QED BY <1>3, <1>4, <1>5, <2>1, PlusType DEF a
<1>7. /\ phase' = "idle" /\ current' = NoCall /\ outcome' = [outcome EXCEPT ![c] = result]
      /\ token' = token /\ lastStart' = lastStart
  BY DEF End
<1>8. book' = [book EXCEPT ![c] = [state |-> state, estimate |-> book[c].estimate]]
      /\ book' \in [Keys -> Bookings]
  <2>1. book[c] \in Bookings BY <1>1, <1>4
  <2>2. [book[c] EXCEPT !.state = state] = [state |-> state, estimate |-> book[c].estimate]
        /\ [book[c] EXCEPT !.state = state] \in Bookings
    BY <2>1 DEF Bookings
  <2> QED BY <1>1, <1>4, <2>2
<1>9. /\ used["units"] \in Nat /\ used["retries"] \in Nat /\ used["seconds"] \in Nat
      /\ used'["units"] = used["units"] + units
      /\ used'["retries"] = used["retries"] + retries
      /\ used'["seconds"] = used["seconds"] + seconds
  BY <1>3, <1>5, ConstantTypes
<1>10. CallTypeOK'
  <2>1. NoCall \in [call : Keys \union {"none"}, since : Nat, until : Nat, retries : 0..MaxRetries]
    BY ConstantTypes DEF NoCall
  <2>2. outcome' \in [Keys -> Outcomes] BY <1>0, <1>7 DEF CallTypeOK
  <2> QED BY <1>0, <1>5, <1>6, <1>7, <1>8, <2>1, <2>2 DEF CallTypeOK
<1>11. OnlyTheCallReserves'
  <2>1. \A k \in Keys : book[k].state = "active" <=> k = c BY <1>1 DEF Active
  <2>2. \A k \in Keys : book'[k].state # "active"
    BY <1>1, <1>4, <1>8, <2>1
  <2> QED BY <1>7, <2>2 DEF OnlyTheCallReserves, Active
<1>12. OverdraftIsOneCalls'
  <2>1. used'["units"] <= Limit["units"] + (IF MostUnits > Estimate THEN MostUnits - Estimate ELSE 0)
    <3>1. used["units"] + UnitsOf(c) <= Limit["units"] BY <1>0 DEF Covered
    <3> QED BY <1>9, <3>1, ConstantTypes DEF UnitsOf
  <2>2. used'["retries"] <= Limit["retries"] + MaxRetries
    <3>1. used["retries"] <= Limit["retries"] BY <1>0 DEF Covered
    <3> QED BY <1>9, <3>1, ConstantTypes
  <2>3. used'["seconds"] <= Limit["seconds"] + Slack
    <3>1. used["seconds"] <= current.since /\ current.since \in Nat
      BY <1>0 DEF Covered, CallTypeOK
    <3>2. used["seconds"] <= Limit["seconds"] + Slack BY <1>0 DEF OverdraftIsOneCalls
    <3> QED BY <1>9, <3>1, <3>2, ConstantTypes
  <2> QED BY <2>1, <2>2, <2>3 DEF OverdraftIsOneCalls
<1>13. ReportedIsCharged'
  <2>1. ASSUME NEW d \in Dimensions PROVE used'[d] >= reported'[d]
    <3>1. used[d] >= reported[d] BY <1>0 DEF ReportedIsCharged
    <3>2. reported[d] \in Nat /\ reported'[d] \in Nat BY <1>4, <1>6 DEF Amounts
    <3> QED BY <1>5, <1>6, <3>1, <3>2
  <2> QED BY <2>1 DEF ReportedIsCharged
<1>14. NotYetBooked'
  <2>1. ASSUME NEW k \in Keys, outcome'[k] = "none" PROVE book'[k].state = "none"
    <3>1. k # c BY <1>0, <1>1, <1>7, <2>1 DEF CallTypeOK
    <3>2. outcome[k] = "none" BY <1>0, <1>7, <2>1, <3>1 DEF CallTypeOK
    <3>3. book[k].state = "none" BY <1>0, <3>1, <3>2 DEF NotYetBooked, Booked
    <3> QED BY <1>4, <1>8, <3>1, <3>3
  <2> QED BY <2>1 DEF NotYetBooked, Booked
<1>15. TimeIsSpentOnce'
  <2>1. used["seconds"] <= current.since /\ current.since \in Nat
    BY <1>0 DEF Covered, CallTypeOK
  <2> QED BY <1>9, <2>1 DEF TimeIsSpentOnce
<1>16. Covered' /\ PausesForRetry' /\ AttemptsAreInTime'
  BY <1>7 DEF Covered, PausesForRetry, AttemptsAreInTime
<1> QED BY <1>10, <1>11, <1>12, <1>13, <1>14, <1>15, <1>16 DEF CallInv, CallKeepsBounds

\* The reservation of the call in flight is active: it is settled or released once.
LEMMA ReservationIsActive ==
    ASSUME CallInv, phase # "idle"
    PROVE  current.call \in Keys /\ book[current.call].state = "active"
<1>1. current.call \in Keys /\ Active = {current.call}
  BY DEF CallInv, CallKeepsBounds, Covered, OnlyTheCallReserves
<1> QED BY <1>1 DEF Active

\* When an attempt or a pause ends, it is not later than the deadline and the slack.
InTime == now' \in Nat /\ now <= now' /\ now' <= Deadline + Slack

LEMMA PassesInTime ==
    ASSUME CallInv, phase = "attempt", Passes
    PROVE  InTime
<1>1. now \in Nat /\ current.until \in Nat BY DEF CallInv, CallTypeOK
<1>2. current.until <= Deadline BY DEF CallInv, Covered
<1> QED BY <1>1, <1>2, ConstantTypes DEF Passes, InTime

LEMMA PauseInTime ==
    ASSUME CallInv, phase = "pause", now' \in current.until..(current.until + Slack)
    PROVE  InTime
<1>1. now \in Nat /\ current.until \in Nat BY DEF CallInv, CallTypeOK
<1>2. current.until <= Deadline /\ now <= current.until BY DEF CallInv, Covered, PausesForRetry
<1> QED BY <1>1, <1>2, ConstantTypes DEF InTime

LEMMA SinceType ==
    ASSUME CallInv, phase # "idle", InTime
    PROVE  /\ current.since \in Nat /\ now' - current.since \in Nat
           /\ current.retries \in 0..MaxRetries
<1>1. current.since \in Nat /\ current.retries \in 0..MaxRetries /\ now \in Nat
  BY DEF CallInv, CallTypeOK
<1>2. current.since <= now BY DEF CallInv, Covered
<1> QED BY <1>1, <1>2 DEF InTime

\* The usage of the last attempt is charged, with a result or an error.
LEMMA SettledKeepsInv ==
    ASSUME CallInv, phase # "idle", InTime,
           NEW units \in Nat, units <= IF current.call \in Counted THEN 1 ELSE MostUnits,
           NEW result \in Outcomes \ {"none"},
           Settle(current.call, Usage(units)), reported' = Plus(reported, Usage(units)),
           End(current.call, result)
    PROVE  CallInv'
<1>1. book[current.call].state = "active" BY ReservationIsActive
<1>2. book' = [book EXCEPT ![current.call].state = "settled"]
      /\ used' = Plus(used, Amount(units, current.retries, now' - current.since))
      /\ reported' = Plus(reported, Amount(units, current.retries, now' - current.since))
  BY <1>1 DEF Settle, Usage
<1>3. /\ now' - current.since \in Nat /\ now' - current.since <= now' - current.since
      /\ current.retries \in 0..MaxRetries /\ now' \in Nat /\ now <= now'
      /\ now' <= Deadline + Slack
  BY SinceType DEF InTime
<1> QED BY <1>2, <1>3, CallOver

LEMMA GiveUpKeepsInv ==
    ASSUME CallInv, phase # "idle", InTime, NEW result \in Outcomes \ {"none"}, GiveUp(result)
    PROVE  CallInv'
<1>1. book[current.call].state = "active" BY ReservationIsActive
<1>2. /\ now' - current.since \in Nat /\ now' \in Nat /\ now <= now'
      /\ now' <= Deadline + Slack
  BY SinceType DEF InTime
<1>3. End(current.call, result) /\ reported' = reported BY DEF GiveUp
<1>4. 0 \in 0..MaxRetries BY ConstantTypes
<1>5. CASE current.call \in Counted
  <2>1. book' = [book EXCEPT ![current.call].state = "settled"]
        /\ used' = Plus(used, Amount(1, 0, now' - current.since))
    BY <1>1, <1>5 DEF GiveUp, Settle
  <2>2. now' - current.since <= now' - current.since
        /\ 1 <= IF current.call \in Counted THEN 1 ELSE MostUnits
    BY <1>2, <1>5
  <2> QED BY <1>2, <1>3, <1>4, <2>1, <2>2, CallOver
<1>6. CASE current.call \notin Counted
  <2>1. book' = [book EXCEPT ![current.call].state = "released"] /\ used' = used
    BY <1>1, <1>6 DEF GiveUp, Release
  <2>2. used' = Plus(used, Amount(0, 0, 0))
    BY <2>1, PlusNothing DEF CallInv, CallTypeOK
  <2>3. 0 <= now' - current.since /\ 0 <= IF current.call \in Counted THEN 1 ELSE MostUnits
    BY <1>2, ConstantTypes
  <2> QED BY <1>2, <1>3, <1>4, <2>1, <2>2, <2>3, CallOver
<1> QED BY <1>5, <1>6

LEMMA InterruptKeepsInv ==
    ASSUME CallInv, Interrupt
    PROVE  CallInv'
<1>1. phase # "idle" /\ now' = now /\ End(current.call, "interrupted") /\ reported' = reported
  BY DEF Interrupt
<1>2. book[current.call].state = "active" BY <1>1, ReservationIsActive
<1>3. book' = [book EXCEPT ![current.call].state = "released"] /\ used' = used
  BY <1>2 DEF Interrupt, Release
<1>4. used' = Plus(used, Amount(0, 0, 0))
  BY <1>3, PlusNothing DEF CallInv, CallTypeOK
<1>5. now \in Nat /\ current.since \in Nat /\ current.since <= now
  BY <1>1 DEF CallInv, CallTypeOK, Covered
<1>6. /\ now' \in Nat /\ now <= now' /\ 0 <= now' - current.since /\ 0 \in 0..MaxRetries
      /\ 0 <= IF current.call \in Counted THEN 1 ELSE MostUnits
  BY <1>1, <1>5, ConstantTypes
<1>7. "interrupted" \in Outcomes \ {"none"} BY DEF Outcomes
<1> QED BY <1>1, <1>3, <1>4, <1>6, <1>7, CallOver

-----------------------------------------------------------------------------
(* Every step keeps the invariant. *)

LEMMA VerdictUnits ==
    ASSUME NEW c \in Keys, NEW v \in Verdicts(c)
    PROVE  /\ v.units \in Nat /\ v.units <= IF c \in Counted THEN 1 ELSE MostUnits
           /\ Pauses(v) \subseteq Nat
<1>0. ASSUME v.wait \in {OwnPause} \cup Nat PROVE Pauses(v) \subseteq Nat
  BY <1>0, ConstantTypes DEF Pauses
<1>1. CASE c \in Searches
  <2>1. v \in VerdictsOf({1}) /\ c \in Counted BY <1>1, SearchUnits, ConstantTypes DEF Verdicts
  <2>2. v.units = 1 /\ v.wait \in {OwnPause} \cup Nat BY <2>1 DEF VerdictsOf
  <2>3. v.units \in Nat /\ v.units <= IF c \in Counted THEN 1 ELSE MostUnits
    BY <2>1, <2>2, ConstantTypes
  <2> QED BY <1>0, <2>2, <2>3
<1>2. CASE c \notin Searches /\ c \in Fetches
  <2>1. v \in VerdictsOf({0, 1}) /\ c \in Counted BY <1>2, PageUnits DEF Verdicts, Counted
  <2>2. v.units \in {0, 1} /\ v.wait \in {OwnPause} \cup Nat BY <2>1 DEF VerdictsOf
  <2>3. v.units \in Nat /\ v.units <= IF c \in Counted THEN 1 ELSE MostUnits
    BY <2>1, <2>2, ConstantTypes
  <2> QED BY <1>0, <2>2, <2>3
<1>3. CASE c \notin Searches /\ c \notin Fetches
  <2>1. v \in VerdictsOf(0..MostUnits) /\ c \notin Counted
    BY <1>3, ModelUnits DEF Verdicts, Counted
  <2>2. v.units \in 0..MostUnits /\ v.wait \in {OwnPause} \cup Nat BY <2>1 DEF VerdictsOf
  <2>3. v.units \in Nat /\ v.units <= IF c \in Counted THEN 1 ELSE MostUnits
    BY <2>1, <2>2, ConstantTypes
  <2> QED BY <1>0, <2>2, <2>3
<1> QED BY <1>1, <1>2, <1>3

\* An error that is charged as an unanswered request.
LEMMA FailsKeepsInv ==
    ASSUME CallInv, phase # "idle", InTime, NEW result \in Outcomes \ {"none"}, Fails(result)
    PROVE  CallInv'
<1>1. /\ Unanswered(current.call) \in Nat
      /\ Unanswered(current.call) <= IF current.call \in Counted THEN 1 ELSE MostUnits
  BY ConstantTypes DEF Unanswered
<1>2. /\ Settle(current.call, Usage(Unanswered(current.call)))
      /\ reported' = Plus(reported, Usage(Unanswered(current.call)))
      /\ End(current.call, result)
  BY DEF Fails, FailWith
<1> QED BY <1>1, <1>2, SettledKeepsInv

LEMMA SeeTokenKeepsInv ==
    ASSUME CallInv, SeeToken
    PROVE  CallInv'
<1>1. phase = "attempt" /\ Passes /\ GiveUp("cancelled") BY DEF SeeToken
<1>2. "cancelled" \in Outcomes \ {"none"} BY DEF Outcomes
<1> QED BY <1>1, <1>2, PassesInTime, GiveUpKeepsInv

LEMMA EndsMeans ==
    ASSUME CallInv, NEW v, NEW result, Ends(result, v)
    PROVE  /\ phase = "attempt" /\ InTime
           /\ v.units \in Nat /\ v.units <= IF current.call \in Counted THEN 1 ELSE MostUnits
           /\ Pauses(v) \subseteq Nat
<1>1. phase = "attempt" /\ Passes /\ v \in Verdicts(current.call) BY DEF Ends
<1>2. InTime BY <1>1, PassesInTime
<1>3. current.call \in Keys BY <1>1, ReservationIsActive
<1> QED BY <1>1, <1>2, <1>3, VerdictUnits

LEMMA AnswerKeepsInv ==
    ASSUME CallInv, NEW v, Answer(v)
    PROVE  CallInv'
<1> DEFINE result == IF \E d \in Dimensions : used'[d] > Limit[d] THEN "over" ELSE "ok"
<1>1. Ends("ok", v) /\ Succeed(v.units) BY DEF Answer
<1>2. /\ Settle(current.call, Usage(v.units)) /\ reported' = Plus(reported, Usage(v.units))
      /\ End(current.call, result)
  BY <1>1 DEF Succeed
<1>3. result \in Outcomes \ {"none"} BY DEF Outcomes
<1> HIDE DEF result
<1>4. /\ phase # "idle" /\ InTime /\ v.units \in Nat
      /\ v.units <= IF current.call \in Counted THEN 1 ELSE MostUnits
  BY <1>1, EndsMeans
<1> QED BY <1>2, <1>3, <1>4, SettledKeepsInv

LEMMA RejectKeepsInv ==
    ASSUME CallInv, NEW v, Reject(v)
    PROVE  CallInv'
<1>1. Ends("failed", v) /\ FailWith(v.units, "failed") BY DEF Reject
<1>2. /\ Settle(current.call, Usage(v.units)) /\ reported' = Plus(reported, Usage(v.units))
      /\ End(current.call, "failed")
  BY <1>1 DEF FailWith
<1>3. "failed" \in Outcomes \ {"none"} BY DEF Outcomes
<1>4. /\ phase # "idle" /\ InTime /\ v.units \in Nat
      /\ v.units <= IF current.call \in Counted THEN 1 ELSE MostUnits
  BY <1>1, EndsMeans
<1> QED BY <1>2, <1>3, <1>4, SettledKeepsInv

LEMMA RaiseKeepsInv ==
    ASSUME CallInv, NEW v, Raise(v)
    PROVE  CallInv'
<1>1. Ends("raised", v) /\ GiveUp("failed") BY DEF Raise
<1>2. phase # "idle" /\ InTime BY <1>1, EndsMeans
<1>3. "failed" \in Outcomes \ {"none"} BY DEF Outcomes
<1> QED BY <1>1, <1>2, <1>3, GiveUpKeepsInv

\* A pause leaves all but the call's attempts as they are.
LEMMA SameBooks ==
    ASSUME CallInv, UNCHANGED <<accountant, outcome, reported>>
    PROVE  /\ OverdraftIsOneCalls' /\ ReportedIsCharged'
           /\ Active' = Active /\ used' = used
           /\ \A c : Booked(c)' = Booked(c)
<1>1. used' = used /\ book' = book /\ reported' = reported BY DEF accountant
<1> QED BY <1>1 DEF CallInv, CallKeepsBounds, OverdraftIsOneCalls, ReportedIsCharged, Active, Booked

LEMMA RetryableKeepsInv ==
    ASSUME CallInv, NEW v, Retryable(v)
    PROVE  CallInv'
<1>1. Ends("retry", v) BY DEF Retryable
<1>2. phase = "attempt" /\ InTime /\ Pauses(v) \subseteq Nat BY <1>1, EndsMeans
<1>3. "timeout" \in Outcomes \ {"none"} /\ "failed" \in Outcomes \ {"none"} BY DEF Outcomes
<1>4. CASE \E result \in {"timeout", "failed"} : Fails(result)
  BY <1>2, <1>3, <1>4, FailsKeepsInv
<1>5. ASSUME NEW delay \in Nat, now' + delay < Deadline, current.retries < MaxRetries,
             phase' = "pause", current' = [current EXCEPT !.until = now' + delay],
             UNCHANGED <<accountant, token, outcome, reported, lastStart>>
      PROVE  CallInv'
  <2>0. CallTypeOK /\ OnlyTheCallReserves /\ NotYetBooked /\ Covered /\ TimeIsSpentOnce
    BY DEF CallInv, CallKeepsBounds
  <2>1. /\ OverdraftIsOneCalls' /\ ReportedIsCharged' /\ Active' = Active /\ used' = used
        /\ \A c : Booked(c)' = Booked(c)
    BY <1>5, SameBooks
  <2>2. /\ now \in Nat /\ now' \in Nat /\ now <= now' /\ now' + delay \in Nat
        /\ used["seconds"] \in Nat
    <3>1. used \in Amounts /\ now \in Nat BY <2>0 DEF CallTypeOK
    <3>2. used["seconds"] \in Nat BY <3>1, ConstantTypes DEF Amounts
    <3>3. now' \in Nat /\ now <= now' BY <1>2 DEF InTime
    <3> QED BY <1>5, <3>1, <3>2, <3>3
  <2>3. /\ current \in [call : Keys \union {"none"}, since : Nat, until : Nat, retries : 0..MaxRetries]
        /\ current'.call = current.call /\ current'.since = current.since
        /\ current'.until = now' + delay /\ current'.retries = current.retries
        /\ current' \in [call : Keys \union {"none"}, since : Nat, until : Nat, retries : 0..MaxRetries]
    BY <1>5, <2>0, <2>2 DEF CallTypeOK
  <2>4. CallTypeOK' BY <1>5, <2>0, <2>2, <2>3 DEF CallTypeOK, accountant
  <2>5. OnlyTheCallReserves' BY <1>2, <1>5, <2>0, <2>1, <2>3 DEF OnlyTheCallReserves
  <2>6. NotYetBooked'
    <3>1. outcome' = outcome /\ phase # "idle" /\ phase' # "idle" BY <1>2, <1>5
    <3> QED BY <2>0, <2>1, <2>3, <3>1 DEF NotYetBooked
  <2>7. Covered'
    <3>1. /\ current.call \in Keys
          /\ used["units"] + UnitsOf(current.call) <= Limit["units"]
          /\ used["retries"] <= Limit["retries"]
          /\ used["seconds"] <= current.since /\ current.since <= now
      BY <1>2, <2>0 DEF Covered
    <3>2. current.since <= now' BY <2>2, <2>3, <3>1
    <3>3. now' + delay <= Deadline BY <1>5, <2>2, ConstantTypes
    <3>4. UnitsOf(current'.call) = UnitsOf(current.call) BY <2>3
    <3> QED BY <2>1, <2>3, <3>1, <3>2, <3>3, <3>4 DEF Covered, UnitsOf
  <2>8. PausesForRetry' BY <1>5, <2>2, <2>3 DEF PausesForRetry
  <2>9. TimeIsSpentOnce' BY <2>0, <2>1, <2>2 DEF TimeIsSpentOnce
  <2>10. AttemptsAreInTime' BY <1>5 DEF AttemptsAreInTime
  <2> QED BY <2>1, <2>4, <2>5, <2>6, <2>7, <2>8, <2>9, <2>10 DEF CallInv, CallKeepsBounds
<1>6. \/ \E result \in {"timeout", "failed"} : Fails(result)
      \/ \E delay \in Pauses(v) :
            /\ now' + delay < Deadline /\ current.retries < MaxRetries
            /\ phase' = "pause" /\ current' = [current EXCEPT !.until = now' + delay]
            /\ UNCHANGED <<accountant, token, outcome, reported, lastStart>>
  BY DEF Retryable
<1> QED BY <1>2, <1>4, <1>5, <1>6

CurrentCalls ==
    [call : Keys \union {"none"}, since : Nat, until : Nat, retries : 0..MaxRetries]

LEMMA AttemptUntil ==
    ASSUME NEW t \in Nat
    PROVE  Lesser(Deadline, t + Timeout) \in Nat /\ Lesser(Deadline, t + Timeout) <= Deadline
<1>1. t + Timeout \in Nat /\ Deadline \in Nat BY ConstantTypes
<1> QED BY <1>1 DEF Lesser

LEMMA ResumeKeepsInv ==
    ASSUME CallInv, Resume
    PROVE  CallInv'
<1>1. phase = "pause" /\ now' \in current.until..(current.until + Slack) BY DEF Resume
<1>2. InTime BY <1>1, PauseInTime
<1>3. CASE Fails("timeout")
  <2>1. "timeout" \in Outcomes \ {"none"} BY DEF Outcomes
  <2> QED BY <1>1, <1>2, <1>3, <2>1, FailsKeepsInv
<1>4. CASE /\ now' < Deadline
           /\ Attempt(current.call, current.since, current.retries + 1)
           /\ UNCHANGED <<accountant, token, outcome, reported>>
  <2>0. /\ CallTypeOK /\ OnlyTheCallReserves /\ NotYetBooked /\ Covered /\ TimeIsSpentOnce
        /\ PausesForRetry
    BY DEF CallInv, CallKeepsBounds
  <2>1. /\ OverdraftIsOneCalls' /\ ReportedIsCharged' /\ Active' = Active /\ used' = used
        /\ \A c : Booked(c)' = Booked(c)
    BY <1>4, SameBooks
  <2>2. /\ now \in Nat /\ now' \in Nat /\ now <= now' /\ used["seconds"] \in Nat
    <3>1. used \in Amounts /\ now \in Nat BY <2>0 DEF CallTypeOK
    <3>2. used["seconds"] \in Nat BY <3>1, ConstantTypes DEF Amounts
    <3> QED BY <1>2, <3>1, <3>2 DEF InTime
  <2> DEFINE until == Lesser(Deadline, now' + Timeout)
  <2>3. until \in Nat /\ until <= Deadline BY <1>4, <2>2, AttemptUntil
  <2>4. current.retries + 1 \in 0..MaxRetries
    <3>1. current.retries \in 0..MaxRetries /\ current.retries < MaxRetries
      BY <1>1, <2>0 DEF CallTypeOK, PausesForRetry
    <3> QED BY <3>1, ConstantTypes
  <2>5. /\ phase' = "attempt" /\ lastStart' = now'
        /\ current' = [call |-> current.call, since |-> current.since,
                       retries |-> current.retries + 1, until |-> until]
    BY <1>4 DEF Attempt
  <2> HIDE DEF until
  <2>6. /\ current'.call = current.call /\ current'.since = current.since
        /\ current'.until = until /\ current' \in CurrentCalls
    BY <2>0, <2>3, <2>4, <2>5 DEF CallTypeOK, CurrentCalls
  <2>7. CallTypeOK' BY <1>4, <2>0, <2>2, <2>5, <2>6 DEF CallTypeOK, accountant, CurrentCalls
  <2>8. OnlyTheCallReserves' BY <1>1, <2>0, <2>1, <2>5, <2>6 DEF OnlyTheCallReserves
  <2>9. NotYetBooked'
    <3>1. outcome' = outcome /\ phase # "idle" /\ phase' # "idle" BY <1>1, <1>4, <2>5
    <3> QED BY <2>0, <2>1, <2>6, <3>1 DEF NotYetBooked
  <2>10. Covered'
    <3>1. /\ current.call \in Keys
          /\ used["units"] + UnitsOf(current.call) <= Limit["units"]
          /\ used["retries"] <= Limit["retries"]
          /\ used["seconds"] <= current.since /\ current.since <= now
      BY <1>1, <2>0 DEF Covered
    <3>2. current.since \in Nat BY <2>0 DEF CallTypeOK
    <3>3. current.since <= now' BY <2>2, <3>1, <3>2
    <3> QED BY <2>1, <2>3, <2>6, <3>1, <3>3 DEF Covered, UnitsOf
  <2>11. PausesForRetry' BY <2>5 DEF PausesForRetry
  <2>12. TimeIsSpentOnce' BY <2>0, <2>1, <2>2 DEF TimeIsSpentOnce
  <2>13. AttemptsAreInTime' BY <1>4, <2>5 DEF AttemptsAreInTime
  <2> QED BY <2>1, <2>7, <2>8, <2>9, <2>10, <2>11, <2>12, <2>13 DEF CallInv, CallKeepsBounds
<1> QED BY <1>3, <1>4 DEF Resume

\* Between calls nothing is reserved, and a call that may be made never was.
LEMMA MayCallMeans ==
    ASSUME CallInv, NEW c \in Keys, MayCall(c)
    PROVE  /\ phase = "idle" /\ Active = {} /\ outcome[c] = "none" /\ ~Booked(c)
           /\ now \in Nat /\ \A d \in Dimensions : used[d] \in Nat
           /\ used["seconds"] \in Nat /\ used["units"] \in Nat /\ used["retries"] \in Nat
<1>1. phase = "idle" /\ outcome[c] = "none" BY DEF MayCall
<1>2. Active = {} BY <1>1 DEF CallInv, CallKeepsBounds, OnlyTheCallReserves
<1>3. ~Booked(c) BY <1>1 DEF CallInv, NotYetBooked
<1>4. now \in Nat /\ used \in Amounts BY DEF CallInv, CallTypeOK
<1>5. \A d \in Dimensions : used[d] \in Nat BY <1>4 DEF Amounts
<1> QED BY <1>1, <1>2, <1>3, <1>4, <1>5, ConstantTypes

LEMMA InvokeKeepsInv ==
    ASSUME CallInv, NEW c \in Keys, Invoke(c)
    PROVE  CallInv'
<1>0. CallTypeOK /\ OverdraftIsOneCalls /\ ReportedIsCharged /\ NotYetBooked /\ TimeIsSpentOnce
  BY DEF CallInv, CallKeepsBounds
<1>1. /\ MayCall(c) /\ now' \in now..(now + Slack) /\ now' < Deadline
      /\ Reserve(c, Demand(c)) /\ Attempt(c, now', 0) /\ UNCHANGED <<token, outcome, reported>>
  BY DEF Invoke
<1>2. /\ phase = "idle" /\ Active = {} /\ ~Booked(c) /\ now \in Nat
      /\ used["seconds"] \in Nat /\ used["units"] \in Nat /\ used["retries"] \in Nat
  BY <1>1, MayCallMeans
<1>3. now' \in Nat /\ now <= now' BY <1>1, <1>2, ConstantTypes
<1>4. /\ Fits(Demand(c)) /\ used' = used
      /\ book' = [book EXCEPT ![c] = [state |-> "active", estimate |-> Demand(c)]]
  BY <1>1, <1>2 DEF Reserve
<1>5. used["units"] + UnitsOf(c) <= Limit["units"] /\ used["retries"] <= Limit["retries"]
  BY <1>0, <1>2, <1>4, FitsMeans
<1> DEFINE until == Lesser(Deadline, now' + Timeout)
<1>6. until \in Nat /\ until <= Deadline BY <1>1, <1>3, AttemptUntil
<1>7. /\ phase' = "attempt" /\ lastStart' = now'
      /\ current' = [call |-> c, since |-> now', retries |-> 0, until |-> until]
  BY <1>1 DEF Attempt
<1> HIDE DEF until
<1>8. 0 \in 0..MaxRetries BY ConstantTypes
<1>9. current' \in CurrentCalls /\ current'.call = c /\ current'.since = now' /\ current'.until = until
  BY <1>3, <1>6, <1>7, <1>8 DEF CurrentCalls
<1>10. book \in [Keys -> Bookings] BY <1>0 DEF CallTypeOK
<1>11. [state |-> "active", estimate |-> Demand(c)] \in Bookings
  BY <1>0, <1>2, DemandType DEF Bookings
<1>12. book' \in [Keys -> Bookings] BY <1>4, <1>10, <1>11
<1>13. CallTypeOK'
  BY <1>0, <1>1, <1>3, <1>4, <1>7, <1>9, <1>12 DEF CallTypeOK, CurrentCalls
<1>14. OnlyTheCallReserves'
  <2>1. \A k \in Keys : book[k].state # "active" BY <1>2 DEF Active
  <2>2. book'[c].state = "active" /\ \A k \in Keys : k # c => book'[k] = book[k]
    BY <1>4, <1>10
  <2> QED BY <1>7, <1>9, <2>1, <2>2 DEF OnlyTheCallReserves, Active
<1>15. OverdraftIsOneCalls' BY <1>0, <1>4 DEF OverdraftIsOneCalls
<1>16. ReportedIsCharged' BY <1>0, <1>1, <1>4 DEF ReportedIsCharged
<1>17. NotYetBooked'
  <2>1. ASSUME NEW k \in Keys, outcome'[k] = "none", k # c PROVE book'[k].state = "none"
    <3>1. book[k].state = "none" BY <1>0, <1>1, <1>2, <2>1 DEF NotYetBooked, Booked
    <3> QED BY <1>4, <1>10, <2>1, <3>1
  <2> QED BY <1>7, <1>9, <2>1 DEF NotYetBooked, Booked
<1>18. Covered'
  <2>1. used["seconds"] <= now' BY <1>0, <1>2, <1>3 DEF TimeIsSpentOnce
  <2>2. now' <= now' BY <1>3
  <2> QED BY <1>4, <1>5, <1>6, <1>9, <2>1, <2>2 DEF Covered, UnitsOf
<1>19. PausesForRetry' BY <1>7 DEF PausesForRetry
<1>20. TimeIsSpentOnce' BY <1>0, <1>2, <1>3, <1>4 DEF TimeIsSpentOnce
<1>21. AttemptsAreInTime' BY <1>1, <1>7 DEF AttemptsAreInTime
<1> QED BY <1>13, <1>14, <1>15, <1>16, <1>17, <1>18, <1>19, <1>20, <1>21 DEF CallInv, CallKeepsBounds

LEMMA RefuseKeepsInv ==
    ASSUME CallInv, NEW c \in Keys, Refuse(c)
    PROVE  CallInv'
<1>0. CallTypeOK /\ OnlyTheCallReserves /\ NotYetBooked /\ TimeIsSpentOnce
  BY DEF CallInv, CallKeepsBounds
<1>1. /\ MayCall(c) /\ now' \in now..(now + Slack) /\ UNCHANGED <<accountant, reported>>
      /\ \E result \in {"cancelled", "timeout", "budget"} : End(c, result)
  BY DEF Refuse
<1>2. PICK result \in {"cancelled", "timeout", "budget"} : End(c, result) BY <1>1
<1>3. /\ phase = "idle" /\ Active = {} /\ now \in Nat /\ used["seconds"] \in Nat
  BY <1>1, MayCallMeans
<1>4. now' \in Nat /\ now <= now' BY <1>1, <1>3, ConstantTypes
<1>5. /\ phase' = "idle" /\ current' = NoCall /\ outcome' = [outcome EXCEPT ![c] = result]
      /\ token' = token /\ lastStart' = lastStart /\ used' = used /\ book' = book
      /\ reported' = reported
  BY <1>1, <1>2 DEF End, accountant
<1>6. CallTypeOK'
  <2>1. result \in Outcomes BY <1>2 DEF Outcomes
  <2>2. NoCall \in [call : Keys \union {"none"}, since : Nat, until : Nat, retries : 0..MaxRetries]
    BY ConstantTypes DEF NoCall
  <2> QED BY <1>0, <1>4, <1>5, <2>1, <2>2 DEF CallTypeOK
<1>7. OnlyTheCallReserves' BY <1>3, <1>5 DEF OnlyTheCallReserves, Active
<1>8. OverdraftIsOneCalls' /\ ReportedIsCharged'
  BY <1>5 DEF CallInv, CallKeepsBounds, OverdraftIsOneCalls, ReportedIsCharged
<1>9. NotYetBooked'
  <2>1. ASSUME NEW k \in Keys, outcome'[k] = "none" PROVE book'[k].state = "none"
    <3>1. outcome[k] = "none" BY <1>0, <1>2, <1>5, <2>1 DEF CallTypeOK
    <3> QED BY <1>0, <1>3, <1>5, <3>1 DEF NotYetBooked, Booked
  <2> QED BY <2>1 DEF NotYetBooked, Booked
<1>10. TimeIsSpentOnce' BY <1>0, <1>3, <1>4, <1>5 DEF TimeIsSpentOnce
<1>11. Covered' /\ PausesForRetry' /\ AttemptsAreInTime'
  BY <1>5 DEF Covered, PausesForRetry, AttemptsAreInTime
<1> QED BY <1>6, <1>7, <1>8, <1>9, <1>10, <1>11 DEF CallInv, CallKeepsBounds

\* Clocks.
LEMMA Elapsed ==
    ASSUME NEW a \in Nat, NEW b \in Nat, a <= b
    PROVE  b - a \in Nat /\ 0 <= b - a
OBVIOUS

LEMMA SpentBy ==
    ASSUME NEW spent \in Nat, NEW a \in Nat, NEW b \in Nat, NEW t \in Nat, spent <= a, t <= b - a
    PROVE  spent + t <= b
OBVIOUS

LEMMA ReserveLateKeepsInv ==
    ASSUME CallInv, NEW c \in Keys, ReserveLate(c)
    PROVE  CallInv'
<1>0. /\ CallTypeOK /\ OnlyTheCallReserves /\ OverdraftIsOneCalls /\ ReportedIsCharged
      /\ NotYetBooked /\ TimeIsSpentOnce
  BY DEF CallInv, CallKeepsBounds
<1>1. /\ MayCall(c) /\ now < Deadline /\ now' \in Deadline..(now + Slack) /\ Fits(Demand(c))
      /\ End(c, "timeout") /\ reported' = reported
  BY DEF ReserveLate
<1>2. /\ phase = "idle" /\ Active = {} /\ now \in Nat /\ used["seconds"] \in Nat
      /\ used["units"] \in Nat /\ used["retries"] \in Nat
  BY <1>1, MayCallMeans
<1>3. now' \in Nat /\ now <= now' /\ now' <= Deadline + Slack BY <1>1, <1>2, ConstantTypes
<1>4. now' - now \in Nat /\ 0 <= now' - now
  <2>1. now \in Nat /\ now' \in Nat /\ now <= now' BY <1>2, <1>3
  <2> QED BY <2>1, Elapsed, Zenon
<1>5. used["units"] + UnitsOf(c) <= Limit["units"] /\ used["retries"] <= Limit["retries"]
  BY <1>0, <1>1, <1>2, FitsMeans
<1>6. used \in Amounts /\ reported \in Amounts /\ book \in [Keys -> Bookings] BY <1>0 DEF CallTypeOK
<1>7. PICK state \in {"released", "settled"}, units \in Nat, seconds \in Nat :
        /\ units <= UnitsOf(c) /\ seconds <= now' - now
        /\ book' = [book EXCEPT ![c] = [state |-> state, estimate |-> Demand(c)]]
        /\ used' = Plus(used, Amount(units, 0, seconds))
  <2>1. CASE /\ book' = [book EXCEPT ![c] = [state |-> "released", estimate |-> Demand(c)]]
             /\ UNCHANGED used
    <3>1. used' = Plus(used, Amount(0, 0, 0)) BY <1>6, <2>1, PlusNothing
    <3>2. 0 <= UnitsOf(c) BY ConstantTypes DEF UnitsOf
    <3>3. 0 <= now' - now BY <1>4
    <3> QED BY <2>1, <3>1, <3>2, <3>3
  <2>2. ASSUME NEW units \in {Unanswered(c)} \union (IF c \in Counted THEN {1} ELSE {}),
               NEW seconds \in 0..(now' - now),
               book' = [book EXCEPT ![c] = [state |-> "settled", estimate |-> Demand(c)]],
               used' = Plus(used, Amount(units, 0, seconds))
        PROVE  \E state \in {"released", "settled"}, u \in Nat, t \in Nat :
                  /\ u <= UnitsOf(c) /\ t <= now' - now
                  /\ book' = [book EXCEPT ![c] = [state |-> state, estimate |-> Demand(c)]]
                  /\ used' = Plus(used, Amount(u, 0, t))
    <3>1. units \in Nat /\ units <= UnitsOf(c) BY ConstantTypes DEF Unanswered, UnitsOf
    <3>2. now' - now \in Nat BY <1>4
    <3>3. seconds \in Nat /\ seconds <= now' - now BY <3>2
    <3> QED BY <2>2, <3>1, <3>3
  <2> QED BY <2>1, <2>2 DEF ReserveLate
<1> DEFINE a == Amount(units, 0, seconds)
<1>8. a \in Amounts /\ a["units"] = units /\ a["retries"] = 0 /\ a["seconds"] = seconds
  BY AmountType
<1> HIDE DEF a
<1>9. /\ used' \in Amounts
      /\ \A d \in Dimensions : used'[d] = used[d] + a[d] /\ used[d] \in Nat /\ a[d] \in Nat
  BY <1>6, <1>7, <1>8, PlusType DEF Amounts, a
<1>10. /\ used'["units"] = used["units"] + units /\ used'["retries"] = used["retries"]
      /\ used'["seconds"] = used["seconds"] + seconds
  <2>1. /\ used'["units"] = used["units"] + a["units"]
        /\ used'["retries"] = used["retries"] + a["retries"]
        /\ used'["seconds"] = used["seconds"] + a["seconds"]
    BY <1>9, ConstantTypes
  <2> QED BY <1>2, <1>8, <2>1
<1>11. used'["seconds"] <= now'
  <2>1. used["seconds"] <= now BY <1>0 DEF TimeIsSpentOnce
  <2>2. seconds <= now' - now BY <1>7
  <2>3. now \in Nat /\ now' \in Nat /\ used["seconds"] \in Nat BY <1>2, <1>3
  <2>4. used["seconds"] + seconds <= now' BY <2>1, <2>2, <2>3, SpentBy, Zenon
  <2> QED BY <1>10, <2>4
<1>12. /\ phase' = "idle" /\ current' = NoCall /\ outcome' = [outcome EXCEPT ![c] = "timeout"]
       /\ token' = token /\ lastStart' = lastStart
  BY <1>1 DEF End
<1>13. CallTypeOK'
  <2>1. "timeout" \in Outcomes BY DEF Outcomes
  <2>2. NoCall \in [call : Keys \union {"none"}, since : Nat, until : Nat, retries : 0..MaxRetries]
    BY ConstantTypes DEF NoCall
  <2>3. [state |-> state, estimate |-> Demand(c)] \in Bookings
    BY <1>0, <1>2, DemandType DEF Bookings
  <2>4. book' \in [Keys -> Bookings] BY <1>6, <1>7, <2>3
  <2>5. outcome' \in [Keys -> Outcomes] BY <1>0, <1>12, <2>1 DEF CallTypeOK
  <2> QED BY <1>0, <1>1, <1>3, <1>9, <1>12, <2>2, <2>4, <2>5 DEF CallTypeOK
<1>14. OnlyTheCallReserves'
  <2>1. \A k \in Keys : book[k].state # "active" BY <1>2 DEF Active
  <2>2. \A k \in Keys : book'[k].state # "active" BY <1>6, <1>7, <2>1
  <2> QED BY <1>12, <2>2 DEF OnlyTheCallReserves, Active
<1>15. OverdraftIsOneCalls'
  <2>1. used'["units"] <= Limit["units"] + (IF MostUnits > Estimate THEN MostUnits - Estimate ELSE 0)
    <3>1. used'["units"] <= Limit["units"] BY <1>2, <1>5, <1>7, <1>10, ConstantTypes DEF UnitsOf
    <3> QED BY <1>2, <1>10, <3>1, ConstantTypes
  <2>2. used'["retries"] <= Limit["retries"] + MaxRetries BY <1>2, <1>5, <1>10, ConstantTypes
  <2>3. used'["seconds"] <= Limit["seconds"] + Slack
    <3>1. used'["seconds"] \in Nat BY <1>2, <1>10
    <3> QED BY <1>3, <1>11, <3>1, ConstantTypes
  <2> QED BY <2>1, <2>2, <2>3 DEF OverdraftIsOneCalls
<1>16. ReportedIsCharged'
  <2>1. ASSUME NEW d \in Dimensions PROVE used'[d] >= reported'[d]
    <3>1. used[d] >= reported[d] BY <1>0 DEF ReportedIsCharged
    <3>2. reported[d] \in Nat /\ reported'[d] = reported[d] BY <1>1, <1>6 DEF Amounts
    <3> QED BY <1>9, <3>1, <3>2
  <2> QED BY <2>1 DEF ReportedIsCharged
<1>17. NotYetBooked'
  <2>1. ASSUME NEW k \in Keys, outcome'[k] = "none" PROVE book'[k].state = "none"
    <3>1. k # c /\ outcome[k] = "none" BY <1>0, <1>12, <2>1 DEF CallTypeOK
    <3>2. book[k].state = "none" BY <1>0, <1>2, <3>1 DEF NotYetBooked, Booked
    <3> QED BY <1>6, <1>7, <3>1, <3>2
  <2> QED BY <2>1 DEF NotYetBooked, Booked
<1>18. TimeIsSpentOnce' BY <1>11 DEF TimeIsSpentOnce
<1>19. Covered' /\ PausesForRetry' /\ AttemptsAreInTime'
  BY <1>12 DEF Covered, PausesForRetry, AttemptsAreInTime
<1> QED BY <1>13, <1>14, <1>15, <1>16, <1>17, <1>18, <1>19 DEF CallInv, CallKeepsBounds

\* Steps that leave all the invariant is about, but for the token.
LEMMA QuietKeepsInv ==
    ASSUME CallInv, token' \in BOOLEAN,
           UNCHANGED <<accountant, now, phase, current, outcome, reported, lastStart>>
    PROVE  CallInv'
<1>1. /\ used' = used /\ book' = book /\ now' = now /\ phase' = phase /\ current' = current
      /\ outcome' = outcome /\ reported' = reported /\ lastStart' = lastStart
  BY DEF accountant
<1>2. CallTypeOK' BY <1>1 DEF CallInv, CallTypeOK
<1>3. CallKeepsBounds' /\ ReportedIsCharged'
  BY <1>1 DEF CallInv, CallKeepsBounds, OnlyTheCallReserves, Active, OverdraftIsOneCalls,
              AttemptsAreInTime, ReportedIsCharged
<1>4. NotYetBooked' BY <1>1 DEF CallInv, NotYetBooked, Booked
<1>5. Covered' /\ PausesForRetry' /\ TimeIsSpentOnce'
  BY <1>1 DEF CallInv, Covered, UnitsOf, PausesForRetry, TimeIsSpentOnce
<1> QED BY <1>2, <1>3, <1>4, <1>5 DEF CallInv

LEMMA InitHasInv ==
    ASSUME CallInit
    PROVE  CallInv
<1>1. /\ used = Nothing /\ book = [k \in Keys |-> NoBooking] /\ now = 0 /\ token = FALSE
      /\ phase = "idle" /\ current = NoCall /\ outcome = [c \in Keys |-> "none"]
      /\ reported = Nothing /\ lastStart = 0
  BY DEF CallInit, AccountantInit
<1>2. Nothing \in Amounts /\ \A d \in Dimensions : Nothing[d] = 0 BY DEF Nothing, Amounts
<1>3. NoBooking \in Bookings /\ NoBooking.state = "none" BY <1>2 DEF NoBooking, Bookings
<1>4. CallTypeOK
  <2>1. NoCall \in [call : Keys \union {"none"}, since : Nat, until : Nat, retries : 0..MaxRetries]
    BY ConstantTypes DEF NoCall
  <2>2. "none" \in Outcomes BY DEF Outcomes
  <2>3. {now, lastStart} \subseteq Nat BY <1>1
  <2> QED BY <1>1, <1>2, <1>3, <2>1, <2>2, <2>3 DEF CallTypeOK
<1>5. \A k \in Keys : book[k].state = "none" BY <1>1, <1>3
<1>6. OnlyTheCallReserves BY <1>1, <1>5 DEF OnlyTheCallReserves, Active
<1>7. used["units"] = 0 /\ used["retries"] = 0 /\ used["seconds"] = 0
  BY <1>1, <1>2, ConstantTypes
<1>8. OverdraftIsOneCalls BY <1>7, ConstantTypes DEF OverdraftIsOneCalls
<1>9. ReportedIsCharged BY <1>1, <1>2 DEF ReportedIsCharged
<1>10. NotYetBooked BY <1>5 DEF NotYetBooked, Booked
<1>11. TimeIsSpentOnce BY <1>1, <1>7 DEF TimeIsSpentOnce
<1>12. Covered /\ PausesForRetry /\ AttemptsAreInTime
  BY <1>1 DEF Covered, PausesForRetry, AttemptsAreInTime
<1> QED BY <1>4, <1>6, <1>8, <1>9, <1>10, <1>11, <1>12 DEF CallInv, CallKeepsBounds

LEMMA NextKeepsInv ==
    ASSUME CallInv, [CallNext]_cvars
    PROVE  CallInv'
<1>1. CASE Cancel
  <2>1. token' \in BOOLEAN
        /\ UNCHANGED <<accountant, now, phase, current, outcome, reported, lastStart>>
    BY <1>1 DEF Cancel
  <2> QED BY <2>1, QuietKeepsInv
<1>2. CASE Hear
  <2>1. CASE SeeToken BY <2>1, SeeTokenKeepsInv
  <2>2. ASSUME NEW v, Answer(v) \/ Reject(v) \/ Raise(v) \/ Retryable(v)
        PROVE  CallInv'
    BY <2>2, AnswerKeepsInv, RejectKeepsInv, RaiseKeepsInv, RetryableKeepsInv
  <2> QED BY <1>2, <2>1, <2>2 DEF Hear
<1>3. CASE Resume BY <1>3, ResumeKeepsInv
<1>4. CASE Interrupt BY <1>4, InterruptKeepsInv
<1>5. ASSUME NEW c \in Keys, Refuse(c) \/ ReserveLate(c) \/ Invoke(c)
      PROVE  CallInv'
  BY <1>5, RefuseKeepsInv, ReserveLateKeepsInv, InvokeKeepsInv
<1>6. CASE UNCHANGED cvars
  <2>1. token \in BOOLEAN BY DEF CallInv, CallTypeOK
  <2>2. token' \in BOOLEAN
        /\ UNCHANGED <<accountant, now, phase, current, outcome, reported, lastStart>>
    BY <1>6, <2>1 DEF cvars, calls
  <2> QED BY <2>2, QuietKeepsInv
<1> QED BY <1>1, <1>2, <1>3, <1>4, <1>5, <1>6 DEF CallNext

\* The inductive invariant holds of every run, whatever the replies.
THEOREM CallsKeepInv == CallSpec => []CallInv
<1>1. CallInit => CallInv BY InitHasInv
<1>2. CallInv /\ [CallNext]_cvars => CallInv' BY NextKeepsInv
<1> QED BY <1>1, <1>2, PTL DEF CallSpec

-----------------------------------------------------------------------------
(* What follows. *)

\* The accountant, the clock and the call in flight stay in their types, however
\* the provider answers and whatever a stream's events say.
THEOREM CallsTyped == CallSpec => []CallTypeOK
<1>1. CallInv => CallTypeOK BY DEF CallInv
<1> QED BY <1>1, CallsKeepInv, PTL

\* A call stays in its reservation and in its time, whichever way it ends:
\* between calls nothing is reserved, the budget is overdrawn by one call at
\* most, and no attempt starts at the deadline or later.
THEOREM CallsKeepBounds == CallSpec => []CallKeepsBounds
<1>1. CallInv => CallKeepsBounds BY DEF CallInv
<1> QED BY <1>1, CallsKeepInv, PTL

\* What a provider reported is charged, with a result or with an error.
THEOREM ReportsAreCharged == CallSpec => []ReportedIsCharged
<1>1. CallInv => ReportedIsCharged BY DEF CallInv
<1> QED BY <1>1, CallsKeepInv, PTL

\* A stream that is taken, of any length, says what a whole reply may say, and
\* is charged what its one usage event stated (_stream_once): a fact about
\* streams, whatever the call is doing.
THEOREM StreamsRead == CallSpec => []StreamsAreReplies
<1>1. StreamsAreReplies BY AcceptedReadsAsReply DEF StreamsAreReplies, TakenAsReplies
<1> QED BY <1>1, PTL

=============================================================================
