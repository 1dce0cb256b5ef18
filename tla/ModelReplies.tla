---------------------------- MODULE ModelReplies ----------------------------
(***************************************************************************)
(* What one attempt of a model call (OpenAICompatibleModelProvider) makes  *)
(* of what the network answers: a whole reply (complete, structured), or a *)
(* stream of events that is read to its end before anything of it is       *)
(* handed on.  A tool call comes in pieces that name its index; its        *)
(* arguments are their concatenation.                                      *)
(*                                                                         *)
(* Definitions named Bug... are faulty variants.                           *)
(***************************************************************************)
EXTENDS WebReplies, SequencesExt

CONSTANTS
    MostUnits,      \* bound: units a model call may turn out to consume
    MaxDeltas       \* bound: events of a stream before those that end it

ASSUME ModelConstants == {MostUnits, MaxDeltas} \subseteq Nat

\* The usage a reply states, if it states one that adds up (_usage).
Stated == {Bad} \union 0..MostUnits

\* An error that carries no usage and is not the provider's own.
Raised == Verdict("raised", 0, OwnPause)

-----------------------------------------------------------------------------
(* Arguments of a tool call: JSON text, as far as its pieces can spell it  *)

Texts == {"", "half", "object", "odd", "broken"}

\* Two halves are an object; "odd" is one that json.loads takes, but with a
\* duplicate key, a constant that is no number, or nested too deep.
Join(a, b) ==
    IF a = "" THEN b
    ELSE IF b = "" THEN a
    ELSE IF a = "half" /\ b = "half" THEN "object"
    ELSE "broken"

Decodes(text) == text \in {"object", "odd"}
\* _is_strict_tool_json_object
Strict(text)  == text = "object"

-----------------------------------------------------------------------------
(* A whole reply *)

\* A tool call: its fields are there and not blank, its id, its arguments.
Tools == [named : BOOLEAN, id : {"a", "b"}, args : Texts]

Message(sole, role, text, tools, finish) ==
    [sole |-> sole, role |-> role, text |-> text, tools |-> tools, finish |-> finish]

\* _content_and_tools: text, or tool calls and the finish reason that goes
\* with them.
MessageOK(m) ==
    /\ m.sole /\ m.role = "assistant" /\ m.finish # "none"
    /\ \A i \in DOMAIN m.tools : m.tools[i].named /\ Decodes(m.tools[i].args)
    /\ \A i, j \in DOMAIN m.tools : m.tools[i].id = m.tools[j].id => i = j
    /\ (m.finish = "tool_calls") = (m.tools # <<>>)
    /\ m.tools = <<>> => m.text

Messages ==
    {Message(sole, role, text, tools, finish) :
        sole \in BOOLEAN, role \in {"none", "assistant"}, text \in BOOLEAN,
        tools \in {<<>>} \union {<<t>> : t \in Tools}, finish \in {"none", "stop", "tool_calls"}}

ModelReplies == Answered([json : BOOLEAN, usage : Stated, message : Messages])

\* _post_json: a reply that cannot be read states no usage, whatever it cost.
PostJson(reply) ==
    IF reply.status = "lost" THEN Again(0, OwnPause)
    ELSE IF reply.status \in Retried THEN Again(0, reply.wait)
    ELSE IF reply.status # "2xx" THEN Rejected(0)
    ELSE IF ~reply.body.json \/ reply.body.usage = Bad THEN Rejected(0)
    ELSE Done(reply.body.usage)

\* complete
Complete(reply) ==
    LET posted == PostJson(reply) IN
    IF posted.result = "ok" /\ ~MessageOK(reply.body.message) THEN Rejected(posted.units) ELSE posted

\* structured: the text must also fit the schema.
Structured(reply, fits) ==
    LET completed == Complete(reply) IN
    IF completed.result = "ok" /\ ~fits THEN Rejected(completed.units) ELSE completed

-----------------------------------------------------------------------------
(* A stream *)

\* A piece of a tool call: the index it names, its id if it gives one, and
\* its part of the arguments.
NoPiece == [index |-> -2, id |-> "none", args |-> ""]
Pieces  == [index : 0..1, id : {"none", "a", "b"}, args : {"", "half", "odd"}]
             \union {[index |-> -1, id |-> "none", args |-> ""]}

Delta(role, text, piece, finish) ==
    [kind |-> "delta", role |-> role, text |-> text, piece |-> piece, finish |-> finish, usage |-> 0]
\* Events with a piece, or without one, and a finish reason beside it or not.
Finishes == {"none", "stop", "tool_calls"}
Deltas ==
    {Delta(role, text, NoPiece, f) : role \in BOOLEAN, text \in BOOLEAN, f \in Finishes}
    \union {Delta(FALSE, FALSE, p, f) : p \in Pieces, f \in Finishes}

Other(kind, usage) == [kind |-> kind, usage |-> usage]
Events == Deltas \union {Other("usage", u) : u \in {Bad, MostUnits}}
                 \union {Other(k, 0) : k \in {"done", "junk"}}

\* What _stream_once remembers of the events it read.
Fresh == [open |-> TRUE, role |-> FALSE, begun |-> FALSE, ids |-> <<>>, args |-> <<>>,
          finish |-> "none", usage |-> Absent, done |-> FALSE, raised |-> FALSE]
Broken(s) == [s EXCEPT !.open = FALSE]

\* The index of a piece may repeat the current tool call or start the next.
NextIndex(s) == Len(s.ids)
BeginTool(s, p) ==
    IF p.id = "none" \/ p.id \in ToSet(s.ids) THEN Broken(s)
    ELSE [s EXCEPT !.ids = Append(@, p.id), !.args = Append(@, p.args)]
\* Index -1 passes for the current one while there is none, and the look-up
\* of what was never begun raises a KeyError.
ContinueTool(s, p) ==
    IF p.index = -1 THEN [Broken(s) EXCEPT !.raised = TRUE]
    ELSE IF p.id \notin {"none", s.ids[p.index + 1]} THEN Broken(s)
    ELSE [s EXCEPT !.args[p.index + 1] = Join(@, p.args)]

ReadPiece(s, p) ==
    IF p = NoPiece THEN s
    ELSE IF p.index \notin {NextIndex(s) - 1, NextIndex(s)} THEN Broken(s)
    ELSE IF p.index = NextIndex(s) THEN BeginTool(s, p)
    ELSE ContinueTool(s, p)

\* Bug: a finish reason is taken whatever came before it.
BugReadFinish(s, finish) == [s EXCEPT !.finish = finish]
\* The finish reason must be the one of tool calls exactly if there are any.
ReadFinish(s, finish) ==
    IF finish # "none" /\ (finish = "tool_calls") # (s.ids # <<>>) THEN Broken(s)
    ELSE [s EXCEPT !.finish = finish]

Empty(e) == ~e.role /\ ~e.text /\ e.piece = NoPiece /\ e.finish = "none"

ReadDelta(s, e) ==
    LET tool == ReadPiece([s EXCEPT !.role = @ \/ e.role, !.begun = TRUE], e.piece) IN
    IF s.usage # Absent \/ s.finish # "none" \/ (e.role /\ s.begun) \/ Empty(e) THEN Broken(s)
    ELSE IF tool.open THEN ReadFinish(tool, e.finish) ELSE tool

\* The usage comes once, after the finish reason, and only then are the
\* arguments of the tool calls whole.
ReadUsage(s, usage) ==
    IF s.usage # Absent \/ s.finish = "none" \/ usage = Bad THEN Broken(s)
    ELSE IF \E i \in DOMAIN s.args : ~Strict(s.args[i]) THEN [Broken(s) EXCEPT !.usage = usage]
    ELSE [s EXCEPT !.usage = usage]

ReadDone(s) ==
    IF s.done \/ s.finish = "none" \/ s.usage = Absent THEN Broken(s) ELSE [s EXCEPT !.done = TRUE]

Read(s, e) ==
    IF ~s.open THEN s
    ELSE IF e.kind = "done" THEN ReadDone(s)
    ELSE IF e.kind = "junk" \/ s.done THEN Broken(s)
    ELSE IF e.kind = "usage" THEN ReadUsage(s, e.usage)
    ELSE ReadDelta(s, e)

Heard(events) == FoldLeft(Read, Fresh, events)

\* The streams no event of which is refused.
StreamsOf[n \in 0..(MaxDeltas + 2)] ==
    IF n = 0 THEN {<<>>}
    ELSE {events \in {Append(w, e) : w \in StreamsOf[n - 1],
                                    e \in IF n <= MaxDeltas THEN Events ELSE Events \ Deltas} :
            Heard(events).open}
Streams == UNION {StreamsOf[n] : n \in 0..(MaxDeltas + 2)}

\* The stream ends, and what was read is all: the validated chunks are handed
\* on, with the usage in the last.
Accepts(s) == s.open /\ s.done
StreamEnd(s) ==
    IF s.raised THEN Raised
    ELSE IF Accepts(s) THEN Done(s.usage)
    ELSE IF s.usage = Absent THEN Rejected(0)
    ELSE Rejected(s.usage)

\* _stream_once: a connection that is lost while events come loses what they
\* said; a refused status is not asked for its Retry-After header.
StreamOnce(status, events, dropped) ==
    IF status \in Retried \union {"lost"} THEN Again(0, OwnPause)
    ELSE IF status # "2xx" THEN Rejected(0)
    ELSE IF dropped /\ Heard(events).open THEN Again(0, OwnPause)
    ELSE StreamEnd(Heard(events))

ModelVerdicts ==
    {Structured(reply, fits) : reply \in ModelReplies, fits \in BOOLEAN}
    \union {StreamOnce("2xx", events, dropped) : events \in Streams, dropped \in BOOLEAN}
    \union {StreamOnce("2xx", Append(events, e), FALSE) : events \in Streams, e \in Events}
    \union {StreamOnce(status, <<>>, FALSE) : status \in Statuses}

-----------------------------------------------------------------------------
(* Properties *)

\* What a reader makes of the events of a stream without validating them.
PieceAt(e, i) == e.kind = "delta" /\ e.piece.index = i
JoinAt(text, e, i) == IF PieceAt(e, i) THEN Join(text, e.piece.args) ELSE text
ArgsAt(events, i) == FoldLeft(LAMBDA text, e : JoinAt(text, e, i), "", events)
FirstAt(events, i) == Min({j \in DOMAIN events : PieceAt(events[j], i)})
ToolAt(events, i) ==
    [named |-> TRUE, id |-> events[FirstAt(events, i)].piece.id, args |-> ArgsAt(events, i)]
Says(events, finish) == \E j \in DOMAIN events : events[j].kind = "delta" /\ events[j].finish = finish
ToolsOf(events) ==
    {events[i].piece.index : i \in
        {j \in DOMAIN events : events[j].kind = "delta" /\ events[j].piece # NoPiece}}
Assembled(events) ==
    Message(TRUE, "assistant", TRUE, [i \in 1..Cardinality(ToolsOf(events)) |-> ToolAt(events, i - 1)],
            IF Says(events, "tool_calls") THEN "tool_calls"
            ELSE IF Says(events, "stop") THEN "stop" ELSE "none")

\* A stream that is taken says what a whole reply may say: assembled by a
\* reader that validates nothing, it is a message complete takes as well, and
\* it is charged what its one usage event stated.
ReadsAsReply(events) ==
    /\ MessageOK(Assembled(events))
    /\ {events[i].usage : i \in {j \in DOMAIN events : events[j].kind = "usage"}}
         = {Heard(events).usage}
TakenAsReplies == \A events \in Streams : Accepts(Heard(events)) => ReadsAsReply(events)
=============================================================================
