----------------------------- MODULE RunJournal -----------------------------
(***************************************************************************)
(* What the audited graph promises of one run, whatever crashes and        *)
(* resumes it took: one journal of node events that only grows, in which   *)
(* each entry follows the one before it along an edge of the graph, whose  *)
(* running total is the sum of the charges in it, and a manifest that is   *)
(* written over the whole journal of a run that has come to its end.       *)
(***************************************************************************)
EXTENDS Naturals, Sequences

CONSTANTS
    Nodes,          \* of the graphs
    Graphs,         \* the edge relations a run may be of
    Entry, Last,    \* its first node and the one that persists the results
    Charges         \* what one node may be charged

VARIABLES
    edges,      \* the graph of this run
    journal,    \* the entries [node, ok, total] in their order
    manifest    \* 0, or the number of entries the manifest accounts for

vars == <<edges, journal, manifest>>

Entries == [node : Nodes, ok : BOOLEAN, total : Nat]

Total == IF journal = <<>> THEN 0 ELSE journal[Len(journal)].total

\* A success is followed by a successor of its node, or by the node's own
\* failure; a failure by the node that persists the results.
Follows(n, ok) ==
    IF journal = <<>> THEN n = Entry
    ELSE LET e == journal[Len(journal)]
         IN  \/ e.ok /\ <<e.node, n>> \in edges
             \/ e.ok /\ n = e.node /\ ~ok
             \/ ~e.ok /\ n = Last /\ e.node # Last

Init == edges \in Graphs /\ journal = <<>> /\ manifest = 0

Record(n, ok, charge) ==
    /\ manifest = 0 \/ n = Last
    /\ Follows(n, ok)
    /\ journal' = Append(journal, [node |-> n, ok |-> ok, total |-> Total + charge])
    /\ UNCHANGED <<edges, manifest>>

\* The results are persisted over every entry, once, when only the last node
\* is left to record.
Persist ==
    /\ manifest = 0
    /\ journal # <<>>
    /\ LET e == journal[Len(journal)]
       IN  e.node # Last /\ (~e.ok \/ <<e.node, Last>> \in edges)
    /\ manifest' = Len(journal)
    /\ UNCHANGED <<edges, journal>>

Next ==
    \/ \E n \in Nodes, ok \in BOOLEAN, charge \in Charges : Record(n, ok, charge)
    \/ Persist

Spec == Init /\ [][Next]_vars
=============================================================================
