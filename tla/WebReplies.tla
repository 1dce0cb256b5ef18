----------------------------- MODULE WebReplies -----------------------------
(***************************************************************************)
(* What one attempt of a search (TavilySearchProvider) or of a page fetch  *)
(* (HttpxFetcher) makes of what the network answers: a result, an error    *)
(* that is retried or one that is not, and the usage either carries.       *)
(* Operators over small descriptions of replies; ProviderCalls lets an     *)
(* attempt end with any of these verdicts.                                 *)
(***************************************************************************)
EXTENDS Integers, Sequences

CONSTANTS
    MaxRedirects,   \* redirects a fetch follows
    MaxBody,        \* units of body a fetch reads
    RetryAfter,     \* seconds a Retry-After header asks for
    MaxHits         \* bound: results of a search reply

ASSUME ReplyConstants ==
    {MaxRedirects, MaxBody, MaxHits} \subseteq Nat /\ RetryAfter \subseteq Nat

\* The executor pauses for as long as the error says, or for its own back-off.
OwnPause == -1
Verdict(result, units, wait) == [result |-> result, units |-> units, wait |-> wait]
Done(units)          == Verdict("ok", units, OwnPause)
Rejected(units)      == Verdict("failed", units, OwnPause)
Again(units, wait)   == Verdict("retry", units, wait)

-----------------------------------------------------------------------------
(* HTTP *)

\* "lost": the client raised a timeout or a network error instead of a reply.
Statuses == {"lost", "2xx", "3xx", "denied", "429", "5xx", "4xx"}
Retried  == {"429", "5xx"}
\* A Retry-After header that is not a finite non-negative number is ignored.
Waits    == {OwnPause} \union RetryAfter
Answered(bodies) == [status : Statuses \ {"2xx"}, wait : Waits]
                    \union [status : {"2xx"}, body : bodies]

-----------------------------------------------------------------------------
(* A search: whatever the reply, one search was asked for *)

\* Results, whether they have the fields they need, a safe URL and a finite
\* score; only as many as were asked for are looked at.
Results == UNION {[1..n -> BOOLEAN] : n \in 0..MaxHits}
HitsOf(results, limit) == SubSeq(results, 1, IF Len(results) < limit THEN Len(results) ELSE limit)

SearchStatus(reply) ==
    CASE reply.status = "lost"     -> Again(1, OwnPause)
      [] reply.status \in Retried  -> Again(1, reply.wait)
      [] OTHER                     -> Rejected(1)

SearchBody(reply, limit) ==
    IF reply.body.json /\ \A i \in DOMAIN HitsOf(reply.body.results, limit) : reply.body.results[i]
      THEN Done(1) ELSE Rejected(1)

SearchReplies == Answered([json : BOOLEAN, results : Results])

\* _search_once: a blank query, a limit of zero or a reserved filter is
\* refused before anything is sent, and still reported as a search.
SearchOnce(fit, limit, reply) ==
    IF ~fit \/ limit = 0 THEN Rejected(1)
    ELSE IF reply.status # "2xx" THEN SearchStatus(reply)
    ELSE SearchBody(reply, limit)

SearchVerdicts ==
    {SearchOnce(fit, limit, reply) : fit \in BOOLEAN, limit \in 0..1, reply \in SearchReplies}

-----------------------------------------------------------------------------
(* A fetch: a page counts once its document came *)

\* Looking up a host: its name or one of its addresses is not public, it
\* cannot be resolved, or it is pinned to an address.
Lookups == {"unsafe", "unresolved", "pinned"}

\* What the connection answers when it is no redirect: nothing, broken framing,
\* an answer of another peer, a redirect without a target, a status, or a page.
Absent   == -2
Bad      == -1
Declared == {Absent, Bad} \union 0..(MaxBody + 1)
Pages    == [media : BOOLEAN, declared : Declared, body : 0..(MaxBody + 1)]
Hops     ==
    {[lookup |-> l, got |-> "nothing"] : l \in Lookups \ {"pinned"}}
    \union {[lookup |-> "pinned", got |-> g] :
                g \in {"drop", "framing", "stranger", "nowhere"} \union (Statuses \ {"2xx", "lost"})}
    \union {[lookup |-> "pinned", got |-> "page", page |-> p] : p \in Pages}

ReadBody(page) ==
    IF page.declared = Bad \/ page.declared > MaxBody \/ page.body > MaxBody
      THEN Rejected(0) ELSE Done(1)

\* Looking a host up, for every hop anew: nothing is sent to an address that
\* was not checked for this hop.
Resolve(hop) == IF hop.lookup = "unsafe" THEN Rejected(0) ELSE Again(0, OwnPause)

\* The fetcher has no use for a Retry-After header.
PageStatus(status) == IF status \in Retried THEN Again(0, OwnPause) ELSE Rejected(0)

\* What the connection raises: a timeout, a lost network, or broken framing.
Transport(got) == IF got = "framing" THEN Rejected(0) ELSE Again(0, OwnPause)

\* _fetch_once: every redirect is a connection of its own, and of those only
\* MaxRedirects are followed; the last answer decides.
FetchOnce(redirects, hop) ==
    IF redirects > MaxRedirects THEN Rejected(0)
    ELSE IF hop.lookup # "pinned" THEN Resolve(hop)
    ELSE CASE hop.got \in {"drop", "framing"}     -> Transport(hop.got)
           [] hop.got \in {"stranger", "nowhere"} -> Rejected(0)
           [] hop.got = "page"                    -> IF hop.page.media THEN ReadBody(hop.page)
                                                                       ELSE Rejected(0)
           [] OTHER                               -> PageStatus(hop.got)

PageVerdicts ==
    {FetchOnce(redirects, hop) : redirects \in 0..(MaxRedirects + 1), hop \in Hops}
=============================================================================
