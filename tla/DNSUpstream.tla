----------------------------- MODULE DNSUpstream -----------------------------
(***************************************************************************)
(* The list of upstream resolvers of dnsd (internal/dns).  Every query is  *)
(* handled by a goroutine of its own: it takes a copy of the list, tries   *)
(* the upstreams of its copy one after the other, and if one other than    *)
(* the first answers it moves that one to the front of the shared list.    *)
(* Every ten seconds one goroutine probes all upstreams of its copy, each  *)
(* in a goroutine of its own, waits for all of them and replaces the list  *)
(* by its copy, sorted by latency.  Copying and replacing the list are     *)
(* atomic (upstreamMu); what happens between them is not.                  *)
(*                                                                         *)
(* Which upstreams answer changes at any time: an Exchange succeeds if its *)
(* upstream is answering at that moment, so that a lost packet is an       *)
(* upstream that is not answering for a moment.                            *)
(***************************************************************************)
EXTENDS Integers, Sequences

CONSTANTS
    Configured, \* the list of NewServer, a sequence
    Queries,    \* the goroutines that handle queries
    MaxRtt      \* the measurement of a failed probe (math.MaxInt64)

Positions == 1 .. Len(Configured)
Upstreams == {Configured[i] : i \in Positions}

ASSUME ConfiguredAssumption == Configured \in Seq(Upstreams) /\ Len(Configured) > 0
ASSUME RttAssumption == MaxRtt \in Nat \ {0}

\* A list as long as the configured one; shorter or longer ones would break dns.go:431.
Lists == [Positions -> Upstreams]

VARIABLES
    upstream, \* s.upstream
    query,    \* the goroutines of the queries
    probe,    \* the probing goroutine and the ones it waits for
    answering, \* the upstreams that answer at the moment
    stale     \* an index was applied to another list than the one it was found in

upstreamVars == <<upstream, query, probe, answering, stale>>

\* list is the goroutine's copy of s.upstream, idx its position in it.
Query == [pc: {"idle", "trying", "answered"}, list: Lists, idx: Positions]
\* waiting holds the positions whose goroutine has not called wg.Done, rtt the results.
Probe == [pc: {"idle", "probing"}, list: Lists, rtt: [Positions -> 0 .. MaxRtt],
          waiting: SUBSET Positions]

NoProbe == [pc |-> "idle", list |-> Configured, rtt |-> [i \in Positions |-> 0], waiting |-> {}]

UpstreamInit ==
    /\ upstream = Configured
    /\ query = [q \in Queries |-> [pc |-> "idle", list |-> Configured, idx |-> 1]]
    /\ probe = NoProbe
    /\ answering \in SUBSET Upstreams
    /\ stale = FALSE

\* A goroutine that is not running has no copy; its record is reset so that equal states of
\* the program are equal states of the model.
Idle(q) == [query EXCEPT ![q] = [pc |-> "idle", list |-> Configured, idx |-> 1]]

-----------------------------------------------------------------------------
\* A query arrives and copies the list (upstreams).
Accept(q) ==
    /\ query[q].pc = "idle"
    /\ query' = [query EXCEPT ![q] = [pc |-> "trying", list |-> upstream, idx |-> 1]]
    /\ UNCHANGED <<upstream, probe, answering, stale>>

\* Mutant: the index wraps around, so that a query without an answer tries for ever.
ExchangeFailsWrapping(q) ==
    /\ query[q].pc = "trying"
    /\ query[q].list[query[q].idx] \notin answering
    /\ query' = [query EXCEPT ![q].idx = IF @ < Len(query[q].list) THEN @ + 1 ELSE 1]
    /\ UNCHANGED <<upstream, probe, answering, stale>>

\* Exchange fails (an error or a timeout): "fall back to next-slower upstream"; after the
\* last one the query ends without a reply.
ExchangeFails(q) ==
    /\ query[q].pc = "trying"
    /\ query[q].list[query[q].idx] \notin answering
    /\ query' = IF query[q].idx < Len(query[q].list)
                THEN [query EXCEPT ![q].idx = @ + 1]
                ELSE Idle(q)
    /\ UNCHANGED <<upstream, probe, answering, stale>>

\* Exchange succeeds and the answer is written; only a fallback goes on to the reordering.
ExchangeAnswers(q) ==
    /\ query[q].pc = "trying"
    /\ query[q].list[query[q].idx] \in answering
    /\ query' = IF query[q].idx > 1 THEN [query EXCEPT ![q].pc = "answered"] ELSE Idle(q)
    /\ UNCHANGED <<upstream, probe, answering, stale>>

\* Mutant: the upstream is not removed from its old position.
MoveToFrontKeeping(list, idx, u) ==
    <<u>> \o SubSeq(list, 1, idx - 1) \o SubSeq(list, idx, Len(list))

\* Mutant: the upstream is put in the place of the first one.
MoveToFrontReplacing(list, idx, u) ==
    <<u>> \o SubSeq(list, 2, Len(list))

\* append(append([]string{u}, list[:idx]...), list[idx+1:]...), positions counted from 1.
MoveToFront(list, idx, u) ==
    <<u>> \o SubSeq(list, 1, idx - 1) \o SubSeq(list, idx + 1, Len(list))

\* "re-order this upstream to the front of s.upstream": u and idx come from the goroutine's
\* copy, the list they are applied to is the shared one.
Reorder(q) ==
    /\ query[q].pc = "answered"
    /\ upstream' = MoveToFront(upstream, query[q].idx, query[q].list[query[q].idx])
    /\ stale' = (stale \/ upstream[query[q].idx] # query[q].list[query[q].idx])
    /\ query' = Idle(q)
    /\ UNCHANGED <<probe, answering>>

-----------------------------------------------------------------------------
\* probeUpstreamLatency copies the list and starts a goroutine per upstream of its copy.
StartProbe ==
    /\ probe.pc = "idle"
    /\ probe' = [NoProbe EXCEPT !.pc = "probing", !.list = upstream, !.waiting = Positions]
    /\ UNCHANGED <<upstream, query, answering, stale>>

\* The goroutine of position i stores its result and calls wg.Done.
Measured(i, rtt) == [probe EXCEPT !.rtt[i] = rtt, !.waiting = @ \ {i}]

\* The upstream at position i answers the probe, after any time.
ProbeAnswers(i) ==
    /\ i \in probe.waiting
    /\ probe.list[i] \in answering
    /\ \E rtt \in 0 .. MaxRtt - 1 : probe' = Measured(i, rtt)
    /\ UNCHANGED <<upstream, query, answering, stale>>

\* Mutant: a failed probe counts with the time it took, however soon it failed.
ProbeFailsFast(i) ==
    /\ i \in probe.waiting
    /\ probe.list[i] \notin answering
    /\ \E rtt \in 0 .. MaxRtt : probe' = Measured(i, rtt)
    /\ UNCHANGED <<upstream, query, answering, stale>>

\* The probe at position i fails or times out: "including unresponsive upstreams in results".
ProbeFails(i) ==
    /\ i \in probe.waiting
    /\ probe.list[i] \notin answering
    /\ probe' = Measured(i, MaxRtt)
    /\ UNCHANGED <<upstream, query, answering, stale>>

\* The permutations of the positions.
Orders == {p \in [Positions -> Positions] : \A i, j \in Positions : p[i] = p[j] => i = j}

\* The list in the orders that sort.Slice, which is not stable, may leave the results in.
Sorted(list, rtt) ==
    {[i \in Positions |-> list[p[i]]] :
        p \in {o \in Orders : \A i, j \in Positions : i < j => rtt[o[i]] <= rtt[o[j]]}}

\* wg.Wait returns once every goroutine is done; the sorted copy replaces the list.
FinishProbe ==
    /\ probe.pc = "probing"
    /\ probe.waiting = {}
    /\ upstream' \in Sorted(probe.list, probe.rtt)
    /\ probe' = NoProbe
    /\ UNCHANGED <<query, answering, stale>>

\* Upstreams fail and recover.
UpstreamsChange ==
    /\ answering' \in SUBSET Upstreams
    /\ UNCHANGED <<upstream, query, probe, stale>>

-----------------------------------------------------------------------------
Step(q) == ExchangeFails(q) \/ ExchangeAnswers(q) \/ Reorder(q)

UpstreamNext ==
    \/ \E q \in Queries : Accept(q) \/ Step(q)
    \/ StartProbe
    \/ \E i \in Positions : ProbeAnswers(i) \/ ProbeFails(i)
    \/ FinishProbe
    \/ UpstreamsChange

\* Exchange has a timeout, so a goroutine that runs always gets on, and the ticker fires again.
Fairness ==
    /\ \A q \in Queries : WF_upstreamVars(Step(q))
    /\ WF_upstreamVars(StartProbe)
    /\ \A i \in Positions : WF_upstreamVars(ProbeAnswers(i) \/ ProbeFails(i))
    /\ WF_upstreamVars(FinishProbe)

UpstreamSpec == UpstreamInit /\ [][UpstreamNext]_upstreamVars /\ Fairness

-----------------------------------------------------------------------------
\* The list never grows, shrinks or gets an entry that was not configured, although the
\* queries and the probe overwrite each other's changes: so the slices at dns.go:431, whose
\* bounds come from another copy of the list, never panic.
TypeOK ==
    /\ upstream \in Lists
    /\ query \in [Queries -> Query]
    /\ probe \in Probe
    /\ answering \in SUBSET Upstreams
    /\ stale \in BOOLEAN

\* Every configured upstream is in the list.
Complete(list) == \A u \in Upstreams : \E i \in Positions : list[i] = u

\* As long as no query has applied its index to a list that changed under it, no upstream is
\* lost, although queries and probe overwrite each other's order (dns.go:147-182, 419-433).
NoneLostUnlessStale ==
    ~stale => Complete(upstream) /\ Complete(probe.list)

\* Every query ends, answered or not, whatever the other queries and the probe do to the list
\* meanwhile (dns.go:419-437).
QueryEnds == \A q \in Queries : query[q].pc # "idle" ~> query[q].pc = "idle"

\* Once it no longer changes which upstreams answer, an answering one comes to be the first that
\* queries try, and stays it: whatever the probes measured before, the answers that queries got
\* before, and however they overwrite each other's lists (dns.go:147-182, 419-433); unless a
\* stale index lost it from the list.
AnsweringUpstreamFirst ==
    \A up \in (SUBSET Upstreams) \ {{}} :
        <>[](answering = up) => <>stale \/ <>[](upstream[1] \in up)

\* "re-order this upstream to the front of s.upstream" (dns.go:429): a reordering loses none
\* of the upstreams.
ReorderLosesNone == Complete(upstream)
=============================================================================
