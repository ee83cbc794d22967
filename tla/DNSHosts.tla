------------------------------- MODULE DNSHosts -------------------------------
(***************************************************************************)
(* Local name resolution in dnsd (internal/dns): the tables that SetLeases *)
(* builds from the DHCPv4 leases, the subnames that hosts register through *)
(* /dyndns, the handlers installed on the mux, and what a query is         *)
(* answered.  All of SetLeases and of DyndnsHandler runs under s.mu, so    *)
(* each is one step; a query changes nothing, and its answer is an         *)
(* operator on the state.                                                  *)
(*                                                                         *)
(* A name is its lower-case form and whether it is written in another      *)
(* case, which is all that the code tells apart.  The router's own name is *)
(* what os.Hostname returned, in whatever case; it never changes.          *)
(***************************************************************************)
EXTENDS Integers, FiniteSets, SequencesExt

CONSTANTS
    Bases,      \* lower-case host names
    Localhost,  \* the member of Bases that is "localhost"
    Hostnames,  \* the names that os.Hostname may return for the router
    RouterAddr, \* s.ip
    Loopback,   \* 127.0.0.1 for A, ::1 for AAAA
    LeaseAddrs, \* the addresses dhcp4d hands out
    OtherAddrs, \* other addresses a host may register for a subname
    V6,         \* the IPv6 addresses among them
    Private,    \* those in the networks of localNets, for which dnsd answers PTR queries
    Subs,       \* the labels of subnames
    NoSub,      \* a query for the host itself
    LeaseNames, \* the host names in leases
    Expiries,   \* the expiry times in leases, 0 for a permanent one
    NoName,     \* the empty host name, or no entry
    NoAddr,     \* no entry
    MaxTime     \* bound on the clock, for model checking

Name == [base: Bases, lower: BOOLEAN]
ToLower(n) == [n EXCEPT !.lower = TRUE]
Lower == [base: Bases, lower: {TRUE}]

Addrs == LeaseAddrs \cup OtherAddrs \cup {RouterAddr}

ASSUME NameAssumption ==
    Hostnames \subseteq Name /\ LeaseNames \subseteq Name /\ Localhost \in Bases /\ NoName \notin Name
ASSUME AddrAssumption ==
    /\ IsFiniteSet(LeaseAddrs) /\ RouterAddr \notin LeaseAddrs
    /\ Loopback \notin Addrs /\ NoAddr \notin Addrs \cup {Loopback}
    /\ Private \subseteq Addrs /\ Private \cap V6 = {}
ASSUME TimeAssumption == Expiries \subseteq Nat /\ MaxTime \in Nat

\* What leases.json may hold: at most one lease per address.
LeaseFiles ==
    {{[addr |-> a, hostname |-> f[a].hostname, expiry |-> f[a].expiry] : a \in DOMAIN f} :
        f \in UNION {[A -> [hostname: LeaseNames \cup {NoName}, expiry: Expiries]] : A \in SUBSET LeaseAddrs}}

VARIABLES
    now,         \* the clock
    leases,      \* the leases last given to SetLeases
    readAt,      \* and when
    hostsByName, \* lower-case name -> address
    hostsByIP,   \* address -> name
    mux,         \* lower-case name -> the host name of its subnameHandler
    subnames,    \* lower-case name -> label -> address
    hostname     \* s.hostname, the router's own name

vars == <<hostname, now, leases, readAt, hostsByName, hostsByIP, mux, subnames>>

-----------------------------------------------------------------------------
(* The tables.                                                              *)

\* initHostsLocked: the router itself.  Handlers of earlier leases stay on the mux.
initHostsLocked(handlers) ==
    [byName |-> [l \in Lower |-> IF l = ToLower(hostname) THEN RouterAddr ELSE NoAddr],
     byIP |-> [a \in Addrs |-> IF a = RouterAddr THEN hostname ELSE NoName],
     mux |-> [handlers EXCEPT ![ToLower(hostname)] = hostname]]

Expired(l, at) == l.expiry # 0 /\ at > l.expiry

\* Mutant: the leases are ordered by expiration ascendingly.
SortedAscending(file) ==
    {s \in SetToSeqs(file) : \A i, j \in 1 .. Len(s) : i < j => s[i].expiry <= s[j].expiry}

\* The orders in which sort.Slice may leave the leases: the zero time of a permanent lease is
\* before any other, and leases with the same expiry are in any order.
SortedLeases(file) ==
    {s \in SetToSeqs(file) : \A i, j \in 1 .. Len(s) : i < j => s[j].expiry <= s[i].expiry}

\* Mutant: a later lease overwrites the entry of an earlier one.
EnterOverwriting(t, l) ==
    IF Expired(l, now) \/ l.hostname = NoName THEN t
    ELSE [byName |-> [t.byName EXCEPT ![ToLower(l.hostname)] = l.addr],
          byIP |-> [t.byIP EXCEPT ![l.addr] = l.hostname],
          mux |-> [t.mux EXCEPT ![ToLower(l.hostname)] = ToLower(l.hostname)]]

\* Mutant: the handler is installed under the name as the client spelt it.
EnterAsSpelt(t, l) ==
    IF Expired(l, now) \/ l.hostname = NoName THEN t
    ELSE IF t.byName[ToLower(l.hostname)] # NoAddr THEN t
    ELSE [byName |-> [t.byName EXCEPT ![ToLower(l.hostname)] = l.addr],
          byIP |-> [t.byIP EXCEPT ![l.addr] = l.hostname],
          mux |-> [t.mux EXCEPT ![ToLower(l.hostname)] = l.hostname]]

\* The body of the loop in SetLeases: "First entry wins".
Enter(t, l) ==
    IF Expired(l, now) \/ l.hostname = NoName \/ t.byName[ToLower(l.hostname)] # NoAddr THEN t
    ELSE [byName |-> [t.byName EXCEPT ![ToLower(l.hostname)] = l.addr],
          byIP |-> [t.byIP EXCEPT ![l.addr] = l.hostname],
          mux |-> [t.mux EXCEPT ![ToLower(l.hostname)] = ToLower(l.hostname)]]

\* The loop in SetLeases, over the tables that initHostsLocked leaves.
EnterAll(order) ==
    LET tables[i \in 0 .. Len(order)] ==
            IF i = 0 THEN initHostsLocked(mux) ELSE Enter(tables[i - 1], order[i])
    IN  tables[Len(order)]

-----------------------------------------------------------------------------
Install(t) ==
    /\ hostsByName' = t.byName
    /\ hostsByIP' = t.byIP
    /\ mux' = t.mux

\* NewServer: only the router is known.
Init ==
    LET t == initHostsLocked([l \in Lower |-> NoName])
    IN  /\ hostname \in Hostnames
        /\ now = 1
        /\ leases = {}
        /\ readAt = 1
        /\ hostsByName = t.byName
        /\ hostsByIP = t.byIP
        /\ mux = t.mux
        /\ subnames = [l \in Lower |-> [s \in Subs |-> NoAddr]]

Tick ==
    /\ now < MaxTime
    /\ now' = now + 1
    /\ UNCHANGED <<hostname, leases, readAt, hostsByName, hostsByIP, mux, subnames>>

\* leases.json was read again, at the start or upon SIGUSR1.
SetLeases(file) ==
    /\ \E order \in SortedLeases(file) : Install(EnterAll(order))
    /\ leases' = file
    /\ readAt' = now
    /\ UNCHANGED <<hostname, now, subnames>>

\* A host registers an address for a label below its own name; it must have a name.
DyndnsHandler(remote, host, ip) ==
    /\ hostsByIP[remote] # NoName
    /\ subnames' = [subnames EXCEPT ![ToLower(hostsByIP[remote])][host] = ip]
    /\ UNCHANGED <<hostname, now, leases, readAt, hostsByName, hostsByIP, mux>>

Next ==
    \/ Tick
    \/ \E file \in LeaseFiles : SetLeases(file)
    \/ \E remote \in Addrs, host \in Subs, ip \in Addrs : DyndnsHandler(remote, host, ip)

Spec == Init /\ [][Next]_vars

-----------------------------------------------------------------------------
(* Queries.  A query is for a host (sub = NoSub) or for a label below one,  *)
(* with the domain or without it, of class IN.                              *)

Question == [name: Name, sub: Subs \cup {NoSub}, domain: BOOLEAN, type: {"A", "AAAA"}]

Address(a) == [kind |-> "address", addr |-> a]
Empty == [kind |-> "empty", addr |-> NoAddr]          \* errEmpty: a reply without answers
NXDOMAIN == [kind |-> "nxdomain", addr |-> NoAddr]
Forwarded == [kind |-> "forwarded", addr |-> NoAddr]  \* handleRequest asks the upstreams

\* A table entry answers an A query; the other types exist without answers.
HostAnswer(a, type) ==
    IF a = NoAddr THEN NXDOMAIN ELSE IF type = "A" THEN Address(a) ELSE Empty

SubnameAnswer(a, type) ==
    IF a = NoAddr THEN NXDOMAIN
    ELSE IF (type = "AAAA") = (a \in V6) THEN Address(a) ELSE Empty

\* resolve, through handleInternal.
resolve(q) ==
    IF q.sub # NoSub THEN NXDOMAIN
    ELSE IF q.name.base = Localhost /\ ~q.domain THEN Address(Loopback)
    ELSE HostAnswer(hostsByName[ToLower(q.name)], q.type)

\* resolveSubname with the host name that the handler was made for: the comparison with the host itself
\* ignores case in the query, strings.TrimSuffix does not, and a name that is not trimmed is
\* no label.
resolveSubname(handler, q) ==
    IF q.sub = NoSub /\ ToLower(q.name) = handler
    THEN HostAnswer(hostsByName[ToLower(handler)], q.type)
    ELSE IF q.sub # NoSub /\ q.name = handler
    THEN SubnameAnswer(subnames[ToLower(handler)][q.sub], q.type)
    ELSE NXDOMAIN

\* The mux picks the longest installed suffix of the lower-case name: that of the host, else
\* "lan." or "localhost.", else ".".
Answer(q) ==
    IF mux[ToLower(q.name)] # NoName THEN resolveSubname(mux[ToLower(q.name)], q)
    ELSE IF q.domain \/ q.name.base = Localhost THEN resolve(q)
    ELSE Forwarded

\* A PTR query: handleRequest keeps those for which isLocalInAddrArpa holds to itself, and resolve
\* looks them up; 127.in-addr.arpa is localhost's.
ReverseAnswer(a) ==
    IF a = Loopback THEN [kind |-> "name", name |-> [base |-> Localhost, lower |-> TRUE]]
    ELSE IF a \notin Private THEN Forwarded
    ELSE IF hostsByIP[a] # NoName THEN [kind |-> "name", name |-> hostsByIP[a]]
    ELSE NXDOMAIN

-----------------------------------------------------------------------------
\* Names and addresses lead back to each other, whatever names the leases share with each other and
\* with the router and in whatever case they spell them (dns.go:124-136, 261-278): the name that a PTR
\* query gets resolves to the address, and the address that a host name gets to the name.  So a host
\* that registers a subname does so below a name that resolves to it (dns.go:229-241).  Not claimed is
\* that the router's own address leads back if os.Hostname returned its name with capitals: the
\* handler compares the lower-case query with the name as it is spelt (dns.go:133, 449).
ForwardReverseAgree ==
    /\ \A a \in Private : ReverseAnswer(a).kind = "name" /\ (a = RouterAddr => hostname.lower) =>
          \A d \in BOOLEAN : Answer([name |-> ReverseAnswer(a).name, sub |-> NoSub, domain |-> d,
                                     type |-> "A"]) = Address(a)
    /\ \A q \in Question, a \in Private : q.sub = NoSub /\ Answer(q) = Address(a) =>
          ReverseAnswer(a).kind = "name" /\ ToLower(ReverseAnswer(a).name) = ToLower(q.name)

\* The leases for a name that had not expired when leases.json was read.
Candidates(l) ==
    {k \in leases : k.hostname # NoName /\ ToLower(k.hostname) = l /\ ~Expired(k, readAt)}

\* A host name, in any case, resolves to "the newest entry for any given name", the router's own
\* name to the router if os.Hostname returned it in lower case (dns.go:449), and the name of a lease
\* that is gone to NXDOMAIN, not to an upstream, although its handler "is still installed on the mux"
\* (dns.go:256-257, 270, 453-455).
NewestEntryAnswers ==
    \A q \in Question : q.sub = NoSub /\ q.type = "A" /\ mux[ToLower(q.name)] # NoName =>
        LET best == {k \in Candidates(ToLower(q.name)) :
                        \A j \in Candidates(ToLower(q.name)) : j.expiry <= k.expiry}
        IN  IF ToLower(q.name) = ToLower(hostname) THEN hostname.lower => Answer(q) = Address(RouterAddr)
            ELSE IF best = {} THEN Answer(q) = NXDOMAIN
            ELSE \E k \in best : Answer(q) = Address(k.addr)

\* How a query for a label must spell the host above it, as strings.TrimSuffix minds case: the
\* router's own name as os.Hostname returned it, any other in lower case (dns.go:133, 276, 446).
Spelling(l) == IF l = ToLower(hostname) THEN hostname ELSE l

\* A label that a host registered below its name resolves to the registered address, for the
\* address's own family, if the query spells the host as its handler does: also after the lease is
\* gone, and whatever leases were read since (dns.go:229-241, 276-277, 463-471).
RegisteredLabelResolves ==
    \A l \in Lower, q \in Question : q.sub # NoSub /\ q.name = Spelling(l) /\ subnames[l][q.sub] # NoAddr =>
        LET a == subnames[l][q.sub]
        IN  Answer(q) = IF (q.type = "AAAA") = (a \in V6) THEN Address(a) ELSE Empty

-----------------------------------------------------------------------------
(* The inductive invariant behind the properties.                           *)

Tables ==
    [byName: [Lower -> LeaseAddrs \cup {RouterAddr, NoAddr}],
     byIP: [Addrs -> Name \cup {NoName}],
     mux: [Lower -> Name \cup {NoName}]]

Installed == [byName |-> hostsByName, byIP |-> hostsByIP, mux |-> mux]

TablesOK ==
    /\ hostname \in Hostnames /\ now \in Nat /\ readAt \in Nat
    /\ leases \in LeaseFiles
    /\ Installed \in Tables
    /\ subnames \in [Lower -> [Subs -> Addrs \cup {NoAddr}]]

\* The two tables are inverse to each other, up to the case of the names.
LeadBack(t) ==
    /\ \A a \in Addrs : t.byIP[a] # NoName => t.byName[ToLower(t.byIP[a])] = a
    /\ \A l \in Lower : t.byName[l] # NoAddr =>
          t.byIP[t.byName[l]] # NoName /\ ToLower(t.byIP[t.byName[l]]) = l

\* A name in the tables has a handler.  That of a lease is for the lower-case name; the router's
\* own is for its name as it is spelt.
Handled(t) ==
    \A l \in Lower : /\ t.mux[l] \in {NoName, Spelling(l)}
                     /\ t.byName[l] # NoAddr => t.mux[l] # NoName

\* A registered label is below a name with a handler.
LabelsHandled == \A l \in Lower, s \in Subs : subnames[l][s] # NoAddr => mux[l] # NoName

\* The router's name is the router's, and another name that of the newest lease for it.
Newest ==
    /\ hostsByName[ToLower(hostname)] = RouterAddr
    /\ \A l \in Lower \ {ToLower(hostname)} :
          IF Candidates(l) = {} THEN hostsByName[l] = NoAddr
          ELSE \E k \in Candidates(l) : /\ hostsByName[l] = k.addr
                                        /\ \A j \in Candidates(l) : j.expiry <= k.expiry

HostsInv == TablesOK /\ LeadBack(Installed) /\ Handled(Installed) /\ LabelsHandled /\ Newest
===============================================================================
