# router7: TLA+ models, model checking and proofs

router7 turns a small computer into a home router. It is a set of services, each a process of its
own under gokrazy's supervision, that share state by files under `/perm` and tell each other about
changes with `SIGUSR1`. This directory models the services whose behaviour is hard to test: those
with concurrent goroutines, with state that must survive restarts, or with a peer that loses
packets. Line numbers refer to the repository's source.

## 1. The system

| Component | State | Operations | Interacts with |
|---|---|---|---|
| DHCPv4 server (`internal/dhcp4d`, `cmd/dhcp4d`) | `leasesHW`, `leasesIP` under `leasesMu`; `leases.json` | DHCPDISCOVER, DHCPREQUEST, DHCPDECLINE, `/sethostname`, load at start | clients; writes `leases.json`, signals dnsd |
| DNS forwarder (`internal/dns`, `cmd/dnsd`) | list of upstreams under `upstreamMu`; host tables, subnames, mux under `mu` | queries, latency probe, `SetLeases`, `/dyndns` | upstream resolvers; reads `leases.json` |
| DHCPv4 client (`internal/dhcp4`, `cmd/dhcp4`) | `c.Ack`; `wire/ack`, `wire/lease.json` | obtain, renew, release (SIGUSR2) | the provider's server; signals netconfigd |
| DHCPv6 client (`internal/dhcp6`, `cmd/dhcp6`) | `c.advertise`, `c.cfg`; `wire/lease.json` | solicit, request, release | the provider's server; signals netconfigd, radvd |
| Network configuration (`internal/netconfig`, `cmd/netconfigd`) | the kernel's links, addresses, routes, nftables, WireGuard; metrics | `Apply`, scrape | reads all files; signals the services that listen on addresses, and init |
| Notification (`internal/notify`) | one slot in each receiver's channel | `Process` | every writer and reader of a file |
| Router advertisements (`internal/radvd`) | prefixes under a mutex | `SetPrefixes`, solicitations, periodic advertisements | reads `dhcp6/wire/lease.json` |
| Listener pool (`internal/multilisten`) | host -> listener under a mutex | `ListenAndServe`, a listener dies | used by dnsd, dhcp4d, diagd, backupd, netconfigd, captured |
| OUI database (`internal/oui`) | the table, a cache file | conditional download, lookup | used by dhcp4d's web page |
| Packet capture (`cmd/captured`) | a ring of packets under a mutex | record, replay and follow in an SSH session | packet sockets; its listeners are a pool |
| Dynamic DNS, diagnostics, backup | none between two runs | | external services, other components' addresses |

What is hard about them: goroutines that drop a mutex between a check and its use (dhcp4d, dns
upstreams); processes that end between two writes or between a write and its signal (all);
packets that are lost, late or repeated (all DHCP sides); several calls to the kernel of which
any may fail (netconfigd); goroutines that clean up after something newer has taken their place
(listeners) or use what another goroutine is still setting up (radvd, captured); tables and rings
at their limit (dhcp4d, captured). `PROJECT.json` lists these hazards
with the line where each bites and the properties that would notice.

What makes each component correct, in one sentence:
dhcp4d never lets two clients rely on one address and keeps its promises over restarts;
dnsd answers with the newest lease and never loses an upstream;
dhcp4 asks only for what it was offered and always comes back to a lease;
netconfigd brings every part of the kernel in line with its file although other parts fail, as long
as it can read which interfaces there are;
a changed file is always read in the end;
a pool of listeners serves every address the router has;
the prefix on the LAN is the one the provider delegated last;
a capture session sees every packet once.

## 2. Modules

| Module | Models | Proofs |
|---|---|---|
| `DHCP4d` | the DHCPv4 server | `DHCP4dProofs` |
| `AddressPool` | what that server promises, as an abstract specification | refinement in `DHCP4dProofs` |
| `DNSUpstream` | the list of upstreams under concurrent queries and probes | `DNSProofs` |
| `DNSHosts` | local names: tables, subnames, handlers and answers | `DNSProofs` |
| `StateNotify` | files and signals between services | `StateNotifyProofs` |
| `Listeners` | the listener pool of a service, composed with `StateNotify` (EXTENDS) | `ListenersProofs` |
| `DHCP4Client` | the DHCPv4 client, an unreliable network and the provider's servers | `DHCP4ClientProofs` |
| `DHCP6Client` | the DHCPv6 client, an unreliable network and the provider's servers | with `PrefixDelegation` |
| `PrefixDelegation` | radvd, composed with `DHCP6Client` (EXTENDS): a prefix from the provider to the LAN | `PrefixDelegationProofs` |
| `PrefixRelay` | what client and radvd promise together, as an abstract specification | refinement in `PrefixDelegationProofs` |
| `Captured` | packet capture: the ring, the sockets and the sessions | `CapturedProofs` |
| `PacketHistory` | what the ring promises, as an abstract specification | refinement in `CapturedProofs` |
| `Netconfig` | netconfigd's `Apply`, its loop and its metrics | `NetconfigProofs` |
| `MC*` | values for constants that a configuration file cannot express | |

Definitions whose comment begins with "Mutant" are plausible wrong versions of the definition
after them. They are used nowhere; each shows that a property notices that mistake.

### DHCP4d

`leasesHW`, `leasesIP` and `disk` are the two maps and `leases.json`. A DHCPREQUEST takes
`leasesMu` several times, so it is several steps, at whose boundaries `/sethostname` and the end
of the process can come in:

| Action | Code (`internal/dhcp4d/dhcp4d.go`) |
|---|---|
| `Discover` | `serveDHCP`, 281-311 |
| `RefuseRequest`, `CheckRequest` | `canLease` and the DHCPNAK, or the new `Lease`, 313-329 |
| `ReadOldLease` | `leaseHW` and what is copied from the old lease, 331-341 |
| `ReleaseOldLease` | the delete under the mutex, 343-346 |
| `StoreLease`, `StoreLeaseWriteFails` | both maps, `callLeasesLocked` and the DHCPACK, 347-359 |
| `Decline` | `expireLease`, 361-391 |
| `SetHostname` | 125-144, with the unsynchronised copy it races with (`CopyRaces`) |
| `CrashRestart` | `cmd/dhcp4d`: `loadLeases`, `SetLeases` |

`held` is the clients' side: the number a client was acknowledged and until when it relies on it.
A DHCPACK may be lost; then `held` does not change. `intact` becomes false when a restart loses
part of the database, which the code allows in two cases: `leases.json` cannot be written and the
DHCPACK escapes before the process ends, or `/sethostname` writes the file between the release and
the store of a moving client and the process ends before the store. The safety properties are
stated under `intact`; that these are the only two cases is part of what is proved.

### DNSUpstream

A query goroutine copies the list (`Accept`), tries one upstream after the other
(`ExchangeFails`, `ExchangeAnswers`) and, if it had to fall back, moves the one that answered to
the front of the shared list (`Reorder`, `dns.go` 429-433). The probe copies the list and starts a
goroutine per upstream (`StartProbe`), each of which stores a latency or, after an error, the
largest one there is (`ProbeAnswers`, `ProbeFails`); when `wg.Wait` returns, the sorted copy replaces
the list (`FinishProbe`, 147-182). Which upstreams answer (`answering`) changes at any time, between
two goroutines of a probe too. `UpstreamSpec` is the whole. `stale` records that `Reorder` used an
index that no longer fits the shared list.

### DNSHosts

`SetLeases` and `DyndnsHandler` run under `s.mu` and are one step each. `EnterAll` is the loop of
`SetLeases` over the leases in one of the orders that `SortedLeases` allows. A query changes nothing,
so its answer is the operator `Answer`, built from `resolve` and `resolveSubname`; `ReverseAnswer`
is the answer to a PTR query, for which `isLocalInAddrArpa` decides whether dnsd keeps it to itself.
A name is its lower-case form plus whether it is written otherwise, which is all the code
distinguishes. The router's own name (`hostname`) is what `os.Hostname` returned, in either spelling;
that it is not empty is assumed. Leases may be named like the router, like each other, or `localhost`.
Two things depend on the spelling although the tables do not: a router spelt with capitals does not
answer for its own name, and a label resolves only below the host as its handler spells it
(`Spelling`). The properties say both, see "Where the code and its words disagree".

### StateNotify

A writer replaces its file and then signals the consumers one by one (`Process`, which may fail).
A consumer has a channel with one slot. netconfigd calls `signal.Notify` before it first reads;
dnsd and radvd read first (`ReadsFirst`), and log an error when a later read fails (`ReadFails`).
Writers write and notify again whenever a lease is renewed (`Renew`). Writers and consumers end and
are started again.

### Listeners

`ListenAndServe` is `Pool.ListenAndServe` under its mutex: new listeners for added hosts, `Close`
for vanished ones. Each listener has a goroutine, modelled step by step: `Bind` or `BindFails`
(`net.Listen`), `Serve` (the socket is where `Close` finds it), `Dies`, `ServeClosed`, and `Reap`,
which deletes the entry of the host, whosever it is by then (multilisten.go:66). What `Close` does
before the socket is there depends on the type of the listener, and all three are modelled
(`kind`): a `http.Server` remembers it and ends once it gets there; a `dns.Server` that has not
started returns an error nobody reads, and goes on; captured's own listener dereferences a nil `ln`
(ssh.go:190), and the process ends (`UpdatePanics`). The service is `StateNotify`'s consumer: its
file is the set of addresses, its read `gokrazy.PrivateInterfaceAddrs`, and what it does with it
`updateListeners`. The address that `IPv6Net1` adds is one host more.

### DHCP4Client

`Boot` reads `wire/ack`, or starts without a lease if that cannot be read; `SendDiscover`, `ReceiveOffer`, `SendRenewal`, `ReceiveAck`, `ReceiveNak`
and `Fail` are `dhcpRequest` and `ObtainOrRenew`; `WriteLease`, `WriteAck`, `Again`, `Release` are
the loop in `cmd/dhcp4`. The network is a set of packets from which anything can disappear at any
time and which a receiver does not empty, so packets are lost, delayed, reordered and duplicated.
The servers are external; `Pool` says which addresses each hands out.

### DHCP6Client and PrefixDelegation

`Solicit`, `ReceiveAdvertise`, `ReceiveReply` and `Timeout` are `ObtainOrRenew` with `solicit`,
`request` and `sendReceive`; `Sleep`, `WriteLease`, `Notify`, `Tick`, `Renew` and `Release` are the
loop in `cmd/dhcp6`. A packet carries no transaction id but whether its id is that of the last
message sent, as ids are fresh. What the provider delegates changes from one generation to the
next; a generation is a list of IA_PDs with their T1, possibly none.

radvd has two goroutines. The main one reads the file, calls `signal.Notify`, opens the socket and
sets the interface and then the connection (`ReadConfig`, `Subscribe`, `SetInterface`, `SetConn`);
from then on it advertises once a minute and when asked (`Advertise`). The other one handles the
signal (`Receives`, `ReadLease`, `SetPrefixes`, `Announce`) and may run while the first has not
finished: it reads the interface without the lock, sees it or not, and panics if the connection is
not there (`Panic`, radvd.go:55, 208). Either read may fail, also because `lease.json` or
`prefixes.json` is malformed, and then nothing changes (`ReadConfigFails`, cmd/radvd/radvd.go:37-68);
this is a bounded fault, so a file that stays malformed is left out. `Delivered` and `Undelivered` are the client's notification.

### Captured

Packets are numbered per interface. The main goroutine opens its sockets and moves packets to the
ring (`MainHandle`, `Receive`, `writePacket`); a session takes the mutex, opens its own sockets one
by one, copies the ring and lets go (`Lock`, `NewEthernetHandle`, `Unlock`), then replays and
streams until the client is gone. `NextPacketFails` ends the capture on one interface, of which
nobody is told. `Do` is the order in which `ring.Do` visits the slots, `Appended` what the function
it calls keeps of them, and `packetsLocked` the two together. `gap` records, for the property only, which packets had been captured and not yet
recorded when the session opened its socket.

### Netconfig

One action per call: `applyInterfaces` (`ReadInterfaces`, then for each link `LinkSetName`,
`LinkSetUp`, `AddrReplace` and, on the LAN, `RemoveResolv` and `WriteResolv`), `applyDhcp4`
(`ReadDhcp4`, `ReplaceAddr4`, `ReplaceRouterRoute`, `ReplaceDefaultRoute`), `applyDhcp6`,
the notifications, `applySysctl`, `applyFirewall` (`BuildRuleset`, `getCounterObj`, `Flush`) and
`applyWireGuard` (`AddLink`, `ConfigureDevice`). Each may fail, and the process may end between
any two. `Bad` is a file whose contents cannot be used (not JSON, no subnet mask, a malformed port or
key); an entry of `interfaces.json` whose hardware address or address is malformed is not `ok`. An
error in `applyInterfaces`, of a call or of the file, makes `Apply` return at once (735-737): an
`interfaces.json` that cannot be used (`~Usable`) keeps every other part from being applied, for as
long as it stays so. Every other error is noted and `Apply` goes on. `LinkSetHardwareAddr` and
`LinkSetUp` are one step, as nothing depends on the former.
`updateCounter` is the metrics goroutine. The kernel, init and the writers are external; how a
signal gets lost on the way is StateNotify's subject, so a change and its signal are one step here.

## 3. Runs

| Run | Instance | Shows |
|---|---|---|
| `DHCP4d` | 2 clients (one with the longer period), 3 numbers, one static lease, one name, lease period 1, time 1-3 | the inductive invariant; no double booking, no refused renewal, no offer in use; durable promises and the static lease, with renames and crashes at every step; nobody is turned away; `AddressPool` is implemented |
| `DHCP4d_exhausted` | 2 clients, 2 numbers | **violated**: a DISCOVER is refused although a lease has expired |
| `DNSUpstream` | 2 upstreams, 2 queries, 1 probe with a goroutine per upstream, latencies 0, 1 and that of a failure | the list keeps its length; nothing is lost before a stale index; queries end; once it is settled which upstreams answer, one of those comes to be tried first and stays it |
| `DNSUpstream_stale` | 3 upstreams, 2 queries | **violated**: a reordering loses an upstream |
| `DNSHosts` | the router in either spelling, one shared host name in two spellings and localhost, 2 leases, permanent or not, 1 subname | names and addresses lead back to each other, the newest lease answers, labels keep resolving |
| `StateNotify` | one consumer of each kind, 3 writes, 2 process ends, any number of renewals | no wakeup is lost for a consumer that subscribes first; renewals heal what gets lost otherwise |
| `Listeners` | 1 host, 3 listeners of it at a time, each type of listener, 3 changes, 2 faults | no entry outlives its listener, hosts stay served, every address is served in the end |
| `DHCP4Client` | 2 servers with an address each, 4 transaction ids, 2 packets in flight, 1 fault | a server is asked only for what that server offered, a new lease answers its own request, restarts resume the applied lease, a lease is obtained in the end |
| `DHCP4Client_timeout` | the server of the last lease is gone, another one answers | **violated**: the client never gets a lease again |
| `PrefixDelegation` | 2 servers, 2 prefixes with T1 2 and 1 that are then taken back, one additional prefix, 2 packets in flight, 1 fault | releases name their server, `PrefixRelay` is implemented (nothing goes back to an older delegation), renewal at the first T1, the LAN follows the provider |
| `Captured` | 2 interfaces, 1 session, a ring of 2, 4 packets | no packet twice, only unrecorded ones missing, `PacketHistory` is implemented |
| `Netconfig` | both links, no file of interfaces, a bad one and one with a malformed entry, 4 possible DHCPv4 leases and a bad one, 1 prefix, 1 rule set, 1 tunnel, 2 changes, 1 fault, 2 packets | routes, announcements and counters; as long as `interfaces.json` can be used an undisturbed `Apply` leaves no part behind and each part converges |

Why the bounds are enough for the cases that matter:

* Time 1-3 with lease period 1: a lease is granted, expires and is taken over by the other client,
  whose renewal then competes with the first one's return. Three numbers make moves between numbers
  possible on top of the static lease; clients ask for each other's numbers, so that two of them
  contend. A pool that runs full is the subject of `DHCP4d_exhausted`, with two numbers.
* Two queries and a probe: one changes the list while another has an old copy, and the third sees
  the result. With two upstreams the list already shows a duplicate; the loss itself is shown with
  three. Two latencies below that of a failure let answering upstreams tie or differ.
* Two leases suffice for a clash of names; one lease may carry the router's name, and
  the expiries include a permanent lease and equal ones. One may be named localhost. The two
  addresses are symmetric: no operator tells them apart, and the run checks only invariants.
* Three writes and two process ends: a signal pending for an older version, one dropped because
  the slot is taken, and a restart of either side between them.
* Three listeners of one host at a time: one that was closed and has not returned, the one that
  lost its entry to it, and the one the next update starts. Every operation of the pool treats each
  host by itself; hosts meet only in the end of the process, which a panic over one host brings to
  all and the faults contain.
* Two servers let the ADVERTISE that is taken change from one renewal to the next; two generations
  make an old reply different from a new one; two packets let an old and a new reply be in flight
  together. One fault is a crash of either process, a panic or a request to release.
* Four packets wrap a ring of two around twice; two interfaces let the sockets of a session open
  at different times. Sessions share only the mutex and write nothing the others read.
* Four transaction ids are never all in use with two packets in flight and two files, so a fresh
  one always exists; two packets let an old answer and a new request be in flight together, and two
  offers of different servers.
* Two changes and one fault: a lease or a bad file arrives, then another, with a failure or the
  end of the process at any call. The files of interfaces let either link be missing, configured or
  reached before a malformed entry. The proofs of the safety properties do not depend on the bounds.

Deadlock is checked except where the system really may come to rest: after a release in
`DHCP4Client`, when netconfigd waits for a signal, and when no more packets arrive in `Captured`.

### Fairness

* `DNSUpstream`: weak fairness of a running query and of each goroutine of a probe, as `Exchange` has
  a timeout; of the end of a probe once all of them are done; and of its start, as the ticker fires
  every ten seconds (dns.go:116-120). No query has to arrive, and upstreams need not stay up.
* `StateNotify`: processes run, so consumers and notifications get on (weak); leases are renewed for
  ever, as the loops of dhcp4 and dhcp6 do; and neither the scan of `/proc` nor the read of the file
  fails every time (strong). Nothing makes a writer write something new.
* `Listeners`: the same, and goroutines run (weak); an address that exists can be bound at some time
  (strong: an IPv6 address is tentative for a while, a closed socket is freed).
* `DHCP4Client`: the client runs (weak). Packets may be lost again and again, but if requests keep
  being answered one answer is read before the deadline (strong fairness of receiving and of the
  servers that are alive). The violation `TimeoutIsTemporary` is found under the same assumptions.
* `PrefixDelegation`: both processes run (weak). A server answers in time and an answer is read in
  time once in a while, a well-formed ADVERTISE among them, and the notification does not fail every
  time (strong).
* `Netconfig`: netconfigd runs and gokrazy restarts it (weak). Failing is never fair; the number
  of faults is bounded, and a file that stays bad fails for ever.

### Where the code and its words disagree

1. `DHCP4d_exhausted`: `findLease` (150) compares the number of map entries, expired ones
   included, with the size of the pool, and logs "no more leases available".
2. `DNSUpstream_stale`: dns.go:431 applies an index from a copy to the shared list. One upstream
   is then listed twice and another one is gone until dnsd is restarted.
3. `DHCP4Client_timeout`: a timeout keeps the last DHCPACK, in memory and in `wire/ack`, so that
   every retry names the server of that lease.

One more has no run that is violated, because the properties of `DNSHosts` describe what the code
does instead:

4. dns.go:41-43 says that lower-cased names make "the DHCP-based local name resolution" case-insensitive,
   and the tables are. But `subnameHandler` compares the query with the name it was made for as that was
   spelt: a router whose own name has capitals does not answer for it in any spelling (133, 449), while
   the PTR query for its address still gives that name; and a label is found only if the host is spelt as
   its handler was made, which is lower case for a lease (446).

Behaviours the models contain and no run reports as a violation, because nothing in the
repository promises otherwise:

* `leasesHW` keeps entries of leases that are gone, and `SetHostname` follows them, or number 0
  for an unknown address, without comparing the hardware address (dhcp4d.go:139).
* What a request copies from the old lease may be garbled by a concurrent rename (337).
* A DHCPDECLINE is not written to `leases.json`.
* A lease named `localhost` replaces the built-in handler (dns.go:276), and when it is gone localhost is
  NXDOMAIN. The properties of `DNSHosts` check the tables through this and do not forbid it.
* dnsd and radvd read their file before they call `signal.Notify`: a change in between is noticed
  at the next renewal only, which `RenewalHeals` and `LanFollowsProvider` take into account.
* A `dns.Server` closed before it started goes on serving a host that has vanished; captured's
  `Close` panics then. A listener that lost its entry keeps the port, and the one that the next
  update starts fails to bind.
* A reply without an IA_PD leaves `RenewAfter` at the zero time: dhcp6 solicits again without a
  pause, and radvd goes on with the additional prefixes only, or announces nothing new.
* A release leaves `lease.json` and the prefix on the LAN as they are.
* An error of `NextPacket` ends a capture without notice; packets that captured's main goroutine has
  received and not yet recorded are missing from a session that begins at that moment.
* A renewal repeats the transaction id of the last DHCPACK, so a late answer is taken for the new
  one; the files stay after a DHCPNAK and a release.
* A scrape between `getCounterObj` and `Flush` makes packets count twice (`raced`; `CountedOnce` says
  that nothing else does), and packets forwarded between them are not counted; addresses of earlier
  leases stay on the uplink.
* Every `Apply` removes resolv.conf before it writes it anew (netconfig.go:304-309), so there is none
  for a moment, or until the next `Apply` if the process ends there. `EachPartConverges` therefore
  claims of links and resolv.conf only that they are as configured again and again.
* An `interfaces.json` that cannot be used keeps netconfigd from applying anything (735-737).

## 4. Proofs

All proofs hold for every value of the constants that satisfies the named assumptions; the bounds
for model checking occur in no proof.

**DHCP4d** (assumptions: a non-empty pool, positive periods, a non-client `NoHW`, an initial file
with at most one lease per client). `NoDoubleBooking` is not inductive: the check and the store
are several steps apart. `IInv` adds

* `IndexConsistent`, `DiskUnique`: `leasesHW` finds every lease, in memory and after a restart;
  otherwise an old lease would survive a move;
* `StillLeasable`: what `canLease` found is still true at the store. Nothing else runs on the DHCP
  goroutine, `SetHostname` changes no owner, and time only makes more leases available;
* `OldLeaseKnown`: where the old lease of the client in flight is at each step;
* `PromiseBounded`: no promise outlives a lease granted now, so a renewal never shortens one;
* `MemoryPromises`, `DurablePromises`: what a client relies on is in memory, and on disk but for
  the window described above;
* `PermanentLeaseKept`, `PermanentOnDisk`: the same for static leases.

Theorems: `TypeCorrect` (the type invariant, which no run lists since it is proved),
`Inductive`, `IndexAlwaysConsistent`, `PromisesAreDurable`,
`PermanentLeasesAreKept`, `NeverDoubleBooked`, the action properties `RenewalsNotRefused` and
`OffersNotInUse`, `RoomForEveryClient` (by counting: an injection from owned numbers to clients),
and `Refinement`: every step maps to a step of `AddressPool` or a stutter, the variables of the
abstract specification being three of the server's own.

**DNSUpstream** (a non-empty list). `ListWellFormed`: the list keeps its length, so the slices at
dns.go:431 never panic. `OnlyStaleIndexLoses`: without a stale index the list stays complete; the
invariant also needs completeness of the probe's copy, and that a one-to-one map of the positions
is onto, so that sorting loses nothing.

**StateNotify**: `TypeCorrect`, and `WakeupsNotLost`, from `NoLostWakeup` and the types, which are
inductive together.

**Listeners** (any hosts, any bound on the listeners of a host at a time). `PoolTypeCorrect`, the types
that no run lists, uses
that every step of the composition is a step of `StateNotify` or leaves it alone. `StaysServed` is
not inductive: an update adds no listener for a host that has an entry, so one must know that a
host with an entry is served. `LInv` adds `EntryServed`, which says that, if only by a listener
that has lost its own entry, and `NoDeadEntry`. From `PoolInductive` follow `EntriesAreAlive` and
`HostsStayServed`.

**DHCP4Client** (any servers, addresses, ids and bounds). `IInv` adds to the properties
`KnownPackets` and `KnownLeases` (all that is in flight or kept was offered by the server it
names), `OwnAnswers` (a fresh id has no answers but those to its own request) and `Stages`. From
`Inductive` follow `TypeCorrect`, `AsksOnlyForOffers`, `NewLeasesAreAnswers` and `LeaseIsResumed`.

**PrefixDelegation** (any servers, generations, grants and bounds). `PInv` adds `RepliesAreCurrent`
(the answers to the last REQUEST are its server's and not older than the file: sending makes
everything in flight old), `LeaseIsCurrent` and `RadvdIsCurrent` (file, handler, prefixes and LAN
are ordered by age). From `DelegationInvariant` follow `DelegationTypeCorrect`, `ReleaseAtItsServer`
and `DelegationsRelayedInOrder`, the refinement of `PrefixRelay`: its three variables are the provider's
generation, the file's and the LAN's, of which a step moves at most one (`OneMoves`), never back, and
never beyond the one before it. `RenewalAtFirstT1` needs what the loop over the
IA_PDs computes (`RenewAfterIsFirst`: after n rounds the first of n T1s, the zero time after none) and
`NotOverdue`, that no client waits longer than the timer it set.

**Netconfig** (`Absent` and `Bad` are no lease, rules, tunnel or ruleset, nor the contents of
`interfaces.json` or the prefixes). None of the properties is
inductive: each speaks of the end of several calls. `IInv` has

* `RoutesInOrder`: when the default route is replaced the address and the route to the router are there;
* `ToldInOrder`: no address is added after the notifications;
* `CarriedBounded`: what is carried over is at most what the counter holds;
* `PartsInOrder`: what `Apply` is past has been applied, and what it has read but not yet applied is
  still what the file says, as long as `interfaces.json` can be used. A file that changes sets the
  signal, and an error that is not a failed call comes from a file that cannot be used, about which
  nothing is claimed. `RemoveResolv` undoes what an earlier `Apply` had done; that no other entry is
  concerned follows because usable entries of one link are equal.

From `Inductive` (which no run lists, nor the types of `TypeCorrect`) follow `DefaultRouteAlwaysUsable`,
`AddressesAlwaysAnnounced`, `OnlyRaceCountsTwice` and `NoPartLeftBehind`. The last is the safety part
of `EachPartConverges`: whenever `Apply` returns undisturbed and `interfaces.json` can be used, every
part is as its file says. What is left
to TLC is that such a return comes.

**DNSHosts** (finitely many lease addresses, none of them the router's; `NoName` and `NoAddr` are
neither a name nor an address; private addresses are IPv4). No property is inductive, as none says
why the tables are as they are. `HostsInv` has, besides the types,

* `LeadBack`: `hostsByName` and `hostsByIP` are inverse up to the case of the names. This is where
  "First entry wins" matters: an entry that is not overwritten keeps its way back;
* `Handled`: a name in the tables has a handler, and the handler is for the name in lower case, but
  for the router's own, which is as the router is spelt;
* `LabelsHandled`: a registered label is below a name that has a handler, which no reload removes;
* `Newest`: each name has the address of its newest unexpired lease, the router's own the router's.

`SetLeases` establishes the first, second and fourth anew. Each round of the loop (`Enter`) keeps
`LeadBack` and `Handled`; for `Newest` the invariant of the loop is that a name has an entry as soon as
one of its candidates was visited, and that this is the first visited, hence a newest one, because the
order is sorted. From `HostsInductive` follow `HostsAgree`,
`HostsNewest` and `HostsLabels`, for a router in either spelling: `Handled` knows how each handler is
spelt, and the properties except the own name of a router spelt with capitals, which it answers for in no
spelling (dns.go:133, 449).

**Captured** (any finite set of interfaces, any sessions, any size of the ring but 0). Neither
`NoPacketTwice` nor `OnlyUnrecordedMissing` is inductive: they speak of what a session has written, and
that depends on what was in the ring when it was copied. `IInv` adds

* `Mutex`: a session is between `Lock` and `Unlock` exactly if it has the lock, so the ring does not
  change while its sockets are opened;
* `Filled`: the empty slots come first in the order of `ring.Do`, so that `packetsLocked` is the rest;
* `InLine`: ring and packet at hand hold the packets of an interface in order and without a gap up to
  the last one that was read;
* `AheadOfRing`: while the ring is locked, what an open socket of the session will see is newer than
  all of the ring, and what lies between is in `gap`;
* `AheadOfOut`: what was written is older than what is to be replayed, and that older than what the
  sockets will see;
* `OnlyGapMissing`: `OnlyUnrecordedMissing`, also while the main goroutine has not opened its socket.

From `CaptureInductive` follow `CaptureNoPacketTwice` and `CaptureOnlyUnrecordedMissing`.
`CaptureKeepsTheLast` is the refinement of `PacketHistory`: `writePacket` at position `pos` moves every
slot one place back in the order of `ring.Do`, so that the sequence of its packets gets one more at the
end and, once the ring is full, loses its first.

**Induction over data.** Three of these results are about loops: `EnterAll`, `Appended` and
`RenewAfter`. Each is a recursive function on the numbers up to the length. That the function exists is
shown by an explicit solution (or by induction), and what it computes by induction on the rounds. The
library's induction theorems take a predicate, which the provers cannot instantiate; `UpTo` takes a set
of numbers instead, and follows from the least element of its complement (`LeastNumber`, from the
well-foundedness of `<`).

**Only model-checked**: the liveness properties (`QueryEnds`, `AnsweringUpstreamFirst`, `RenewalHeals`,
`EventuallyServed`, `LeaseEventually`, `LanFollowsProvider`, `EachPartConverges`), because the prover
handles neither fairness nor ENABLED. Every other property of a passing run has a theorem. The three
violations are TLC's counterexamples.

## 5. Not modelled

* OUI database: one conditional download per process into a file that is replaced atomically, then a
  table replaced under a mutex; lookups are opportunistic.
* Dynamic DNS client, the diagnostic checks and their tree, the backup's archive: I/O without state
  between two calls. A file that is replaced during a backup makes it fail (backup.go:53); the next
  backup starts afresh.
* Packet encodings, web pages, metrics but for the firewall counters, logging and the test support.
* Configuration fields that no property tells apart: subnet mask, router and DNS servers in
  `DHCP4Client`, DNS servers in `DHCP6Client`, the options of an advertisement.
* What the kernel drops from a full socket buffer (dhcp4d, dnsd, captured).
