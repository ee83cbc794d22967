------------------------------ MODULE Netconfig ------------------------------
(***************************************************************************)
(* netconfigd: cmd/netconfigd and internal/netconfig.  Apply brings the    *)
(* kernel in line with the files under /perm: interfaces, the DHCPv4       *)
(* lease, the DHCPv6 prefixes, sysctls, the firewall and WireGuard.  If    *)
(* the interfaces fail Apply returns at once; any other error is noted and *)
(* the remaining parts are still applied.  After an error the process      *)
(* ends, and gokrazy starts it again.  Otherwise it waits for SIGUSR1.     *)
(*                                                                         *)
(* Every call to the kernel is a step, because it can fail, because the    *)
(* process can end between two of them, and because the metrics goroutine  *)
(* reads and resets the firewall's counters at any time.  The kernel, init *)
(* and the writers of the files are external.                              *)
(***************************************************************************)
EXTENDS Integers

CONSTANTS
    Uplink, Lan, \* the links that may be configured, uplink0 and lan0
    LanAddr,     \* the address configured for Lan; Uplink has none, dhcp4 obtains one
    Interfaces,  \* contents of interfaces.json, sets of entries; {} also if there is no file
    Addrs4,      \* addresses in DHCPv4 leases
    Routers,     \* routers in DHCPv4 leases
    Prefixes,    \* delegated IPv6 prefixes
    Rules,       \* valid contents of portforwardings.json
    Tunnels,     \* valid contents of wireguard.json (one interface and its peers)
    Families,    \* ip and ip6, each with a filter table and its counter
    Absent,      \* the file, link, route or ruleset does not exist
    Bad,         \* the file cannot be used: not JSON, a missing mask, a malformed port or key
    MaxChanges,  \* bound on the changes of files, for model checking
    MaxFaults,   \* bound on failing calls and process ends, for model checking
    MaxPackets   \* bound on the forwarded packets, for model checking

Lease4 == [addr: Addrs4, router: Routers]

\* An entry of interfaces.json; not ok if its spoof_hardware_addr or its addr is malformed.
Entry == [link: {Uplink, Lan}, ok: BOOLEAN]

\* What the files may hold.
Files == [interfaces: Interfaces \cup {Bad},
          lease4: Lease4 \cup {Bad, Absent},
          lease6: (SUBSET Prefixes) \cup {Bad, Absent},
          forwardings: Rules \cup {Bad, Absent},
          wireguard: Tunnels \cup {Bad, Absent}]

Ruleset == [ifname: {Uplink, Absent}, rules: Rules \cup {Absent}]

ASSUME LinkAssumption == Uplink # Lan /\ Interfaces \subseteq SUBSET Entry
ASSUME FileAssumption == /\ Absent # Bad
                         /\ {Absent, Bad} \cap (Lease4 \cup Rules \cup Tunnels \cup Ruleset) = {}
                         /\ \A c \in Interfaces \cup (SUBSET Prefixes) : c \notin {Absent, Bad}

VARIABLES
    files,      \* the files under /perm
    named,      \* the kernel: links that have their configured name
    up,         \* links that are up
    addrs,      \* the addresses of the links
    onlink,     \* routers with a route through Uplink
    default,    \* the default route
    forwarding, \* net.ipv4.ip_forward and net.ipv6.conf.all.forwarding
    ruleset,    \* the nftables rules
    counter,    \* the counter "fwded" of each family
    wg,         \* the WireGuard interface: Absent, Bad (no peers yet) or its peers
    resolv,     \* /tmp/resolv.conf exists
    pc,         \* where netconfigd is
    todo,       \* what the current loop has still to do
    got,        \* the file just read
    carried,    \* the counter values read for the new ruleset
    failed,     \* an error was noted
    signal,     \* SIGUSR1 is in the channel
    told,       \* the addresses the other services were last told of
    exported,   \* the sum of what was added to the metrics (0 once raced: it has no bound then)
    forwarded,  \* how many packets were really forwarded
    raced,      \* a counter was reset after its value was carried over
    changes, faults

kernel == <<named, up, addrs, onlink, default, forwarding, ruleset, counter, wg, resolv>>
process == <<pc, todo, got, carried, failed>>
history == <<exported, forwarded, raced>>
vars == <<files, kernel, process, signal, told, history, changes, faults>>

Init ==
    /\ \E i \in Interfaces \cup {Bad} :
          files = [interfaces |-> i, lease4 |-> Absent, lease6 |-> Absent, forwardings |-> Absent,
                   wireguard |-> Absent]
    /\ named = {}
    /\ up = {}
    /\ addrs = {}
    /\ onlink = {}
    /\ default = Absent
    /\ forwarding = FALSE
    /\ ruleset = Absent
    /\ counter = [f \in Families |-> 0]
    /\ wg = Absent
    /\ resolv = FALSE
    /\ pc = "ended"
    /\ todo = {}
    /\ got = Absent
    /\ carried = [f \in Families |-> 0]
    /\ failed = FALSE
    /\ signal = FALSE
    /\ told = [services |-> {}, init |-> {}]
    /\ exported = [f \in Families |-> 0]
    /\ forwarded = [f \in Families |-> 0]
    /\ raced = FALSE
    /\ changes = 0
    /\ faults = 0

-----------------------------------------------------------------------------
(* Going from one step of Apply to the next.                                *)

\* What no step of Apply changes, but for those that say so.
Frame == UNCHANGED <<files, signal, told, history, changes>>

Goto(label) == pc' = label /\ UNCHANGED <<todo, got, carried, failed, faults>>

\* A file that cannot be used: appendError, and on with the next part.
Note(label) ==
    /\ pc' = label
    /\ todo' = {}
    /\ got' = Absent
    /\ failed' = TRUE
    /\ UNCHANGED <<carried, faults>>

\* A call that fails, also appendError.
Fault(label) ==
    /\ faults < MaxFaults
    /\ faults' = faults + 1
    /\ pc' = label
    /\ todo' = {}
    /\ got' = Absent
    /\ failed' = TRUE
    /\ carried' = [f \in Families |-> 0]

-----------------------------------------------------------------------------
(* applyInterfaces, for the links in any order.  got is the entry of the    *)
(* link at hand.                                                            *)

\* A file that cannot be used ends Apply; without one, or without entries, nothing is done.
ReadInterfaces ==
    /\ pc = "start"
    /\ \/ files.interfaces = Bad /\ Note("return")
       \/ /\ files.interfaces # Bad
          /\ todo' = files.interfaces
          /\ pc' = "interfaces"
          /\ UNCHANGED <<got, carried, failed, faults>>
    /\ Frame
    /\ UNCHANGED kernel

LinkSetName(e) ==
    /\ pc = "interfaces"
    /\ e \in todo
    /\ named' = named \cup {e.link}
    /\ got' = e
    /\ todo' = todo \ {e}
    /\ pc' = "linkup"
    /\ Frame
    /\ UNCHANGED <<carried, failed, faults, up, addrs, onlink, default, forwarding, ruleset, counter,
                   wg, resolv>>

\* Back to the loop over the links.
NextLink == pc' = "interfaces" /\ got' = Absent /\ UNCHANGED <<todo, carried, failed, faults>>

\* The spoofed hardware address is set before; if it is malformed Apply returns.
LinkSetUp ==
    /\ pc = "linkup"
    /\ \/ ~got.ok /\ Note("return") /\ UNCHANGED up
       \/ got.ok /\ got.link = Uplink /\ up' = up \cup {got.link} /\ NextLink
       \/ got.link = Lan /\ up' = up \cup {got.link} /\ Goto("linkaddr")
    /\ Frame
    /\ UNCHANGED <<named, addrs, onlink, default, forwarding, ruleset, counter, wg, resolv>>

\* A malformed address makes Apply return.
AddrReplace ==
    /\ pc = "linkaddr"
    /\ \/ ~got.ok /\ Note("return") /\ UNCHANGED addrs
       \/ got.ok /\ addrs' = addrs \cup {<<Lan, LanAddr>>} /\ Goto("resolv")
    /\ Frame
    /\ UNCHANGED <<named, up, onlink, default, forwarding, ruleset, counter, wg, resolv>>

\* Lan's address is the nameserver: resolv.conf is removed,
RemoveResolv ==
    /\ pc = "resolv"
    /\ resolv' = FALSE
    /\ Goto("nameserver")
    /\ Frame
    /\ UNCHANGED <<named, up, addrs, onlink, default, forwarding, ruleset, counter, wg>>

\* and then written.
WriteResolv ==
    /\ pc = "nameserver"
    /\ resolv' = TRUE
    /\ NextLink
    /\ Frame
    /\ UNCHANGED <<named, up, addrs, onlink, default, forwarding, ruleset, counter, wg>>

LinkSteps == {"linkup", "linkaddr", "resolv", "nameserver"}

\* One of the calls fails, and Apply returns.
LinkFails ==
    /\ pc \in {"start", "interfaces"} \cup LinkSteps
    /\ Fault("return")
    /\ Frame
    /\ UNCHANGED kernel

InterfacesDone ==
    /\ pc = "interfaces"
    /\ todo = {}
    /\ Goto("dhcp4")
    /\ Frame
    /\ UNCHANGED kernel

-----------------------------------------------------------------------------
(* applyDhcp4.                                                              *)

\* Mutant: the first error ends Apply.
ReadDhcp4OrReturn ==
    /\ pc = "dhcp4"
    /\ \/ files.lease4 = Absent /\ Goto("dhcp6")
       \/ (files.lease4 = Bad \/ (files.lease4 # Absent /\ Uplink \notin named)) /\ Note("return")
       \/ /\ files.lease4 \in Lease4
          /\ Uplink \in named
          /\ got' = files.lease4
          /\ pc' = "addr4"
          /\ UNCHANGED <<todo, carried, failed, faults>>
    /\ Frame
    /\ UNCHANGED kernel

\* No lease yet; or one that cannot be used, or no link of that name; or a lease.
ReadDhcp4 ==
    /\ pc = "dhcp4"
    /\ \/ files.lease4 = Absent /\ Goto("dhcp6")
       \/ (files.lease4 = Bad \/ (files.lease4 # Absent /\ Uplink \notin named)) /\ Note("dhcp6")
       \/ /\ files.lease4 \in Lease4
          /\ Uplink \in named
          /\ got' = files.lease4
          /\ pc' = "addr4"
          /\ UNCHANGED <<todo, carried, failed, faults>>
    /\ Frame
    /\ UNCHANGED kernel

ReplaceAddr4 ==
    /\ pc = "addr4"
    /\ addrs' = addrs \cup {<<Uplink, got.addr>>}
    /\ Goto("router4")
    /\ Frame
    /\ UNCHANGED <<named, up, onlink, default, forwarding, ruleset, counter, wg, resolv>>

ReplaceRouterRoute ==
    /\ pc = "router4"
    /\ onlink' = onlink \cup {got.router}
    /\ Goto("default4")
    /\ Frame
    /\ UNCHANGED <<named, up, addrs, default, forwarding, ruleset, counter, wg, resolv>>

ReplaceDefaultRoute ==
    /\ pc = "default4"
    /\ default' = [gw |-> got.router, src |-> got.addr]
    /\ pc' = "dhcp6"
    /\ got' = Absent
    /\ Frame
    /\ UNCHANGED <<todo, carried, failed, faults, named, up, addrs, onlink, forwarding, ruleset,
                   counter, wg, resolv>>

\* Mutant: after an error the routes are replaced all the same.
Dhcp4FailsGoingOn ==
    /\ pc \in {"addr4", "router4"}
    /\ faults < MaxFaults
    /\ faults' = faults + 1
    /\ pc' = IF pc = "addr4" THEN "router4" ELSE "default4"
    /\ failed' = TRUE
    /\ Frame
    /\ UNCHANGED <<todo, got, carried, kernel>>

Dhcp4Fails ==
    /\ pc \in {"addr4", "router4", "default4"}
    /\ Fault("dhcp6")
    /\ Frame
    /\ UNCHANGED kernel

-----------------------------------------------------------------------------
(* applyDhcp6, and the services that listen on the addresses.               *)

\* No prefixes yet; or a file that cannot be used, or no link of that name; or a lease.
ReadDhcp6 ==
    /\ pc = "dhcp6"
    /\ \/ files.lease6 = Absent /\ Goto("notify")
       \/ (files.lease6 = Bad \/ (files.lease6 # Absent /\ Lan \notin named)) /\ Note("notify")
       \/ /\ files.lease6 \notin {Absent, Bad}
          /\ Lan \in named
          /\ todo' = files.lease6
          /\ pc' = "addr6"
          /\ UNCHANGED <<got, carried, failed, faults>>
    /\ Frame
    /\ UNCHANGED kernel

\* The first address of the prefix.
ReplaceAddr6(p) ==
    /\ pc = "addr6"
    /\ p \in todo
    /\ addrs' = addrs \cup {<<Lan, p>>}
    /\ todo' = todo \ {p}
    /\ Frame
    /\ UNCHANGED <<pc, got, carried, failed, faults, named, up, onlink, default, forwarding,
                   ruleset, counter, wg, resolv>>

Dhcp6Done ==
    /\ pc = "addr6"
    /\ todo = {}
    /\ Goto("notify")
    /\ Frame
    /\ UNCHANGED kernel

Dhcp6Fails ==
    /\ pc = "addr6"
    /\ todo # {}
    /\ Fault("notify")
    /\ Frame
    /\ UNCHANGED kernel

\* dyndns, dnsd, diagd, backupd and captured; what can go wrong on the way is module
\* StateNotify's subject.
NotifyServices ==
    /\ pc = "notify"
    /\ told' = [told EXCEPT !.services = addrs]
    /\ Goto("sysctl")
    /\ UNCHANGED <<files, signal, history, changes, kernel>>

-----------------------------------------------------------------------------
(* applySysctl and applyFirewall.                                           *)

applySysctl ==
    /\ pc = "sysctl"
    /\ \/ forwarding' = TRUE /\ Goto("firewall")
       \/ forwarding' \in {forwarding, TRUE} /\ Fault("firewall")
    /\ Frame
    /\ UNCHANGED <<named, up, addrs, onlink, default, ruleset, counter, wg, resolv>>

\* The rules are put together; portforwardings.json is read on the way, and if it is malformed
\* nothing is sent to the kernel.  Absent stands for the names uplinkInterface falls back to.
BuildRuleset ==
    /\ pc = "firewall"
    /\ \/ files.forwardings = Bad /\ Note("wireguard")
       \/ /\ files.forwardings # Bad
          /\ got' = [ifname |-> IF Uplink \in named THEN Uplink ELSE Absent,
                     rules |-> files.forwardings]
          /\ todo' = Families
          /\ pc' = "counters"
          /\ UNCHANGED <<carried, failed, faults>>
    /\ Frame
    /\ UNCHANGED kernel

\* getCounterObj: the current value, or zero if it cannot be read.
getCounterObj(f) ==
    /\ pc = "counters"
    /\ f \in todo
    /\ \/ carried' = [carried EXCEPT ![f] = counter[f]] /\ UNCHANGED faults
       \/ faults < MaxFaults /\ faults' = faults + 1 /\ UNCHANGED carried
    /\ todo' = todo \ {f}
    /\ pc' = IF todo = {f} THEN "flush" ELSE "counters"
    /\ Frame
    /\ UNCHANGED <<got, failed, kernel>>

\* One transaction: the old rules and counters are gone, the new ones are there.
Flush ==
    /\ pc = "flush"
    /\ ruleset' = got
    /\ counter' = carried
    /\ pc' = "wireguard"
    /\ got' = Absent
    /\ carried' = [f \in Families |-> 0]
    /\ Frame
    /\ UNCHANGED <<todo, failed, faults, named, up, addrs, onlink, default, forwarding, wg, resolv>>

FlushFails ==
    /\ pc = "flush"
    /\ Fault("wireguard")
    /\ Frame
    /\ UNCHANGED kernel

-----------------------------------------------------------------------------
(* applyWireGuard.                                                          *)

\* Mutant: an interface that exists already has its peers.
AddLinkOnce ==
    /\ pc = "wireguard"
    /\ \/ (files.wireguard = Absent \/ wg # Absent) /\ Goto("return") /\ UNCHANGED wg
       \/ files.wireguard = Bad /\ Note("return") /\ wg' \in {wg, Bad}
       \/ /\ files.wireguard \in Tunnels
          /\ wg = Absent
          /\ wg' = Bad
          /\ got' = files.wireguard
          /\ pc' = "configure"
          /\ UNCHANGED <<todo, carried, failed, faults>>
    /\ Frame
    /\ UNCHANGED <<named, up, addrs, onlink, default, forwarding, ruleset, counter, resolv>>

\* LinkAdd; an interface that exists already is kept.  A malformed key or address is noticed
\* before or after it.
AddLink ==
    /\ pc = "wireguard"
    /\ \/ files.wireguard = Absent /\ Goto("return") /\ UNCHANGED wg
       \/ files.wireguard = Bad /\ Note("return") /\ wg' \in {wg, IF wg = Absent THEN Bad ELSE wg}
       \/ /\ files.wireguard \in Tunnels
          /\ wg' = IF wg = Absent THEN Bad ELSE wg
          /\ got' = files.wireguard
          /\ pc' = "configure"
          /\ UNCHANGED <<todo, carried, failed, faults>>
    /\ Frame
    /\ UNCHANGED <<named, up, addrs, onlink, default, forwarding, ruleset, counter, resolv>>

\* The peers replace those the interface had.
ConfigureDevice ==
    /\ pc = "configure"
    /\ wg' = got
    /\ pc' = "return"
    /\ got' = Absent
    /\ Frame
    /\ UNCHANGED <<todo, carried, failed, faults, named, up, addrs, onlink, default, forwarding,
                   ruleset, counter, resolv>>

WireGuardFails ==
    /\ pc \in {"wireguard", "configure"}
    /\ files.wireguard # Absent \/ pc = "configure"
    /\ Fault("return")
    /\ Frame
    /\ UNCHANGED kernel

-----------------------------------------------------------------------------
(* The loop of netconfigd.                                                  *)

Running == pc \notin {"ended", "crashed"}

\* Mutant: the error is returned before init is notified.
ReturnEarly ==
    /\ pc = "return"
    /\ told' = IF failed THEN told ELSE [told EXCEPT !.init = addrs]
    /\ Goto(IF failed THEN "ended" ELSE "waiting")
    /\ UNCHANGED <<files, signal, history, changes, kernel>>

\* Apply returns: init is notified in any case, then an error ends the process.
Return ==
    /\ pc = "return"
    /\ told' = [told EXCEPT !.init = addrs]
    /\ Goto(IF failed THEN "ended" ELSE "waiting")
    /\ UNCHANGED <<files, signal, history, changes, kernel>>

\* Apply is called: by a process that starts and has called signal.Notify, or on SIGUSR1.
StartApply ==
    /\ pc \in {"ended", "crashed"} \/ (pc = "waiting" /\ signal)
    /\ pc' = "start"
    /\ todo' = {}
    /\ failed' = FALSE
    /\ signal' = FALSE
    /\ UNCHANGED <<files, kernel, got, carried, told, history, changes, faults>>

\* The process ends at any point and will be started again.
Crash ==
    /\ Running
    /\ Fault("crashed")
    /\ signal' = FALSE
    /\ UNCHANGED <<files, kernel, told, history, changes>>

-----------------------------------------------------------------------------
(* The metrics goroutine and the rest of the world.                         *)

\* Mutant: the counter is read without resetting it.
updateCounterWithoutReset(f) ==
    /\ Running
    /\ ruleset # Absent
    /\ exported' = [exported EXCEPT ![f] = @ + counter[f]]
    /\ UNCHANGED <<files, kernel, process, signal, told, forwarded, raced, changes, faults>>

\* GetObjReset, added to the metric; nothing happens as long as there is no counter.
updateCounter(f) ==
    /\ Running
    /\ ruleset # Absent
    /\ counter[f] > 0
    /\ counter' = [counter EXCEPT ![f] = 0]
    /\ raced' = (raced \/ carried[f] > 0)
    /\ exported' = IF raced' THEN [g \in Families |-> 0] ELSE [exported EXCEPT ![f] = @ + counter[f]]
    /\ UNCHANGED <<files, named, up, addrs, onlink, default, forwarding, ruleset, wg, resolv,
                   process, signal, told, forwarded, changes, faults>>

Forward(f) ==
    /\ forwarding
    /\ forwarded[f] < MaxPackets
    /\ forwarded' = [forwarded EXCEPT ![f] = @ + 1]
    /\ counter' = IF ruleset = Absent THEN counter ELSE [counter EXCEPT ![f] = @ + 1]
    /\ UNCHANGED <<files, named, up, addrs, onlink, default, forwarding, ruleset, wg, resolv,
                   process, signal, told, exported, raced, changes, faults>>

\* dhcp4, dhcp6 or the administrator replace one file,
Replaced(new) ==
    \/ \E i \in Interfaces \cup {Bad} : new = [files EXCEPT !.interfaces = i]
    \/ \E l \in Lease4 \cup {Bad, Absent} : new = [files EXCEPT !.lease4 = l]
    \/ \E l \in (SUBSET Prefixes) \cup {Bad, Absent} : new = [files EXCEPT !.lease6 = l]
    \/ \E r \in Rules \cup {Bad, Absent} : new = [files EXCEPT !.forwardings = r]
    \/ \E t \in Tunnels \cup {Bad, Absent} : new = [files EXCEPT !.wireguard = t]

\* and send SIGUSR1, which a process that does not run does not get.
Change ==
    /\ changes < MaxChanges
    /\ changes' = changes + 1
    /\ Replaced(files')
    /\ signal' = Running
    /\ UNCHANGED <<kernel, process, told, history, faults>>

-----------------------------------------------------------------------------
Step ==
    \/ StartApply \/ Return
    \/ ReadInterfaces
    \/ \E e \in todo : LinkSetName(e)
    \/ LinkSetUp \/ AddrReplace \/ RemoveResolv \/ WriteResolv \/ InterfacesDone
    \/ ReadDhcp4 \/ ReplaceAddr4 \/ ReplaceRouterRoute \/ ReplaceDefaultRoute
    \/ ReadDhcp6 \/ Dhcp6Done
    \/ \E p \in todo : ReplaceAddr6(p)
    \/ NotifyServices \/ applySysctl \/ BuildRuleset \/ Flush
    \/ \E f \in todo : getCounterObj(f)
    \/ AddLink \/ ConfigureDevice

Next ==
    \/ Step
    \/ LinkFails \/ Dhcp4Fails \/ Dhcp6Fails \/ FlushFails \/ WireGuardFails \/ Crash
    \/ \E f \in Families : updateCounter(f) \/ Forward(f)
    \/ Change

\* netconfigd runs, and gokrazy starts it again when it has ended.
Spec == Init /\ [][Next]_vars /\ WF_vars(Step)

-----------------------------------------------------------------------------
Addresses == {Uplink, Lan} \X (Addrs4 \cup Prefixes \cup {LanAddr})

TypeOK ==
    /\ files \in Files
    /\ named \subseteq {Uplink, Lan}
    /\ up \subseteq named
    /\ addrs \subseteq Addresses
    /\ onlink \subseteq Routers
    /\ default \in [gw: Routers, src: Addrs4] \cup {Absent}
    /\ ruleset \in Ruleset \cup {Absent}
    /\ wg \in Tunnels \cup {Bad, Absent}
    /\ forwarding \in BOOLEAN
    /\ resolv \in BOOLEAN
    /\ failed \in BOOLEAN
    /\ signal \in BOOLEAN
    /\ raced \in BOOLEAN
    /\ faults \in Nat
    /\ counter \in [Families -> Nat]
    /\ carried \in [Families -> Nat]
    /\ exported \in [Families -> Nat]
    /\ forwarded \in [Families -> Nat]
    /\ told \in [services: SUBSET Addresses, init: SUBSET Addresses]
    /\ pc \in {"interfaces"} \cup LinkSteps => todo \subseteq Entry
    /\ pc \in LinkSteps => got \in Entry /\ got.link \in named
    /\ pc \in {"linkaddr", "resolv", "nameserver"} => got.link = Lan
    /\ pc \in {"addr4", "router4", "default4"} => got \in Lease4 /\ Uplink \in named
    /\ pc = "addr6" => todo \subseteq Prefixes /\ Lan \in named
    /\ pc \in {"counters", "flush"} => got \in Ruleset
    /\ pc = "counters" => todo \subseteq Families
    /\ pc = "configure" => got \in Tunnels

\* The default route never names a gateway without a route to it or a source address the uplink
\* does not have, although each of the three calls may fail and the lease may change between
\* them: what an earlier lease left behind stays usable (netconfig.go:99-133).
DefaultRouteUsable ==
    default # Absent => default.gw \in onlink /\ <<Uplink, default.src>> \in addrs

\* "netconfig.Apply might have modified state before returning an error": when netconfigd waits
\* or has ended by itself, init knows every address there is, and when it waits the other
\* services do too (netconfig.go:753-763, netconfigd.go:145-151).
AddressesAnnounced ==
    /\ pc = "waiting" => told.services = addrs /\ told.init = addrs
    /\ pc = "ended" => told.init = addrs

\* A forwarded packet is never counted twice, in the metric and in the kernel's counter
\* together, over new rulesets and restarts, as long as no counter is read by the metrics
\* between getCounterObj and Flush (netconfig.go:503-538, 694, netconfigd.go:72-84).
CountedOnce ==
    ~raced => \A f \in Families : exported[f] + counter[f] <= forwarded[f]

\* The inductive invariant behind these.  The new address and the route to the router are in
\* place when the default route is replaced (netconfig.go:99-133);
RoutesInOrder ==
    /\ pc \in {"router4", "default4"} => <<Uplink, got.addr>> \in addrs
    /\ pc = "default4" => got.router \in onlink
    /\ DefaultRouteUsable

\* nothing adds an address once the services were told (netconfig.go:753-785);
ServicesKnow ==
    \/ pc \in {"sysctl", "firewall", "counters", "flush", "wireguard", "configure"}
    \/ pc = "return" /\ ~failed

ToldInOrder ==
    /\ ServicesKnow => told.services = addrs
    /\ AddressesAnnounced

\* and what is carried over is at most what the counter holds (netconfig.go:503-538).
CarriedBounded ==
    /\ ~raced => \A f \in Families : carried[f] <= counter[f]
    /\ CountedOnce

\* What files holds has been applied, as far as it can be.
Applied4 == files.lease4 \in Lease4 =>
    default = [gw |-> files.lease4.router, src |-> files.lease4.addr]
Applied6 == files.lease6 \notin {Absent, Bad} => \A p \in files.lease6 : <<Lan, p>> \in addrs
AppliedRules == files.forwardings # Bad => ruleset # Absent /\ ruleset.rules = files.forwardings
AppliedTunnel == files.wireguard \in Tunnels => wg = files.wireguard

\* Nothing was signalled since Apply was called, and no error of its is a call that failed.
Undisturbed == ~signal /\ (faults = 0 \/ ~failed)

\* interfaces.json can be used.  Otherwise Apply returns before the other parts (netconfig.go:735-737).
Usable == files.interfaces # Bad /\ \A e \in files.interfaces : e.ok

\* The links of these entries are configured.
LinksDone(entries) ==
    \A e \in entries : e.link \in up /\ (e.link = Lan => <<Lan, LanAddr>> \in addrs /\ resolv)

\* No part is left behind: when Apply returns and nothing was signalled meanwhile, the kernel has what
\* the files say, although they change at any time, earlier calls of Apply stopped anywhere, and any of
\* the other files cannot be used; unless interfaces.json cannot be, or a call failed
\* (netconfig.go:735-785, netconfigd.go:134-158).
NothingLeftBehind ==
    pc \in {"return", "waiting"} /\ Undisturbed /\ Usable =>
        /\ LinksDone(files.interfaces)
        /\ Uplink \in named => Applied4
        /\ Lan \in named => Applied6
        /\ AppliedRules
        /\ AppliedTunnel

\* Where Apply is once it has done with a part.
AfterTunnel == {"return", "waiting"}
AfterRules == {"wireguard", "configure"} \cup AfterTunnel
After6 == {"notify", "sysctl", "firewall", "counters", "flush"} \cup AfterRules
After4 == {"dhcp6", "addr6"} \cup After6
AfterLinks == {"dhcp4", "addr4", "router4", "default4"} \cup After4

\* Every part is done with once Apply is past it, and what it has read is still what the file says:
\* otherwise there would be a signal (netconfig.go:735-785).
PartsInOrder ==
    Undisturbed /\ Usable =>
        /\ pc \in {"interfaces"} \cup LinkSteps => todo \subseteq files.interfaces
        /\ pc = "interfaces" => LinksDone(files.interfaces \ todo)
        /\ pc \in LinkSteps =>
              got \in files.interfaces /\ LinksDone(files.interfaces \ (todo \cup {got}))
        /\ pc \in {"linkaddr", "resolv", "nameserver"} => Lan \in up
        /\ pc \in {"resolv", "nameserver"} => <<Lan, LanAddr>> \in addrs
        /\ pc \in AfterLinks => LinksDone(files.interfaces)
        /\ pc \in {"addr4", "router4", "default4"} => got = files.lease4
        /\ pc \in After4 /\ Uplink \in named => Applied4
        /\ pc = "addr6" => /\ files.lease6 \notin {Absent, Bad}
                          /\ \A p \in files.lease6 \ todo : <<Lan, p>> \in addrs
        /\ pc \in After6 /\ Lan \in named => Applied6
        /\ pc \in {"counters", "flush"} => got.rules = files.forwardings
        /\ pc \in AfterRules => AppliedRules
        /\ pc = "configure" => got = files.wireguard
        /\ pc \in AfterTunnel => AppliedTunnel

\* The four together (netconfig.go:503-786).
IInv == RoutesInOrder /\ ToldInOrder /\ CarriedBounded /\ PartsInOrder

\* Each part of the configuration ends up as its file says once calls stop failing, even while
\* another file cannot be used and makes every Apply return an error, unless that is interfaces.json
\* (netconfig.go:735-785, wireguard.go:90-94).  resolv.conf is only there again and again, as every
\* Apply removes it before it is written (netconfig.go:304-309).
EachPartConverges ==
    <>[]Usable =>
        /\ []<>(Usable => LinksDone(files.interfaces))
        /\ <>[](Uplink \in named => Applied4)
        /\ <>[](Lan \in named => Applied6)
        /\ <>[]AppliedRules
        /\ <>[]AppliedTunnel
=============================================================================
