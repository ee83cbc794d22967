--------------------------- MODULE NetconfigProofs ---------------------------
(***************************************************************************)
(* Proofs about Netconfig, for any set of links, leases, prefixes, rules,  *)
(* tunnels and families, and whatever the bounds on changes, failures and  *)
(* packets are.                                                            *)
(***************************************************************************)
EXTENDS Netconfig, TLAPS

\* The types hold when the router boots.
LEMMA InitType == Init => TypeOK
<1> SUFFICES ASSUME Init PROVE TypeOK
  OBVIOUS
<1>1. files \in Files
  <2>1. PICK i \in Interfaces \cup {Bad} :
          files = [interfaces |-> i, lease4 |-> Absent, lease6 |-> Absent, forwardings |-> Absent,
                   wireguard |-> Absent]
    BY DEF Init
  <2> QED
    BY <2>1 DEF Files
<1>2. told \in [services: SUBSET Addresses, init: SUBSET Addresses]
  BY DEF Init
<1> QED
  BY <1>1, <1>2 DEF Init, TypeOK, LinkSteps

\* The entries of an interfaces.json that can be read are entries.
LEMMA EntriesOK == TypeOK /\ files.interfaces # Bad => files.interfaces \subseteq Entry
BY LinkAssumption DEF TypeOK, Files

\* The types are preserved by every step.
LEMMA NextType == TypeOK /\ [Next]_vars => TypeOK'
<1> SUFFICES ASSUME TypeOK, [Next]_vars PROVE TypeOK'
  OBVIOUS
<1> USE DEF Frame, Goto, Note, Fault, kernel, process, history
<1> USE DEF LinkSteps
<1>1. CASE ReadInterfaces
  <2>1. CASE files.interfaces = Bad
    BY <1>1, <2>1 DEF ReadInterfaces, TypeOK
  <2>2. CASE files.interfaces # Bad
    <3>1. pc' = "interfaces" /\ todo' \subseteq Entry
      BY <1>1, <2>2, EntriesOK DEF ReadInterfaces
    <3>2. UNCHANGED <<files, kernel, got, carried, failed, faults, signal, told, history>>
      BY <1>1, <2>2 DEF ReadInterfaces
    <3> QED
      BY <3>1, <3>2 DEF TypeOK
  <2> QED
    BY <2>1, <2>2
<1>2. ASSUME NEW e \in todo, LinkSetName(e) PROVE TypeOK'
  <2>1. e \in Entry /\ e.link \in {Uplink, Lan} /\ todo' \subseteq Entry
    BY <1>2 DEF LinkSetName, TypeOK, Entry
  <2>2. /\ named' = named \cup {e.link} /\ got' = e /\ pc' = "linkup"
        /\ UNCHANGED <<files, up, addrs, onlink, default, forwarding, ruleset, counter, wg, resolv,
                       carried, failed, faults, signal, told, history>>
    BY <1>2 DEF LinkSetName
  <2> QED
    BY <2>1, <2>2 DEF TypeOK
<1>22. CASE LinkSetUp
  <2>0. got \in Entry /\ got.link \in named /\ todo \subseteq Entry
    BY <1>22 DEF LinkSetUp, TypeOK
  <2>1. /\ up' \subseteq named /\ failed' \in BOOLEAN
        /\ \/ pc' = "return"
           \/ pc' = "interfaces" /\ todo' = todo
           \/ pc' = "linkaddr" /\ got.link = Lan /\ UNCHANGED <<got, todo>>
    BY <1>22, <2>0 DEF LinkSetUp, NextLink, TypeOK
  <2>2. UNCHANGED <<files, named, addrs, onlink, default, forwarding, ruleset, counter, wg, resolv,
                    carried, faults, signal, told, history>>
    BY <1>22 DEF LinkSetUp, NextLink
  <2> QED
    BY <2>0, <2>1, <2>2 DEF TypeOK
<1>23. CASE AddrReplace
  <2>0. <<Lan, LanAddr>> \in Addresses
    BY DEF Addresses
  <2>1. /\ failed' \in BOOLEAN /\ addrs' \subseteq Addresses
        /\ pc' = "return" \/ (pc' = "resolv" /\ UNCHANGED <<got, todo>>)
    BY <1>23, <2>0 DEF AddrReplace, TypeOK
  <2>2. UNCHANGED <<files, named, up, onlink, default, forwarding, ruleset, counter, wg, resolv,
                    carried, faults, signal, told, history>>
    BY <1>23 DEF AddrReplace
  <2>3. pc = "linkaddr"
    BY <1>23 DEF AddrReplace
  <2> QED
    BY <2>1, <2>2, <2>3 DEF TypeOK
<1>24. CASE RemoveResolv \/ WriteResolv
  BY <1>24 DEF RemoveResolv, WriteResolv, NextLink, TypeOK
<1>25. CASE LinkFails
  BY <1>25 DEF LinkFails, TypeOK
<1>3. CASE InterfacesDone
  BY <1>3 DEF InterfacesDone, TypeOK
<1>4. CASE ReadDhcp4
  <2>1. /\ failed' \in BOOLEAN
        /\ pc' = "dhcp6" \/ (pc' = "addr4" /\ got' \in Lease4 /\ Uplink \in named)
    BY <1>4 DEF ReadDhcp4, TypeOK
  <2>2. UNCHANGED <<files, named, up, addrs, onlink, default, ruleset, wg, forwarding, resolv, signal,
                    raced, counter, carried, exported, forwarded, told, faults>>
    BY <1>4 DEF ReadDhcp4
  <2> QED
    BY <2>1, <2>2 DEF TypeOK
<1>5. CASE ReplaceAddr4
  BY <1>5 DEF ReplaceAddr4, TypeOK, Addresses, Lease4
<1>6. CASE ReplaceRouterRoute
  BY <1>6 DEF ReplaceRouterRoute, TypeOK, Lease4
<1>7. CASE ReplaceDefaultRoute
  BY <1>7 DEF ReplaceDefaultRoute, TypeOK, Lease4
<1>8. CASE ReadDhcp6
  <2>1. files.lease6 \notin {Absent, Bad} => files.lease6 \subseteq Prefixes
    BY DEF TypeOK, Files
  <2>2. /\ failed' \in BOOLEAN
        /\ pc' = "notify" \/ (pc' = "addr6" /\ todo' \subseteq Prefixes /\ Lan \in named)
    BY <1>8, <2>1 DEF ReadDhcp6, TypeOK
  <2>3. UNCHANGED <<files, named, up, addrs, onlink, default, ruleset, wg, forwarding, resolv, signal,
                    raced, counter, carried, exported, forwarded, told, faults>>
    BY <1>8 DEF ReadDhcp6
  <2> QED
    BY <2>2, <2>3 DEF TypeOK
<1>9. ASSUME NEW p \in todo, ReplaceAddr6(p) PROVE TypeOK'
  BY <1>9 DEF ReplaceAddr6, TypeOK, Addresses
<1>10. CASE Dhcp6Done \/ Dhcp4Fails \/ Dhcp6Fails \/ FlushFails \/ WireGuardFails \/ Crash
  <2>1. CASE Dhcp6Done
    BY <2>1 DEF Dhcp6Done, TypeOK
  <2>2. CASE Dhcp4Fails
    BY <2>2 DEF Dhcp4Fails, TypeOK
  <2>3. CASE Dhcp6Fails
    BY <2>3 DEF Dhcp6Fails, TypeOK
  <2>4. CASE FlushFails
    BY <2>4 DEF FlushFails, TypeOK
  <2>5. CASE WireGuardFails
    BY <2>5 DEF WireGuardFails, TypeOK
  <2>6. CASE Crash
    <3>1. pc' = "crashed" /\ signal' = FALSE /\ failed' = TRUE /\ faults' \in Nat
      BY <2>6 DEF Crash, TypeOK
    <3>2. carried' \in [Families -> Nat]
      BY <2>6 DEF Crash
    <3>3. UNCHANGED <<files, kernel, told, history>>
      BY <2>6 DEF Crash
    <3> QED
      BY <3>1, <3>2, <3>3 DEF TypeOK
  <2> QED
    BY <1>10, <2>1, <2>2, <2>3, <2>4, <2>5, <2>6
<1>11. CASE NotifyServices \/ Return
  BY <1>11 DEF NotifyServices, Return, TypeOK
<1>12. CASE applySysctl
  <2>1. forwarding' \in BOOLEAN
    BY <1>12 DEF applySysctl, TypeOK
  <2>2. CASE Goto("firewall")
    BY <1>12, <2>1, <2>2 DEF applySysctl, TypeOK
  <2>3. CASE Fault("firewall")
    BY <1>12, <2>1, <2>3 DEF applySysctl, TypeOK
  <2> QED
    BY <1>12, <2>2, <2>3 DEF applySysctl
<1>13. CASE BuildRuleset
  <2>1. files.forwardings # Bad =>
          [ifname |-> IF Uplink \in named THEN Uplink ELSE Absent, rules |-> files.forwardings]
             \in Ruleset
    BY DEF TypeOK, Files, Ruleset
  <2>2. CASE files.forwardings = Bad
    BY <1>13, <2>2 DEF BuildRuleset, TypeOK
  <2>3. CASE files.forwardings # Bad
    BY <1>13, <2>1, <2>3 DEF BuildRuleset, TypeOK
  <2> QED
    BY <2>2, <2>3
<1>14. ASSUME NEW f \in todo, getCounterObj(f) PROVE TypeOK'
  BY <1>14 DEF getCounterObj, TypeOK
<1>15. CASE Flush
  BY <1>15 DEF Flush, TypeOK
<1>16. CASE AddLink
  <2>1. /\ wg' \in Tunnels \cup {Bad, Absent} /\ failed' \in BOOLEAN
        /\ pc' = "return" \/ (pc' = "configure" /\ got' \in Tunnels)
    BY <1>16 DEF AddLink, TypeOK
  <2>2. UNCHANGED <<files, named, up, addrs, onlink, default, ruleset, forwarding, resolv, signal, raced,
                    counter, carried, exported, forwarded, told, faults>>
    BY <1>16 DEF AddLink
  <2> QED
    BY <2>1, <2>2 DEF TypeOK
<1>17. CASE ConfigureDevice
  BY <1>17 DEF ConfigureDevice, TypeOK
<1>18. CASE StartApply
  BY <1>18 DEF StartApply, TypeOK
<1>19. ASSUME NEW f \in Families, updateCounter(f) \/ Forward(f) PROVE TypeOK'
  <2>1. CASE updateCounter(f)
    BY <2>1 DEF updateCounter, TypeOK
  <2>2. CASE Forward(f)
    BY <2>2 DEF Forward, TypeOK
  <2> QED
    BY <1>19, <2>1, <2>2
<1>20. CASE Change
  <2>1. files' \in Files
    BY <1>20 DEF Change, Replaced, Files, TypeOK
  <2> QED
    BY <1>20, <2>1 DEF Change, Running, TypeOK
<1>21. CASE UNCHANGED vars
  BY <1>21 DEF vars, TypeOK
<1> QED
  BY <1>1, <1>2, <1>3, <1>4, <1>5, <1>6, <1>7, <1>8, <1>9, <1>10, <1>11, <1>12, <1>13, <1>14,
     <1>15, <1>16, <1>17, <1>18, <1>19, <1>20, <1>21, <1>22, <1>23, <1>24, <1>25 DEF Next, Step

\* Every variable keeps its type (netconfig.go:62-786); in particular a ruleset with a malformed
\* forwarding is never sent to the kernel.
THEOREM TypeCorrect == Spec => []TypeOK
BY InitType, NextType, PTL DEF Spec

\* No step leaves a default route without its gateway or its source address.
LEMMA NextRoutes == TypeOK /\ RoutesInOrder /\ [Next]_vars => RoutesInOrder'
<1> SUFFICES ASSUME TypeOK, RoutesInOrder, [Next]_vars PROVE RoutesInOrder'
  OBVIOUS
<1> USE DEF Frame, Goto, Note, Fault, kernel, process, history, RoutesInOrder, DefaultRouteUsable
<1>1. ASSUME \/ ReadInterfaces \/ LinkSetUp \/ AddrReplace \/ RemoveResolv \/ WriteResolv \/ LinkFails
             \/ \E e \in todo : LinkSetName(e)
      PROVE  RoutesInOrder'
  BY <1>1 DEF ReadInterfaces, LinkSetName, LinkSetUp, AddrReplace, RemoveResolv, WriteResolv,
              LinkFails, NextLink, LinkSteps
<1>2. CASE InterfacesDone \/ ReadDhcp4 \/ ReadDhcp6 \/ Dhcp6Done \/ Dhcp4Fails \/ Dhcp6Fails
  BY <1>2 DEF InterfacesDone, ReadDhcp4, ReadDhcp6, Dhcp6Done, Dhcp4Fails, Dhcp6Fails
<1>3. CASE ReplaceAddr4 \/ ReplaceRouterRoute
  BY <1>3 DEF ReplaceAddr4, ReplaceRouterRoute
<1>4. CASE ReplaceDefaultRoute
  BY <1>4 DEF ReplaceDefaultRoute
<1>5. ASSUME NEW p \in todo, ReplaceAddr6(p) PROVE RoutesInOrder'
  BY <1>5 DEF ReplaceAddr6
<1>6. CASE NotifyServices \/ applySysctl \/ BuildRuleset \/ Flush \/ FlushFails
  BY <1>6 DEF NotifyServices, applySysctl, BuildRuleset, Flush, FlushFails
<1>7. ASSUME NEW f \in todo, getCounterObj(f) PROVE RoutesInOrder'
  BY <1>7 DEF getCounterObj
<1>8. CASE AddLink \/ ConfigureDevice \/ WireGuardFails
  BY <1>8 DEF AddLink, ConfigureDevice, WireGuardFails
<1>9. CASE StartApply \/ Return \/ Crash
  BY <1>9 DEF StartApply, Return, Crash
<1>10. ASSUME NEW f \in Families, updateCounter(f) \/ Forward(f) PROVE RoutesInOrder'
  BY <1>10 DEF updateCounter, Forward
<1>11. CASE Change
  BY <1>11 DEF Change
<1>12. CASE UNCHANGED vars
  BY <1>12 DEF vars
<1> QED
  BY <1>1, <1>2, <1>3, <1>4, <1>5, <1>6, <1>7, <1>8, <1>9, <1>10, <1>11, <1>12 DEF Next, Step

\* No step adds an address behind the back of those who were told.
LEMMA NextTold == TypeOK /\ ToldInOrder /\ [Next]_vars => ToldInOrder'
<1> SUFFICES ASSUME TypeOK, ToldInOrder, [Next]_vars PROVE ToldInOrder'
  OBVIOUS
<1> USE DEF Frame, Goto, Note, Fault, kernel, process, history, ToldInOrder, ServicesKnow,
            AddressesAnnounced
<1>1. ASSUME \/ ReadInterfaces \/ LinkSetUp \/ AddrReplace \/ RemoveResolv \/ WriteResolv \/ LinkFails
             \/ \E e \in todo : LinkSetName(e)
      PROVE  ToldInOrder'
  BY <1>1 DEF ReadInterfaces, LinkSetName, LinkSetUp, AddrReplace, RemoveResolv, WriteResolv,
              LinkFails, NextLink, LinkSteps
<1>2. CASE InterfacesDone \/ ReadDhcp4 \/ ReadDhcp6 \/ Dhcp6Done \/ Dhcp4Fails \/ Dhcp6Fails
  BY <1>2 DEF InterfacesDone, ReadDhcp4, ReadDhcp6, Dhcp6Done, Dhcp4Fails, Dhcp6Fails
<1>3. CASE ReplaceAddr4 \/ ReplaceRouterRoute \/ ReplaceDefaultRoute
  BY <1>3 DEF ReplaceAddr4, ReplaceRouterRoute, ReplaceDefaultRoute
<1>5. ASSUME NEW p \in todo, ReplaceAddr6(p) PROVE ToldInOrder'
  BY <1>5 DEF ReplaceAddr6
<1>6. CASE NotifyServices
  BY <1>6 DEF NotifyServices, TypeOK
<1>7. CASE applySysctl \/ BuildRuleset \/ Flush \/ FlushFails
  BY <1>7 DEF applySysctl, BuildRuleset, Flush, FlushFails
<1>8. ASSUME NEW f \in todo, getCounterObj(f) PROVE ToldInOrder'
  BY <1>8 DEF getCounterObj
<1>9. CASE AddLink \/ ConfigureDevice \/ WireGuardFails
  BY <1>9 DEF AddLink, ConfigureDevice, WireGuardFails
<1>10. CASE Return
  BY <1>10 DEF Return, TypeOK
<1>11. CASE StartApply \/ Crash
  BY <1>11 DEF StartApply, Crash
<1>12. ASSUME NEW f \in Families, updateCounter(f) \/ Forward(f) PROVE ToldInOrder'
  BY <1>12 DEF updateCounter, Forward
<1>13. CASE Change
  BY <1>13 DEF Change
<1>14. CASE UNCHANGED vars
  BY <1>14 DEF vars
<1> QED
  BY <1>1, <1>2, <1>3, <1>5, <1>6, <1>7, <1>8, <1>9, <1>10, <1>11, <1>12, <1>13, <1>14
     DEF Next, Step

\* No step counts a packet twice, unless a counter that was carried over is reset.
LEMMA NextCounted == TypeOK /\ CarriedBounded /\ [Next]_vars => CarriedBounded'
<1> SUFFICES ASSUME TypeOK, CarriedBounded, [Next]_vars PROVE CarriedBounded'
  OBVIOUS
<1> USE DEF Frame, Goto, Note, Fault, kernel, process, history, CarriedBounded, CountedOnce
<1>0. /\ counter \in [Families -> Nat] /\ carried \in [Families -> Nat]
      /\ exported \in [Families -> Nat] /\ forwarded \in [Families -> Nat]
      /\ pc = "counters" => todo \subseteq Families
  BY DEF TypeOK
<1>1. ASSUME UNCHANGED <<counter, history>>,
             carried' = carried \/ carried' = [f \in Families |-> 0]
      PROVE  CarriedBounded'
  BY <1>0, <1>1
<1>2. ASSUME NEW f \in todo, getCounterObj(f) PROVE CarriedBounded'
  BY <1>0, <1>2 DEF getCounterObj
<1>3. CASE Flush
  BY <1>0, <1>3 DEF Flush
<1>4. ASSUME NEW f \in Families, updateCounter(f) PROVE CarriedBounded'
  <2>1. CASE raced'
    BY <2>1
  <2>2. CASE ~raced'
    <3>0. ~raced /\ ~(carried[f] > 0)
      BY <1>4, <2>2, Zenon DEF updateCounter
    <3>1. ~raced /\ carried[f] = 0
      BY <1>0, <3>0
    <3>2. /\ counter' = [counter EXCEPT ![f] = 0]
          /\ exported' = [exported EXCEPT ![f] = @ + counter[f]]
          /\ UNCHANGED <<carried, forwarded>>
      BY <1>4, <2>2 DEF updateCounter
    <3> QED
      BY <1>0, <3>1, <3>2
  <2> QED
    BY <2>1, <2>2
<1>5. ASSUME NEW f \in Families, Forward(f) PROVE CarriedBounded'
  BY <1>0, <1>5 DEF Forward
<1>6. ASSUME \/ ReadInterfaces \/ LinkSetUp \/ AddrReplace \/ RemoveResolv \/ WriteResolv \/ LinkFails
             \/ \E e \in todo : LinkSetName(e)
      PROVE  CarriedBounded'
  BY <1>1, <1>6 DEF ReadInterfaces, LinkSetName, LinkSetUp, AddrReplace, RemoveResolv, WriteResolv,
                    LinkFails, NextLink
<1>7. CASE \/ InterfacesDone \/ ReadDhcp4 \/ ReplaceAddr4 \/ ReplaceRouterRoute
           \/ ReplaceDefaultRoute \/ Dhcp4Fails
  BY <1>1, <1>7 DEF InterfacesDone, ReadDhcp4, ReplaceAddr4, ReplaceRouterRoute,
                    ReplaceDefaultRoute, Dhcp4Fails
<1>8. ASSUME NEW p \in todo, ReplaceAddr6(p) PROVE CarriedBounded'
  BY <1>1, <1>8 DEF ReplaceAddr6
<1>9. CASE ReadDhcp6 \/ Dhcp6Done \/ Dhcp6Fails \/ NotifyServices
  BY <1>1, <1>9 DEF ReadDhcp6, Dhcp6Done, Dhcp6Fails, NotifyServices
<1>10. CASE applySysctl \/ BuildRuleset \/ FlushFails
  BY <1>1, <1>10 DEF applySysctl, BuildRuleset, FlushFails
<1>11. CASE AddLink \/ ConfigureDevice \/ WireGuardFails
  BY <1>1, <1>11 DEF AddLink, ConfigureDevice, WireGuardFails
<1>12. CASE Return \/ StartApply \/ Crash
  BY <1>1, <1>12 DEF Return, StartApply, Crash
<1>13. CASE Change
  BY <1>1, <1>13 DEF Change
<1>14. CASE UNCHANGED vars
  BY <1>1, <1>14 DEF vars
<1> QED
  BY <1>2, <1>3, <1>4, <1>5, <1>6, <1>7, <1>8, <1>9, <1>10, <1>11, <1>12, <1>13, <1>14
     DEF Next, Step

\* No step leaves a part behind: what Apply is past has been applied, and what it has read is still
\* what the file says, or there is a signal.
LEMMA NextParts == TypeOK /\ PartsInOrder /\ [Next]_vars => PartsInOrder'
<1> SUFFICES ASSUME TypeOK, PartsInOrder, [Next]_vars PROVE PartsInOrder'
  OBVIOUS
<1> USE DEF Frame, Goto, Note, Fault, kernel, process, history, PartsInOrder, Undisturbed, Usable, LinksDone,
            LinkSteps,
            AfterLinks, After4, After6, AfterRules, AfterTunnel
<1>0. faults \in Nat
  BY DEF TypeOK
<1>1. CASE ReadInterfaces
  BY <1>1 DEF ReadInterfaces
<1>25. ASSUME NEW e \in todo, LinkSetName(e) PROVE PartsInOrder'
  BY <1>25 DEF LinkSetName
<1>26. CASE LinkSetUp
  <2>0. got \in Entry
    BY <1>26 DEF LinkSetUp, TypeOK
  <2>1. CASE ~got.ok
    BY <1>26, <2>1 DEF LinkSetUp, NextLink
  <2>2. CASE got.ok /\ got.link = Uplink
    BY <1>26, <2>2, LinkAssumption DEF LinkSetUp, NextLink
  <2>3. CASE got.ok /\ got.link = Lan
    BY <1>26, <2>3, LinkAssumption DEF LinkSetUp, NextLink
  <2> QED
    BY <2>0, <2>1, <2>2, <2>3 DEF Entry
<1>27. CASE AddrReplace
  BY <1>27 DEF AddrReplace
<1>28. CASE RemoveResolv
  <2> SUFFICES ASSUME Undisturbed', Usable' PROVE PartsInOrder'
    OBVIOUS
  <2>1. Undisturbed /\ Usable /\ got \in files.interfaces /\ got.link = Lan /\ got.ok
    BY <1>28 DEF RemoveResolv, TypeOK
  <2>2. \A e \in files.interfaces \ {got} : e.link # Lan
    BY <2>1, EntriesOK DEF Entry
  <2> QED
    BY <1>28, <2>1, <2>2 DEF RemoveResolv
<1>29. CASE WriteResolv
  <2>1. got.link = Lan
    BY <1>29 DEF WriteResolv, TypeOK
  <2> QED
    BY <1>29, <2>1 DEF WriteResolv, NextLink
<1>2. ASSUME NEW label, Fault(label), UNCHANGED signal PROVE PartsInOrder'
  BY <1>0, <1>2
<1>3. CASE InterfacesDone
  BY <1>3 DEF InterfacesDone
<1>4. CASE ReadDhcp4
  BY <1>4, FileAssumption DEF ReadDhcp4, Applied4
<1>5. CASE ReplaceAddr4 \/ ReplaceRouterRoute
  BY <1>5 DEF ReplaceAddr4, ReplaceRouterRoute
<1>6. CASE ReplaceDefaultRoute
  BY <1>6 DEF ReplaceDefaultRoute, Applied4
<1>7. CASE ReadDhcp6
  BY <1>7 DEF ReadDhcp6, Applied4, Applied6
<1>8. ASSUME NEW p \in todo, ReplaceAddr6(p) PROVE PartsInOrder'
  BY <1>8 DEF ReplaceAddr6, Applied4
<1>9. CASE Dhcp6Done
  BY <1>9 DEF Dhcp6Done, Applied4, Applied6
<1>10. CASE NotifyServices
  BY <1>10 DEF NotifyServices, Applied4, Applied6
<1>11. CASE applySysctl
  <2>1. CASE Goto("firewall")
    BY <1>11, <2>1 DEF applySysctl, Applied4, Applied6
  <2>2. CASE Fault("firewall")
    BY <1>2, <1>11, <2>2 DEF applySysctl
  <2> QED
    BY <1>11, <2>1, <2>2 DEF applySysctl
<1>12. CASE BuildRuleset
  BY <1>12 DEF BuildRuleset, Applied4, Applied6, AppliedRules
<1>13. ASSUME NEW f \in todo, getCounterObj(f) PROVE PartsInOrder'
  BY <1>0, <1>13 DEF getCounterObj, Applied4, Applied6
<1>14. CASE Flush
  <2>1. got \in Ruleset /\ got # Absent
    BY <1>14, FileAssumption DEF Flush, TypeOK
  <2> QED
    BY <1>14, <2>1 DEF Flush, Applied4, Applied6, AppliedRules
<1>15. CASE AddLink
  BY <1>15, FileAssumption DEF AddLink, Applied4, Applied6, AppliedRules, AppliedTunnel
<1>16. CASE ConfigureDevice
  BY <1>16 DEF ConfigureDevice, Applied4, Applied6, AppliedRules, AppliedTunnel
<1>17. CASE Return
  BY <1>17 DEF Return, Applied4, Applied6, AppliedRules, AppliedTunnel
<1>18. CASE StartApply
  BY <1>18 DEF StartApply
<1>19. CASE LinkFails
  BY <1>2, <1>19 DEF LinkFails
<1>20. CASE Dhcp4Fails \/ Dhcp6Fails \/ FlushFails \/ WireGuardFails
  BY <1>2, <1>20 DEF Dhcp4Fails, Dhcp6Fails, FlushFails, WireGuardFails
<1>21. CASE Crash
  BY <1>21 DEF Crash
<1>22. ASSUME NEW f \in Families, updateCounter(f) \/ Forward(f) PROVE PartsInOrder'
  BY <1>22 DEF updateCounter, Forward, Applied4, Applied6, AppliedRules, AppliedTunnel
<1>23. CASE Change
  BY <1>23 DEF Change, Running
<1>24. CASE UNCHANGED vars
  BY <1>24 DEF vars, Applied4, Applied6, AppliedRules, AppliedTunnel
<1> QED
  BY <1>1, <1>3, <1>4, <1>5, <1>6, <1>7, <1>8, <1>9, <1>10, <1>11, <1>12, <1>13, <1>14, <1>15,
     <1>16, <1>17, <1>18, <1>19, <1>20, <1>21, <1>22, <1>23, <1>24, <1>25, <1>26, <1>27, <1>28, <1>29
     DEF Next, Step

\* The inductive invariant of Apply and of the metrics holds in every reachable state
\* (netconfig.go:503-786, netconfigd.go:72-158).
THEOREM Inductive == Spec => []IInv
<1>1. Init => IInv
  BY DEF Init, IInv, RoutesInOrder, DefaultRouteUsable, ToldInOrder, ServicesKnow,
         AddressesAnnounced, CarriedBounded, CountedOnce, PartsInOrder, LinkSteps,
         AfterLinks, After4, After6, AfterRules, AfterTunnel
<1>2. TypeOK /\ IInv /\ [Next]_vars => IInv'
  BY NextRoutes, NextTold, NextCounted, NextParts DEF IInv
<1> QED
  BY <1>1, <1>2, TypeCorrect, PTL DEF Spec

\* The default route always has its gateway and its source address (netconfig.go:99-133).
THEOREM DefaultRouteAlwaysUsable == Spec => []DefaultRouteUsable
<1>1. IInv => DefaultRouteUsable
  BY DEF IInv, RoutesInOrder
<1> QED
  BY <1>1, Inductive, PTL

\* Whoever listens on addresses knows them when netconfigd waits, and init also when Apply has
\* failed (netconfigd.go:145-151).
THEOREM AddressesAlwaysAnnounced == Spec => []AddressesAnnounced
<1>1. IInv => AddressesAnnounced
  BY DEF IInv, ToldInOrder
<1> QED
  BY <1>1, Inductive, PTL

\* A packet is counted twice only if the metrics reset a counter that Apply had carried over
\* (netconfig.go:503-538, netconfigd.go:72-84).
THEOREM OnlyRaceCountsTwice == Spec => []CountedOnce
<1>1. IInv => CountedOnce
  BY DEF IInv, CarriedBounded
<1> QED
  BY <1>1, Inductive, PTL

\* When Apply returns and nothing was signalled meanwhile, the kernel has what the files say, part by
\* part, unless a call failed or interfaces.json cannot be used: an error in any other file, or a
\* restart in the middle, leaves no part behind (netconfig.go:735-785, wireguard.go:90-94).
THEOREM NoPartLeftBehind == Spec => []NothingLeftBehind
<1>1. IInv => NothingLeftBehind
  BY DEF IInv, PartsInOrder, NothingLeftBehind, LinksDone, AfterLinks, After4, After6, AfterRules,
         AfterTunnel
<1> QED
  BY <1>1, Inductive, PTL
=============================================================================
