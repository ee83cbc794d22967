------------------------------- MODULE DHCP4d -------------------------------
(***************************************************************************)
(* The DHCPv4 server of router7: the lease database of internal/dhcp4d and *)
(* its persistence and /sethostname endpoint in cmd/dhcp4d.                *)
(*                                                                         *)
(* Two goroutines share the database under leasesMu: the DHCP goroutine,   *)
(* which answers one packet at a time, and the HTTP handler of             *)
(* /sethostname.  A DHCPREQUEST takes and drops the mutex three times, so  *)
(* it is three or four steps here (pc); everything between two releases of *)
(* the mutex is one step.  The database is written to leases.json (disk)   *)
(* only at the end of a DHCPREQUEST and by SetHostname, and it is read     *)
(* back when the process starts.                                           *)
(*                                                                         *)
(* Time is a counter; the expiry 0 is Go's zero time, the mark of a        *)
(* permanent (static) lease.                                               *)
(***************************************************************************)
EXTENDS Integers, FiniteSets

CONSTANTS
    HW,             \* hardware addresses of the clients
    NoHW,           \* the hardware address of no client
    LeaseRange,     \* how many numbers are handed out (230)
    LeasePeriod,    \* Handler.LeasePeriod (20 minutes)
    NintendoPeriod, \* what leasePeriodForDevice grants the quirky devices (1 hour)
    Nintendo,       \* the clients whose prefix is in nintendoMacPrefixes
    Hostnames,      \* names the administrator may choose
    ClientNames,    \* names a client may send (OptionHostName)
    NoName,         \* the empty string
    Garbled,        \* what an unsynchronised read of a string may return
    InitialLeases,  \* leases.json when the system is first observed
    MaxTime         \* bound on the clock, for model checking

Nums == 0 .. LeaseRange - 1
NoNum == -1

Names == Hostnames \cup ClientNames \cup {NoName, Garbled}

\* A Lease; its Num is its index in leasesIP, its Addr is start + Num.
Lease == [hw: HW \cup {NoHW}, hostname: Names, override: Names, expiry: Nat]

\* The absent map entry.
NoLease == [hw |-> NoHW, hostname |-> NoName, override |-> NoName, expiry |-> 0]

ASSUME HWAssumption == NoHW \notin HW
ASSUME RangeAssumption == LeaseRange \in Nat \ {0}
ASSUME PeriodAssumption == /\ LeasePeriod \in Nat \ {0}
                           /\ NintendoPeriod \in Nat \ {0}
ASSUME NameAssumption == NoName \notin Hostnames
ASSUME InitialAssumption ==
    /\ InitialLeases \in [Nums -> Lease]
    /\ \A n \in Nums : InitialLeases[n].hw = NoHW => InitialLeases[n] = NoLease
    /\ \A m, n \in Nums :
          InitialLeases[m].hw = InitialLeases[n].hw /\ InitialLeases[m].hw # NoHW => m = n

VARIABLES
    now,      \* the clock
    leasesHW, \* hardware address -> lease number, NoNum where the map has no entry
    leasesIP, \* lease number -> lease, NoLease where the map has no entry
    disk,     \* the contents of leases.json
    pc,       \* where the DHCP goroutine is in the DHCPREQUEST it serves
    req,      \* the local variables of that request
    reply,    \* the packet this step sent, if any
    held,     \* the clients' side: the promise each client relies on
    static,   \* the clients whose lease is permanent and was never declined
    intact    \* no restart has yet lost part of the database

vars == <<now, leasesHW, leasesIP, disk, pc, req, reply, held, static, intact>>

Promise == [num: Nums \cup {NoNum}, until: Nat]
NoPromise == [num |-> NoNum, until |-> 0]

\* num, hw and the fields of the new Lease; old is the number of the lease that
\* leaseHW returned; until is the end of the period the client will be told.
Request == [hw: HW \cup {NoHW}, num: Nums \cup {NoNum}, hostname: Names, override: Names,
            expiry: Nat, until: Nat, old: Nums \cup {NoNum}]
NoRequest == [hw |-> NoHW, num |-> NoNum, hostname |-> NoName, override |-> NoName,
              expiry |-> 0, until |-> 0, old |-> NoNum]

\* "refused" is a DHCPDISCOVER that is logged and not answered.
Reply == [type: {"none", "offer", "refused", "nak", "ack"},
          hw: HW \cup {NoHW}, num: Nums \cup {NoNum}]
NoReply == [type |-> "none", hw |-> NoHW, num |-> NoNum]

-----------------------------------------------------------------------------
(* The helpers of the handler.                                              *)

\* Mutant: a permanent lease runs out like any other.
ExpiredIgnoringZero(l) == now > l.expiry

Expired(l) == l.expiry # 0 /\ now > l.expiry

leasePeriodForDevice(hw) == IF hw \in Nintendo THEN NintendoPeriod ELSE LeasePeriod

\* The entry is absent or its lease has run out.
Available(n) == leasesIP[n].hw = NoHW \/ Expired(leasesIP[n])

\* Mutant: the bound of the pool is off by one.
canLeasePastEnd(asked, hw) ==
    IF asked = LeaseRange THEN asked
    ELSE IF asked \in Nums /\ (Available(asked) \/ leasesIP[asked].hw = hw) THEN asked ELSE NoNum

\* Mutant: a lease "already owned by requestor" is not recognised.
canLeaseAnyOwner(asked, hw) == IF asked \in Nums /\ Available(asked) THEN asked ELSE NoNum

\* asked is the requested address relative to start: -1 stands for an absent, zero,
\* malformed or too low one, LeaseRange for one beyond the pool.
canLease(asked, hw) ==
    IF asked \in Nums /\ (Available(asked) \/ leasesIP[asked].hw = hw) THEN asked ELSE NoNum

\* Mutant: the random number is returned without looking it up.
findLeaseUnchecked ==
    IF Cardinality({n \in Nums : leasesIP[n].hw # NoHW}) < LeaseRange THEN Nums ELSE {NoNum}

\* The numbers findLease may return: a random one if it is available, else the first
\* available one; it looks only while the map has fewer than LeaseRange entries.
findLease ==
    IF Cardinality({n \in Nums : leasesIP[n].hw # NoHW}) < LeaseRange
    THEN {n \in Nums : Available(n)}
    ELSE {NoNum}

\* Mutant: the hardware address of the lease found is not compared.
leaseHWUncompared(hw) ==
    IF leasesHW[hw] # NoNum /\ leasesIP[leasesHW[hw]].hw # NoHW THEN leasesHW[hw] ELSE NoNum

\* The number of the lease leaseHW finds for hw, NoNum if it reports none.
leaseHW(hw) ==
    IF leasesHW[hw] # NoNum /\ leasesIP[leasesHW[hw]].hw = hw THEN leasesHW[hw] ELSE NoNum

\* SetLeases rebuilds leasesHW from the leases it is given.
IndexOf(leases) ==
    [h \in HW |-> IF \E n \in Nums : leases[n].hw = h
                  THEN CHOOSE n \in Nums : leases[n].hw = h
                  ELSE NoNum]

\* Mutant: the callback is not installed, so nothing is written.
callLeasesLockedNil(leases) == UNCHANGED disk

\* callLeasesLocked hands all of leasesIP to handler.Leases, which writes leases.json
\* atomically (renameio).
callLeasesLocked(leases) == disk' = leases

-----------------------------------------------------------------------------
Init ==
    /\ now = 1
    /\ disk = InitialLeases
    /\ leasesIP = InitialLeases
    /\ leasesHW = IndexOf(InitialLeases)
    /\ pc = "idle"
    /\ req = NoRequest
    /\ reply = NoReply
    /\ held = [h \in HW |-> NoPromise]
    /\ static = {h \in HW : \E n \in Nums : InitialLeases[n].hw = h /\ InitialLeases[n].expiry = 0}
    /\ intact = TRUE

\* Time passes.
Tick ==
    /\ now < MaxTime
    /\ now' = now + 1
    /\ reply' = NoReply
    /\ UNCHANGED <<leasesHW, leasesIP, disk, pc, req, held, static, intact>>

-----------------------------------------------------------------------------
(* DHCPDISCOVER.                                                            *)

\* The numbers serveDHCP may offer: the client's own unexpired lease, else the number it
\* asked for, else one that findLease returns.
Offers(hw, asked) ==
    LET own == leaseHW(hw)
        free == canLease(asked, hw)
    IN  IF own # NoNum /\ ~Expired(leasesIP[own]) THEN {own}
        ELSE IF free # NoNum THEN {free}
        ELSE findLease

Discover(hw, asked) ==
    /\ pc = "idle"
    /\ \E n \in Offers(hw, asked) :
          reply' = [type |-> IF n = NoNum THEN "refused" ELSE "offer",
                    hw |-> hw, num |-> n]
    /\ UNCHANGED <<now, leasesHW, leasesIP, disk, pc, req, held, static, intact>>

-----------------------------------------------------------------------------
(* DHCPREQUEST.  A request that names another server is dropped by serveDHCP *)
(* and changes nothing, so it is a stuttering step.                          *)

\* A client that asks for another number than the one it uses has given that one up.
Abandon(hw, asked) == IF held[hw].num = asked THEN held[hw] ELSE NoPromise

\* The number is not available: DHCPNAK, on which the client stops using it.
RefuseRequest(hw, asked) ==
    /\ pc = "idle"
    /\ canLease(asked, hw) = NoNum
    /\ reply' = [type |-> "nak", hw |-> hw, num |-> NoNum]
    /\ held' = [held EXCEPT ![hw] = NoPromise]
    /\ UNCHANGED <<now, leasesHW, leasesIP, disk, pc, req, static, intact>>

\* canLease succeeds, drops the mutex, and the new Lease is filled in.
CheckRequest(hw, asked, hostname) ==
    /\ pc = "idle"
    /\ canLease(asked, hw) # NoNum
    /\ pc' = "checked"
    /\ req' = [hw |-> hw, num |-> canLease(asked, hw),
               hostname |-> hostname, override |-> NoName,
               expiry |-> now + leasePeriodForDevice(hw),
               until |-> now + leasePeriodForDevice(hw), old |-> NoNum]
    /\ reply' = NoReply
    /\ held' = [held EXCEPT ![hw] = Abandon(hw, asked)]
    /\ UNCHANGED <<now, leasesHW, leasesIP, disk, static, intact>>

\* Mutant: the properties of a permanent lease are not retained.
InheritOverrideOnly(r, n, l) ==
    IF l.override # NoName
    THEN [r EXCEPT !.hostname = l.override, !.override = l.override, !.old = n]
    ELSE [r EXCEPT !.old = n]

\* leaseHW returns a pointer to the client's lease and drops the mutex; what the new lease
\* keeps of the old one is copied through that pointer.
Inherit(r, n, l) ==
    LET renewed == IF l.expiry = 0 THEN [r EXCEPT !.expiry = 0, !.hostname = l.hostname] ELSE r
    IN  IF l.override # NoName
        THEN [renewed EXCEPT !.hostname = l.override, !.override = l.override, !.old = n]
        ELSE [renewed EXCEPT !.old = n]

ReadOldLease ==
    /\ pc = "checked"
    /\ pc' = "read"
    /\ req' = LET n == leaseHW(req.hw)
              IN  IF n = NoNum THEN req ELSE Inherit(req, n, leasesIP[n])
    /\ reply' = NoReply
    /\ UNCHANGED <<now, leasesHW, leasesIP, disk, held, static, intact>>

\* Mutant: the old lease stays in leasesIP.
ReleaseNothing ==
    /\ pc = "read"
    /\ req.old # NoNum
    /\ pc' = "released"
    /\ reply' = NoReply
    /\ UNCHANGED <<now, leasesHW, leasesIP, disk, req, held, static, intact>>

\* "Release any old leases for this client", under the mutex, which is then dropped again.
ReleaseOldLease ==
    /\ pc = "read"
    /\ req.old # NoNum
    /\ pc' = "released"
    /\ leasesIP' = [leasesIP EXCEPT ![req.old] = NoLease]
    /\ reply' = NoReply
    /\ UNCHANGED <<now, leasesHW, disk, req, held, static, intact>>

NewLease == [hw |-> req.hw, hostname |-> req.hostname, override |-> req.override,
             expiry |-> req.expiry]

\* The old lease was released, or there was none.
ReadyToStore == pc = "released" \/ (pc = "read" /\ req.old = NoNum)

\* The client gets the DHCPACK, or the packet is lost.
Acknowledge(delivered) ==
    /\ reply' = [type |-> "ack", hw |-> req.hw, num |-> req.num]
    /\ held' = IF delivered
               THEN [held EXCEPT ![req.hw] = [num |-> req.num, until |-> req.until]]
               ELSE held

\* The lease enters both maps and leases.json is written before the DHCPACK leaves.
StoreLease(delivered) ==
    /\ ReadyToStore
    /\ pc' = "idle"
    /\ leasesIP' = [leasesIP EXCEPT ![req.num] = NewLease]
    /\ leasesHW' = [leasesHW EXCEPT ![req.hw] = req.num]
    /\ callLeasesLocked(leasesIP')
    /\ Acknowledge(delivered)
    /\ req' = NoRequest
    /\ UNCHANGED <<now, static, intact>>

\* The process starts over from leases.json (loadLeases, SetLeases).
Restart ==
    /\ leasesIP' = disk
    /\ leasesHW' = IndexOf(disk)
    /\ pc' = "idle"
    /\ req' = NoRequest
    /\ UNCHANGED disk

\* leases.json cannot be written: handler.Leases sends the error to main, which ends the
\* process, but the DHCP goroutine runs on and its DHCPACK may leave before that.
StoreLeaseWriteFails ==
    /\ ReadyToStore
    /\ Restart
    /\ Acknowledge(TRUE)
    /\ intact' = FALSE
    /\ UNCHANGED <<now, static>>

-----------------------------------------------------------------------------
(* DHCPDECLINE: expireLease ends the client's lease in memory only.         *)

expireLease(hw) ==
    LET n == leaseHW(hw)
    IN  IF n = NoNum THEN leasesIP ELSE [leasesIP EXCEPT ![n].expiry = now]

Decline(hw) ==
    /\ pc = "idle"
    /\ leasesIP' = expireLease(hw)
    /\ reply' = NoReply
    /\ held' = [held EXCEPT ![hw] = NoPromise]
    /\ static' = static \ {hw}
    /\ UNCHANGED <<now, leasesHW, disk, pc, req, intact>>

-----------------------------------------------------------------------------
(* The HTTP goroutine and the process itself.                               *)

\* A missing leasesHW entry reads as number 0.
HostnameTarget(hw) == IF leasesHW[hw] = NoNum THEN 0 ELSE leasesHW[hw]

\* Between leaseHW and the release the request reads the lease without the mutex, so a
\* SetHostname of that lease races with it: each copy of the override is the old name, the new
\* one or a mixture, or the test of the override sees "" and only the hostname of a permanent
\* lease is copied too late.
CopyRaces(n, name) ==
    /\ pc = "read"
    /\ req.old = n
    /\ \/ \E h, o \in {req.override, name, Garbled} \ {NoName} :
             req' = [req EXCEPT !.hostname = h, !.override = o]
       \/ /\ req.override = NoName
          /\ req.expiry = 0
          /\ \E h \in {name, Garbled} : req' = [req EXCEPT !.hostname = h]

\* If the number has no lease, the nil dereference panics, net/http recovers, and nothing
\* changes: a stuttering step.
SetHostname(hw, name) ==
    LET n == HostnameTarget(hw)
    IN  /\ leasesIP[n].hw # NoHW
        /\ leasesIP' = [leasesIP EXCEPT ![n].hostname = name, ![n].override = name]
        /\ callLeasesLocked(leasesIP')
        /\ UNCHANGED req \/ CopyRaces(n, name)
        /\ reply' = NoReply
        /\ UNCHANGED <<now, leasesHW, pc, held, static, intact>>

\* SetHostname wrote leases.json while the client in flight had no lease in memory.
Torn == pc = "released" /\ disk[req.old].hw # req.hw

\* The process dies and is started again (power cut, reboot, log.Fatal; also after a write of
\* leases.json that fails in SetHostname, which promises nothing to a client).
CrashRestart ==
    /\ Restart
    /\ reply' = NoReply
    /\ intact' = (intact /\ ~Torn)
    /\ UNCHANGED <<now, held, static>>

-----------------------------------------------------------------------------
\* The remaining steps of a DHCPREQUEST, which the DHCP goroutine takes by itself.
Serve == ReadOldLease \/ ReleaseOldLease \/ \E d \in BOOLEAN : StoreLease(d)

Next ==
    \/ Tick
    \/ Serve
    \/ StoreLeaseWriteFails
    \/ CrashRestart
    \/ \E hw \in HW, asked \in -1 .. LeaseRange :
          \/ Discover(hw, asked)
          \/ RefuseRequest(hw, asked)
          \/ \E hostname \in ClientNames \cup {NoName} : CheckRequest(hw, asked, hostname)
    \/ \E hw \in HW : Decline(hw)
    \/ \E hw \in HW, name \in Hostnames : SetHostname(hw, name)

Spec == Init /\ [][Next]_vars

-----------------------------------------------------------------------------
TypeOK ==
    /\ now \in Nat
    /\ leasesHW \in [HW -> Nums \cup {NoNum}]
    /\ leasesIP \in [Nums -> Lease]
    /\ disk \in [Nums -> Lease]
    /\ pc \in {"idle", "checked", "read", "released"}
    /\ req \in Request
    /\ (pc # "idle") = (req.hw \in HW /\ req.num \in Nums)
    /\ pc = "released" => req.old \in Nums
    /\ reply \in Reply
    /\ held \in [HW -> Promise]
    /\ static \subseteq HW
    /\ intact \in BOOLEAN

\* The client still relies on the number it was acknowledged.
Relies(c, n) == held[c].num = n /\ held[c].num # NoNum /\ now <= held[c].until

-----------------------------------------------------------------------------
(* Safety.                                                                  *)

\* However requests, renames, declines and restarts interleave, leasesHW finds every lease
\* there is: so leaseHW (dhcp4d.go:245) sees the old lease of a client before a new one is
\* stored, and no client ever owns two numbers.
IndexConsistent ==
    \A c \in HW, n \in Nums : leasesIP[n].hw = c => leasesHW[c] = n

\* Two clients never rely on the same address at the same time, over renewals, moves,
\* takeovers of expired leases, declines and restarts, as long as no restart has lost part
\* of leases.json (canLease, dhcp4d.go:165-191, and the steps of serveDHCP after it).
NoDoubleBooking ==
    intact => \A c, d \in HW, n \in Nums : Relies(c, n) /\ Relies(d, n) => c = d

\* leases keeps the promise made to c: c's lease on n does not end before the promise.
Keeps(leases, c, n) ==
    leases[n].hw = c /\ (leases[n].expiry = 0 \/ held[c].until <= leases[n].expiry)

\* Whatever a client relies on is in leases.json, with an expiry that is not earlier, so that
\* a restart keeps the promise; the only exception is the window in which SetHostname has
\* written the file for a request in flight (dhcp4d.go:343-352).
DurablePromises ==
    intact => \A c \in HW, n \in Nums :
        Relies(c, n) => Keeps(disk, c, n) \/ (Torn /\ req.hw = c)

HasPermanentLease(leases, c) == \E n \in Nums : leases[n].hw = c /\ leases[n].expiry = 0

\* A client with a static lease that it never declined has a permanent lease at all times,
\* in the map or in the request being served ("Retain permanent lease properties",
\* dhcp4d.go:332-336), so no other client can take its number by waiting.
PermanentLeaseKept ==
    intact => \A c \in static :
        \/ HasPermanentLease(leasesIP, c)
        \/ pc = "released" /\ req.hw = c /\ req.expiry = 0

(* Action properties.                                                       *)

\* A client that renews or rebinds while its lease runs is never answered with a DHCPNAK
\* (dhcp4d.go:317-320).
RenewalNotRefused ==
    [][\A c \in HW, n \in Nums : intact /\ Relies(c, n) => ~RefuseRequest(c, n)]_vars

\* An offer never names an address another client relies on, whichever of canLease, leaseHW
\* and findLease produced it (dhcp4d.go:281-311).
OfferNotInUse ==
    [][reply'.type = "offer" =>
          \A c \in HW : intact /\ Relies(c, reply'.num) => c = reply'.hw]_vars

\* With fewer clients than numbers no DHCPDISCOVER goes unanswered: the leases of clients that
\* moved or left never fill the map (dhcp4d.go:150, 344).
NeverRefused == Cardinality(HW) < LeaseRange => reply.type # "refused"

(* Refinement.                                                              *)

Pool == INSTANCE AddressPool WITH
    HW <- HW, Nums <- Nums, NoNum <- NoNum, now <- now, held <- held, intact <- intact

\* The server implements the abstract pool: whatever it does, a number is granted only while
\* no other client relies on it (dhcp4d.go:313-359).
ImplementsPool == Pool!Spec

-----------------------------------------------------------------------------
(* The inductive invariant behind the safety properties.                    *)

\* leases.json holds at most one lease per client.
DiskUnique == \A m, n \in Nums : disk[m].hw = disk[n].hw /\ disk[m].hw # NoHW => m = n

\* What canLease found still holds when the lease is stored.
StillLeasable ==
    pc # "idle" => Available(req.num) \/ leasesIP[req.num].hw = req.hw

\* Where the old lease of the client in flight is.
OldLeaseKnown ==
    /\ pc = "checked" => req.old = NoNum
    /\ pc = "read" /\ req.old # NoNum => /\ leasesIP[req.old].hw = req.hw
                                         /\ leasesIP[req.old].expiry = 0 => req.expiry = 0
    /\ pc = "released" \/ (pc = "read" /\ req.old = NoNum) =>
          \A n \in Nums : leasesIP[n].hw # req.hw

\* No promise outlives a lease granted now, and the one in flight covers it.
PromiseBounded ==
    /\ \A c \in HW : held[c].until <= now + leasePeriodForDevice(c)
    /\ pc # "idle" =>
          /\ req.until <= now + leasePeriodForDevice(req.hw)
          /\ held[req.hw].until <= req.until
          /\ req.expiry = 0 \/ req.until <= req.expiry
          /\ held[req.hw].num \in {NoNum, req.num}

\* Every promise is kept by the map in memory, or by the request in flight.
MemoryPromises ==
    intact => \A c \in HW, n \in Nums :
        Relies(c, n) => Keeps(leasesIP, c, n) \/ (pc = "released" /\ req.hw = c)

PermanentOnDisk ==
    intact => \A c \in static : HasPermanentLease(disk, c) \/ (Torn /\ req.hw = c)

\* Together with TypeOK these are preserved by every step of the server and of /sethostname,
\* and they imply the safety properties above (dhcp4d.go:114-391).
IInv ==
    /\ IndexConsistent
    /\ DiskUnique
    /\ StillLeasable
    /\ OldLeaseKnown
    /\ PromiseBounded
    /\ MemoryPromises
    /\ DurablePromises
    /\ PermanentLeaseKept
    /\ PermanentOnDisk

-----------------------------------------------------------------------------
(* What a comment says of the code, and the code does not do.               *)

\* "no more leases available" (dhcp4d.go:302): a DHCPDISCOVER is refused only if every number
\* has a lease that has not expired.
RefusedOnlyWhenExhausted ==
    [][reply'.type = "refused" => \A n \in Nums : ~Available(n)]_vars
=============================================================================
