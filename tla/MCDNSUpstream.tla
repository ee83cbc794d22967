--------------------------- MODULE MCDNSUpstream ---------------------------
(* Instances of DNSUpstream for TLC.                                        *)
EXTENDS DNSUpstream

CONSTANTS u1, u2, u3, q1, q2, q3

TwoUpstreams == <<u1, u2>>
ThreeUpstreams == <<u1, u2, u3>>
=============================================================================
