----------------------------- MODULE MCDomains -----------------------------
(* Domains for TLC: the first primary name is public, with a certificate or   *)
(* without; the second has one; the third is mDNS, or public without one.     *)
EXTENDS Domains

CONSTANTS a, b, c

MCGiven ==
    [name : {a}, tls : BOOLEAN, mdns : {FALSE}] \cup [name : {b}, tls : {TRUE}, mdns : {FALSE}]
      \cup [name : {c}, tls : {FALSE}, mdns : BOOLEAN]
=============================================================================
