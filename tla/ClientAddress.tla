---------------------------- MODULE ClientAddress ----------------------------
(* Whom a request is accounted to (service/client_ip.py): the address behind
   the proxies the deployment trusts.  An address is a value, so two spellings
   of one address are one; X-Forwarded-For is a sequence of items, each an
   address or junk, to which every proxy appends the address it was called
   from.                                                                     *)
EXTENDS Naturals, Sequences

CONSTANTS
    Trusted,        \* addresses within trusted_proxy_cidrs
    Junk            \* an item that is no address

(* One bad item discards the header. *)
Malformed(header) == \E i \in DOMAIN header : header[i] = Junk

StopsAt(hops, i) == i = 1 \/ hops[i] \notin Trusted

Leftmost(hops) == 1

(* Where the walk from the right ends: at the first hop that is not trusted, or
   else at the leftmost. *)
Walk(hops) ==
    CHOOSE i \in DOMAIN hops :
        StopsAt(hops, i) /\ \A j \in (i + 1)..Len(hops) : ~StopsAt(hops, j)

(* peer is the other end of the connection, header what it sent. *)
GetClientIp(header, peer) ==
    LET hops == Append(header, peer) IN
    IF peer \notin Trusted \/ header = <<>> \/ Malformed(header)
    THEN peer
    ELSE hops[Walk(hops)]
=============================================================================
