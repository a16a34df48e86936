---------------------------- MODULE PeerAddress ----------------------------
(***************************************************************************)
(* Where a connection comes from (server_websocket.py:128-180).  The text  *)
(* of an address is the sequence of its fields between colons.  Behind a   *)
(* proxy the headers X-Real-IP and X-Real-Port tell it; otherwise it is    *)
(* cut out of autobahn's "tcp4:host:port" or "tcp6:host:port", where a     *)
(* client that came by IPv4 to an IPv6 socket is "::ffff:1.2.3.4".         *)
(***************************************************************************)
EXTENDS Naturals, Sequences

CONSTANTS
    V4Hosts,    \* IPv4 addresses: one field each
    V6Fields    \* fields of IPv6 addresses other than "" and "ffff"

ASSUME FieldsAssumption ==
    /\ V4Hosts \intersect ({"", "ffff", "tcp4", "tcp6"} \union V6Fields) = {}
    /\ V6Fields \intersect {"", "ffff"} = {}

\* The addresses of clients, by protocol: "::1" is <<"", "", "1">>.
V4Clients == {[type |-> "ipv4", host |-> <<h>>] : h \in V4Hosts}
V6Clients == {[type |-> "ipv6", host |-> <<"", "", f>>] : f \in V6Fields \union {"ffff"}}
                 \union {[type |-> "ipv6", host |-> <<f, "", "ffff", g>>] : f, g \in V6Fields}
                 \union {[type |-> "ipv6", host |-> <<"", "", f, "ffff", g>>] : f, g \in V6Fields}

Proxied(client, port) == [real |-> TRUE, ip |-> client.host, port |-> port]

Direct(peer) == [real |-> FALSE, peer |-> peer]

\* The requests a client's connection may arrive as.  A proxy names a client that
\* came by IPv4 by its IPv4 address, never as "::ffff:1.2.3.4": server_websocket.py:141
\* takes X-Real-IP for granted and would call the latter an IPv6 address.
Requests(client, port) ==
    {Proxied(client, port)}
        \union (IF client.type = "ipv4"
                  THEN {Direct(<<"tcp4">> \o client.host \o <<port>>),
                        Direct(<<"tcp6", "", "", "ffff">> \o client.host \o <<port>>)}
                  ELSE {Direct(<<"tcp6">> \o client.host \o <<port>>)})

-----------------------------------------------------------------------------
\* What is between the first colon and the last.
HostPart(peer) == SubSeq(peer, 2, Len(peer) - 1)

LastField(text) == text[Len(text)]

\* Fault: "::" alone marks a mapped address.
IsShort(host) == Len(host) > 2 /\ SubSeq(host, 1, 2) = <<"", "">>

\* host.startswith("::ffff:")
IsMapped(host) == Len(host) > 3 /\ SubSeq(host, 1, 3) = <<"", "", "ffff">>

Unmapped(host) == IF IsMapped(host) THEN <<LastField(host)>> ELSE host

TypeOfRealIP(ip) == IF Len(ip) > 1 THEN "ipv6" ELSE "ipv4"

TypeOfPeer(peer) ==
    IF peer[1] = "tcp6" /\ ~IsMapped(HostPart(peer)) THEN "ipv6" ELSE "ipv4"

\* _peer_addr_port
PeerAddrPort(request) ==
    IF request.real
      THEN [type |-> TypeOfRealIP(request.ip), host |-> request.ip, port |-> request.port]
      ELSE [type |-> TypeOfPeer(request.peer),
            host |-> IF request.peer[1] = "tcp6" THEN Unmapped(HostPart(request.peer))
                                                 ELSE HostPart(request.peer),
            port |-> LastField(request.peer)]

\* get_your_address: the client's address under the name of its protocol.
YourAddress(a) ==
    [key \in {"port", a.type} |-> IF key = "port" THEN a.port ELSE a.host]

-----------------------------------------------------------------------------
\* docs/operations.md:15 "This makes it easy to tell when two connections are from
\* the same place": whichever way a client's connections arrive, they are
\* recorded under one address, its own, which the welcome tells it as well, given
\* proxies that do not map IPv4 addresses (see Requests).
SamePlace(client, port, request) ==
    LET a == PeerAddrPort(request)
    IN /\ a = [type |-> client.type, host |-> client.host, port |-> port]
       /\ DOMAIN YourAddress(a) = {"port", client.type}
       /\ YourAddress(a)[client.type] = client.host
=============================================================================
