--------------------------- MODULE PacketPrograms ---------------------------
(***************************************************************************)
(* The packet programs of the load balancer (router.c): dnat_prog takes a  *)
(* client's request to the backend, snat_prog is to take the reply back.   *)
(* They share the connection map, an LRU map that evicts when it is full.  *)
(* Checksums and link-layer addresses are left out.                        *)
(***************************************************************************)
EXTENDS Naturals, FiniteSets

CONSTANTS
  Client,        \* addresses of clients
  ClientPort,    \* their ports
  BACKEND_IP,
  LB_IP,
  TARGET_PORT,
  MaxConntrack   \* max_entries of the connection map

ASSUME PacketAssumption ==
  /\ BACKEND_IP # LB_IP /\ {BACKEND_IP, LB_IP} \cap Client = {}
  /\ TARGET_PORT \notin ClientPort
  /\ MaxConntrack \in Nat \ {0}

VARIABLES
  conntrack_map,  \* from connection tuples to source addresses
  snatted         \* history: the last packet of snat_prog, before and after

packetVars == <<conntrack_map, snatted>>

Host == Client \cup {BACKEND_IP, LB_IP}
PortNumber == ClientPort \cup {TARGET_PORT}
conn_tuple == [src_ip : Host, dst_ip : Host, src_port : PortNumber, dst_port : PortNumber]

\* A packet: its tuple and whether parse_headers accepts it, as IPv4 with TCP and whole.
Packet == [tuple : conn_tuple, parsed : BOOLEAN]

\* What clients send to the load balancer.
Incoming ==
  {p \in Packet : p.tuple.src_ip \in Client /\ p.tuple.dst_ip = LB_IP
                    /\ p.tuple.src_port \in ClientPort}

\* What the backend replies to it, and what it sends to clients itself.
Outgoing ==
  {p \in Packet : /\ p.tuple.src_ip \in {BACKEND_IP, LB_IP}
                  /\ p.tuple.dst_ip \in Client \cup {LB_IP}
                  /\ p.tuple.src_ip # p.tuple.dst_ip}

PacketTypeOK ==
  /\ DOMAIN conntrack_map \subseteq conn_tuple
  /\ \A t \in DOMAIN conntrack_map : conntrack_map[t] \in Host
  /\ Cardinality(DOMAIN conntrack_map) <= MaxConntrack
  /\ snatted \subseteq Packet \X Packet

noPackets == conntrack_map = <<>> /\ snatted = {}

\* The map is freed with its collection.
closeMap == conntrack_map' = <<>> /\ snatted' = {}

\* Mutant: no entry makes room for another.
evictionsNone(tuple) == {{}}

\* What the map may evict to take a tuple.
evictions(tuple) ==
  IF tuple \in DOMAIN conntrack_map \/ Cardinality(DOMAIN conntrack_map) < MaxConntrack
  THEN {{}}
  ELSE {{t} : t \in DOMAIN conntrack_map}

\* bpf_map_update_elem
update(tuple, ip) ==
  \E gone \in evictions(tuple) :
    conntrack_map' = [t \in (DOMAIN conntrack_map \cup {tuple}) \ gone |->
                        IF t = tuple THEN ip ELSE conntrack_map[t]]

\* Mutant: dnat_prog tracks the packets of every port.
dnat_progAnyPort(p) ==
  /\ p.parsed
  /\ update(p.tuple, p.tuple.src_ip)
  /\ UNCHANGED snatted

\* dnat_prog on a packet for the target port, which goes on to the backend with the
\* load balancer as its source; other packets pass as they are.
dnat_prog(p) ==
  /\ p.parsed
  /\ p.tuple.dst_port = TARGET_PORT
  /\ update(p.tuple, p.tuple.src_ip)
  /\ UNCHANGED snatted

rev_tuple(p) ==
  [src_ip |-> p.tuple.dst_ip, dst_ip |-> p.tuple.src_ip,
   src_port |-> p.tuple.dst_port, dst_port |-> p.tuple.src_port]

snat_prog(p) ==
  /\ snatted' =
       {<<p, IF p.parsed /\ rev_tuple(p) \in DOMAIN conntrack_map
             THEN [p EXCEPT !.tuple.src_ip = conntrack_map[rev_tuple(p)]]
             ELSE p>>}
  /\ UNCHANGED conntrack_map

(***************************************************************************)
(* What snat_prog restores (router.c:108): a reply of the backend passes   *)
(* unchanged, since dnat_prog stores the tuple of the request before the   *)
(* rewrite; the packets that do match, those of the load balancer itself   *)
(* to a client it tracks, get that client as source and destination.       *)
(***************************************************************************)
RepliesNotRestored ==
  \A step \in snatted :
    LET before == step[1]
        after == step[2]
    IN after # before =>
         /\ before.tuple.src_ip = LB_IP
         /\ before.tuple.src_port = TARGET_PORT
         /\ after.tuple = [before.tuple EXCEPT !.src_ip = before.tuple.dst_ip]
=============================================================================
