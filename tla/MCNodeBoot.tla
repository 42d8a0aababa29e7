----------------------------- MODULE MCNodeBoot -----------------------------
(* Small instances of NodeBoot for TLC. *)
EXTENDS NodeBoot

CONSTANTS m1, d1, ip1, ip2

AddressesOf(hosts, ips, ports) == [hostname : hosts, ip : ips, port : ports]

UpTo(n, S) == UNION {[1 .. k -> S] : k \in 0 .. n}

\* Every list of at most two addresses.
MCFile ==
  UpTo(2, AddressesOf({m1, d1, None}, {ip1, None}, {0, 7070}))

\* No flag, and every list of one or two arguments, complete or without a part.
MCFlag ==
  UpTo(2, {[parts |-> 3, address |-> a] : a \in AddressesOf({m1, None}, {ip1, None}, {7070})}
          \cup {[parts |-> 2, address |-> a] : a \in AddressesOf({m1}, {None}, {7070})})
=============================================================================
