------------------------------ MODULE NodeBoot ------------------------------
(***************************************************************************)
(* How a node comes by its targets before it starts the dispatcher: the    *)
(* configuration (config/node/config.go, config/common.go), then           *)
(* retrieveIPAndPorts (cmd/node/main.go), which resolves host names by     *)
(* multicast DNS or by the system resolver (pkg/util/dns.go).              *)
(*                                                                         *)
(* An mDNS exchange has a goroutine that writes the query and one that     *)
(* reads the answer; both report on errChan, which has room for one error. *)
(* They outlive the call that spawned them, so there is one of each per    *)
(* configured address.                                                     *)
(***************************************************************************)
EXTENDS Naturals, Sequences

CONSTANTS
  MdnsHost,      \* host names that end in ".local"
  DnsHost,       \* the other host names
  IP,
  Port,          \* ports other than 0
  FileAddresses, \* the address lists a configuration file may have
  FlagAddresses, \* the argument lists the address flag may be given
  MaxAddresses   \* bound: addresses of one node

None == "none"   \* an empty host name or IP
Hostname == MdnsHost \cup DnsHost
Address == [hostname : Hostname \cup {None}, ip : IP \cup {None}, port : Port \cup {0}]
\* An argument of the address flag: how many parts it splits into, and what they say.
Argument == [parts : 1 .. 3, address : Address]
Index == 1 .. MaxAddresses

ASSUME NodeBootAssumption ==
  /\ MaxAddresses \in Nat
  /\ Port \subseteq Nat \ {0}
  /\ None \notin IP \cup Hostname
  /\ MdnsHost \cap DnsHost = {}
  /\ FileAddresses \subseteq {as \in Seq(Address) : Len(as) <= MaxAddresses}
  /\ FlagAddresses \subseteq {as \in Seq(Argument) : Len(as) <= MaxAddresses}

VARIABLES
  file,       \* the configuration file: how loading it goes and the addresses it has
  flags,      \* the arguments of the address flag; empty if it was not given
  pc,         \* where main is
  addresses,  \* cfg.LoadBalancer.Addresses
  idx,        \* the address retrieveIPAndPorts is at
  targets,
  expired,    \* the context of each resolution has reached its deadline
  conn,       \* the socket of each mDNS exchange
  writer,     \* the goroutine that sends the query of each exchange
  reader,     \* the goroutine that waits for the answer
  errChan,
  respChan,
  answer      \* history: the address each resolution was given

exchange == <<conn, writer, reader, errChan, respChan>>
vars == <<file, flags, pc, addresses, idx, targets, expired, exchange, answer>>

TypeOK ==
  /\ file \in [state : {"unnamed", "bad", "good"}, addresses : FileAddresses]
  /\ flags \in FlagAddresses
  /\ pc \in {"config", "loop", "listen", "deadline", "select", "dial", "lookup",
             "failed", "fatal", "ready"}
  /\ addresses \in Seq(Address)
  /\ idx \in 1 .. MaxAddresses + 1
  /\ targets \subseteq [ip : IP, port : Port]
  /\ expired \in [Index -> BOOLEAN]
  /\ conn \in [Index -> {"none", "open", "closed"}]
  /\ writer \in [Index -> {"none", "write", "sendErr", "failed", "sent"}]
  /\ reader \in [Index -> {"none", "read", "sendErr", "sendResp", "done"}]
  /\ errChan \in [Index -> 0 .. 1]
  /\ respChan \in [Index -> IP \cup {None}]
  /\ answer \in [Index -> IP \cup {None}]

Init ==
  /\ file \in [state : {"unnamed", "bad", "good"}, addresses : FileAddresses]
  /\ flags \in FlagAddresses
  /\ pc = "config"
  /\ addresses = <<>>
  /\ idx = 1
  /\ targets = {}
  /\ expired = [i \in Index |-> FALSE]
  /\ conn = [i \in Index |-> "none"]
  /\ writer = [i \in Index |-> "none"]
  /\ reader = [i \in Index |-> "none"]
  /\ errChan = [i \in Index |-> 0]
  /\ respChan = [i \in Index |-> None]
  /\ answer = [i \in Index |-> None]

-----------------------------------------------------------------------------
(* Configuration *)

\* LoadConfig, or New() where it fails: no path (the flag's default is not used), no
\* such file, or a value of the wrong type, as the arguments of the flag would be.
LoadConfig == IF file.state = "good" /\ flags = <<>> THEN file.addresses ELSE <<>>

LoadBalancerAddressArguments == 3

\* Mutant: the argument itself is converted.
GetIntParses(port) == port

\* viper.GetInt looks its argument up as a key; no key has the name of a port.
GetInt(port) == 0

\* The addresses of well-formed arguments.
parseLBAddresses(args) ==
  [i \in DOMAIN args |-> [args[i].address EXCEPT !.port = GetInt(@)]]

\* InitConfig; a malformed argument ends the process.
InitConfig ==
  /\ pc = "config"
  /\ IF \E i \in DOMAIN flags : flags[i].parts # LoadBalancerAddressArguments
     THEN pc' = "failed" /\ UNCHANGED addresses
     ELSE /\ pc' = "loop"
          /\ addresses' = IF flags # <<>> THEN parseLBAddresses(flags) ELSE LoadConfig
  /\ UNCHANGED <<file, flags, idx, targets, expired, exchange, answer>>

-----------------------------------------------------------------------------
(* retrieveIPAndPorts and resolveHostname *)

InLoop == pc = "loop" /\ idx <= Len(addresses)

\* The port is not set, or neither IP nor host name is.
Invalid ==
  /\ InLoop
  /\ \/ addresses[idx].port = 0
     \/ addresses[idx].ip = None /\ addresses[idx].hostname = None
  /\ pc' = "failed"
  /\ UNCHANGED <<file, flags, addresses, idx, targets, expired, exchange, answer>>

\* targets[target.String()] = target, and on to the next address.
AddTarget(ip) ==
  /\ targets' = targets \cup {[ip |-> ip, port |-> addresses[idx].port]}
  /\ idx' = idx + 1
  /\ pc' = "loop"

UseIP ==
  /\ InLoop
  /\ addresses[idx].port # 0
  /\ addresses[idx].ip # None
  /\ AddTarget(addresses[idx].ip)
  /\ UNCHANGED <<file, flags, addresses, expired, exchange, answer>>

resolveHostname ==
  /\ InLoop
  /\ addresses[idx].port # 0
  /\ addresses[idx].ip = None
  /\ addresses[idx].hostname # None
  /\ pc' = IF addresses[idx].hostname \in MdnsHost THEN "listen" ELSE "dial"
  /\ UNCHANGED <<file, flags, addresses, idx, targets, expired, exchange, answer>>

\* HostnameResolveTimeout; only the resolution under way depends on it.
CtxExpires ==
  /\ pc \in {"listen", "deadline", "select", "dial", "lookup"}
  /\ ~expired[idx]
  /\ expired' = [expired EXCEPT ![idx] = TRUE]
  /\ UNCHANGED <<file, flags, pc, addresses, idx, targets, exchange, answer>>

Complete ==
  /\ pc = "loop"
  /\ idx > Len(addresses)
  /\ pc' = "ready"
  /\ UNCHANGED <<file, flags, addresses, idx, targets, expired, exchange, answer>>

\* Logger.Fatalf: the process and all its goroutines end.
Fatal ==
  /\ pc = "failed"
  /\ pc' = "fatal"
  /\ conn' = [i \in Index |-> "none"]
  /\ writer' = [i \in Index |-> "none"]
  /\ reader' = [i \in Index |-> "none"]
  /\ UNCHANGED <<file, flags, addresses, idx, targets, expired, errChan, respChan, answer>>

-----------------------------------------------------------------------------
(* ResolveMulticastDNS and sendAndReceiveMDNS *)

\* No socket, or no multicast address.
ListenFails ==
  /\ pc = "listen"
  /\ pc' = "failed"
  /\ UNCHANGED <<file, flags, addresses, idx, targets, expired, exchange, answer>>

\* The socket is there and the writer is spawned.
Listen ==
  /\ pc = "listen"
  /\ pc' = "deadline"
  /\ conn' = [conn EXCEPT ![idx] = "open"]
  /\ writer' = [writer EXCEPT ![idx] = "write"]
  /\ UNCHANGED <<file, flags, addresses, idx, targets, expired, reader, errChan,
                 respChan, answer>>

SetReadDeadlineFails ==
  /\ pc = "deadline"
  /\ pc' = "failed"
  /\ conn' = [conn EXCEPT ![idx] = "closed"]
  /\ UNCHANGED <<file, flags, addresses, idx, targets, expired, writer, reader,
                 errChan, respChan, answer>>

SetReadDeadline ==
  /\ pc = "deadline"
  /\ pc' = "select"
  /\ reader' = [reader EXCEPT ![idx] = "read"]
  /\ UNCHANGED <<file, flags, addresses, idx, targets, expired, conn, writer,
                 errChan, respChan, answer>>

\* Mutant: after a timeout the whole exchange is tried again with a new context.
SelectDoneRetries ==
  /\ pc = "select"
  /\ expired[idx]
  /\ pc' = "listen"
  /\ expired' = [expired EXCEPT ![idx] = FALSE]
  /\ conn' = [conn EXCEPT ![idx] = "closed"]
  /\ UNCHANGED <<file, flags, addresses, idx, targets, writer, reader, errChan,
                 respChan, answer>>

\* case <-ctx.Done(); the deferred conn.Close runs in every case.
SelectDone ==
  /\ pc = "select"
  /\ expired[idx]
  /\ pc' = "failed"
  /\ conn' = [conn EXCEPT ![idx] = "closed"]
  /\ UNCHANGED <<file, flags, addresses, idx, targets, expired, writer, reader,
                 errChan, respChan, answer>>

\* case err := <-errChan
SelectErr ==
  /\ pc = "select"
  /\ errChan[idx] > 0
  /\ errChan' = [errChan EXCEPT ![idx] = 0]
  /\ pc' = "failed"
  /\ conn' = [conn EXCEPT ![idx] = "closed"]
  /\ UNCHANGED <<file, flags, addresses, idx, targets, expired, writer, reader,
                 respChan, answer>>

\* Mutant: the socket is not closed after an answer.
SelectRespNoClose ==
  /\ pc = "select"
  /\ respChan[idx] # None
  /\ respChan' = [respChan EXCEPT ![idx] = None]
  /\ AddTarget(respChan[idx])
  /\ UNCHANGED <<file, flags, addresses, expired, conn, writer, reader, errChan, answer>>

\* case ip := <-respChan
SelectResp ==
  /\ pc = "select"
  /\ respChan[idx] # None
  /\ respChan' = [respChan EXCEPT ![idx] = None]
  /\ conn' = [conn EXCEPT ![idx] = "closed"]
  /\ AddTarget(respChan[idx])
  /\ UNCHANGED <<file, flags, addresses, expired, writer, reader, errChan, answer>>

\* WriteTo succeeds only on an open socket.
WriteTo(i) ==
  /\ writer[i] = "write"
  /\ \/ conn[i] = "open" /\ writer' = [writer EXCEPT ![i] = "sent"]
     \/ writer' = [writer EXCEPT ![i] = "sendErr"]
  /\ UNCHANGED <<file, flags, pc, addresses, idx, targets, expired, conn, reader,
                 errChan, respChan, answer>>

\* Mutant: errChan has no buffer, and nobody receives after the select.
ErrChanHasRoomUnbuffered(i) == pc = "select" /\ idx = i /\ errChan[i] = 0

ErrChanHasRoom(i) == errChan[i] < 1

WriterSendsErr(i) ==
  /\ writer[i] = "sendErr"
  /\ ErrChanHasRoom(i)
  /\ errChan' = [errChan EXCEPT ![i] = @ + 1]
  /\ writer' = [writer EXCEPT ![i] = "failed"]
  /\ UNCHANGED <<file, flags, pc, addresses, idx, targets, expired, conn, reader,
                 respChan, answer>>

\* An answer comes only to a query that was sent; its last four bytes are the address.
ReadAnswer(i, ip) ==
  /\ reader[i] = "read"
  /\ conn[i] = "open" /\ writer[i] = "sent"
  /\ reader' = [reader EXCEPT ![i] = "sendResp"]
  /\ answer' = [answer EXCEPT ![i] = ip]
  /\ UNCHANGED <<file, flags, pc, addresses, idx, targets, expired, conn, writer,
                 errChan, respChan>>

\* A short packet, the closed socket, or MaxMDNSReadTimeout, which is the longer timeout.
ReadFails(i) ==
  /\ reader[i] = "read"
  /\ writer[i] = "sent" \/ conn[i] = "closed" \/ expired[i]
  /\ reader' = [reader EXCEPT ![i] = "sendErr"]
  /\ UNCHANGED <<file, flags, pc, addresses, idx, targets, expired, conn, writer,
                 errChan, respChan, answer>>

\* Mutant: a short packet is reported without waiting for room.
ReaderSendsErrAnyway(i) ==
  /\ reader[i] = "sendErr"
  /\ errChan' = [errChan EXCEPT ![i] = @ + 1]
  /\ reader' = [reader EXCEPT ![i] = "done"]
  /\ UNCHANGED <<file, flags, pc, addresses, idx, targets, expired, conn, writer,
                 respChan, answer>>

ReaderSendsErr(i) ==
  /\ reader[i] = "sendErr"
  /\ ErrChanHasRoom(i)
  /\ errChan' = [errChan EXCEPT ![i] = @ + 1]
  /\ reader' = [reader EXCEPT ![i] = "done"]
  /\ UNCHANGED <<file, flags, pc, addresses, idx, targets, expired, conn, writer,
                 respChan, answer>>

ReaderSendsResp(i) ==
  /\ reader[i] = "sendResp"
  /\ respChan[i] = None
  /\ respChan' = [respChan EXCEPT ![i] = answer[i]]
  /\ reader' = [reader EXCEPT ![i] = "done"]
  /\ UNCHANGED <<file, flags, pc, addresses, idx, targets, expired, conn, writer,
                 errChan, answer>>

-----------------------------------------------------------------------------
(* ResolveDNS with its one server, and resolveDNS *)

\* DialContext obeys the context.
DialFails ==
  /\ pc = "dial"
  /\ pc' = "failed"
  /\ UNCHANGED <<file, flags, addresses, idx, targets, expired, exchange, answer>>

DialDNS ==
  /\ pc = "dial"
  /\ ~expired[idx]
  /\ pc' = "lookup"
  /\ UNCHANGED <<file, flags, addresses, idx, targets, expired, exchange, answer>>

\* LookupHost finds addresses, the first one that parses is used; it takes no context.
Lookup(ip) ==
  /\ pc = "lookup"
  /\ answer' = [answer EXCEPT ![idx] = ip]
  /\ AddTarget(ip)
  /\ UNCHANGED <<file, flags, addresses, expired, exchange>>

\* Mutant: a list without an address that parses is used as it is.
LookupFailsUnchecked ==
  /\ pc = "lookup"
  /\ idx' = idx + 1
  /\ pc' = "loop"
  /\ UNCHANGED <<file, flags, addresses, targets, expired, exchange, answer>>

\* No such host, or no address that ParseIP takes.
LookupFails ==
  /\ pc = "lookup"
  /\ pc' = "failed"
  /\ UNCHANGED <<file, flags, addresses, idx, targets, expired, exchange, answer>>

-----------------------------------------------------------------------------
Main ==
  \/ InitConfig \/ Invalid \/ UseIP \/ resolveHostname \/ Complete \/ Fatal
  \/ ListenFails \/ Listen \/ SetReadDeadlineFails \/ SetReadDeadline
  \/ SelectDone \/ SelectErr \/ SelectResp
  \/ DialFails \/ DialDNS \/ LookupFails \/ \E ip \in IP : Lookup(ip)

Writer(i) == WriteTo(i) \/ WriterSendsErr(i)

Reader(i) ==
  \/ ReadFails(i) \/ ReaderSendsErr(i) \/ ReaderSendsResp(i)
  \/ \E ip \in IP : ReadAnswer(i, ip)

\* The process has ended, or main goes on to the dispatcher.
Booted == pc \in {"fatal", "ready"} /\ UNCHANGED vars

Next ==
  \/ Main \/ CtxExpires
  \/ \E i \in Index : Writer(i) \/ Reader(i)
  \/ Booted

Spec == Init /\ [][Next]_vars

\* main runs, LookupHost returns, the context's timer fires; no host has to answer
\* and the two goroutines need not be scheduled.
FairSpec == Spec /\ WF_vars(Main) /\ WF_vars(CtxExpires)

-----------------------------------------------------------------------------
(* Properties *)

(***************************************************************************)
(* A node that goes on to its dispatcher has exactly the targets it was    *)
(* configured with: one for every address, with its port and with the IP   *)
(* that was given or that its own resolution answered, no late answer of   *)
(* another exchange, no empty IP and no port 0 (cmd/node/main.go:74-108).  *)
(***************************************************************************)
TargetsComplete ==
  pc = "ready" =>
    targets = {[ip |-> IF addresses[i].ip # None THEN addresses[i].ip ELSE answer[i],
                port |-> addresses[i].port] : i \in DOMAIN addresses}

(***************************************************************************)
(* The resolver leaves nothing behind in a node that booted: every socket  *)
(* is closed, every goroutine has ended and no error was overheard.        *)
(***************************************************************************)
NothingLeftRunning ==
  pc = "ready" => \A i \in Index :
    /\ conn[i] # "open"
    /\ writer[i] \in {"none", "sent"}
    /\ reader[i] \in {"none", "done"}
    /\ errChan[i] = 0 /\ respChan[i] = None

(***************************************************************************)
(* errChan has one slot and two senders (dns.go:124): once nobody receives *)
(* any more, a goroutine is stuck in its send only if both have failed.    *)
(***************************************************************************)
StuckOnlyIfBothFail ==
  \A i \in Index :
    pc = "failed" /\ ~ErrChanHasRoom(i) =>
      /\ writer[i] = "sendErr" => reader[i] = "done"
      /\ reader[i] = "sendErr" => writer[i] = "failed"

(***************************************************************************)
(* A node that is given addresses by flag does not get to its dispatcher,  *)
(* whatever the arguments and the file say: every port has become 0        *)
(* (config.go:99), which retrieveIPAndPorts refuses.                       *)
(***************************************************************************)
FlagsNeverBoot == flags # <<>> => pc # "ready" /\ targets = {}

(***************************************************************************)
(* The node gets to its dispatcher or gives up, also when no host answers  *)
(* the query (HostnameResolveTimeout, dns.go:157).                         *)
(***************************************************************************)
BootEnds == <>(pc \in {"fatal", "ready"})

(***************************************************************************)
(* config/node/config.go:21: of an address "we only use the ip and port",  *)
(* and the flag has both: the port that is given is the one that is used.  *)
(***************************************************************************)
FlagPortIsUsed ==
  pc \notin {"config", "failed", "fatal"} =>
    \A i \in DOMAIN flags : addresses[i].port = flags[i].address.port
=============================================================================
