------------------------------- MODULE LbBoot -------------------------------
(***************************************************************************)
(* How the load balancer comes up: the layers of its configuration         *)
(* (config/lb/config.go, config/common.go), then cmd/lb/main.go with the   *)
(* constructors and Start of its two servers, under systemd's              *)
(* Restart=always.  Between two steps an operator may edit the file, and   *)
(* the network may come and go.                                            *)
(*                                                                         *)
(* A value is represented by the layer it comes from.  The default of      *)
(* net_interface_private is the empty name, which is no interface.         *)
(***************************************************************************)
EXTENDS Naturals, FiniteSets

CONSTANT Key   \* configuration keys, net_interface_private among them

Iface == "net_interface_private"
ASSUME KeyAssumption == Iface \in Key

Layer == {"flag", "env", "file", "default"}   \* default: the Default* constants
Entry == {"unset", "good", "bad"}   \* bad: does not decode into its field's type
Settings == [Key -> Entry]
File == [readable : {TRUE}, has : Settings]
          \cup {[readable |-> FALSE, has |-> [k \in Key |-> "unset"]]}

VARIABLES
  args,      \* the command line: "run" | "help" | "bad"
  flags,     \* the keys given as flags
  useFile,   \* --config is given
  env,       \* the keys set in the environment
  file,      \* the configuration file; one that does not parse is not readable
  net,       \* interfaces are up with IPv4 addresses and ports are free
  pc,        \* "exec" | "api" | "listen" | "serving" | "exited"
  cfg,       \* the layer each value was taken from
  open       \* the ports the process listens on

world == <<args, flags, useFile, env>>
vars == <<world, file, net, pc, cfg, open>>

TypeOK ==
  /\ args \in {"run", "help", "bad"}
  /\ flags \subseteq Key
  /\ useFile \in BOOLEAN
  /\ env \in Settings
  /\ file \in File
  /\ net \in BOOLEAN
  /\ pc \in {"exec", "api", "listen", "serving", "exited"}
  /\ cfg \in [Key -> Layer]
  /\ open \subseteq {"node_port", "api_port"}

New == [k \in Key |-> "default"]

Init ==
  /\ args \in {"run", "help", "bad"}
  /\ flags \in SUBSET Key
  /\ useFile \in BOOLEAN
  /\ env \in Settings
  /\ file \in File
  /\ net \in BOOLEAN
  /\ pc = "exec"
  /\ cfg = New
  /\ open = {}

-----------------------------------------------------------------------------
(* Configuration *)

\* viper: a flag that was given, the environment, the file, the default.
Lookup(k) ==
  IF k \in flags THEN "flag"
  ELSE IF env[k] # "unset" THEN "env"
  ELSE IF file.has[k] # "unset" THEN "file"
  ELSE "default"

Decodes(k) ==
  /\ Lookup(k) = "env" => env[k] = "good"
  /\ Lookup(k) = "file" => file.has[k] = "good"

\* Mutant: Changed does not see the flag.
GetConfigFilePathLost == FALSE

\* The path is "" unless --config was given: the default lb.toml is never read.
GetConfigFilePath == useFile

\* Path, read and decoding have to succeed, for every key.
LoadConfigSucceeds ==
  GetConfigFilePath /\ file.readable /\ \A k \in Key : Decodes(k)

LoadConfig == [k \in Key |-> Lookup(k)]

ApplyFlagsToConfig(c) == [k \in Key |-> IF k \in flags THEN "flag" ELSE c[k]]

\* Mutant: the keys that decode are kept when others do not.
InitConfigPartial ==
  LET kept == [k \in Key |-> IF Decodes(k) THEN Lookup(k) ELSE "default"]
  IN cfg' = ApplyFlagsToConfig(IF GetConfigFilePath /\ file.readable THEN kept ELSE New)

InitConfig == cfg' = ApplyFlagsToConfig(IF LoadConfigSucceeds THEN LoadConfig ELSE New)

-----------------------------------------------------------------------------
(* main *)

\* Fatalf, or a panic: the process ends.
Fatal == pc' = "exited" /\ open' = {} /\ UNCHANGED <<world, file, net, cfg>>

\* rootCmd.Execute runs InitConfig.
Execute ==
  /\ pc = "exec" /\ args = "run"
  /\ InitConfig
  /\ pc' = "api"
  /\ UNCHANGED <<world, file, net, open>>

\* A bad flag is fatal; --help leaves cfg nil and main dereferences it.
ExecuteFails == pc = "exec" /\ args # "run" /\ Fatal

\* Mutant: any name will do, as net.Listen takes an empty host for all of them.
GetIPv4FromInterfaceAny(name) == net

GetIPv4FromInterface(name) == name # "default" /\ net

\* Mutant: the API is started as soon as it is there.
NewAPIStarts ==
  /\ pc = "api" /\ GetIPv4FromInterface(cfg[Iface])
  /\ pc' = "listen" /\ open' = {"api_port"}
  /\ UNCHANGED <<world, file, net, cfg>>

\* lbAPIV1.New; nodemanager.New cannot fail.
NewAPI ==
  /\ pc = "api" /\ GetIPv4FromInterface(cfg[Iface])
  /\ pc' = "listen"
  /\ UNCHANGED <<world, file, net, cfg, open>>

NewAPIFails == pc = "api" /\ ~GetIPv4FromInterface(cfg[Iface]) /\ Fatal

(***************************************************************************)
(* server.Start: the address once more, Listen, and Serve, which blocks.   *)
(* Serve returns only with an error, so that main does not get to the      *)
(* lines after server.Start(), which start the API.                        *)
(***************************************************************************)
Start ==
  /\ pc = "listen" /\ GetIPv4FromInterface(cfg[Iface])
  /\ pc' = "serving" /\ open' = open \cup {"node_port"}
  /\ UNCHANGED <<world, file, net, cfg>>

StartFails == pc = "listen" /\ ~GetIPv4FromInterface(cfg[Iface]) /\ Fatal

\* Accept fails for good, or a goroutine panics.
ServeFails == pc = "serving" /\ Fatal

\* systemd, Restart=always, with the same command line and environment.
Restart ==
  /\ pc = "exited"
  /\ pc' = "exec" /\ cfg' = New
  /\ UNCHANGED <<world, file, net, open>>

\* The operator and the network.
EditFile == file' \in File /\ UNCHANGED <<world, net, pc, cfg, open>>
NetChanges == net' = ~net /\ UNCHANGED <<world, file, pc, cfg, open>>

Process == Execute \/ ExecuteFails \/ NewAPI \/ NewAPIFails \/ Start \/ StartFails

Next == Process \/ ServeFails \/ Restart \/ EditFile \/ NetChanges

Spec == Init /\ [][Next]_vars

\* main runs and systemd restarts it; the world need not change.
FairSpec == Spec /\ WF_vars(Process) /\ WF_vars(Restart)
-----------------------------------------------------------------------------
(* Properties *)

(***************************************************************************)
(* The layers when a process configures itself: a flag always wins; apart  *)
(* from flags, environment and file count for every key they set or, if    *)
(* one single value of theirs does not decode, for none.                   *)
(***************************************************************************)
AllOrNothing ==
  [][pc = "exec" /\ pc' = "api" =>
       /\ \A k \in Key : k \in flags <=> cfg'[k] = "flag"
       /\ \/ \A k \in Key \ flags : cfg'[k] = "default"
          \/ /\ \A k \in Key \ flags :
                  cfg'[k] = "default" => env[k] = "unset" /\ file.has[k] = "unset"
             /\ \A k \in Key : cfg'[k] = "env" => env[k] = "good"
             /\ \A k \in Key : cfg'[k] = "file" => file.has[k] = "good" /\ env[k] = "unset"
    ]_vars

\* The load balancer never serves on the default interface: as long as flags, environment
\* and file leave the interface open it does not come up, however often it restarts.
NeverServesByDefault == pc = "serving" => cfg[Iface] # "default"

\* While the load balancer runs the port of its API is closed: GET /nodes has no listener.
ApiStaysClosed == "api_port" \notin open

\* What the world gives is enough to start.
Startable ==
  /\ args = "run" /\ net
  /\ Iface \in flags \/ (useFile /\ file.readable /\ Lookup(Iface) # "default"
                           /\ \A k \in Key : Decodes(k))

(***************************************************************************)
(* Once the configuration names the interface, the network is up and the   *)
(* ports are free, and stay so, the load balancer comes up, and again      *)
(* after each failure, whatever it met before.                             *)
(***************************************************************************)
ComesUp == <>[]Startable => []<>(pc = "serving")
=============================================================================
