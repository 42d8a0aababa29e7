---------------------------- MODULE LbBootProofs ----------------------------
(***************************************************************************)
(* Proofs about LbBoot for every set of configuration keys.                *)
(***************************************************************************)
EXTENDS LbBoot, TLAPS

\* A leaf that names no prover is one for Zenon.
USE ZenonT(30)

\* The variables that no step of the process changes go with the others.
USE DEF world, vars

-----------------------------------------------------------------------------
(* Configuration *)

\* A key has one source, and what comes from environment or file was set there.
LEMMA LookupSource ==
  ASSUME TypeOK, NEW k \in Key
  PROVE  /\ Lookup(k) \in Layer
         /\ Lookup(k) = "flag" <=> k \in flags
         /\ Lookup(k) = "env" => env[k] # "unset"
         /\ Lookup(k) = "file" => env[k] = "unset" /\ file.has[k] # "unset"
         /\ Lookup(k) = "default" => env[k] = "unset" /\ file.has[k] = "unset"
BY DEF Lookup, Layer

\* InitConfig makes a configuration that has a layer for every key.
LEMMA ConfigType ==
  ASSUME TypeOK, InitConfig
  PROVE  cfg' \in [Key -> Layer]
BY LookupSource DEF InitConfig, ApplyFlagsToConfig, LoadConfig, New, Layer

\* The layers InitConfig takes the values from: flags first, then all or nothing.
LEMMA ConfigLayers ==
  ASSUME TypeOK, InitConfig
  PROVE  /\ \A k \in Key : k \in flags <=> cfg'[k] = "flag"
         /\ \/ \A k \in Key \ flags : cfg'[k] = "default"
            \/ \A k \in Key : cfg'[k] = Lookup(k) /\ Decodes(k)
<1>1. CASE LoadConfigSucceeds
  <2>1. \A k \in Key : cfg'[k] = Lookup(k)
    BY <1>1 DEF InitConfig, ApplyFlagsToConfig, LoadConfig, Lookup
  <2>2. \A k \in Key : Decodes(k)
    BY <1>1 DEF LoadConfigSucceeds
  <2>. QED
    BY <2>1, <2>2, LookupSource
<1>2. CASE ~LoadConfigSucceeds
  BY <1>2 DEF InitConfig, ApplyFlagsToConfig, New
<1>. QED
  BY <1>1, <1>2

-----------------------------------------------------------------------------
(* main *)

\* Every step keeps the types.
LEMMA TypeStep == TypeOK /\ [Next]_vars => TypeOK'
<1>. SUFFICES ASSUME TypeOK, [Next]_vars
              PROVE  TypeOK'
  OBVIOUS
<1>1. CASE Execute
  BY <1>1, ConfigType DEF Execute, TypeOK
<1>2. CASE ExecuteFails \/ NewAPIFails \/ StartFails \/ ServeFails
  BY <1>2 DEF ExecuteFails, NewAPIFails, StartFails, ServeFails, Fatal, TypeOK
<1>3. CASE NewAPI \/ Start
  BY <1>3 DEF NewAPI, Start, TypeOK
<1>4. CASE Restart
  BY <1>4 DEF Restart, New, TypeOK, Layer
<1>5. CASE EditFile
  BY <1>5 DEF EditFile, TypeOK
<1>6. CASE NetChanges
  BY <1>6 DEF NetChanges, TypeOK
<1>7. CASE UNCHANGED vars
  BY <1>7 DEF TypeOK
<1>. QED
  BY <1>1, <1>2, <1>3, <1>4, <1>5, <1>6, <1>7 DEF Next, Process

\* TypeOK: every key has a layer at every moment, whatever could not be read.
THEOREM TypeCorrect == Spec => []TypeOK
<1>1. Init => TypeOK
  BY DEF Init, TypeOK, New, Layer
<1>. QED
  BY <1>1, TypeStep, PTL DEF Spec

\* AllOrNothing: one value that does not decode costs all values but the flags.
THEOREM AllOrNothingHolds == Spec => AllOrNothing
<1>1. TypeOK /\ [Next]_vars => [pc = "exec" /\ pc' = "api" => InitConfig]_vars
  BY DEF Next, Process, Execute, ExecuteFails, NewAPI, NewAPIFails, Start, StartFails,
         ServeFails, Restart, EditFile, NetChanges, Fatal
<1>2. ASSUME TypeOK, InitConfig
      PROVE  /\ \A k \in Key : k \in flags <=> cfg'[k] = "flag"
             /\ \/ \A k \in Key \ flags : cfg'[k] = "default"
                \/ /\ \A k \in Key \ flags :
                        cfg'[k] = "default" => env[k] = "unset" /\ file.has[k] = "unset"
                   /\ \A k \in Key : cfg'[k] = "env" => env[k] = "good"
                   /\ \A k \in Key : cfg'[k] = "file" => file.has[k] = "good" /\ env[k] = "unset"
  BY <1>2, ConfigLayers, LookupSource DEF Decodes
<1>. QED
  BY <1>1, <1>2, TypeCorrect, PTL DEF Spec, AllOrNothing

\* NeverServesByDefault: the process serves only on an interface that was named.
THEOREM ServesOnlyNamed == Spec => []NeverServesByDefault
<1>1. Init => NeverServesByDefault
  BY DEF Init, NeverServesByDefault
<1>2. NeverServesByDefault /\ [Next]_vars => NeverServesByDefault'
  BY DEF NeverServesByDefault, Next, Process, Execute, ExecuteFails, NewAPI, NewAPIFails,
         Start, StartFails, ServeFails, Restart, EditFile, NetChanges, Fatal,
         GetIPv4FromInterface
<1>. QED
  BY <1>1, <1>2, PTL DEF Spec

\* ApiStaysClosed: no step of main reaches the start of the API.
THEOREM ApiClosed == Spec => []ApiStaysClosed
<1>1. Init => ApiStaysClosed
  BY DEF Init, ApiStaysClosed
<1>2. ApiStaysClosed /\ [Next]_vars => ApiStaysClosed'
  BY SMTT(30) DEF ApiStaysClosed, Next, Process, Execute, ExecuteFails, NewAPI, NewAPIFails,
         Start, StartFails, ServeFails, Restart, EditFile, NetChanges, Fatal
<1>. QED
  BY <1>1, <1>2, PTL DEF Spec
=============================================================================
