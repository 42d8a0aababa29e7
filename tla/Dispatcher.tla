------------------------------ MODULE Dispatcher ------------------------------
(***************************************************************************)
(* The node's dispatcher (pkg/nodenetwork/dispatcher.go) with the callers  *)
(* it has: main, which runs Start and, once it returns, Stop, then stops   *)
(* the API and leaves the process (cmd/node/main.go), and the requests of  *)
(* the node API, which call Start or Stop at any time while it serves      *)
(* (pkg/nodenetwork/api/v1).  A Start call spawns one reportHealthLoop     *)
(* goroutine per target and waits for them.                                *)
(*                                                                         *)
(* status is read and written under the lock; generalCtx and generalCancel *)
(* are written by Start without it, while loops read the one and Stop the  *)
(* other.  The two writes are two steps, in either order.                  *)
(***************************************************************************)
EXTENDS Naturals, FiniteSets

CONSTANTS
  Target,        \* the load balancers to report to
  Main,          \* the main goroutine
  StartRequest,  \* API requests POST /start; each is sent at most once
  StopRequest,   \* API requests POST /stop
  NoCtx          \* a nil context or cancel function

Caller == {Main} \cup StartRequest \cup StopRequest

ASSUME CallerAssumption ==
  /\ Main \notin StartRequest \cup StopRequest
  /\ StartRequest \cap StopRequest = {}
  /\ NoCtx \notin Caller

VARIABLES
  status,         \* "running" | "stopped"
  generalCtx,     \* the Start call that created the context, or NoCtx
  generalCancel,  \* the Start call that created the cancel function, or NoCtx
  cancelled,      \* the Start calls whose context is cancelled
  pc,             \* where each caller is
  unwritten,      \* which of the two fields a Start call has still to write
  todo,           \* the targets a Start call has not reached yet
  loop,           \* the goroutine of each Start call and target
  seen,           \* the context the goroutine has read and not tested yet
  api,            \* the server of the node API
  stopped         \* history: a Stop has succeeded in this process

ctxVars == <<generalCtx, generalCancel, cancelled>>
callVars == <<unwritten, todo>>
loopVars == <<loop, seen>>
vars == <<status, ctxVars, pc, callVars, loopVars, api, stopped>>

Fields == {"generalCtx", "generalCancel"}
PC == {"idle", "startLock", "makeCtx", "dial", "wait", "unset", "stopLock",
       "shutdown", "drain", "returned", "gone"}

TypeOK ==
  /\ status \in {"running", "stopped"}
  /\ generalCtx \in Caller \cup {NoCtx}
  /\ generalCancel \in Caller \cup {NoCtx}
  /\ cancelled \subseteq Caller
  /\ pc \in [Caller -> PC]
  /\ unwritten \in [Caller -> SUBSET Fields]
  /\ todo \in [Caller -> SUBSET Target]
  /\ loop \in [Caller -> [Target -> {"none", "pause", "test", "done"}]]
  /\ seen \in [Caller -> [Target -> Caller \cup {NoCtx}]]
  /\ api \in {"starting", "serving", "closed"}
  /\ stopped \in BOOLEAN

\* NewDispatcher and the API's New; main is about to call Start.
Init ==
  /\ status = "stopped"
  /\ generalCtx = NoCtx
  /\ generalCancel = NoCtx
  /\ cancelled = {}
  /\ pc = [c \in Caller |-> IF c = Main THEN "startLock" ELSE "idle"]
  /\ unwritten = [c \in Caller |-> Fields]
  /\ todo = [c \in Caller |-> Target]
  /\ loop = [c \in Caller |-> [t \in Target |-> "none"]]
  /\ seen = [c \in Caller |-> [t \in Target |-> NoCtx]]
  /\ api = "starting"
  /\ stopped = FALSE

\* Start has set the status and has not run its deferred function yet.
Starting(c) == pc[c] \in {"makeCtx", "dial", "wait", "unset"}

Alive(c, t) == loop[c][t] \in {"pause", "test"}

Goto(c, label) == pc' = [pc EXCEPT ![c] = label]

-----------------------------------------------------------------------------
(* The API server: its goroutine, and the requests PostStart and PostStop *)

\* ListenAndServe in the goroutine of main.
Serve ==
  /\ api = "starting"
  /\ api' = "serving"
  /\ UNCHANGED <<status, ctxVars, pc, callVars, loopVars, stopped>>

\* ListenAndServe fails; the error is only logged.
ServeFails ==
  /\ api = "starting"
  /\ api' = "closed"
  /\ UNCHANGED <<status, ctxVars, pc, callVars, loopVars, stopped>>

Request(r) ==
  /\ api = "serving"
  /\ pc[r] = "idle"
  /\ Goto(r, IF r \in StartRequest THEN "startLock" ELSE "stopLock")
  /\ UNCHANGED <<status, ctxVars, callVars, loopVars, api, stopped>>

-----------------------------------------------------------------------------
(* Start *)

\* main goes on to its deferred Stop, a request is answered.
AfterStart(c) == IF c = Main THEN "stopLock" ELSE "returned"

StartRefused(c) ==
  /\ pc[c] = "startLock"
  /\ status = "running"
  /\ Goto(c, AfterStart(c))
  /\ UNCHANGED <<status, ctxVars, callVars, loopVars, api, stopped>>

\* Mutant: Start goes straight to the targets with the context it finds.
StartAcceptedKeepsCtx(c) ==
  /\ pc[c] = "startLock"
  /\ status # "running"
  /\ status' = "running"
  /\ Goto(c, "dial")
  /\ UNCHANGED <<ctxVars, callVars, loopVars, api, stopped>>

StartAccepted(c) ==
  /\ pc[c] = "startLock"
  /\ status # "running"
  /\ status' = "running"
  /\ Goto(c, "makeCtx")
  /\ UNCHANGED <<ctxVars, callVars, loopVars, api, stopped>>

\* d.generalCtx, d.generalCancel = context.WithCancel(...): one of the two stores.
WriteField(c, f) ==
  /\ pc[c] = "makeCtx"
  /\ f \in unwritten[c]
  /\ unwritten' = [unwritten EXCEPT ![c] = @ \ {f}]
  /\ generalCtx' = IF f = "generalCtx" THEN c ELSE generalCtx
  /\ generalCancel' = IF f = "generalCancel" THEN c ELSE generalCancel
  /\ Goto(c, IF unwritten[c] = {f} THEN "dial" ELSE "makeCtx")
  /\ UNCHANGED <<status, cancelled, todo, loopVars, api, stopped>>

\* startDispatchers: client and configuration obtained, the loop is spawned.
Dial(c, t) ==
  /\ pc[c] = "dial"
  /\ t \in todo[c]
  /\ todo' = [todo EXCEPT ![c] = @ \ {t}]
  /\ loop' = [loop EXCEPT ![c][t] = "pause"]
  /\ UNCHANGED <<status, ctxVars, pc, unwritten, seen, api, stopped>>

\* Mutant: the status update is deferred only after startDispatchers.
DialFailsStatusKept(c) ==
  /\ pc[c] = "dial"
  /\ todo[c] # {}
  /\ Goto(c, AfterStart(c))
  /\ UNCHANGED <<status, ctxVars, callVars, loopVars, api, stopped>>

\* startDispatchers: NewClient or fetchConfig fails, Start returns its error.
DialFails(c) ==
  /\ pc[c] = "dial"
  /\ todo[c] # {}
  /\ Goto(c, "unset")
  /\ UNCHANGED <<status, ctxVars, callVars, loopVars, api, stopped>>

AllDialled(c) ==
  /\ pc[c] = "dial"
  /\ todo[c] = {}
  /\ Goto(c, "wait")
  /\ UNCHANGED <<status, ctxVars, callVars, loopVars, api, stopped>>

\* Mutant: wg.Add(1) is called by the goroutine, so Wait may pass before it.
WaitEarly(c) ==
  /\ pc[c] = "wait"
  /\ Goto(c, "unset")
  /\ UNCHANGED <<status, ctxVars, callVars, loopVars, api, stopped>>

\* wg.Wait()
Wait(c) ==
  /\ pc[c] = "wait"
  /\ \A t \in Target : ~Alive(c, t)
  /\ Goto(c, "unset")
  /\ UNCHANGED <<status, ctxVars, callVars, loopVars, api, stopped>>

\* Mutant: Start also defers generalCancel.
UnsetCancels(c) ==
  /\ pc[c] = "unset"
  /\ status' = "stopped"
  /\ cancelled' = cancelled \cup {generalCancel}
  /\ Goto(c, AfterStart(c))
  /\ UNCHANGED <<generalCtx, generalCancel, callVars, loopVars, api, stopped>>

\* The deferred status update; Start returns.
Unset(c) ==
  /\ pc[c] = "unset"
  /\ status' = "stopped"
  /\ Goto(c, AfterStart(c))
  /\ UNCHANGED <<ctxVars, callVars, loopVars, api, stopped>>

-----------------------------------------------------------------------------
(* Stop *)

\* main goes on to shut the API down, a request is answered.
AfterStop(c) == IF c = Main THEN "shutdown" ELSE "returned"

StopRefused(c) ==
  /\ pc[c] = "stopLock"
  /\ status = "stopped"
  /\ Goto(c, AfterStop(c))
  /\ UNCHANGED <<status, ctxVars, callVars, loopVars, api, stopped>>

\* Mutant: the cancel function is not looked at.
StopAcceptedUnchecked(c) ==
  /\ pc[c] = "stopLock"
  /\ status # "stopped"
  /\ cancelled' = cancelled \cup {generalCancel}
  /\ status' = "stopped"
  /\ stopped' = TRUE
  /\ Goto(c, AfterStop(c))
  /\ UNCHANGED <<generalCtx, generalCancel, callVars, loopVars, api>>

StopAccepted(c) ==
  /\ pc[c] = "stopLock"
  /\ status # "stopped"
  /\ generalCancel # NoCtx
  /\ cancelled' = cancelled \cup {generalCancel}
  /\ status' = "stopped"
  /\ stopped' = TRUE
  /\ Goto(c, AfterStop(c))
  /\ UNCHANGED <<generalCtx, generalCancel, callVars, loopVars, api>>

\* d.generalCancel is nil: the call panics and the defer releases the lock.  gin
\* recovers the panic of a request; main runs its other deferred function and ends.
StopPanics(c) ==
  /\ pc[c] = "stopLock"
  /\ status # "stopped"
  /\ generalCancel = NoCtx
  /\ Goto(c, AfterStop(c))
  /\ UNCHANGED <<status, ctxVars, callVars, loopVars, api, stopped>>

-----------------------------------------------------------------------------
(* reportHealthLoop *)

\* After its period, or at first, select evaluates d.generalCtx.
ReadCtx(c, t) ==
  /\ loop[c][t] = "pause"
  /\ loop' = [loop EXCEPT ![c][t] = "test"]
  /\ seen' = [seen EXCEPT ![c][t] = generalCtx]
  /\ UNCHANGED <<status, ctxVars, pc, callVars, api, stopped>>

\* Mutant: break, which leaves the select and not the loop.
SeeDoneBreaks(c, t) ==
  /\ loop[c][t] = "test"
  /\ seen[c][t] \in cancelled
  /\ loop' = [loop EXCEPT ![c][t] = "pause"]
  /\ seen' = [seen EXCEPT ![c][t] = NoCtx]
  /\ UNCHANGED <<status, ctxVars, pc, callVars, api, stopped>>

\* case <-Done(): return, wg.Done()
SeeDone(c, t) ==
  /\ loop[c][t] = "test"
  /\ seen[c][t] \in cancelled
  /\ loop' = [loop EXCEPT ![c][t] = "done"]
  /\ seen' = [seen EXCEPT ![c][t] = NoCtx]
  /\ UNCHANGED <<status, ctxVars, pc, callVars, api, stopped>>

\* default: report the status (an error is only logged) and sleep for a period.
SendReport(c, t) ==
  /\ loop[c][t] = "test"
  /\ seen[c][t] \notin cancelled
  /\ loop' = [loop EXCEPT ![c][t] = "pause"]
  /\ seen' = [seen EXCEPT ![c][t] = NoCtx]
  /\ UNCHANGED <<status, ctxVars, pc, callVars, api, stopped>>

-----------------------------------------------------------------------------
(* The end of main *)

\* nodeAPI.Stop: Shutdown takes no new requests; a server that has not started yet
\* will not.
Shutdown ==
  /\ pc[Main] = "shutdown"
  /\ Goto(Main, "drain")
  /\ api' = "closed"
  /\ UNCHANGED <<status, ctxVars, callVars, loopVars, stopped>>

(***************************************************************************)
(* Shutdown has waited for the requests, or for ServerShutdownTimeout.     *)
(* The process and all its goroutines end and systemd starts a new one     *)
(* (Restart=always); requests under way get no answer.                     *)
(***************************************************************************)
Exit ==
  /\ pc[Main] = "drain"
  /\ status' = "stopped"
  /\ generalCtx' = NoCtx
  /\ generalCancel' = NoCtx
  /\ cancelled' = {}
  /\ pc' = [c \in Caller |-> IF c = Main THEN "startLock"
                            ELSE IF pc[c] = "idle" THEN "idle" ELSE "gone"]
  /\ unwritten' = [c \in Caller |-> Fields]
  /\ todo' = [c \in Caller |-> Target]
  /\ loop' = [c \in Caller |-> [t \in Target |-> "none"]]
  /\ seen' = [c \in Caller |-> [t \in Target |-> NoCtx]]
  /\ api' = "starting"
  /\ stopped' = FALSE

Call(c) ==
  \/ StartRefused(c) \/ StartAccepted(c)
  \/ \E f \in Fields : WriteField(c, f)
  \/ \E t \in Target : Dial(c, t)
  \/ DialFails(c) \/ AllDialled(c) \/ Wait(c) \/ Unset(c)
  \/ StopRefused(c) \/ StopAccepted(c) \/ StopPanics(c)

Loop(c, t) == ReadCtx(c, t) \/ SeeDone(c, t) \/ SendReport(c, t)

Next ==
  \/ Serve \/ ServeFails
  \/ \E r \in StartRequest \cup StopRequest : Request(r)
  \/ \E c \in Caller : Call(c) \/ \E t \in Target : Loop(c, t)
  \/ Shutdown \/ Exit

Spec == Init /\ [][Next]_vars

\* Runnable goroutines run; a dial and a send return; requests may never come.
FairSpec ==
  /\ Spec
  /\ \A c \in Caller : WF_vars(Call(c))
  /\ \A c \in Caller, t \in Target : WF_vars(Loop(c, t))
  /\ WF_vars(Shutdown) /\ WF_vars(Exit)

-----------------------------------------------------------------------------
(* Safety *)

(***************************************************************************)
(* "running" is never stale: whenever GET /status answers so, some Start   *)
(* call is in progress, on every path by which Start returns.              *)
(***************************************************************************)
RunningIsTrue == status = "running" => \E c \in Caller : Starting(c)

(***************************************************************************)
(* A health loop never dereferences a nil context: d.generalCtx, which     *)
(* Start writes without the lock, is set while any loop runs.              *)
(***************************************************************************)
CtxNeverNil ==
  \A c \in Caller, t \in Target : Alive(c, t) =>
    generalCtx # NoCtx /\ (loop[c][t] = "test" => seen[c][t] # NoCtx)

(***************************************************************************)
(* A load balancer stops hearing from a running node only on an order: a   *)
(* health loop returns only after a Stop has succeeded in this process.    *)
(***************************************************************************)
LoopsEndOnlyByStop ==
  (\E c \in Caller, t \in Target : loop[c][t] = "done") => stopped

(***************************************************************************)
(* wg.Wait covers every loop: a Start that has returned while a loop of    *)
(* its own still runs is one that failed at a later target.                *)
(***************************************************************************)
OrphansOnlyByFailure ==
  \A c \in Caller, t \in Target :
    Alive(c, t) /\ ~Starting(c) => todo[c] # {}

-----------------------------------------------------------------------------
(* Liveness *)

Ended(c) == ~Starting(c) /\ \A t \in Target : ~Alive(c, t)

(***************************************************************************)
(* Once the context in d.generalCtx is cancelled, every Start call returns *)
(* and every loop ends, those of earlier calls and of calls that failed    *)
(* half-way included, unless a Start writes another context first: also    *)
(* one accepted before the Stop, as dispatcher.go:79 holds no lock.        *)
(***************************************************************************)
CancelReachesAll ==
  generalCtx \in cancelled ~> \/ \A c \in Caller : Ended(c)
                              \/ generalCtx \notin cancelled

-----------------------------------------------------------------------------
(* What a comment says and the code does not do *)

(***************************************************************************)
(* dispatcher.go:77: the goroutines "can be stopped from the Stop method   *)
(* anytime": a Start call whose context a Stop has cancelled returns and   *)
(* its loops end.  A Start in between gives the loops its own context.     *)
(***************************************************************************)
StopEndsLoops == \A c \in Caller : c \in cancelled ~> Ended(c)
===============================================================================
