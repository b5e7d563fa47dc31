----------------------------- MODULE Lifecycle -----------------------------
(***************************************************************************)
(* The workers of the running service, the requests they serve and the     *)
(* order in which they are stopped.                                        *)
(*                                                                         *)
(* The daemon (hive.go) starts every worker at once and stops them by      *)
(* priority: it cancels the contexts of the workers of the highest         *)
(* priority, waits for them to return, and goes on to the next one.        *)
(* A worker that cannot do its part may end the whole process instead.     *)
(***************************************************************************)
EXTENDS Integers, FiniteSets

CONSTANTS
    Requests,    \* handlers of API requests
    InxEnabled   \* the service is connected to a node

ASSUME LifecycleAssumption == IsFiniteSet(Requests) /\ InxEnabled \in BOOLEAN

(* pkg/daemon/shutdown.go *)
Workers == {"Prometheus", "API", "Database"}
             \cup (IF InxEnabled THEN {"INX", "INX-RestAPI"} ELSE {})
(* Mutants: the API and the route, or the database and INX, change places. *)
PriorityApiBeforeRoute(w) == CASE w = "INX" -> 0 [] w = "Database" -> 1 [] w = "API" -> 3
                               [] w = "INX-RestAPI" -> 2 [] w = "Prometheus" -> 4
PriorityInxBeforeDatabase(w) == CASE w = "INX" -> 1 [] w = "Database" -> 0 [] w = "API" -> 2
                                  [] w = "INX-RestAPI" -> 3 [] w = "Prometheus" -> 4
Priority(w) == CASE w = "INX" -> 0 [] w = "Database" -> 1 [] w = "API" -> 2
                 [] w = "INX-RestAPI" -> 3 [] w = "Prometheus" -> 4
TopPriority == 4

VARIABLES
    phase,       \* "running", "stopping", "exited"
    level,       \* priority whose workers are being stopped
    worker,      \* where each worker is
    cancelled,   \* workers whose context is done
    listening,   \* the API accepts requests
    database,    \* the stores are open
    connected,   \* the INX connection to the node
    route,       \* the node forwards requests to the API
    request,     \* the handlers
    timedOut,    \* history: the API gave up waiting for its requests
    unregisterFailed  \* history: the route could not be unregistered

volatile == <<phase, level, cancelled>>
vars == <<volatile, worker, listening, database, connected, route, request, timedOut,
          unregisterFailed>>

TypeOK ==
    /\ phase \in {"running", "stopping", "exited"}
    /\ level \in 0..TopPriority
    /\ worker \in [Workers -> {"starting", "running", "stopping", "ended"}]
    /\ cancelled \subseteq Workers
    /\ listening \in BOOLEAN /\ database \in BOOLEAN /\ connected \in BOOLEAN
    /\ route \in BOOLEAN /\ timedOut \in BOOLEAN /\ unregisterFailed \in BOOLEAN
    /\ request \in [Requests -> {"none", "running", "answered", "failed"}]

Init ==
    /\ phase = "running" /\ level = TopPriority
    /\ worker = [w \in Workers |-> "starting"]
    /\ cancelled = {}
    /\ listening = FALSE /\ database = TRUE /\ connected = InxEnabled /\ route = FALSE
    /\ request = [r \in Requests |-> "none"]
    /\ timedOut = FALSE /\ unregisterFailed = FALSE

Alive == phase # "exited"
Move(w, from, to) ==
    /\ Alive /\ w \in Workers /\ worker[w] = from
    /\ worker' = [worker EXCEPT ![w] = to]

(* LogErrorfAndExit, a panic of a worker, or the end of the application:   *)
(* nothing runs any more, nothing is open.                                 *)
Exit ==
    /\ phase' = "exited"
    /\ listening' = FALSE /\ database' = FALSE /\ connected' = FALSE
    /\ UNCHANGED <<level, cancelled, worker, route, request, timedOut, unregisterFailed>>

-----------------------------------------------------------------------------
(* The daemon. *)

Shutdown ==
    /\ phase = "running" /\ phase' = "stopping"
    /\ UNCHANGED <<level, cancelled, worker, listening, database, connected, route,
                   request, timedOut, unregisterFailed>>

Level(l) == {w \in Workers : Priority(w) = l}

CancelLevel ==
    /\ phase = "stopping"
    /\ ~(Level(level) \subseteq cancelled)
    /\ cancelled' = cancelled \cup Level(level)
    /\ UNCHANGED <<phase, level, worker, listening, database, connected, route, request,
                   timedOut, unregisterFailed>>

(* Mutant: the last level is counted down as well. *)
NextLevelBelowLast ==
    /\ phase = "stopping"
    /\ \A w \in Level(level) : w \in cancelled /\ worker[w] = "ended"
    /\ level' = level - 1
    /\ UNCHANGED <<phase, cancelled, worker, listening, database, connected, route,
                   request, timedOut, unregisterFailed>>

NextLevel ==
    /\ phase = "stopping" /\ level > 0
    /\ \A w \in Level(level) : w \in cancelled /\ worker[w] = "ended"
    /\ level' = level - 1
    /\ UNCHANGED <<phase, cancelled, worker, listening, database, connected, route,
                   request, timedOut, unregisterFailed>>

AllStopped ==
    /\ phase = "stopping" /\ level = 0
    /\ \A w \in Workers : worker[w] = "ended"
    /\ Exit

-----------------------------------------------------------------------------
(* API worker (components/coreapi) and its requests. *)

(* The server listens from a goroutine of its own, unless it was shut down *)
(* before; when the address cannot be bound the process exits. *)
ApiListens ==
    /\ Move("API", "starting", "running")
    /\ listening' = TRUE
    /\ UNCHANGED <<volatile, database, connected, route, request, timedOut, unregisterFailed>>

ApiCannotListen == Alive /\ worker["API"] = "starting" /\ Exit

(* Echo.Shutdown closes the listener and waits for the running requests,   *)
(* five seconds at most. *)
ApiStops ==
    /\ "API" \in cancelled
    /\ Move("API", worker["API"], "stopping") /\ worker["API"] \in {"starting", "running"}
    /\ listening' = FALSE
    /\ UNCHANGED <<volatile, database, connected, route, request, timedOut, unregisterFailed>>

Running == {r \in Requests : request[r] = "running"}

(* Mutant: the worker returns without waiting for the requests. *)
ApiEndsAtOnce ==
    /\ Move("API", "stopping", "ended")
    /\ UNCHANGED <<volatile, listening, database, connected, route, request, timedOut,
                   unregisterFailed>>

ApiDrained ==
    /\ Running = {}
    /\ Move("API", "stopping", "ended")
    /\ UNCHANGED <<volatile, listening, database, connected, route, request, timedOut,
                   unregisterFailed>>

(* Mutant: the shutdown of the API has no timeout. *)
ApiWaitsForever ==
    /\ Running # {}
    /\ Move("API", "stopping", "stopping")
    /\ timedOut' = TRUE
    /\ UNCHANGED <<volatile, listening, database, connected, route, request, unregisterFailed>>

ApiGivesUp ==
    /\ Running # {}
    /\ Move("API", "stopping", "ended")
    /\ timedOut' = TRUE
    /\ UNCHANGED <<volatile, listening, database, connected, route, request, unregisterFailed>>

Arrive(r) ==
    /\ Alive /\ listening /\ request[r] \in {"none", "answered"}
    /\ request' = [request EXCEPT ![r] = "running"]
    /\ UNCHANGED <<volatile, worker, listening, database, connected, route, timedOut,
                   unregisterFailed>>

(* A handler reads the stores until it answers; it never looks at the      *)
(* context of the request.  Reading a closed store fails. *)
Respond(r) ==
    /\ Alive /\ request[r] = "running"
    /\ request' = [request EXCEPT ![r] = IF database THEN "answered" ELSE "failed"]
    /\ UNCHANGED <<volatile, worker, listening, database, connected, route, timedOut,
                   unregisterFailed>>

-----------------------------------------------------------------------------
(* Database worker (components/database). *)

DatabaseWaits ==
    /\ Move("Database", "starting", "running")
    /\ UNCHANGED <<volatile, listening, database, connected, route, request, timedOut,
                   unregisterFailed>>

DatabaseCloses ==
    /\ "Database" \in cancelled
    /\ Move("Database", "running", "ended")
    /\ database' = FALSE
    /\ UNCHANGED <<volatile, listening, connected, route, request, timedOut, unregisterFailed>>

DatabaseClosePanics ==
    Alive /\ "Database" \in cancelled /\ worker["Database"] = "running" /\ Exit

(* Prometheus worker: its server waits for no request of the API. *)
PrometheusStarts ==
    /\ Move("Prometheus", "starting", "running")
    /\ UNCHANGED <<volatile, listening, database, connected, route, request, timedOut,
                   unregisterFailed>>

PrometheusStops ==
    /\ "Prometheus" \in cancelled
    /\ Move("Prometheus", "running", "ended")
    /\ UNCHANGED <<volatile, listening, database, connected, route, request, timedOut,
                   unregisterFailed>>

-----------------------------------------------------------------------------
(* INX workers (components/inx). *)

InxRuns ==
    /\ Move("INX", "starting", "running")
    /\ UNCHANGED <<volatile, listening, database, connected, route, request, timedOut,
                   unregisterFailed>>

(* The node goes away, and with it its routes. *)
NodeDrops ==
    /\ Alive /\ connected
    /\ connected' = FALSE /\ route' = FALSE
    /\ UNCHANGED <<volatile, worker, listening, database, request, timedOut, unregisterFailed>>

(* NodeBridge.Run returns: after a cancel, or because the node is gone;    *)
(* then the service shuts itself down. *)
InxStops ==
    /\ Move("INX", "running", "ended")
    /\ \/ "INX" \in cancelled /\ UNCHANGED phase
       \/ "INX" \notin cancelled /\ ~connected
          /\ phase' = IF phase = "running" THEN "stopping" ELSE phase
    /\ connected' = FALSE
    /\ UNCHANGED <<level, cancelled, listening, database, route, request, timedOut,
                   unregisterFailed>>

RouteRegistered ==
    /\ connected
    /\ "INX-RestAPI" \notin cancelled
    /\ Move("INX-RestAPI", "starting", "running")
    /\ route' = TRUE
    /\ UNCHANGED <<volatile, listening, database, connected, request, timedOut,
                   unregisterFailed>>

(* The node does not answer in five seconds or is gone, or the context of  *)
(* the worker is cancelled meanwhile: the process exits at once. *)
RegisterFails ==
    /\ Alive /\ InxEnabled /\ worker["INX-RestAPI"] = "starting"
    /\ Exit

Unregister ==
    /\ "INX-RestAPI" \in cancelled
    /\ Move("INX-RestAPI", "running", "ended")
    /\ \/ connected /\ route' = FALSE /\ UNCHANGED unregisterFailed
       \/ unregisterFailed' = TRUE /\ UNCHANGED route
    /\ UNCHANGED <<volatile, listening, database, connected, request, timedOut>>

-----------------------------------------------------------------------------
Starts == ApiListens \/ DatabaseWaits \/ PrometheusStarts \/ InxRuns \/ RouteRegistered
Stops == ApiStops \/ ApiDrained \/ DatabaseCloses \/ PrometheusStops \/ InxStops \/ Unregister
Daemon == CancelLevel \/ NextLevel \/ AllStopped
Failures == ApiCannotListen \/ DatabaseClosePanics \/ RegisterFails \/ NodeDrops

Next ==
    \/ Starts \/ Stops \/ Daemon \/ Failures
    \/ Shutdown \/ ApiGivesUp
    \/ \E r \in Requests : Arrive(r) \/ Respond(r)

(* The daemon and the workers run on.  The waits for a registration and    *)
(* for running requests end by their timeouts, in one way or the other.    *)
(* Handlers need not end, and nobody need stop the service.                *)
Fairness ==
    /\ WF_vars(Daemon)
    /\ WF_vars(ApiListens \/ ApiStops) /\ WF_vars(ApiDrained \/ ApiGivesUp)
    /\ WF_vars(DatabaseWaits \/ DatabaseCloses \/ DatabaseClosePanics)
    /\ WF_vars(PrometheusStarts \/ PrometheusStops)
    /\ WF_vars(InxRuns \/ InxStops)
    /\ WF_vars(RouteRegistered \/ RegisterFails) /\ WF_vars(Unregister)

Spec == Init /\ [][Next]_vars /\ Fairness

-----------------------------------------------------------------------------
(* Properties.                                                             *)

(* A handler meets a closed store only when it was still running after the *)
(* five seconds the API waits: the priorities put the database behind the  *)
(* API (pkg/daemon/shutdown.go).                                           *)
NoReadAfterClose == \A r \in Requests : request[r] = "failed" => timedOut

(* While the service stops, the node forwards requests to the API only as  *)
(* long as the API accepts them, or when the route could not be            *)
(* unregistered: the route goes before the listener.                       *)
RouteGoesFirst ==
    phase = "stopping" /\ worker["API"] \in {"stopping", "ended"} =>
        ~route \/ unregisterFailed

(* The connection to the node outlives everything that needs it: the       *)
(* service never cuts it itself before the databases are closed.           *)
ConnectionOutlivesDatabase ==
    [][(phase = "stopping" /\ connected /\ ~connected' /\ worker' # worker)
         => ~database]_vars

(* A service that is told to stop, or that loses its node, exits, however  *)
(* long its requests run and whatever they still do, and in whichever step *)
(* of its start it was.                                                    *)
StopsEventually == phase = "stopping" ~> phase = "exited"
-----------------------------------------------------------------------------
(* The inductive invariant. *)

(* Only workers of the current level and above it are cancelled, and those *)
(* above it have ended. *)
OrderInv ==
    /\ phase = "running" => cancelled = {} /\ level = TopPriority
    /\ \A w \in cancelled : Priority(w) >= level
    /\ \A w \in Workers : Priority(w) > level => w \in cancelled /\ worker[w] = "ended"

(* Who listens runs; requests that outlive the API were given up.          *)
ApiInv ==
    /\ worker["API"] \in {"stopping", "ended"} => "API" \in cancelled
    /\ listening => worker["API"] = "running"
    /\ worker["API"] = "ended" /\ Running # {} => timedOut

(* The stores are open exactly as long as their worker has not ended. *)
DatabaseInv ==
    /\ worker["Database"] = "ended" => "Database" \in cancelled /\ ~database
    /\ Alive /\ ~database => worker["Database"] = "ended"

RouteInv ==
    route => \/ unregisterFailed
             \/ "INX-RestAPI" \in Workers /\ worker["INX-RestAPI"] = "running"

Inv == TypeOK /\ OrderInv /\ ApiInv /\ DatabaseInv /\ RouteInv /\ NoReadAfterClose
=============================================================================
