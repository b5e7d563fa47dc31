-------------------------- MODULE LifecycleProofs --------------------------
(***************************************************************************)
(* Proofs about the order of the shutdown, for any set of requests, with   *)
(* and without a connection to a node.                                     *)
(***************************************************************************)
EXTENDS Lifecycle, TLAPS

-----------------------------------------------------------------------------
(* The priorities of pkg/daemon/shutdown.go. *)

LEMMA WorkerSet ==
    /\ {"Prometheus", "API", "Database"} \subseteq Workers
    /\ Workers \subseteq {"Prometheus", "API", "Database", "INX", "INX-RestAPI"}
    /\ "INX" \in Workers <=> InxEnabled
    /\ "INX-RestAPI" \in Workers <=> InxEnabled
  BY LifecycleAssumption DEF Workers

LEMMA Priorities ==
    /\ \A w \in Workers : Priority(w) \in 0..TopPriority
    /\ Priority("INX") = 0 /\ Priority("Database") = 1 /\ Priority("API") = 2
    /\ Priority("INX-RestAPI") = 3 /\ Priority("Prometheus") = 4
  BY WorkerSet DEF Priority, TopPriority

-----------------------------------------------------------------------------
(* Types. *)

LEMMA InitType == Init => TypeOK
<1> SUFFICES ASSUME Init PROVE TypeOK
  OBVIOUS
<1>1. level \in 0..TopPriority
  <2>1. level = TopPriority
    BY Zenon DEF Init
  <2> QED
    BY <2>1 DEF TopPriority
<1>2. connected \in BOOLEAN
  BY LifecycleAssumption, Zenon DEF Init
<1>3. /\ worker \in [Workers -> {"starting", "running", "stopping", "ended"}]
      /\ request \in [Requests -> {"none", "running", "answered", "failed"}]
  BY Zenon DEF Init
<1>4. /\ phase \in {"running", "stopping", "exited"} /\ cancelled \subseteq Workers
      /\ listening \in BOOLEAN /\ database \in BOOLEAN /\ route \in BOOLEAN
      /\ timedOut \in BOOLEAN /\ unregisterFailed \in BOOLEAN
  BY Zenon DEF Init
<1> QED
  BY <1>1, <1>2, <1>3, <1>4, Zenon DEF TypeOK

LEMMA ExitType == TypeOK /\ Exit => TypeOK'
  BY DEF TypeOK, Exit

LEMMA DaemonType == TypeOK /\ (Daemon \/ Shutdown) => TypeOK'
<1> SUFFICES ASSUME TypeOK, Daemon \/ Shutdown PROVE TypeOK'
  OBVIOUS
<1>1. CASE Shutdown
  BY <1>1 DEF TypeOK, Shutdown
<1>2. CASE CancelLevel
  BY <1>2 DEF TypeOK, CancelLevel, Level
<1>3. CASE NextLevel
  BY <1>3 DEF TypeOK, NextLevel, TopPriority
<1>4. CASE AllStopped
  BY <1>4, ExitType DEF AllStopped
<1> QED
  BY <1>1, <1>2, <1>3, <1>4 DEF Daemon

LEMMA StartsType == TypeOK /\ Starts => TypeOK'
<1> SUFFICES ASSUME TypeOK, Starts PROVE TypeOK'
  OBVIOUS
<1>1. CASE ApiListens
  BY <1>1 DEF TypeOK, ApiListens, Move, volatile
<1>2. CASE DatabaseWaits
  BY <1>2 DEF TypeOK, DatabaseWaits, Move, volatile
<1>3. CASE PrometheusStarts
  BY <1>3 DEF TypeOK, PrometheusStarts, Move, volatile
<1>4. CASE InxRuns
  BY <1>4 DEF TypeOK, InxRuns, Move, volatile
<1>5. CASE RouteRegistered
  BY <1>5 DEF TypeOK, RouteRegistered, Move, volatile
<1> QED
  BY <1>1, <1>2, <1>3, <1>4, <1>5 DEF Starts

LEMMA StopsType == TypeOK /\ (Stops \/ ApiGivesUp) => TypeOK'
<1> SUFFICES ASSUME TypeOK, Stops \/ ApiGivesUp PROVE TypeOK'
  OBVIOUS
<1>1. CASE ApiStops
  BY <1>1 DEF TypeOK, ApiStops, Move, volatile
<1>2. CASE ApiDrained
  BY <1>2 DEF TypeOK, ApiDrained, Move, volatile
<1>3. CASE DatabaseCloses
  BY <1>3 DEF TypeOK, DatabaseCloses, Move, volatile
<1>4. CASE PrometheusStops
  BY <1>4 DEF TypeOK, PrometheusStops, Move, volatile
<1>5. CASE InxStops
  BY <1>5 DEF TypeOK, InxStops, Move
<1>6. CASE Unregister
  BY <1>6 DEF TypeOK, Unregister, Move, volatile
<1>7. CASE ApiGivesUp
  BY <1>7 DEF TypeOK, ApiGivesUp, Move, volatile
<1> QED
  BY <1>1, <1>2, <1>3, <1>4, <1>5, <1>6, <1>7 DEF Stops

LEMMA FailuresType == TypeOK /\ Failures => TypeOK'
<1> SUFFICES ASSUME TypeOK, Failures PROVE TypeOK'
  OBVIOUS
<1>1. CASE NodeDrops
  BY <1>1 DEF TypeOK, NodeDrops, volatile
<1>2. CASE ApiCannotListen \/ DatabaseClosePanics \/ RegisterFails
  BY <1>2, ExitType DEF ApiCannotListen, DatabaseClosePanics, RegisterFails
<1> QED
  BY <1>1, <1>2 DEF Failures

LEMMA RequestsType ==
    ASSUME TypeOK, NEW r \in Requests, Arrive(r) \/ Respond(r)
    PROVE  TypeOK'
<1>1. CASE Arrive(r)
  BY <1>1 DEF TypeOK, Arrive, volatile
<1>2. CASE Respond(r)
  BY <1>2 DEF TypeOK, Respond, volatile
<1> QED
  BY <1>1, <1>2

LEMMA TypeStep == TypeOK /\ [Next]_vars => TypeOK'
<1> SUFFICES ASSUME TypeOK, [Next]_vars PROVE TypeOK'
  OBVIOUS
<1>1. CASE UNCHANGED vars
  BY <1>1 DEF TypeOK, vars, volatile
<1>2. CASE Next
  BY <1>2, StartsType, StopsType, DaemonType, FailuresType, RequestsType DEF Next
<1> QED
  BY <1>1, <1>2

(* TypeOK: where each worker is, and that the daemon counts down to the    *)
(* last priority and no further. *)
THEOREM TypeCorrect == Spec => []TypeOK
  BY InitType, TypeStep, PTL DEF Spec

-----------------------------------------------------------------------------
(* What a step does to the workers. *)

(* A worker that has ended stays so; the others move one at a time. *)
LEMMA EndedStays ==
    ASSUME TypeOK, Next
    PROVE  \A w \in Workers : worker[w] = "ended" => worker'[w] = "ended"
<1>1. CASE UNCHANGED worker
  BY <1>1
<1>2. CASE \E w \in Workers, to \in {"running", "stopping", "ended"} :
             worker[w] # "ended" /\ worker' = [worker EXCEPT ![w] = to]
  BY <1>2 DEF TypeOK
<1>3. CASE Starts
  <2>1. \E w \in Workers, from \in {"starting"} : Move(w, from, "running")
    BY <1>3 DEF Starts, ApiListens, DatabaseWaits, PrometheusStarts, InxRuns,
                RouteRegistered, Move
  <2> QED
    BY <2>1, <1>2 DEF Move
<1>4. CASE Stops \/ ApiGivesUp
  <2>1. \E w \in Workers, from \in {"starting", "running", "stopping"},
           to \in {"stopping", "ended"} : Move(w, from, to)
    BY <1>4 DEF Stops, ApiStops, ApiDrained, ApiGivesUp, DatabaseCloses, PrometheusStops,
                InxStops, Unregister, Move
  <2> QED
    BY <2>1, <1>2 DEF Move
<1>5. CASE Daemon \/ Shutdown \/ Failures
  BY <1>5, <1>1 DEF Daemon, CancelLevel, NextLevel, AllStopped, Exit, Shutdown, Failures,
                    ApiCannotListen, DatabaseClosePanics, RegisterFails, NodeDrops
<1>6. CASE \E r \in Requests : Arrive(r) \/ Respond(r)
  BY <1>6, <1>1 DEF Arrive, Respond
<1> QED
  BY <1>3, <1>4, <1>5, <1>6 DEF Next

(* Only the daemon cancels workers and counts down. *)
LEMMA LevelKept ==
    ASSUME Next
    PROVE  \/ CancelLevel \/ NextLevel
           \/ /\ UNCHANGED <<level, cancelled>>
              /\ phase' = phase \/ phase' \in {"stopping", "exited"}
<1>1. CASE Starts
  BY <1>1 DEF Starts, ApiListens, DatabaseWaits, PrometheusStarts, InxRuns,
              RouteRegistered, volatile
<1>2. CASE Stops \/ ApiGivesUp
  BY <1>2 DEF Stops, ApiStops, ApiDrained, ApiGivesUp, DatabaseCloses, PrometheusStops,
              InxStops, Unregister, volatile
<1>3. CASE AllStopped \/ Shutdown \/ Failures
  BY <1>3 DEF AllStopped, Exit, Shutdown, Failures, ApiCannotListen, DatabaseClosePanics,
              RegisterFails, NodeDrops, volatile
<1>4. CASE \E r \in Requests : Arrive(r) \/ Respond(r)
  BY <1>4 DEF Arrive, Respond, volatile
<1> QED
  BY <1>1, <1>2, <1>3, <1>4 DEF Next, Daemon

-----------------------------------------------------------------------------
(* The order of the daemon. *)

LEMMA OrderStep ==
    ASSUME Inv, Next
    PROVE  OrderInv'
<1>1. TypeOK /\ OrderInv
  BY DEF Inv
<1>2. \A w \in Workers : worker[w] = "ended" => worker'[w] = "ended"
  BY <1>1, EndedStays
<1>3. CASE UNCHANGED <<level, cancelled>> /\
           (phase' = phase \/ phase' \in {"stopping", "exited"})
  BY <1>1, <1>2, <1>3, Priorities DEF OrderInv
<1>4. CASE CancelLevel
  <2>1. phase' = "stopping" /\ level' = level /\ worker' = worker
    BY <1>4 DEF CancelLevel
  <2>2. cancelled' = cancelled \cup {w \in Workers : Priority(w) = level}
    BY <1>4 DEF CancelLevel, Level
  <2> QED
    BY <1>1, <2>1, <2>2, Priorities DEF OrderInv, TypeOK
<1>5. CASE NextLevel
  <2>1. phase' = "stopping" /\ level' = level - 1 /\ worker' = worker
        /\ cancelled' = cancelled
    BY <1>5 DEF NextLevel
  <2>2. \A w \in Workers : Priority(w) = level => w \in cancelled /\ worker[w] = "ended"
    BY <1>5 DEF NextLevel, Level
  <2>3. \A w \in Workers : Priority(w) \in Int
    BY Priorities
  <2>4. \A w \in cancelled : w \in Workers
    BY <1>1 DEF TypeOK
  <2>5. level \in Int
    BY <1>1 DEF TypeOK, TopPriority
  <2> QED
    BY <1>1, <2>1, <2>2, <2>3, <2>4, <2>5 DEF OrderInv
<1> QED
  BY <1>3, <1>4, <1>5, LevelKept

(* A worker that is being stopped leaves none running above it. *)
LEMMA AboveEnded ==
    ASSUME Inv, NEW w \in cancelled
    PROVE  \A v \in Workers : Priority(v) > Priority(w) => worker[v] = "ended"
<1>1. w \in Workers /\ level \in Int
  BY DEF Inv, TypeOK, TopPriority
<1>2. Priority(w) >= level
  BY DEF Inv, OrderInv
<1> QED
  BY <1>1, <1>2, Priorities DEF Inv, OrderInv

(* The stores are closed behind the API. *)
LEMMA ClosedBehindApi ==
    ASSUME Inv, Alive, ~database
    PROVE  worker["API"] = "ended"
<1>1. "Database" \in cancelled
  BY DEF Inv, DatabaseInv
<1> QED
  BY <1>1, AboveEnded, WorkerSet, Priorities

-----------------------------------------------------------------------------
(* The API, the stores and the route. *)

LEMMA ApiStep ==
    ASSUME Inv, Next
    PROVE  ApiInv' /\ NoReadAfterClose'
<1>1. TypeOK /\ ApiInv /\ NoReadAfterClose
  BY DEF Inv
<1>2. CASE Exit
  BY <1>1, <1>2 DEF Exit, ApiInv, Running, NoReadAfterClose
<1>3. CASE CancelLevel \/ NextLevel \/ Shutdown \/ NodeDrops
  BY <1>1, <1>3 DEF CancelLevel, NextLevel, Shutdown, NodeDrops, ApiInv, Running,
                    NoReadAfterClose, volatile
<1>4. CASE ApiListens
  BY <1>1, <1>4 DEF ApiListens, Move, volatile, ApiInv, Running, NoReadAfterClose, TypeOK
<1>5. CASE ApiStops
  BY <1>1, <1>5 DEF ApiStops, Move, volatile, ApiInv, Running, NoReadAfterClose, TypeOK
<1>6. CASE ApiDrained
  BY <1>1, <1>6 DEF ApiDrained, Move, volatile, ApiInv, Running, NoReadAfterClose, TypeOK
<1>7. CASE ApiGivesUp
  BY <1>1, <1>7 DEF ApiGivesUp, Move, volatile, ApiInv, Running, NoReadAfterClose, TypeOK
<1>8. CASE DatabaseWaits \/ DatabaseCloses \/ PrometheusStarts \/ PrometheusStops
             \/ InxRuns \/ InxStops \/ RouteRegistered \/ Unregister
  <2>1. worker'["API"] = worker["API"] /\ UNCHANGED <<listening, request, timedOut>>
        /\ cancelled' = cancelled
    <3>1. \E w \in Workers \ {"API"}, to \in {"running", "ended"} :
             worker' = [worker EXCEPT ![w] = to]
      BY <1>8 DEF DatabaseWaits, DatabaseCloses, PrometheusStarts, PrometheusStops,
                  InxRuns, InxStops, RouteRegistered, Unregister, Move
    <3>2. worker'["API"] = worker["API"]
      BY <1>1, <3>1, WorkerSet DEF TypeOK
    <3> QED
      BY <1>8, <3>2 DEF DatabaseWaits, DatabaseCloses, PrometheusStarts, PrometheusStops,
                        InxRuns, InxStops, RouteRegistered, Unregister, volatile
  <2> QED
    BY <1>1, <2>1 DEF ApiInv, Running, NoReadAfterClose
<1>9. ASSUME NEW r \in Requests, Arrive(r)
      PROVE  ApiInv' /\ NoReadAfterClose'
  BY <1>1, <1>9 DEF Arrive, volatile, ApiInv, Running, NoReadAfterClose, TypeOK
<1>10. ASSUME NEW r \in Requests, Respond(r)
       PROVE  ApiInv' /\ NoReadAfterClose'
  <2>1. UNCHANGED <<worker, cancelled, listening, timedOut>>
    BY <1>10 DEF Respond, volatile
  <2>2. request[r] = "running" /\ Alive
    BY <1>10 DEF Respond
  <2>3. /\ \A q \in Requests \ {r} : request'[q] = request[q]
        /\ request'[r] \in {"answered", "failed"}
        /\ request'[r] = "failed" => ~database
    BY <1>1, <1>10 DEF Respond, TypeOK
  <2>4. request'[r] = "failed" => timedOut
    <3>1. ~database => worker["API"] = "ended"
      BY <2>2, ClosedBehindApi
    <3>2. Running # {}
      BY <2>2 DEF Running
    <3> QED
      BY <1>1, <2>3, <3>1, <3>2 DEF ApiInv
  <2>5. NoReadAfterClose'
    BY <1>1, <2>1, <2>3, <2>4 DEF NoReadAfterClose
  <2>6. Running' \subseteq Running
    BY <2>2, <2>3 DEF Running
  <2> QED
    BY <1>1, <2>1, <2>5, <2>6 DEF ApiInv
<1> QED
  BY <1>2, <1>3, <1>4, <1>5, <1>6, <1>7, <1>8, <1>9, <1>10
  DEF Next, Starts, Stops, Daemon, Failures, AllStopped, ApiCannotListen,
      DatabaseClosePanics, RegisterFails

LEMMA DatabaseStep ==
    ASSUME Inv, Next
    PROVE  DatabaseInv'
<1>1. TypeOK /\ DatabaseInv
  BY DEF Inv
<1>2. CASE Exit
  BY <1>1, <1>2 DEF Exit, DatabaseInv, Alive
<1>3. CASE CancelLevel \/ NextLevel \/ Shutdown \/ NodeDrops
  BY <1>1, <1>3 DEF CancelLevel, NextLevel, Shutdown, NodeDrops, DatabaseInv, Alive, volatile
<1>4. CASE DatabaseWaits
  BY <1>1, <1>4 DEF DatabaseWaits, Move, volatile, DatabaseInv, Alive, TypeOK
<1>5. CASE DatabaseCloses
  BY <1>1, <1>5 DEF DatabaseCloses, Move, volatile, DatabaseInv, Alive, TypeOK
<1>6. CASE ApiListens \/ ApiStops \/ ApiDrained \/ ApiGivesUp \/ PrometheusStarts
             \/ PrometheusStops \/ InxRuns \/ InxStops \/ RouteRegistered \/ Unregister
  <2>1. worker'["Database"] = worker["Database"] /\ UNCHANGED <<database, cancelled>> /\ Alive
    <3>1. Alive /\ \E w \in Workers \ {"Database"}, to \in {"running", "stopping", "ended"} :
             worker' = [worker EXCEPT ![w] = to]
      BY <1>6 DEF ApiListens, ApiStops, ApiDrained, ApiGivesUp, PrometheusStarts,
                  PrometheusStops, InxRuns, InxStops, RouteRegistered, Unregister, Move
    <3>2. worker'["Database"] = worker["Database"]
      BY <1>1, <3>1, WorkerSet DEF TypeOK
    <3> QED
      BY <1>6, <3>1, <3>2 DEF ApiListens, ApiStops, ApiDrained, ApiGivesUp, PrometheusStarts,
                      PrometheusStops, InxRuns, InxStops, RouteRegistered, Unregister, volatile
  <2> QED
    BY <1>1, <2>1 DEF DatabaseInv
<1>7. CASE \E r \in Requests : Arrive(r) \/ Respond(r)
  BY <1>1, <1>7 DEF Arrive, Respond, volatile, DatabaseInv, Alive
<1> QED
  BY <1>2, <1>3, <1>4, <1>5, <1>6, <1>7
  DEF Next, Starts, Stops, Daemon, Failures, AllStopped, ApiCannotListen,
      DatabaseClosePanics, RegisterFails

LEMMA RouteStep ==
    ASSUME Inv, Next
    PROVE  RouteInv'
<1>1. TypeOK /\ RouteInv
  BY DEF Inv
<1>2. CASE Exit \/ CancelLevel \/ NextLevel \/ Shutdown
  BY <1>1, <1>2 DEF Exit, CancelLevel, NextLevel, Shutdown, RouteInv
<1>3. CASE NodeDrops
  BY <1>3 DEF NodeDrops, RouteInv
<1>4. CASE RouteRegistered
  BY <1>1, <1>4 DEF RouteRegistered, Move, volatile, RouteInv, TypeOK
<1>5. CASE Unregister
  BY <1>1, <1>5 DEF Unregister, Move, volatile, RouteInv, TypeOK
<1>6. CASE ApiListens \/ ApiStops \/ ApiDrained \/ ApiGivesUp \/ PrometheusStarts
             \/ PrometheusStops \/ InxRuns \/ InxStops \/ DatabaseWaits \/ DatabaseCloses
  <2>1. /\ "INX-RestAPI" \in Workers => worker'["INX-RestAPI"] = worker["INX-RestAPI"]
        /\ UNCHANGED <<route, unregisterFailed>>
    <3>1. \E w \in Workers \ {"INX-RestAPI"}, to \in {"running", "stopping", "ended"} :
             worker' = [worker EXCEPT ![w] = to]
      BY <1>6 DEF ApiListens, ApiStops, ApiDrained, ApiGivesUp, PrometheusStarts,
                  PrometheusStops, InxRuns, InxStops, DatabaseWaits, DatabaseCloses, Move
    <3>2. "INX-RestAPI" \in Workers => worker'["INX-RestAPI"] = worker["INX-RestAPI"]
      BY <1>1, <3>1 DEF TypeOK
    <3> QED
      BY <1>6, <3>2 DEF ApiListens, ApiStops, ApiDrained, ApiGivesUp, PrometheusStarts,
                      PrometheusStops, InxRuns, InxStops, DatabaseWaits, DatabaseCloses, volatile
  <2> QED
    BY <1>1, <2>1 DEF RouteInv
<1>7. CASE \E r \in Requests : Arrive(r) \/ Respond(r)
  <2>1. UNCHANGED <<worker, route, unregisterFailed>>
    BY <1>7 DEF Arrive, Respond
  <2> QED
    BY <1>1, <2>1 DEF RouteInv
<1> QED
  BY <1>2, <1>3, <1>4, <1>5, <1>6, <1>7
  DEF Next, Starts, Stops, Daemon, Failures, AllStopped, ApiCannotListen,
      DatabaseClosePanics, RegisterFails

-----------------------------------------------------------------------------
(* The invariant. *)

LEMMA InitInv == Init => Inv
<1> SUFFICES ASSUME Init PROVE Inv
  OBVIOUS
<1>1. TypeOK
  BY InitType
<1>2. /\ phase = "running" /\ level = TopPriority /\ cancelled = {}
      /\ \A w \in Workers : worker[w] = "starting"
      /\ \A r \in Requests : request[r] = "none"
  BY Zenon DEF Init
<1>3. ~listening /\ database /\ ~route
  BY Zenon DEF Init
<1>4. OrderInv
  BY <1>2, Priorities DEF OrderInv, TopPriority
<1>5. ApiInv /\ DatabaseInv /\ RouteInv /\ NoReadAfterClose
  BY <1>2, <1>3, WorkerSet DEF ApiInv, DatabaseInv, RouteInv, NoReadAfterClose
<1> QED
  BY <1>1, <1>4, <1>5 DEF Inv

LEMMA InvStep == Inv /\ [Next]_vars => Inv'
<1> SUFFICES ASSUME Inv, [Next]_vars PROVE Inv'
  OBVIOUS
<1>1. CASE UNCHANGED vars
  BY <1>1 DEF Inv, TypeOK, OrderInv, ApiInv, Running, DatabaseInv, Alive, RouteInv,
              NoReadAfterClose, vars, volatile
<1>2. CASE Next
  BY <1>2, TypeStep, OrderStep, ApiStep, DatabaseStep, RouteStep DEF Inv
<1> QED
  BY <1>1, <1>2

(* The inductive invariant: the level of the daemon tells which workers    *)
(* are cancelled and which have ended.                                     *)
THEOREM Invariance == Spec => []Inv
  BY InitInv, InvStep, PTL DEF Spec

(* NoReadAfterClose: whatever the requests do, one that meets a closed     *)
(* store was still running when the API gave up waiting.                   *)
THEOREM NoneReadsAfterClose == Spec => []NoReadAfterClose
<1>1. Inv => NoReadAfterClose
  BY DEF Inv
<1> QED
  BY <1>1, Invariance, PTL

(* RouteGoesFirst: when the API closes its listener, the worker of the     *)
(* route has ended.                                                        *)
THEOREM RouteIsGoneFirst == Spec => []RouteGoesFirst
<1>1. Inv => RouteGoesFirst
  <2> SUFFICES ASSUME Inv, worker["API"] \in {"stopping", "ended"}
               PROVE  ~route \/ unregisterFailed
    BY DEF RouteGoesFirst
  <2>1. "API" \in cancelled
    BY DEF Inv, ApiInv
  <2>2. "INX-RestAPI" \in Workers => worker["INX-RestAPI"] = "ended"
    BY <2>1, AboveEnded, Priorities
  <2> QED
    BY <2>2 DEF Inv, RouteInv
<1> QED
  BY <1>1, Invariance, PTL

(* ConnectionOutlivesDatabase: the step that cuts the connection is that   *)
(* of the INX worker, which the daemon cancels last.                       *)
THEOREM ConnectionGoesLast == Spec => ConnectionOutlivesDatabase
<1>1. ASSUME Inv, Next, connected, ~connected', worker' # worker
      PROVE  ~database
  <2>1. InxStops
    BY <1>1 DEF Next, Starts, Stops, Daemon, Failures, Shutdown, ApiListens, ApiStops,
         ApiDrained, ApiGivesUp, DatabaseWaits, DatabaseCloses, PrometheusStarts,
         PrometheusStops, InxRuns, RouteRegistered, Unregister, CancelLevel, NextLevel,
         AllStopped, ApiCannotListen, DatabaseClosePanics, RegisterFails, NodeDrops, Exit,
         Arrive, Respond
  <2>2. "INX" \in cancelled
    BY <2>1, <1>1 DEF InxStops
  <2>3. worker["Database"] = "ended"
    BY <1>1, <2>2, AboveEnded, WorkerSet, Priorities
  <2> QED
    BY <1>1, <2>3 DEF Inv, DatabaseInv
<1>2. Inv /\ [Next]_vars =>
        [(phase = "stopping" /\ connected /\ ~connected' /\ worker' # worker)
            => ~database]_vars
  BY <1>1
<1> QED
  BY <1>2, Invariance, PTL DEF Spec, ConnectionOutlivesDatabase
=============================================================================
