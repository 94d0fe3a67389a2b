--------------------------- MODULE PlatformMonitor ---------------------------
(***************************************************************************)
(* PlatformMonitor (backend/app/platform/monitor.py): the health checks of *)
(* the platforms, made by the monitoring loop and by clients, the alerts   *)
(* they open and resolve, and start_monitoring and stop_monitoring.        *)
(*                                                                         *)
(* A check suspends while it probes the platform and wherever it emits an  *)
(* event, whose handlers may await; two checks of one platform share its   *)
(* snapshot.  Handlers and adapters return or raise, and pass a            *)
(* cancellation on.  Where the deployer (PlatformDeployer) has the same    *)
(* name, the one here says what it is of.                                  *)
(***************************************************************************)
EXTENDS Naturals, FiniteSets

CONSTANTS
    Platforms,
    Clients,      \* coroutines that check platforms on demand
    Threshold,    \* alert_threshold_failures
    MaxStarts     \* bound: loops started

Loops == 1..MaxStarts

ASSUME MonitorConstants ==
    /\ Threshold \in Nat \ {0} /\ MaxStarts \in Nat
    /\ Clients \cap Loops = {}

Checks == (Loops \cup Clients) \X Platforms

VARIABLES
    registered,       \* the registry's _adapters
    instances,        \* and its _instances: the adapters that are loaded
    health,           \* health_snapshots: the status
    failures,         \* and its consecutive_failures, as far as Threshold
    active_alerts,    \* the keys of active_alerts
    is_monitoring,
    monitoring_task,  \* the loop started last
    loop,             \* where each loop is
    cancelled_loops,  \* loops that were told to cancel
    check,            \* where each check is
    excused,          \* history: why the alerts may not fit the last check
    overtook          \* history: whether a start came before a cancelled loop had ended

monitoring == <<is_monitoring, monitoring_task, loop, cancelled_loops, overtook>>
registry == <<registered, instances>>
monitor_vars == <<registered, instances, health, failures, active_alerts, check, excused, monitoring>>

AlertKeys == Platforms \X {"unhealthy", "degraded"}
Alive(l) == loop[l] \notin {"none", "ended"}
Checking(p) == {c \in Checks : c[2] = p /\ check[c] \in {"reporting", "resolving"}}

MonitorTypeOK ==
    /\ instances \subseteq registered /\ registered \subseteq Platforms
    /\ health \in [Platforms -> {"unknown", "healthy", "degraded", "unhealthy"}]
    /\ failures \in [Platforms -> 0..Threshold]
    /\ \A p \in Platforms : failures[p] > 0 <=> health[p] = "unhealthy"
    /\ active_alerts \subseteq AlertKeys
    /\ is_monitoring \in BOOLEAN /\ monitoring_task \in 0..MaxStarts
    /\ loop \in [Loops -> {"none", "starting", "checking", "sleeping", "ended"}]
    /\ cancelled_loops \subseteq Loops
    /\ check \in [Checks -> {"none", "created", "probing", "reporting",
                            "resolving", "alerting", "announcing"}]
    /\ excused \in [Platforms -> SUBSET {"by hand", "cut off", "overtaken"}]
    /\ overtook \in BOOLEAN

MonitorInit ==
    /\ registered = Platforms /\ instances = {}
    /\ health = [p \in Platforms |-> "unknown"]
    /\ failures = [p \in Platforms |-> 0]
    /\ active_alerts = {}
    /\ is_monitoring = FALSE /\ monitoring_task = 0
    /\ loop = [l \in Loops |-> "none"]
    /\ cancelled_loops = {}
    /\ check = [c \in Checks |-> "none"]
    /\ excused = [p \in Platforms |-> {}]
    /\ overtook = FALSE

Goes(c, place) == check' = [check EXCEPT ![c] = place]

-----------------------------------------------------------------------------
(* check_platform_health *)

Probes == {"connectivity", "capability", "performance", "limits"}

\* what each of the four probes may find
Results == {r \in [Probes -> {"pass", "warn", "fail"}] :
               r["capability"] # "warn" /\ r["performance"] # "fail"}

DeterminePlatformStatus(r) ==
    LET Count(found) == Cardinality({q \in Probes : r[q] = found})
        half == Cardinality(Probes) \div 2
    IN  CASE Count("fail") >= half                        -> "unhealthy"
          [] Count("fail") \in 1..half - 1                -> "degraded"
          [] Count("fail") = 0 /\ Count("warn") >= half   -> "degraded"
          [] OTHER                                        -> "healthy"

Found == {DeterminePlatformStatus(r) : r \in Results}

\* an error: a check that is not unhealthy leaves the count alone
CountFailuresOn(n, st) == IF st = "unhealthy" /\ n < Threshold THEN n + 1 ELSE n

CountFailures(n, st) == IF st # "unhealthy" THEN 0 ELSE IF n < Threshold THEN n + 1 ELSE n

\* _check_and_generate_alerts for platform p in status st after n failures, as
\* far as the first event; "resolving" when the degraded alert comes after it
ResolveDegraded(c, p) ==
    IF <<p, "degraded">> \in active_alerts
    THEN active_alerts' = active_alerts \ {<<p, "degraded">>} /\ Goes(c, "alerting")
    ELSE UNCHANGED active_alerts /\ Goes(c, "announcing")

OpenAlert(c, key) ==
    IF key \notin active_alerts
    THEN active_alerts' = active_alerts \cup {key} /\ Goes(c, "alerting")
    ELSE UNCHANGED active_alerts /\ Goes(c, "announcing")

\* an error: resolving one alert is taken for resolving all
CheckAndResolveOne(c, p, st, n) ==
    \/ st = "unhealthy" /\ n >= Threshold /\ OpenAlert(c, <<p, "unhealthy">>)
    \/ st = "unhealthy" /\ n < Threshold /\ UNCHANGED active_alerts /\ Goes(c, "announcing")
    \/ st = "degraded" /\ OpenAlert(c, <<p, "degraded">>)
    \/ /\ st = "healthy" /\ <<p, "unhealthy">> \in active_alerts
       /\ active_alerts' = active_alerts \ {<<p, "unhealthy">>}
       /\ Goes(c, "alerting")
    \/ st = "healthy" /\ <<p, "unhealthy">> \notin active_alerts /\ ResolveDegraded(c, p)

CheckAndGenerateAlerts(c, p, st, n) ==
    \/ st = "unhealthy" /\ n >= Threshold /\ OpenAlert(c, <<p, "unhealthy">>)
    \/ st = "unhealthy" /\ n < Threshold /\ UNCHANGED active_alerts /\ Goes(c, "announcing")
    \/ st = "degraded" /\ OpenAlert(c, <<p, "degraded">>)
    \/ /\ st = "healthy" /\ <<p, "unhealthy">> \in active_alerts
       /\ active_alerts' = active_alerts \ {<<p, "unhealthy">>}
       /\ Goes(c, "resolving")
    \/ st = "healthy" /\ <<p, "unhealthy">> \notin active_alerts /\ ResolveDegraded(c, p)

\* a check of the loop begins, or raises: get_adapter cannot load an adapter
\* from a coroutine, since load_adapter runs an event loop of its own
CheckBegins(c) ==
    /\ check[c] = "created"
    /\ Goes(c, IF c[2] \in instances THEN "probing" ELSE "none")
    /\ UNCHANGED <<registry, health, failures, active_alerts, excused, monitoring>>

\* a client's, which raises just so
ClientChecks(c) ==
    /\ c[1] \in Clients /\ c[2] \in instances
    /\ check[c] = "none"
    /\ Goes(c, "probing")
    /\ UNCHANGED <<registry, health, failures, active_alerts, excused, monitoring>>

\* an error: the alerts are looked at only when the status changes
ProbedForChange(c) ==
    /\ check[c] = "probing"
    /\ \E st \in Found :
         LET p == c[2]
         IN  /\ health' = [health EXCEPT ![p] = st]
             /\ failures' = [failures EXCEPT ![p] = CountFailures(@, st)]
             /\ excused' = [excused EXCEPT ![p] = {}]
             /\ Goes(c, IF st # health[p] THEN "reporting" ELSE "announcing")
    /\ UNCHANGED <<registry, active_alerts, monitoring>>

\* the probes are through: the snapshot is updated, and status_change emitted
Probed(c) ==
    /\ check[c] = "probing"
    /\ \E st \in Found :
         LET p == c[2]
             n == CountFailures(failures[p], st)
         IN  /\ health' = [health EXCEPT ![p] = st]
             /\ failures' = [failures EXCEPT ![p] = n]
             /\ excused' = [excused EXCEPT ![p] = {}]
             /\ IF st # health[p]
                THEN Goes(c, "reporting") /\ UNCHANGED active_alerts
                ELSE CheckAndGenerateAlerts(c, p, st, n)
    /\ UNCHANGED <<registry, monitoring>>

\* the handlers of status_change are through; the alerts go by what the
\* snapshot says by now
StatusReported(c) ==
    /\ check[c] = "reporting"
    /\ CheckAndGenerateAlerts(c, c[2], health[c[2]], failures[c[2]])
    /\ UNCHANGED <<registry, health, failures, excused, monitoring>>

\* the handlers of the unhealthy alert's alert_resolved are through; the
\* degraded alert goes too, whatever the snapshot says by now
Resolved(c) ==
    LET p == c[2]
    IN  /\ check[c] = "resolving"
        /\ ResolveDegraded(c, p)
        /\ excused' = IF health[p] = "healthy" \/ <<p, "degraded">> \notin active_alerts
                      THEN excused
                      ELSE [excused EXCEPT ![p] = @ \cup {"overtaken"}]
        /\ UNCHANGED <<registry, health, failures, monitoring>>

\* the handlers of alert_triggered or of alert_resolved are through
Alerted(c) ==
    /\ check[c] = "alerting"
    /\ Goes(c, "announcing")
    /\ UNCHANGED <<registry, health, failures, active_alerts, excused, monitoring>>

\* and those of health_check
Announced(c) ==
    /\ check[c] = "announcing"
    /\ Goes(c, "none")
    /\ UNCHANGED <<registry, health, failures, active_alerts, excused, monitoring>>

CheckStep(c) ==
    \/ CheckBegins(c) \/ Probed(c) \/ StatusReported(c)
    \/ Resolved(c) \/ Alerted(c) \/ Announced(c)

-----------------------------------------------------------------------------
(* start_monitoring, _monitoring_loop and stop_monitoring *)

\* an error: monitoring that goes on is started again
StartAnother ==
    /\ monitoring_task < MaxStarts
    /\ is_monitoring' = TRUE
    /\ monitoring_task' = monitoring_task + 1
    /\ loop' = [loop EXCEPT ![monitoring_task + 1] = "starting"]
    /\ overtook' = (overtook \/ \E l \in cancelled_loops : Alive(l))
    /\ UNCHANGED <<registry, health, failures, active_alerts, check, excused, cancelled_loops>>

StartMonitoring ==
    /\ ~is_monitoring
    /\ monitoring_task < MaxStarts
    /\ is_monitoring' = TRUE
    /\ monitoring_task' = monitoring_task + 1
    /\ loop' = [loop EXCEPT ![monitoring_task + 1] = "starting"]
    /\ overtook' = (overtook \/ \E l \in cancelled_loops : Alive(l))
    /\ UNCHANGED <<registry, health, failures, active_alerts, check, excused, cancelled_loops>>

\* the loop tests is_monitoring and checks all platforms at once, or ends
LoopTests(l) ==
    /\ loop[l] \in {"starting", "sleeping"} /\ l \notin cancelled_loops
    /\ loop' = [loop EXCEPT ![l] = IF is_monitoring THEN "checking" ELSE "ended"]
    /\ check' = [c \in Checks |-> IF c[1] = l /\ is_monitoring /\ c[2] \in registered
                                  THEN "created" ELSE check[c]]
    /\ UNCHANGED <<registry, health, failures, active_alerts, excused,
                   is_monitoring, monitoring_task, cancelled_loops, overtook>>

\* gather has all results
LoopSleeps(l) ==
    /\ loop[l] = "checking" /\ l \notin cancelled_loops
    /\ \A p \in Platforms : check[<<l, p>>] = "none"
    /\ loop' = [loop EXCEPT ![l] = "sleeping"]
    /\ UNCHANGED <<registry, health, failures, active_alerts, check, excused,
                   is_monitoring, monitoring_task, cancelled_loops, overtook>>

\* a cancelled loop ends; one that has not run yet never reaches its finally
LoopCancelled(l) ==
    /\ l \in cancelled_loops /\ Alive(l)
    /\ loop' = [loop EXCEPT ![l] = "ended"]
    /\ is_monitoring' = (is_monitoring /\ loop[l] = "starting")
    /\ UNCHANGED <<registry, health, failures, active_alerts, check, excused,
                   monitoring_task, cancelled_loops, overtook>>

\* the loop's checks, which gather cancels with it, do nothing any more
StopMonitoring ==
    LET l == monitoring_task
    IN  /\ is_monitoring
        /\ is_monitoring' = FALSE
        /\ cancelled_loops' = cancelled_loops \cup {l}
        /\ check' = [c \in Checks |-> IF c[1] = l THEN "none" ELSE check[c]]
        /\ excused' = [p \in Platforms |->
                         IF <<l, p>> \in Checking(p) THEN excused[p] \cup {"cut off"} ELSE excused[p]]
        /\ UNCHANGED <<registry, health, failures, active_alerts, monitoring_task, loop, overtook>>

LoopStep(l) == LoopTests(l) \/ LoopSleeps(l) \/ LoopCancelled(l)

-----------------------------------------------------------------------------
(* resolve_alert; the registry's operations, by other threads too *)

ResolveAlert(key) ==
    /\ key \in active_alerts
    /\ active_alerts' = active_alerts \ {key}
    /\ excused' = [excused EXCEPT ![key[1]] = @ \cup {"by hand"}]
    /\ UNCHANGED <<registry, health, failures, check, monitoring>>

\* of a platform that is registered already, too
RegisterAdapter(p) ==
    /\ registered' = registered \cup {p}
    /\ instances' = instances \ {p}

\* by a thread that runs no event loop
LoadAdapter(p) ==
    /\ p \in registered
    /\ instances' = instances \cup {p}
    /\ UNCHANGED registered

UnloadAdapter(p) ==
    /\ p \in instances
    /\ instances' = instances \ {p}
    /\ UNCHANGED registered

UnregisterAdapter(p) ==
    /\ p \in registered
    /\ registered' = registered \ {p}
    /\ instances' = instances \ {p}

RegistryStep(p) ==
    /\ RegisterAdapter(p) \/ LoadAdapter(p) \/ UnloadAdapter(p) \/ UnregisterAdapter(p)
    /\ UNCHANGED <<health, failures, active_alerts, check, excused, monitoring>>

-----------------------------------------------------------------------------

MonitorNext ==
    \/ \E c \in Checks : ClientChecks(c) \/ CheckStep(c)
    \/ StartMonitoring \/ StopMonitoring
    \/ \E l \in Loops : LoopStep(l)
    \/ \E key \in AlertKeys : ResolveAlert(key)
    \/ \E p \in Platforms : RegistryStep(p)

\* coroutines that can go on do, timers fire, adapters and handlers return
Fairness ==
    /\ \A c \in Checks : WF_monitor_vars(CheckStep(c))
    /\ \A l \in Loops : WF_monitor_vars(LoopStep(l))

MonitorSpec == MonitorInit /\ [][MonitorNext]_monitor_vars /\ Fairness

-----------------------------------------------------------------------------
(* Properties *)

\* Once the checks of a platform are through with its alerts, the alerts say
\* what its status says, however the checks overlapped: none while it is
\* healthy, the critical one after Threshold failures, the warning while it is
\* degraded.  Excused are an alert resolved by hand and a check cut off by
\* stop_monitoring since the last check, and for the warning a check that found
\* the platform healthy and finished late.
AlertsMatchStatus ==
    \A p \in Platforms :
        Checking(p) = {} /\ excused[p] \cap {"by hand", "cut off"} = {} =>
            /\ health[p] = "healthy" =>
                  active_alerts \cap {<<p, "unhealthy">>, <<p, "degraded">>} = {}
            /\ failures[p] >= Threshold => <<p, "unhealthy">> \in active_alerts
            /\ health[p] = "degraded" /\ "overtaken" \notin excused[p]
                  => <<p, "degraded">> \in active_alerts

\* Whoever reads is_monitoring is told the truth: while it is set the loop
\* started last is at work, even if loops were stopped and started in any
\* order; and unless a start overtook a stop, no other loop is.
MonitoredByOne ==
    /\ is_monitoring => Alive(monitoring_task) /\ monitoring_task \notin cancelled_loops
    /\ ~overtook => \A l \in Loops :
          Alive(l) /\ l \notin cancelled_loops => is_monitoring /\ l = monitoring_task

\* While monitoring goes on, a platform that stays unhealthy has its alert, no
\* matter how often somebody resolves it by hand, and one that stays healthy
\* loses its alerts for good, even those that a check cut off left behind.
AlertsCatchUp ==
    \A p \in Platforms :
        <>[](is_monitoring /\ p \in instances) =>
            /\ <>[](health[p] = "unhealthy") => []<>(<<p, "unhealthy">> \in active_alerts)
            /\ <>[](health[p] = "healthy") =>
                  <>[](active_alerts \cap {<<p, "unhealthy">>, <<p, "degraded">>} = {})
=============================================================================
