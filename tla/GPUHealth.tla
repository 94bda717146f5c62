------------------------------ MODULE GPUHealth ------------------------------
(***************************************************************************)
(* Health of the GPU of a node (internal/gpudriver).  A watchdog container *)
(* probes the GPU and renames a report into place; the agent's monitor     *)
(* reads it every second; the device plugin stream (ListAndWatch, and      *)
(* WatchHealthStatus in DRA mode) and the taint of the ResourceSlice       *)
(* follow the monitor, and an allocation asks it.  Time passes in seconds. *)
(***************************************************************************)
EXTENDS Naturals

CONSTANTS
  MonitorMayStall,  \* whether the monitor may miss its ticks
  MaxRestarts,      \* bound on restarts of containers, Pods and the VM
  MaxFaults         \* bound on failing publications

ASSUME HealthAssumption ==
  MonitorMayStall \in BOOLEAN /\ MaxRestarts \in Nat /\ MaxFaults \in Nat

\* Faulty variant: a probe may take as long as a report lives.
probeTimeout_long == 18

healthMaxAge == 20
probeInterval == 5
probeTimeout == 8
waitDelay == 1
streamTick == 5

MaxSince == healthMaxAge + streamTick + 2   \* ages beyond this are not told apart

Older(age) == IF age < MaxSince THEN age + 1 ELSE age

Age == 0 .. MaxSince

VARIABLES
  gpu,         \* whether the GPU answers a probe
  wd,          \* the watchdog: its step and the seconds it has been there
  report,      \* the file: whether it is of this Pod and boot, its verdict and age
  up,          \* whether the agent runs
  mon,         \* the monitor's state: verdict and age of the report it is from
  monDue,      \* whether the monitor's tick is due
  stream,      \* the stream: its step, what it sends, seconds it has waited, and
               \* whether the channel it holds is closed
  sent,        \* the kubelet's view of the device
  tainted,     \* the taint of the published ResourceSlice
  previous,    \* the verdict the publishing loop published last
  pubDue,      \* whether the publishing loop's tick is due
  allocated,   \* whether a container holds the device
  since,       \* ghost: seconds since a probe of this Pod and boot succeeded
  steady,      \* ghost: whether no probe failed and nothing restarted since a probe
               \* succeeded ("probed") that the monitor has seen ("yes")
  restarts, faults

agent == <<up, mon, monDue, stream, sent>>
slice == <<tainted, previous, pubDue>>
bounds == <<restarts, faults>>
vars == <<gpu, wd, report, agent, slice, allocated, since, steady, bounds>>

TypeOK ==
  /\ gpu \in BOOLEAN
  /\ wd \in [at : {"probe", "sleep", "down"}, t : 0 .. probeTimeout + waitDelay]
  /\ report \in [match : BOOLEAN, healthy : BOOLEAN, age : Age]
  /\ up \in BOOLEAN /\ monDue \in BOOLEAN
  /\ mon \in [healthy : BOOLEAN, age : Age]
  /\ stream \in [at : {"snapshot", "send", "wait"}, healthy : BOOLEAN, t : 0 .. streamTick, closed : BOOLEAN]
  /\ sent \in BOOLEAN /\ tainted \in BOOLEAN /\ previous \in BOOLEAN /\ pubDue \in BOOLEAN
  /\ allocated \in BOOLEAN /\ steady \in {"no", "probed", "yes"}
  /\ since \in Age
  /\ restarts \in 0 .. MaxRestarts /\ faults \in 0 .. MaxFaults

-----------------------------------------------------------------------------
(* The watchdog.                                                           *)

\* One probe ends: it succeeds within its time, or it fails, at the latest when the
\* command is killed and its output is given up.  The report is renamed into place.
ProbeEnds(ok) ==
  /\ wd.at = "probe"
  /\ ok = (gpu /\ wd.t <= probeTimeout)
  /\ wd' = [at |-> "sleep", t |-> 0]
  /\ report' = [match |-> TRUE, healthy |-> ok, age |-> 0]
  /\ since' = IF ok THEN 0 ELSE since
  /\ steady' = IF ~ok THEN "no" ELSE IF steady = "no" THEN "probed" ELSE steady
  /\ UNCHANGED <<gpu, agent, slice, allocated, bounds>>

ProbeBegins ==
  /\ wd.at = "sleep" /\ wd.t = probeInterval
  /\ wd' = [at |-> "probe", t |-> 0]
  /\ UNCHANGED <<gpu, report, agent, slice, allocated, since, steady, bounds>>

\* The report cannot be published, or the container is killed; kubelet restarts it.
WatchdogDies ==
  /\ wd.at # "down" /\ restarts < MaxRestarts
  /\ wd' = [at |-> "down", t |-> 0] /\ restarts' = restarts + 1
  /\ steady' = "no"
  /\ UNCHANGED <<gpu, report, agent, slice, allocated, since, faults>>

WatchdogStarts ==
  /\ wd.at = "down"
  /\ wd' = [at |-> "probe", t |-> 0]
  /\ UNCHANGED <<gpu, report, agent, slice, allocated, since, steady, bounds>>

-----------------------------------------------------------------------------
(* The monitor.                                                            *)

\* Faulty variant: a report counts whoever wrote it.
readHealthReport_any ==
  IF report.age <= healthMaxAge
  THEN [healthy |-> report.healthy, age |-> report.age] ELSE [healthy |-> FALSE, age |-> MaxSince]

\* A report of another Pod or boot, or an old one, is an error and so unhealthy.
readHealthReport ==
  IF report.match /\ report.age <= healthMaxAge
  THEN [healthy |-> report.healthy, age |-> report.age] ELSE [healthy |-> FALSE, age |-> MaxSince]

refresh ==
  /\ up /\ monDue
  /\ monDue' = FALSE
  /\ mon' = readHealthReport
  /\ stream' = IF mon' # mon THEN [stream EXCEPT !.closed = TRUE] ELSE stream
  /\ steady' = IF steady = "probed" THEN "yes" ELSE steady
  /\ UNCHANGED <<gpu, wd, report, up, sent, slice, allocated, since, bounds>>

\* The verdict, which expires with its report even when the monitor stalls.
snapshot == mon.healthy /\ mon.age <= healthMaxAge

requireHealthy == snapshot

\* The slice's device carries the taint unless the verdict is healthy.
applyResourceHealth(healthy) == ~healthy

-----------------------------------------------------------------------------
(* The stream, the slice, allocations.                                     *)

\* The verdict and the channel are taken under one lock.
StreamSnapshot ==
  /\ up /\ stream.at = "snapshot"
  /\ stream' = [at |-> "send", healthy |-> snapshot, t |-> 0, closed |-> FALSE]
  /\ UNCHANGED <<gpu, wd, report, up, mon, monDue, sent, slice, allocated, since, steady, bounds>>

\* Faulty variant: the channel is taken after the message was sent.
StreamSend_newChannel ==
  /\ up /\ stream.at = "send"
  /\ sent' = stream.healthy
  /\ stream' = [stream EXCEPT !.at = "wait", !.closed = FALSE]
  /\ UNCHANGED <<gpu, wd, report, up, mon, monDue, slice, allocated, since, steady, bounds>>

StreamSend ==
  /\ up /\ stream.at = "send"
  /\ sent' = stream.healthy
  /\ stream' = [stream EXCEPT !.at = "wait"]
  /\ UNCHANGED <<gpu, wd, report, up, mon, monDue, slice, allocated, since, steady, bounds>>

StreamWakes ==
  /\ up /\ stream.at = "wait"
  /\ stream.closed \/ stream.t = streamTick
  /\ stream' = [stream EXCEPT !.at = "snapshot", !.t = 0]
  /\ UNCHANGED <<gpu, wd, report, up, mon, monDue, sent, slice, allocated, since, steady, bounds>>

\* Faulty variant: a publication counts as done when it failed.
PublishTick_forgets ==
  /\ up /\ pubDue /\ pubDue' = FALSE
  /\ \/ previous = snapshot /\ UNCHANGED <<tainted, previous, faults>>
     \/ /\ previous # snapshot
        /\ \/ tainted' = applyResourceHealth(snapshot) /\ UNCHANGED faults
           \/ faults < MaxFaults /\ faults' = faults + 1 /\ UNCHANGED tainted
        /\ previous' = snapshot
  /\ UNCHANGED <<gpu, wd, report, agent, allocated, since, steady, restarts>>

\* The publishing loop's tick: a changed verdict is published, and tried again at
\* the next tick when that fails.
PublishTick ==
  /\ up /\ pubDue /\ pubDue' = FALSE
  /\ \/ previous = snapshot /\ UNCHANGED <<tainted, previous, faults>>
     \/ /\ previous # snapshot
        /\ tainted' = applyResourceHealth(snapshot) /\ previous' = snapshot /\ UNCHANGED faults
     \/ /\ previous # snapshot
        /\ faults < MaxFaults /\ faults' = faults + 1 /\ UNCHANGED <<tainted, previous>>
  /\ UNCHANGED <<gpu, wd, report, agent, allocated, since, steady, restarts>>

\* The device plugin's grant.
Allocate ==
  /\ up /\ ~allocated /\ requireHealthy
  /\ allocated' = TRUE
  /\ UNCHANGED <<gpu, wd, report, agent, slice, since, steady, bounds>>

\* The DRA driver's: every claim of the request is refused without a fresh verdict.
PrepareResourceClaims ==
  /\ up /\ ~allocated /\ requireHealthy
  /\ allocated' = TRUE
  /\ UNCHANGED <<gpu, wd, report, agent, slice, since, steady, bounds>>

Release ==
  /\ allocated /\ allocated' = FALSE
  /\ UNCHANGED <<gpu, wd, report, agent, slice, since, steady, bounds>>

-----------------------------------------------------------------------------
(* Restarts and time.                                                      *)

\* The agent ends: its stream breaks, and kubelet takes the device for unhealthy.
AgentDies ==
  /\ up /\ restarts < MaxRestarts
  /\ up' = FALSE /\ restarts' = restarts + 1
  /\ mon' = [healthy |-> FALSE, age |-> MaxSince] /\ monDue' = FALSE
  /\ stream' = [at |-> "snapshot", healthy |-> FALSE, t |-> 0, closed |-> FALSE]
  /\ sent' = FALSE /\ pubDue' = FALSE /\ steady' = "no"
  /\ UNCHANGED <<gpu, wd, report, tainted, previous, allocated, since, faults>>

\* run: a monitor without a verdict, and the device published with the taint.
AgentStarts ==
  /\ ~up
  /\ \/ /\ up' = TRUE /\ monDue' = TRUE /\ pubDue' = TRUE
        /\ tainted' = TRUE /\ previous' = FALSE
        /\ UNCHANGED faults
     \/ faults < MaxFaults /\ faults' = faults + 1 /\ UNCHANGED <<up, monDue, slice>>
  /\ UNCHANGED <<gpu, wd, report, mon, stream, sent, allocated, since, steady, restarts>>

\* The Pod is replaced or the VM boots anew: the report left behind is not ours.
PodReplaced ==
  /\ restarts < MaxRestarts /\ restarts' = restarts + 1
  /\ wd' = [at |-> "down", t |-> 0]
  /\ report' = [report EXCEPT !.match = FALSE]
  /\ up' = FALSE
  /\ mon' = [healthy |-> FALSE, age |-> MaxSince] /\ monDue' = FALSE
  /\ stream' = [at |-> "snapshot", healthy |-> FALSE, t |-> 0, closed |-> FALSE]
  /\ sent' = FALSE /\ pubDue' = FALSE /\ allocated' = FALSE
  /\ since' = MaxSince /\ steady' = "no"
  /\ UNCHANGED <<gpu, tainted, previous, faults>>

GPUChanges ==
  /\ gpu' = ~gpu
  /\ UNCHANGED <<wd, report, agent, slice, allocated, since, steady, bounds>>

\* A second passes once everything that is due in it was done.
Tick ==
  /\ wd.at = "probe" => wd.t < IF gpu THEN probeTimeout ELSE probeTimeout + waitDelay
  /\ wd.at = "sleep" => wd.t < probeInterval
  /\ wd.at # "down"
  /\ up => /\ stream.at = "wait" /\ ~stream.closed /\ stream.t < streamTick
           /\ ~pubDue
           /\ ~monDue \/ MonitorMayStall
  /\ wd' = [wd EXCEPT !.t = @ + 1]
  /\ report' = [report EXCEPT !.age = Older(@)]
  /\ mon' = [mon EXCEPT !.age = Older(@)]
  /\ stream' = IF up THEN [stream EXCEPT !.t = @ + 1] ELSE stream
  /\ monDue' = up /\ pubDue' = up
  /\ since' = Older(since)
  /\ UNCHANGED <<gpu, up, sent, tainted, previous, allocated, steady, bounds>>

Init ==
  /\ gpu \in BOOLEAN
  /\ wd = [at |-> "probe", t |-> 0]
  /\ report = [match |-> FALSE, healthy |-> FALSE, age |-> MaxSince]
  /\ up = FALSE /\ mon = [healthy |-> FALSE, age |-> MaxSince] /\ monDue = FALSE
  /\ stream = [at |-> "snapshot", healthy |-> FALSE, t |-> 0, closed |-> FALSE]
  /\ sent = FALSE
  /\ tainted = TRUE /\ previous = FALSE /\ pubDue = FALSE
  /\ allocated = FALSE
  /\ since = MaxSince /\ steady = "no"
  /\ restarts = 0 /\ faults = 0

Steps ==
  \/ (\E ok \in BOOLEAN : ProbeEnds(ok)) \/ ProbeBegins \/ WatchdogStarts
  \/ refresh \/ StreamSnapshot \/ StreamSend \/ StreamWakes \/ PublishTick
  \/ AgentStarts

Next ==
  \/ Steps \/ Tick
  \/ WatchdogDies \/ AgentDies \/ PodReplaced \/ GPUChanges
  \/ Allocate \/ PrepareResourceClaims \/ Release

Spec == Init /\ [][Next]_vars

\* The containers' loops go on and time passes; restarts and failing publications
\* end.
FairSpec ==
  /\ Spec
  /\ WF_vars(\E ok \in BOOLEAN : ProbeEnds(ok)) /\ WF_vars(ProbeBegins) /\ WF_vars(WatchdogStarts)
  /\ WF_vars(refresh) /\ WF_vars(PublishTick) /\ WF_vars(AgentStarts)
  /\ WF_vars(StreamSnapshot) /\ WF_vars(StreamSend) /\ WF_vars(StreamWakes)
  /\ WF_vars(Tick)

-----------------------------------------------------------------------------
(* Properties.                                                             *)

\* Nobody is told that the GPU is healthy later than healthMaxAge after a probe of
\* this Pod and boot succeeded (snapshot: "A stalled monitor must never extend the
\* lease of a previous good probe").
LeaseNotExtended == snapshot => since <= healthMaxAge

\* A device is handed out only on such a verdict.
GrantsAreFresh == [][~allocated /\ allocated' => since <= healthMaxAge]_vars

\* The kubelet takes the device for healthy at most one stream tick longer.
StreamInTime == sent => since <= healthMaxAge + streamTick

\* A stream that waits has sent the monitor's state, or that state has expired since:
\* no change falls between the snapshot and the wait.
NoLostUpdate ==
  up /\ stream.at = "wait" /\ ~stream.closed =>
    sent = mon.healthy \/ mon.age > healthMaxAge

\* Once healthy, a GPU stays so as long as no probe fails and nothing restarts: a
\* report outlives the slowest probe after it and the pause before it.
SteadyStaysHealthy == steady = "yes" => snapshot

\* The taint of the slice follows the GPU, although publications fail.
TaintFollows ==
  /\ <>[]gpu => <>[]~tainted
  /\ <>[]~gpu => <>[]tainted

=============================================================================
