---------------------------- MODULE GPUAgentProofs ----------------------------
(***************************************************************************)
(* What is proved of the GPU agent.  The health lease of GPUHealth and     *)
(* what its stream tells, for any number of restarts and failing           *)
(* publications and with a monitor that may stall, and that a steady GPU   *)
(* stays healthy when the monitor keeps its ticks.  And that the loop of   *)
(* DevicePluginServer registers a server once with a kubelet, for any      *)
(* number of restarts and however inode numbers are used again.            *)
(***************************************************************************)
EXTENDS GPUHealth, DevicePluginServer, TLAPS

\* A good verdict is never younger than the last good probe: in the report of this
\* Pod and boot, and in the monitor's copy of it.
Lease ==
  /\ report.match /\ report.healthy => since <= report.age
  /\ mon.healthy => since <= mon.age

\* What the stream is about to send was true in this second; what it has sent was
\* true when it began to wait; a kubelet without a stream holds nothing.
Sent ==
  /\ ~up => ~sent /\ stream.at = "snapshot"
  /\ stream.at = "send" /\ stream.healthy => since <= healthMaxAge
  /\ stream.at = "wait" /\ sent => since <= healthMaxAge + stream.t
  /\ sent => since <= healthMaxAge + streamTick

\* What a stream that has not been woken is about to send, or has sent, is the
\* monitor's verdict, unless that verdict has expired.
Told ==
  /\ up /\ stream.at = "send" /\ ~stream.closed =>
       stream.healthy = mon.healthy \/ mon.age > healthMaxAge
  /\ NoLostUpdate

\* While the GPU is steady, the report is good and no older than the pause and the
\* probe after it, and the monitor, which has read it once, is at most a second behind.
Steady ==
  /\ steady # "no" =>
       /\ wd.at # "down" /\ report.match /\ report.healthy
       /\ wd.at = "sleep" => report.age <= wd.t /\ wd.t <= probeInterval
       /\ wd.at = "probe" => report.age <= probeInterval + wd.t
  /\ steady = "yes" =>
       /\ up /\ mon.healthy
       /\ mon.age <= probeInterval + probeTimeout + waitDelay + 1
       /\ ~monDue => mon.age <= probeInterval + probeTimeout + waitDelay

\* The inductive invariant, whatever the monitor does.
IInv == TypeOK /\ Lease /\ Sent /\ Told

\* The initial state: no verdict anywhere.
LEMMA InitInv == Init => IInv
<1>. SUFFICES ASSUME Init PROVE IInv
  OBVIOUS
<1>. USE HealthAssumption
<1>1. TypeOK
  <2>1. /\ 0 \in 0 .. probeTimeout + waitDelay /\ 0 \in 0 .. streamTick /\ MaxSince \in Age
        /\ 0 \in 0 .. MaxRestarts /\ 0 \in 0 .. MaxFaults
    BY DEF Age, MaxSince, healthMaxAge, streamTick, probeTimeout, waitDelay
  <2>. QED  BY ZenonT(30), <2>1 DEF Init, TypeOK
<1>2. Lease /\ Sent
  BY DEF Init, Lease, Sent
<1>3. Told
  BY DEF Init, Told, NoLostUpdate
<1>. QED  BY <1>1, <1>2, <1>3 DEF IInv

\* Ages grow by at most one and stay in their range.
LEMMA OlderAge ==
  ASSUME NEW a \in Age
  PROVE  Older(a) \in Age /\ a <= Older(a) /\ Older(a) <= a + 1
BY DEF Older, Age, MaxSince, healthMaxAge, streamTick

\* Two ages keep their order.
LEMMA OlderMonotone ==
  ASSUME NEW a \in Age, NEW b \in Age, a <= b
  PROVE  Older(a) <= Older(b)
BY SMTT(30) DEF Older, Age, MaxSince, healthMaxAge, streamTick

\* Every action of the watchdog, the agent and the host keeps the types.
LEMMA TypeStep ==
  ASSUME TypeOK, [Next]_vars
  PROVE  TypeOK'
<1>. USE HealthAssumption DEF TypeOK, agent, slice, bounds
<1>c. /\ 0 \in 0 .. probeTimeout + waitDelay /\ 0 \in 0 .. streamTick
      /\ 0 \in Age /\ MaxSince \in Age
  BY DEF Age, MaxSince, healthMaxAge, streamTick, probeTimeout, waitDelay
<1>f. /\ faults < MaxFaults => faults + 1 \in 0 .. MaxFaults
      /\ restarts < MaxRestarts => restarts + 1 \in 0 .. MaxRestarts
  OBVIOUS
<1>1. ASSUME NEW ok \in BOOLEAN, ProbeEnds(ok) PROVE TypeOK'
  BY <1>1, <1>c DEF ProbeEnds
<1>2. ASSUME ProbeBegins PROVE TypeOK'
  BY <1>2, <1>c DEF ProbeBegins
<1>3. ASSUME WatchdogStarts PROVE TypeOK'
  BY <1>3, <1>c DEF WatchdogStarts
<1>4. ASSUME refresh PROVE TypeOK'
  <2>1. readHealthReport \in [healthy : BOOLEAN, age : Age]
    BY <1>c DEF readHealthReport
  <2>2. mon' \in [healthy : BOOLEAN, age : Age] /\ monDue' \in BOOLEAN
    BY Zenon, <1>4, <2>1 DEF refresh
  <2>3. [stream EXCEPT !.closed = TRUE] \in
          [at : {"snapshot", "send", "wait"}, healthy : BOOLEAN, t : 0 .. streamTick, closed : BOOLEAN]
    BY Zenon
  <2>4. stream' = stream \/ stream' = [stream EXCEPT !.closed = TRUE]
    BY Zenon, <1>4 DEF refresh
  <2>5. steady' \in {"no", "probed", "yes"}
    BY Zenon, <1>4 DEF refresh
  <2>6. UNCHANGED <<gpu, wd, report, up, sent, slice, allocated, since, bounds>>
    BY Zenon, <1>4 DEF refresh
  <2>7. stream' \in
          [at : {"snapshot", "send", "wait"}, healthy : BOOLEAN, t : 0 .. streamTick, closed : BOOLEAN]
    BY Zenon, <2>3, <2>4
  <2>. QED  BY <2>2, <2>5, <2>6, <2>7
<1>5. ASSUME StreamSnapshot PROVE TypeOK'
  <2>1. snapshot \in BOOLEAN
    BY DEF snapshot
  <2>. QED  BY <1>5, <2>1, <1>c DEF StreamSnapshot
<1>6. ASSUME StreamSend PROVE TypeOK'
  BY <1>6 DEF StreamSend
<1>7. ASSUME StreamWakes PROVE TypeOK'
  <2>1. [stream EXCEPT !.at = "snapshot", !.t = 0] \in
          [at : {"snapshot", "send", "wait"}, healthy : BOOLEAN, t : 0 .. streamTick, closed : BOOLEAN]
    BY ZenonT(30), <1>c
  <2>. QED  BY <1>7, <2>1 DEF StreamWakes
<1>8. ASSUME PublishTick PROVE TypeOK'
  <2>1. snapshot \in BOOLEAN
    BY DEF snapshot
  <2>2. applyResourceHealth(snapshot) \in BOOLEAN
    BY <2>1 DEF applyResourceHealth
  <2>3. tainted' \in BOOLEAN /\ previous' \in BOOLEAN /\ pubDue' \in BOOLEAN
    BY ZenonT(30), <1>8, <2>1, <2>2 DEF PublishTick
  <2>4. faults' \in 0 .. MaxFaults
    BY <1>8, <1>f DEF PublishTick
  <2>. QED  BY <1>8, <2>3, <2>4 DEF PublishTick
<1>9. ASSUME AgentStarts PROVE TypeOK'
  <2>1. up' \in BOOLEAN /\ monDue' \in BOOLEAN
    BY ZenonT(30), <1>9 DEF AgentStarts
  <2>2. tainted' \in BOOLEAN /\ previous' \in BOOLEAN /\ pubDue' \in BOOLEAN
    BY ZenonT(30), <1>9 DEF AgentStarts
  <2>3. faults' \in 0 .. MaxFaults
    BY <1>9, <1>f DEF AgentStarts
  <2>. QED  BY <1>9, <2>1, <2>2, <2>3 DEF AgentStarts
<1>10. ASSUME Tick PROVE TypeOK'
  <2>1. /\ [wd EXCEPT !.t = @ + 1] \in [at : {"probe", "sleep", "down"}, t : 0 .. probeTimeout + waitDelay]
    BY <1>10 DEF Tick, probeTimeout, waitDelay, probeInterval
  <2>2. up => [stream EXCEPT !.t = @ + 1] \in
          [at : {"snapshot", "send", "wait"}, healthy : BOOLEAN, t : 0 .. streamTick, closed : BOOLEAN]
    BY <1>10 DEF Tick, streamTick
  <2>3. Older(report.age) \in Age /\ Older(mon.age) \in Age /\ Older(since) \in Age
    BY OlderAge
  <2>. QED  BY <1>10, <2>1, <2>2, <2>3 DEF Tick
<1>11. ASSUME WatchdogDies PROVE TypeOK'
  BY <1>11, <1>c, <1>f DEF WatchdogDies
<1>12. ASSUME AgentDies PROVE TypeOK'
  BY ZenonT(30), <1>12, <1>c, <1>f DEF AgentDies
<1>13. ASSUME PodReplaced PROVE TypeOK'
  BY ZenonT(30), <1>13, <1>c, <1>f DEF PodReplaced
<1>14. ASSUME GPUChanges PROVE TypeOK'
  <2>1. gpu' \in BOOLEAN
    BY <1>14 DEF GPUChanges
  <2>. QED  BY <1>14, <2>1 DEF GPUChanges
<1>15. ASSUME Allocate \/ PrepareResourceClaims PROVE TypeOK'
  <2>1. allocated' \in BOOLEAN
    BY Zenon, <1>15 DEF Allocate, PrepareResourceClaims
  <2>2. UNCHANGED <<gpu, wd, report, agent, slice, since, steady, bounds>>
    BY Zenon, <1>15 DEF Allocate, PrepareResourceClaims
  <2>. QED  BY <2>1, <2>2
<1>16. ASSUME Release PROVE TypeOK'
  <2>1. allocated' \in BOOLEAN
    BY ZenonT(30), <1>16 DEF Release
  <2>2. UNCHANGED <<gpu, wd, report, agent, slice, since, steady, bounds>>
    BY <1>16 DEF Release
  <2>. QED  BY <2>1, <2>2
<1>17. ASSUME UNCHANGED vars PROVE TypeOK'
  <2>1. /\ UNCHANGED <<gpu, wd, report, up, mon, monDue, stream, sent>>
        /\ UNCHANGED <<tainted, previous, pubDue, allocated, since, steady, restarts, faults>>
    BY <1>17 DEF vars
  <2>. QED  BY <2>1
<1>. QED  BY <1>1, <1>2, <1>3, <1>4, <1>5, <1>6, <1>7, <1>8, <1>9, <1>10, <1>11, <1>12, <1>13, <1>14,
             <1>15, <1>16, <1>17
          DEF Next, Steps

\* A good verdict is copied with its age, ages with the ghost, and is forgotten when
\* the Pod or the boot changes.
LEMMA LeaseStep ==
  ASSUME TypeOK, Lease, [Next]_vars
  PROVE  Lease'
<1>. USE DEF Lease, agent, slice, bounds
<1>1. ASSUME NEW ok \in BOOLEAN, ProbeEnds(ok) PROVE Lease'
  BY <1>1 DEF ProbeEnds, TypeOK, Age
<1>2. ASSUME refresh PROVE Lease'
  BY <1>2 DEF refresh, readHealthReport, TypeOK
<1>3. ASSUME Tick PROVE Lease'
  <2>1. /\ report'.match = report.match /\ report'.healthy = report.healthy
        /\ report'.age = Older(report.age)
        /\ mon'.healthy = mon.healthy /\ mon'.age = Older(mon.age)
        /\ since' = Older(since)
    BY <1>3 DEF Tick, TypeOK
  <2>2. report.age \in Age /\ mon.age \in Age /\ since \in Age
    BY DEF TypeOK
  <2>. QED  BY <2>1, <2>2, OlderMonotone
<1>4. ASSUME AgentDies \/ PodReplaced PROVE Lease'
  BY <1>4 DEF AgentDies, PodReplaced, TypeOK
<1>5. ASSUME \/ ProbeBegins \/ WatchdogStarts \/ StreamSnapshot \/ StreamSend \/ StreamWakes
             \/ PublishTick \/ AgentStarts \/ WatchdogDies \/ GPUChanges \/ Allocate
             \/ PrepareResourceClaims \/ Release \/ UNCHANGED vars
      PROVE  Lease'
  BY <1>5 DEF ProbeBegins, WatchdogStarts, StreamSnapshot, StreamSend, StreamWakes, PublishTick,
       AgentStarts, WatchdogDies, GPUChanges, Allocate, PrepareResourceClaims, Release, vars
<1>. QED  BY <1>1, <1>2, <1>3, <1>4, <1>5 DEF Next, Steps

\* The monitor's verdict is within its lease.
LEMMA SnapshotFresh ==
  ASSUME TypeOK, Lease
  PROVE  LeaseNotExtended
BY DEF TypeOK, Lease, LeaseNotExtended, snapshot, Age, healthMaxAge

\* The stream sends what it was told, waits a bounded time, and breaks with the agent.
LEMMA SentStep ==
  ASSUME TypeOK, Lease, Sent, [Next]_vars
  PROVE  Sent'
<1>. USE DEF Sent, agent, slice, bounds
<1>1. ASSUME NEW ok \in BOOLEAN, ProbeEnds(ok) PROVE Sent'
  BY <1>1 DEF ProbeEnds, TypeOK, Age, healthMaxAge, streamTick
<1>2. ASSUME refresh PROVE Sent'
  BY <1>2 DEF refresh, TypeOK
<1>3. ASSUME StreamSnapshot PROVE Sent'
  BY <1>3, SnapshotFresh DEF StreamSnapshot, TypeOK, LeaseNotExtended
<1>4. ASSUME StreamSend PROVE Sent'
  BY <1>4 DEF StreamSend, TypeOK, Age, healthMaxAge, streamTick
<1>5. ASSUME StreamWakes PROVE Sent'
  BY <1>5 DEF StreamWakes, TypeOK
<1>6. ASSUME Tick PROVE Sent'
  <2>1. /\ since' = Older(since) /\ sent' = sent /\ up' = up
        /\ stream'.at = stream.at /\ stream'.healthy = stream.healthy
        /\ up => stream.at = "wait" /\ stream'.t = stream.t + 1 /\ stream.t < streamTick
    BY <1>6 DEF Tick, TypeOK
  <2>2. Older(since) <= since + 1 /\ since \in Nat /\ Older(since) \in Nat /\ stream.t \in Nat
    BY OlderAge DEF TypeOK, Age, MaxSince
  <2>. QED  BY <2>1, <2>2 DEF healthMaxAge, streamTick
<1>7. ASSUME AgentDies \/ PodReplaced PROVE Sent'
  BY <1>7 DEF AgentDies, PodReplaced
<1>8. ASSUME AgentStarts PROVE Sent'
  BY <1>8 DEF AgentStarts, TypeOK
<1>9. ASSUME \/ ProbeBegins \/ WatchdogStarts \/ PublishTick \/ WatchdogDies
             \/ GPUChanges \/ Allocate \/ PrepareResourceClaims \/ Release \/ UNCHANGED vars
      PROVE  Sent'
  BY <1>9 DEF ProbeBegins, WatchdogStarts, PublishTick, WatchdogDies, GPUChanges,
       Allocate, PrepareResourceClaims, Release, vars
<1>. QED  BY <1>1, <1>2, <1>3, <1>4, <1>5, <1>6, <1>7, <1>8, <1>9 DEF Next, Steps

\* A verdict that changes closes the channel the stream holds since its snapshot; the
\* others only age the verdict, or end the stream with the agent.
LEMMA ToldStep ==
  ASSUME TypeOK, Sent, Told, [Next]_vars
  PROVE  Told'
<1>. USE DEF Told, NoLostUpdate, agent, slice, bounds
<1>1. ASSUME refresh PROVE Told'
  <2>1. mon' = mon \/ stream'.closed
    BY <1>1 DEF refresh, TypeOK
  <2>2. CASE stream'.closed
    BY <2>2
  <2>3. CASE mon' = mon
    <3>1. stream'.at = stream.at /\ stream'.healthy = stream.healthy /\ (stream.closed => stream'.closed)
      BY <1>1 DEF refresh, TypeOK
    <3>2. sent' = sent /\ up' = up
      BY <1>1 DEF refresh
    <3>. QED  BY <2>3, <3>1, <3>2
  <2>. QED  BY <2>1, <2>2, <2>3
<1>2. ASSUME StreamSnapshot PROVE Told'
  <2>1. stream' = [at |-> "send", healthy |-> snapshot, t |-> 0, closed |-> FALSE] /\ mon' = mon
    BY <1>2 DEF StreamSnapshot
  <2>2. mon.age \in Nat /\ mon.healthy \in BOOLEAN
    BY DEF TypeOK, Age, MaxSince
  <2>3. snapshot = mon.healthy \/ mon.age > healthMaxAge
    BY <2>2 DEF snapshot, healthMaxAge
  <2>. QED  BY <2>1, <2>3
<1>3. ASSUME StreamSend PROVE Told'
  BY <1>3 DEF StreamSend, TypeOK
<1>4. ASSUME StreamWakes PROVE Told'
  BY <1>4 DEF StreamWakes, TypeOK
<1>5. ASSUME Tick PROVE Told'
  <2>1. /\ mon'.healthy = mon.healthy /\ mon'.age = Older(mon.age) /\ sent' = sent /\ up' = up
        /\ stream'.at = stream.at /\ stream'.healthy = stream.healthy /\ stream'.closed = stream.closed
    BY <1>5 DEF Tick, TypeOK
  <2>2. mon.age <= Older(mon.age) /\ mon.age \in Nat /\ Older(mon.age) \in Nat
    BY OlderAge DEF TypeOK, Age, MaxSince
  <2>. QED  BY <2>1, <2>2 DEF healthMaxAge
<1>6. ASSUME AgentDies \/ PodReplaced PROVE Told'
  BY <1>6 DEF AgentDies, PodReplaced
<1>7. ASSUME AgentStarts PROVE Told'
  BY <1>7 DEF AgentStarts, Sent
<1>8. ASSUME NEW ok \in BOOLEAN, ProbeEnds(ok) PROVE Told'
  BY <1>8 DEF ProbeEnds
<1>9. ASSUME \/ ProbeBegins \/ WatchdogStarts \/ PublishTick \/ WatchdogDies
             \/ GPUChanges \/ Allocate \/ PrepareResourceClaims \/ Release \/ UNCHANGED vars
      PROVE  Told'
  BY <1>9 DEF ProbeBegins, WatchdogStarts, PublishTick, WatchdogDies, GPUChanges,
       Allocate, PrepareResourceClaims, Release, vars
<1>. QED  BY Zenon, <1>1, <1>2, <1>3, <1>4, <1>5, <1>6, <1>7, <1>8, <1>9 DEF Next, Steps

\* With a monitor that keeps its ticks, a steady GPU's report is replaced before it
\* is too old, and the monitor reads it in the second it is due.
LEMMA SteadyStep ==
  ASSUME MonitorMayStall = FALSE, TypeOK, Steady, [Next]_vars
  PROVE  Steady'
<1>. USE DEF Steady, agent, slice, bounds
<1>t. report.age \in Nat /\ mon.age \in Nat /\ wd.t \in Nat /\ wd.t <= probeTimeout + waitDelay
  BY DEF TypeOK, Age, MaxSince, probeTimeout, waitDelay
<1>1. ASSUME NEW ok \in BOOLEAN, ProbeEnds(ok) PROVE Steady'
  <2>1. /\ wd' = [at |-> "sleep", t |-> 0]
        /\ report' = [match |-> TRUE, healthy |-> ok, age |-> 0]
        /\ steady' # "no" => ok
        /\ steady' = "yes" => steady = "yes"
        /\ up' = up /\ mon' = mon /\ monDue' = monDue
    BY <1>1 DEF ProbeEnds
  <2>. QED  BY <2>1 DEF probeInterval
<1>2. ASSUME ProbeBegins PROVE Steady'
  <2>1. /\ wd.at = "sleep" /\ wd' = [at |-> "probe", t |-> 0]
        /\ report' = report /\ steady' = steady /\ up' = up /\ mon' = mon /\ monDue' = monDue
    BY <1>2 DEF ProbeBegins
  <2>. QED  BY <2>1, <1>t DEF probeInterval
<1>3. ASSUME refresh PROVE Steady'
  <2>1. /\ wd' = wd /\ report' = report /\ up' = up /\ up
        /\ mon' = readHealthReport /\ (steady' # "no" => steady # "no")
    BY Zenon, <1>3 DEF refresh
  <2>2. wd.at = "sleep" \/ wd.at = "probe" \/ wd.at = "down"
    BY Zenon DEF TypeOK
  <2>3. ASSUME steady # "no" PROVE report.age <= probeInterval + probeTimeout + waitDelay
    <3>1. CASE wd.at = "sleep"
      BY SMTT(30), <1>t, <2>3, <3>1 DEF probeInterval, probeTimeout, waitDelay
    <3>2. CASE wd.at = "probe"
      BY SMTT(30), <1>t, <2>3, <3>2 DEF probeInterval, probeTimeout, waitDelay
    <3>. QED  BY Zenon, <2>2, <2>3, <3>1, <3>2
  <2>4. ASSUME steady # "no" PROVE mon'.healthy /\ mon'.age = report.age
    <3>1. report.match /\ report.healthy
      BY Zenon, <2>4
    <3>2. report.age <= healthMaxAge
      BY <2>3, <2>4, <1>t DEF probeInterval, probeTimeout, waitDelay, healthMaxAge
    <3>3. mon' = [healthy |-> report.healthy, age |-> report.age]
      BY Zenon, <2>1, <3>1, <3>2 DEF readHealthReport
    <3>. QED  BY <3>1, <3>3
  <2>5. ASSUME steady' # "no"
        PROVE  /\ wd'.at # "down" /\ report'.match /\ report'.healthy
               /\ wd'.at = "sleep" => report'.age <= wd'.t /\ wd'.t <= probeInterval
               /\ wd'.at = "probe" => report'.age <= probeInterval + wd'.t
    BY Zenon, <2>1, <2>5
  <2>6. ASSUME steady' = "yes"
        PROVE  /\ up' /\ mon'.healthy /\ mon'.age <= probeInterval + probeTimeout + waitDelay
               /\ mon'.age <= probeInterval + probeTimeout + waitDelay + 1
    <3>1. steady # "no"
      BY <2>1, <2>6
    <3>2. mon'.healthy /\ mon'.age = report.age /\ report.age <= probeInterval + probeTimeout + waitDelay
      BY Zenon, <2>3, <2>4, <3>1
    <3>. QED  BY <2>1, <3>2, <1>t DEF probeInterval, probeTimeout, waitDelay
  <2>. QED  BY Zenon, <2>5, <2>6
<1>4. ASSUME Tick PROVE Steady'
  <2>1. /\ wd' = [wd EXCEPT !.t = @ + 1] /\ report' = [report EXCEPT !.age = Older(@)]
        /\ mon' = [mon EXCEPT !.age = Older(@)]
        /\ up' = up /\ steady' = steady /\ monDue' = up
        /\ wd.at = "sleep" => wd.t < probeInterval
        /\ up => ~monDue
    BY Zenon, <1>4 DEF Tick
  <2>2. /\ wd'.at = wd.at /\ wd'.t = wd.t + 1
        /\ report'.match = report.match /\ report'.healthy = report.healthy
        /\ report'.age = Older(report.age)
        /\ mon'.healthy = mon.healthy /\ mon'.age = Older(mon.age)
    BY ZenonT(30), <2>1 DEF TypeOK
  <2>3. report.age \in Age /\ mon.age \in Age
    BY DEF TypeOK
  <2>4. /\ Older(report.age) <= report.age + 1 /\ Older(report.age) \in Nat
        /\ Older(mon.age) <= mon.age + 1 /\ Older(mon.age) \in Nat
    BY <2>3, OlderAge DEF Age
  <2>5. ASSUME steady' # "no"
        PROVE  /\ wd'.at # "down" /\ report'.match /\ report'.healthy
               /\ wd'.at = "sleep" => report'.age <= wd'.t /\ wd'.t <= probeInterval
               /\ wd'.at = "probe" => report'.age <= probeInterval + wd'.t
    BY SMTT(30), <2>1, <2>2, <2>4, <2>5, <1>t DEF probeInterval
  <2>6. ASSUME steady' = "yes"
        PROVE  up' /\ mon'.healthy /\ monDue' /\ mon'.age <= probeInterval + probeTimeout + waitDelay + 1
    BY SMTT(30), <2>1, <2>2, <2>4, <2>6, <1>t DEF probeInterval, probeTimeout, waitDelay
  <2>. QED  BY Zenon, <2>5, <2>6
<1>5. ASSUME WatchdogDies \/ AgentDies \/ PodReplaced PROVE Steady'
  BY <1>5 DEF WatchdogDies, AgentDies, PodReplaced
<1>6. ASSUME AgentStarts PROVE Steady'
  BY <1>6 DEF AgentStarts
<1>7. ASSUME WatchdogStarts PROVE Steady'
  BY <1>7 DEF WatchdogStarts
<1>8. ASSUME \/ StreamSnapshot \/ StreamSend \/ StreamWakes \/ PublishTick \/ GPUChanges
             \/ Allocate \/ PrepareResourceClaims \/ Release \/ UNCHANGED vars
      PROVE  Steady'
  BY <1>8 DEF StreamSnapshot, StreamSend, StreamWakes, PublishTick, GPUChanges,
       Allocate, PrepareResourceClaims, Release, vars
<1>. QED  BY Zenon, <1>1, <1>2, <1>3, <1>4, <1>5, <1>6, <1>7, <1>8 DEF Next, Steps

LEMMA Invariant == Spec => []IInv
<1>1. IInv /\ [Next]_vars => IInv'
  BY TypeStep, LeaseStep, SentStep, ToldStep DEF IInv
<1>. QED  BY InitInv, <1>1, PTL DEF Spec

\* Every reachable state is well typed.
THEOREM TypeCorrect == Spec => []TypeOK
<1>1. IInv => TypeOK
  BY DEF IInv
<1>. QED  BY Invariant, <1>1, PTL

\* snapshot never reports healthy later than healthMaxAge after a good probe of this
\* Pod and boot, however long the monitor stalls.
THEOREM LeaseHolds == Spec => []LeaseNotExtended
<1>1. IInv => LeaseNotExtended
  BY SnapshotFresh DEF IInv
<1>. QED  BY Invariant, <1>1, PTL

\* The kubelet takes the device for healthy at most one stream tick longer.
THEOREM StreamHolds == Spec => []StreamInTime
<1>1. IInv => StreamInTime
  BY DEF IInv, Sent, StreamInTime
<1>. QED  BY Invariant, <1>1, PTL

\* No change of the monitor's state falls between the stream's snapshot and its wait:
\* a stream that waits on an open channel has sent the verdict there is.
THEOREM UpdatesHold == Spec => []NoLostUpdate
<1>1. IInv => NoLostUpdate
  BY DEF IInv, Told
<1>. QED  BY Invariant, <1>1, PTL

\* When the monitor keeps its ticks, a GPU once reported healthy stays so while no
\* probe fails and nothing restarts: no report expires between two good probes.
THEOREM SteadyHolds ==
  ASSUME MonitorMayStall = FALSE
  PROVE  Spec => []SteadyStaysHealthy
<1>1. Init => Steady
  BY DEF Init, Steady
<1>2. IInv /\ Steady /\ [Next]_vars => Steady'
  BY Zenon, SteadyStep DEF IInv
<1>3. IInv /\ Steady => SteadyStaysHealthy
  <2>. SUFFICES ASSUME IInv, Steady, steady = "yes" PROVE snapshot
    BY DEF SteadyStaysHealthy
  <2>1. mon.age \in Nat
    BY DEF IInv, TypeOK, Age, MaxSince
  <2>. QED  BY <2>1 DEF Steady, snapshot, probeInterval, probeTimeout, waitDelay, healthMaxAge
<1>. QED  BY Invariant, <1>1, <1>2, <1>3, PTL DEF Spec

\* Allocate and PrepareResourceClaims hand the device out within the lease only.
THEOREM GrantsHold == Spec => GrantsAreFresh
<1>1. IInv /\ [Next]_vars => [~allocated /\ allocated' => since <= healthMaxAge]_vars
  <2>. SUFFICES ASSUME IInv, Next, ~allocated, allocated' PROVE since <= healthMaxAge
    BY DEF vars
  <2>1. Allocate \/ PrepareResourceClaims
    BY ZenonT(30) DEF Next, Steps, ProbeEnds, ProbeBegins, WatchdogStarts, refresh, StreamSnapshot, StreamSend,
         StreamWakes, PublishTick, AgentStarts, Tick, WatchdogDies, AgentDies, PodReplaced, GPUChanges, Release
  <2>. QED  BY <2>1, SnapshotFresh DEF Allocate, PrepareResourceClaims, requireHealthy, IInv, LeaseNotExtended
<1>. QED  BY Invariant, <1>1, PTL DEF Spec, GrantsAreFresh

-----------------------------------------------------------------------------
(* The registration loop.                                                  *)

Kubelets == 0 .. MaxKubelets
Servers == 0 .. MaxServers

\* Each server but the first replaces one that ended or whose socket a kubelet removed.
Counted ==
  /\ server \in {0, last}
  /\ pc = "stat" => server = 0
  /\ pc \notin {"serve", "stat"} => server # 0
  /\ server = 0 => ended = FALSE
  /\ server # 0 => endpointInfo # None
  /\ last <= kubelet + serveErrors + (IF server # 0 /\ ~ended /\ endpoint = endpointInfo THEN 1 ELSE 0)

\* A kubelet that answers listens, and one that has not listened yet was told nothing.
Listening ==
  /\ kubeletUp = "up" => registry # None
  /\ kubeletUp = "cleaning" => registry = None
  /\ \A k \in Kubelets, s \in Servers :
       k > kubelet \/ s > last \/ (k = kubelet /\ kubeletUp = "cleaning") => told[k][s] = 0

\* The socket that the loop found is the kubelet's, unless that kubelet has ended; the
\* next one to start removes the plugin's socket.
Current ==
  pc = "register" =>
    /\ currentRegistry # None
    /\ registry = currentRegistry \/ kubeletUp = "down" \/ endpoint # endpointInfo

\* Once a kubelet was told of the server, the loop knows it or will replace the server
\* before it registers again.
Known ==
  server # 0 /\ told[kubelet][server] > lostAnswers =>
    \/ kubeletUp = "down"
    \/ endpoint # endpointInfo /\ pc \notin {"checkRegistry", "register"}
    \/ registeredRegistry = registry /\ pc # "register"

Inv == PluginTypeOK /\ Counted /\ Listening /\ Current /\ Known /\ RegistersOnce

-----------------------------------------------------------------------------
LEMMA PluginInitInv == PluginInit => Inv
  <1> SUFFICES ASSUME PluginInit PROVE Inv
    OBVIOUS
  <1>1. 0 \in Kubelets /\ 0 \in Servers /\ 0 \in 0 .. MaxLostAnswers /\ 0 \in 0 .. MaxServeErrors
        /\ 0 \in 0 .. 2 + MaxLostAnswers
    BY DevicePluginAssumption DEF Kubelets, Servers, MaxServers
  <1>2. \A k \in Kubelets, s \in Servers : told[k][s] = 0
    BY DEF PluginInit, Kubelets, Servers
  <1>3. told \in [0 .. MaxKubelets -> [0 .. MaxServers -> 0 .. 2 + MaxLostAnswers]]
    BY <1>1 DEF PluginInit
  <1>6. PluginTypeOK
    BY Zenon, <1>1, <1>3 DEF PluginInit, PluginTypeOK, Kubelets, Servers
  <1>4. Counted
    <2>1. /\ server \in {0, last} /\ pc = "serve" /\ server = 0 /\ last = 0
          /\ kubelet = 0 /\ serveErrors = 0
      BY DEF PluginInit
    <2>2. ended = FALSE
      BY DEF PluginInit
    <2> QED
      BY <2>1, <2>2 DEF Counted
  <1>7. Listening /\ Current /\ Known
    <2>1. pc = "serve" /\ server = 0 /\ kubeletUp = "down"
      BY DEF PluginInit
    <2> QED
      BY <1>2, <2>1 DEF Listening, Current, Known
  <1>5. RegistersOnce
    BY <1>2 DEF PluginInit, RegistersOnce, Kubelets, Servers
  <1> QED
    BY <1>4, <1>5, <1>6, <1>7 DEF Inv

\* The bounds of the counters.
LEMMA Numbers ==
  ASSUME PluginTypeOK
  PROVE  /\ MaxKubelets \in Nat /\ MaxLostAnswers \in Nat /\ MaxServeErrors \in Nat /\ MaxServers \in Nat
         /\ kubelet \in Nat /\ last \in Nat /\ server \in Nat /\ lostAnswers \in Nat /\ serveErrors \in Nat
         /\ kubelet <= MaxKubelets /\ lostAnswers <= MaxLostAnswers /\ serveErrors <= MaxServeErrors
         /\ kubelet \in Kubelets /\ last \in Servers /\ server \in Servers
         /\ \A k \in Kubelets, s \in Servers : told[k][s] \in Nat
  <1>1. MaxKubelets \in Nat /\ MaxLostAnswers \in Nat /\ MaxServeErrors \in Nat /\ MaxServers \in Nat
    BY DevicePluginAssumption DEF MaxServers
  <1>2. \A k \in Kubelets, s \in Servers : told[k][s] \in 0 .. 2 + MaxLostAnswers
    BY Zenon DEF PluginTypeOK, Kubelets, Servers
  <1> QED
    BY <1>1, <1>2 DEF PluginTypeOK, Kubelets, Servers

\* Steps that tell no kubelet anything and leave the kubelet and its socket alone.
LEMMA LoopSteps ==
  ASSUME Inv, Listen \/ StatEndpoint \/ CheckEndpoint \/ CheckRegistry \/ PluginTick \/ ServerEnded
  PROVE  Inv'
  <1> USE Numbers DEF Inv
  <1>1. UNCHANGED <<registry, kubelet, kubeletUp, told, lostAnswers, serveErrors>>
    BY Zenon DEF Listen, StatEndpoint, CheckEndpoint, CheckRegistry, PluginTick, ServerEnded, Stop, host
  <1>2. CASE Listen
    <2>1. PluginTypeOK'
      BY <1>1, <1>2 DEF PluginTypeOK, Listen
    <2>2. Counted'
      BY <1>1, <1>2 DEF Counted, Listen
    <2>3. (Listening /\ Current /\ Known /\ RegistersOnce)'
      BY <1>1, <1>2 DEF Listening, Current, Known, RegistersOnce, Listen
    <2> QED
      BY <2>1, <2>2, <2>3
  <1>3. CASE StatEndpoint
    <2>1. endpoint' = endpoint /\ ended' = ended
      BY <1>3 DEF StatEndpoint, host
    <2>2. CASE endpoint = None
      <3>1. /\ pc = "stat" /\ pc' = "serve"
            /\ UNCHANGED <<endpoint, watched, server, ended, last, endpointInfo, registeredRegistry, currentRegistry>>
        BY <1>3, <2>2 DEF StatEndpoint, host
      <3>2. PluginTypeOK' /\ Counted'
        BY <1>1, <3>1 DEF PluginTypeOK, Counted
      <3> QED
        BY <1>1, <3>1, <3>2 DEF Listening, Current, Known, RegistersOnce
    <2>3. CASE endpoint # None
      <3>1. /\ pc' = "checkEndpoint" /\ endpointInfo' = endpoint
            /\ server' = last + 1 /\ last' = last + 1
            /\ UNCHANGED <<endpoint, watched, ended, registeredRegistry, currentRegistry>>
        BY <1>3, <2>3 DEF StatEndpoint, host
      <3>2. server = 0 /\ ended = FALSE /\ last <= kubelet + serveErrors
        BY <1>3 DEF StatEndpoint, Counted
      <3>3. last + 1 \in Servers /\ last' <= kubelet + serveErrors + 1
        BY <3>1, <3>2 DEF Servers, MaxServers
      <3>4. PluginTypeOK'
        BY <1>1, <3>1, <3>3 DEF PluginTypeOK, Servers
      <3>5. Counted'
        BY <1>1, <2>3, <3>1, <3>2, <3>3 DEF Counted
      <3>6. told[kubelet][last + 1] = 0
        BY <3>3 DEF Listening
      <3>7. Listening'
        BY <1>1, <3>1 DEF Listening, Servers
      <3>8. Current' /\ Known' /\ RegistersOnce'
        BY <1>1, <3>1, <3>6 DEF Current, Known, RegistersOnce
      <3> QED
        BY <3>4, <3>5, <3>7, <3>8
    <2> QED
      BY <2>2, <2>3
  <1>4. CASE Stop("serve") /\ server # 0 /\ (ended \/ endpoint # endpointInfo)
    <2>0. ended' = FALSE /\ ended' \in BOOLEAN
      BY Zenon, <1>4 DEF Stop
    <2>1. /\ server' = 0 /\ watched' \in {0, watched} /\ endpoint' = None
          /\ endpointInfo' = None /\ registeredRegistry' = None /\ pc' = "serve"
          /\ UNCHANGED <<last, currentRegistry>>
      BY <1>4 DEF Stop
    <2>2. last <= kubelet + serveErrors
      BY <1>4 DEF Counted
    <2>7. watched' \in 0 .. MaxServers /\ 0 \in 0 .. MaxServers
      BY <2>1 DEF PluginTypeOK
    <2>3. PluginTypeOK'
      BY Zenon, <1>1, <2>0, <2>1, <2>7 DEF PluginTypeOK
    <2>4. Counted'
      BY <1>1, <2>0, <2>1, <2>2 DEF Counted
    <2>5. Listening' /\ RegistersOnce'
      BY <1>1, <2>1 DEF Listening, RegistersOnce
    <2>6. Current' /\ Known'
      BY <1>1, <2>1 DEF Current, Known
    <2> QED
      BY <2>3, <2>4, <2>5, <2>6
  <1>5. CASE CheckEndpoint
    <2>1. server # 0 /\ endpointInfo # None
      BY <1>5 DEF CheckEndpoint, Counted
    <2>2. CASE endpoint # None /\ endpoint = endpointInfo
      <3>1. /\ pc' = "checkRegistry"
            /\ UNCHANGED <<endpoint, watched, server, ended, last, endpointInfo, registeredRegistry, currentRegistry>>
        BY <1>5, <2>2 DEF CheckEndpoint, host
      <3>2. PluginTypeOK' /\ Counted'
        BY <1>1, <2>1, <3>1 DEF PluginTypeOK, Counted
      <3> QED
        BY <1>1, <2>2, <3>1, <3>2 DEF Listening, Current, Known, RegistersOnce
    <2> QED
      BY <1>4, <1>5, <2>1, <2>2 DEF CheckEndpoint
  <1>6. CASE CheckRegistry
    <2>1. /\ pc' \in {"wait", "register"} /\ currentRegistry' = registry
          /\ registeredRegistry' \in {None, registeredRegistry}
          /\ UNCHANGED <<endpoint, watched, server, ended, last, endpointInfo>>
      BY <1>6 DEF CheckRegistry, host
    <2>2. PluginTypeOK' /\ Counted'
      BY <1>1, <1>6, <2>1 DEF PluginTypeOK, Counted, CheckRegistry
    <2>3. Known'
      BY <1>1, <1>6, <2>1 DEF Known, CheckRegistry, Listening
    <2>4. Current'
      BY <1>1, <1>6, <2>1 DEF Current, CheckRegistry
    <2> QED
      BY <1>1, <2>1, <2>2, <2>3, <2>4 DEF Listening, RegistersOnce
  <1>7. CASE PluginTick
    <2>1. /\ pc = "wait" /\ pc' = "serve"
          /\ UNCHANGED <<endpoint, watched, server, ended, last, endpointInfo, registeredRegistry, currentRegistry>>
      BY <1>7 DEF PluginTick, host
    <2>2. PluginTypeOK' /\ Counted'
      BY <1>1, <2>1 DEF PluginTypeOK, Counted
    <2> QED
      BY <1>1, <2>1, <2>2 DEF Listening, Current, Known, RegistersOnce
  <1>8. CASE ServerEnded
    BY Zenon, <1>4, <1>8 DEF ServerEnded, Counted
  <1> QED
    BY <1>2, <1>3, <1>5, <1>6, <1>7, <1>8

LEMMA RegisterStep ==
  ASSUME Inv, Register
  PROVE  Inv'
  <1> USE Numbers DEF Inv
  <1>1. /\ pc = "register" /\ pc' = "wait" /\ server # 0
        /\ UNCHANGED <<endpoint, registry, kubelet, kubeletUp, server, ended, last, endpointInfo, currentRegistry, serveErrors>>
    BY DEF Register, Counted
  <1>2. Counted'
    BY <1>1 DEF Counted
  <1>3. CASE kubeletUp # "up"
    <2>1. UNCHANGED <<watched, told, registeredRegistry, lostAnswers>>
      BY <1>3 DEF Register
    <2>2. PluginTypeOK'
      BY <1>1, <2>1 DEF PluginTypeOK
    <2> QED
      BY <1>1, <1>2, <2>1, <2>2 DEF Listening, Current, Known, RegistersOnce
  <1>4. CASE kubeletUp = "up"
    <2>1. /\ told' = [told EXCEPT ![kubelet][server] = @ + 1]
          /\ watched' \in {0, server}
          /\ \/ registeredRegistry' = currentRegistry /\ lostAnswers' = lostAnswers
             \/ lostAnswers < MaxLostAnswers /\ lostAnswers' = lostAnswers + 1 /\ registeredRegistry' = registeredRegistry
      BY <1>4 DEF Register, Registered
    <2>2. told[kubelet][server] <= lostAnswers
      BY <1>1, <1>4 DEF Known
    <2>3. told[kubelet][server] + 1 \in 0 .. 2 + MaxLostAnswers
      BY <2>2
    <2>4. told' \in [Kubelets -> [Servers -> 0 .. 2 + MaxLostAnswers]]
      BY Zenon, <2>1, <2>3 DEF PluginTypeOK, Kubelets, Servers
    <2>5. told'[kubelet][server] = told[kubelet][server] + 1
      BY Zenon, <2>1 DEF PluginTypeOK, Kubelets, Servers
    <2>6. \A k \in Kubelets, s \in Servers : k # kubelet \/ s # server => told'[k][s] = told[k][s]
      BY <2>1 DEF PluginTypeOK, Kubelets, Servers
    <2>7. lostAnswers' \in 0 .. MaxLostAnswers /\ lostAnswers <= lostAnswers' /\ lostAnswers' \in Nat
      BY <2>1
    <2>12. watched' \in 0 .. MaxServers /\ registeredRegistry' \in Inodes \cup {None}
      BY <2>1 DEF PluginTypeOK, Servers
    <2>8. PluginTypeOK'
      BY Zenon, <1>1, <2>1, <2>4, <2>7, <2>12 DEF PluginTypeOK, Kubelets, Servers
    <2>9. Listening'
      BY <1>1, <1>4, <2>6 DEF Listening, Counted
    <2>10. RegistersOnce'
      <3>1. told'[kubelet][server] <= 1 + lostAnswers'
        BY <2>2, <2>5, <2>7
      <3>2. ASSUME NEW k \in Kubelets, NEW s \in Servers PROVE told'[k][s] <= 1 + lostAnswers'
        BY <2>6, <2>7, <3>1 DEF RegistersOnce, Kubelets, Servers
      <3> QED
        BY <3>2 DEF RegistersOnce, Kubelets, Servers
    <2>11. Current' /\ Known'
      BY <1>1, <1>4, <2>1, <2>2, <2>5 DEF Current, Known
    <2> QED
      BY <1>2, <2>8, <2>9, <2>10, <2>11
  <1> QED
    BY <1>3, <1>4

LEMMA HostSteps ==
  ASSUME Inv, ServeEnds \/ KubeletEnds \/ KubeletCleans \/ KubeletListens
  PROVE  Inv'
  <1> USE Numbers DEF Inv
  <1>1. UNCHANGED <<pc, server, last, endpointInfo, registeredRegistry, currentRegistry, told, lostAnswers>>
    BY Zenon DEF ServeEnds, KubeletEnds, KubeletCleans, KubeletListens, loop
  <1>2. RegistersOnce'
    BY <1>1 DEF RegistersOnce
  <1>3. CASE ServeEnds
    <2>1. /\ server # 0 /\ ended = FALSE /\ ended' = TRUE /\ watched' \in {0, watched}
          /\ serveErrors' = serveErrors + 1 /\ serveErrors' \in 0 .. MaxServeErrors
          /\ UNCHANGED <<endpoint, registry, kubelet, kubeletUp>>
      BY <1>3 DEF ServeEnds, PluginTypeOK
    <2>2. PluginTypeOK'
      BY <1>1, <2>1 DEF PluginTypeOK
    <2>3. Counted'
      BY <1>1, <2>1 DEF Counted
    <2> QED
      BY <1>1, <1>2, <2>1, <2>2, <2>3 DEF Listening, Current, Known
  <1>4. CASE KubeletEnds
    <2>1. /\ kubeletUp' = "down" /\ watched' = 0 /\ registry' \in {registry, None}
          /\ UNCHANGED <<endpoint, kubelet, ended, serveErrors>>
      BY <1>4 DEF KubeletEnds, loop
    <2>2. PluginTypeOK' /\ Counted'
      BY <1>1, <2>1 DEF PluginTypeOK, Counted
    <2> QED
      BY <1>1, <1>2, <2>1, <2>2 DEF Listening, Current, Known
  <1>5. CASE KubeletCleans
    <2>1. /\ kubeletUp' = "cleaning" /\ kubelet' = kubelet + 1 /\ kubelet' \in Kubelets
          /\ registry' = None /\ endpoint' = None
          /\ UNCHANGED <<watched, ended, serveErrors>>
      BY <1>5 DEF KubeletCleans, loop, Kubelets
    <2>2. PluginTypeOK'
      BY <1>1, <2>1 DEF PluginTypeOK, Kubelets
    <2>3. Counted'
      BY <1>1, <2>1 DEF Counted
    <2>4. \A k \in Kubelets, s \in Servers : k > kubelet => told[k][s] = 0
      BY DEF Listening
    <2>5. \A k \in Kubelets : k > kubelet' \/ k = kubelet' => k > kubelet
      BY <2>1 DEF Kubelets
    <2>6. Listening'
      BY Zenon, <1>1, <2>1, <2>4, <2>5 DEF Listening
    <2>7. told'[kubelet'][server'] = 0
      BY <1>1, <2>1, <2>4, <2>5
    <2>8. Current' /\ Known'
      BY <1>1, <2>1, <2>7 DEF Current, Known, Counted
    <2> QED
      BY <1>2, <2>2, <2>3, <2>6, <2>8
  <1>6. CASE KubeletListens
    <2>1. /\ kubeletUp = "cleaning" /\ kubeletUp' = "up" /\ registry' \in Inodes /\ registry' # None
          /\ UNCHANGED <<endpoint, kubelet, watched, ended, serveErrors>>
      BY <1>6, DevicePluginAssumption DEF KubeletListens, loop, Free
    <2>2. PluginTypeOK' /\ Counted'
      BY <1>1, <2>1 DEF PluginTypeOK, Counted
    <2>3. Listening'
      BY <1>1, <2>1 DEF Listening
    <2>4. told[kubelet][server] = 0
      BY <2>1 DEF Listening
    <2>5. Current'
      BY <1>1, <2>1 DEF Current, Listening
    <2>6. Known'
      BY <1>1, <2>1, <2>4 DEF Known
    <2> QED
      BY <1>2, <2>2, <2>3, <2>5, <2>6
  <1> QED
    BY <1>3, <1>4, <1>5, <1>6

LEMMA StepInv == Inv /\ [PluginNext]_pluginVars => Inv'
  <1> SUFFICES ASSUME Inv, [PluginNext]_pluginVars PROVE Inv'
    OBVIOUS
  <1>1. CASE UNCHANGED pluginVars
    BY <1>1 DEF pluginVars, host, loop, Inv, PluginTypeOK, Counted, Listening, Current, Known, RegistersOnce
  <1> QED
    BY Zenon, <1>1, LoopSteps, RegisterStep, HostSteps DEF PluginNext, Plugin, Kubelet

-----------------------------------------------------------------------------
(* The theorem.                                                            *)

\* A kubelet hears of one server of serveDevicePlugin once, but for answers that were
\* lost, for any number of restarts of the kubelet, of servers that end and of inode
\* numbers that are used again.
THEOREM LiveEndpointRegistersOnce == PluginSpec => []RegistersOnce
  <1>1. Inv => RegistersOnce
    BY DEF Inv
  <1> QED
    BY <1>1, PluginInitInv, StepInv, PTL DEF PluginSpec
=============================================================================
