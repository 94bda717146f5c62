-------------------------------- MODULE WebUI -------------------------------
(***************************************************************************)
(* The web UI server (pkg/webui/webui.go) and the user's kubeconfig.  A    *)
(* request starts a job: a goroutine that runs the kiac binary, one at a   *)
(* time per cluster.  Jobs of different clusters run side by side, and a   *)
(* creation or deletion ends by changing the one kubeconfig file: each job *)
(* is a process of Kubeconfig.                                             *)
(***************************************************************************)
EXTENDS Naturals, FiniteSets

CONSTANTS
  Clusters, UserEntries,
  MaxJobs,       \* bound: jobs of a server
  Originals, NoFile, Empty, Torn, None

Jobs == 1 .. MaxJobs

\* A cluster is made anew by each creation, and its entry points at that incarnation,
\* named by the job that made it; 0 before there is one.
Incarnations == 0 .. MaxJobs

VARIABLES
  busy, jobs, next,    \* the server's fields
  exec,                \* per job: the step of its command and of its goroutine
  alive, incarnation,  \* per cluster: whether its VMs exist, and the job that made them last
  original, file, backup, pc, op, arg, item, raw, wanted, raced, torn, exposed  \* Kubeconfig

K == INSTANCE Kubeconfig WITH Procs <- Jobs, Values <- Incarnations

ASSUME WebUIAssumption == MaxJobs \in Nat /\ K!KubeconfigAssumption

server == <<busy, jobs, next>>
clusters == <<alive, incarnation>>
config == <<original, file, backup, pc, op, arg, item, raw, wanted, raced, torn, exposed>>
vars == <<server, exec, clusters, config>>

Job == [cluster : Clusters, verb : {"create", "delete", "node"},
        status : {"running", "done", "failed"}]

TypeOK ==
  /\ busy \subseteq Clusters /\ next \in 0 .. MaxJobs
  /\ jobs \in [Jobs -> Job \cup {None}]
  /\ exec \in [Jobs -> {"none", "running", "config", "ok", "error", "recorded", "ended"}]
  /\ alive \in [Clusters -> BOOLEAN] /\ incarnation \in [Clusters -> Incarnations]
  /\ K!TypeOK

\* Faulty variant: a busy cluster is not refused.
startJob_always(c, v) ==
  /\ next < MaxJobs
  /\ busy' = busy \cup {c}
  /\ next' = next + 1
  /\ jobs' = [jobs EXCEPT ![next + 1] = [cluster |-> c, verb |-> v, status |-> "running"]]
  /\ exec' = [exec EXCEPT ![next + 1] = "running"]
  /\ UNCHANGED <<clusters, config>>

\* startJob: under the lock, refused for a busy cluster.
startJob(c, v) ==
  /\ next < MaxJobs /\ c \notin busy
  /\ busy' = busy \cup {c}
  /\ next' = next + 1
  /\ jobs' = [jobs EXCEPT ![next + 1] = [cluster |-> c, verb |-> v, status |-> "running"]]
  /\ exec' = [exec EXCEPT ![next + 1] = "running"]
  /\ UNCHANGED <<clusters, config>>

createCluster(c) == startJob(c, "create")
deleteCluster(c) == startJob(c, "delete")

\* nodeAction: stop and start of a node.
nodeAction(c) == startJob(c, "node")

\* kiac create cluster: a cluster that exists is refused; its last step merges.
Create(i) ==
  /\ exec[i] = "running" /\ jobs[i].verb = "create"
  /\ LET c == jobs[i].cluster IN
       /\ ~alive[c]
       /\ alive' = [alive EXCEPT ![c] = TRUE]
       /\ incarnation' = [incarnation EXCEPT ![c] = i]
       /\ K!Begin(i, "merge", c, i)
  /\ exec' = [exec EXCEPT ![i] = "config"]
  /\ UNCHANGED server

\* kiac delete cluster: the VMs go, then the entries.
Delete(i) ==
  /\ exec[i] = "running" /\ jobs[i].verb = "delete"
  /\ LET c == jobs[i].cluster IN
       /\ alive[c]
       /\ alive' = [alive EXCEPT ![c] = FALSE]
       /\ K!Begin(i, "remove", c, item[i])
  /\ exec' = [exec EXCEPT ![i] = "config"]
  /\ UNCHANGED <<server, incarnation>>

\* A command that never gets to the kubeconfig: it fails, or it concerns a node.
Command(i) ==
  /\ exec[i] = "running"
  /\ exec' \in {[exec EXCEPT ![i] = r] : r \in {"error"} \cup (IF jobs[i].verb = "node" THEN {"ok"} ELSE {})}
  /\ UNCHANGED <<server, clusters, config>>

ConfigStep(i) ==
  /\ exec[i] = "config" /\ K!Step(i)
  /\ UNCHANGED <<server, exec, clusters>>

KillCommand(i) ==
  /\ exec[i] = "config" /\ K!Kill(i)
  /\ UNCHANGED <<server, exec, clusters>>

CommandEnds(i) ==
  /\ exec[i] = "config" /\ pc[i] \in K!Rest
  /\ exec' = [exec EXCEPT ![i] = IF pc[i] = "done" THEN "ok" ELSE "error"]
  /\ UNCHANGED <<server, clusters, config>>

\* Faulty variant: a failed command leaves its job running.
SetStatus_doneOnly(i) ==
  /\ exec[i] \in {"ok", "error"}
  /\ exec' = [exec EXCEPT ![i] = "recorded"]
  /\ jobs' = [jobs EXCEPT ![i].status = IF exec[i] = "ok" THEN "done" ELSE @]
  /\ UNCHANGED <<busy, next, clusters, config>>

\* The goroutine records the result; its first deferred call comes last.
SetStatus(i) ==
  /\ exec[i] \in {"ok", "error"}
  /\ exec' = [exec EXCEPT ![i] = "recorded"]
  /\ jobs' = [jobs EXCEPT ![i].status = IF exec[i] = "ok" THEN "done" ELSE "failed"]
  /\ UNCHANGED <<busy, next, clusters, config>>

Unbusy(i) ==
  /\ exec[i] = "recorded"
  /\ busy' = busy \ {jobs[i].cluster} /\ exec' = [exec EXCEPT ![i] = "ended"]
  /\ UNCHANGED <<jobs, next, clusters, config>>

-----------------------------------------------------------------------------
Init ==
  /\ busy = {} /\ next = 0
  /\ jobs = [i \in Jobs |-> None] /\ exec = [i \in Jobs |-> "none"]
  /\ alive = [c \in Clusters |-> FALSE] /\ incarnation = [c \in Clusters |-> 0]
  /\ K!Init

Goroutine(i) ==
  \/ Create(i) \/ Delete(i) \/ Command(i) \/ ConfigStep(i) \/ CommandEnds(i)
  \/ SetStatus(i) \/ Unbusy(i)

Request(c) == createCluster(c) \/ deleteCluster(c) \/ nodeAction(c)

Next ==
  \/ \E c \in Clusters : Request(c)
  \/ \E i \in Jobs : Goroutine(i) \/ KillCommand(i)

\* Goroutines are scheduled and every kiac command ends.
Spec == Init /\ [][Next]_vars /\ \A i \in Jobs : WF_vars(Goroutine(i))

-----------------------------------------------------------------------------
(* Properties.                                                             *)

\* EntriesKept of Kubeconfig; and since two jobs of one cluster never overlap, when a
\* creation has succeeded the file has the entry of the incarnation it made, whatever
\* jobs of other clusters wrote, unless one of them held an older content.
EntriesKept ==
  /\ K!EntriesKept
  /\ K!Quiet /\ ~torn =>
       \A i \in Jobs :
         (/\ jobs[i] # None /\ jobs[i].verb = "create" /\ jobs[i].cluster \notin raced
          /\ exec[i] = "ok" \/ (exec[i] = "recorded" /\ jobs[i].status = "done"))
            => K!Content(file).entries[jobs[i].cluster] = incarnation[jobs[i].cluster]

\* The user's own entries survive all jobs, in the file or in the backup, as
\* Recoverable of Kubeconfig states.
Recoverable == K!Recoverable

\* Every job gets a status for the UI's polling to end on, done exactly when its
\* command succeeded, and its cluster is then free for another job.
EveryJobEnds ==
  \A i \in Jobs :
    /\ exec[i] = "running" ~> exec[i] = "ended" /\ jobs[i].status # "running"
    /\ exec[i] = "ok" ~> exec[i] = "ended" /\ jobs[i].status = "done"
=============================================================================
