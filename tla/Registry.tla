------------------------------ MODULE Registry ------------------------------
(***************************************************************************)
(* The rows of clusters and jobs: the handlers of /clusters and /jobs,    *)
(* the statements under them, the daily archiving, and the commands of    *)
(* mirror-cli that send the requests.                                     *)
(*                                                                         *)
(* What a handler checks and what it then writes are separate statements. *)
(* A job's row is read and written back whole; before an insert or an     *)
(* update the names are counted, for nothing else keeps them apart.  A    *)
(* cluster that is removed becomes inactive, after 72 hours archived, and *)
(* a purge deletes it.  The mirrors of running jobs are here a map from   *)
(* jobs to the cluster they were started with; JobManager has the rest of *)
(* their life.                                                            *)
(*                                                                         *)
(* A job has one cluster here, standing for either end of it: both are    *)
(* read, checked and referred to alike.  Which commands a role may use is *)
(* in Accounts; the commands for all jobs at once are in JobManager.      *)
(***************************************************************************)
EXTENDS Naturals, FiniteSets

CONSTANTS
  Shell,      \* who sends requests, one at a time each
  Job,        \* ids of jobs that may be created
  JobName,    \* names for them
  Cluster,    \* names of clusters
  Gone,       \* no row, no mirror
  MaxRequests \* bound: requests

ASSUME RegistryAssumption ==
  MaxRequests \in Nat /\ Job # {} /\ JobName # {} /\ Cluster # {}

VARIABLES
  clusters,  \* a cluster's status, or Gone
  jobs,      \* a job's row [name, cluster, status], or Gone
  mapped,    \* jobs with topic mappings
  mirrorOn,    \* the cluster a job's mirror was started with, or Gone
  mu,        \* JobManager.Mu: the shell whose request holds it, or Gone
  request,   \* the request of each shell
  requests,  \* requests so far
  used,      \* ids that have been given out
  crossed,   \* history: a row was written upon a count of names gone old
  exposed    \* history: jobs started or moved since a cluster's check

rowHistory  == <<crossed, exposed>>
registryVars ==
  <<clusters, jobs, mapped, mirrorOn, mu, request, requests, used, rowHistory>>

Row    == [name : JobName, cluster : Cluster, status : {"active", "paused"}]
NoRow  == CHOOSE r \in Row : TRUE
JobOps ==
  {"create", "update", "delete", "start", "stop", "pause", "restart", "force",
   "remove", "restore"}
Free   == [op |-> "none", stage |-> "free", job |-> CHOOSE j \in Job : TRUE,
           cluster |-> CHOOSE k \in Cluster : TRUE, copy |-> NoRow,
           first |-> NoRow, old |-> FALSE]

RegistryTypeOK ==
  /\ clusters \in
       [Cluster -> {"unknown", "active", "inactive", "archived", Gone}]
  /\ jobs \in [Job -> Row \cup {Gone}] /\ mapped \in SUBSET Job
  /\ mirrorOn \in [Job -> Cluster \cup {Gone}] /\ mu \in Shell \cup {Gone}
  /\ request \in [Shell ->
       [op : JobOps \cup {"none"}, job : Job, cluster : Cluster, copy : Row,
        first : Row, stage : {"free", "read", "counted", "stopping", "stopped",
          "mapping", "undo", "deleting", "restarting", "again", "starting",
          "checked"},
        old : BOOLEAN]]
  /\ requests \in 0 .. MaxRequests /\ used \in SUBSET Job
  /\ crossed \in BOOLEAN
  /\ exposed \in SUBSET (Job \X Cluster)

(* Clusters that have been added.                                         *)
RegistryInit ==
  /\ clusters = [k \in Cluster |-> "unknown"]
  /\ jobs = [j \in Job |-> Gone] /\ mapped = {}
  /\ mirrorOn = [j \in Job |-> Gone] /\ mu = Gone
  /\ request = [s \in Shell |-> Free] /\ requests = 0 /\ used = {}
  /\ crossed = FALSE /\ exposed = {}

InStage(s, stage) == request[s].stage = stage
J(s) == request[s].job
K(s) == request[s].cluster

(* The request of s as it goes on, or is answered; a row written makes    *)
(* the counts of the others old.                                          *)
Answers(s, r) == request' = [request EXCEPT ![s] = r]
After(s, stage) ==
  IF stage = "free" THEN Free
  ELSE [request[s] EXCEPT !.stage = stage, !.old = FALSE]
Goes(s, stage) == Answers(s, After(s, stage))
WriteThen(s, stage) ==
  /\ request' = [t \in Shell |->
       IF t = s THEN After(s, stage)
       ELSE [request[t] EXCEPT !.old = @ \/ request[t].stage = "counted"]]
  /\ crossed' = (crossed \/ request[s].old)

Sends(s) == /\ request[s] = Free /\ requests < MaxRequests
            /\ requests' = requests + 1

Requests(s, r) ==
  /\ Sends(s) /\ Answers(s, r)
  /\ UNCHANGED <<clusters, jobs, mapped, mirrorOn, mu, used, rowHistory>>

Command(op, stage) == [Free EXCEPT !.op = op, !.stage = stage]

-----------------------------------------------------------------------------
(* Clusters.                                                              *)

(* CreateCluster inserts a row, of a name there is none of, archived or not. *)
CreateCluster(k) ==
  /\ clusters[k] = Gone
  /\ clusters' = [clusters EXCEPT ![k] = "unknown"]

(* clusters add: the connection is tested, then the cluster sent.         *)
ClustersAdd(s, k) ==
  /\ Sends(s) /\ CreateCluster(k)
  /\ UNCHANGED <<jobs, mapped, mirrorOn, mu, request, used, rowHistory>>

(* The jobs that keep a cluster from being removed.                       *)
ActiveOn(k) ==
  {j \in Job : jobs[j] # Gone /\ jobs[j].cluster = k
                /\ jobs[j].status = "active"}

(* A handler that does not look at the jobs.                              *)
DeleteUnchecked(s, k) ==
  /\ Answers(s, [Command("remove", "checked") EXCEPT !.cluster = k])
  /\ exposed' = {x \in exposed : x[2] # k}

(* handleDeleteCluster lists the jobs ...                                 *)
DeleteCluster(s, k) ==
  IF ActiveOn(k) # {}
    THEN Goes(s, "free") /\ UNCHANGED exposed
    ELSE /\ Answers(s, [Command("remove", "checked") EXCEPT !.cluster = k])
         /\ exposed' = {x \in exposed : x[2] # k}

(* clusters remove, of any name: the list it offers leaves out clusters   *)
(* that were never checked, but a name may be given.                      *)
ClustersRemove(s, k) ==
  /\ Sends(s) /\ DeleteCluster(s, k)
  /\ UNCHANGED <<clusters, jobs, mapped, mirrorOn, mu, used, crossed>>

(* handleRestoreCluster reads the status ...                              *)
RestoreCluster(s, k) ==
  IF clusters[k] = "inactive"
    THEN Answers(s, [Command("restore", "checked") EXCEPT !.cluster = k])
    ELSE Goes(s, "free")

(* clusters restore.                                                      *)
ClustersRestore(s, k) ==
  /\ Sends(s) /\ RestoreCluster(s, k)
  /\ UNCHANGED <<clusters, jobs, mapped, mirrorOn, mu, used, rowHistory>>

(* ... and sets it, of any row by that name.                              *)
SetClusterStatus(s) ==
  LET status == IF request[s].op = "remove" THEN "inactive" ELSE "active"
  IN /\ InStage(s, "checked")
     /\ clusters' = IF clusters[K(s)] = Gone THEN clusters
                    ELSE [clusters EXCEPT ![K(s)] = status]
     /\ Goes(s, "free")
     /\ UNCHANGED <<jobs, mapped, mirrorOn, mu, requests, used, rowHistory>>

(* The daily task, 72 hours after the last change of status.              *)
ArchiveInactiveClusters ==
  /\ \E k \in Cluster : clusters[k] = "inactive"
  /\ clusters' = [k \in Cluster |-> IF clusters[k] = "inactive"
                                      THEN "archived" ELSE clusters[k]]
  /\ UNCHANGED <<jobs, mapped, mirrorOn, mu, request, requests, used,
                 rowHistory>>

(* One statement, which a single job of a single archived cluster makes   *)
(* fail.                                                                  *)
PurgeArchivedClusters ==
  LET archived == {k \in Cluster : clusters[k] = "archived"}
      refused  == \E j \in Job : jobs[j] # Gone /\ jobs[j].cluster \in archived
  IN clusters' = [k \in Cluster |-> IF k \in archived /\ ~refused
                                       THEN Gone ELSE clusters[k]]

(* clusters purge.                                                        *)
ClustersPurge(s) ==
  /\ Sends(s) /\ PurgeArchivedClusters
  /\ UNCHANGED <<jobs, mapped, mirrorOn, mu, request, used, rowHistory>>

-----------------------------------------------------------------------------
(* The row of a job.                                                      *)

(* jobs add: the clusters are listed and tested, and the names asked.     *)
JobsAdd(s, j, n, k) ==
  /\ Sends(s)
  /\ j \notin used /\ clusters[k] # Gone
  /\ used' = used \cup {j}
  /\ Answers(s, [Command("create", "read") EXCEPT !.job = j, !.cluster = k,
       !.copy = [name |-> n, cluster |-> k, status |-> "paused"]])
  /\ UNCHANGED <<clusters, jobs, mapped, mirrorOn, mu, rowHistory>>

(* handleUpdateJob reads the row and puts the request's fields into it.   *)
UpdateJob(s, j, n, k) ==
  /\ jobs[j] # Gone
  /\ Requests(s, [Command("update", "read") EXCEPT !.job = j, !.cluster = k,
       !.copy = [jobs[j] EXCEPT !.name = n, !.cluster = k]])

(* What follows a write, done or refused.  A start answers and lets go of *)
(* Mu; when its write is refused it takes its mirror back.  RestartJob    *)
(* goes on after a stop in any case, and after its start it writes the    *)
(* row it began with; ForceRestartJob goes on once the row is reset.      *)
Written(s, done) ==
  LET op     == request[s].op
      paused == request[s].copy.status = "paused"
      go == CASE op = "update" /\ done            -> "mapping"
              [] op = "delete"                     -> "deleting"
              [] op = "restart" /\ paused         -> "starting"
              [] op = "force" /\ paused /\ done   -> "starting"
              [] op = "restart" /\ mu = s /\ done -> "again"
              [] OTHER                             -> "free"
  IN /\ IF done THEN WriteThen(s, go) ELSE Goes(s, go) /\ UNCHANGED crossed
     /\ mu' = IF mu = s THEN Gone ELSE mu
     /\ mirrorOn' = IF mu = s /\ ~done THEN [mirrorOn EXCEPT ![J(s)] = Gone]
                  ELSE mirrorOn

(* A count that finds nothing.                                            *)
CountNothing(s) ==
  /\ InStage(s, "read") /\ Goes(s, "counted")
  /\ UNCHANGED <<clusters, jobs, mapped, mirrorOn, mu, requests, used,
                 rowHistory>>

(* Before a write: is there another job by that name?                     *)
CountNames(s) ==
  /\ InStage(s, "read")
  /\ IF \E j \in Job \ {J(s)} :
          jobs[j] # Gone /\ jobs[j].name = request[s].copy.name
       THEN Written(s, FALSE)
       ELSE Goes(s, "counted") /\ UNCHANGED <<crossed, mu, mirrorOn>>
  /\ UNCHANGED <<clusters, jobs, mapped, requests, used, exposed>>

(* CreateJob; the foreign key refuses a cluster that is gone.             *)
InsertJob(s) ==
  /\ InStage(s, "counted") /\ request[s].op = "create"
  /\ IF clusters[K(s)] = Gone
       THEN Goes(s, "free") /\ UNCHANGED <<jobs, crossed>>
       ELSE /\ jobs' = [jobs EXCEPT ![J(s)] = request[s].copy]
            /\ WriteThen(s, "mapping")
  /\ UNCHANGED <<clusters, mapped, mirrorOn, mu, requests, used, exposed>>

(* UpdateMappingsForJob, a transaction; none for a job that is gone.      *)
UpdateMappings(s) ==
  /\ InStage(s, "mapping")
  /\ mapped' = IF jobs[J(s)] = Gone THEN mapped ELSE mapped \cup {J(s)}
  /\ Goes(s, "free")
  /\ UNCHANGED <<clusters, jobs, mirrorOn, mu, requests, used, rowHistory>>

(* It fails; a new job is deleted again.                                  *)
MappingsFail(s) ==
  /\ InStage(s, "mapping")
  /\ IF request[s].op = "create" THEN Goes(s, "undo") ELSE Goes(s, "free")
  /\ UNCHANGED <<clusters, jobs, mapped, mirrorOn, mu, requests, used,
                 rowHistory>>

(* UpdateJob: the whole row, where there is still one, and where the      *)
(* foreign key lets it.                                                   *)
WriteRow(s) ==
  LET row  == request[s].copy
      done == jobs[J(s)] = Gone \/ clusters[row.cluster] # Gone
  IN /\ InStage(s, "counted") /\ request[s].op # "create"
     /\ Written(s, done)
     /\ jobs' = IF jobs[J(s)] # Gone /\ done
                  THEN [jobs EXCEPT ![J(s)] = row] ELSE jobs
     /\ exposed' = IF row.status = "active"
                     THEN exposed \cup {<<J(s), row.cluster>>} ELSE exposed
     /\ UNCHANGED <<clusters, mapped, requests, used>>

-----------------------------------------------------------------------------
(* Start, stop and delete.                                                *)

(* StartJob takes Mu and keeps it; it reads the row, the cluster by its   *)
(* name whatever its status, and starts a mirror.                         *)
StartJob(s) ==
  /\ InStage(s, "starting") /\ mu = Gone
  /\ IF mirrorOn[J(s)] # Gone \/ jobs[J(s)] = Gone
       THEN Goes(s, "free") /\ UNCHANGED <<mirrorOn, mu>>
       ELSE /\ mirrorOn' = [mirrorOn EXCEPT ![J(s)] = jobs[J(s)].cluster]
            /\ mu' = s
            /\ Answers(s, [request[s] EXCEPT !.stage = "read", !.old = FALSE,
                 !.copy = [jobs[J(s)] EXCEPT !.status = "active"]])
  /\ UNCHANGED <<clusters, jobs, mapped, requests, used, rowHistory>>

(* StopJob takes the mirror out of the map and waits for it; without a    *)
(* mirror it has nothing to wait for ...                                  *)
StopJob(s) ==
  /\ InStage(s, "stopping") /\ mu = Gone
  /\ mirrorOn' = [mirrorOn EXCEPT ![J(s)] = Gone]
  /\ Answers(s, [request[s] EXCEPT !.stage = "stopped",
                   !.old = mirrorOn[J(s)] # Gone])
  /\ UNCHANGED <<clusters, jobs, mapped, mu, requests, used, rowHistory>>

(* ... and has the row say so, without a mirror only one that is active;  *)
(* ForceRestartJob resets the row whatever it says.                       *)
ReadStopped(s) ==
  LET op == request[s].op
  IN /\ InStage(s, "stopped")
     /\ IF jobs[J(s)] # Gone
             /\ (request[s].old \/ op = "force" \/ jobs[J(s)].status = "active")
          THEN Answers(s, [request[s] EXCEPT !.stage = "read", !.old = FALSE,
                 !.copy = [jobs[J(s)] EXCEPT !.status = "paused"]])
          ELSE Goes(s, CASE op = "delete"  -> "deleting"
                         [] op = "restart" -> "starting"
                         [] OTHER          -> "free")
     /\ UNCHANGED <<clusters, jobs, mapped, mirrorOn, mu, requests, used,
                    rowHistory>>

(* RestartJob reads the row, and stops the job if the row is active.      *)
ReadForRestart(s) ==
  LET row == jobs[J(s)]
  IN /\ InStage(s, "restarting")
     /\ IF row = Gone THEN Goes(s, "free")
        ELSE Answers(s, [request[s] EXCEPT !.first = row,
               !.stage = IF row.status = "active" THEN "stopping"
                         ELSE "starting"])
     /\ UNCHANGED <<clusters, jobs, mapped, mirrorOn, mu, requests, used,
                    rowHistory>>

(* At the end it makes that row active and writes it back.                *)
RowOfBefore(s) ==
  /\ InStage(s, "again")
  /\ Answers(s, [request[s] EXCEPT !.stage = "read",
                   !.copy = [request[s].first EXCEPT !.status = "active"]])
  /\ UNCHANGED <<clusters, jobs, mapped, mirrorOn, mu, requests, used,
                 rowHistory>>

(* A health check of ForceRestartJob fails.                               *)
PreflightFails(s) ==
  /\ InStage(s, "starting") /\ request[s].op = "force"
  /\ Goes(s, "free")
  /\ UNCHANGED <<clusters, jobs, mapped, mirrorOn, mu, requests, used,
                 rowHistory>>

(* The commands of "jobs" that name a job, of a list they have read before. *)
JobsCommand(s, op, j, stage) ==
  j \in used /\ Requests(s, [Command(op, stage) EXCEPT !.job = j])

JobsStart(s, j)  == JobsCommand(s, "start", j, "starting")
JobsStop(s, j)   == JobsCommand(s, "stop", j, "stopping")
JobsPause(s, j)  == JobsCommand(s, "pause", j, "stopping")
JobsDelete(s, j) == JobsCommand(s, "delete", j, "stopping")
JobsRestart(s, j)      == JobsCommand(s, "restart", j, "restarting")
JobsForceRestart(s, j) == JobsCommand(s, "force", j, "stopping")

(* DeleteJob, of a request or of a creation undone; the mappings go with  *)
(* the row.  It does not ask for Mu.                                      *)
DeleteJob(s) ==
  /\ request[s].stage \in {"deleting", "undo"}
  /\ jobs' = [jobs EXCEPT ![J(s)] = Gone] /\ mapped' = mapped \ {J(s)}
  /\ Goes(s, "free")
  /\ UNCHANGED <<clusters, mirrorOn, mu, requests, used, rowHistory>>

RegistryNext ==
  \/ \E s \in Shell :
       \/ \E k \in Cluster :
            \/ ClustersAdd(s, k) \/ ClustersRemove(s, k)
            \/ ClustersRestore(s, k)
            \/ \E j \in Job, n \in JobName :
                 JobsAdd(s, j, n, k) \/ UpdateJob(s, j, n, k)
       \/ SetClusterStatus(s) \/ ClustersPurge(s)
       \/ CountNames(s) \/ InsertJob(s) \/ UpdateMappings(s) \/ MappingsFail(s)
       \/ WriteRow(s) \/ StartJob(s) \/ StopJob(s) \/ ReadStopped(s)
       \/ DeleteJob(s)
       \/ \E j \in Job : \/ JobsStart(s, j) \/ JobsStop(s, j)
                         \/ JobsPause(s, j) \/ JobsDelete(s, j)
                         \/ JobsRestart(s, j) \/ JobsForceRestart(s, j)
       \/ ReadForRestart(s) \/ RowOfBefore(s) \/ PreflightFails(s)
  \/ ArchiveInactiveClusters

-----------------------------------------------------------------------------
(* A job is active on a cluster that has been removed only if it was      *)
(* started, or written there as active, after the removal had looked at   *)
(* the jobs (handlers.go:279-298): neither a start nor an edit looks at   *)
(* the status of a cluster.                                               *)
RemovedIdle ==
  \A k \in Cluster : clusters[k] \in {"inactive", "archived"} =>
    \A j \in ActiveOn(k) : <<j, k>> \in exposed

(* Two jobs have one name only if a row was written upon a count that     *)
(* another write had made old: jobs.go:37 and :57 count and then write,   *)
(* and the table has no constraint.                                       *)
NamesUnique ==
  ~crossed => \A i, j \in {x \in Job : jobs[x] # Gone} :
                jobs[i].name = jobs[j].name => i = j

RegistrySpec == RegistryInit /\ [][RegistryNext]_registryVars
=============================================================================
