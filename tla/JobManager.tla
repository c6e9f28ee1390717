----------------------------- MODULE JobManager -----------------------------
(***************************************************************************)
(* The lifecycle of replication jobs: JobManager's map of running mirrors *)
(* and the mutex Mu over it, the status column of replication_jobs, the   *)
(* goroutines that start, stop, restart, halt and throttle jobs, and the  *)
(* goroutines of a mirror, as far as Stop waits for them and onPanic runs *)
(* on them.                                                               *)
(*                                                                         *)
(* A process is a goroutine: a request or background task (Thread), the   *)
(* reconciliation of a starting program (Booter), the two-second poll of  *)
(* the protection state (Watcher), or the goroutine of a mirror that      *)
(* calls onPanic (the Mirror itself).  A process is where pc says, and    *)
(* "then" is what it returns to; a step is what it does between two       *)
(* accesses to Mu, to the database or to another goroutine.  Mu is held   *)
(* exactly where the code holds it, waiting for a mirror included.        *)
(*                                                                         *)
(* Of a row of replication_jobs only the status occurs, but it is read    *)
(* and written as the code does it: GetJob copies the row, UpdateJob      *)
(* writes all of the copy back.  Protection is enabled; its state is the  *)
(* halted flag of the database and the file or environment tripwire.      *)
(***************************************************************************)
EXTENDS Naturals, Sequences, FiniteSets

CONSTANTS
  Job,          \* jobs in the database
  Mirror,       \* the KafkaMirror instances that may be created
  Thread,       \* request handlers and background tasks
  Booter,       \* {} or one process: reconcileAndStartJobs
  Watcher,      \* {} or one process: watchProtection
  None,         \* no mirror, no owner, no row
  Request,      \* the requests the threads make
  Overlap,      \* FALSE: a request is made only when nothing is going on
  MaxPanics,    \* bound: goroutines of mirrors that call onPanic
  MaxDbFails,   \* bound: writes of a row that fail
  MaxCrashes    \* bound: crashes of the program

Requests == {"start", "stop", "delete", "restart", "force", "stopAll",
             "startAll", "restartAll", "throttle", "update", "halt", "resume"}
Status   == {"active", "paused", "failed"}

ASSUME ManagerAssumption ==
  /\ None \notin Job \cup Mirror \cup Thread \cup Booter \cup Watcher
  /\ None \notin Status
  /\ IsFiniteSet(Job)
  /\ Mirror \cap (Thread \cup Booter \cup Watcher) = {}
  /\ Thread \cap (Booter \cup Watcher) = {} /\ Booter \cap Watcher = {}
  /\ Request \subseteq Requests
  /\ Overlap \in BOOLEAN
  /\ MaxPanics \in Nat /\ MaxDbFails \in Nat /\ MaxCrashes \in Nat

Proc == Thread \cup Booter \cup Watcher \cup Mirror

VARIABLES
  kafMirrors,   \* the mirror of each running job, or None
  mu,           \* the process that holds Mu, or None
  life,         \* "new", "running", "cancelled" or "closed"
  jobOf,        \* the job a mirror was created for
  db,           \* status of each job's row, None if it is deleted
  halted,       \* the halted flag in the database
  tripwire,     \* the halt file exists or the halt variable is set
  wasHalted,    \* what watchProtection saw at its last tick
  pc, then,     \* where a process is, and where it returns to
  loc,          \* its local variables
  frozen,       \* history: a halt emptied the map and still stands
  heldBack,     \* history: jobs a halt has paused that nobody started since
  panics, dbFails, crashes

managerVars == <<kafMirrors, mu>>
mirrorVars  == <<life, jobOf>>
guardVars   == <<halted, tripwire, wasHalted, frozen, heldBack>>
procVars    == <<pc, then, loc>>
countVars   == <<panics, dbFails, crashes>>
vars == <<managerVars, mirrorVars, db, guardVars, procVars, countVars>>

Phases ==
  {"idle", "start", "guard", "launch", "undo", "stop", "force", "panic",
   "notRunning", "halt", "stopAll", "next", "wait", "read", "write",
   "delete", "restart", "restartSave", "preflight", "throttle", "apply",
   "relaunch", "update", "updateSave", "sync", "syncSave", "list", "listAll",
   "collect", "stopEach", "startEach", "bootSave"}

(* job, mir: the job and the mirror it works on; row: the row it read;     *)
(* queue: mirrors it took out of the map (or, under Mu, is to stop) and   *)
(* has not stopped yet; list, todo: the rows it listed and the jobs of    *)
(* them it has not come to; mark: what it writes after a stop; ok:        *)
(* whether the last start, or the row read last, was found good.          *)
Local == [job : Job \cup {None}, mir : Mirror \cup {None},
          queue : SUBSET (Job \X (Mirror \cup {None})),
          row : Status \cup {None}, list : [Job -> Status \cup {None}],
          todo : SUBSET Job, mark : Status \cup {"halted"}, ok : BOOLEAN]

NoLocal == [job |-> None, mir |-> None, queue |-> {}, row |-> None,
            list |-> [j \in Job |-> None], todo |-> {}, mark |-> "paused",
            ok |-> TRUE]

TypeOK ==
  /\ kafMirrors \in [Job -> Mirror \cup {None}]
  /\ mu \in Proc \cup {None}
  /\ life \in [Mirror -> {"new", "running", "cancelled", "closed"}]
  /\ jobOf \in [Mirror -> Job \cup {None}]
  /\ db \in [Job -> Status \cup {None}]
  /\ halted \in BOOLEAN /\ tripwire \in BOOLEAN
  /\ wasHalted \in BOOLEAN /\ frozen \in BOOLEAN
  /\ heldBack \in SUBSET Job
  /\ pc \in [Proc -> Phases]
  /\ then \in [Proc -> Seq(Phases)]
  /\ loc \in [Proc -> Local]
  /\ panics \in Nat /\ dbFails \in Nat /\ crashes \in Nat

(* Control: go on at a phase, call a routine and go on at rest, return.   *)
Goto(t, phase, l) ==
  /\ pc' = [pc EXCEPT ![t] = phase]
  /\ loc' = [loc EXCEPT ![t] = l]
  /\ UNCHANGED then

Call(t, phase, rest, l) ==
  /\ pc' = [pc EXCEPT ![t] = phase]
  /\ then' = [then EXCEPT ![t] = rest \o @]
  /\ loc' = [loc EXCEPT ![t] = l]

Return(t, l) ==
  IF then[t] = <<>>
  THEN /\ pc' = [pc EXCEPT ![t] = "idle"]
       /\ loc' = [loc EXCEPT ![t] = NoLocal]
       /\ UNCHANGED then
  ELSE /\ pc' = [pc EXCEPT ![t] = Head(then[t])]
       /\ then' = [then EXCEPT ![t] = Tail(@)]
       /\ loc' = [loc EXCEPT ![t] = l]

(* UpdateJob on a row that may have been deleted in the meantime.         *)
Saved(j, status) == IF db[j] = None THEN db ELSE [db EXCEPT ![j] = status]

(* UpdateJob, which may fail; l is what the process knows after either.   *)
Save(j, status, failing) ==
  IF failing
  THEN dbFails < MaxDbFails /\ dbFails' = dbFails + 1 /\ UNCHANGED db
  ELSE db' = Saved(j, status) /\ UNCHANGED dbFails

IsHalted  == halted \/ tripwire
Quiescent == \A t \in Proc : pc[t] = "idle"
-----------------------------------------------------------------------------
Init ==
  /\ kafMirrors = [j \in Job |-> None]
  /\ mu = None
  /\ life = [m \in Mirror |-> "new"]
  /\ jobOf = [m \in Mirror |-> None]
  /\ db = [j \in Job |-> "paused"]
  /\ halted = FALSE /\ tripwire = FALSE /\ wasHalted = FALSE
  /\ frozen = FALSE /\ heldBack = {}
  /\ pc = [t \in Proc |-> "idle"]
  /\ then = [t \in Proc |-> <<>>]
  /\ loc = [t \in Proc |-> NoLocal]
  /\ panics = 0 /\ dbFails = 0 /\ crashes = 0

(* A request, and the routine that serves it.                             *)
Routine(r) ==
  CASE r = "delete"     -> <<"stop", "delete">>
    [] r = "force"      -> <<"force", "preflight">>
    [] r = "startAll"   -> <<"list">>
    [] r = "restartAll" -> <<"sync">>
    [] OTHER            -> <<r>>

Begin(t, r, j) ==
  /\ pc[t] = "idle"
  /\ Overlap \/ Quiescent
  /\ r \in Request \ {"halt", "resume"}
  /\ Call(t, Head(Routine(r)), Tail(Routine(r)), [NoLocal EXCEPT !.job = j])
  /\ UNCHANGED <<managerVars, mirrorVars, db, guardVars, countVars>>

(* POST /protection/halt, and an automatic halt: the flag, then           *)
(* HaltRunningJobs.                                                       *)
BeginHalt(t) ==
  /\ pc[t] = "idle"
  /\ Overlap \/ Quiescent
  /\ "halt" \in Request
  /\ halted' = TRUE
  /\ Goto(t, "halt", NoLocal)
  /\ UNCHANGED <<managerVars, mirrorVars, db, tripwire, wasHalted, frozen,
                 heldBack, countVars>>

Resume ==
  /\ Overlap \/ Quiescent
  /\ "resume" \in Request
  /\ halted
  /\ halted' = FALSE
  /\ frozen' = (frozen /\ tripwire)
  /\ UNCHANGED <<managerVars, mirrorVars, db, tripwire, wasHalted, heldBack,
                 procVars, countVars>>

(* An operator creates or removes the halt file.                          *)
Trip ==
  /\ Watcher # {}
  /\ tripwire' = ~tripwire
  /\ frozen' = (frozen /\ (halted \/ tripwire'))
  /\ UNCHANGED <<managerVars, mirrorVars, db, halted, wasHalted, heldBack,
                 procVars, countVars>>

(* A tick of watchProtection: a halt it did not see at the last tick is   *)
(* carried out.                                                           *)
Tick(t) ==
  /\ t \in Watcher
  /\ pc[t] = "idle"
  /\ Overlap \/ Quiescent
  /\ wasHalted # IsHalted
  /\ wasHalted' = IsHalted
  /\ IF IsHalted THEN Goto(t, "halt", NoLocal) ELSE UNCHANGED procVars
  /\ UNCHANGED <<managerVars, mirrorVars, db, halted, tripwire, frozen,
                 heldBack, countVars>>
-----------------------------------------------------------------------------
(* Mutant of Start: whether the job runs already is not asked.            *)
StartAgain(t) ==
  /\ pc[t] = "start"
  /\ mu = None
  /\ IF db[loc[t].job] = None
     THEN Return(t, [loc[t] EXCEPT !.ok = FALSE]) /\ UNCHANGED mu
     ELSE mu' = t /\ Goto(t, "guard", loc[t])
  /\ UNCHANGED <<kafMirrors, mirrorVars, db, guardVars, countVars>>

(* StartJob: under Mu, the job must not be running and must have a row.   *)
Start(t) ==
  /\ pc[t] = "start"
  /\ mu = None
  /\ LET j == loc[t].job IN
       IF kafMirrors[j] # None \/ db[j] = None
       THEN Return(t, [loc[t] EXCEPT !.ok = FALSE]) /\ UNCHANGED mu
       ELSE mu' = t /\ Goto(t, "guard", loc[t])
  /\ UNCHANGED <<kafMirrors, mirrorVars, db, guardVars, countVars>>

(* Mutant of Guard: GuardStart is not called.                             *)
GuardOpen(t) ==
  /\ pc[t] = "guard"
  /\ Goto(t, "launch", loc[t])
  /\ UNCHANGED <<mu, kafMirrors, mirrorVars, db, guardVars, countVars>>

(* GuardStart refuses while replication is halted.                        *)
Guard(t) ==
  /\ pc[t] = "guard"
  /\ IF IsHalted
     THEN mu' = None /\ Return(t, [loc[t] EXCEPT !.ok = FALSE])
     ELSE UNCHANGED mu /\ Goto(t, "launch", loc[t])
  /\ UNCHANGED <<kafMirrors, mirrorVars, db, guardVars, countVars>>

(* A new mirror is in the map; it runs, or is being stopped again.        *)
Create(m, j, l) ==
  /\ life[m] = "new"
  /\ life' = [life EXCEPT ![m] = l]
  /\ jobOf' = [jobOf EXCEPT ![m] = j]
  /\ kafMirrors' = [kafMirrors EXCEPT ![j] = m]

StartedBy(t, j) ==
  heldBack' = IF t \in Thread THEN heldBack \ {j} ELSE heldBack

(* The factory may fail.  A job whose row cannot be written is stopped    *)
(* again, under Mu.                                                       *)
Launch(t) ==
  /\ pc[t] = "launch"
  /\ LET j == loc[t].job IN
       \/ /\ mu' = None
          /\ Return(t, [loc[t] EXCEPT !.ok = FALSE])
          /\ UNCHANGED <<kafMirrors, mirrorVars, db, heldBack, dbFails>>
       \/ \E m \in Mirror :
            /\ Create(m, j, "running")
            /\ StartedBy(t, j)
            /\ Save(j, "active", FALSE)
            /\ mu' = None
            /\ Return(t, [loc[t] EXCEPT !.ok = TRUE])
       \/ \E m \in Mirror :
            /\ Create(m, j, "cancelled")
            /\ StartedBy(t, j)
            /\ Save(j, "active", TRUE)
            /\ Call(t, "wait", <<"undo">>, [loc[t] EXCEPT !.mir = m])
            /\ UNCHANGED mu
  /\ UNCHANGED <<halted, tripwire, wasHalted, frozen, panics, crashes>>

Undo(t) ==
  /\ pc[t] = "undo"
  /\ kafMirrors' = [kafMirrors EXCEPT ![loc[t].job] = None]
  /\ mu' = None
  /\ Return(t, [loc[t] EXCEPT !.ok = FALSE, !.mir = None])
  /\ UNCHANGED <<mirrorVars, db, guardVars, countVars>>
-----------------------------------------------------------------------------
(* Mutants of TakeOne: the mirror is left in the map; Mu is kept until    *)
(* the mirror has stopped.                                                *)
TakeNone(t) ==
  /\ pc[t] \in {"stop", "force", "panic"}
  /\ mu = None
  /\ Goto(t, "next", [loc[t] EXCEPT
                        !.queue = {<<loc[t].job, kafMirrors[loc[t].job]>>}])
  /\ UNCHANGED <<managerVars, mirrorVars, db, guardVars, countVars>>

TakeLocked(t) ==
  /\ pc[t] \in {"stop", "force", "panic"}
  /\ mu = None
  /\ mu' = t
  /\ Goto(t, "next", [loc[t] EXCEPT
                        !.queue = {<<loc[t].job, kafMirrors[loc[t].job]>>}])
  /\ UNCHANGED <<kafMirrors, mirrorVars, db, guardVars, countVars>>

(* StopJob, ForceRestartJob and handleJobPanic take the mirror of one job *)
(* out of the map, if there is one.  Without one StopJob looks at the row,*)
(* the others go on as if they had stopped it.                            *)
TakeOne(t) ==
  /\ pc[t] \in {"stop", "force", "panic"}
  /\ mu = None
  /\ LET j == loc[t].job
         m == kafMirrors[j] IN
       /\ kafMirrors' = [kafMirrors EXCEPT ![j] = None]
       /\ IF pc[t] = "stop" /\ m = None
          THEN Goto(t, "notRunning", loc[t])
          ELSE Goto(t, "next",
                 [loc[t] EXCEPT
                    !.queue = {<<j, m>>},
                    !.mark = IF pc[t] = "panic" THEN "failed" ELSE "paused"])
  /\ UNCHANGED <<mu, mirrorVars, db, guardVars, countVars>>

(* StopJob of a job that does not run corrects a row that says it does.   *)
NotRunning(t) ==
  /\ pc[t] = "notRunning"
  /\ IF db[loc[t].job] = "active"
     THEN Goto(t, "write", [loc[t] EXCEPT !.row = "active", !.mark = "paused"])
     ELSE Return(t, loc[t])
  /\ UNCHANGED <<managerVars, mirrorVars, db, guardVars, countVars>>

RunningJobs == {j \in Job : kafMirrors[j] # None}
AllMirrors  == {<<j, kafMirrors[j]>> : j \in RunningJobs}

(* Mutant of TakeAll: HaltRunningJobs does not take Mu.                   *)
TakeAllUnlocked(t) ==
  /\ pc[t] = "halt"
  /\ kafMirrors' = [j \in Job |-> None]
  /\ frozen' = IsHalted
  /\ Goto(t, "next", [loc[t] EXCEPT !.queue = AllMirrors, !.mark = "halted"])
  /\ UNCHANGED <<mu, mirrorVars, db, halted, tripwire, wasHalted, heldBack,
                 countVars>>

(* HaltRunningJobs empties the map, then stops what it took.              *)
TakeAll(t) ==
  /\ pc[t] = "halt"
  /\ mu = None
  /\ kafMirrors' = [j \in Job |-> None]
  /\ frozen' = IsHalted
  /\ Goto(t, "next", [loc[t] EXCEPT !.queue = AllMirrors, !.mark = "halted"])
  /\ UNCHANGED <<mu, mirrorVars, db, halted, tripwire, wasHalted, heldBack,
                 countVars>>

(* StopAllJobs keeps Mu until the last mirror has stopped.                *)
StopAll(t) ==
  /\ pc[t] = "stopAll"
  /\ mu = None
  /\ mu' = t
  /\ Goto(t, "next", [loc[t] EXCEPT !.queue = AllMirrors])
  /\ UNCHANGED <<kafMirrors, mirrorVars, db, guardVars, countVars>>

(* The next mirror: Stop cancels its context.                             *)
NextMirror(t) ==
  /\ pc[t] = "next"
  /\ \/ /\ loc[t].queue = {}
        /\ mu' = IF mu = t THEN None ELSE mu
        /\ Return(t, loc[t])
        /\ UNCHANGED life
     \/ \E q \in loc[t].queue :
          LET l == [loc[t] EXCEPT !.job = q[1], !.mir = q[2],
                                  !.queue = @ \ {q}] IN
          /\ IF q[2] = None
             THEN Goto(t, "read", l) /\ UNCHANGED life
             ELSE /\ life' = [life EXCEPT ![q[2]] = "cancelled"]
                  /\ Call(t, "wait", <<"read">>, l)
          /\ UNCHANGED mu
  /\ UNCHANGED <<kafMirrors, jobOf, db, guardVars, countVars>>

(* Stop waits for the goroutines of the mirror, a panicking one included, *)
(* and closes its clients.                                                *)
Wait(t) ==
  /\ pc[t] = "wait"
  /\ pc[loc[t].mir] = "idle"
  /\ life' = [life EXCEPT ![loc[t].mir] = "closed"]
  /\ Return(t, loc[t])
  /\ UNCHANGED <<managerVars, jobOf, db, guardVars, countVars>>

(* The row of a stopped job is read; StopAllJobs deletes the map entry    *)
(* first.                                                                 *)
Read(t) ==
  /\ pc[t] = "read"
  /\ LET j == loc[t].job IN
       /\ kafMirrors' = IF mu = t THEN [kafMirrors EXCEPT ![j] = None]
                                  ELSE kafMirrors
       /\ Goto(t, IF db[j] = None THEN "next" ELSE "write",
               [loc[t] EXCEPT !.row = db[j], !.ok = db[j] # None,
                              !.mir = None])
  /\ UNCHANGED <<mu, mirrorVars, db, guardVars, countVars>>

(* Mutant of Write: the reason of a halt is written for the status.       *)
WriteReason(t) ==
  /\ pc[t] = "write"
  /\ Save(loc[t].job, loc[t].mark, FALSE)
  /\ Goto(t, "next", [loc[t] EXCEPT !.ok = TRUE, !.row = None])
  /\ UNCHANGED <<managerVars, mirrorVars, guardVars, panics, crashes>>

(* ... and written back as paused or failed.                              *)
Write(t) ==
  /\ pc[t] = "write"
  /\ LET j == loc[t].job
         byHalt == loc[t].mark = "halted" IN
     \E failing \in BOOLEAN :
       /\ Save(j, IF byHalt THEN "paused" ELSE loc[t].mark, failing)
       /\ heldBack' = IF byHalt /\ ~failing /\ kafMirrors[j] = None
                      THEN heldBack \cup {j} ELSE heldBack
       /\ Goto(t, "next", [loc[t] EXCEPT !.ok = ~failing, !.row = None])
  /\ UNCHANGED <<managerVars, mirrorVars, halted, tripwire, wasHalted, frozen,
                 panics, crashes>>
-----------------------------------------------------------------------------
(* handleDeleteJob, after StopJob.                                        *)
Delete(t) ==
  /\ pc[t] = "delete"
  /\ \/ db' = [db EXCEPT ![loc[t].job] = None] /\ UNCHANGED dbFails
     \/ dbFails < MaxDbFails /\ dbFails' = dbFails + 1 /\ UNCHANGED db
  /\ Return(t, loc[t])
  /\ UNCHANGED <<managerVars, mirrorVars, guardVars, panics, crashes>>

(* RestartJob reads the row, stops the job if the row says it is active,  *)
(* starts it, and writes the row it read at first.                        *)
Restart(t) ==
  /\ pc[t] = "restart"
  /\ LET j == loc[t].job
         l == [loc[t] EXCEPT !.list[j] = db[j]] IN
       IF db[j] = None THEN Return(t, loc[t])
       ELSE IF db[j] = "active" THEN Call(t, "stop", <<"start", "restartSave">>, l)
       ELSE Call(t, "start", <<"restartSave">>, l)
  /\ UNCHANGED <<managerVars, mirrorVars, db, guardVars, countVars>>

(* Mutant of RestartSave: the error of StartJob is ignored.               *)
RestartSaveAlways(t) ==
  /\ pc[t] = "restartSave"
  /\ Save(loc[t].job, "active", FALSE)
  /\ Return(t, loc[t])
  /\ UNCHANGED <<managerVars, mirrorVars, guardVars, panics, crashes>>

RestartSave(t) ==
  /\ pc[t] = "restartSave"
  /\ \/ loc[t].ok /\ \E failing \in BOOLEAN : Save(loc[t].job, "active", failing)
     \/ ~loc[t].ok /\ UNCHANGED <<db, dbFails>>
  /\ Return(t, loc[t])
  /\ UNCHANGED <<managerVars, mirrorVars, guardVars, panics, crashes>>

(* ForceRestartJob gives up if the row is gone or could not be written,   *)
(* or if a cluster is not healthy.                                        *)
Preflight(t) ==
  /\ pc[t] = "preflight"
  /\ \/ Return(t, loc[t])
     \/ loc[t].ok /\ Goto(t, "start", loc[t])
  /\ UNCHANGED <<managerVars, mirrorVars, db, guardVars, countVars>>

(* performDynamicThrottling reads the row ...                             *)
Throttle(t) ==
  /\ pc[t] = "throttle"
  /\ LET j == loc[t].job IN
       IF db[j] = None THEN Return(t, loc[t])
       ELSE Goto(t, "apply", [loc[t] EXCEPT !.list[j] = db[j]])
  /\ UNCHANGED <<managerVars, mirrorVars, db, guardVars, countVars>>

(* ... and applyThrottlingChanges writes it back under Mu and restarts    *)
(* the mirror with the new sizes, without asking GuardStart.              *)
Apply(t) ==
  /\ pc[t] = "apply"
  /\ mu = None
  /\ LET j == loc[t].job
         m == kafMirrors[j] IN
       \/ /\ m = None
          /\ Return(t, loc[t])
          /\ UNCHANGED <<mu, life, db, dbFails>>
       \/ /\ m # None
          /\ Save(j, loc[t].list[j], TRUE)
          /\ Return(t, loc[t])
          /\ UNCHANGED <<mu, life>>
       \/ /\ m # None
          /\ Save(j, loc[t].list[j], FALSE)
          /\ mu' = t
          /\ life' = [life EXCEPT ![m] = "cancelled"]
          /\ Call(t, "wait", <<"relaunch">>, [loc[t] EXCEPT !.mir = m])
  /\ UNCHANGED <<kafMirrors, jobOf, guardVars, panics, crashes>>

Relaunch(t) ==
  /\ pc[t] = "relaunch"
  /\ mu' = None
  /\ Return(t, loc[t])
  /\ LET j == loc[t].job IN
       \/ /\ kafMirrors' = [kafMirrors EXCEPT ![j] = None]
          /\ UNCHANGED <<mirrorVars, db, dbFails>>
       \/ /\ \E m \in Mirror : Create(m, j, "running")
          /\ \E failing \in BOOLEAN : Save(j, "active", failing)
  /\ UNCHANGED <<guardVars, panics, crashes>>

(* handleUpdateJob: the row is read, changed and written back.            *)
Update(t) ==
  /\ pc[t] = "update"
  /\ LET j == loc[t].job IN
       IF db[j] = None THEN Return(t, loc[t])
       ELSE Goto(t, "updateSave", [loc[t] EXCEPT !.list[j] = db[j]])
  /\ UNCHANGED <<managerVars, mirrorVars, db, guardVars, countVars>>

UpdateSave(t) ==
  /\ pc[t] = "updateSave"
  /\ \E failing \in BOOLEAN :
       Save(loc[t].job, loc[t].list[loc[t].job], failing)
  /\ Return(t, loc[t])
  /\ UNCHANGED <<managerVars, mirrorVars, guardVars, panics, crashes>>
-----------------------------------------------------------------------------
(* SyncJobStates: under Mu, the rows are listed ...                       *)
Sync(t) ==
  /\ pc[t] = "sync"
  /\ mu = None
  /\ mu' = t
  /\ Goto(t, "syncSave", [loc[t] EXCEPT !.list = db])
  /\ UNCHANGED <<kafMirrors, mirrorVars, db, guardVars, countVars>>

(* ... and those that disagree with the map are corrected, as far as the  *)
(* writes succeed.                                                        *)
SyncSave(t) ==
  /\ pc[t] = "syncSave"
  /\ LET wrong == {j \in Job :
                    \/ loc[t].list[j] = "active" /\ kafMirrors[j] = None
                    \/ loc[t].list[j] = "paused" /\ kafMirrors[j] # None}
     IN \E lost \in SUBSET wrong :
          /\ dbFails + Cardinality(lost) <= MaxDbFails
          /\ dbFails' = dbFails + Cardinality(lost)
          /\ db' = [j \in Job |->
                      IF j \notin wrong \ lost \/ db[j] = None THEN db[j]
                      ELSE IF kafMirrors[j] = None THEN "paused" ELSE "active"]
  /\ mu' = None
  /\ Goto(t, "listAll", loc[t])
  /\ UNCHANGED <<kafMirrors, mirrorVars, guardVars, panics, crashes>>

(* RestartAllJobs: list the rows, stop what runs, start what the list     *)
(* says was active.                                                       *)
ListAll(t) ==
  /\ pc[t] = "listAll"
  /\ Goto(t, "collect", [loc[t] EXCEPT !.list = db])
  /\ UNCHANGED <<managerVars, mirrorVars, db, guardVars, countVars>>

(* Mutant of Collect: Mu is kept until RestartAllJobs returns.            *)
CollectLocked(t) ==
  /\ pc[t] = "collect"
  /\ mu = None
  /\ mu' = t
  /\ Goto(t, "stopEach", [loc[t] EXCEPT !.todo = RunningJobs])
  /\ UNCHANGED <<kafMirrors, mirrorVars, db, guardVars, countVars>>

Collect(t) ==
  /\ pc[t] = "collect"
  /\ mu = None
  /\ Goto(t, "stopEach", [loc[t] EXCEPT !.todo = RunningJobs])
  /\ UNCHANGED <<managerVars, mirrorVars, db, guardVars, countVars>>

StopEach(t) ==
  /\ pc[t] = "stopEach"
  /\ \/ /\ loc[t].todo = {}
        /\ Goto(t, "startEach",
             [loc[t] EXCEPT !.todo = {j \in Job : loc[t].list[j] = "active"}])
     \/ \E j \in loc[t].todo :
          Call(t, "stop", <<"stopEach">>,
               [loc[t] EXCEPT !.job = j, !.todo = @ \ {j}])
  /\ UNCHANGED <<managerVars, mirrorVars, db, guardVars, countVars>>

(* StartAllJobs starts the jobs that are not active, the reconciliation   *)
(* of a starting program those that are.                                  *)
List(t) ==
  /\ pc[t] = "list"
  /\ Goto(t, "startEach",
       [loc[t] EXCEPT
          !.list = db,
          !.todo = {j \in Job : db[j] # None
                                 /\ (db[j] = "active" <=> t \in Booter)}])
  /\ UNCHANGED <<managerVars, mirrorVars, db, guardVars, countVars>>

StartEach(t) ==
  /\ pc[t] = "startEach"
  /\ \/ loc[t].todo = {} /\ Return(t, loc[t])
     \/ \E j \in loc[t].todo :
          Call(t, "start",
               IF t \in Booter THEN <<"bootSave", "startEach">>
                               ELSE <<"startEach">>,
               [loc[t] EXCEPT !.job = j, !.todo = @ \ {j}])
  /\ UNCHANGED <<managerVars, mirrorVars, db, guardVars, countVars>>

(* Mutant of BootSave: a job that could not be started stays active.      *)
BootSaveNever(t) ==
  /\ pc[t] = "bootSave"
  /\ Return(t, loc[t])
  /\ UNCHANGED <<managerVars, mirrorVars, db, guardVars, countVars>>

(* reconcileAndStartJobs: a job that could not be started is paused.      *)
BootSave(t) ==
  /\ pc[t] = "bootSave"
  /\ \/ loc[t].ok /\ UNCHANGED <<db, dbFails>>
     \/ ~loc[t].ok /\ \E failing \in BOOLEAN :
                        Save(loc[t].job, "paused", failing)
  /\ Return(t, loc[t])
  /\ UNCHANGED <<managerVars, mirrorVars, guardVars, panics, crashes>>
-----------------------------------------------------------------------------
(* A goroutine of a mirror panics, or sees more than 100 produce errors   *)
(* in a row: it calls handleJobPanic, and does not end before that does.  *)
Panic(m) ==
  /\ life[m] \in {"running", "cancelled"}
  /\ pc[m] = "idle"
  /\ panics < MaxPanics
  /\ panics' = panics + 1
  /\ Goto(m, "panic", [NoLocal EXCEPT !.job = jobOf[m]])
  /\ UNCHANGED <<managerVars, mirrorVars, db, guardVars, dbFails, crashes>>

(* The program dies and is started again: the database is what is left.   *)
Crash ==
  /\ crashes < MaxCrashes
  /\ crashes' = crashes + 1
  /\ kafMirrors' = [j \in Job |-> None]
  /\ mu' = None
  /\ life' = [m \in Mirror |-> IF life[m] = "new" THEN "new" ELSE "closed"]
  /\ pc' = [t \in Proc |-> IF t \in Booter THEN "list" ELSE "idle"]
  /\ then' = [t \in Proc |-> <<>>]
  /\ loc' = [t \in Proc |-> NoLocal]
  /\ wasHalted' = FALSE
  /\ UNCHANGED <<jobOf, db, halted, tripwire, frozen, heldBack, panics, dbFails>>

(* What a process does once it has begun.                                 *)
Step(t) ==
  \/ Start(t) \/ Guard(t) \/ Launch(t) \/ Undo(t)
  \/ TakeOne(t) \/ NotRunning(t) \/ TakeAll(t) \/ StopAll(t)
  \/ NextMirror(t) \/ Wait(t) \/ Read(t) \/ Write(t)
  \/ Delete(t) \/ Restart(t) \/ RestartSave(t) \/ Preflight(t)
  \/ Throttle(t) \/ Apply(t) \/ Relaunch(t) \/ Update(t) \/ UpdateSave(t)
  \/ Sync(t) \/ SyncSave(t) \/ ListAll(t) \/ Collect(t) \/ StopEach(t)
  \/ List(t) \/ StartEach(t) \/ BootSave(t)

Next ==
  \/ \E t \in Thread : BeginHalt(t) \/ \E r \in Requests, j \in Job : Begin(t, r, j)
  \/ \E t \in Proc : Step(t) \/ Tick(t)
  \/ \E m \in Mirror : Panic(m)
  \/ Resume \/ Trip \/ Crash

Spec == Init /\ [][Next]_vars

(* Goroutines run; sync.Mutex hands over to a goroutine that has waited   *)
(* for long, so that nobody starves; the ticker of watchProtection ticks. *)
Fairness ==
  \A t \in Proc : SF_vars(Step(t)) /\ WF_vars(Tick(t))

FairSpec == Spec /\ Fairness
-----------------------------------------------------------------------------
(* The mirrors a process has taken to stop them, and has not stopped yet. *)
Hand(t) == {q[2] : q \in loc[t].queue}
             \cup (IF pc[t] = "wait" THEN {loc[t].mir} ELSE {})

Alive(m) == life[m] \in {"running", "cancelled"}

(* No mirror is lost: one that replicates, or could again, is in the map, *)
(* where StopJob and HaltRunningJobs find it, or some goroutine is about  *)
(* to stop it.                                                            *)
NoOrphan ==
  \A m \in Mirror :
    Alive(m) => \/ \E j \in Job : kafMirrors[j] = m
                \/ \E t \in Proc : m \in Hand(t)

(* A mirror is stopped by one goroutine only (its clients are closed      *)
(* once), and the map offers nobody a mirror that is being stopped.       *)
OneStopper ==
  \A m \in Mirror :
    /\ \A t, u \in Proc : m \in Hand(t) \cap Hand(u) => t = u
    /\ \A j \in Job : kafMirrors[j] = m =>
         /\ jobOf[m] = j
         /\ mu = None => life[m] = "running"
         /\ \A t \in Proc : m \in Hand(t) => mu = t

(* The goroutine that t waits for: the one that has Mu, or the one of the *)
(* mirror t stops.                                                        *)
Asking == {"start", "stop", "force", "panic", "halt", "stopAll", "apply",
           "sync", "collect"}

WaitsFor(t) ==
  {u \in Proc : \/ pc[t] \in Asking /\ mu = u
                \/ pc[t] = "wait" /\ loc[t].mir = u /\ pc[u] # "idle"}

(* Goroutines wait for each other in a circle only through a mirror that  *)
(* is in handleJobPanic: whoever else has Mu is under way, and waits for  *)
(* nobody but such a mirror.                                              *)
DeadlockNeedsPanic ==
  \A t \in Proc : \A u \in WaitsFor(t) \ Mirror :
    pc[u] # "idle" /\ WaitsFor(u) \subseteq Mirror

(* A halt is final: once it has emptied the map, nothing runs until the   *)
(* halt is cleared, whoever was about to start or throttle a job.         *)
HaltIsFinal == frozen => \A j \in Job : kafMirrors[j] = None

(* Jobs a halt has paused stay paused until an admin starts them, also in *)
(* the database, from which a program that starts again takes what to run.*)
HaltedStayPaused ==
  \A j \in heldBack : kafMirrors[j] = None /\ db[j] # "active"

(* When nothing is going on, the database says of each job what is true.  *)
StatusAgrees ==
  Quiescent =>
    \A j \in Job : db[j] # None => (db[j] = "active" <=> kafMirrors[j] # None)

(* Every request is answered: nobody waits for Mu or a mirror for ever.   *)
RequestsFinish ==
  \A t \in Thread : pc[t] # "idle" ~> pc[t] = "idle"

(* onPanic triggers a shutdown of its mirror.                             *)
PanicShutsDown ==
  \A m \in Mirror : pc[m] # "idle" ~> life[m] = "closed"

(* A halt file pauses every running job: after it has been put in place   *)
(* no mirror stays in the map while it is there.                          *)
TripwireHalts ==
  tripwire ~> (~tripwire \/ \A j \in Job : kafMirrors[j] = None)
-----------------------------------------------------------------------------
(* Whatever the goroutines do, the manager keeps its contract: a mirror    *)
(* that is stopped under Mu (StopAllJobs, a start that is undone, a        *)
(* throttled restart) stays in the map until it is closed, one that was    *)
(* taken out is stopped by whoever took it and serves no more, and nothing *)
(* comes into the map while a halt stands.                                 *)
Contract == INSTANCE ManagerContract WITH ordered  <- IsHalted,
                                          standing <- frozen

ContractSpec == Contract!Spec
=============================================================================
