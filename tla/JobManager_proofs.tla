-------------------------- MODULE JobManager_proofs --------------------------
(***************************************************************************)
(* Proofs about JobManager, for any jobs, mirrors, goroutines and bounds.  *)
(* The invariant says who holds Mu, what a goroutine returns to, and where *)
(* each mirror is: not created, in the map, in one hand, or closed; hence  *)
(* the manager implements ManagerContract.  The second part is about       *)
(* requests that come one at a time: what the one goroutine at work has    *)
(* still to settle, and what a halt holds back.                            *)
(***************************************************************************)
EXTENDS JobManager, SequenceTheorems, FiniteSetTheorems, TLAPS

(* Phases a goroutine returns to, but for what comes after a wait, and the *)
(* phases in which it stops mirrors.                                       *)
Resting  == {"delete", "preflight", "start", "restartSave", "stopEach",
             "bootSave", "startEach"}
Stopping == {"next", "wait", "read", "write"}

(* A goroutine waits to read the row, or, under Mu, to undo a start or to  *)
(* start the mirror again.                                                 *)
StackInv ==
  \A t \in Proc :
    /\ pc[t] # "wait" => then[t] \in Seq(Resting)
    /\ pc[t] = "wait" => /\ then[t] \in Seq(Phases) /\ then[t] # <<>>
                         /\ Head(then[t]) \in {"read", "undo", "relaunch"}
                         /\ Tail(then[t]) \in Seq(Resting)
    /\ pc[t] = "idle" => then[t] = <<>>

(* A goroutine without a job is at the beginning of one of the operations  *)
(* on all of them.                                                         *)
JobInv ==
  \A t \in Proc :
    loc[t].job = None => /\ pc[t] \in {"idle", "halt", "next", "list", "startEach"}
                         /\ then[t] = <<>>

(* Where Mu is held, between its Lock and its Unlock.                      *)
Within(t) == \/ pc[t] \in {"guard", "launch", "undo", "relaunch", "syncSave"}
             \/ pc[t] = "wait" /\ Head(then[t]) \in {"undo", "relaunch"}
LockInv == \A t \in Proc : Within(t) => mu = t

(* The mirror that a goroutine has under Mu, in the map as well.           *)
Holds(t, j, m) ==
  /\ mu = t /\ loc[t].job = j /\ loc[t].mir = m
  /\ pc[t] \in {"wait", "undo", "relaunch", "read"}

MapInv ==
  \A j \in Job, m \in Mirror :
    kafMirrors[j] = m =>
      /\ jobOf[m] = j /\ life[m] # "new"
      /\ life[m] = "running" \/ \E t \in Proc : Holds(t, j, m)

(* What a goroutine is to stop runs, and what it waits for is cancelled.   *)
(* Under Mu both are still in the map.                                     *)
QueueInv ==
  \A t \in Proc :
    /\ pc[t] \notin Stopping => loc[t].queue = {}
    /\ pc[t] = "wait" /\ Head(then[t]) # "read" => loc[t].queue = {}
    /\ \A q \in loc[t].queue :
         /\ q[2] # None => life[q[2]] = "running" /\ jobOf[q[2]] = q[1]
         /\ mu = t => q[2] # None /\ kafMirrors[q[1]] = q[2]

WaitInv ==
  \A t \in Proc :
    /\ pc[t] = "wait" => /\ loc[t].mir \in Mirror
                         /\ life[loc[t].mir] = "cancelled"
    /\ pc[t] \in {"undo", "relaunch", "read"} /\ mu = t =>
         /\ loc[t].mir \in Mirror
         /\ life[loc[t].mir] = "closed"
    /\ mu = t /\ pc[t] \in {"wait", "undo", "relaunch", "read"} =>
         kafMirrors[loc[t].job] = loc[t].mir
    /\ pc[t] \in {"guard", "launch"} => kafMirrors[loc[t].job] = None

(* No mirror is in two hands, nor in the map and in the hand of a          *)
(* goroutine that does not have Mu.                                        *)
OneHand ==
  \A m \in Mirror, t \in Proc :
    m \in Hand(t) => /\ \A u \in Proc : m \in Hand(u) => t = u
                     /\ \A j \in Job : kafMirrors[j] = m => mu = t

JobOfInv ==
  \A m \in Mirror :
    /\ life[m] = "new" \/ jobOf[m] \in Job
    /\ life[m] = "new" => pc[m] = "idle"

(* A halt that stands has left nobody with a mirror to start.              *)
FrozenInv ==
  frozen => /\ IsHalted
            /\ \A j \in Job : kafMirrors[j] = None
            /\ \A t \in Proc :
                 /\ pc[t] \notin {"launch", "relaunch"}
                 /\ pc[t] = "wait" => Head(then[t]) # "relaunch"

MirrorInv == MapInv /\ QueueInv /\ WaitInv /\ OneHand /\ JobOfInv /\ NoOrphan
IInv == TypeOK /\ StackInv /\ JobInv /\ LockInv /\ MirrorInv /\ FrozenInv
-----------------------------------------------------------------------------
(* Sequences of phases as stacks.                                          *)
LEMMA Push1 ==
  ASSUME NEW h, NEW S, NEW s \in Seq(S)
  PROVE  /\ <<h>> \o s # <<>>
         /\ Head(<<h>> \o s) = h /\ Tail(<<h>> \o s) = s
         /\ <<h>> \o s \in Seq(S \cup {h})
<1> DEFINE R == S \cup {h}
<1>1. <<h>> \in Seq(R) /\ s \in Seq(R)
  BY SeqMonotonic
<1>2. /\ <<h>> \o s \in Seq(R)
      /\ Len(<<h>> \o s) = 1 + Len(s)
      /\ \A i \in 1 .. 1 + Len(s) :
           (<<h>> \o s)[i] = IF i <= 1 THEN h ELSE s[i - 1]
  BY <1>1
<1> QED
  BY <1>1, <1>2

(* What a goroutine does next: control after a Goto, a Call and a Return.  *)
ControlOK ==
  /\ pc \in [Proc -> Phases] /\ then \in [Proc -> Seq(Phases)]
  /\ loc \in [Proc -> Local]
  /\ StackInv /\ JobInv

LEMMA AfterGoto ==
  ASSUME ControlOK, NEW t \in Proc, NEW phase \in Phases \ {"wait", "idle"},
         NEW l \in Local, pc[t] # "wait", Goto(t, phase, l),
         l.job = None => /\ phase \in {"halt", "next", "list", "startEach"}
                         /\ then[t] = <<>>
  PROVE  ControlOK'
<1>1. /\ pc' \in [Proc -> Phases] /\ loc' \in [Proc -> Local]
      /\ then' = then /\ pc'[t] = phase /\ loc'[t] = l
      /\ \A u \in Proc \ {t} : pc'[u] = pc[u] /\ loc'[u] = loc[u]
  BY DEF ControlOK, Goto
<1> QED
  BY <1>1 DEF ControlOK, StackInv, JobInv

LEMMA AfterCall ==
  ASSUME ControlOK, NEW t \in Proc, NEW phase \in Phases \ {"wait", "idle"},
         NEW rest \in Seq(Resting), NEW l \in Local, pc[t] # "wait",
         Call(t, phase, rest, l), l.job # None
  PROVE  ControlOK'
<1>1. rest \o then[t] \in Seq(Resting)
  BY DEF ControlOK, StackInv
<1>2. rest \o then[t] \in Seq(Phases)
  BY <1>1, SeqMonotonic, Resting \subseteq Phases DEF Resting, Phases
<1>3. /\ pc' \in [Proc -> Phases] /\ loc' \in [Proc -> Local]
      /\ then' \in [Proc -> Seq(Phases)]
      /\ pc'[t] = phase /\ loc'[t] = l /\ then'[t] = rest \o then[t]
      /\ \A u \in Proc \ {t} : /\ pc'[u] = pc[u] /\ loc'[u] = loc[u]
                               /\ then'[u] = then[u]
  BY <1>2 DEF ControlOK, Call
<1> QED
  BY <1>1, <1>3 DEF ControlOK, StackInv, JobInv

LEMMA AfterCallOfWait ==
  ASSUME ControlOK, NEW t \in Proc, NEW h \in {"read", "undo", "relaunch"},
         NEW l \in Local, pc[t] # "wait", Call(t, "wait", <<h>>, l),
         l.job # None
  PROVE  ControlOK' /\ Head(then'[t]) = h
<1>1. then[t] \in Seq(Resting)
  BY DEF ControlOK, StackInv
<1>2. /\ <<h>> \o then[t] # <<>>
      /\ Head(<<h>> \o then[t]) = h /\ Tail(<<h>> \o then[t]) = then[t]
      /\ <<h>> \o then[t] \in Seq(Resting \cup {h})
  BY <1>1, Push1
<1>3. <<h>> \o then[t] \in Seq(Phases)
  BY <1>2, SeqMonotonic, Resting \cup {h} \subseteq Phases
     DEF Resting, Phases
<1>4. /\ pc' \in [Proc -> Phases] /\ loc' \in [Proc -> Local]
      /\ then' \in [Proc -> Seq(Phases)]
      /\ pc'[t] = "wait" /\ loc'[t] = l /\ then'[t] = <<h>> \o then[t]
      /\ \A u \in Proc \ {t} : /\ pc'[u] = pc[u] /\ loc'[u] = loc[u]
                               /\ then'[u] = then[u]
  BY <1>3 DEF ControlOK, Call, Phases
<1> QED
  BY <1>1, <1>2, <1>4 DEF ControlOK, StackInv, JobInv

LEMMA AfterReturn ==
  ASSUME ControlOK, NEW t \in Proc, NEW l \in Local, Return(t, l),
         l.job = loc[t].job
  PROVE  /\ ControlOK'
         /\ loc'[t] = IF pc'[t] = "idle" THEN NoLocal ELSE l
         /\ pc[t] # "wait" => pc'[t] \in Resting \cup {"idle"}
         /\ pc[t] = "wait" => pc'[t] = Head(then[t]) /\ loc'[t] = l
<1>1. CASE then[t] = <<>>
  <2>1. NoLocal \in Local
    BY DEF NoLocal, Local, Status
  <2>2. /\ pc' \in [Proc -> Phases] /\ loc' \in [Proc -> Local]
        /\ then' = then /\ pc'[t] = "idle" /\ loc'[t] = NoLocal
        /\ \A u \in Proc \ {t} : pc'[u] = pc[u] /\ loc'[u] = loc[u]
    BY <1>1, <2>1 DEF ControlOK, Return, Phases
  <2>3. pc[t] # "wait"
    BY <1>1 DEF ControlOK, StackInv
  <2>4. StackInv'
    BY <1>1, <2>2, <2>3 DEF ControlOK, StackInv
  <2>5. JobInv'
    BY <1>1, <2>2 DEF ControlOK, JobInv
  <2> QED
    BY <2>2, <2>3, <2>4, <2>5 DEF ControlOK
<1>2. CASE then[t] # <<>>
  <2>1. /\ Head(then[t]) \in Phases \ {"wait", "idle"}
        /\ Tail(then[t]) \in Seq(Resting)
        /\ pc[t] # "wait" => Head(then[t]) \in Resting
        /\ pc[t] = "wait" => Head(then[t]) \in {"read", "undo", "relaunch"}
    BY <1>2, HeadTailProperties DEF ControlOK, StackInv, Resting, Phases
  <2>2. Tail(then[t]) \in Seq(Phases)
    BY <2>1, SeqMonotonic, Resting \subseteq Phases DEF Resting, Phases
  <2>3. /\ pc' \in [Proc -> Phases] /\ loc' \in [Proc -> Local]
        /\ then' \in [Proc -> Seq(Phases)]
        /\ pc'[t] = Head(then[t]) /\ loc'[t] = l
        /\ then'[t] = Tail(then[t])
        /\ \A u \in Proc \ {t} : /\ pc'[u] = pc[u] /\ loc'[u] = loc[u]
                                 /\ then'[u] = then[u]
    BY <1>2, <2>1, <2>2 DEF ControlOK, Return
  <2>4. l.job # None
    BY <1>2 DEF ControlOK, JobInv
  <2>5. StackInv'
    BY <2>1, <2>3 DEF ControlOK, StackInv
  <2>6. JobInv'
    BY <2>3, <2>4 DEF ControlOK, JobInv
  <2> QED
    BY <2>1, <2>3, <2>5, <2>6 DEF ControlOK
<1> QED
  BY <1>1, <1>2

(* Every step of a goroutine leaves control in order.                      *)
LEMMA StepControl ==
  ASSUME TypeOK, ControlOK, JobOfInv, NEW t \in Proc, Step(t)
  PROVE  ControlOK'
<1>0. /\ loc[t] \in Local /\ db \in [Job -> Status \cup {None}]
      /\ kafMirrors \in [Job -> Mirror \cup {None}]
      /\ None \notin Job
  BY ManagerAssumption DEF TypeOK
<1>j. ASSUME pc[t] \notin {"idle", "halt", "next", "list", "startEach"}
      PROVE  loc[t].job \in Job
  BY <1>j, <1>0 DEF ControlOK, JobInv, Local
<1>r. ASSUME NEW l \in Local, l.job = loc[t].job, Return(t, l)
      PROVE  ControlOK'
  BY <1>r, AfterReturn
<1>g. ASSUME NEW phase \in Phases \ {"wait", "idle"}, NEW l \in Local,
             pc[t] \notin {"wait", "idle", "halt", "next", "list", "startEach"},
             l.job = loc[t].job, Goto(t, phase, l)
      PROVE  ControlOK'
  BY <1>0, <1>g, <1>j, AfterGoto
<1>1. CASE Start(t)
  <2>1. [loc[t] EXCEPT !.ok = FALSE] \in Local
    BY <1>0 DEF Local
  <2> QED
    BY <1>1, <1>0, <1>r, <1>g, <2>1 DEF Start, Phases, Local
<1>2. CASE Guard(t)
  <2>1. [loc[t] EXCEPT !.ok = FALSE] \in Local
    BY <1>0 DEF Local
  <2> QED
    BY <1>2, <1>0, <1>r, <1>g, <2>1 DEF Guard, Phases, Local
<1>3. CASE Launch(t)
  <2>1. \A b \in BOOLEAN : [loc[t] EXCEPT !.ok = b] \in Local
    BY <1>0 DEF Local
  <2>2. \A m \in Mirror : [loc[t] EXCEPT !.mir = m] \in Local
    BY <1>0 DEF Local
  <2>3. loc[t].job # None
    BY <1>0, <1>3, <1>j DEF Launch
  <2>4. ASSUME NEW m \in Mirror,
               Call(t, "wait", <<"undo">>, [loc[t] EXCEPT !.mir = m])
        PROVE  ControlOK'
    BY <1>0, <1>3, <2>2, <2>3, <2>4, AfterCallOfWait DEF Launch, Local
  <2> QED
    BY <1>3, <1>0, <1>r, <2>1, <2>4 DEF Launch, Local
<1>4. CASE Undo(t)
  <2>1. [loc[t] EXCEPT !.ok = FALSE, !.mir = None] \in Local
    BY <1>0 DEF Local
  <2> QED
    BY <1>4, <1>0, <1>r, <2>1 DEF Undo, Local
<1>5. CASE TakeOne(t)
  <2>1. loc[t].job \in Job
    BY <1>5, <1>j DEF TakeOne
  <2> DEFINE taken == {<<loc[t].job, kafMirrors[loc[t].job]>>}
  <2>2. taken \in SUBSET (Job \X (Mirror \cup {None}))
    BY <1>0, <2>1
  <2> HIDE DEF taken
  <2>3. \A mk \in {"failed", "paused"} :
          [loc[t] EXCEPT !.queue = taken, !.mark = mk] \in Local
    BY <1>0, <2>2 DEF Local, Status
  <2> QED
    BY <1>5, <1>0, <1>g, <2>3 DEF TakeOne, Phases, Local, taken
<1>6. CASE NotRunning(t)
  <2>1. [loc[t] EXCEPT !.row = "active", !.mark = "paused"] \in Local
    BY <1>0 DEF Local, Status
  <2> QED
    BY <1>6, <1>0, <1>r, <1>g, <2>1 DEF NotRunning, Phases, Local
<1>q. AllMirrors \in SUBSET (Job \X (Mirror \cup {None}))
  BY <1>0 DEF AllMirrors, RunningJobs
<1>7. CASE TakeAll(t)
  <2>1. [loc[t] EXCEPT !.queue = AllMirrors, !.mark = "halted"] \in Local
    BY <1>0, <1>q DEF Local
  <2> QED
    BY <1>7, <1>0, <2>1, AfterGoto DEF TakeAll, Phases, Local, ControlOK, JobInv
<1>8. CASE StopAll(t)
  <2>1. [loc[t] EXCEPT !.queue = AllMirrors] \in Local
    BY <1>0, <1>q DEF Local
  <2> QED
    BY <1>8, <1>0, <1>g, <2>1 DEF StopAll, Phases, Local
<1>9. CASE NextMirror(t)
  <2>1. CASE Return(t, loc[t])
    BY <2>1, <1>0, <1>r
  <2>2. CASE ~ Return(t, loc[t])
    <3>1. PICK q \in loc[t].queue :
            LET l == [loc[t] EXCEPT !.job = q[1], !.mir = q[2],
                                    !.queue = @ \ {q}]
            IN  IF q[2] = None THEN Goto(t, "read", l)
                ELSE Call(t, "wait", <<"read">>, l)
      BY <1>9, <2>2 DEF NextMirror
    <3> DEFINE l == [loc[t] EXCEPT !.job = q[1], !.mir = q[2],
                                   !.queue = @ \ {q}]
    <3>2. q[1] \in Job /\ q[2] \in Mirror \cup {None}
      BY <1>0 DEF Local
    <3>3. l \in Local /\ l.job = q[1]
      BY <1>0, <3>2 DEF Local
    <3> HIDE DEF l
    <3>4. pc[t] = "next"
      BY <1>9 DEF NextMirror
    <3>5. CASE q[2] = None
      BY <1>0, <3>1, <3>2, <3>3, <3>4, <3>5, AfterGoto DEF l, Phases
    <3>6. CASE q[2] # None
      BY <1>0, <3>1, <3>2, <3>3, <3>4, <3>6, AfterCallOfWait DEF l
    <3> QED
      BY <3>5, <3>6
  <2> QED
    BY <2>1, <2>2
<1>10. CASE Wait(t)
  BY <1>10, <1>0, <1>r DEF Wait
<1>11. CASE Read(t)
  <2>1. loc[t].job \in Job
    BY <1>11, <1>j DEF Read
  <2>2. [loc[t] EXCEPT !.row = db[loc[t].job], !.ok = db[loc[t].job] # None,
                       !.mir = None] \in Local
    BY <1>0, <2>1 DEF Local
  <2> QED
    BY <1>11, <1>0, <1>g, <2>2 DEF Read, Phases, Local
<1>12. CASE Write(t)
  <2>1. \A b \in BOOLEAN : [loc[t] EXCEPT !.ok = b, !.row = None] \in Local
    BY <1>0 DEF Local
  <2> QED
    BY <1>12, <1>0, <1>g, <2>1 DEF Write, Phases, Local
<1>13. CASE Delete(t) \/ RestartSave(t) \/ UpdateSave(t) \/ BootSave(t)
              \/ Relaunch(t)
  BY <1>13, <1>0, <1>r DEF Delete, RestartSave, UpdateSave, BootSave, Relaunch
<1> DEFINE seen == [loc[t] EXCEPT !.list[loc[t].job] = db[loc[t].job]]
<1>s. ASSUME loc[t].job \in Job PROVE seen \in Local /\ seen.job = loc[t].job
  BY <1>0, <1>s DEF Local
<1> HIDE DEF seen
<1>14. CASE Restart(t)
  <2>1. loc[t].job \in Job /\ pc[t] = "restart"
    BY <1>14, <1>j DEF Restart
  <2>2. /\ <<"start", "restartSave">> \in Seq(Resting)
        /\ <<"restartSave">> \in Seq(Resting)
    BY DEF Resting
  <2>3. \/ Return(t, loc[t])
        \/ Call(t, "stop", <<"start", "restartSave">>, seen)
        \/ Call(t, "start", <<"restartSave">>, seen)
    BY <1>14 DEF Restart, seen
  <2> QED
    BY <1>0, <1>r, <1>s, <2>1, <2>2, <2>3, AfterCall DEF Phases
<1>15. CASE Preflight(t)
  BY <1>15, <1>0, <1>r, <1>g DEF Preflight, Phases
<1>16. CASE Throttle(t)
  <2>1. Return(t, loc[t]) \/ Goto(t, "apply", seen)
    BY <1>16 DEF Throttle, seen
  <2>2. pc[t] = "throttle" /\ loc[t].job \in Job
    BY <1>16, <1>j DEF Throttle
  <2> QED
    BY <1>0, <1>r, <1>g, <1>s, <2>1, <2>2 DEF Phases
<1>17. CASE Apply(t)
  <2>1. pc[t] = "apply" /\ loc[t].job \in Job
    BY <1>17, <1>j DEF Apply
  <2>2. CASE Return(t, loc[t])
    BY <1>0, <1>r, <2>2
  <2>3. CASE ~ Return(t, loc[t])
    <3> DEFINE l == [loc[t] EXCEPT !.mir = kafMirrors[loc[t].job]]
    <3>1. Call(t, "wait", <<"relaunch">>, l)
      BY <1>17, <2>3 DEF Apply
    <3>2. l \in Local /\ l.job # None
      BY <1>0, <2>1 DEF Local
    <3> QED
      BY <2>1, <3>1, <3>2, AfterCallOfWait
  <2> QED
    BY <2>2, <2>3
<1>18. CASE Update(t)
  <2>1. Return(t, loc[t]) \/ Goto(t, "updateSave", seen)
    BY <1>18 DEF Update, seen
  <2>2. pc[t] = "update" /\ loc[t].job \in Job
    BY <1>18, <1>j DEF Update
  <2> QED
    BY <1>0, <1>r, <1>g, <1>s, <2>1, <2>2 DEF Phases
<1>l. \A todo \in SUBSET Job :
        [loc[t] EXCEPT !.list = db, !.todo = todo] \in Local
  BY <1>0 DEF Local
<1>m. \A todo \in SUBSET Job : [loc[t] EXCEPT !.todo = todo] \in Local
  BY <1>0 DEF Local
<1>19. CASE Sync(t) \/ ListAll(t)
  <2>1. [loc[t] EXCEPT !.list = db] \in Local
    BY <1>0 DEF Local
  <2> QED
    BY <1>19, <1>0, <1>g, <2>1 DEF Sync, ListAll, Phases, Local
<1>20. CASE SyncSave(t)
  BY <1>20, <1>0, <1>g DEF SyncSave, Phases
<1>21. CASE Collect(t)
  BY <1>21, <1>0, <1>g, <1>m DEF Collect, Phases, Local, RunningJobs
<1>e. ASSUME NEW j \in loc[t].todo
      PROVE  LET l == [loc[t] EXCEPT !.job = j, !.todo = @ \ {j}]
             IN  l \in Local /\ l.job # None
  BY <1>0 DEF Local
<1>22. CASE StopEach(t)
  <2>0. <<"stopEach">> \in Seq(Resting)
    BY DEF Resting
  <2>1. pc[t] = "stopEach"
    BY <1>22 DEF StopEach
  <2>2. CASE \E j \in loc[t].todo :
               Call(t, "stop", <<"stopEach">>,
                    [loc[t] EXCEPT !.job = j, !.todo = @ \ {j}])
    BY <1>e, <2>0, <2>1, <2>2, AfterCall DEF Phases
  <2>3. CASE Goto(t, "startEach",
               [loc[t] EXCEPT !.todo = {j \in Job : loc[t].list[j] = "active"}])
    BY <1>0, <1>g, <1>m, <2>1, <2>3 DEF Phases, Local
  <2> QED
    BY <1>22, <2>2, <2>3 DEF StopEach
<1>23. CASE List(t)
  <2> DEFINE todo == {j \in Job : db[j] # None
                                   /\ (db[j] = "active" <=> t \in Booter)}
             l == [loc[t] EXCEPT !.list = db, !.todo = todo]
  <2>1. l \in Local /\ l.job = loc[t].job
    BY <1>0, <1>l DEF Local
  <2>2. Goto(t, "startEach", l) /\ pc[t] = "list"
    BY <1>23 DEF List
  <2> HIDE DEF l
  <2> QED
    BY <2>1, <2>2, AfterGoto DEF Phases, ControlOK, JobInv
<1>24. CASE StartEach(t)
  <2>0. /\ <<"startEach">> \in Seq(Resting)
        /\ <<"bootSave", "startEach">> \in Seq(Resting)
    BY DEF Resting
  <2>1. pc[t] = "startEach"
    BY <1>24 DEF StartEach
  <2>2. CASE \E j \in loc[t].todo :
               Call(t, "start", IF t \in Booter THEN <<"bootSave", "startEach">>
                                                ELSE <<"startEach">>,
                    [loc[t] EXCEPT !.job = j, !.todo = @ \ {j}])
    BY <1>e, <2>0, <2>1, <2>2, AfterCall DEF Phases
  <2> QED
    BY <1>24, <1>0, <1>r, <2>2 DEF StartEach
<1> QED
  BY <1>1, <1>2, <1>3, <1>4, <1>5, <1>6, <1>7, <1>8, <1>9, <1>10, <1>11,
     <1>12, <1>13, <1>14, <1>15, <1>16, <1>17, <1>18, <1>19, <1>20, <1>21,
     <1>22, <1>23, <1>24 DEF Step

(* The other steps: requests, ticks, panics and crashes.                   *)
LEMMA NextControl ==
  ASSUME TypeOK, ControlOK, JobOfInv, [Next]_vars
  PROVE  ControlOK'
<1>0. /\ loc \in [Proc -> Local] /\ None \notin Job
      /\ Thread \subseteq Proc /\ Watcher \subseteq Proc
      /\ Mirror \subseteq Proc
  BY ManagerAssumption DEF TypeOK, Proc
<1>n. NoLocal \in Local /\ NoLocal.job = None
  BY DEF NoLocal, Local, Status
<1>j. \A j \in Job : LET l == [NoLocal EXCEPT !.job = j]
                     IN  l \in Local /\ l.job = j
  BY DEF NoLocal, Local, Status
<1>i. \A t \in Proc : pc[t] = "idle" => then[t] = <<>>
  BY DEF ControlOK, StackInv
<1>h. ASSUME NEW t \in Proc, pc[t] = "idle", Goto(t, "halt", NoLocal)
      PROVE  ControlOK'
  BY <1>h, <1>i, <1>n, AfterGoto DEF Phases
<1>1. CASE \E t \in Thread, r \in Requests, j \in Job : Begin(t, r, j)
  <2>1. PICK t \in Thread, r \in Requests, j \in Job : Begin(t, r, j)
    BY <1>1
  <2> DEFINE p == Head(Routine(r))
             rest == Tail(Routine(r))
  <2>2. r \in Requests \ {"halt", "resume"}
    BY <2>1, ManagerAssumption DEF Begin
  <2>s. /\ <<>> \in Seq(Resting) /\ <<"delete">> \in Seq(Resting)
        /\ <<"preflight">> \in Seq(Resting)
    BY DEF Resting
  <2>p. Requests \ {"halt", "resume", "delete", "force", "startAll",
                    "restartAll"}
          = {"start", "stop", "restart", "stopAll", "throttle", "update"}
    BY DEF Requests
  <2>3. p \in Phases \ {"wait", "idle"} /\ rest \in Seq(Resting)
    <3>1. CASE r = "delete"
      <4>1. Routine(r) = <<"stop", "delete">>
        BY <3>1 DEF Routine
      <4> QED
        BY <4>1, <2>s DEF Phases
    <3>2. CASE r = "force"
      <4>1. Routine(r) = <<"force", "preflight">>
        BY <3>2 DEF Routine
      <4> QED
        BY <4>1, <2>s DEF Phases
    <3>3. CASE r = "startAll"
      <4>1. Routine(r) = <<"list">>
        BY <3>3 DEF Routine
      <4> QED
        BY <4>1, <2>s DEF Phases
    <3>4. CASE r = "restartAll"
      <4>1. Routine(r) = <<"sync">>
        BY <3>4 DEF Routine
      <4> QED
        BY <4>1, <2>s DEF Phases
    <3>5. CASE r \notin {"delete", "force", "startAll", "restartAll"}
      <4>1. Routine(r) = <<r>>
        BY <3>5 DEF Routine
      <4>2. r \in {"start", "stop", "restart", "stopAll", "throttle",
                   "update"}
        BY <2>2, <2>p, <3>5
      <4> QED
        BY <4>1, <4>2, <2>s DEF Phases
    <3> QED
      BY <3>1, <3>2, <3>3, <3>4, <3>5
  <2>4. Call(t, p, rest, [NoLocal EXCEPT !.job = j]) /\ pc[t] = "idle"
    BY <2>1 DEF Begin
  <2> HIDE DEF p, rest
  <2> QED
    BY <1>0, <1>j, <2>3, <2>4, AfterCall
<1>2. CASE \E t \in Thread : BeginHalt(t)
  BY <1>0, <1>2, <1>h DEF BeginHalt
<1>3. CASE \E t \in Proc : Tick(t)
  BY <1>3, <1>h DEF Tick, procVars, ControlOK, StackInv, JobInv
<1>4. CASE \E t \in Proc : Step(t)
  BY <1>4, StepControl
<1>5. CASE \E m \in Mirror : Panic(m)
  <2>1. PICK m \in Mirror : Panic(m)
    BY <1>5
  <2>2. jobOf[m] \in Job /\ pc[m] = "idle"
    BY <2>1 DEF Panic, JobOfInv
  <2> QED
    BY <1>0, <1>j, <2>1, <2>2, AfterGoto DEF Panic, Phases
<1>6. CASE Crash
  <2>1. <<>> \in Seq(Phases) /\ <<>> \in Seq(Resting)
    OBVIOUS
  <2>2. /\ pc' \in [Proc -> Phases] /\ then' \in [Proc -> Seq(Phases)]
        /\ loc' \in [Proc -> Local]
    BY <1>6, <1>n, <2>1 DEF Crash, Phases
  <2>3. \A t \in Proc : /\ pc'[t] \in {"list", "idle"} /\ then'[t] = <<>>
    BY <1>6 DEF Crash
  <2> QED
    BY <2>1, <2>2, <2>3 DEF ControlOK, StackInv, JobInv
<1>7. CASE Resume \/ Trip \/ UNCHANGED vars
  BY <1>7 DEF Resume, Trip, vars, procVars, ControlOK, StackInv, JobInv
<1> QED
  BY <1>1, <1>2, <1>3, <1>4, <1>5, <1>6, <1>7 DEF Next

(* Every variable but those of control keeps its type.                     *)
DataOK ==
  /\ kafMirrors \in [Job -> Mirror \cup {None}]
  /\ mu \in Proc \cup {None}
  /\ life \in [Mirror -> {"new", "running", "cancelled", "closed"}]
  /\ jobOf \in [Mirror -> Job \cup {None}]
  /\ db \in [Job -> Status \cup {None}]
  /\ halted \in BOOLEAN /\ tripwire \in BOOLEAN
  /\ wasHalted \in BOOLEAN /\ frozen \in BOOLEAN
  /\ heldBack \in SUBSET Job
  /\ panics \in Nat /\ dbFails \in Nat /\ crashes \in Nat

LEMMA SaveTypes ==
  ASSUME TypeOK, NEW j, NEW status \in Status \cup {None},
         NEW failing \in BOOLEAN, Save(j, status, failing)
  PROVE  db' \in [Job -> Status \cup {None}] /\ dbFails' \in Nat
BY DEF TypeOK, Save, Saved

LEMMA NextData ==
  ASSUME TypeOK, ControlOK, [Next]_vars
  PROVE  DataOK'
<1> USE DEF TypeOK, DataOK, managerVars, mirrorVars, guardVars, procVars,
            countVars
<1>0. /\ \A t \in Proc : /\ loc[t] \in Local
                         /\ loc[t].list \in [Job -> Status \cup {None}]
                         /\ loc[t].mark \in Status \cup {"halted"}
                         /\ loc[t].mir \in Mirror \cup {None}
      /\ {"active", "paused", "failed"} \subseteq Status \cup {None}
  BY DEF Local, Status
<1>j. ASSUME NEW t \in Proc,
             pc[t] \notin {"idle", "halt", "next", "list", "startEach"}
      PROVE  loc[t].job \in Job
  BY <1>0, <1>j DEF ControlOK, JobInv, Local
<1>1. ASSUME NEW t \in Proc, Start(t) \/ Guard(t) PROVE DataOK'
  BY <1>1 DEF Start, Guard
<1>2. ASSUME NEW t \in Proc, Launch(t) PROVE DataOK'
  <2>1. loc[t].job \in Job
    BY <1>2, <1>j DEF Launch
  <2>2. db' \in [Job -> Status \cup {None}] /\ dbFails' \in Nat
    BY <1>0, <1>2, SaveTypes DEF Launch
  <2>3. ASSUME NEW m \in Mirror, NEW l \in {"running", "cancelled"},
               Create(m, loc[t].job, l)
        PROVE  /\ life' \in [Mirror -> {"new", "running", "cancelled", "closed"}]
               /\ jobOf' \in [Mirror -> Job \cup {None}]
               /\ kafMirrors' \in [Job -> Mirror \cup {None}]
    BY <2>1, <2>3 DEF Create
  <2>4. heldBack' \in SUBSET Job
    BY <1>2 DEF Launch, StartedBy
  <2>5. mu' \in Proc \cup {None}
    BY <1>2 DEF Launch
  <2>6. \/ UNCHANGED <<kafMirrors, mirrorVars>>
        \/ \E m \in Mirror, l \in {"running", "cancelled"} :
             Create(m, loc[t].job, l)
    BY <1>2 DEF Launch
  <2>7. UNCHANGED <<halted, tripwire, wasHalted, frozen, panics, crashes>>
    BY <1>2 DEF Launch
  <2> QED
    BY <2>2, <2>3, <2>4, <2>5, <2>6, <2>7
<1>3. ASSUME NEW t \in Proc, Undo(t) \/ TakeOne(t) PROVE DataOK'
  BY <1>3 DEF Undo, TakeOne
<1>4. ASSUME NEW t \in Proc, NotRunning(t) \/ StopAll(t) PROVE DataOK'
  BY <1>4 DEF NotRunning, StopAll
<1>5. ASSUME NEW t \in Proc, TakeAll(t) PROVE DataOK'
  BY <1>5 DEF TakeAll, IsHalted
<1>6. ASSUME NEW t \in Proc, NextMirror(t) \/ Wait(t) PROVE DataOK'
  BY <1>6 DEF NextMirror, Wait
<1>7. ASSUME NEW t \in Proc, Read(t) PROVE DataOK'
  BY <1>7 DEF Read
<1>8. ASSUME NEW t \in Proc, Write(t) PROVE DataOK'
  <2>1. db' \in [Job -> Status \cup {None}] /\ dbFails' \in Nat
    BY <1>0, <1>8, SaveTypes DEF Write, Status
  <2>2. loc[t].job \in Job
    BY <1>8, <1>j DEF Write
  <2> QED
    BY <1>8, <2>1, <2>2 DEF Write
<1>9. ASSUME NEW t \in Proc, Delete(t) PROVE DataOK'
  BY <1>9 DEF Delete
<1>10. ASSUME NEW t \in Proc, Restart(t) \/ Preflight(t) \/ Throttle(t)
                                \/ Update(t) \/ Sync(t) \/ ListAll(t)
                                \/ Collect(t) \/ StopEach(t) \/ List(t)
                                \/ StartEach(t)
       PROVE  DataOK'
  BY <1>10 DEF Restart, Preflight, Throttle, Update, Sync, ListAll, Collect,
               StopEach, List, StartEach
<1>11. ASSUME NEW t \in Proc, RestartSave(t) \/ BootSave(t) PROVE DataOK'
  <2>1. db' \in [Job -> Status \cup {None}] /\ dbFails' \in Nat
    BY <1>0, <1>11, SaveTypes DEF RestartSave, BootSave
  <2> QED
    BY <1>11, <2>1 DEF RestartSave, BootSave
<1>12. ASSUME NEW t \in Proc, Apply(t) \/ UpdateSave(t) PROVE DataOK'
  <2>1. loc[t].job \in Job
    BY <1>12, <1>j DEF Apply, UpdateSave
  <2>2. db' \in [Job -> Status \cup {None}] /\ dbFails' \in Nat
    BY <1>0, <1>12, <2>1, SaveTypes DEF Apply, UpdateSave
  <2> QED
    BY <1>12, <2>2 DEF Apply, UpdateSave
<1>13. ASSUME NEW t \in Proc, Relaunch(t) PROVE DataOK'
  <2>1. db' \in [Job -> Status \cup {None}] /\ dbFails' \in Nat
    BY <1>0, <1>13, SaveTypes DEF Relaunch
  <2>2. loc[t].job \in Job
    BY <1>13, <1>j DEF Relaunch
  <2>3. ASSUME NEW m \in Mirror, Create(m, loc[t].job, "running")
        PROVE  /\ life' \in [Mirror -> {"new", "running", "cancelled", "closed"}]
               /\ jobOf' \in [Mirror -> Job \cup {None}]
               /\ kafMirrors' \in [Job -> Mirror \cup {None}]
    BY <2>2, <2>3 DEF Create
  <2>4. \/ /\ kafMirrors' = [kafMirrors EXCEPT ![loc[t].job] = None]
           /\ UNCHANGED mirrorVars
        \/ \E m \in Mirror : Create(m, loc[t].job, "running")
    BY <1>13 DEF Relaunch
  <2>5. UNCHANGED <<guardVars, panics, crashes>> /\ mu' = None
    BY <1>13 DEF Relaunch
  <2> QED
    BY <2>1, <2>2, <2>3, <2>4, <2>5
<1>14. ASSUME NEW t \in Proc, SyncSave(t) PROVE DataOK'
  <2>1. PICK lost \in SUBSET Job : dbFails' = dbFails + Cardinality(lost)
    BY <1>14 DEF SyncSave
  <2>2. Cardinality(lost) \in Nat
    BY ManagerAssumption, FS_Subset, FS_CardinalityType
  <2>3. db' \in [Job -> Status \cup {None}]
    BY <1>0, <1>14 DEF SyncSave
  <2> QED
    BY <1>14, <2>1, <2>2, <2>3 DEF SyncSave
<1>15. ASSUME NEW t \in Thread, NEW r \in Requests, NEW j \in Job,
              Begin(t, r, j)
       PROVE  DataOK'
  BY <1>15 DEF Begin
<1>16. ASSUME NEW t \in Thread, BeginHalt(t) PROVE DataOK'
  BY <1>16 DEF BeginHalt
<1>17. ASSUME NEW t \in Proc, Tick(t) PROVE DataOK'
  BY <1>17 DEF Tick, IsHalted
<1>18. CASE \E m \in Mirror : Panic(m)
  BY <1>18 DEF Panic
<1>19. CASE Crash
  <2>1. life' \in [Mirror -> {"new", "running", "cancelled", "closed"}]
    BY <1>19 DEF Crash
  <2>2. /\ kafMirrors' \in [Job -> Mirror \cup {None}] /\ mu' = None
        /\ wasHalted' = FALSE /\ crashes' \in Nat
    BY <1>19 DEF Crash
  <2>3. UNCHANGED <<jobOf, db, halted, tripwire, frozen, heldBack, panics,
                    dbFails>>
    BY <1>19 DEF Crash
  <2> QED
    BY <2>1, <2>2, <2>3
<1>20. CASE Resume \/ Trip \/ UNCHANGED vars
  BY <1>20 DEF Resume, Trip, vars
<1> QED
  BY <1>1, <1>2, <1>3, <1>4, <1>5, <1>6, <1>7, <1>8, <1>9, <1>10, <1>11,
     <1>12, <1>13, <1>14, <1>15, <1>16, <1>17, <1>18, <1>19, <1>20
     DEF Next, Step

LEMMA NextTypes ==
  ASSUME TypeOK, ControlOK, JobOfInv, [Next]_vars
  PROVE  TypeOK' /\ ControlOK'
BY NextControl, NextData DEF TypeOK, DataOK, ControlOK
-----------------------------------------------------------------------------
(* What a Goto, a Call of a wait and a Return change, and what they leave. *)
Others(t) ==
  \A u \in Proc : u # t => /\ pc'[u] = pc[u] /\ then'[u] = then[u]
                           /\ loc'[u] = loc[u]

LEMMA Frame ==
  ASSUME ControlOK, NEW t \in Proc, NEW phase, NEW rest, NEW l,
         Goto(t, phase, l) \/ Call(t, phase, rest, l) \/ Return(t, l)
  PROVE  Others(t)
BY DEF ControlOK, Others, Goto, Call, Return

LEMMA Goes ==
  ASSUME ControlOK, NEW t \in Proc, NEW phase, NEW l, Goto(t, phase, l)
  PROVE  Others(t) /\ pc'[t] = phase /\ loc'[t] = l /\ then' = then
BY DEF ControlOK, Others, Goto

LEMMA Calls ==
  ASSUME ControlOK, NEW t \in Proc, NEW phase, NEW rest, NEW l,
         Call(t, phase, rest, l)
  PROVE  Others(t) /\ pc'[t] = phase /\ loc'[t] = l
BY DEF ControlOK, Others, Call

LEMMA Waits ==
  ASSUME ControlOK, NEW t \in Proc, NEW h, NEW l, pc[t] # "wait",
         Call(t, "wait", <<h>>, l)
  PROVE  /\ Others(t) /\ pc'[t] = "wait" /\ loc'[t] = l
         /\ Head(then'[t]) = h
<1>1. then[t] \in Seq(Resting)
  BY DEF ControlOK, StackInv
<1>2. Head(<<h>> \o then[t]) = h
  BY <1>1, Push1
<1> QED
  BY <1>2 DEF ControlOK, Others, Call

LEMMA Returns ==
  ASSUME ControlOK, NEW t \in Proc, NEW l, Return(t, l), pc[t] # "wait"
  PROVE  /\ Others(t) /\ pc'[t] \in Resting \cup {"idle"}
         /\ l.queue = {} => loc'[t].queue = {}
<1>1. CASE then[t] = <<>>
  BY <1>1 DEF ControlOK, Others, Return, NoLocal
<1>2. CASE then[t] # <<>>
  <2>1. Head(then[t]) \in Resting
    BY <1>2, HeadTailProperties DEF ControlOK, StackInv
  <2> QED
    BY <1>2, <2>1 DEF ControlOK, Others, Return
<1> QED
  BY <1>1, <1>2

LEMMA Woken ==
  ASSUME ControlOK, NEW t \in Proc, NEW l, Return(t, l), pc[t] = "wait"
  PROVE  Others(t) /\ pc'[t] = Head(then[t]) /\ loc'[t] = l
BY DEF ControlOK, StackInv, Others, Return

(* Only the owner of Mu is between Lock and Unlock.                        *)
LEMMA LockKept ==
  ASSUME LockInv, NEW t \in Proc, Others(t),
         mu' = mu \/ {mu, mu'} = {None, t},
         Within(t)' => mu' = t
  PROVE  LockInv'
<1>1. None \notin Proc
  BY ManagerAssumption DEF Proc
<1> QED
  BY <1>1 DEF LockInv, Others, Within

LEMMA StepLock ==
  ASSUME TypeOK, ControlOK, LockInv, NEW t \in Proc, Step(t)
  PROVE  LockInv' /\ Others(t) /\ (mu' = mu \/ {mu, mu'} = {None, t})
<1> USE DEF managerVars
<1>0. None \notin Proc
  BY ManagerAssumption DEF Proc
<1>w. Within(t) => mu = t
  BY DEF LockInv
<1>r. ASSUME NEW l, Return(t, l), pc[t] # "wait"
      PROVE  Others(t) /\ ~Within(t)'
  BY <1>r, Returns DEF Within, Resting
<1>g. ASSUME NEW phase, NEW l, Goto(t, phase, l),
             phase \notin {"guard", "launch", "undo", "relaunch", "syncSave", "wait"}
      PROVE  Others(t) /\ ~Within(t)'
  BY <1>g, Goes DEF Within
<1>c. ASSUME NEW phase, NEW rest, NEW l, Call(t, phase, rest, l),
             phase \notin {"guard", "launch", "undo", "relaunch", "syncSave", "wait"}
      PROVE  Others(t) /\ ~Within(t)'
  BY <1>c, Calls DEF Within
<1>1. CASE Start(t)
  BY <1>1, <1>r, Goes, LockKept DEF Start
<1>2. CASE Guard(t)
  BY <1>2, <1>w, <1>r, Goes, LockKept DEF Guard, Within
<1>3. CASE Launch(t)
  <2>1. mu = t /\ pc[t] = "launch"
    BY <1>3, <1>w DEF Launch, Within
  <2>2. CASE \E l : Return(t, l) /\ mu' = None
    BY <2>1, <2>2, <1>r, LockKept
  <2>3. CASE \E l : Call(t, "wait", <<"undo">>, l) /\ mu' = mu
    BY <2>1, <2>3, Frame, LockKept
  <2> QED
    BY <1>3, <2>2, <2>3 DEF Launch
<1>4. CASE Undo(t) \/ Relaunch(t)
  BY <1>4, <1>w, <1>r, LockKept DEF Undo, Relaunch, Within
<1>5. CASE TakeOne(t) \/ TakeAll(t)
  BY <1>5, <1>g, LockKept DEF TakeOne, TakeAll
<1>6. CASE NotRunning(t)
  BY <1>6, <1>g, <1>r, LockKept DEF NotRunning
<1>7. CASE StopAll(t)
  BY <1>7, <1>g, LockKept DEF StopAll
<1>8. CASE NextMirror(t)
  <2>1. pc[t] = "next"
    BY <1>8 DEF NextMirror
  <2>2. CASE Return(t, loc[t]) /\ mu' = (IF mu = t THEN None ELSE mu)
    BY <2>1, <2>2, <1>r, LockKept
  <2>3. CASE \E l : Goto(t, "read", l) /\ mu' = mu
    BY <2>3, <1>g, LockKept
  <2>4. CASE \E l : Call(t, "wait", <<"read">>, l) /\ mu' = mu
    BY <2>1, <2>4, Waits, LockKept DEF Within
  <2> QED
    BY <1>8, <2>2, <2>3, <2>4 DEF NextMirror
<1>9. CASE Wait(t)
  BY <1>9, <1>w, Woken, LockKept DEF Wait, Within, ControlOK, StackInv
<1>10. CASE Read(t)
  BY <1>10, <1>g, LockKept DEF Read
<1>11. CASE Write(t)
  BY <1>11, <1>g, LockKept DEF Write
<1>12. CASE Delete(t) \/ RestartSave(t) \/ UpdateSave(t) \/ BootSave(t)
  BY <1>12, <1>r, LockKept DEF Delete, RestartSave, UpdateSave, BootSave
<1>13. CASE Restart(t)
  BY <1>13, <1>r, <1>c, LockKept DEF Restart
<1>14. CASE Preflight(t) \/ Throttle(t) \/ Update(t)
  BY <1>14, <1>r, <1>g, LockKept DEF Preflight, Throttle, Update
<1>15. CASE Apply(t)
  <2>1. mu = None /\ pc[t] = "apply"
    BY <1>15 DEF Apply
  <2>2. CASE Return(t, loc[t]) /\ mu' = mu
    BY <2>1, <2>2, <1>r, LockKept
  <2>3. CASE \E l : Call(t, "wait", <<"relaunch">>, l) /\ mu' = t
    BY <2>1, <2>3, Frame, LockKept
  <2> QED
    BY <1>15, <2>2, <2>3 DEF Apply
<1>16. CASE Sync(t)
  BY <1>16, Goes, LockKept DEF Sync
<1>17. CASE SyncSave(t)
  BY <1>17, <1>w, <1>g, LockKept DEF SyncSave, Within
<1>18. CASE ListAll(t) \/ Collect(t) \/ List(t)
  BY <1>18, <1>g, LockKept DEF ListAll, Collect, List
<1>19. CASE StopEach(t)
  <2>1. \/ \E l : Goto(t, "startEach", l)
        \/ \E l : Call(t, "stop", <<"stopEach">>, l)
    BY <1>19 DEF StopEach
  <2> QED
    BY <1>19, <2>1, <1>g, <1>c, LockKept DEF StopEach
<1>20. CASE StartEach(t)
  <2>1. \/ Return(t, loc[t])
        \/ \E rest, l : Call(t, "start", rest, l)
    BY <1>20 DEF StartEach
  <2> QED
    BY <1>20, <2>1, <1>r, <1>c, LockKept DEF StartEach
<1> QED
  BY <1>1, <1>2, <1>3, <1>4, <1>5, <1>6, <1>7, <1>8, <1>9, <1>10, <1>11,
     <1>12, <1>13, <1>14, <1>15, <1>16, <1>17, <1>18, <1>19, <1>20 DEF Step
-----------------------------------------------------------------------------
(* A step that touches no mirror, on either side of a critical section.    *)
LEMMA QuietStep ==
  ASSUME MirrorInv, NEW t \in Proc, Others(t),
         UNCHANGED <<kafMirrors, life, jobOf>>,
         pc[t] # "wait", mu = t => pc[t] \notin {"undo", "relaunch", "read"},
         pc'[t] \notin {"wait", "undo", "relaunch", "read"},
         loc'[t].queue = loc[t].queue,
         pc'[t] \in Stopping \/ loc[t].queue = {},
         mu' = mu \/ (loc[t].queue = {} /\ {mu, mu'} = {None, t}),
         pc'[t] \in {"guard", "launch"} => kafMirrors[loc'[t].job] = None,
         t \in Mirror => life[t] # "new"
  PROVE  MirrorInv'
<1>0. None \notin Proc
  BY ManagerAssumption DEF Proc
<1>1. \A u \in Proc : Hand(u)' = Hand(u)
  BY DEF Others, Hand
<1>2. MapInv'
  BY <1>0 DEF MirrorInv, MapInv, Others, Holds
<1>3. QueueInv'
  BY <1>0 DEF MirrorInv, QueueInv, Others
<1>4. WaitInv'
  BY <1>0 DEF MirrorInv, WaitInv, Others
<1>5. OneHand'
  <2>1. \A m \in Mirror : m \in Hand(t) => mu' = mu
    BY DEF Hand
  <2>2. \A u \in Proc : u # t /\ mu = u => mu' = mu
    BY <1>0
  <2> QED
    BY <1>1, <2>1, <2>2 DEF MirrorInv, OneHand
<1>6. JobOfInv'
  BY DEF MirrorInv, JobOfInv, Others, Proc
<1>7. NoOrphan'
  BY <1>1 DEF MirrorInv, NoOrphan, Alive
<1> QED
  BY <1>2, <1>3, <1>4, <1>5, <1>6, <1>7 DEF MirrorInv

(* Variables that MirrorInv is about.                                      *)
LEMMA SameMirrors ==
  ASSUME MirrorInv, UNCHANGED <<managerVars, mirrorVars, procVars>>
  PROVE  MirrorInv'
BY DEF MirrorInv, MapInv, QueueInv, WaitInv, OneHand, JobOfInv, NoOrphan,
       Hand, Alive, Holds, managerVars, mirrorVars, procVars

(* A goroutine that has begun is not that of a mirror yet to be created.   *)
LEMMA NotNew ==
  ASSUME JobOfInv, NEW t \in Proc, pc[t] # "idle"
  PROVE  t \in Mirror => life[t] # "new"
BY DEF JobOfInv

(* The steps that touch no mirror.                                         *)
Quiet(t) ==
  \/ Start(t) \/ Guard(t) \/ NotRunning(t) \/ Write(t) \/ Delete(t)
  \/ Restart(t) \/ RestartSave(t) \/ Preflight(t) \/ Throttle(t)
  \/ Update(t) \/ UpdateSave(t) \/ Sync(t) \/ SyncSave(t) \/ ListAll(t)
  \/ Collect(t) \/ StopEach(t) \/ List(t) \/ StartEach(t) \/ BootSave(t)

LEMMA QuietKept ==
  ASSUME TypeOK, ControlOK, LockInv, MirrorInv, NEW t \in Proc, Quiet(t)
  PROVE  MirrorInv'
<1> USE DEF managerVars, mirrorVars
<1>0. /\ UNCHANGED <<kafMirrors, life, jobOf>>
      /\ pc[t] \notin {"idle", "wait", "undo", "relaunch", "read"}
  BY DEF Quiet, Start, Guard, NotRunning, Write, Delete, Restart, RestartSave,
         Preflight, Throttle, Update, UpdateSave, Sync, SyncSave, ListAll,
         Collect, StopEach, List, StartEach, BootSave
<1>1. t \in Mirror => life[t] # "new"
  BY <1>0, NotNew DEF MirrorInv
<1>2. Step(t)
  BY DEF Quiet, Step
<1>3. Others(t) /\ (mu' = mu \/ {mu, mu'} = {None, t})
  BY <1>2, StepLock
<1>q. ~Write(t) => loc[t].queue = {}
  <2>1. ~Write(t) => pc[t] \notin Stopping
    BY DEF Quiet, Start, Guard, NotRunning, Delete, Restart, RestartSave,
           Preflight, Throttle, Update, UpdateSave, Sync, SyncSave, ListAll,
           Collect, StopEach, List, StartEach, BootSave, Stopping
  <2> QED
    BY <2>1 DEF MirrorInv, QueueInv
<1>r. ASSUME NEW l, l.queue = loc[t].queue, Return(t, l), ~Write(t)
      PROVE  MirrorInv'
  <2>1. pc'[t] \in Resting \cup {"idle"} /\ loc'[t].queue = {}
    BY <1>0, <1>q, <1>r, Returns
  <2> QED
    BY <1>0, <1>1, <1>3, <1>q, <1>r, <2>1, QuietStep DEF Resting
<1>g. ASSUME NEW phase,
             phase \notin {"wait", "undo", "relaunch", "read", "guard", "launch"},
             NEW l, l.queue = loc[t].queue, Goto(t, phase, l), ~Write(t)
      PROVE  MirrorInv'
  BY <1>0, <1>1, <1>3, <1>q, <1>g, Goes, QuietStep
<1>c. ASSUME NEW phase,
             phase \notin {"wait", "undo", "relaunch", "read", "guard", "launch"},
             NEW rest, NEW l, l.queue = loc[t].queue,
             Call(t, phase, rest, l), ~Write(t)
      PROVE  MirrorInv'
  BY <1>0, <1>1, <1>3, <1>q, <1>c, Calls, QuietStep
<1>l. /\ loc[t] \in Local
      /\ \A v : [loc[t] EXCEPT !.ok = v].queue = loc[t].queue
  BY DEF TypeOK, Local
<1>4. CASE Start(t)
  <2>1. CASE kafMirrors[loc[t].job] = None /\ Goto(t, "guard", loc[t])
    BY <1>0, <1>1, <1>3, <1>q, <1>4, <2>1, Goes, QuietStep
       DEF Start, Write
  <2>2. CASE Return(t, [loc[t] EXCEPT !.ok = FALSE])
    BY <1>4, <1>r, <1>l, <2>2 DEF Start, Write
  <2> QED
    BY <1>4, <2>1, <2>2 DEF Start
<1>5. CASE Guard(t)
  <2>1. kafMirrors[loc[t].job] = None
    BY <1>5 DEF Guard, MirrorInv, WaitInv
  <2>2. CASE Goto(t, "launch", loc[t])
    BY <1>0, <1>1, <1>3, <1>q, <1>5, <2>1, <2>2, Goes, QuietStep
       DEF Guard, Write
  <2>3. CASE Return(t, [loc[t] EXCEPT !.ok = FALSE])
    BY <1>5, <1>r, <1>l, <2>3 DEF Guard, Write
  <2> QED
    BY <1>5, <2>2, <2>3 DEF Guard
<1>6. CASE NotRunning(t)
  <2>1. CASE Goto(t, "write", [loc[t] EXCEPT !.row = "active", !.mark = "paused"])
    <3>1. [loc[t] EXCEPT !.row = "active", !.mark = "paused"].queue = loc[t].queue
      BY <1>l DEF Local
    <3> QED
      BY <1>6, <1>g, <2>1, <3>1 DEF NotRunning, Write
  <2> QED
    BY <1>6, <1>r, <2>1 DEF NotRunning, Write
<1>7. CASE Write(t)
  <2>1. PICK b \in BOOLEAN :
          Goto(t, "next", [loc[t] EXCEPT !.ok = b, !.row = None])
    BY <1>7 DEF Write
  <2>2. [loc[t] EXCEPT !.ok = b, !.row = None].queue = loc[t].queue
    BY <1>l DEF Local
  <2>3. mu' = mu
    BY <1>7 DEF Write
  <2> QED
    <3>1. pc'[t] = "next" /\ loc'[t].queue = loc[t].queue
      BY <2>1, <2>2, Goes
    <3>2. pc'[t] \in Stopping
      BY <3>1 DEF Stopping
    <3> QED
      BY <1>0, <1>1, <1>3, <2>3, <3>1, <3>2, QuietStep
<1>8. CASE Delete(t) \/ RestartSave(t) \/ UpdateSave(t) \/ BootSave(t)
  BY <1>8, <1>r DEF Delete, RestartSave, UpdateSave, BootSave, Write
<1> DEFINE seen == [loc[t] EXCEPT !.list[loc[t].job] = db[loc[t].job]]
<1>s. seen.queue = loc[t].queue
  BY <1>l DEF Local
<1>9. CASE Restart(t)
  <2>1. \/ Return(t, loc[t])
        \/ Call(t, "stop", <<"start", "restartSave">>, seen)
        \/ Call(t, "start", <<"restartSave">>, seen)
    BY <1>9 DEF Restart
  <2>2. ~Write(t)
    BY <1>9 DEF Restart, Write
  <2> HIDE DEF seen
  <2> QED
    BY <1>r, <1>c, <1>s, <2>1, <2>2
<1>10. CASE Throttle(t) \/ Update(t)
  <2>1. \/ Return(t, loc[t]) \/ Goto(t, "apply", seen)
        \/ Goto(t, "updateSave", seen)
    BY <1>10 DEF Throttle, Update
  <2>2. ~Write(t)
    BY <1>10 DEF Throttle, Update, Write
  <2> HIDE DEF seen
  <2> QED
    BY <1>r, <1>g, <1>s, <2>1, <2>2
<1>11. CASE Preflight(t) \/ SyncSave(t)
  BY <1>11, <1>r, <1>g DEF Preflight, SyncSave, Write
<1>12. CASE Sync(t) \/ ListAll(t) \/ Collect(t) \/ List(t)
  <2>1. /\ \A v : [loc[t] EXCEPT !.list = v].queue = loc[t].queue
        /\ \A v : [loc[t] EXCEPT !.todo = v].queue = loc[t].queue
        /\ \A v, w : [loc[t] EXCEPT !.list = v, !.todo = w].queue = loc[t].queue
    BY <1>l DEF Local
  <2> QED
    BY <1>12, <1>g, <2>1 DEF Sync, ListAll, Collect, List, Write
<1>e. /\ \A v : [loc[t] EXCEPT !.todo = v].queue = loc[t].queue
      /\ \A j : [loc[t] EXCEPT !.job = j, !.todo = @ \ {j}].queue = loc[t].queue
  BY <1>l DEF Local
<1>13. CASE StopEach(t)
  <2>1. \/ \E v : Goto(t, "startEach", [loc[t] EXCEPT !.todo = v])
        \/ \E j : Call(t, "stop", <<"stopEach">>,
                       [loc[t] EXCEPT !.job = j, !.todo = @ \ {j}])
    BY <1>13 DEF StopEach
  <2> QED
    BY <1>13, <1>c, <1>g, <1>e, <2>1 DEF StopEach, Write
<1>14. CASE StartEach(t)
  <2>1. \/ Return(t, loc[t])
        \/ \E rest, j : Call(t, "start", rest,
                             [loc[t] EXCEPT !.job = j, !.todo = @ \ {j}])
    BY <1>14 DEF StartEach
  <2> QED
    BY <1>14, <1>c, <1>r, <1>e, <2>1 DEF StartEach, Write
<1> QED
  BY <1>4, <1>5, <1>6, <1>7, <1>8, <1>9, <1>10, <1>11, <1>12, <1>13, <1>14
     DEF Quiet
-----------------------------------------------------------------------------
(* A critical section ends: the entry of a job, None or a closed mirror    *)
(* until now, becomes x, None or a new mirror.                             *)
LEMMA Released ==
  ASSUME TypeOK, LockInv, MirrorInv, NEW t \in Proc, Others(t),
         pc[t] \in {"launch", "undo", "relaunch"},
         pc'[t] \in Resting \cup {"idle"}, loc'[t].queue = {}, mu' = None,
         NEW j \in Job, j = loc[t].job, NEW x \in Mirror \cup {None},
         kafMirrors' = [kafMirrors EXCEPT ![j] = x],
         x = None => UNCHANGED <<life, jobOf>>,
         x # None => /\ life[x] = "new"
                     /\ life' = [life EXCEPT ![x] = "running"]
                     /\ jobOf' = [jobOf EXCEPT ![x] = j]
  PROVE  MirrorInv'
<1>0. None \notin Proc /\ None \notin Mirror
  BY ManagerAssumption DEF Proc
<1>1. /\ mu = t
      /\ \A u \in Proc : u # t => ~Within(u)
  BY DEF LockInv, Within
<1>2. kafMirrors[j] = None \/ life[kafMirrors[j]] = "closed"
  BY <1>1 DEF MirrorInv, WaitInv
<1>3. loc[t].queue = {} /\ Hand(t) = {} /\ Hand(t)' = {}
  BY DEF MirrorInv, QueueInv, Stopping, Hand, Resting
<1>4. \A u \in Proc : Hand(u)' = Hand(u)
  BY <1>3 DEF Others, Hand
<1>5. x # None => /\ \A i \in Job : kafMirrors[i] # x
                  /\ \A u \in Proc : x \notin Hand(u)
  <2> SUFFICES ASSUME x # None
               PROVE  /\ \A i \in Job : kafMirrors[i] # x
                      /\ \A u \in Proc : x \notin Hand(u)
    OBVIOUS
  <2>1. \A i \in Job : kafMirrors[i] # x
    BY DEF MirrorInv, MapInv
  <2>2. \A u \in Proc : x \notin Hand(u)
    BY <1>0 DEF MirrorInv, QueueInv, WaitInv, Hand
  <2> QED
    BY <2>1, <2>2
<1>t. /\ \A i \in Job : kafMirrors'[i] = IF i = j THEN x ELSE kafMirrors[i]
      /\ \A m \in Mirror : m # x => life'[m] = life[m] /\ jobOf'[m] = jobOf[m]
      /\ x # None => life'[x] = "running" /\ jobOf'[x] = j
  BY DEF TypeOK
<1>6. \A i \in Job, m \in Mirror :
        i # j /\ kafMirrors[i] = m => life[m] = "running" /\ jobOf[m] = i
  BY <1>1 DEF MirrorInv, MapInv, Holds
<1>7. MapInv'
  BY <1>0, <1>5, <1>6, <1>t DEF MapInv
<1>8. QueueInv'
  <2>1. \A u \in Proc : \A q \in loc[u].queue : q[2] # None => q[2] # x
    BY <1>5 DEF Hand
  <2>2. \A u \in Proc : \A q \in loc[u].queue : q[2] \in Mirror \cup {None}
    BY DEF TypeOK, Local
  <2>3. ASSUME NEW u \in Proc, u # t
        PROVE  /\ pc'[u] \notin Stopping => loc'[u].queue = {}
               /\ pc'[u] = "wait" /\ Head(then'[u]) # "read" => loc'[u].queue = {}
               /\ \A q \in loc'[u].queue :
                    q[2] # None => life'[q[2]] = "running" /\ jobOf'[q[2]] = q[1]
    BY <2>1, <2>2, <2>3, <1>t DEF MirrorInv, QueueInv, Others
  <2> QED
    BY <1>0, <2>3 DEF QueueInv, Resting
<1>9. WaitInv'
  <2>1. ASSUME NEW u \in Proc, u # t
        PROVE  /\ pc'[u] = "wait" => /\ loc'[u].mir \in Mirror
                                     /\ life'[loc'[u].mir] = "cancelled"
               /\ pc'[u] \notin {"guard", "launch"}
    BY <1>1, <2>1, <1>t DEF MirrorInv, WaitInv, Others, Within
  <2> QED
    BY <1>0, <2>1 DEF WaitInv, Resting
<1>10. OneHand'
  BY <1>0, <1>1, <1>3, <1>4, <1>5, <1>t DEF MirrorInv, OneHand
<1>11. JobOfInv'
  BY <1>t, Mirror \subseteq Proc DEF MirrorInv, JobOfInv, Others, Proc
<1>12. NoOrphan'
  <2> SUFFICES ASSUME NEW m \in Mirror, Alive(m)'
               PROVE  \/ \E i \in Job : kafMirrors'[i] = m
                      \/ \E u \in Proc : m \in Hand(u)'
    BY DEF NoOrphan
  <2>1. CASE m = x
    BY <2>1, <1>t
  <2>2. CASE m # x
    <3>1. Alive(m)
      BY <2>2, <1>t DEF Alive
    <3>2. CASE \E i \in Job : kafMirrors[i] = m
      BY <1>0, <1>2, <1>t, <2>2, <3>1, <3>2 DEF Alive
    <3>3. CASE \E u \in Proc : m \in Hand(u)
      BY <1>4, <3>3
    <3> QED
      BY <3>1, <3>2, <3>3 DEF MirrorInv, NoOrphan
  <2> QED
    BY <2>1, <2>2
<1> QED
  BY <1>7, <1>8, <1>9, <1>10, <1>11, <1>12 DEF MirrorInv

(* The mirrors of a queue filled from the map.                             *)
LEMMA Filled ==
  ASSUME NEW J, NEW t, loc'[t].queue = {<<i, kafMirrors[i]>> : i \in J},
         pc'[t] # "wait"
  PROVE  \A x : x \in Hand(t)' <=> \E i \in J : x = kafMirrors[i]
<1> DEFINE Q == loc'[t].queue
<1>1. /\ \A i \in J : <<i, kafMirrors[i]>> \in Q
      /\ \A q \in Q : \E i \in J : q = <<i, kafMirrors[i]>>
  OBVIOUS
<1>2. Hand(t)' = {q[2] : q \in Q}
  BY DEF Hand
<1> HIDE DEF Q
<1>3. ASSUME NEW i \in J PROVE kafMirrors[i] \in {q[2] : q \in Q}
  <2>1. <<i, kafMirrors[i]>>[2] = kafMirrors[i]
    OBVIOUS
  <2> QED
    BY <1>1, <2>1, Zenon
<1>4. ASSUME NEW q \in Q PROVE \E i \in J : q[2] = kafMirrors[i]
  BY <1>1
<1> QED
  BY <1>2, <1>3, <1>4

(* Mirrors are taken out of the map, with a free Mu.                       *)
LEMMA Taken ==
  ASSUME TypeOK, LockInv, MirrorInv, NEW t \in Proc, Others(t),
         pc[t] \notin Stopping \cup {"idle"}, mu = None, mu' = None,
         pc'[t] = "next", NEW J \in SUBSET Job,
         kafMirrors' = [i \in Job |-> IF i \in J THEN None ELSE kafMirrors[i]],
         loc'[t].queue = {<<i, kafMirrors[i]>> : i \in J},
         UNCHANGED <<life, jobOf>>
  PROVE  MirrorInv'
<1>0. None \notin Proc /\ None \notin Mirror /\ Mirror \subseteq Proc
  BY ManagerAssumption DEF Proc
<1>1. \A i \in Job, m \in Mirror :
        kafMirrors[i] = m => life[m] = "running" /\ jobOf[m] = i
  BY <1>0 DEF MirrorInv, MapInv, Holds
<1>2. \A u \in Proc : ~Within(u)
  BY <1>0 DEF LockInv
<1>3. loc[t].queue = {} /\ Hand(t) = {}
  BY DEF MirrorInv, QueueInv, Stopping, Hand
<1>4. /\ \A u \in Proc : u # t => Hand(u)' = Hand(u)
      /\ \A x : x \in Hand(t)' <=> \E i \in J : x = kafMirrors[i]
  <2>1. \A u \in Proc : u # t => Hand(u)' = Hand(u)
    BY DEF Others, Hand
  <2> QED
    BY <2>1, Filled
<1>5. \A u \in Proc, m \in Mirror, i \in Job : m \in Hand(u) => kafMirrors[i] # m
  BY <1>0 DEF MirrorInv, OneHand
<1>6. MapInv'
  BY <1>0, <1>1 DEF MapInv
<1>7. QueueInv'
  <2>1. \A q \in loc'[t].queue :
          q[2] # None => life[q[2]] = "running" /\ jobOf[q[2]] = q[1]
    BY <1>1 DEF TypeOK
  <2> QED
    BY <1>0, <2>1 DEF MirrorInv, QueueInv, Others, Stopping
<1>8. WaitInv'
  BY <1>0, <1>2 DEF MirrorInv, WaitInv, Others, Within
<1>9. OneHand'
  BY <1>0, <1>1, <1>4, <1>5 DEF MirrorInv, OneHand
<1>10. JobOfInv'
  BY <1>0 DEF MirrorInv, JobOfInv, Others
<1>11. NoOrphan'
  BY <1>0, <1>3, <1>4 DEF MirrorInv, NoOrphan, Alive
<1> QED
  BY <1>6, <1>7, <1>8, <1>9, <1>10, <1>11 DEF MirrorInv

(* All mirrors are queued and stay in the map.                             *)
LEMMA StopAllKept ==
  ASSUME TypeOK, ControlOK, LockInv, MirrorInv, NEW t \in Proc, StopAll(t)
  PROVE  MirrorInv'
<1> USE DEF managerVars, mirrorVars
<1> DEFINE l == [loc[t] EXCEPT !.queue = AllMirrors]
<1>0. None \notin Proc /\ None \notin Mirror /\ Mirror \subseteq Proc
  BY ManagerAssumption DEF Proc
<1>1. /\ pc[t] = "stopAll" /\ mu = None /\ mu' = t
      /\ UNCHANGED <<kafMirrors, life, jobOf>>
  BY DEF StopAll
<1>2. Others(t) /\ pc'[t] = "next" /\ loc'[t] = l
  BY Goes DEF StopAll
<1>3. loc'[t].queue = {<<i, kafMirrors[i]>> : i \in RunningJobs}
  BY <1>2 DEF TypeOK, Local, AllMirrors
<1>a. \A i \in Job, m \in Mirror :
        kafMirrors[i] = m => life[m] = "running" /\ jobOf[m] = i
  BY <1>0, <1>1 DEF MirrorInv, MapInv, Holds
<1>b. loc[t].queue = {} /\ Hand(t) = {}
  BY <1>1 DEF MirrorInv, QueueInv, Stopping, Hand
<1>4. /\ \A u \in Proc : u # t => Hand(u)' = Hand(u)
      /\ \A x : x \in Hand(t)' <=> \E i \in RunningJobs : x = kafMirrors[i]
  <2>1. \A u \in Proc : u # t => Hand(u)' = Hand(u)
    BY <1>2 DEF Others, Hand
  <2>2. pc'[t] # "wait"
    BY <1>2
  <2>3. \A x : x \in Hand(t)' <=> \E i \in RunningJobs : x = kafMirrors[i]
    BY <1>3, <2>2, Filled, Zenon
  <2> QED
    BY <2>1, <2>3
<1>5. \A u \in Proc, m \in Mirror, i \in Job : m \in Hand(u) => kafMirrors[i] # m
  BY <1>0, <1>1 DEF MirrorInv, OneHand
<1>6. MapInv'
  BY <1>1, <1>a DEF MapInv
<1>7. QueueInv'
  <2>1. \A q \in loc'[t].queue :
          /\ q[2] # None /\ kafMirrors[q[1]] = q[2]
          /\ life[q[2]] = "running" /\ jobOf[q[2]] = q[1]
    BY <1>a, <1>3 DEF TypeOK, RunningJobs
  <2> QED
    BY <1>0, <1>1, <1>2, <2>1 DEF MirrorInv, QueueInv, Others, Stopping
<1>8. WaitInv'
  BY <1>0, <1>1, <1>2 DEF MirrorInv, WaitInv, Others
<1>9. OneHand'
  BY <1>0, <1>1, <1>4, <1>5 DEF MirrorInv, OneHand, RunningJobs
<1>10. JobOfInv'
  BY <1>0, <1>1, <1>2 DEF MirrorInv, JobOfInv, Others
<1>11. NoOrphan'
  BY <1>0, <1>1, <1>b, <1>4 DEF MirrorInv, NoOrphan, Alive
<1> QED
  BY <1>6, <1>7, <1>8, <1>9, <1>10, <1>11 DEF MirrorInv
-----------------------------------------------------------------------------
(* A mirror that runs is cancelled and waited for by the one that has it.  *)
LEMMA Cancelled ==
  ASSUME TypeOK, MirrorInv, NEW t \in Proc, Others(t),
         NEW j \in Job, NEW m \in Mirror, life[m] = "running", jobOf[m] = j,
         UNCHANGED <<kafMirrors, jobOf>>,
         life' = [life EXCEPT ![m] = "cancelled"],
         pc[t] \in {"next", "apply"}, pc'[t] = "wait",
         loc'[t].job = j, loc'[t].mir = m,
         loc'[t].queue = loc[t].queue \ {<<j, m>>},
         Head(then'[t]) = "read" \/ loc'[t].queue = {},
         mu' = mu \/ (mu = None /\ mu' = t /\ loc[t].queue = {}),
         \A u \in Proc : m \in Hand(u) => u = t,
         \A i \in Job : kafMirrors[i] = m => mu' = t,
         mu' = t => kafMirrors[j] = m
  PROVE  MirrorInv'
<1>0. None \notin Proc /\ None \notin Mirror /\ Mirror \subseteq Proc
  BY ManagerAssumption DEF Proc
<1>1. /\ life'[m] = "cancelled"
      /\ \A n \in Mirror : n # m => life'[n] = life[n]
  BY DEF TypeOK
<1>2. \A u \in Proc : u # t /\ mu = u => mu' = mu
  BY <1>0
<1>3. \A q \in loc'[t].queue : q \in loc[t].queue /\ q[2] # m
  <2>1. ASSUME NEW q \in loc'[t].queue, q[2] = m PROVE FALSE
    <3>1. q \in loc[t].queue /\ q \in Job \X (Mirror \cup {None})
      BY <2>1 DEF TypeOK, Local
    <3>2. q[1] = j
      BY <2>1, <3>1, <1>0 DEF MirrorInv, QueueInv
    <3>3. q = <<j, m>>
      BY <2>1, <3>1, <3>2
    <3> QED
      BY <2>1, <3>3
  <2> QED
    BY <2>1
<1>4. ASSUME NEW u \in Proc, NEW x \in Mirror
      PROVE  x \in Hand(u)' <=> x \in Hand(u) \/ (u = t /\ x = m)
  <2>1. CASE u # t
    BY <2>1 DEF Others, Hand
  <2>2. CASE u = t
    <3>1. \A q \in loc[t].queue : q[2] # m => q \in loc'[t].queue
      BY <1>0 DEF TypeOK, Local
    <3>2. x \in Hand(t)' => x \in Hand(t) \/ x = m
      BY DEF Hand
    <3>3. x \in Hand(t) => x \in Hand(t)' \/ x = m
      BY <3>1 DEF Hand
    <3>4. m \in Hand(t)'
      BY DEF Hand
    <3> QED
      BY <2>2, <3>2, <3>3, <3>4
  <2> QED
    BY <2>1, <2>2
<1>5. MapInv'
  <2> SUFFICES ASSUME NEW i \in Job, NEW n \in Mirror, kafMirrors[i] = n
               PROVE  /\ jobOf[n] = i /\ life'[n] # "new"
                      /\ \/ life'[n] = "running"
                         \/ \E u \in Proc : Holds(u, i, n)'
    BY DEF MapInv
  <2>1. jobOf[n] = i /\ (life[n] = "running" \/ \E u \in Proc : Holds(u, i, n))
    BY DEF MirrorInv, MapInv
  <2>2. CASE n = m
    BY <1>1, <2>1, <2>2 DEF Holds
  <2>3. CASE n # m
    <3>1. ASSUME NEW u \in Proc, Holds(u, i, n) PROVE Holds(u, i, n)'
      BY <1>2, <3>1 DEF Holds, Others
    <3> QED
      BY <1>1, <2>1, <2>3, <3>1 DEF MirrorInv, MapInv
  <2> QED
    BY <2>2, <2>3
<1>6. QueueInv'
  <2>1. ASSUME NEW u \in Proc, u # t
        PROVE  /\ pc'[u] \notin Stopping => loc'[u].queue = {}
               /\ pc'[u] = "wait" /\ Head(then'[u]) # "read" => loc'[u].queue = {}
               /\ \A q \in loc'[u].queue :
                    /\ q[2] # None => /\ life'[q[2]] = "running"
                                      /\ jobOf'[q[2]] = q[1]
                    /\ mu' = u => q[2] # None /\ kafMirrors'[q[1]] = q[2]
    <3>1. \A q \in loc[u].queue : q[2] \in Mirror \cup {None} /\ q[2] # m
      BY <2>1 DEF TypeOK, Local, Hand
    <3>2. mu' = u => mu = u
      BY <2>1
    <3> QED
      BY <1>1, <2>1, <3>1, <3>2 DEF MirrorInv, QueueInv, Others
  <2>2. \A q \in loc'[t].queue :
          /\ q[2] # None => /\ life'[q[2]] = "running"
                            /\ jobOf'[q[2]] = q[1]
          /\ mu' = t => q[2] # None /\ kafMirrors'[q[1]] = q[2]
    <3>1. \A q \in loc[t].queue : q[2] \in Mirror \cup {None}
      BY DEF TypeOK, Local
    <3> QED
      BY <1>1, <1>3, <3>1 DEF MirrorInv, QueueInv
  <2> QED
    BY <2>1, <2>2 DEF QueueInv, Stopping
<1>7. WaitInv'
  <2>1. ASSUME NEW u \in Proc, u # t
        PROVE  /\ pc'[u] = "wait" => /\ loc'[u].mir \in Mirror
                                     /\ life'[loc'[u].mir] = "cancelled"
               /\ pc'[u] \in {"undo", "relaunch", "read"} /\ mu' = u =>
                    /\ loc'[u].mir \in Mirror
                    /\ life'[loc'[u].mir] = "closed"
               /\ mu' = u /\ pc'[u] \in {"wait", "undo", "relaunch", "read"} =>
                    kafMirrors'[loc'[u].job] = loc'[u].mir
               /\ pc'[u] \in {"guard", "launch"} => kafMirrors'[loc'[u].job] = None
    <3>1. mu' = u => mu = u
      BY <2>1
    <3> QED
      BY <1>1, <2>1, <3>1 DEF MirrorInv, WaitInv, Others
  <2> QED
    BY <1>1, <2>1 DEF WaitInv
<1>8. OneHand'
  BY <1>0, <1>2, <1>4 DEF MirrorInv, OneHand
<1>9. JobOfInv'
  BY <1>0, <1>1 DEF MirrorInv, JobOfInv, Others
<1>10. NoOrphan'
  <2> SUFFICES ASSUME NEW n \in Mirror, Alive(n)'
               PROVE  \/ \E i \in Job : kafMirrors'[i] = n
                      \/ \E u \in Proc : n \in Hand(u)'
    BY DEF NoOrphan
  <2>1. CASE n = m
    BY <1>4, <2>1
  <2>2. CASE n # m
    BY <1>1, <1>4, <2>2 DEF MirrorInv, NoOrphan, Alive
  <2> QED
    BY <2>1, <2>2
<1> QED
  BY <1>5, <1>6, <1>7, <1>8, <1>9, <1>10 DEF MirrorInv

(* The row of a started job cannot be written: the new mirror is in the    *)
(* map and is stopped, under Mu.                                           *)
LEMMA StartUndone ==
  ASSUME TypeOK, LockInv, MirrorInv, NEW t \in Proc, Others(t),
         pc[t] = "launch", pc'[t] = "wait", Head(then'[t]) = "undo",
         NEW j \in Job, j = loc[t].job, NEW m \in Mirror,
         Create(m, j, "cancelled"), mu' = mu,
         loc'[t] = [loc[t] EXCEPT !.mir = m]
  PROVE  MirrorInv'
<1>0. None \notin Proc /\ None \notin Mirror /\ Mirror \subseteq Proc
  BY ManagerAssumption DEF Proc
<1>1. mu = t /\ \A u \in Proc : u # t => ~Within(u)
  BY DEF LockInv, Within
<1>2. kafMirrors[j] = None
  BY DEF MirrorInv, WaitInv
<1>4. loc[t].queue = {} /\ Hand(t) = {}
  BY DEF MirrorInv, QueueInv, Stopping, Hand
<1>3. loc'[t].queue = {} /\ loc'[t].mir = m /\ loc'[t].job = j
  <2>1. loc[t] \in Local
    BY DEF TypeOK
  <2> QED
    BY <1>4, <2>1 DEF Local
<1>5. /\ \A x : x \in Hand(t)' <=> x = m
      /\ \A u \in Proc : u # t => Hand(u)' = Hand(u)
  <2>1. Hand(t)' = {m}
    BY <1>3 DEF Hand
  <2> QED
    BY <2>1 DEF Hand, Others
<1>6. /\ \A i \in Job : kafMirrors'[i] = IF i = j THEN m ELSE kafMirrors[i]
      /\ \A n \in Mirror : n # m => life'[n] = life[n] /\ jobOf'[n] = jobOf[n]
      /\ life[m] = "new" /\ life'[m] = "cancelled" /\ jobOf'[m] = j
  BY DEF TypeOK, Create
<1>7. /\ \A i \in Job : kafMirrors[i] # m
      /\ \A u \in Proc : m \notin Hand(u)
  <2>1. \A i \in Job : kafMirrors[i] # m
    BY <1>6 DEF MirrorInv, MapInv
  <2>2. \A u \in Proc : m \notin Hand(u)
    BY <1>0, <1>6 DEF MirrorInv, QueueInv, WaitInv, Hand
  <2> QED
    BY <2>1, <2>2
<1>8. \A i \in Job, n \in Mirror :
        kafMirrors[i] = n => life[n] = "running" /\ jobOf[n] = i
  BY <1>1 DEF MirrorInv, MapInv, Holds
<1>9. MapInv'
  <2>1. Holds(t, j, m)'
    BY <1>1, <1>3 DEF Holds
  <2> QED
    BY <1>0, <1>6, <1>7, <1>8, <2>1 DEF MapInv
<1>10. QueueInv'
  <2>1. ASSUME NEW u \in Proc, u # t
        PROVE  /\ pc'[u] \notin Stopping => loc'[u].queue = {}
               /\ pc'[u] = "wait" /\ Head(then'[u]) # "read" => loc'[u].queue = {}
               /\ \A q \in loc'[u].queue :
                    q[2] # None => life'[q[2]] = "running" /\ jobOf'[q[2]] = q[1]
    <3>1. \A q \in loc[u].queue : q[2] \in Mirror \cup {None} /\ q[2] # m
      BY <1>7, <2>1 DEF TypeOK, Local, Hand
    <3> QED
      BY <1>6, <2>1, <3>1 DEF MirrorInv, QueueInv, Others
  <2> QED
    BY <1>1, <1>3, <2>1 DEF QueueInv, Stopping
<1>11. WaitInv'
  <2>1. ASSUME NEW u \in Proc, u # t
        PROVE  /\ pc'[u] = "wait" => /\ loc'[u].mir \in Mirror
                                     /\ life'[loc'[u].mir] = "cancelled"
               /\ pc'[u] \notin {"guard", "launch"}
    BY <1>1, <1>6, <2>1 DEF MirrorInv, WaitInv, Others, Within
  <2>2. mu' = t /\ kafMirrors'[loc'[t].job] = m
    BY <1>1, <1>3, <1>6
  <2>3. \A u \in Proc : u # t => mu' # u
    BY <2>2
  <2>4. life'[loc'[t].mir] = "cancelled" /\ loc'[t].mir \in Mirror
    BY <1>3, <1>6
  <2>5. loc'[t].mir = m
    BY <1>3
  <2> QED
    BY <2>1, <2>2, <2>3, <2>4, <2>5 DEF WaitInv
<1>12. OneHand'
  BY <1>0, <1>1, <1>4, <1>5, <1>6, <1>7 DEF MirrorInv, OneHand
<1>13. JobOfInv'
  BY <1>0, <1>6 DEF MirrorInv, JobOfInv, Others
<1>14. NoOrphan'
  <2> SUFFICES ASSUME NEW n \in Mirror, Alive(n)', n # m
               PROVE  \/ \E i \in Job : kafMirrors'[i] = n
                      \/ \E u \in Proc : n \in Hand(u)'
    BY <1>6 DEF NoOrphan
  <2>1. Alive(n)
    BY <1>6 DEF Alive
  <2> QED
    BY <1>0, <1>2, <1>4, <1>5, <1>6, <2>1 DEF MirrorInv, NoOrphan
<1> QED
  BY <1>9, <1>10, <1>11, <1>12, <1>13, <1>14 DEF MirrorInv

(* The goroutines of a cancelled mirror have ended: it is closed.          *)
LEMMA WaitKept ==
  ASSUME TypeOK, ControlOK, LockInv, MirrorInv, NEW t \in Proc, Wait(t)
  PROVE  MirrorInv'
<1> USE DEF managerVars, mirrorVars
<1> DEFINE m == loc[t].mir
<1>0. None \notin Proc /\ None \notin Mirror /\ Mirror \subseteq Proc
  BY ManagerAssumption DEF Proc
<1>1. /\ pc[t] = "wait" /\ UNCHANGED <<kafMirrors, mu, jobOf>>
      /\ m \in Mirror /\ life[m] = "cancelled"
  BY DEF Wait, MirrorInv, WaitInv
<1>2. Others(t) /\ pc'[t] = Head(then[t]) /\ loc'[t] = loc[t]
  BY Woken DEF Wait
<1>3. /\ pc'[t] \in {"read", "undo", "relaunch"}
      /\ pc'[t] # "read" => mu = t /\ loc[t].queue = {}
  BY <1>1, <1>2 DEF ControlOK, StackInv, LockInv, Within, MirrorInv, QueueInv
<1>4. /\ life'[m] = "closed"
      /\ \A n \in Mirror : n # m => life'[n] = life[n]
  BY <1>1 DEF Wait, TypeOK
<1> HIDE DEF m
<1>5. /\ \A u \in Proc : u # t => Hand(u)' = Hand(u) /\ m \notin Hand(u)
      /\ \A x \in Mirror : x \in Hand(t)' <=> x \in Hand(t) /\ x # m
  <2>1. m \in Hand(t)
    BY <1>1 DEF Hand, m
  <2>2. \A q \in loc[t].queue : q[2] # m
    BY <1>0, <1>1 DEF MirrorInv, QueueInv
  <2>3. Hand(t)' = {q[2] : q \in loc[t].queue}
    BY <1>2, <1>3 DEF Hand
  <2>4. Hand(t) = {q[2] : q \in loc[t].queue} \cup {m}
    BY <1>1 DEF Hand, m
  <2>5. \A u \in Proc : u # t => Hand(u)' = Hand(u)
    BY <1>2 DEF Others, Hand
  <2>6. \A u \in Proc : m \in Hand(u) => u = t
    BY <1>1, <2>1 DEF MirrorInv, OneHand
  <2> QED
    BY <2>2, <2>3, <2>4, <2>5, <2>6
<1>6. \A i \in Job : kafMirrors[i] = m => mu = t /\ loc[t].job = i
  <2>1. m \in Hand(t)
    BY <1>1 DEF Hand, m
  <2> QED
    BY <1>1, <2>1 DEF MirrorInv, OneHand, MapInv, Holds
<1>7. MapInv'
  <2> SUFFICES ASSUME NEW i \in Job, NEW n \in Mirror, kafMirrors[i] = n
               PROVE  /\ jobOf[n] = i /\ life'[n] # "new"
                      /\ \/ life'[n] = "running"
                         \/ \E u \in Proc : Holds(u, i, n)'
    BY <1>1 DEF MapInv
  <2>1. /\ jobOf[n] = i /\ life[n] # "new"
        /\ life[n] = "running" \/ \E u \in Proc : Holds(u, i, n)
    BY DEF MirrorInv, MapInv
  <2>2. CASE n = m
    <3>1. Holds(t, i, n)'
      BY <1>1, <1>2, <1>3, <1>6, <2>2 DEF Holds, m
    <3>2. life'[n] # "new"
      BY <1>4, <2>2
    <3> QED
      BY <2>1, <3>1, <3>2
  <2>3. CASE n # m
    <3>1. ASSUME NEW u \in Proc, Holds(u, i, n) PROVE Holds(u, i, n)'
      BY <1>1, <1>2, <2>3, <3>1 DEF Holds, Others, m
    <3> QED
      BY <1>4, <2>1, <2>3, <3>1
  <2> QED
    BY <2>2, <2>3
<1>8. QueueInv'
  <2>1. ASSUME NEW u \in Proc, NEW q \in loc[u].queue, q[2] # None
        PROVE  life'[q[2]] = "running" /\ jobOf'[q[2]] = q[1]
    <3>1. q[2] \in Mirror
      BY <2>1 DEF TypeOK, Local
    <3>2. life[q[2]] = "running" /\ jobOf[q[2]] = q[1]
      BY <2>1 DEF MirrorInv, QueueInv
    <3> QED
      BY <1>1, <1>4, <3>1, <3>2
  <2>2. \A u \in Proc : loc'[u].queue = loc[u].queue
    BY <1>2 DEF Others
  <2> QED
    BY <1>1, <1>2, <1>3, <2>1, <2>2 DEF MirrorInv, QueueInv, Others, Stopping
<1>9. WaitInv'
  <2>1. ASSUME NEW u \in Proc, u # t
        PROVE  /\ pc'[u] = "wait" => /\ loc'[u].mir \in Mirror
                                     /\ life'[loc'[u].mir] = "cancelled"
               /\ pc'[u] \in {"undo", "relaunch", "read"} /\ mu' = u =>
                    /\ loc'[u].mir \in Mirror
                    /\ life'[loc'[u].mir] = "closed"
               /\ mu' = u /\ pc'[u] \in {"wait", "undo", "relaunch", "read"} =>
                    kafMirrors'[loc'[u].job] = loc'[u].mir
               /\ pc'[u] \in {"guard", "launch"} => kafMirrors'[loc'[u].job] = None
    <3>1. pc[u] = "wait" => loc[u].mir # m
      BY <1>5, <2>1 DEF Hand
    <3> QED
      BY <1>1, <1>2, <1>4, <2>1, <3>1 DEF MirrorInv, WaitInv, Others
  <2>2. mu = t => kafMirrors[loc[t].job] = m
    BY <1>1 DEF MirrorInv, WaitInv, m
  <2> QED
    BY <1>1, <1>2, <1>3, <1>4, <2>1, <2>2 DEF WaitInv, m
<1>10. OneHand'
  <2>1. \A u \in Proc, x \in Mirror : x \in Hand(u)' => x \in Hand(u)
    BY <1>5
  <2> QED
    BY <1>1, <2>1 DEF MirrorInv, OneHand
<1>11. JobOfInv'
  BY <1>0, <1>1, <1>2, <1>4 DEF MirrorInv, JobOfInv, Others
<1>12. NoOrphan'
  <2> SUFFICES ASSUME NEW n \in Mirror, Alive(n)'
               PROVE  \/ \E i \in Job : kafMirrors'[i] = n
                      \/ \E u \in Proc : n \in Hand(u)'
    BY DEF NoOrphan
  <2>1. n # m /\ Alive(n)
    BY <1>4 DEF Alive
  <2> QED
    BY <1>1, <1>5, <2>1 DEF MirrorInv, NoOrphan
<1> QED
  BY <1>7, <1>8, <1>9, <1>10, <1>11, <1>12 DEF MirrorInv

(* The row of a stopped job is read; under Mu its entry is deleted.        *)
LEMMA ReadKept ==
  ASSUME TypeOK, ControlOK, LockInv, MirrorInv, NEW t \in Proc, Read(t)
  PROVE  MirrorInv'
<1> USE DEF managerVars, mirrorVars
<1> DEFINE j == loc[t].job
<1>0. None \notin Proc /\ None \notin Mirror /\ Mirror \subseteq Proc
  BY ManagerAssumption DEF Proc
<1>1. /\ pc[t] = "read" /\ UNCHANGED <<mu, life, jobOf>>
      /\ kafMirrors' = IF mu = t THEN [kafMirrors EXCEPT ![j] = None]
                                 ELSE kafMirrors
  BY DEF Read
<1>2. /\ Others(t) /\ pc'[t] \in {"next", "write"}
      /\ loc'[t].queue = loc[t].queue
  <2>1. loc[t] \in Local
    BY DEF TypeOK
  <2> DEFINE l == [loc[t] EXCEPT !.row = db[j], !.ok = db[j] # None,
                                 !.mir = None]
  <2>2. l.queue = loc[t].queue
    BY <2>1 DEF Local
  <2>3. Goto(t, "next", l) \/ Goto(t, "write", l)
    BY DEF Read
  <2> HIDE DEF l
  <2> QED
    BY <2>2, <2>3, Goes
<1>3. t \in Mirror => life[t] # "new"
  BY <1>1, NotNew DEF MirrorInv
<1>4. CASE mu # t
  BY <1>1, <1>2, <1>3, <1>4, QuietStep DEF Stopping
<1>5. CASE mu = t
  <2> DEFINE m == kafMirrors[j]
  <2>1. m \in Mirror /\ life[m] = "closed" /\ m = loc[t].mir
    BY <1>1, <1>5 DEF MirrorInv, WaitInv
  <2>2. j \in Job
    BY <1>1 DEF ControlOK, JobInv, Local
  <2>3. \A i \in Job : kafMirrors'[i] = IF i = j THEN None ELSE kafMirrors[i]
    BY <1>1, <1>5, <2>2 DEF TypeOK
  <2>4. \A i \in Job : i # j => kafMirrors[i] # m
    BY <2>1, <2>2 DEF MirrorInv, MapInv
  <2>5. \A u \in Proc : Hand(u)' = Hand(u)
    BY <1>1, <1>2 DEF Others, Hand
  <2> HIDE DEF j, m
  <2>6. MapInv'
    <3> SUFFICES ASSUME NEW i \in Job, NEW n \in Mirror, kafMirrors'[i] = n
                 PROVE  /\ jobOf[n] = i /\ life[n] = "running"
      BY <1>1 DEF MapInv
    <3>1. i # j /\ kafMirrors[i] = n
      BY <1>0, <2>3
    <3> QED
      BY <1>5, <3>1 DEF MirrorInv, MapInv, Holds, j
  <2>7. QueueInv'
    <3>1. \A q \in loc[t].queue : q[1] \in Job /\ q[2] \in Mirror /\ q[1] # j
      <4>1. \A q \in loc[t].queue :
              /\ q[1] \in Job /\ q[2] \in Mirror \cup {None}
              /\ q[2] # None /\ kafMirrors[q[1]] = q[2]
              /\ life[q[2]] = "running"
        BY <1>5 DEF TypeOK, Local, MirrorInv, QueueInv
      <4> QED
        BY <2>1, <4>1 DEF m
    <3>2. \A q \in loc[t].queue : kafMirrors'[q[1]] = kafMirrors[q[1]]
      BY <2>3, <3>1
    <3> QED
      BY <1>1, <1>2, <1>5, <3>2 DEF MirrorInv, QueueInv, Others, Stopping
  <2>8. WaitInv'
    <3>1. \A u \in Proc : u # t => pc'[u] \notin {"guard", "launch"}
      BY <1>2, <1>5 DEF LockInv, Within, Others
    <3> QED
      BY <1>1, <1>2, <1>5, <3>1 DEF MirrorInv, WaitInv, Others
  <2>9. OneHand'
    BY <1>0, <1>1, <2>3, <2>5 DEF MirrorInv, OneHand
  <2>10. JobOfInv'
    BY <1>0, <1>1, <1>2, <1>3 DEF MirrorInv, JobOfInv, Others
  <2>11. NoOrphan'
    BY <1>1, <2>1, <2>3, <2>5 DEF MirrorInv, NoOrphan, Alive, m
  <2> QED
    BY <2>6, <2>7, <2>8, <2>9, <2>10, <2>11 DEF MirrorInv
<1> QED
  BY <1>4, <1>5

(* The next of the queue: it is cancelled, unless a stop found no mirror.  *)
LEMMA NextMirrorKept ==
  ASSUME TypeOK, ControlOK, LockInv, MirrorInv, NEW t \in Proc, NextMirror(t)
  PROVE  MirrorInv'
<1> USE DEF managerVars, mirrorVars
<1>0. None \notin Proc /\ None \notin Mirror /\ Mirror \subseteq Proc
  BY ManagerAssumption DEF Proc
<1>1. pc[t] = "next" /\ UNCHANGED <<kafMirrors, jobOf>>
  BY DEF NextMirror
<1>2. t \in Mirror => life[t] # "new"
  BY <1>1, NotNew DEF MirrorInv
<1>3. ASSUME loc[t].queue = {}, Return(t, loc[t]), UNCHANGED life,
             mu' = IF mu = t THEN None ELSE mu
      PROVE  MirrorInv'
  <2>1. /\ Others(t) /\ pc'[t] \in Resting \cup {"idle"}
        /\ loc'[t].queue = {}
    BY <1>1, <1>3, Returns
  <2> QED
    BY <1>1, <1>2, <1>3, <2>1, QuietStep DEF Resting
<1>4. ASSUME NEW q \in loc[t].queue, mu' = mu,
             LET l == [loc[t] EXCEPT !.job = q[1], !.mir = q[2],
                                     !.queue = @ \ {q}]
             IN  IF q[2] = None THEN Goto(t, "read", l) /\ UNCHANGED life
                 ELSE /\ life' = [life EXCEPT ![q[2]] = "cancelled"]
                      /\ Call(t, "wait", <<"read">>, l)
      PROVE  MirrorInv'
  <2> DEFINE l == [loc[t] EXCEPT !.job = q[1], !.mir = q[2],
                                 !.queue = @ \ {q}]
  <2>1. /\ q = <<q[1], q[2]>> /\ q[1] \in Job /\ q[2] \in Mirror \cup {None}
    BY DEF TypeOK, Local
  <2>2. l.job = q[1] /\ l.mir = q[2] /\ l.queue = loc[t].queue \ {q}
    BY DEF TypeOK, Local
  <2>3. CASE q[2] = None
    <3>1. /\ Others(t) /\ pc'[t] = "read" /\ loc'[t] = l /\ UNCHANGED life
      BY <1>4, <2>3, Goes
    <3>2. mu # t
      BY <2>3 DEF MirrorInv, QueueInv
    <3> HIDE DEF l
    <3>3. ASSUME NEW u \in Proc, NEW x \in Mirror
          PROVE  x \in Hand(u)' <=> x \in Hand(u)
      <4>1. CASE u # t
        BY <3>1, <4>1 DEF Others, Hand
      <4>2. CASE u = t
        BY <1>0, <1>1, <2>2, <2>3, <3>1, <4>2 DEF Hand
      <4> QED
        BY <4>1, <4>2
    <3>4. MapInv'
      BY <1>1, <1>4, <3>1, <3>2 DEF MirrorInv, MapInv, Others, Holds
    <3>5. QueueInv'
      BY <1>1, <1>4, <2>2, <3>1, <3>2 DEF MirrorInv, QueueInv, Others, Stopping
    <3>6. WaitInv'
      BY <1>1, <1>4, <3>1, <3>2 DEF MirrorInv, WaitInv, Others
    <3>7. OneHand'
      BY <1>1, <1>4, <3>3 DEF MirrorInv, OneHand
    <3>8. JobOfInv'
      BY <1>0, <1>1, <1>2, <3>1 DEF MirrorInv, JobOfInv, Others
    <3>9. NoOrphan'
      BY <1>1, <3>1, <3>3 DEF MirrorInv, NoOrphan, Alive
    <3> QED
      BY <3>4, <3>5, <3>6, <3>7, <3>8, <3>9 DEF MirrorInv
  <2>4. CASE q[2] # None
    <3>1. /\ Others(t) /\ pc'[t] = "wait" /\ loc'[t] = l
          /\ Head(then'[t]) = "read"
          /\ life' = [life EXCEPT ![q[2]] = "cancelled"]
      BY <1>1, <1>4, <2>4, Waits
    <3>2. q[2] \in Mirror /\ life[q[2]] = "running" /\ jobOf[q[2]] = q[1]
      BY <2>1, <2>4 DEF MirrorInv, QueueInv
    <3>3. mu = t => kafMirrors[q[1]] = q[2]
      BY DEF MirrorInv, QueueInv
    <3>4. q[2] \in Hand(t)
      BY DEF Hand
    <3>5. /\ \A u \in Proc : q[2] \in Hand(u) => u = t
          /\ \A i \in Job : kafMirrors[i] = q[2] => mu = t
      BY <3>2, <3>4 DEF MirrorInv, OneHand
    <3> HIDE DEF l
    <3>6. /\ loc'[t].queue = loc[t].queue \ {<<q[1], q[2]>>}
          /\ loc'[t].job = q[1] /\ loc'[t].mir = q[2]
      BY <2>1, <2>2, <3>1
    <3>7. /\ \A i \in Job : kafMirrors[i] = q[2] => mu' = t
          /\ mu' = t => kafMirrors[q[1]] = q[2]
          /\ mu' = mu \/ (mu = None /\ mu' = t /\ loc[t].queue = {})
      BY <1>4, <3>3, <3>5
    <3>8. /\ UNCHANGED <<kafMirrors, jobOf>> /\ pc[t] \in {"next", "apply"}
          /\ Head(then'[t]) = "read" \/ loc'[t].queue = {}
          /\ Others(t) /\ pc'[t] = "wait"
          /\ life' = [life EXCEPT ![q[2]] = "cancelled"]
          /\ \A u \in Proc : q[2] \in Hand(u) => u = t
      BY <1>1, <3>1, <3>5
    <3>9. q[1] \in Job
      BY <2>1
    <3> QED
      BY <3>2, <3>6, <3>7, <3>8, <3>9, Cancelled
  <2> QED
    BY <2>3, <2>4
<1> QED
  BY <1>3, <1>4 DEF NextMirror

LEMMA ApplyKept ==
  ASSUME TypeOK, ControlOK, LockInv, MirrorInv, NEW t \in Proc, Apply(t)
  PROVE  MirrorInv'
<1> USE DEF managerVars, mirrorVars
<1>0. None \notin Proc /\ None \notin Mirror
  BY ManagerAssumption DEF Proc
<1>1. /\ pc[t] = "apply" /\ mu = None /\ UNCHANGED <<kafMirrors, jobOf>>
      /\ loc[t].queue = {}
  BY DEF Apply, MirrorInv, QueueInv, Stopping
<1>2. t \in Mirror => life[t] # "new"
  BY <1>1, NotNew DEF MirrorInv
<1>3. CASE Return(t, loc[t]) /\ UNCHANGED <<mu, life>>
  <2>1. /\ Others(t) /\ pc'[t] \in Resting \cup {"idle"}
        /\ loc'[t].queue = {}
    BY <1>1, <1>3, Returns
  <2> QED
    BY <1>1, <1>2, <1>3, <2>1, QuietStep DEF Resting
<1> DEFINE j == loc[t].job
           m == kafMirrors[j]
           l == [loc[t] EXCEPT !.mir = m]
<1>4. CASE /\ m # None /\ mu' = t
           /\ life' = [life EXCEPT ![m] = "cancelled"]
           /\ Call(t, "wait", <<"relaunch">>, l)
  <2>1. j \in Job
    BY <1>1 DEF ControlOK, JobInv, Local
  <2>2. m \in Mirror
    BY <1>4, <2>1 DEF TypeOK
  <2>3. l.job = j /\ l.mir = m /\ l.queue = {}
    BY <1>1 DEF TypeOK, Local
  <2>4. life[m] = "running" /\ jobOf[m] = j
    BY <1>0, <1>1, <2>1, <2>2 DEF MirrorInv, MapInv, Holds
  <2>5. \A u \in Proc : m \notin Hand(u)
    BY <1>0, <1>1, <2>1, <2>2 DEF MirrorInv, OneHand
  <2>6. kafMirrors[j] = m
    OBVIOUS
  <2> HIDE DEF j, m, l
  <2>7. Others(t) /\ pc'[t] = "wait" /\ loc'[t] = l
    BY <1>1, <1>4, Waits
  <2>8. /\ loc'[t].queue = loc[t].queue \ {<<j, m>>} /\ loc'[t].queue = {}
        /\ loc'[t].job = j /\ loc'[t].mir = m
    BY <1>1, <2>3, <2>7
  <2> QED
    BY <1>1, <1>4, <2>1, <2>2, <2>4, <2>5, <2>6, <2>7, <2>8, Cancelled
<1> QED
  BY <1>3, <1>4 DEF Apply

LEMMA TakeKept ==
  ASSUME TypeOK, ControlOK, LockInv, MirrorInv, NEW t \in Proc,
         TakeOne(t) \/ TakeAll(t)
  PROVE  MirrorInv'
<1> USE DEF managerVars, mirrorVars
<1>0. /\ UNCHANGED <<mu, life, jobOf>> /\ mu = None
      /\ pc[t] \in {"stop", "force", "panic", "halt"}
      /\ loc[t] \in Local
  BY DEF TakeOne, TakeAll, TypeOK
<1>1. CASE TakeOne(t)
  <2> DEFINE j == loc[t].job
  <2>1. j \in Job
    BY <1>1 DEF TakeOne, ControlOK, JobInv, Local
  <2>2. CASE pc[t] = "stop" /\ kafMirrors[j] = None
    <3>0. Goto(t, "notRunning", loc[t])
      BY <1>1, <2>2 DEF TakeOne
    <3>1. kafMirrors' = kafMirrors
      BY <1>1, <2>1, <2>2 DEF TakeOne, TypeOK
    <3>2. Others(t) /\ pc'[t] = "notRunning" /\ loc'[t] = loc[t]
      BY <3>0, Goes
    <3>3. loc[t].queue = {} /\ (t \in Mirror => life[t] # "new")
      BY <1>0, NotNew DEF MirrorInv, QueueInv, Stopping
    <3> QED
      BY <1>0, <2>2, <3>1, <3>2, <3>3, QuietStep
  <2>3. CASE ~(pc[t] = "stop" /\ kafMirrors[j] = None)
    <3>1. PICK mk : Goto(t, "next", [loc[t] EXCEPT !.queue = {<<j, kafMirrors[j]>>},
                                                   !.mark = mk])
      BY <1>1, <2>3 DEF TakeOne
    <3>2. [loc[t] EXCEPT !.queue = {<<j, kafMirrors[j]>>}, !.mark = mk].queue
            = {<<i, kafMirrors[i]>> : i \in {j}}
      BY <1>0 DEF Local
    <3>3. kafMirrors' = [i \in Job |-> IF i \in {j} THEN None ELSE kafMirrors[i]]
      BY <1>1, <2>1 DEF TakeOne, TypeOK
    <3>4. Others(t) /\ pc'[t] = "next"
      BY <3>1, Goes
    <3>5. loc'[t].queue = {<<i, kafMirrors[i]>> : i \in {j}}
      BY <3>1, <3>2, Goes
    <3>6. /\ pc[t] \notin Stopping \cup {"idle"} /\ mu' = None
          /\ {j} \in SUBSET Job
      BY <1>0, <2>1 DEF Stopping
    <3> HIDE DEF j
    <3> QED
      BY <1>0, <3>3, <3>4, <3>5, <3>6, Taken
  <2> QED
    BY <1>1, <2>2, <2>3 DEF TakeOne
<1>2. CASE TakeAll(t)
  <2>1. [loc[t] EXCEPT !.queue = AllMirrors, !.mark = "halted"].queue
          = AllMirrors
    BY <1>0 DEF Local
  <2>2. Others(t) /\ pc'[t] = "next" /\ loc'[t].queue = AllMirrors
    <3> DEFINE l == [loc[t] EXCEPT !.queue = AllMirrors, !.mark = "halted"]
    <3>1. Goto(t, "next", l)
      BY <1>2 DEF TakeAll
    <3> HIDE DEF l
    <3>2. Others(t) /\ pc'[t] = "next" /\ loc'[t] = l
      BY <3>1, Goes
    <3> QED
      BY <2>1, <3>2 DEF l
  <2>3. kafMirrors' = [i \in Job |-> IF i \in RunningJobs THEN None
                                                       ELSE kafMirrors[i]]
    BY <1>2 DEF TakeAll, RunningJobs, TypeOK
  <2>4. /\ loc'[t].queue = {<<i, kafMirrors[i]>> : i \in RunningJobs}
        /\ RunningJobs \in SUBSET Job
    BY <2>2 DEF AllMirrors, RunningJobs
  <2>5. pc[t] \notin Stopping \cup {"idle"} /\ mu' = None
    BY <1>0 DEF Stopping
  <2> QED
    BY <1>0, <2>2, <2>3, <2>4, <2>5, Taken
<1> QED
  BY <1>1, <1>2

(* A start, its undoing, and the start of a throttled mirror.              *)
LEMMA StartKept ==
  ASSUME TypeOK, ControlOK, LockInv, MirrorInv, NEW t \in Proc,
         Launch(t) \/ Undo(t) \/ Relaunch(t)
  PROVE  MirrorInv'
<1> USE DEF managerVars, mirrorVars
<1> DEFINE j == loc[t].job
<1>0. /\ pc[t] \in {"launch", "undo", "relaunch"}
      /\ pc[t] \notin {"wait", "idle"} /\ loc[t] \in Local
  BY DEF Launch, Undo, Relaunch, TypeOK
<1>1. j \in Job /\ loc[t].queue = {} /\ mu = t
  BY <1>0 DEF ControlOK, JobInv, Local, MirrorInv, QueueInv, Stopping,
              LockInv, Within
<1>q. \A a : /\ [loc[t] EXCEPT !.ok = a].queue = {}
             /\ [loc[t] EXCEPT !.ok = a, !.mir = None].queue = {}
  BY <1>0, <1>1 DEF Local
<1>2. ASSUME NEW l, Return(t, l), l.queue = {}
      PROVE  /\ Others(t) /\ pc'[t] \in Resting \cup {"idle"}
             /\ loc'[t].queue = {}
  BY <1>0, <1>2, Returns
<1>3. ASSUME Launch(t) PROVE MirrorInv'
  <2>1. CASE /\ mu' = None /\ UNCHANGED <<kafMirrors, life, jobOf>>
             /\ Return(t, [loc[t] EXCEPT !.ok = FALSE])
    <3>1. /\ Others(t) /\ pc'[t] \in Resting \cup {"idle"}
          /\ loc'[t].queue = {}
      BY <1>2, <1>q, <2>1
    <3>2. t \in Mirror => life[t] # "new"
      BY <1>0, NotNew DEF MirrorInv
    <3> QED
      BY <1>1, <1>3, <2>1, <3>1, <3>2, QuietStep DEF Resting, Launch
  <2>2. ASSUME NEW m \in Mirror, Create(m, j, "running"), mu' = None,
               Return(t, [loc[t] EXCEPT !.ok = TRUE])
        PROVE  MirrorInv'
    <3>1. m # None /\ Others(t) /\ pc'[t] \in Resting \cup {"idle"}
          /\ loc'[t].queue = {}
      BY <1>2, <1>q, <2>2, ManagerAssumption
    <3> QED
      BY <1>0, <1>1, <2>2, <3>1, Released DEF Create
  <2>3. ASSUME NEW m \in Mirror, Create(m, j, "cancelled"), mu' = mu,
               Call(t, "wait", <<"undo">>, [loc[t] EXCEPT !.mir = m])
        PROVE  MirrorInv'
    <3>1. /\ Others(t) /\ pc'[t] = "wait" /\ Head(then'[t]) = "undo"
          /\ loc'[t] = [loc[t] EXCEPT !.mir = m]
      BY <1>0, <2>3, Waits
    <3>2. pc[t] = "launch"
      BY <1>3 DEF Launch
    <3> QED
      BY <1>1, <2>3, <3>1, <3>2, StartUndone
  <2> QED
    BY <1>3, <2>1, <2>2, <2>3 DEF Launch
<1>4. ASSUME Undo(t) PROVE MirrorInv'
  <2>1. /\ Others(t) /\ pc'[t] \in Resting \cup {"idle"}
        /\ loc'[t].queue = {}
    BY <1>2, <1>4, <1>q DEF Undo
  <2>2. /\ kafMirrors' = [kafMirrors EXCEPT ![j] = None] /\ mu' = None
        /\ UNCHANGED <<life, jobOf>>
    BY <1>4 DEF Undo
  <2> QED
    BY <1>0, <1>1, <2>1, <2>2, Released
<1>5. ASSUME Relaunch(t) PROVE MirrorInv'
  <2>1. /\ Others(t) /\ pc'[t] \in Resting \cup {"idle"}
        /\ loc'[t].queue = {} /\ mu' = None
    BY <1>1, <1>2, <1>5 DEF Relaunch
  <2>2. CASE /\ kafMirrors' = [kafMirrors EXCEPT ![j] = None]
             /\ UNCHANGED <<life, jobOf>>
    BY <1>0, <1>1, <2>1, <2>2, Released
  <2>3. ASSUME NEW m \in Mirror, Create(m, j, "running")
        PROVE  MirrorInv'
    <3>1. m # None
      BY ManagerAssumption
    <3> QED
      BY <1>0, <1>1, <2>1, <2>3, <3>1, Released DEF Create
  <2> QED
    BY <1>5, <2>2, <2>3 DEF Relaunch
<1> QED
  BY <1>3, <1>4, <1>5

(* Every step leaves each mirror in one place.                             *)
LEMMA NextMirrorInv ==
  ASSUME TypeOK, ControlOK, LockInv, MirrorInv, [Next]_vars
  PROVE  LockInv' /\ MirrorInv'
<1> USE DEF managerVars, mirrorVars
<1>0. /\ Thread \subseteq Proc /\ Mirror \subseteq Proc /\ None \notin Proc
      /\ Thread \cap Mirror = {} /\ Watcher \cap Mirror = {}
      /\ Booter \cap Mirror = {}
  BY ManagerAssumption DEF Proc
<1>n. NoLocal.queue = {} /\ \A j : [NoLocal EXCEPT !.job = j].queue = {}
  BY DEF NoLocal
<1>1. ASSUME NEW t \in Proc, pc[t] = "idle", Others(t), loc'[t].queue = {},
             pc'[t] \notin {"guard", "launch", "undo", "relaunch", "syncSave",
                            "wait", "read"},
             t \in Mirror => life[t] # "new",
             UNCHANGED <<managerVars, mirrorVars>>
      PROVE  LockInv' /\ MirrorInv'
  <2>1. loc[t].queue = {}
    BY <1>1 DEF MirrorInv, QueueInv, Stopping
  <2>2. ~Within(t)'
    BY <1>1 DEF Within
  <2>3. LockInv'
    BY <1>1, <2>2, LockKept
  <2>4. MirrorInv'
    BY <1>1, <2>1, QuietStep
  <2> QED
    BY <2>3, <2>4
<1>2. CASE \E t \in Thread, r \in Requests, j \in Job : Begin(t, r, j)
  <2>1. PICK t \in Thread, r \in Requests, j \in Job : Begin(t, r, j)
    BY <1>2
  <2> DEFINE p == Head(Routine(r))
             rest == Tail(Routine(r))
             l == [NoLocal EXCEPT !.job = j]
  <2>2. r \in Requests \ {"halt", "resume"}
    BY <2>1, ManagerAssumption DEF Begin
  <2>3. Head(Routine(r)) \in {"stop", "force", "list", "sync"} \cup Requests
    BY <2>2 DEF Routine
  <2>4. Call(t, p, rest, l) /\ pc[t] = "idle"
    BY <2>1 DEF Begin
  <2>5. UNCHANGED <<managerVars, mirrorVars>> /\ l.queue = {}
    BY <1>n, <2>1 DEF Begin
  <2> HIDE DEF l
  <2>6. Others(t) /\ pc'[t] = p /\ loc'[t] = l
    BY <1>0, <2>4, Calls
  <2>7. pc'[t] \notin {"guard", "launch", "undo", "relaunch", "syncSave",
                       "wait", "read"}
    BY <2>3, <2>6 DEF Requests
  <2> HIDE DEF p
  <2> QED
    BY <1>0, <1>1, <2>4, <2>5, <2>6, <2>7
<1>3. CASE \E t \in Thread : BeginHalt(t)
  <2>1. PICK t \in Thread : BeginHalt(t)
    BY <1>3
  <2>2. /\ Others(t) /\ pc'[t] = "halt" /\ loc'[t] = NoLocal
        /\ pc[t] = "idle" /\ UNCHANGED <<managerVars, mirrorVars>>
    BY <1>0, <2>1, Goes DEF BeginHalt
  <2> QED
    BY <1>0, <1>1, <1>n, <2>2
<1>4. CASE \E t \in Proc : Tick(t)
  <2>1. PICK t \in Proc : Tick(t)
    BY <1>4
  <2>2. CASE Goto(t, "halt", NoLocal)
    <3>1. /\ Others(t) /\ pc'[t] = "halt" /\ loc'[t] = NoLocal
          /\ pc[t] = "idle" /\ UNCHANGED <<managerVars, mirrorVars>>
          /\ t \in Watcher
      BY <2>1, <2>2, Goes DEF Tick
    <3> QED
      BY <1>0, <1>1, <1>n, <3>1
  <2>3. CASE UNCHANGED procVars
    <3>1. UNCHANGED <<managerVars, mirrorVars>>
      BY <2>1 DEF Tick
    <3> QED
      BY <2>3, <3>1, SameMirrors DEF procVars, LockInv, Within
  <2> QED
    BY <2>1, <2>2, <2>3 DEF Tick
<1>5. CASE \E t \in Proc : Step(t)
  <2>1. PICK t \in Proc : Step(t)
    BY <1>5
  <2>2. LockInv'
    BY <2>1, StepLock
  <2>3. MirrorInv'
    BY <2>1, QuietKept, StartKept, TakeKept, StopAllKept, NextMirrorKept,
       WaitKept, ReadKept, ApplyKept DEF Step, Quiet
  <2> QED
    BY <2>2, <2>3
<1>6. CASE \E m \in Mirror : Panic(m)
  <2>1. PICK m \in Mirror : Panic(m)
    BY <1>6
  <2> DEFINE l == [NoLocal EXCEPT !.job = jobOf[m]]
  <2>2. /\ Goto(m, "panic", l) /\ pc[m] = "idle" /\ life[m] # "new"
        /\ UNCHANGED <<managerVars, mirrorVars>> /\ l.queue = {}
    BY <1>n, <2>1 DEF Panic
  <2> HIDE DEF l
  <2>3. Others(m) /\ pc'[m] = "panic" /\ loc'[m] = l
    BY <1>0, <2>2, Goes
  <2> QED
    BY <1>0, <1>1, <2>2, <2>3
<1>7. CASE Crash
  <2>1. /\ \A j \in Job : kafMirrors'[j] = None
        /\ mu' = None /\ jobOf' = jobOf
        /\ \A m \in Mirror : life'[m] = IF life[m] = "new" THEN "new"
                                                           ELSE "closed"
        /\ \A t \in Proc : /\ pc'[t] = IF t \in Booter THEN "list" ELSE "idle"
                           /\ loc'[t].queue = {}
    BY <1>7, <1>n DEF Crash
  <2>2. LockInv'
    BY <2>1 DEF LockInv, Within
  <2>3. MapInv' /\ WaitInv' /\ NoOrphan'
    BY <2>1, ManagerAssumption DEF MapInv, WaitInv, NoOrphan, Alive
  <2>4. QueueInv'
    BY <2>1 DEF QueueInv
  <2>5. OneHand'
    BY <2>1 DEF OneHand, Hand
  <2>6. JobOfInv'
    BY <1>0, <2>1 DEF MirrorInv, JobOfInv
  <2> QED
    BY <2>2, <2>3, <2>4, <2>5, <2>6 DEF MirrorInv
<1>8. CASE Resume \/ Trip \/ UNCHANGED vars
  <2>1. UNCHANGED <<managerVars, mirrorVars, procVars>>
    BY <1>8 DEF Resume, Trip, vars
  <2> QED
    BY <2>1, SameMirrors DEF procVars, LockInv, Within
<1> QED
  BY <1>2, <1>3, <1>4, <1>5, <1>6, <1>7, <1>8 DEF Next
-----------------------------------------------------------------------------
(* While a halt stands, nobody puts a mirror into the map.                 *)
LEMMA FrozenStep ==
  ASSUME FrozenInv, frozen' = frozen, IsHalted => IsHalted',
         NEW t \in Proc, Others(t),
         frozen => /\ \A j \in Job : kafMirrors'[j] = None
                   /\ pc'[t] \notin {"launch", "relaunch"}
                   /\ pc'[t] = "wait" => Head(then'[t]) # "relaunch"
  PROVE  FrozenInv'
BY DEF FrozenInv, Others

LEMMA StepFrozen ==
  ASSUME TypeOK, ControlOK, LockInv, FrozenInv, NEW t \in Proc, Step(t)
  PROVE  FrozenInv'
<1> USE DEF managerVars, guardVars
<1>1. LockInv' /\ Others(t) /\ None \notin Proc
  BY StepLock, ManagerAssumption DEF Proc
<1>2. ASSUME frozen
      PROVE  /\ IsHalted /\ \A j \in Job : kafMirrors[j] = None
             /\ pc[t] \notin {"launch", "relaunch"}
             /\ pc[t] = "wait" => Head(then[t]) # "relaunch"
  BY <1>2 DEF FrozenInv
<1>r. ASSUME NEW l, Return(t, l), pc[t] # "wait"
      PROVE  pc'[t] \notin {"launch", "relaunch", "wait"}
  BY <1>r, Returns DEF Resting
<1>g. ASSUME NEW phase, NEW l, Goto(t, phase, l)
      PROVE  pc'[t] = phase
  BY <1>g, Goes
<1>c. ASSUME NEW phase, NEW rest, NEW l, Call(t, phase, rest, l)
      PROVE  pc'[t] = phase
  BY <1>c, Calls
<1>s. ASSUME UNCHANGED <<halted, tripwire, frozen>>,
             frozen => /\ \A j \in Job : kafMirrors'[j] = None
                       /\ pc'[t] \notin {"launch", "relaunch"}
                       /\ pc'[t] = "wait" => Head(then'[t]) # "relaunch"
      PROVE  FrozenInv'
  BY <1>1, <1>s, FrozenStep DEF IsHalted
<1>3. CASE Start(t)
  BY <1>3, <1>2, <1>r, <1>g, <1>s DEF Start
<1>4. CASE Guard(t)
  BY <1>4, <1>2, <1>r, <1>g, <1>s DEF Guard
<1>5. CASE Launch(t) \/ Relaunch(t)
  BY <1>5, <1>2, <1>s DEF Launch, Relaunch
<1>6. CASE Undo(t)
  BY <1>6, <1>2, <1>r, <1>s DEF Undo, TypeOK
<1>7. CASE TakeOne(t)
  BY <1>7, <1>2, <1>g, <1>s DEF TakeOne, TypeOK
<1>8. CASE TakeAll(t)
  <2>1. \A u \in Proc : ~Within(u)
    BY <1>8, <1>1 DEF TakeAll, LockInv
  <2>2. /\ \A j \in Job : kafMirrors'[j] = None
        /\ frozen' = IsHalted /\ IsHalted' = IsHalted /\ pc'[t] = "next"
    BY <1>8, <1>g DEF TakeAll, IsHalted
  <2> QED
    BY <1>1, <2>1, <2>2 DEF FrozenInv, Within, Others
<1>9. CASE NotRunning(t)
  BY <1>9, <1>2, <1>r, <1>g, <1>s DEF NotRunning
<1>10. CASE StopAll(t) \/ Sync(t)
  BY <1>10, <1>2, <1>g, <1>s DEF StopAll, Sync
<1>11. CASE NextMirror(t)
  <2>1. /\ UNCHANGED <<kafMirrors, halted, tripwire, frozen>>
        /\ pc[t] = "next"
    BY <1>11 DEF NextMirror
  <2>2. \/ \E l : Return(t, l) \/ Goto(t, "read", l)
        \/ \E l : Call(t, "wait", <<"read">>, l)
    BY <1>11 DEF NextMirror
  <2>3. CASE \E l : Call(t, "wait", <<"read">>, l)
    <3>1. Head(then'[t]) = "read" /\ pc'[t] = "wait"
      BY <2>1, <2>3, Waits
    <3> QED
      BY <1>2, <1>s, <2>1, <3>1
  <2> QED
    BY <1>2, <1>r, <1>g, <1>s, <2>1, <2>2, <2>3
<1>12. CASE Wait(t)
  <2>1. pc'[t] = Head(then[t]) /\ pc[t] = "wait"
    BY <1>12, Woken DEF Wait
  <2>2. pc'[t] \in {"read", "undo", "relaunch"}
    BY <2>1 DEF ControlOK, StackInv
  <2> QED
    BY <1>12, <1>2, <1>s, <2>1, <2>2 DEF Wait
<1>13. CASE Read(t)
  BY <1>13, <1>2, <1>g, <1>s DEF Read, TypeOK
<1>14. CASE Write(t)
  BY <1>14, <1>2, <1>g, <1>s DEF Write
<1>15. CASE Delete(t) \/ RestartSave(t) \/ UpdateSave(t) \/ BootSave(t)
  BY <1>15, <1>2, <1>r, <1>s DEF Delete, RestartSave, UpdateSave, BootSave
<1>16. CASE Restart(t)
  BY <1>16, <1>2, <1>r, <1>c, <1>s DEF Restart
<1>17. CASE Preflight(t) \/ Throttle(t) \/ Update(t)
  BY <1>17, <1>2, <1>r, <1>g, <1>s DEF Preflight, Throttle, Update
<1>18. CASE Apply(t)
  <2>1. ASSUME frozen PROVE kafMirrors[loc[t].job] = None
    <3>1. loc[t].job \in Job
      BY <1>18 DEF Apply, ControlOK, JobInv, Local
    <3> QED
      BY <1>2, <2>1, <3>1
  <2>2. /\ UNCHANGED <<kafMirrors, halted, tripwire, frozen>>
        /\ frozen => Return(t, loc[t]) /\ pc[t] = "apply"
    BY <1>18, <2>1 DEF Apply
  <2> QED
    BY <1>2, <1>r, <1>s, <2>2
<1>19. CASE SyncSave(t) \/ ListAll(t) \/ Collect(t) \/ List(t)
  BY <1>19, <1>2, <1>g, <1>s DEF SyncSave, ListAll, Collect, List
<1>20. CASE StopEach(t)
  <2>1. \/ \E l : Goto(t, "startEach", l)
        \/ \E l : Call(t, "stop", <<"stopEach">>, l)
    BY <1>20 DEF StopEach
  <2> QED
    BY <1>20, <1>2, <1>g, <1>c, <1>s, <2>1 DEF StopEach
<1>21. CASE StartEach(t)
  <2>1. \/ Return(t, loc[t])
        \/ \E rest, l : Call(t, "start", rest, l)
    BY <1>21 DEF StartEach
  <2> QED
    BY <1>21, <1>2, <1>r, <1>c, <1>s, <2>1 DEF StartEach
<1> QED
  BY <1>3, <1>4, <1>5, <1>6, <1>7, <1>8, <1>9, <1>10, <1>11, <1>12, <1>13,
     <1>14, <1>15, <1>16, <1>17, <1>18, <1>19, <1>20, <1>21 DEF Step

LEMMA NextFrozen ==
  ASSUME TypeOK, ControlOK, LockInv, FrozenInv, [Next]_vars
  PROVE  FrozenInv'
<1> USE DEF managerVars, guardVars, procVars
<1>0. Thread \subseteq Proc /\ Mirror \subseteq Proc
  BY DEF Proc
<1>1. CASE \E t \in Proc : Step(t)
  BY <1>1, StepFrozen
<1>2. CASE \E t \in Thread, r \in Requests, j \in Job : Begin(t, r, j)
  <2>1. PICK t \in Thread, r \in Requests, j \in Job : Begin(t, r, j)
    BY <1>2
  <2>2. /\ r \in Requests \ {"halt", "resume"}
        /\ UNCHANGED <<kafMirrors, halted, tripwire, frozen>>
    BY <2>1, ManagerAssumption DEF Begin
  <2>3. Head(Routine(r)) \in {"stop", "force", "list", "sync"} \cup Requests
    BY <2>2 DEF Routine
  <2>4. Others(t) /\ pc'[t] = Head(Routine(r))
    BY <1>0, <2>1, Calls DEF Begin
  <2> QED
    BY <1>0, <2>2, <2>3, <2>4, FrozenStep DEF Requests, FrozenInv, IsHalted
<1>3. CASE \E t \in Thread : BeginHalt(t)
  BY <1>0, <1>3, Goes, FrozenStep DEF BeginHalt, FrozenInv, IsHalted
<1>4. CASE \E t \in Proc : Tick(t)
  <2>1. PICK t \in Proc : Tick(t)
    BY <1>4
  <2>2. CASE Goto(t, "halt", NoLocal)
    BY <2>1, <2>2, Goes, FrozenStep DEF Tick, FrozenInv, IsHalted
  <2>3. CASE UNCHANGED procVars
    BY <2>1, <2>3 DEF Tick, FrozenInv, IsHalted
  <2> QED
    BY <2>1, <2>2, <2>3 DEF Tick
<1>5. CASE \E m \in Mirror : Panic(m)
  BY <1>0, <1>5, Goes, FrozenStep DEF Panic, FrozenInv, IsHalted
<1>6. CASE Crash
  BY <1>6 DEF Crash, FrozenInv, IsHalted
<1>7. CASE Resume \/ Trip
  <2>0. UNCHANGED <<kafMirrors, procVars>>
    BY <1>7 DEF Resume, Trip
  <2>1. CASE Resume
    <3>1. tripwire' = tripwire /\ frozen' = (frozen /\ tripwire)
      BY <2>1 DEF Resume
    <3> QED
      BY <2>0, <3>1 DEF TypeOK, FrozenInv, IsHalted
  <2>2. CASE Trip
    <3>1. halted' = halted /\ frozen' = (frozen /\ (halted \/ tripwire'))
      BY <2>2 DEF Trip
    <3> QED
      BY <2>0, <3>1 DEF TypeOK, FrozenInv, IsHalted
  <2> QED
    BY <1>7, <2>1, <2>2
<1>8. CASE UNCHANGED vars
  BY <1>8 DEF vars, FrozenInv, IsHalted
<1> QED
  BY <1>1, <1>2, <1>3, <1>4, <1>5, <1>6, <1>7, <1>8 DEF Next
-----------------------------------------------------------------------------
LEMMA InitIInv == Init => IInv
<1> SUFFICES ASSUME Init PROVE IInv
  OBVIOUS
<1>0. None \notin Mirror /\ None \notin Proc
  BY ManagerAssumption DEF Proc
<1>1. NoLocal \in Local /\ NoLocal.queue = {} /\ NoLocal.job = None
  BY DEF NoLocal, Local, Status
<1>2. <<>> \in Seq(Phases) /\ <<>> \in Seq(Resting)
  OBVIOUS
<1>3. TypeOK
  BY <1>1, <1>2 DEF Init, TypeOK, Phases, Status
<1>4. StackInv /\ JobInv /\ LockInv /\ FrozenInv
  BY <1>2 DEF Init, StackInv, JobInv, LockInv, Within, FrozenInv
<1>5. MirrorInv
  <2>1. /\ \A j \in Job : kafMirrors[j] = None
        /\ \A m \in Mirror : life[m] = "new"
        /\ \A t \in Proc : pc[t] = "idle" /\ loc[t].queue = {}
    BY <1>1 DEF Init
  <2>2. MapInv /\ QueueInv /\ WaitInv
    BY <1>0, <2>1 DEF MapInv, QueueInv, WaitInv
  <2>3. OneHand /\ NoOrphan
    BY <2>1 DEF OneHand, NoOrphan, Hand, Alive
  <2>4. JobOfInv
    BY <2>1 DEF JobOfInv, Proc
  <2> QED
    BY <2>2, <2>3, <2>4 DEF MirrorInv
<1> QED
  BY <1>3, <1>4, <1>5 DEF IInv

LEMMA NextIInv == IInv /\ [Next]_vars => IInv'
<1> SUFFICES ASSUME IInv, [Next]_vars PROVE IInv'
  OBVIOUS
<1>1. TypeOK /\ ControlOK /\ LockInv /\ MirrorInv /\ FrozenInv /\ JobOfInv
  BY DEF IInv, ControlOK, TypeOK, MirrorInv
<1>2. TypeOK' /\ ControlOK'
  BY <1>1, NextTypes
<1>3. LockInv' /\ MirrorInv'
  BY <1>1, NextMirrorInv
<1>4. FrozenInv'
  BY <1>1, NextFrozen
<1> QED
  BY <1>2, <1>3, <1>4 DEF IInv, ControlOK

(* Who holds Mu, what a goroutine returns to, and that each mirror is in   *)
(* one place, is so in every reachable state.                              *)
THEOREM Inductive == Spec => []IInv
<1>1. Init => IInv
  BY InitIInv
<1>2. IInv /\ [Next]_vars => IInv'
  BY NextIInv
<1> QED
  BY <1>1, <1>2, PTL DEF Spec

(* Every variable keeps its type.                                          *)
THEOREM TypeCorrect == Spec => []TypeOK
<1>1. IInv => TypeOK
  BY DEF IInv
<1> QED
  BY <1>1, Inductive, PTL

(* StartJob, StopJob, the restarts, the halts, the throttling and onPanic, *)
(* interleaved as they may, lose no mirror that replicates or could again. *)
THEOREM NothingLost == Spec => []NoOrphan
<1>1. IInv => NoOrphan
  BY DEF IInv, MirrorInv
<1> QED
  BY <1>1, Inductive, PTL

(* No mirror is stopped by two goroutines, and the map offers nobody one   *)
(* that is being stopped: what StopJob, HaltRunningJobs and the others     *)
(* take under Mu is theirs.                                                *)
THEOREM StoppedOnce == Spec => []OneStopper
<1>1. IInv => OneStopper
  <2> SUFFICES ASSUME IInv PROVE OneStopper
    OBVIOUS
  <2>0. None \notin Proc
    BY ManagerAssumption DEF Proc
  <2> SUFFICES ASSUME NEW m \in Mirror
               PROVE  /\ \A t, u \in Proc : m \in Hand(t) \cap Hand(u) => t = u
                      /\ \A j \in Job : kafMirrors[j] = m =>
                           /\ jobOf[m] = j
                           /\ mu = None => life[m] = "running"
                           /\ \A t \in Proc : m \in Hand(t) => mu = t
    BY DEF OneStopper
  <2>1. \A t, u \in Proc : m \in Hand(t) \cap Hand(u) => t = u
    BY DEF IInv, MirrorInv, OneHand
  <2>2. \A j \in Job : kafMirrors[j] = m =>
          /\ jobOf[m] = j
          /\ mu = None => life[m] = "running"
    BY <2>0 DEF IInv, MirrorInv, MapInv, Holds
  <2>3. \A j \in Job, t \in Proc : kafMirrors[j] = m /\ m \in Hand(t) => mu = t
    BY DEF IInv, MirrorInv, OneHand
  <2> QED
    BY <2>1, <2>2, <2>3
<1> QED
  BY <1>1, Inductive, PTL

(* Once HaltRunningJobs has emptied the map under a halt that stands, it   *)
(* stays empty: GuardStart refuses under the same Mu, and a throttling     *)
(* that is about to restart a mirror does not find it.                     *)
THEOREM HaltStands == Spec => []HaltIsFinal
<1>1. IInv => HaltIsFinal
  BY DEF IInv, FrozenInv, HaltIsFinal
<1> QED
  BY <1>1, Inductive, PTL
-----------------------------------------------------------------------------
(* Mu belongs to a goroutine between its Lock and its Unlock: one that     *)
(* starts, undoes or relaunches a job, syncs the rows, or stops mirrors.   *)
HolderInv ==
  \A t \in Proc :
    mu = t => pc[t] \in {"guard", "launch", "undo", "relaunch", "syncSave"}
                          \cup Stopping

LEMMA StepHolder ==
  ASSUME IInv, HolderInv, NEW t \in Proc, Step(t)
  PROVE  HolderInv'
<1> USE DEF managerVars, Stopping
<1>0. TypeOK /\ ControlOK /\ LockInv /\ None \notin Proc
  BY ManagerAssumption DEF IInv, ControlOK, TypeOK, Proc
<1>1. Others(t) /\ (mu' = mu \/ {mu, mu'} = {None, t})
  BY <1>0, StepLock
<1> SUFFICES ASSUME mu' = t
             PROVE  pc'[t] \in {"guard", "launch", "undo", "relaunch", "syncSave"}
                                 \cup Stopping
  BY <1>0, <1>1 DEF HolderInv, Others
<1>2. mu = t => pc[t] \in {"guard", "launch", "undo", "relaunch", "syncSave"}
                            \cup Stopping
  BY DEF HolderInv
<1>g. ASSUME NEW phase, NEW l, Goto(t, phase, l)
      PROVE  pc'[t] = phase
  BY <1>0, <1>g, Goes
<1>c. ASSUME NEW phase, NEW rest, NEW l, Call(t, phase, rest, l)
      PROVE  pc'[t] = phase
  BY <1>0, <1>c, Calls
<1>3. CASE Start(t) \/ Guard(t)
  BY <1>0, <1>3, <1>g DEF Start, Guard
<1>4. CASE Launch(t)
  <2>1. \E l : Call(t, "wait", <<"undo">>, l)
    BY <1>0, <1>4 DEF Launch
  <2> QED
    BY <2>1, <1>c
<1>5. CASE StopAll(t) \/ Sync(t)
  BY <1>5, <1>g DEF StopAll, Sync
<1>6. CASE NextMirror(t)
  <2>1. CASE mu' = (IF mu = t THEN None ELSE mu)
    BY <1>0, <2>1
  <2>2. CASE \E l : Goto(t, "read", l)
    BY <2>2, <1>g
  <2>3. CASE \E l : Call(t, "wait", <<"read">>, l)
    BY <2>3, <1>c
  <2>4. \/ Return(t, loc[t]) /\ mu' = (IF mu = t THEN None ELSE mu)
        \/ \E l : Goto(t, "read", l) /\ mu' = mu
        \/ \E l : Call(t, "wait", <<"read">>, l) /\ mu' = mu
    BY <1>6, Zenon DEF NextMirror
  <2> QED
    BY <2>1, <2>2, <2>3, <2>4
<1>7. CASE Wait(t)
  BY <1>0, <1>7, Woken DEF Wait, ControlOK, StackInv
<1>8. CASE Read(t)
  BY <1>8, <1>g DEF Read
<1>9. CASE Write(t)
  BY <1>9, <1>g DEF Write
<1>10. CASE Apply(t)
  <2>1. \E l : Call(t, "wait", <<"relaunch">>, l)
    BY <1>0, <1>10 DEF Apply
  <2> QED
    BY <2>1, <1>c
<1>11. CASE Undo(t) \/ Relaunch(t) \/ SyncSave(t)
  BY <1>0, <1>11 DEF Undo, Relaunch, SyncSave
<1>12. CASE TakeOne(t) \/ TakeAll(t) \/ Collect(t)
  BY <1>0, <1>12 DEF TakeOne, TakeAll, Collect
<1>13. CASE NotRunning(t) \/ Delete(t) \/ RestartSave(t) \/ UpdateSave(t)
              \/ BootSave(t) \/ Restart(t)
  BY <1>2, <1>13
     DEF NotRunning, Delete, RestartSave, UpdateSave, BootSave, Restart
<1>14. CASE Preflight(t) \/ Throttle(t) \/ Update(t) \/ ListAll(t) \/ List(t)
  BY <1>2, <1>14 DEF Preflight, Throttle, Update, ListAll, List
<1>15. CASE StopEach(t) \/ StartEach(t)
  <2>1. pc[t] = "stopEach" \/ pc[t] = "startEach"
    BY <1>15, Zenon DEF StopEach, StartEach
  <2>2. UNCHANGED <<managerVars, mirrorVars, db, guardVars, countVars>>
    BY <1>15, Zenon DEF StopEach, StartEach
  <2> QED
    BY <1>2, <2>1, <2>2
<1> QED
  BY <1>3, <1>4, <1>5, <1>6, <1>7, <1>8, <1>9, <1>10, <1>11, <1>12, <1>13,
     <1>14, <1>15 DEF Step

LEMMA NextHolder ==
  ASSUME IInv, HolderInv, [Next]_vars
  PROVE  HolderInv'
<1> USE DEF managerVars, procVars
<1>0. /\ ControlOK /\ Thread \subseteq Proc /\ Mirror \subseteq Proc
      /\ None \notin Proc
  BY ManagerAssumption DEF IInv, ControlOK, TypeOK, Proc
<1>1. CASE \E t \in Proc : Step(t)
  BY <1>1, StepHolder
<1>2. ASSUME NEW t \in Proc, pc[t] = "idle", mu' = mu, Others(t)
      PROVE  HolderInv'
  BY <1>2 DEF HolderInv, Others, Stopping
<1>3. CASE \E t \in Thread : BeginHalt(t) \/ \E r \in Requests, j \in Job : Begin(t, r, j)
  BY <1>0, <1>2, <1>3, Goes, Calls DEF BeginHalt, Begin
<1>4. CASE \E t \in Proc : Tick(t)
  <2>1. PICK t \in Proc : Tick(t)
    BY <1>4
  <2>2. CASE Goto(t, "halt", NoLocal)
    BY <1>0, <1>2, <2>1, <2>2, Goes DEF Tick
  <2>3. CASE UNCHANGED procVars
    BY <2>1, <2>3 DEF Tick, HolderInv
  <2> QED
    BY <2>1, <2>2, <2>3 DEF Tick
<1>5. CASE \E m \in Mirror : Panic(m)
  BY <1>0, <1>2, <1>5, Goes DEF Panic
<1>6. CASE Crash
  BY <1>0, <1>6 DEF Crash, HolderInv
<1>7. CASE Resume \/ Trip \/ UNCHANGED vars
  BY <1>7 DEF Resume, Trip, vars, HolderInv
<1> QED
  BY <1>1, <1>3, <1>4, <1>5, <1>6, <1>7 DEF Next

(* Nobody asks for Mu while it has Mu, and nobody leaves with it; so those *)
(* who wait for each other in a circle wait for a mirror in                *)
(* handleJobPanic.                                                         *)
THEOREM OnlyPanicsDeadlock == Spec => []DeadlockNeedsPanic
<1>1. Init => HolderInv
  <2>1. None \notin Proc
    BY ManagerAssumption DEF Proc
  <2> QED
    BY <2>1 DEF Init, HolderInv
<1>2. IInv /\ HolderInv /\ [Next]_vars => HolderInv'
  BY NextHolder
<1>3. IInv /\ HolderInv => DeadlockNeedsPanic
  <2> SUFFICES ASSUME IInv, HolderInv, NEW t \in Proc, NEW u \in WaitsFor(t) \ Mirror
               PROVE  pc[u] # "idle" /\ WaitsFor(u) \subseteq Mirror
    BY DEF DeadlockNeedsPanic
  <2>1. \A w \in Proc : pc[w] = "wait" => loc[w].mir \in Mirror
    BY DEF IInv, MirrorInv, WaitInv
  <2>2. u \in Proc /\ mu = u
    BY <2>1 DEF WaitsFor
  <2>3. pc[u] # "idle" /\ pc[u] \notin Asking
    BY <2>2 DEF HolderInv, Stopping, Asking
  <2> QED
    BY <2>1, <2>2, <2>3 DEF WaitsFor
<1> QED
  BY <1>1, <1>2, <1>3, Inductive, PTL DEF Spec
-----------------------------------------------------------------------------
(* The contract sees the map, the lives and jobs of the mirrors and whether *)
(* there is a halt, and nothing else.                                      *)
Unseen == UNCHANGED <<kafMirrors, life, jobOf, halted, tripwire, frozen>>

LEMMA UnseenStep == Unseen => UNCHANGED Contract!vars
  BY DEF Unseen, Contract!vars, IsHalted

LEMMA ContractInit == Init => Contract!Init
  BY DEF Init, Contract!Init, IsHalted

LEMMA ServeStep ==
  ASSUME NEW j \in Job, NEW m \in Mirror, NEW l \in {"running", "cancelled"},
         ~frozen, Contract!Vacant(j), Create(m, j, l),
         UNCHANGED <<halted, tripwire, frozen>>
  PROVE  Contract!Next
<1>1. Contract!Serve(j, m)
  BY DEF Create, Contract!Serve, IsHalted
<1> QED
  BY <1>1 DEF Contract!Next

LEMMA WithdrawStep ==
  ASSUME NEW j \in Job, kafMirrors[j] # None,
         life[kafMirrors[j]] \in {"running", "closed"},
         kafMirrors' = [kafMirrors EXCEPT ![j] = None],
         UNCHANGED <<life, jobOf, halted, tripwire, frozen>>
  PROVE  Contract!Next
<1>1. Contract!Withdraw(j)
  BY DEF Contract!Withdraw, IsHalted
<1> QED
  BY <1>1 DEF Contract!Next

LEMMA CancelStep ==
  ASSUME NEW m \in Mirror, life[m] = "running",
         life' = [life EXCEPT ![m] = "cancelled"],
         UNCHANGED <<kafMirrors, jobOf, halted, tripwire, frozen>>
  PROVE  Contract!Next
<1>1. Contract!Cancel(m)
  BY DEF Contract!Cancel, IsHalted
<1> QED
  BY <1>1 DEF Contract!Next

(* While nobody has Mu, what is in the map runs.                           *)
LEMMA MapRuns ==
  ASSUME IInv, mu = None
  PROVE  \A j \in Job : kafMirrors[j] # None =>
           kafMirrors[j] \in Mirror /\ life[kafMirrors[j]] = "running"
<1>1. None \notin Proc
  BY ManagerAssumption DEF Proc
<1> SUFFICES ASSUME NEW j \in Job, kafMirrors[j] # None
             PROVE  kafMirrors[j] \in Mirror /\ life[kafMirrors[j]] = "running"
  OBVIOUS
<1>2. kafMirrors[j] \in Mirror
  BY DEF IInv, TypeOK
<1> QED
  BY <1>1, <1>2 DEF IInv, MirrorInv, MapInv, Holds

(* What a goroutine has stopped under Mu is still in the map, and closed.  *)
LEMMA HeldIsClosed ==
  ASSUME IInv, NEW t \in Proc, pc[t] \in {"undo", "relaunch", "read"}, mu = t
  PROVE  /\ loc[t].job \in Job /\ kafMirrors[loc[t].job] \in Mirror
         /\ kafMirrors[loc[t].job] # None
         /\ life[kafMirrors[loc[t].job]] = "closed"
<1>1. loc[t] \in Local /\ None \notin Mirror
  BY ManagerAssumption DEF IInv, TypeOK
<1>2. loc[t].job \in Job
  BY <1>1 DEF IInv, JobInv, Local
<1> QED
  BY <1>1, <1>2 DEF IInv, MirrorInv, WaitInv

LEMMA LaunchContract ==
  ASSUME IInv, NEW t \in Proc, Launch(t)
  PROVE  Contract!Next \/ UNCHANGED Contract!vars
<1>1. /\ pc[t] = "launch" /\ ~frozen /\ loc[t] \in Local
      /\ UNCHANGED <<halted, tripwire, frozen>>
  BY DEF Launch, IInv, FrozenInv, TypeOK
<1>2. loc[t].job \in Job /\ kafMirrors[loc[t].job] = None
  BY <1>1 DEF IInv, JobInv, Local, MirrorInv, WaitInv
<1>3. \/ UNCHANGED <<kafMirrors, mirrorVars>>
      \/ \E m \in Mirror, l \in {"running", "cancelled"} :
           Create(m, loc[t].job, l)
  BY DEF Launch
<1>4. CASE UNCHANGED <<kafMirrors, mirrorVars>>
  BY <1>1, <1>4, UnseenStep DEF Unseen, mirrorVars
<1>5. CASE \E m \in Mirror, l \in {"running", "cancelled"} :
             Create(m, loc[t].job, l)
  BY <1>1, <1>2, <1>5, ServeStep DEF Contract!Vacant
<1> QED
  BY <1>3, <1>4, <1>5

LEMMA RelaunchContract ==
  ASSUME IInv, NEW t \in Proc, Relaunch(t)
  PROVE  Contract!Next
<1>1. /\ pc[t] = "relaunch" /\ ~frozen
      /\ UNCHANGED <<halted, tripwire, frozen>>
  BY DEF Relaunch, guardVars, IInv, FrozenInv
<1>2. mu = t
  BY <1>1 DEF IInv, LockInv, Within
<1>3. /\ loc[t].job \in Job /\ kafMirrors[loc[t].job] # None
      /\ life[kafMirrors[loc[t].job]] = "closed"
  BY <1>1, <1>2, HeldIsClosed
<1>4. \/ /\ kafMirrors' = [kafMirrors EXCEPT ![loc[t].job] = None]
         /\ UNCHANGED mirrorVars
      \/ \E m \in Mirror : Create(m, loc[t].job, "running")
  BY DEF Relaunch
<1>5. CASE /\ kafMirrors' = [kafMirrors EXCEPT ![loc[t].job] = None]
           /\ UNCHANGED mirrorVars
  BY <1>1, <1>3, <1>5, WithdrawStep DEF mirrorVars
<1>6. CASE \E m \in Mirror : Create(m, loc[t].job, "running")
  BY <1>1, <1>3, <1>6, ServeStep DEF Contract!Vacant
<1> QED
  BY <1>4, <1>5, <1>6

LEMMA UndoContract ==
  ASSUME IInv, NEW t \in Proc, Undo(t)
  PROVE  Contract!Next
<1>1. pc[t] = "undo"
  BY DEF Undo
<1>2. mu = t
  BY <1>1 DEF IInv, LockInv, Within
<1>3. /\ loc[t].job \in Job /\ kafMirrors[loc[t].job] # None
      /\ life[kafMirrors[loc[t].job]] = "closed"
  BY <1>1, <1>2, HeldIsClosed
<1> QED
  BY <1>3, WithdrawStep DEF Undo, mirrorVars, guardVars

LEMMA ReadContract ==
  ASSUME IInv, NEW t \in Proc, Read(t)
  PROVE  Contract!Next \/ UNCHANGED Contract!vars
<1>1. pc[t] = "read" /\ UNCHANGED <<life, jobOf, halted, tripwire, frozen>>
  BY DEF Read, mirrorVars, guardVars
<1>2. CASE mu = t
  <2>1. /\ loc[t].job \in Job /\ kafMirrors[loc[t].job] # None
        /\ life[kafMirrors[loc[t].job]] = "closed"
    BY <1>1, <1>2, HeldIsClosed
  <2>2. kafMirrors' = [kafMirrors EXCEPT ![loc[t].job] = None]
    BY <1>2 DEF Read
  <2> QED
    BY <1>1, <2>1, <2>2, WithdrawStep
<1>3. CASE mu # t
  <2>1. kafMirrors' = kafMirrors
    BY <1>3 DEF Read
  <2> QED
    BY <1>1, <2>1, UnseenStep DEF Unseen
<1> QED
  BY <1>2, <1>3

LEMMA TakeOneContract ==
  ASSUME IInv, NEW t \in Proc, TakeOne(t)
  PROVE  Contract!Next \/ UNCHANGED Contract!vars
<1> DEFINE j == loc[t].job
<1>1. /\ mu = None /\ kafMirrors' = [kafMirrors EXCEPT ![j] = None]
      /\ UNCHANGED <<life, jobOf, halted, tripwire, frozen>>
  BY DEF TakeOne, mirrorVars, guardVars
<1>2. j \in Job /\ kafMirrors \in [Job -> Mirror \cup {None}]
  <2>1. loc[t] \in Local /\ pc[t] \in {"stop", "force", "panic"}
    BY DEF IInv, TypeOK, TakeOne
  <2> QED
    BY <2>1 DEF IInv, JobInv, Local, TypeOK
<1>3. CASE kafMirrors[j] = None
  <2>1. kafMirrors' = kafMirrors
    BY <1>1, <1>2, <1>3
  <2> QED
    BY <1>1, <2>1, UnseenStep DEF Unseen
<1>4. CASE kafMirrors[j] # None
  BY <1>1, <1>2, <1>4, MapRuns, WithdrawStep
<1> QED
  BY <1>3, <1>4

LEMMA TakeAllContract ==
  ASSUME IInv, NEW t \in Proc, TakeAll(t)
  PROVE  Contract!Next
<1>1. /\ mu = None /\ kafMirrors' = [i \in Job |-> None] /\ frozen' = IsHalted
      /\ UNCHANGED <<life, jobOf, halted, tripwire>>
  BY DEF TakeAll, mirrorVars
<1>2. None \notin Mirror
  BY ManagerAssumption
<1>3. \A m \in Mirror : Contract!Serves(m) => life[m] = "running"
  BY <1>1, <1>2, MapRuns DEF Contract!Serves
<1>4. Contract!Halt
  BY <1>1, <1>3 DEF Contract!Halt, IsHalted
<1> QED
  BY <1>4 DEF Contract!Next

LEMMA NextMirrorContract ==
  ASSUME IInv, NEW t \in Proc, NextMirror(t)
  PROVE  Contract!Next \/ UNCHANGED Contract!vars
<1>1. UNCHANGED <<kafMirrors, jobOf, halted, tripwire, frozen>>
  BY DEF NextMirror, guardVars
<1>2. \/ UNCHANGED life
      \/ \E q \in loc[t].queue :
           q[2] # None /\ life' = [life EXCEPT ![q[2]] = "cancelled"]
  BY DEF NextMirror
<1>3. CASE UNCHANGED life
  BY <1>1, <1>3, UnseenStep DEF Unseen
<1>4. ASSUME NEW q \in loc[t].queue, q[2] # None,
             life' = [life EXCEPT ![q[2]] = "cancelled"]
      PROVE  Contract!Next
  <2>1. loc[t] \in Local
    BY DEF IInv, TypeOK
  <2>2. q[2] \in Mirror
    BY <1>4, <2>1 DEF Local
  <2>3. life[q[2]] = "running"
    BY <1>4 DEF IInv, MirrorInv, QueueInv
  <2> QED
    BY <1>1, <1>4, <2>2, <2>3, CancelStep
<1> QED
  BY <1>2, <1>3, <1>4

LEMMA WaitContract ==
  ASSUME IInv, NEW t \in Proc, Wait(t)
  PROVE  Contract!Next
<1>1. loc[t].mir \in Mirror /\ life[loc[t].mir] = "cancelled"
  BY DEF Wait, IInv, MirrorInv, WaitInv
<1>2. Contract!Close(loc[t].mir)
  BY <1>1 DEF Wait, managerVars, guardVars, Contract!Close, IsHalted
<1> QED
  BY <1>1, <1>2 DEF Contract!Next

LEMMA ApplyContract ==
  ASSUME IInv, NEW t \in Proc, Apply(t)
  PROVE  Contract!Next \/ UNCHANGED Contract!vars
<1> DEFINE m == kafMirrors[loc[t].job]
<1>1. /\ mu = None /\ pc[t] = "apply"
      /\ UNCHANGED <<kafMirrors, jobOf, halted, tripwire, frozen>>
  BY DEF Apply, guardVars
<1>2. loc[t].job \in Job
  <2>1. loc[t] \in Local
    BY DEF IInv, TypeOK
  <2> QED
    BY <1>1, <2>1 DEF IInv, JobInv, Local
<1>3. \/ UNCHANGED life
      \/ m # None /\ life' = [life EXCEPT ![m] = "cancelled"]
  BY DEF Apply
<1>4. CASE UNCHANGED life
  BY <1>1, <1>4, UnseenStep DEF Unseen
<1>5. CASE m # None /\ life' = [life EXCEPT ![m] = "cancelled"]
  <2>1. m \in Mirror /\ life[m] = "running"
    BY <1>1, <1>2, <1>5, MapRuns
  <2> QED
    BY <1>1, <1>5, <2>1, CancelStep
<1> QED
  BY <1>3, <1>4, <1>5

(* The other phases touch nothing that the contract sees.                  *)
LEMMA StepContract ==
  ASSUME IInv, NEW t \in Proc, Step(t)
  PROVE  Contract!Next \/ UNCHANGED Contract!vars
<1>1. CASE Launch(t) \/ Relaunch(t) \/ Undo(t)
  BY <1>1, LaunchContract, RelaunchContract, UndoContract
<1>2. CASE TakeOne(t) \/ TakeAll(t) \/ NextMirror(t)
  BY <1>2, TakeOneContract, TakeAllContract, NextMirrorContract
<1>3. CASE Wait(t) \/ Read(t) \/ Apply(t)
  BY <1>3, WaitContract, ReadContract, ApplyContract
<1>4. CASE \/ Start(t) \/ Guard(t) \/ NotRunning(t) \/ StopAll(t)
           \/ Restart(t) \/ Preflight(t) \/ Throttle(t) \/ Update(t)
           \/ Sync(t) \/ ListAll(t) \/ Collect(t) \/ StopEach(t) \/ List(t)
           \/ StartEach(t)
  <2>1. Unseen
    BY <1>4
    DEF Start, Guard, NotRunning, StopAll, Restart, Preflight, Throttle,
        Update, Sync, ListAll, Collect, StopEach, List, StartEach, Unseen,
        managerVars, mirrorVars, guardVars
  <2> QED
    BY <2>1, UnseenStep
<1>5. CASE \/ Write(t) \/ Delete(t) \/ RestartSave(t) \/ UpdateSave(t)
           \/ SyncSave(t) \/ BootSave(t)
  <2>1. Unseen
    BY <1>5
    DEF Write, Delete, RestartSave, UpdateSave, SyncSave, BootSave, Unseen,
        managerVars, mirrorVars, guardVars
  <2> QED
    BY <2>1, UnseenStep
<1> QED
  BY <1>1, <1>2, <1>3, <1>4, <1>5 DEF Step

(* Orders to halt are given and lifted, by admins and by the halt file.    *)
LEMMA OrderContract ==
  ASSUME IInv, (\E t \in Thread : BeginHalt(t)) \/ Resume \/ Trip
  PROVE  Contract!Next \/ UNCHANGED Contract!vars
<1>0. /\ halted \in BOOLEAN /\ tripwire \in BOOLEAN /\ frozen \in BOOLEAN
      /\ frozen => IsHalted
  BY DEF IInv, TypeOK, FrozenInv
<1>1. UNCHANGED <<kafMirrors, life, jobOf>>
  BY DEF BeginHalt, Resume, Trip, managerVars, mirrorVars
<1>2. \/ UNCHANGED <<IsHalted, frozen>>
      \/ ~IsHalted /\ IsHalted' /\ UNCHANGED frozen
      \/ IsHalted /\ ~IsHalted' /\ frozen' = FALSE
  <2>1. CASE \E t \in Thread : BeginHalt(t)
    BY <1>0, <2>1 DEF BeginHalt, IsHalted
  <2>2. CASE Resume
    BY <1>0, <2>2 DEF Resume, IsHalted
  <2>3. CASE Trip
    BY <1>0, <2>3 DEF Trip, IsHalted
  <2> QED
    BY <2>1, <2>2, <2>3
<1>3. IsHalted \in BOOLEAN /\ IsHalted' \in BOOLEAN
  BY DEF IsHalted
<1>4. CASE UNCHANGED <<IsHalted, frozen>>
  BY <1>1, <1>4 DEF Contract!vars
<1>5. CASE ~IsHalted /\ IsHalted' /\ UNCHANGED frozen
  BY <1>1, <1>3, <1>5 DEF Contract!Next, Contract!Order
<1>6. CASE IsHalted /\ ~IsHalted' /\ frozen' = FALSE
  BY <1>1, <1>3, <1>6 DEF Contract!Next, Contract!Lift
<1> QED
  BY <1>2, <1>4, <1>5, <1>6

LEMMA ContractNext ==
  IInv /\ [Next]_vars => [Contract!Next]_Contract!vars
<1> SUFFICES ASSUME IInv, [Next]_vars
             PROVE  Contract!Next \/ UNCHANGED Contract!vars
  OBVIOUS
<1>1. CASE \E t \in Proc : Step(t)
  BY <1>1, StepContract
<1>2. CASE (\E t \in Thread : BeginHalt(t)) \/ Resume \/ Trip
  BY <1>2, OrderContract
<1>3. CASE Crash
  <2>1. Contract!Crash
    BY <1>3 DEF Crash, Contract!Crash, IsHalted
  <2> QED
    BY <2>1 DEF Contract!Next
<1>4. CASE \/ \E t \in Thread, r \in Requests, j \in Job : Begin(t, r, j)
           \/ \E t \in Proc : Tick(t)
           \/ \E m \in Mirror : Panic(m)
           \/ UNCHANGED vars
  <2>1. Unseen
    BY <1>4
    DEF Begin, Tick, Panic, vars, Unseen, managerVars, mirrorVars, guardVars
  <2> QED
    BY <2>1, UnseenStep
<1> QED
  BY <1>1, <1>2, <1>3, <1>4 DEF Next

(* For any goroutines that start, stop, halt, throttle and panic at the    *)
(* same time, and for any failing writes and crashes, mirrors come into    *)
(* service, leave it and end only as the contract says (JobManager,        *)
(* manager.go: every place where KafMirrors is written or Stop is called). *)
THEOREM Implements == Spec => ContractSpec
<1>1. Init => Contract!Init
  BY ContractInit
<1>2. IInv /\ [Next]_vars => [Contract!Next]_Contract!vars
  BY ContractNext
<1> QED
  BY <1>1, <1>2, Inductive, PTL DEF Spec, ContractSpec, Contract!Spec

-----------------------------------------------------------------------------
(* One request at a time, on a database that works, and no throttling: the *)
(* conditions under which the rows and the map agree whenever nothing is   *)
(* going on.  A program that starts has one goroutine that reconciles them.*)
OneAtATime ==
  /\ Overlap = FALSE /\ MaxPanics = 0 /\ MaxDbFails = 0
  /\ "throttle" \notin Request
  /\ \E b : Booter = {b}

Agrees(j) == db[j] # None => (db[j] = "active" <=> kafMirrors[j] # None)

(* What a goroutine is to return to, in each phase it can be in.           *)
AfterStop == {<<>>, <<"delete">>, <<"start", "restartSave">>, <<"stopEach">>,
              <<"preflight">>}
AfterStart == {<<>>, <<"restartSave">>, <<"startEach">>,
               <<"bootSave", "startEach">>}
Starting  == {"start", "guard", "launch"}
Outermost ==
  {"idle", "halt", "stopAll", "delete", "restart", "restartSave", "preflight",
   "update", "updateSave", "sync", "syncSave", "list", "listAll", "collect",
   "stopEach", "startEach"}

Plain == Outermost \cup Starting \cup {"stop", "force"}

ThreadStack(phase, s) ==
  \/ phase \in Outermost /\ s = <<>>
  \/ phase \in Starting /\ s \in {<<>>, <<"restartSave">>, <<"startEach">>}
  \/ phase \in {"stop", "force", "notRunning", "next", "read", "write"}
       /\ s \in AfterStop
  \/ phase = "wait" /\ \E r \in AfterStop : s = <<"read">> \o r

BooterStack(phase, s) ==
  \/ phase \in {"idle", "list", "startEach"} /\ s = <<>>
  \/ phase \in Starting /\ s = <<"bootSave", "startEach">>
  \/ phase = "bootSave" /\ s = <<"startEach">>

WatcherStack(phase, s) ==
  \/ phase \in {"idle", "halt", "next", "read", "write"} /\ s = <<>>
  \/ phase = "wait" /\ s = <<"read">> \o <<>>

StackOf(t, phase, s) ==
  \/ t \in Thread  /\ ThreadStack(phase, s)
  \/ t \in Booter  /\ BooterStack(phase, s)
  \/ t \in Watcher /\ WatcherStack(phase, s)
  \/ t \in Mirror  /\ phase = "idle" /\ s = <<>>

(* A goroutine has still to stop the job, or to correct its row.           *)
ToStop(t, j) ==
  \/ pc[t] \in Stopping /\ \E q \in loc[t].queue : q[1] = j
  \/ pc[t] \in {"wait", "read", "write", "notRunning"} /\ loc[t].job = j

ToBoot(t, j) ==
  t \in Booter /\ \/ pc[t] = "list"
                  \/ /\ pc[t] \in Starting \cup {"startEach", "bootSave"}
                     /\ j \in loc[t].todo
                  \/ pc[t] \in Starting /\ loc[t].job = j

ToPause(t, j) ==
  pc[t] = "bootSave" /\ loc[t].ok # TRUE /\ loc[t].job = j

ToSettle(t, j) == ToStop(t, j) \/ ToBoot(t, j) \/ ToPause(t, j)

(* Such a job does not run, unless it is being stopped under Mu; and what  *)
(* a starting program is to start is marked active.                        *)
StopsUnderMu(t, j) ==
  mu = t /\ pc[t] \in Stopping /\ ~ (pc[t] = "write" /\ loc[t].job = j)

Relies(t) ==
  /\ \A j \in Job : ToSettle(t, j) => kafMirrors[j] = None \/ StopsUnderMu(t, j)
  /\ \A j \in Job : ToBoot(t, j) /\ pc[t] # "list" => db[j] = "active"
  /\ t \in Booter /\ pc[t] \in Starting \cup {"bootSave"} =>
       loc[t].job \notin loc[t].todo
  /\ pc[t] = "restartSave" /\ loc[t].ok = TRUE => kafMirrors[loc[t].job] # None
  /\ pc[t] = "updateSave" => loc[t].list[loc[t].job] = db[loc[t].job]
  /\ loc[t].mark # "active"

OneBusy ==
  \A t, u \in Proc : pc[t] # "idle" /\ pc[u] # "idle" => t = u

SerialInv ==
  /\ OneBusy /\ dbFails = 0 /\ panics = 0
  /\ \A t \in Proc : StackOf(t, pc[t], then[t]) /\ Relies(t)
  /\ \A j \in Job : Agrees(j) \/ \E t \in Proc : ToSettle(t, j)

-----------------------------------------------------------------------------
(* Stacks, as they are left by a Call and by a Return.                     *)
LEMMA ReturnIs ==
  ASSUME ControlOK, NEW t \in Proc, NEW l, Return(t, l)
  PROVE  /\ Others(t)
         /\ then[t] = <<>> =>
              pc'[t] = "idle" /\ then'[t] = <<>> /\ loc'[t] = NoLocal
         /\ \A x : then[t] = <<x>> =>
              pc'[t] = x /\ then'[t] = <<>> /\ loc'[t] = l
         /\ \A x, y : then[t] = <<x, y>> =>
              pc'[t] = x /\ then'[t] = <<y>> /\ loc'[t] = l
<1>1. Others(t)
  BY Frame
<1>2. CASE then[t] = <<>>
  BY <1>1, <1>2 DEF ControlOK, Return
<1>3. CASE then[t] # <<>>
  <2>1. /\ pc'[t] = Head(then[t]) /\ then'[t] = Tail(then[t]) /\ loc'[t] = l
    BY <1>3 DEF ControlOK, Return
  <2>2. ASSUME NEW x, then[t] = <<x>>
        PROVE  pc'[t] = x /\ then'[t] = <<>> /\ loc'[t] = l
    BY <2>1, <2>2
  <2>3. ASSUME NEW x, NEW y, then[t] = <<x, y>>
        PROVE  pc'[t] = x /\ then'[t] = <<y>> /\ loc'[t] = l
    BY <2>1, <2>3
  <2> QED
    BY <1>1, <1>3, <2>2, <2>3, Zenon
<1> QED
  BY <1>2, <1>3

LEMMA CallIs ==
  ASSUME ControlOK, NEW t \in Proc, NEW phase, NEW rest, NEW l,
         Call(t, phase, rest, l)
  PROVE  /\ Others(t) /\ pc'[t] = phase /\ loc'[t] = l
         /\ then'[t] = rest \o then[t]
         /\ rest \in Seq(Phases) /\ then[t] = <<>> => then'[t] = rest
<1>1. Others(t) /\ pc'[t] = phase /\ loc'[t] = l
  BY Calls
<1>2. then'[t] = rest \o then[t]
  BY DEF ControlOK, Call
<1>3. rest \in Seq(Phases) => rest \o <<>> = rest
  BY ConcatEmptySeq
<1> QED
  BY <1>1, <1>2, <1>3

(* A goroutine that waits for a mirror, and what it does next.             *)
LEMMA WokenTo ==
  ASSUME ControlOK, NEW t \in Proc, NEW l, NEW r \in AfterStop \cup AfterStart,
         NEW h, then[t] = <<h>> \o r, Return(t, l)
  PROVE  /\ Others(t) /\ pc'[t] = h /\ loc'[t] = l /\ then'[t] = r
<1> DEFINE R == {"delete", "start", "restartSave", "stopEach", "preflight",
                 "startEach", "bootSave"}
<1>1. r \in Seq(R)
  <2>1. /\ <<>> \in Seq(R) /\ <<"delete">> \in Seq(R)
        /\ <<"stopEach">> \in Seq(R) /\ <<"preflight">> \in Seq(R)
        /\ <<"restartSave">> \in Seq(R) /\ <<"startEach">> \in Seq(R)
    OBVIOUS
  <2>2. <<"start", "restartSave">> \in Seq(R) /\ <<"bootSave", "startEach">> \in Seq(R)
    OBVIOUS
  <2> QED
    BY <2>1, <2>2 DEF AfterStop, AfterStart
<1>2. then[t] # <<>> /\ Head(then[t]) = h /\ Tail(then[t]) = r
  BY <1>1, Push1
<1> QED
  BY <1>2, Frame DEF ControlOK, Return

(* Which goroutine it is, by the phase it is in.                           *)
LEMMA Kinds ==
  ASSUME NEW t, NEW phase, NEW s, StackOf(t, phase, s)
  PROVE  /\ t \in Booter => t \notin Thread /\ BooterStack(phase, s)
         /\ t \in Watcher => t \notin Booter /\ WatcherStack(phase, s)
         /\ t \in Thread => t \notin Booter /\ ThreadStack(phase, s)
         /\ t \in Mirror => phase = "idle"
         /\ t \in Thread \cup Booter \cup Watcher \cup Mirror
BY ManagerAssumption DEF StackOf
-----------------------------------------------------------------------------
(* The goroutine at work does what it does for itself: when what it relies *)
(* on is so, and every job is settled or still to be, so it is for all.    *)
LEMMA Settles ==
  ASSUME SerialInv, NEW t \in Proc, pc[t] # "idle", Others(t),
         StackOf(t, pc'[t], then'[t]), Relies(t)', dbFails' = 0, panics' = 0,
         \A j \in Job : Agrees(j)' \/ ToSettle(t, j)'
  PROVE  SerialInv'
<1>1. \A u \in Proc : u # t => pc[u] = "idle"
  BY DEF SerialInv, OneBusy
<1>2. \A u \in Proc : u # t => pc'[u] = "idle"
  BY <1>1 DEF Others
<1>3. OneBusy'
  BY <1>2 DEF OneBusy
<1>4. ASSUME NEW u \in Proc, u # t
      PROVE  StackOf(u, pc'[u], then'[u]) /\ Relies(u)'
  <2>1. pc'[u] = pc[u] /\ then'[u] = then[u] /\ loc'[u] = loc[u]
    BY <1>4 DEF Others
  <2>2. loc[u].mark # "active"
    BY DEF SerialInv, Relies
  <2>3. \A j \in Job : ~ToSettle(u, j)' /\ ~ToBoot(u, j)'
    BY <1>2, <1>4 DEF ToSettle, ToStop, ToBoot, ToPause, Stopping, Starting
  <2>4. Relies(u)'
    BY <1>2, <1>4, <2>1, <2>2, <2>3 DEF Relies, Starting
  <2> QED
    BY <2>1, <2>4 DEF SerialInv
<1> QED
  BY <1>3, <1>4 DEF SerialInv

LEMMA OnlyThis ==
  ASSUME SerialInv, NEW t \in Proc, pc[t] # "idle"
  PROVE  \A u \in Proc, j \in Job : ToSettle(u, j) => u = t
BY DEF SerialInv, OneBusy, ToSettle, ToStop, ToBoot, ToPause, Stopping, Starting

(* A step that changes no row and no mirror's place in the map.            *)
LEMMA QuietSettles ==
  ASSUME SerialInv, NEW t \in Proc, pc[t] # "idle", Others(t),
         UNCHANGED <<kafMirrors, db, dbFails, panics>>,
         StackOf(t, pc'[t], then'[t]), Relies(t)',
         \A j \in Job : ToSettle(t, j) => Agrees(j) \/ ToSettle(t, j)'
  PROVE  SerialInv'
<1>1. \A u \in Proc, j \in Job : ToSettle(u, j) => u = t
  BY OnlyThis
<1>2. \A j \in Job : Agrees(j) \/ ToSettle(t, j)'
  BY <1>1 DEF SerialInv
<1>3. \A j \in Job : Agrees(j)' \/ ToSettle(t, j)'
  BY <1>2 DEF Agrees
<1>4. dbFails' = 0 /\ panics' = 0
  BY DEF SerialInv
<1> QED
  BY <1>3, <1>4, Settles

(* Where a goroutine has nothing to settle.                                *)
LEMMA AllAgree ==
  ASSUME SerialInv, NEW t \in Proc, t \notin Booter, pc[t] # "idle",
         pc[t] \in Plain
  PROVE  \A j \in Job : Agrees(j)
<1>1. \A u \in Proc : u # t => pc[u] = "idle"
  BY DEF SerialInv, OneBusy
<1>2. \A u \in Proc, j \in Job : ~ToSettle(u, j)
  BY <1>1 DEF ToSettle, ToStop, ToBoot, ToPause, Plain, Outermost, Stopping,
              Starting
<1> QED
  BY <1>2 DEF SerialInv

LEMMA PlainSettles ==
  ASSUME SerialInv, NEW t \in Thread, pc[t] # "idle", Others(t),
         ThreadStack(pc'[t], then'[t]), pc'[t] \in Plain,
         pc'[t] = "restartSave" /\ loc'[t].ok = TRUE =>
           kafMirrors'[loc'[t].job] # None,
         pc'[t] = "updateSave" => loc'[t].list[loc'[t].job] = db'[loc'[t].job],
         loc'[t].mark # "active", dbFails' = 0, panics' = 0,
         \A j \in Job : Agrees(j)'
  PROVE  SerialInv'
<1>1. t \in Proc /\ t \notin Booter
  BY ManagerAssumption DEF Proc
<1>2. \A j : ~ToSettle(t, j)' /\ ~ToBoot(t, j)'
  BY <1>1 DEF ToSettle, ToStop, ToBoot, ToPause, Plain, Outermost, Stopping,
              Starting
<1>3. Relies(t)'
  BY <1>1, <1>2 DEF Relies
<1>4. StackOf(t, pc'[t], then'[t])
  BY DEF StackOf
<1> QED
  BY <1>1, <1>3, <1>4, Settles

LEMMA PlainQuiet ==
  ASSUME SerialInv, NEW t \in Thread, pc[t] # "idle", pc[t] \in Plain, Others(t),
         UNCHANGED <<kafMirrors, db, dbFails, panics>>,
         ThreadStack(pc'[t], then'[t]), pc'[t] \in Plain,
         pc'[t] = "restartSave" /\ loc'[t].ok = TRUE =>
           kafMirrors[loc'[t].job] # None,
         pc'[t] = "updateSave" => loc'[t].list[loc'[t].job] = db[loc'[t].job],
         loc'[t].mark # "active"
  PROVE  SerialInv'
<1>1. t \in Proc /\ t \notin Booter
  BY ManagerAssumption DEF Proc
<1>2. \A j \in Job : Agrees(j)
  BY <1>1, AllAgree
<1>3. \A j \in Job : Agrees(j)'
  BY <1>2 DEF Agrees
<1>4. dbFails' = 0 /\ panics' = 0
  BY DEF SerialInv
<1> QED
  BY <1>3, <1>4, PlainSettles
-----------------------------------------------------------------------------
(* What the proofs of the steps use of the invariants.                     *)
LEMMA SerialFacts ==
  ASSUME IInv, SerialInv, NEW t \in Proc
  PROVE  /\ ControlOK /\ loc[t] \in Local /\ loc[t].mark # "active"
         /\ StackOf(t, pc[t], then[t]) /\ Relies(t)
         /\ None \notin Job /\ None \notin Proc /\ None \notin Mirror
         /\ None \notin Status
         /\ kafMirrors \in [Job -> Mirror \cup {None}]
         /\ db \in [Job -> Status \cup {None}]
         /\ pc[t] \notin {"idle", "halt", "next", "list", "startEach"} =>
              loc[t].job \in Job
<1>1. ControlOK /\ loc[t] \in Local
  BY DEF IInv, TypeOK, ControlOK
<1>2. /\ None \notin Job /\ None \notin Proc /\ None \notin Mirror
      /\ None \notin Status
  BY ManagerAssumption DEF Proc
<1>3. pc[t] \notin {"idle", "halt", "next", "list", "startEach"} =>
        loc[t].job \in Job
  BY <1>1 DEF ControlOK, JobInv, Local
<1> QED
  BY <1>1, <1>2, <1>3 DEF IInv, TypeOK, SerialInv, Relies

LEMMA NoLocalIs ==
  /\ NoLocal.mark = "paused" /\ NoLocal.job = None /\ NoLocal.queue = {}
  /\ NoLocal.todo = {} /\ NoLocal.ok = TRUE
BY DEF NoLocal

-----------------------------------------------------------------------------
(* StartJob.                                                               *)
LEMMA StartSerial ==
  ASSUME IInv, SerialInv, NEW t \in Proc, Start(t) \/ Guard(t)
  PROVE  SerialInv'
<1>0. /\ ControlOK /\ loc[t] \in Local /\ loc[t].mark # "active"
      /\ StackOf(t, pc[t], then[t]) /\ Relies(t)
  BY SerialFacts
<1>1. /\ pc[t] \in {"start", "guard"}
      /\ UNCHANGED <<kafMirrors, db, dbFails, panics>>
      /\ \/ Return(t, [loc[t] EXCEPT !.ok = FALSE])
         \/ Goto(t, "guard", loc[t]) \/ Goto(t, "launch", loc[t])
  BY DEF Start, Guard, guardVars, countVars
<1> DEFINE l == [loc[t] EXCEPT !.ok = FALSE]
<1>2. /\ l.mark = loc[t].mark /\ l.ok = FALSE /\ l.job = loc[t].job
      /\ l.todo = loc[t].todo
  BY <1>0 DEF Local
<1> HIDE DEF l
<1>3. CASE t \in Thread
  <2>1. then[t] \in {<<>>, <<"restartSave">>, <<"startEach">>}
    BY <1>0, <1>1, <1>3, Kinds DEF ThreadStack, Outermost, Starting
  <2>2. CASE Return(t, l)
    <3>1. /\ Others(t) /\ then'[t] = <<>>
          /\ \/ pc'[t] = "idle" /\ loc'[t] = NoLocal
             \/ pc'[t] \in {"restartSave", "startEach"} /\ loc'[t] = l
      BY <1>0, <2>1, <2>2, ReturnIs
    <3> QED
      BY <1>0, <1>1, <1>2, <1>3, <3>1, NoLocalIs, PlainQuiet
      DEF ThreadStack, Plain, Outermost, Starting
  <2>3. CASE Goto(t, "guard", loc[t]) \/ Goto(t, "launch", loc[t])
    <3>1. /\ Others(t) /\ then'[t] = then[t] /\ loc'[t] = loc[t]
          /\ pc'[t] \in {"guard", "launch"}
      BY <1>0, <2>3, Goes
    <3> QED
      BY <1>0, <1>1, <1>3, <2>1, <3>1, PlainQuiet
      DEF ThreadStack, Plain, Outermost, Starting
  <2> QED
    BY <1>1, <2>2, <2>3 DEF l
<1>4. CASE t \in Booter
  <2>1. then[t] = <<"bootSave", "startEach">>
    BY <1>0, <1>1, <1>4, Kinds DEF BooterStack, Starting
  <2>2. CASE Return(t, l)
    <3>1. /\ Others(t) /\ then'[t] = <<"startEach">>
          /\ pc'[t] = "bootSave" /\ loc'[t] = l
      BY <1>0, <2>1, <2>2, ReturnIs
    <3>2. \A j : /\ ToSettle(t, j) <=> j = loc[t].job \/ j \in loc[t].todo
                 /\ ToBoot(t, j) <=> j = loc[t].job \/ j \in loc[t].todo
                 /\ ToSettle(t, j)' <=> j = loc[t].job \/ j \in loc[t].todo
                 /\ ToBoot(t, j)' <=> j \in loc[t].todo
      BY <1>1, <1>2, <1>4, <3>1
      DEF ToSettle, ToStop, ToBoot, ToPause, Stopping, Starting
    <3>3. Relies(t)'
      BY <1>0, <1>1, <1>2, <1>4, <3>1, <3>2
      DEF Relies, StopsUnderMu, Stopping, Starting
    <3>4. StackOf(t, pc'[t], then'[t])
      BY <1>4, <3>1 DEF StackOf, BooterStack
    <3> QED
      BY <1>1, <3>1, <3>2, <3>3, <3>4, QuietSettles
  <2>3. CASE Goto(t, "guard", loc[t]) \/ Goto(t, "launch", loc[t])
    <3>1. /\ Others(t) /\ then'[t] = then[t] /\ loc'[t] = loc[t]
          /\ pc'[t] \in {"guard", "launch"}
      BY <1>0, <2>3, Goes
    <3>2. \A j : /\ ToSettle(t, j) <=> j = loc[t].job \/ j \in loc[t].todo
                 /\ ToBoot(t, j) <=> j = loc[t].job \/ j \in loc[t].todo
                 /\ ToSettle(t, j)' <=> j = loc[t].job \/ j \in loc[t].todo
                 /\ ToBoot(t, j)' <=> j = loc[t].job \/ j \in loc[t].todo
      BY <1>1, <1>2, <1>4, <3>1
      DEF ToSettle, ToStop, ToBoot, ToPause, Stopping, Starting
    <3>3. Relies(t)'
      BY <1>0, <1>1, <1>2, <1>4, <3>1, <3>2
      DEF Relies, StopsUnderMu, Stopping, Starting
    <3>4. StackOf(t, pc'[t], then'[t])
      BY <1>4, <2>1, <3>1 DEF StackOf, BooterStack, Starting
    <3> QED
      BY <1>1, <3>1, <3>2, <3>3, <3>4, QuietSettles
  <2> QED
    BY <1>1, <2>2, <2>3 DEF l
<1>5. CASE t \notin Thread \cup Booter
  BY <1>0, <1>1, <1>5, Kinds DEF WatcherStack
<1> QED
  BY <1>3, <1>4, <1>5

LEMMA LaunchSerial ==
  ASSUME OneAtATime, IInv, IInv', SerialInv, NEW t \in Proc, Launch(t)
  PROVE  SerialInv'
<1>0. /\ ControlOK /\ loc[t] \in Local /\ loc[t].mark # "active"
      /\ StackOf(t, pc[t], then[t]) /\ Relies(t)
      /\ None \notin Mirror /\ loc[t].job \in Job
      /\ kafMirrors \in [Job -> Mirror \cup {None}]
      /\ db \in [Job -> Status \cup {None}]
  BY SerialFacts DEF Launch
<1>1. pc[t] = "launch" /\ panics' = panics
  BY DEF Launch
<1> DEFINE j == loc[t].job
           l(b) == [loc[t] EXCEPT !.ok = b]
<1>2. \A b \in BOOLEAN :
        /\ l(b).mark = loc[t].mark /\ l(b).ok = b /\ l(b).job = j
        /\ l(b).todo = loc[t].todo
  BY <1>0 DEF Local
<1>3. ~ \E m \in Mirror : Save(j, "active", TRUE)
  BY DEF OneAtATime, Save, SerialInv
<1>4. \E b \in BOOLEAN :
        /\ Return(t, l(b))
        /\ b = FALSE => UNCHANGED <<kafMirrors, db, dbFails>>
        /\ b = TRUE => \E m \in Mirror :
             /\ kafMirrors' = [kafMirrors EXCEPT ![j] = m]
             /\ StartedBy(t, j) /\ db' = Saved(j, "active") /\ dbFails' = dbFails
  BY <1>3 DEF Launch, Create, Save
<1>5. PICK b \in BOOLEAN :
        /\ Return(t, l(b))
        /\ b = FALSE => UNCHANGED <<kafMirrors, db, dbFails>>
        /\ b = TRUE => \E m \in Mirror :
             /\ kafMirrors' = [kafMirrors EXCEPT ![j] = m]
             /\ StartedBy(t, j) /\ db' = Saved(j, "active") /\ dbFails' = dbFails
  BY <1>4
<1> DEFINE k == l(b)
<1>6. k.mark = loc[t].mark /\ k.ok = b /\ k.job = j /\ k.todo = loc[t].todo
  BY <1>2
<1>7. Return(t, k)
  BY <1>5
<1>8. dbFails' = 0 /\ panics' = 0
  BY <1>1, <1>5 DEF SerialInv
(* The job runs and says so; nothing else has changed.                     *)
<1>9. /\ b = TRUE => /\ kafMirrors'[j] # None
                     /\ db'[j] # None => db'[j] = "active"
      /\ \A i \in Job : i # j \/ b = FALSE =>
           /\ kafMirrors'[i] = kafMirrors[i] /\ db'[i] = db[i]
  BY <1>0, <1>5 DEF Saved
<1>10. \A i \in Job : Agrees(i) \/ (i = j /\ b = TRUE) => Agrees(i)'
  BY <1>9 DEF Agrees
<1> HIDE DEF k, l
<1>11. CASE t \in Thread
  <2>1. then[t] \in {<<>>, <<"restartSave">>, <<"startEach">>}
    BY <1>0, <1>1, <1>11, Kinds DEF ThreadStack, Outermost, Starting
  <2>2. /\ Others(t) /\ then'[t] = <<>>
        /\ \/ pc'[t] = "idle" /\ loc'[t] = NoLocal
           \/ pc'[t] \in {"restartSave", "startEach"} /\ loc'[t] = k
    BY <1>0, <1>7, <2>1, ReturnIs
  <2>3. \A i \in Job : Agrees(i)
    BY <1>1, <1>11, AllAgree, ManagerAssumption DEF Plain, Starting
  <2> QED
    BY <1>0, <1>1, <1>6, <1>8, <1>9, <1>10, <1>11, <2>2, <2>3, NoLocalIs,
       PlainSettles
    DEF ThreadStack, Plain, Outermost, Starting
<1>12. CASE t \in Booter
  <2>1. then[t] = <<"bootSave", "startEach">> /\ t \notin Thread
    BY <1>0, <1>1, <1>12, Kinds DEF BooterStack, Starting
  <2>2. /\ Others(t) /\ then'[t] = <<"startEach">>
        /\ pc'[t] = "bootSave" /\ loc'[t] = k
    BY <1>0, <1>7, <2>1, ReturnIs
  <2>3. \A i : /\ ToSettle(t, i) <=> i = j \/ i \in loc[t].todo
               /\ ToBoot(t, i) <=> i = j \/ i \in loc[t].todo
               /\ ToSettle(t, i)' <=> (i = j /\ b = FALSE) \/ i \in loc[t].todo
               /\ ToBoot(t, i)' <=> i \in loc[t].todo
    BY <1>1, <1>6, <1>12, <2>2
    DEF ToSettle, ToStop, ToBoot, ToPause, Stopping, Starting
  <2>4. j \notin loc[t].todo
    BY <1>0, <1>1, <1>12 DEF Relies, Starting
  <2>5. \A i \in Job : ToSettle(t, i) => kafMirrors[i] = None /\ db[i] = "active"
    BY <1>0, <1>1, <2>3 DEF Relies, StopsUnderMu, Stopping
  <2>6. Relies(t)'
    BY <1>0, <1>6, <1>9, <1>12, <2>2, <2>3, <2>4, <2>5
    DEF Relies, StopsUnderMu, Stopping, Starting
  <2>7. StackOf(t, pc'[t], then'[t])
    BY <1>12, <2>2 DEF StackOf, BooterStack
  <2>8. \A u \in Proc, i \in Job : ToSettle(u, i) => u = t
    BY <1>1, OnlyThis
  <2>9. \A i \in Job : Agrees(i)' \/ ToSettle(t, i)'
    BY <1>10, <2>3, <2>8 DEF SerialInv
  <2> QED
    BY <1>1, <1>8, <2>2, <2>6, <2>7, <2>9, Settles
<1>13. CASE t \notin Thread \cup Booter
  BY <1>0, <1>1, <1>13, Kinds DEF WatcherStack
<1> QED
  BY <1>11, <1>12, <1>13

-----------------------------------------------------------------------------
(* StopJob and the like.  A goroutine that stops jobs is no Booter.        *)
LEMMA StopSettles ==
  ASSUME SerialInv, NEW t \in Proc, t \notin Booter, pc[t] # "idle", Others(t),
         StackOf(t, pc'[t], then'[t]), pc'[t] \in Stopping \cup {"notRunning"},
         loc'[t].mark # "active", dbFails' = 0, panics' = 0,
         \A j \in Job : ToStop(t, j)' => kafMirrors'[j] = None \/ StopsUnderMu(t, j)',
         \A j \in Job : Agrees(j)' \/ ToStop(t, j)'
  PROVE  SerialInv'
<1>1. \A j : /\ ~ToBoot(t, j)' /\ ~ToPause(t, j)'
             /\ ToSettle(t, j)' <=> ToStop(t, j)'
  BY DEF ToSettle, ToBoot, ToPause, Stopping
<1>2. Relies(t)'
  BY <1>1 DEF Relies, Stopping
<1> QED
  BY <1>1, <1>2, Settles

LEMMA StopQuiet ==
  ASSUME SerialInv, NEW t \in Proc, t \notin Booter, pc[t] # "idle", Others(t),
         UNCHANGED <<kafMirrors, db, dbFails, panics>>,
         StackOf(t, pc'[t], then'[t]), pc'[t] \in Stopping \cup {"notRunning"},
         loc'[t].mark # "active",
         \A j \in Job : ToStop(t, j)' => kafMirrors[j] = None \/ StopsUnderMu(t, j)',
         \A j \in Job : ToSettle(t, j) => Agrees(j) \/ ToStop(t, j)'
  PROVE  SerialInv'
<1>1. \A j \in Job : Agrees(j)' \/ ToStop(t, j)'
  BY OnlyThis DEF SerialInv, Agrees
<1>2. dbFails' = 0 /\ panics' = 0
  BY DEF SerialInv
<1> QED
  BY <1>1, <1>2, StopSettles

(* Which goroutines stop jobs, and what they have to go back to.           *)
LEMMA Stoppers ==
  ASSUME IInv, SerialInv, NEW t \in Proc,
         pc[t] \in Stopping \cup {"stop", "force", "notRunning", "halt", "stopAll"}
  PROVE  /\ t \notin Booter
         /\ pc[t] \in {"stop", "force", "notRunning", "stopAll"} => t \in Thread
         /\ t \in Thread \/ t \in Watcher
         /\ \A p \in {"next", "read", "write"} :
              pc[t] # "wait" => StackOf(t, p, then[t])
         /\ pc[t] = "wait" =>
              \E r \in AfterStop : /\ then[t] = <<"read">> \o r
                                   /\ t \in Thread \/ r = <<>>
         /\ pc[t] # "wait" => /\ then[t] \in AfterStop
                              /\ t \in Thread \/ then[t] = <<>>
         /\ pc[t] \in {"halt", "stopAll"} => then[t] = <<>>
<1>1. StackOf(t, pc[t], then[t])
  BY SerialFacts
<1>2. t \notin Booter
  BY <1>1, Kinds DEF BooterStack, Stopping, Starting
<1>3. pc[t] \in {"stop", "force", "notRunning", "stopAll"} => t \in Thread
  BY <1>1, <1>2, Kinds DEF WatcherStack
<1>4. t \in Thread \/ t \in Watcher
  BY <1>1, <1>2, Kinds DEF Stopping
<1>5. <<>> \in AfterStop
  BY DEF AfterStop
<1>6. CASE t \in Thread
  <2>1. ThreadStack(pc[t], then[t])
    BY <1>1, <1>6, Kinds
  <2>2. pc[t] = "wait" => \E r \in AfterStop : then[t] = <<"read">> \o r
    BY <2>1 DEF ThreadStack, Outermost, Starting
  <2>3. pc[t] # "wait" => then[t] \in AfterStop
    BY <2>1, <1>5 DEF ThreadStack, Outermost, Starting, Stopping
  <2>4. pc[t] \in {"halt", "stopAll"} => then[t] = <<>>
    BY <2>1 DEF ThreadStack, Outermost, Starting
  <2> QED
    BY <1>2, <1>4, <1>6, <2>2, <2>3, <2>4 DEF StackOf, ThreadStack
<1>7. CASE t \in Watcher /\ t \notin Thread
  <2>1. WatcherStack(pc[t], then[t])
    BY <1>1, <1>7, Kinds
  <2>2. /\ pc[t] = "wait" => then[t] = <<"read">> \o <<>>
        /\ pc[t] # "wait" => then[t] = <<>>
    BY <2>1 DEF WatcherStack
  <2> QED
    BY <1>2, <1>3, <1>4, <1>5, <1>7, <2>2 DEF StackOf, WatcherStack
<1> QED
  BY <1>4, <1>6, <1>7

(* The routine that stopped the jobs goes on, or is done.                  *)
LEMMA StopReturns ==
  ASSUME ControlOK, SerialInv, NEW t \in Proc, t \in Thread \/ t \in Watcher,
         t \notin Booter, pc[t] # "idle", then[t] \in AfterStop,
         t \in Thread \/ then[t] = <<>>, Return(t, loc[t]),
         loc[t].mark # "active", \A j \in Job : Agrees(j)', dbFails' = 0, panics' = 0
  PROVE  SerialInv'
<1>1. Others(t)
  BY Frame
<1>2. CASE t \in Thread
  <2>1. \/ pc'[t] = "idle" /\ then'[t] = <<>> /\ loc'[t] = NoLocal
        \/ /\ pc'[t] \in {"delete", "stopEach", "preflight"}
           /\ then'[t] = <<>> /\ loc'[t] = loc[t]
        \/ /\ pc'[t] = "start" /\ then'[t] = <<"restartSave">>
           /\ loc'[t] = loc[t]
    BY <1>2, ReturnIs DEF AfterStop
  <2> QED
    BY <1>1, <1>2, <2>1, NoLocalIs, PlainSettles
    DEF ThreadStack, Plain, Outermost, Starting
<1>3. CASE t \in Watcher /\ t \notin Thread
  <2>1. pc'[t] = "idle" /\ then'[t] = <<>> /\ loc'[t] = NoLocal
    BY <1>3, ReturnIs
  <2>2. \A j : ~ToSettle(t, j)' /\ ~ToBoot(t, j)'
    BY <2>1 DEF ToSettle, ToStop, ToBoot, ToPause, Stopping, Starting
  <2>3. Relies(t)'
    BY <2>1, <2>2, NoLocalIs DEF Relies, Starting
  <2>4. StackOf(t, pc'[t], then'[t])
    BY <1>3, <2>1 DEF StackOf, WatcherStack
  <2> QED
    BY <1>1, <2>3, <2>4, Settles
<1> QED
  BY <1>2, <1>3

LEMMA TakeOneSerial ==
  ASSUME IInv, SerialInv, NEW t \in Proc, TakeOne(t)
  PROVE  SerialInv'
<1>0. /\ ControlOK /\ loc[t] \in Local /\ loc[t].mark # "active"
      /\ StackOf(t, pc[t], then[t])
      /\ None \notin Mirror /\ loc[t].job \in Job
      /\ kafMirrors \in [Job -> Mirror \cup {None}]
  BY SerialFacts DEF TakeOne
<1>1. pc[t] \in {"stop", "force"}
  BY <1>0, Kinds DEF TakeOne, ThreadStack, BooterStack, WatcherStack, Outermost,
                     Starting
<1>2. t \in Thread /\ t \notin Booter /\ then[t] \in AfterStop
  BY <1>1, Stoppers
<1> DEFINE j == loc[t].job
           taken == {<<j, kafMirrors[j]>>}
           l == [loc[t] EXCEPT !.queue = taken, !.mark = "paused"]
<1>3. /\ kafMirrors' = [kafMirrors EXCEPT ![j] = None]
      /\ UNCHANGED <<db, dbFails, panics>>
      /\ Goto(t, "notRunning", loc[t]) \/ Goto(t, "next", l)
  BY <1>1 DEF TakeOne, guardVars, countVars
<1>4. l.queue = taken /\ l.mark = "paused"
  BY <1>0 DEF Local
<1>5. /\ Others(t) /\ then' = then
      /\ \/ pc'[t] = "notRunning" /\ loc'[t] = loc[t]
         \/ pc'[t] = "next" /\ loc'[t].queue = taken /\ loc'[t].mark = "paused"
  <2> HIDE DEF l, taken
  <2>1. CASE Goto(t, "notRunning", loc[t])
    BY <1>0, <2>1, Goes
  <2>2. CASE Goto(t, "next", l)
    BY <1>0, <1>4, <2>2, Goes
  <2> QED
    BY <1>3, <2>1, <2>2
<1> HIDE DEF l
<1>6. \A i : i \in Job => (ToStop(t, i)' <=> i = j)
  <2>1. CASE pc'[t] = "notRunning" /\ loc'[t] = loc[t]
    BY <2>1 DEF ToStop, Stopping
  <2>2. CASE pc'[t] = "next" /\ loc'[t].queue = taken
    BY <2>2 DEF ToStop, Stopping
  <2> QED
    BY <1>5, <2>1, <2>2
<1> HIDE DEF taken
<1>7. kafMirrors'[j] = None /\ \A i \in Job : i # j => kafMirrors'[i] = kafMirrors[i]
  BY <1>0, <1>3
<1>8. \A i \in Job : Agrees(i)
  BY <1>1, <1>2, AllAgree DEF Plain
<1>9. \A i \in Job : Agrees(i)' \/ ToStop(t, i)'
  BY <1>3, <1>6, <1>7, <1>8 DEF Agrees
<1>11. StackOf(t, pc'[t], then'[t])
  BY <1>2, <1>5 DEF StackOf, ThreadStack
<1>12. dbFails' = 0 /\ panics' = 0
  BY <1>3 DEF SerialInv
<1>13. \A i \in Job : ToStop(t, i)' => kafMirrors'[i] = None
  BY <1>6, <1>7
<1>14. loc'[t].mark # "active" /\ pc'[t] \in Stopping \cup {"notRunning"}
  BY <1>0, <1>5 DEF Stopping
<1> QED
  BY <1>1, <1>2, <1>5, <1>9, <1>11, <1>12, <1>13, <1>14, StopSettles

LEMMA NotRunningSerial ==
  ASSUME IInv, SerialInv, NEW t \in Proc, NotRunning(t)
  PROVE  SerialInv'
<1>0. /\ ControlOK /\ loc[t] \in Local /\ loc[t].mark # "active"
      /\ Relies(t) /\ loc[t].job \in Job
  BY SerialFacts DEF NotRunning
<1>1. /\ pc[t] = "notRunning" /\ loc[t].queue = {}
      /\ UNCHANGED <<kafMirrors, db, dbFails, panics>>
  BY DEF NotRunning, guardVars, countVars, managerVars, IInv, MirrorInv,
         QueueInv, Stopping
<1>2. t \in Thread /\ t \notin Booter /\ then[t] \in AfterStop
  BY <1>1, Stoppers
<1> DEFINE j == loc[t].job
<1>3. \A i : ToSettle(t, i) <=> i = j
  BY <1>1, <1>2 DEF ToSettle, ToStop, ToBoot, ToPause, Stopping, Starting
<1>4. kafMirrors[j] = None
  BY <1>0, <1>1, <1>3 DEF Relies, StopsUnderMu, Stopping
<1> DEFINE l == [loc[t] EXCEPT !.row = "active", !.mark = "paused"]
<1>5. CASE db[j] = "active"
  <2>1. Goto(t, "write", l)
    BY <1>5 DEF NotRunning
  <2>2. l.job = j /\ l.mark = "paused" /\ l.queue = {}
    BY <1>0, <1>1 DEF Local
  <2> HIDE DEF l
  <2>3. /\ Others(t) /\ then' = then /\ pc'[t] = "write" /\ loc'[t] = l
    BY <1>0, <2>1, Goes
  <2>4. \A i : ToStop(t, i)' <=> i = j
    BY <2>2, <2>3 DEF ToStop, Stopping
  <2>5. StackOf(t, pc'[t], then'[t])
    BY <1>2, <2>3 DEF StackOf, ThreadStack
  <2> QED
    BY <1>1, <1>2, <1>3, <1>4, <2>2, <2>3, <2>4, <2>5, StopQuiet DEF Stopping
<1>6. CASE db[j] # "active"
  <2>1. Return(t, loc[t])
    BY <1>6 DEF NotRunning
  <2>2. \A i \in Job : Agrees(i)'
    BY <1>1, <1>3, <1>4, <1>6, OnlyThis DEF SerialInv, Agrees
  <2>3. dbFails' = 0 /\ panics' = 0
    BY <1>1 DEF SerialInv
  <2> QED
    BY <1>0, <1>1, <1>2, <2>1, <2>2, <2>3, StopReturns DEF Stopping
<1> QED
  BY <1>5, <1>6

LEMMA TakeAllSerial ==
  ASSUME IInv, SerialInv, NEW t \in Proc, TakeAll(t) \/ StopAll(t)
  PROVE  SerialInv'
<1>0. /\ ControlOK /\ loc[t] \in Local /\ loc[t].mark # "active"
      /\ None \notin Mirror /\ None \notin Proc
      /\ kafMirrors \in [Job -> Mirror \cup {None}]
  BY SerialFacts
<1>1. /\ pc[t] \in {"halt", "stopAll"}
      /\ UNCHANGED <<db, dbFails, panics>>
  BY DEF TakeAll, StopAll, guardVars, countVars
<1>2. /\ t \notin Booter /\ then[t] \in AfterStop
      /\ StackOf(t, "next", then[t])
  BY <1>1, Stoppers
<1>3. \E l : /\ Goto(t, "next", l)
             /\ l.queue = AllMirrors /\ l.mark # "active"
  <2>1. CASE TakeAll(t)
    <3> DEFINE l == [loc[t] EXCEPT !.queue = AllMirrors, !.mark = "halted"]
    <3>1. Goto(t, "next", l) /\ l.queue = AllMirrors /\ l.mark = "halted"
      BY <1>0, <2>1 DEF TakeAll, Local
    <3> QED
      BY <3>1
  <2>2. CASE StopAll(t)
    <3> DEFINE l == [loc[t] EXCEPT !.queue = AllMirrors]
    <3>1. Goto(t, "next", l) /\ l.queue = AllMirrors /\ l.mark = loc[t].mark
      BY <1>0, <2>2 DEF StopAll, Local
    <3> QED
      BY <1>0, <3>1
  <2> QED
    BY <2>1, <2>2
<1>4. /\ Others(t) /\ then' = then /\ pc'[t] = "next"
      /\ loc'[t].queue = AllMirrors /\ loc'[t].mark # "active"
  BY <1>0, <1>3, Goes
<1>5. \A i \in Job : ToStop(t, i)' <=> kafMirrors[i] # None
  <2>1. ASSUME NEW i \in Job, kafMirrors[i] # None
        PROVE  \E q \in AllMirrors : q[1] = i
    <3>1. <<i, kafMirrors[i]>> \in AllMirrors
      BY <2>1 DEF AllMirrors, RunningJobs
    <3> QED
      BY <3>1
  <2>2. ASSUME NEW i \in Job, NEW q \in AllMirrors, q[1] = i
        PROVE  kafMirrors[i] # None
    BY <2>2 DEF AllMirrors, RunningJobs
  <2> QED
    BY <1>4, <2>1, <2>2 DEF ToStop, Stopping
<1>6. \A i \in Job : Agrees(i)
  BY <1>1, <1>2, AllAgree DEF Plain, Outermost
<1>7. \A i \in Job : /\ kafMirrors'[i] = None \/ kafMirrors'[i] = kafMirrors[i]
                     /\ kafMirrors'[i] = None \/ mu' = t
  BY <1>0 DEF TakeAll, StopAll
<1>8. \A i \in Job : Agrees(i)' \/ ToStop(t, i)'
  BY <1>1, <1>5, <1>6, <1>7 DEF Agrees
<1>9. dbFails' = 0 /\ panics' = 0
  BY <1>1, <1>7 DEF SerialInv
<1>10. \A i \in Job : ToStop(t, i)' => kafMirrors'[i] = None \/ StopsUnderMu(t, i)'
  BY <1>4, <1>7 DEF StopsUnderMu, Stopping
<1> QED
  BY <1>1, <1>2, <1>4, <1>8, <1>9, <1>10, StopSettles DEF Stopping

LEMMA NextMirrorSerial ==
  ASSUME IInv, SerialInv, NEW t \in Proc, NextMirror(t)
  PROVE  SerialInv'
<1>0. /\ ControlOK /\ loc[t] \in Local /\ loc[t].mark # "active" /\ Relies(t)
      /\ None \notin Mirror /\ None \notin Proc
  BY SerialFacts
<1>1. /\ pc[t] = "next"
      /\ UNCHANGED <<kafMirrors, db, dbFails, panics>>
  BY DEF NextMirror, guardVars, countVars
<1>2. /\ t \notin Booter /\ then[t] \in AfterStop
      /\ t \in Thread \/ then[t] = <<>>
      /\ t \in Thread \/ t \in Watcher
      /\ StackOf(t, "read", then[t])
  BY <1>1, Stoppers DEF Stopping
<1>3. \A i : ToSettle(t, i) <=> \E q \in loc[t].queue : q[1] = i
  BY <1>1, <1>2 DEF ToSettle, ToStop, ToBoot, ToPause, Stopping, Starting
<1>4. CASE loc[t].queue = {} /\ Return(t, loc[t])
  <2>1. \A i \in Job : Agrees(i)'
    BY <1>1, <1>3, <1>4, OnlyThis DEF SerialInv, Agrees
  <2>2. dbFails' = 0 /\ panics' = 0
    BY <1>1 DEF SerialInv
  <2> QED
    BY <1>0, <1>1, <1>2, <1>4, <2>1, <2>2, StopReturns
<1>5. CASE ~ (loc[t].queue = {} /\ Return(t, loc[t]))
  <2>1. /\ mu' = mu
        /\ \E q \in loc[t].queue :
             LET l == [loc[t] EXCEPT !.job = q[1], !.mir = q[2],
                                     !.queue = @ \ {q}] IN
             Goto(t, "read", l) \/ Call(t, "wait", <<"read">>, l)
    BY <1>5 DEF NextMirror
  <2>2. PICK q \in loc[t].queue :
             LET l == [loc[t] EXCEPT !.job = q[1], !.mir = q[2],
                                     !.queue = @ \ {q}] IN
             Goto(t, "read", l) \/ Call(t, "wait", <<"read">>, l)
    BY <2>1
  <2> DEFINE l == [loc[t] EXCEPT !.job = q[1], !.mir = q[2], !.queue = @ \ {q}]
  <2>3. /\ l.job = q[1] /\ l.queue = loc[t].queue \ {q}
        /\ l.mark = loc[t].mark
    BY <1>0 DEF Local
  <2>4. Goto(t, "read", l) \/ Call(t, "wait", <<"read">>, l)
    BY <2>2
  <2> HIDE DEF l
  <2>5. /\ Others(t) /\ loc'[t] = l /\ pc'[t] \in {"read", "wait"}
        /\ StackOf(t, pc'[t], then'[t])
    <3>1. CASE Goto(t, "read", l)
      BY <1>0, <1>2, <3>1, Goes
    <3>2. CASE Call(t, "wait", <<"read">>, l)
      <4>1. /\ Others(t) /\ loc'[t] = l /\ pc'[t] = "wait"
            /\ then'[t] = <<"read">> \o then[t]
        BY <1>0, <3>2, CallIs
      <4> QED
        BY <1>2, <4>1 DEF StackOf, ThreadStack, WatcherStack
    <3> QED
      BY <2>4, <3>1, <3>2
  <2>6. \A i : ToStop(t, i)' <=> \E p \in loc[t].queue : p[1] = i
    BY <2>3, <2>5 DEF ToStop, Stopping
  <2>7. \A i \in Job : ToStop(t, i)' => kafMirrors[i] = None \/ StopsUnderMu(t, i)'
    BY <1>0, <1>1, <1>3, <2>1, <2>5, <2>6 DEF Relies, StopsUnderMu, Stopping
  <2> QED
    BY <1>0, <1>1, <1>2, <1>3, <2>3, <2>5, <2>6, <2>7, StopQuiet DEF Stopping
<1> QED
  BY <1>4, <1>5

LEMMA WaitSerial ==
  ASSUME IInv, SerialInv, NEW t \in Proc, Wait(t)
  PROVE  SerialInv'
<1>0. /\ ControlOK /\ loc[t] \in Local /\ loc[t].mark # "active" /\ Relies(t)
  BY SerialFacts
<1>1. /\ pc[t] = "wait" /\ Return(t, loc[t]) /\ mu' = mu
      /\ UNCHANGED <<kafMirrors, db, dbFails, panics>>
  BY DEF Wait, managerVars, guardVars, countVars
<1>2. t \notin Booter /\ (t \in Thread \/ t \in Watcher)
  BY <1>1, Stoppers DEF Stopping
<1>3. PICK r \in AfterStop : /\ then[t] = <<"read">> \o r
                             /\ t \in Thread \/ r = <<>>
  BY <1>1, Stoppers DEF Stopping
<1>4. Others(t) /\ pc'[t] = "read" /\ loc'[t] = loc[t] /\ then'[t] = r
  BY <1>0, <1>1, <1>3, WokenTo
<1>5. StackOf(t, pc'[t], then'[t])
  BY <1>2, <1>3, <1>4 DEF StackOf, ThreadStack, WatcherStack
<1>6. \A i : ToStop(t, i)' <=> ToSettle(t, i)
  BY <1>1, <1>2, <1>4 DEF ToSettle, ToStop, ToBoot, ToPause, Stopping, Starting
<1>7. \A i \in Job : ToStop(t, i)' => kafMirrors[i] = None \/ StopsUnderMu(t, i)'
  BY <1>0, <1>1, <1>4, <1>6 DEF Relies, StopsUnderMu, Stopping
<1> QED
  BY <1>0, <1>1, <1>2, <1>4, <1>5, <1>6, <1>7, StopQuiet DEF Stopping

LEMMA ReadSerial ==
  ASSUME IInv, SerialInv, NEW t \in Proc, Read(t)
  PROVE  SerialInv'
<1>0. /\ ControlOK /\ loc[t] \in Local /\ loc[t].mark # "active" /\ Relies(t)
      /\ loc[t].job \in Job /\ kafMirrors \in [Job -> Mirror \cup {None}]
      /\ None \notin Proc
  BY SerialFacts DEF Read
<1> DEFINE j == loc[t].job
           l == [loc[t] EXCEPT !.row = db[j], !.ok = db[j] # None, !.mir = None]
<1>1. /\ pc[t] = "read" /\ mu' = mu
      /\ UNCHANGED <<db, dbFails, panics>>
      /\ Goto(t, IF db[j] = None THEN "next" ELSE "write", l)
      /\ kafMirrors' = IF mu = t THEN [kafMirrors EXCEPT ![j] = None]
                                 ELSE kafMirrors
  BY DEF Read, guardVars, countVars
<1>2. /\ t \notin Booter
      /\ \A p \in {"next", "write"} : StackOf(t, p, then[t])
  BY <1>1, Stoppers DEF Stopping
<1>3. l.job = j /\ l.queue = loc[t].queue /\ l.mark = loc[t].mark
  BY <1>0 DEF Local
<1> HIDE DEF l
<1>4. /\ Others(t) /\ loc'[t] = l /\ then' = then
      /\ pc'[t] = IF db[j] = None THEN "next" ELSE "write"
  BY <1>0, <1>1, Goes
<1>5. \A i : ToSettle(t, i) <=> i = j \/ \E q \in loc[t].queue : q[1] = i
  BY <1>1, <1>2 DEF ToSettle, ToStop, ToBoot, ToPause, Stopping, Starting
<1>6. \A i : ToStop(t, i)' <=> \/ i = j /\ db[j] # None
                               \/ \E q \in loc[t].queue : q[1] = i
  BY <1>3, <1>4 DEF ToStop, Stopping
<1>7. /\ kafMirrors'[j] = None
      /\ \A i \in Job : kafMirrors'[i] = None \/ kafMirrors'[i] = kafMirrors[i]
      /\ \A i \in Job : i # j => kafMirrors'[i] = kafMirrors[i]
  BY <1>0, <1>1, <1>5 DEF Relies, StopsUnderMu, Stopping
<1>8. \A i \in Job : ToStop(t, i)' => kafMirrors'[i] = None \/ StopsUnderMu(t, i)'
  BY <1>0, <1>1, <1>3, <1>4, <1>5, <1>6, <1>7 DEF Relies, StopsUnderMu, Stopping
<1>9. \A i \in Job : Agrees(i)' \/ ToStop(t, i)'
  BY <1>1, <1>5, <1>6, <1>7, OnlyThis DEF SerialInv, Agrees
<1>10. dbFails' = 0 /\ panics' = 0
  BY <1>1, <1>7 DEF SerialInv
<1>11. /\ loc'[t].mark # "active" /\ pc'[t] \in Stopping
       /\ StackOf(t, pc'[t], then'[t])
  BY <1>0, <1>2, <1>3, <1>4 DEF Stopping
<1> QED
  BY <1>1, <1>2, <1>4, <1>8, <1>9, <1>10, <1>11, StopSettles

LEMMA WriteSerial ==
  ASSUME OneAtATime, IInv, SerialInv, NEW t \in Proc, Write(t)
  PROVE  SerialInv'
<1>0. /\ ControlOK /\ loc[t] \in Local /\ loc[t].mark # "active" /\ Relies(t)
      /\ loc[t].job \in Job /\ kafMirrors \in [Job -> Mirror \cup {None}]
      /\ db \in [Job -> Status \cup {None}] /\ None \notin Proc
      /\ None # "active"
  BY SerialFacts DEF Write, Status
<1> DEFINE j == loc[t].job
           byHalt == loc[t].mark = "halted"
           status == IF byHalt THEN "paused" ELSE loc[t].mark
           l == [loc[t] EXCEPT !.ok = TRUE, !.row = None]
<1>1. /\ pc[t] = "write" /\ mu' = mu /\ kafMirrors' = kafMirrors
      /\ panics' = panics
  BY DEF Write, managerVars
<1>2. t \notin Booter /\ StackOf(t, "next", then[t])
  BY <1>1, Stoppers DEF Stopping
<1>3. /\ Save(j, status, FALSE) /\ Goto(t, "next", l)
  <2>1. \A x : ~Save(j, x, TRUE)
    BY DEF OneAtATime, Save, SerialInv
  <2>2. PICK failing \in BOOLEAN :
          /\ Save(j, status, failing)
          /\ Goto(t, "next", [loc[t] EXCEPT !.ok = ~failing, !.row = None])
    BY DEF Write
  <2>3. failing = FALSE
    BY <2>1, <2>2
  <2> QED
    BY <2>2, <2>3
<1>4. l.queue = loc[t].queue /\ l.mark = loc[t].mark
  BY <1>0 DEF Local
<1> HIDE DEF l
<1>5. Others(t) /\ loc'[t] = l /\ then' = then /\ pc'[t] = "next"
  BY <1>0, <1>3, Goes
<1>6. /\ status # "active" /\ dbFails' = dbFails
      /\ db'[j] = None \/ db'[j] = status
      /\ \A i \in Job : i # j => db'[i] = db[i]
  BY <1>0, <1>3 DEF Save, Saved
<1>7. \A i : ToSettle(t, i) <=> i = j \/ \E q \in loc[t].queue : q[1] = i
  BY <1>1, <1>2 DEF ToSettle, ToStop, ToBoot, ToPause, Stopping, Starting
<1>8. \A i : ToStop(t, i)' <=> \E q \in loc[t].queue : q[1] = i
  BY <1>4, <1>5 DEF ToStop, Stopping
<1>9. kafMirrors[j] = None
  BY <1>0, <1>1, <1>7 DEF Relies, StopsUnderMu
<1>10. \A i \in Job : ToStop(t, i)' => kafMirrors'[i] = None \/ StopsUnderMu(t, i)'
  BY <1>0, <1>1, <1>5, <1>7, <1>8, <1>9 DEF Relies, StopsUnderMu, Stopping
<1>11. \A i \in Job : Agrees(i)' \/ ToStop(t, i)'
  BY <1>1, <1>6, <1>7, <1>8, <1>9, OnlyThis DEF SerialInv, Agrees
<1>13. dbFails' = 0 /\ panics' = 0
  BY <1>1, <1>6 DEF SerialInv
<1> QED
  BY <1>0, <1>1, <1>2, <1>4, <1>5, <1>10, <1>11, <1>13, StopSettles
  DEF Stopping

-----------------------------------------------------------------------------
(* What only threads do, with nothing to settle before or after.           *)
LEMMA OnlyThreads ==
  ASSUME IInv, SerialInv, NEW t \in Proc,
         pc[t] \in Outermost \ {"idle", "halt", "list", "startEach"}
  PROVE  /\ t \in Thread /\ then[t] = <<>> /\ pc[t] \in Plain
         /\ \A j \in Job : Agrees(j)
<1>1. StackOf(t, pc[t], then[t])
  BY SerialFacts
<1>2. t \in Thread /\ t \notin Booter
  BY <1>1, Kinds DEF BooterStack, WatcherStack, Outermost, Starting
<1>3. then[t] = <<>>
  BY <1>1, <1>2, Kinds DEF ThreadStack, Outermost, Starting
<1> QED
  BY <1>2, <1>3, AllAgree DEF Plain

LEMMA QuietSerial ==
  ASSUME IInv, SerialInv, NEW t \in Proc,
         \/ Restart(t) \/ Preflight(t) \/ Update(t) \/ Sync(t)
         \/ ListAll(t) \/ Collect(t) \/ StopEach(t)
  PROVE  SerialInv'
<1>0. /\ ControlOK /\ loc[t] \in Local /\ loc[t].mark # "active"
      /\ db \in [Job -> Status \cup {None}]
  BY SerialFacts
<1>1. /\ pc[t] \in {"restart", "preflight", "update", "sync", "listAll",
                    "collect", "stopEach"}
      /\ UNCHANGED <<kafMirrors, db, dbFails, panics>>
  BY DEF Restart, Preflight, Update, Sync, ListAll, Collect, StopEach,
         managerVars, guardVars, countVars
<1>2. t \in Thread /\ then[t] = <<>> /\ pc[t] \in Plain /\ pc[t] # "idle"
  BY <1>1, OnlyThreads DEF Outermost
<1>3. pc[t] = "update" => loc[t].job \in Job
  BY SerialFacts
<1>4. CASE Return(t, loc[t])
  <2>1. /\ Others(t) /\ pc'[t] = "idle" /\ then'[t] = <<>> /\ loc'[t] = NoLocal
    BY <1>0, <1>2, <1>4, ReturnIs
  <2> QED
    BY <1>1, <1>2, <2>1, NoLocalIs, PlainQuiet DEF ThreadStack, Plain, Outermost
<1>5. CASE Restart(t) /\ ~Return(t, loc[t])
  <2> DEFINE l == [loc[t] EXCEPT !.list[loc[t].job] = db[loc[t].job]]
  <2>1. \/ Call(t, "stop", <<"start", "restartSave">>, l)
        \/ Call(t, "start", <<"restartSave">>, l)
    BY <1>5 DEF Restart
  <2>2. l.mark = loc[t].mark
    BY <1>0 DEF Local
  <2> HIDE DEF l
  <2>3. /\ <<"start", "restartSave">> \in Seq(Phases)
        /\ <<"restartSave">> \in Seq(Phases)
    BY DEF Phases
  <2>4. CASE Call(t, "stop", <<"start", "restartSave">>, l)
    <3>1. /\ Others(t) /\ pc'[t] = "stop" /\ loc'[t] = l
          /\ then'[t] = <<"start", "restartSave">>
      BY <1>0, <1>2, <2>3, <2>4, CallIs
    <3> QED
      BY <1>0, <1>1, <1>2, <2>2, <3>1, PlainQuiet
      DEF ThreadStack, AfterStop, Plain
  <2>5. CASE Call(t, "start", <<"restartSave">>, l)
    <3>1. /\ Others(t) /\ pc'[t] = "start" /\ loc'[t] = l
          /\ then'[t] = <<"restartSave">>
      BY <1>0, <1>2, <2>3, <2>5, CallIs
    <3> QED
      BY <1>0, <1>1, <1>2, <2>2, <3>1, PlainQuiet
      DEF ThreadStack, Starting, Plain
  <2> QED
    BY <2>1, <2>4, <2>5
<1>6. CASE Preflight(t) /\ ~Return(t, loc[t])
  <2>1. Others(t) /\ pc'[t] = "start" /\ then'[t] = <<>> /\ loc'[t] = loc[t]
    BY <1>0, <1>2, <1>6, Goes DEF Preflight
  <2> QED
    BY <1>0, <1>1, <1>2, <2>1, PlainQuiet DEF ThreadStack, Starting, Plain
<1>7. CASE Update(t) /\ ~Return(t, loc[t])
  <2> DEFINE l == [loc[t] EXCEPT !.list[loc[t].job] = db[loc[t].job]]
  <2>1. Goto(t, "updateSave", l) /\ loc[t].job \in Job
    BY <1>3, <1>7 DEF Update
  <2>2. /\ l.mark = loc[t].mark /\ l.job = loc[t].job
        /\ l.list[l.job] = db[l.job]
    BY <1>0, <2>1 DEF Local
  <2> HIDE DEF l
  <2>3. Others(t) /\ pc'[t] = "updateSave" /\ then'[t] = <<>> /\ loc'[t] = l
    BY <1>0, <1>2, <2>1, Goes
  <2> QED
    BY <1>0, <1>1, <1>2, <2>2, <2>3, PlainQuiet DEF ThreadStack, Outermost, Plain
<1>8. CASE /\ Sync(t) \/ ListAll(t) \/ Collect(t) \/ StopEach(t)
           /\ ~Return(t, loc[t])
  <2> DEFINE Next3 == {"syncSave", "collect", "stopEach", "startEach"}
  <2>1. \/ \E phase \in Next3 : \E l :
             Goto(t, phase, l) /\ l.mark = loc[t].mark
        \/ \E l : Call(t, "stop", <<"stopEach">>, l) /\ l.mark = loc[t].mark
    <3>1. \A x, y, z :
            /\ [loc[t] EXCEPT !.list = x].mark = loc[t].mark
            /\ [loc[t] EXCEPT !.todo = y].mark = loc[t].mark
            /\ [loc[t] EXCEPT !.job = z, !.todo = y].mark = loc[t].mark
      BY <1>0 DEF Local
    <3>2. CASE Sync(t)
      BY <3>1, <3>2 DEF Sync
    <3>3. CASE ListAll(t)
      BY <3>1, <3>3 DEF ListAll
    <3>4. CASE Collect(t)
      BY <3>1, <3>4 DEF Collect
    <3>5. CASE StopEach(t)
      BY <3>1, <3>5 DEF StopEach
    <3> QED
      BY <1>8, <3>2, <3>3, <3>4, <3>5
  <2>2. ASSUME NEW phase \in Next3, NEW l, Goto(t, phase, l), l.mark = loc[t].mark
        PROVE  SerialInv'
    <3>1. Others(t) /\ pc'[t] = phase /\ then'[t] = <<>> /\ loc'[t] = l
      BY <1>0, <1>2, <2>2, Goes
    <3> QED
      BY <1>0, <1>1, <1>2, <2>2, <3>1, PlainQuiet
      DEF ThreadStack, Outermost, Plain
  <2>3. ASSUME NEW l, Call(t, "stop", <<"stopEach">>, l), l.mark = loc[t].mark
        PROVE  SerialInv'
    <3>1. <<"stopEach">> \in Seq(Phases)
      BY DEF Phases
    <3>2. /\ Others(t) /\ pc'[t] = "stop" /\ loc'[t] = l
          /\ then'[t] = <<"stopEach">>
      BY <1>0, <1>2, <2>3, <3>1, CallIs
    <3> QED
      BY <1>0, <1>1, <1>2, <2>3, <3>2, PlainQuiet
      DEF ThreadStack, AfterStop, Plain
  <2> QED
    BY <2>1, <2>2, <2>3
<1> QED
  BY <1>4, <1>5, <1>6, <1>7, <1>8

LEMMA SaveSerial ==
  ASSUME OneAtATime, IInv, IInv', SerialInv, NEW t \in Proc,
         Delete(t) \/ RestartSave(t) \/ UpdateSave(t) \/ SyncSave(t)
  PROVE  SerialInv'
<1>0. /\ ControlOK /\ loc[t] \in Local /\ loc[t].mark # "active" /\ Relies(t)
      /\ db \in [Job -> Status \cup {None}]
      /\ loc[t].job \in Job /\ None # "active"
  BY SerialFacts DEF Status, Delete, RestartSave, UpdateSave, SyncSave
<1>1. /\ pc[t] \in {"delete", "restartSave", "updateSave", "syncSave"}
      /\ UNCHANGED <<kafMirrors, panics>>
  BY DEF Delete, RestartSave, UpdateSave, SyncSave, managerVars, guardVars
<1>2. /\ t \in Thread /\ then[t] = <<>> /\ pc[t] \in Plain /\ pc[t] # "idle"
      /\ \A j \in Job : Agrees(j)
  BY <1>1, OnlyThreads DEF Outermost
<1>3. dbFails' = 0
  <2>1. dbFails' \in Nat
    BY DEF IInv, TypeOK
  <2>2. CASE SyncSave(t)
    <3>1. PICK lost \in SUBSET Job :
            /\ dbFails + Cardinality(lost) <= MaxDbFails
            /\ dbFails' = dbFails + Cardinality(lost)
      BY <2>2 DEF SyncSave
    <3> QED
      BY <2>1, <3>1 DEF OneAtATime
  <2>3. CASE Delete(t) \/ RestartSave(t) \/ UpdateSave(t)
    BY <2>3 DEF OneAtATime, SerialInv, Delete, RestartSave, UpdateSave, Save
  <2> QED
    BY <2>2, <2>3
(* A row goes, or says what is so, or what it said.                        *)
<1>4. \A j \in Job : \/ db'[j] = db[j] \/ db'[j] = None
                     \/ db'[j] = "active" /\ kafMirrors[j] # None
                     \/ db'[j] = "paused" /\ kafMirrors[j] = None
  <2>1. CASE Delete(t)
    BY <1>0, <2>1 DEF Delete
  <2>2. CASE RestartSave(t)
    <3>1. CASE loc[t].ok
      <4>1. kafMirrors[loc[t].job] # None
        BY <1>0, <2>2, <3>1 DEF RestartSave, Relies
      <4> QED
        BY <1>0, <2>2, <3>1, <4>1 DEF RestartSave, Save, Saved
    <3>2. CASE ~loc[t].ok
      BY <2>2, <3>2 DEF RestartSave
    <3> QED
      BY <3>1, <3>2
  <2>3. CASE UpdateSave(t)
    <3>1. loc[t].list[loc[t].job] = db[loc[t].job]
      BY <1>0, <2>3 DEF UpdateSave, Relies
    <3> QED
      BY <1>0, <2>3, <3>1 DEF UpdateSave, Save, Saved
  <2>4. CASE SyncSave(t)
    BY <1>0, <2>4 DEF SyncSave
  <2> QED
    BY <2>1, <2>2, <2>3, <2>4
<1>5. \A j \in Job : Agrees(j)'
  BY <1>1, <1>2, <1>4 DEF Agrees
<1>7. panics' = 0
  BY <1>1 DEF SerialInv
<1>8. CASE Return(t, loc[t])
  <2>1. /\ Others(t) /\ pc'[t] = "idle" /\ then'[t] = <<>> /\ loc'[t] = NoLocal
    BY <1>0, <1>2, <1>8, ReturnIs
  <2> QED
    BY <1>2, <1>3, <1>5, <1>7, <2>1, NoLocalIs, PlainSettles
    DEF ThreadStack, Plain, Outermost
<1>9. CASE Goto(t, "listAll", loc[t])
  <2>1. Others(t) /\ pc'[t] = "listAll" /\ then'[t] = <<>> /\ loc'[t] = loc[t]
    BY <1>0, <1>2, <1>9, Goes
  <2> QED
    BY <1>0, <1>2, <1>3, <1>5, <1>7, <2>1, PlainSettles
    DEF ThreadStack, Plain, Outermost
<1> QED
  BY <1>8, <1>9 DEF Delete, RestartSave, UpdateSave, SyncSave

-----------------------------------------------------------------------------
(* The reconciliation of a starting program, and StartAllJobs.             *)
LEMMA ListSerial ==
  ASSUME IInv, SerialInv, NEW t \in Proc, List(t) \/ StartEach(t)
  PROVE  SerialInv'
<1>0. /\ ControlOK /\ loc[t] \in Local /\ loc[t].mark # "active" /\ Relies(t)
      /\ StackOf(t, pc[t], then[t]) /\ db \in [Job -> Status \cup {None}]
  BY SerialFacts
<1>1. /\ pc[t] \in {"list", "startEach"}
      /\ UNCHANGED <<kafMirrors, db, dbFails, panics>>
  BY DEF List, StartEach, managerVars, guardVars, countVars
<1>2. then[t] = <<>> /\ (t \in Thread \/ t \in Booter)
  BY <1>0, <1>1, Kinds DEF ThreadStack, BooterStack, WatcherStack, Outermost,
                           Starting
<1>3. CASE List(t)
  <2> DEFINE todo == {j \in Job : db[j] # None /\ (db[j] = "active" <=> t \in Booter)}
             l == [loc[t] EXCEPT !.list = db, !.todo = todo]
  <2>1. l.mark = loc[t].mark /\ l.todo = todo
    BY <1>0 DEF Local
  <2>2. Goto(t, "startEach", l)
    BY <1>3 DEF List
  <2> HIDE DEF l
  <2>3. Others(t) /\ pc'[t] = "startEach" /\ then'[t] = <<>> /\ loc'[t] = l
    BY <1>0, <1>2, <2>2, Goes
  <2>4. CASE t \in Thread
    BY <1>0, <1>1, <2>1, <2>3, <2>4, PlainQuiet
    DEF ThreadStack, Outermost, Plain, List
  <2>5. CASE t \in Booter
    <3>1. pc[t] = "list"
      BY <1>3 DEF List
    <3>2. \A j \in Job : kafMirrors[j] = None
      BY <1>0, <2>5, <3>1
      DEF Relies, ToSettle, ToBoot, StopsUnderMu, Stopping
    <3>3. \A j : /\ ToSettle(t, j)' <=> j \in todo
                 /\ ToBoot(t, j)' <=> j \in todo
      BY <2>1, <2>3, <2>5 DEF ToSettle, ToStop, ToBoot, ToPause, Stopping, Starting
    <3>4. \A j \in todo : db[j] = "active"
      BY <2>5
    <3>5. Relies(t)'
      BY <1>0, <1>1, <2>1, <2>3, <3>2, <3>3, <3>4 DEF Relies, Starting
    <3>6. StackOf(t, pc'[t], then'[t])
      BY <2>3, <2>5 DEF StackOf, BooterStack
    <3>7. \A j \in Job : Agrees(j) \/ ToSettle(t, j)'
      BY <2>5, <3>2, <3>3 DEF Agrees
    <3> QED
      BY <1>1, <2>3, <3>5, <3>6, <3>7, QuietSettles
  <2> QED
    BY <1>2, <2>4, <2>5
<1>4. CASE StartEach(t) /\ loc[t].todo = {} /\ Return(t, loc[t])
  <2>1. /\ Others(t) /\ pc'[t] = "idle" /\ then'[t] = <<>> /\ loc'[t] = NoLocal
        /\ pc[t] = "startEach"
    BY <1>0, <1>2, <1>4, ReturnIs DEF StartEach
  <2>2. \A j : ~ToSettle(t, j) /\ ~ToSettle(t, j)' /\ ~ToBoot(t, j)'
    BY <1>4, <2>1 DEF ToSettle, ToStop, ToBoot, ToPause, Stopping, Starting
  <2>3. Relies(t)'
    BY <2>1, <2>2, NoLocalIs DEF Relies, Starting
  <2>4. StackOf(t, pc'[t], then'[t])
    BY <1>2, <2>1 DEF StackOf, ThreadStack, BooterStack, Outermost
  <2> QED
    BY <1>1, <2>1, <2>2, <2>3, <2>4, QuietSettles
<1>5. CASE StartEach(t) /\ ~(loc[t].todo = {} /\ Return(t, loc[t]))
  <2> DEFINE rest == IF t \in Booter THEN <<"bootSave", "startEach">>
                                     ELSE <<"startEach">>
             l(j) == [loc[t] EXCEPT !.job = j, !.todo = @ \ {j}]
  <2>1. PICK j \in loc[t].todo : Call(t, "start", rest, l(j))
    BY <1>5 DEF StartEach
  <2> DEFINE k == l(j)
  <2>2. k.mark = loc[t].mark /\ k.job = j /\ k.todo = loc[t].todo \ {j}
    BY <1>0 DEF Local
  <2> HIDE DEF l
  <2>3. Call(t, "start", rest, k) /\ pc[t] = "startEach"
    BY <1>5, <2>1 DEF StartEach
  <2>4. rest \in Seq(Phases)
    <3>1. <<"bootSave", "startEach">> \in Seq(Phases)
      BY DEF Phases
    <3>2. <<"startEach">> \in Seq(Phases)
      BY DEF Phases
    <3> QED
      BY <3>1, <3>2
  <2> HIDE DEF k
  <2>5. Others(t) /\ pc'[t] = "start" /\ then'[t] = rest /\ loc'[t] = k
    BY <1>0, <1>2, <2>3, <2>4, CallIs
  <2>6. CASE t \in Thread
    <3>1. rest = <<"startEach">>
      BY <2>6, Kinds, <1>0
    <3> QED
      BY <1>0, <1>1, <2>2, <2>3, <2>5, <2>6, <3>1, PlainQuiet
      DEF ThreadStack, Outermost, Starting, Plain
  <2>7. CASE t \in Booter
    <3>1. \A i : /\ ToSettle(t, i) <=> i \in loc[t].todo
                 /\ ToBoot(t, i) <=> i \in loc[t].todo
                 /\ ToSettle(t, i)' <=> i \in loc[t].todo
                 /\ ToBoot(t, i)' <=> i \in loc[t].todo
      BY <2>1, <2>2, <2>3, <2>5, <2>7
      DEF ToSettle, ToStop, ToBoot, ToPause, Stopping, Starting
    <3>2. \A i \in Job : i \in loc[t].todo => kafMirrors[i] = None /\ db[i] = "active"
      BY <1>0, <2>3, <3>1 DEF Relies, StopsUnderMu, Stopping
    <3>3. k.job \notin k.todo
      BY <2>2
    <3>4. Relies(t)'
      BY <1>0, <1>1, <2>2, <2>5, <3>1, <3>2, <3>3 DEF Relies, Starting
    <3>5. StackOf(t, pc'[t], then'[t])
      BY <2>5, <2>7 DEF StackOf, BooterStack, Starting
    <3> QED
      BY <1>1, <2>5, <3>1, <3>4, <3>5, QuietSettles
  <2> QED
    BY <1>2, <2>6, <2>7
<1> QED
  BY <1>3, <1>4, <1>5

LEMMA BootSaveSerial ==
  ASSUME OneAtATime, IInv, SerialInv, NEW t \in Proc, BootSave(t)
  PROVE  SerialInv'
<1>0. /\ ControlOK /\ loc[t] \in Local /\ loc[t].mark # "active" /\ Relies(t)
      /\ StackOf(t, pc[t], then[t]) /\ db \in [Job -> Status \cup {None}]
      /\ loc[t].job \in Job /\ None # "active"
  BY SerialFacts DEF BootSave, Status
<1>1. /\ pc[t] = "bootSave" /\ UNCHANGED <<kafMirrors, panics>>
  BY DEF BootSave, managerVars, guardVars
<1>2. t \in Booter /\ then[t] = <<"startEach">>
  BY <1>0, <1>1, Kinds DEF ThreadStack, BooterStack, WatcherStack, Outermost,
                           Starting
<1> DEFINE j == loc[t].job
           todo == loc[t].todo
<1>3. /\ Others(t) /\ pc'[t] = "startEach" /\ then'[t] = <<>> /\ loc'[t] = loc[t]
  BY <1>0, <1>2, ReturnIs DEF BootSave
<1>4. /\ dbFails' = 0
      /\ loc[t].ok = TRUE => db' = db
      /\ loc[t].ok # TRUE => db' = Saved(j, "paused")
  <2>1. loc[t].ok \in BOOLEAN /\ dbFails = 0 /\ ~(dbFails < MaxDbFails)
    BY <1>0 DEF Local, OneAtATime, SerialInv
  <2>2. ~ Save(j, "paused", TRUE)
    BY <2>1 DEF Save
  <2>3. CASE loc[t].ok /\ UNCHANGED <<db, dbFails>>
    BY <2>1, <2>3
  <2>4. CASE ~loc[t].ok /\ Save(j, "paused", FALSE)
    BY <2>1, <2>4 DEF Save
  <2> QED
    BY <2>1, <2>2, <2>3, <2>4 DEF BootSave
<1>5. \A i : /\ ToSettle(t, i) <=> (i = j /\ loc[t].ok # TRUE) \/ i \in todo
             /\ ToBoot(t, i) <=> i \in todo
             /\ ToSettle(t, i)' <=> i \in todo
             /\ ToBoot(t, i)' <=> i \in todo
  BY <1>1, <1>2, <1>3 DEF ToSettle, ToStop, ToBoot, ToPause, Stopping, Starting
<1>6. j \notin todo
  BY <1>0, <1>1, <1>2 DEF Relies
<1>7. \A i \in Job : ToSettle(t, i) => kafMirrors[i] = None
  BY <1>0, <1>1 DEF Relies, StopsUnderMu, Stopping
<1>8. \A i \in Job : /\ i # j => db'[i] = db[i]
                     /\ db'[i] = "active" => db[i] = "active"
                     /\ loc[t].ok # TRUE => db'[j] # "active"
  BY <1>0, <1>4 DEF Saved
<1>9. Relies(t)'
  <2>1. \A i \in Job : i \in todo => kafMirrors'[i] = None /\ db'[i] = "active"
    BY <1>0, <1>1, <1>5, <1>6, <1>7, <1>8 DEF Relies
  <2> QED
    BY <1>0, <1>3, <1>5, <2>1 DEF Relies, Starting
<1>10. StackOf(t, pc'[t], then'[t])
  BY <1>2, <1>3 DEF StackOf, BooterStack
<1>11. \A i \in Job : Agrees(i)' \/ ToSettle(t, i)'
  <2>1. \A u \in Proc, i \in Job : ToSettle(u, i) => u = t
    BY <1>1, OnlyThis
  <2>2. ASSUME NEW i \in Job, i \notin todo, ~(i = j /\ loc[t].ok # TRUE)
        PROVE  Agrees(i)'
    <3>1. Agrees(i)
      BY <1>5, <2>1, <2>2 DEF SerialInv
    <3>2. db'[i] = db[i]
      BY <1>4, <1>8, <2>2
    <3> QED
      BY <1>1, <3>1, <3>2 DEF Agrees
  <2>3. ASSUME NEW i \in Job, i = j, loc[t].ok # TRUE
        PROVE  Agrees(i)'
    <3>1. kafMirrors'[i] = None
      BY <1>1, <1>5, <1>7, <2>3
    <3>2. db'[i] # "active"
      BY <1>8, <2>3
    <3> QED
      BY <3>1, <3>2 DEF Agrees
  <2>4. ASSUME NEW i \in Job
        PROVE  Agrees(i)' \/ ToSettle(t, i)'
    <3>1. CASE i \in todo
      BY <1>5, <3>1
    <3>2. CASE i \notin todo /\ ~(i = j /\ loc[t].ok # TRUE)
      BY <2>2, <3>2
    <3>3. CASE i = j /\ loc[t].ok # TRUE
      BY <2>3, <3>3
    <3> QED
      BY <3>1, <3>2, <3>3
  <2> QED
    BY <2>4
<1>13. panics' = 0
  BY <1>1 DEF SerialInv
<1> QED
  BY <1>1, <1>3, <1>4, <1>9, <1>10, <1>11, <1>13, Settles

-----------------------------------------------------------------------------
(* Every step of a goroutine; no goroutine throttles or undoes a start.    *)
LEMMA StepSerial ==
  ASSUME OneAtATime, IInv, IInv', SerialInv, NEW t \in Proc, Step(t)
  PROVE  SerialInv'
<1>1. pc[t] \notin {"undo", "throttle", "apply", "relaunch"}
  BY SerialFacts, Kinds
  DEF ThreadStack, BooterStack, WatcherStack, Outermost, Starting
<1>2. ~Undo(t) /\ ~Throttle(t) /\ ~Apply(t) /\ ~Relaunch(t)
  BY <1>1 DEF Undo, Throttle, Apply, Relaunch
<1> QED
  BY <1>2, StartSerial, LaunchSerial, TakeOneSerial, NotRunningSerial,
     TakeAllSerial, NextMirrorSerial, WaitSerial, ReadSerial, WriteSerial,
     QuietSerial, SaveSerial, ListSerial, BootSaveSerial
  DEF Step

(* When nothing is going on, the first step of a goroutine.                *)
LEMMA BeginSettles ==
  ASSUME SerialInv, Quiescent, NEW t \in Proc, t \notin Booter, Others(t),
         UNCHANGED <<kafMirrors, db, dbFails, panics>>,
         StackOf(t, pc'[t], then'[t]), pc'[t] \in Plain,
         pc'[t] \notin {"restartSave", "updateSave"}, loc'[t].mark # "active"
  PROVE  SerialInv'
<1>1. \A u \in Proc : pc[u] = "idle" /\ (u # t => pc'[u] = "idle")
  BY DEF Quiescent, Others
<1>2. \A u \in Proc, j \in Job : ~ToSettle(u, j)
  BY <1>1 DEF ToSettle, ToStop, ToBoot, ToPause, Stopping, Starting
<1>3. \A u \in Proc, j \in Job : ~ToSettle(u, j)' /\ ~ToBoot(u, j)'
  BY <1>1
  DEF ToSettle, ToStop, ToBoot, ToPause, Stopping, Starting, Plain, Outermost
<1>4. ASSUME NEW u \in Proc
      PROVE  StackOf(u, pc'[u], then'[u]) /\ Relies(u)'
  <2>1. CASE u = t
    <3>1. Relies(t)'
      BY <1>3 DEF Relies
    <3> QED
      BY <2>1, <3>1
  <2>2. CASE u # t
    <3>1. /\ pc'[u] = "idle" /\ pc'[u] = pc[u] /\ then'[u] = then[u]
          /\ loc'[u] = loc[u]
      BY <1>1, <2>2 DEF Others
    <3>2. loc[u].mark # "active" /\ StackOf(u, pc[u], then[u])
      BY DEF SerialInv, Relies
    <3>3. Relies(u)'
      BY <1>3, <3>1, <3>2 DEF Relies, Starting
    <3> QED
      BY <3>1, <3>2, <3>3
  <2> QED
    BY <2>1, <2>2
<1>5. OneBusy'
  BY <1>1 DEF OneBusy
<1>6. \A j \in Job : Agrees(j)'
  BY <1>2 DEF SerialInv, Agrees
<1>7. dbFails' = 0 /\ panics' = 0
  BY DEF SerialInv
<1> QED
  BY <1>4, <1>5, <1>6, <1>7 DEF SerialInv

LEMMA BeginSerial ==
  ASSUME OneAtATime, IInv, SerialInv, NEW t \in Thread, NEW r, NEW j \in Job,
         Begin(t, r, j)
  PROVE  SerialInv'
<1>0. t \in Proc /\ t \notin Booter /\ ControlOK
  BY ManagerAssumption DEF Proc, IInv, TypeOK, ControlOK
<1>1. /\ Quiescent /\ pc[t] = "idle"
      /\ r \in Requests \ {"halt", "resume", "throttle"}
      /\ UNCHANGED <<kafMirrors, db, dbFails, panics>>
  BY ManagerAssumption
  DEF Begin, OneAtATime, managerVars, guardVars, countVars
<1>2. then[t] = <<>>
  BY <1>0, <1>1, Kinds
  DEF SerialInv, ThreadStack, Outermost, Starting
<1> DEFINE l == [NoLocal EXCEPT !.job = j]
<1>3. l.mark # "active"
  BY DEF NoLocal
<1>4. Call(t, Head(Routine(r)), Tail(Routine(r)), l)
  BY DEF Begin
<1> HIDE DEF l
<1>5. /\ Routine(r) = <<"stop", "delete">>
      \/ Routine(r) = <<"force", "preflight">>
      \/ Routine(r) = <<"list">> \/ Routine(r) = <<"sync">>
      \/ \E p \in {"start", "stop", "restart", "stopAll", "update"} :
           Routine(r) = <<p>>
  BY <1>1 DEF Routine, Requests
<1>6. ASSUME NEW p, NEW s, Call(t, p, s, l), s \in Seq(Phases), ThreadStack(p, s),
             p \in Plain \ {"restartSave", "updateSave"}
      PROVE  SerialInv'
  <2>1. Others(t) /\ pc'[t] = p /\ then'[t] = s /\ loc'[t] = l
    BY <1>0, <1>2, <1>6, CallIs
  <2>2. StackOf(t, pc'[t], then'[t])
    BY <1>6, <2>1 DEF StackOf
  <2> QED
    BY <1>0, <1>1, <1>3, <1>6, <2>1, <2>2, BeginSettles
<1>7. /\ <<"delete">> \in Seq(Phases) /\ <<"preflight">> \in Seq(Phases)
      /\ <<>> \in Seq(Phases)
  BY DEF Phases
<1>8. CASE Routine(r) = <<"stop", "delete">>
  <2>1. Call(t, "stop", <<"delete">>, l)
    BY <1>4, <1>8
  <2> QED
    BY <1>6, <1>7, <2>1 DEF ThreadStack, AfterStop, Plain
<1>9. CASE Routine(r) = <<"force", "preflight">>
  <2>1. Call(t, "force", <<"preflight">>, l)
    BY <1>4, <1>9
  <2> QED
    BY <1>6, <1>7, <2>1 DEF ThreadStack, AfterStop, Plain
<1>10. ASSUME NEW p \in {"start", "stop", "restart", "stopAll", "update", "list",
                         "sync"},
              Routine(r) = <<p>>
       PROVE  SerialInv'
  <2>1. Call(t, p, <<>>, l)
    BY <1>4, <1>10
  <2> QED
    BY <1>6, <1>7, <1>10, <2>1
    DEF ThreadStack, AfterStop, Plain, Outermost, Starting
<1> QED
  BY <1>5, <1>8, <1>9, <1>10

LEMMA HaltSerial ==
  ASSUME OneAtATime, IInv, SerialInv, NEW t \in Proc,
         (t \in Thread /\ BeginHalt(t)) \/ Tick(t)
  PROVE  SerialInv'
<1>0. ControlOK /\ (t \in Thread \/ t \in Watcher)
  BY DEF IInv, TypeOK, ControlOK, Tick
<1>1. /\ Quiescent /\ pc[t] = "idle"
      /\ UNCHANGED <<kafMirrors, db, dbFails, panics>>
      /\ Goto(t, "halt", NoLocal) \/ UNCHANGED procVars
  BY DEF OneAtATime, BeginHalt, Tick, managerVars, countVars
<1>2. t \notin Booter /\ then[t] = <<>>
  BY <1>0, <1>1, Kinds, ManagerAssumption
  DEF SerialInv, ThreadStack, WatcherStack, Outermost, Starting
<1>3. CASE Goto(t, "halt", NoLocal)
  <2>1. Others(t) /\ pc'[t] = "halt" /\ then'[t] = <<>> /\ loc'[t] = NoLocal
    BY <1>0, <1>2, <1>3, Goes
  <2>2. StackOf(t, pc'[t], then'[t])
    BY <1>0, <2>1 DEF StackOf, ThreadStack, WatcherStack, Outermost
  <2> QED
    BY <1>1, <1>2, <2>1, <2>2, NoLocalIs, BeginSettles DEF Plain, Outermost
<1>4. CASE UNCHANGED procVars
  <2>1. UNCHANGED <<pc, then, loc>>
    BY <1>4 DEF procVars
  <2>2. Others(t) /\ StackOf(t, pc'[t], then'[t]) /\ loc'[t].mark # "active"
    BY <2>1 DEF Others, SerialInv, Relies
  <2> QED
    BY <1>1, <1>2, <2>1, <2>2, BeginSettles DEF Plain, Outermost
<1> QED
  BY <1>1, <1>3, <1>4

(* Nothing these properties are about changes.                             *)
LEMMA StillSerial ==
  ASSUME SerialInv,
         UNCHANGED <<kafMirrors, mu, db, dbFails, panics, procVars>>
  PROVE  SerialInv'
<1>1. UNCHANGED <<kafMirrors, mu, db, dbFails, panics, pc, then, loc>>
  BY DEF procVars
<1>2. OneBusy' /\ dbFails' = 0 /\ panics' = 0
  BY <1>1 DEF SerialInv, OneBusy
<1>3. \A t \in Proc, j \in Job : /\ ToSettle(t, j)' <=> ToSettle(t, j)
                                 /\ ToBoot(t, j)' <=> ToBoot(t, j)
                                 /\ Agrees(j)' <=> Agrees(j)
                                 /\ StopsUnderMu(t, j)' <=> StopsUnderMu(t, j)
  BY <1>1 DEF ToSettle, ToStop, ToBoot, ToPause, Agrees, StopsUnderMu
<1>4. \A t \in Proc : StackOf(t, pc'[t], then'[t])
  BY <1>1 DEF SerialInv
<1>5. \A t \in Proc : Relies(t)'
  BY <1>1, <1>3 DEF SerialInv, Relies
<1>6. ASSUME NEW j \in Job
      PROVE  Agrees(j)' \/ \E t \in Proc : ToSettle(t, j)'
  <2>1. Agrees(j) \/ \E t \in Proc : ToSettle(t, j)
    BY DEF SerialInv
  <2>2. CASE Agrees(j)
    <3>1. Agrees(j)'
      BY <1>1, <2>2 DEF Agrees
    <3> QED
      BY <3>1
  <2>3. ASSUME NEW t \in Proc, ToSettle(t, j)
        PROVE  ToSettle(t, j)'
    BY <1>3, <2>3
  <2> QED
    BY <2>1, <2>2, <2>3
<1> QED
  BY <1>2, <1>4, <1>5, <1>6 DEF SerialInv

(* A program that starts again has all its jobs to settle.                 *)
LEMMA CrashSerial ==
  ASSUME OneAtATime, IInv, SerialInv, Crash
  PROVE  SerialInv'
<1>1. PICK b : Booter = {b}
  BY DEF OneAtATime
<1>2. /\ \A j \in Job : kafMirrors'[j] = None
      /\ \A t \in Proc : /\ pc'[t] = IF t = b THEN "list" ELSE "idle"
                         /\ then'[t] = <<>> /\ loc'[t] = NoLocal
      /\ UNCHANGED <<db, panics, dbFails>>
  BY <1>1 DEF Crash
<1>3. b \in Proc
  BY <1>1 DEF Proc
<1>4. \A t \in Proc, j \in Job : ToSettle(t, j)' <=> t = b
  BY <1>1, <1>2 DEF ToSettle, ToStop, ToBoot, ToPause, Stopping, Starting
<1>5. \A t \in Proc, j \in Job : ToBoot(t, j)' => pc'[t] = "list"
  BY <1>1, <1>2 DEF ToBoot, Starting
<1>6. ASSUME NEW t \in Proc
      PROVE  StackOf(t, pc'[t], then'[t]) /\ Relies(t)'
  <2>1. StackOf(t, pc'[t], then'[t])
    BY <1>1, <1>2
    DEF StackOf, ThreadStack, BooterStack, WatcherStack, Outermost, Proc
  <2>2. Relies(t)'
    BY <1>2, <1>5, NoLocalIs DEF Relies, Starting
  <2> QED
    BY <2>1, <2>2
<1>7. OneBusy'
  BY <1>2 DEF OneBusy
<1>9. \A j \in Job : \E t \in Proc : ToSettle(t, j)'
  BY <1>3, <1>4
<1> QED
  BY <1>2, <1>6, <1>7, <1>9 DEF SerialInv

LEMMA NextSerial ==
  ASSUME OneAtATime, IInv, IInv', SerialInv, [Next]_vars
  PROVE  SerialInv'
<1>1. ASSUME NEW t \in Thread, BeginHalt(t)
      PROVE  SerialInv'
  BY <1>1, HaltSerial DEF Proc
<1>2. ASSUME NEW t \in Thread, NEW r \in Requests, NEW j \in Job, Begin(t, r, j)
      PROVE  SerialInv'
  BY <1>2, BeginSerial
<1>3. ASSUME NEW t \in Proc, Step(t)
      PROVE  SerialInv'
  BY <1>3, StepSerial
<1>4. ASSUME NEW t \in Proc, Tick(t)
      PROVE  SerialInv'
  BY <1>4, HaltSerial
<1>5. ASSUME NEW m \in Mirror, Panic(m)
      PROVE  SerialInv'
  BY <1>5 DEF Panic, OneAtATime, SerialInv
<1>6. CASE Resume \/ Trip
  BY <1>6, StillSerial DEF Resume, Trip, managerVars, countVars
<1>7. CASE Crash
  BY <1>7, CrashSerial
<1>8. CASE UNCHANGED vars
  BY <1>8, StillSerial DEF vars, managerVars, guardVars, countVars
<1> QED
  BY <1>1, <1>2, <1>3, <1>4, <1>5, <1>6, <1>7, <1>8 DEF Next

LEMMA InitSerial == Init => SerialInv
<1> SUFFICES ASSUME Init PROVE SerialInv
  OBVIOUS
<1>1. \A t \in Proc : pc[t] = "idle" /\ then[t] = <<>> /\ loc[t] = NoLocal
  BY DEF Init
<1>2. \A t \in Proc, j \in Job : ~ToSettle(t, j) /\ ~ToBoot(t, j)
  BY <1>1 DEF ToSettle, ToStop, ToBoot, ToPause, Stopping, Starting
<1>3. \A t \in Proc : StackOf(t, pc[t], then[t])
  BY <1>1
  DEF StackOf, ThreadStack, BooterStack, WatcherStack, Outermost, Proc
<1>4. \A t \in Proc : Relies(t)
  BY <1>1, <1>2, NoLocalIs DEF Relies, Starting
<1>5. \A j \in Job : Agrees(j)
  BY DEF Init, Agrees
<1>6. OneBusy /\ dbFails = 0 /\ panics = 0
  BY <1>1 DEF Init, OneBusy
<1> QED
  BY <1>3, <1>4, <1>5, <1>6 DEF SerialInv

LEMMA SerialHolds == OneAtATime /\ Spec => [](IInv /\ SerialInv)
<1>1. OneAtATime /\ IInv /\ SerialInv /\ [Next]_vars => (IInv /\ SerialInv)'
  BY NextIInv, NextSerial
<1>2. Init => IInv /\ SerialInv
  BY InitIInv, InitSerial
<1>3. CASE OneAtATime
  BY <1>1, <1>2, <1>3, PTL DEF Spec
<1> QED
  BY <1>3

(* One request at a time, on a database that works and with mirrors that   *)
(* do not panic, whatever the number of jobs and mirrors and however often *)
(* the program crashes: whenever nothing is going on, the row of a job     *)
(* says active exactly if its mirror is in the map (manager.go: StartJob,  *)
(* StopJob, HaltRunningJobs, SyncJobStates and reconcileAndStartJobs, of   *)
(* which each writes the row after it has changed the map).                *)
THEOREM RowsAreTrue == OneAtATime => (Spec => []StatusAgrees)
<1>1. SerialInv => StatusAgrees
  BY DEF SerialInv, StatusAgrees, Quiescent, Agrees, ToSettle, ToStop, ToBoot,
         ToPause, Stopping, Starting
<1> QED
  BY <1>1, SerialHolds, PTL

(* Goroutines as above, and those that throttle, undo a start or panic.    *)
MoreStack(t, phase, s) ==
  \/ /\ t \in Thread
     /\ \/ phase \in {"throttle", "apply", "relaunch"} /\ s = <<>>
        \/ phase = "wait" /\ s = <<"relaunch">> \o <<>>
  \/ /\ t \in Thread \cup Booter
     /\ \E r \in AfterStart :
          /\ t \in Booter <=> r = <<"bootSave", "startEach">>
          /\ \/ phase = "undo" /\ s = r
             \/ phase = "wait" /\ s = <<"undo">> \o r
  \/ /\ t \in Mirror
     /\ \/ phase \in {"panic", "next", "read", "write"} /\ s = <<>>
        \/ phase = "wait" /\ s = <<"read">> \o <<>>

Stacks == \A t \in Proc : StackOf(t, pc[t], then[t]) \/ MoreStack(t, pc[t], then[t])

(* One goroutine is at work, not counting mirrors that panic.              *)
OneRequest ==
  \A t, u \in Proc \ Mirror : pc[t] # "idle" /\ pc[u] # "idle" => t = u

(* Nobody but who carries out a halt holds jobs back, and what anybody is  *)
(* to start or to mark active is not held back.                            *)
HaltRelies(t) ==
  /\ loc[t].mark # "active"
  /\ t \in Mirror \cup Booter => loc[t].mark # "halted"
  /\ t \in Booter /\ pc[t] # "idle" => loc[t].todo \cap heldBack = {}
  /\ t \in Booter /\ pc[t] \in Starting => loc[t].job \notin heldBack
  /\ pc[t] = "restartSave" /\ loc[t].ok = TRUE => loc[t].job \notin heldBack
  /\ pc[t] = "updateSave" /\ loc[t].list[loc[t].job] = "active" =>
       loc[t].job \notin heldBack

HaltInv ==
  Stacks /\ OneRequest /\ (\A t \in Proc : HaltRelies(t)) /\ HaltedStayPaused

(* Requests are made one at a time; a program that starts reconciles once. *)
OneByOne == Overlap = FALSE /\ \A a, b \in Booter : a = b

-----------------------------------------------------------------------------
(* Where a goroutine is when it returns.                                   *)
LEMMA ReturnLands ==
  ASSUME ControlOK, Stacks, NEW t \in Proc, pc[t] \notin {"idle", "wait"}, NEW l,
         Return(t, l)
  PROVE  /\ Others(t)
         /\ StackOf(t, pc'[t], then'[t]) \/ MoreStack(t, pc'[t], then'[t])
         /\ loc'[t] = l \/ (pc'[t] = "idle" /\ loc'[t] = NoLocal)
         /\ pc'[t] \in {"idle", "delete", "preflight", "start", "restartSave",
                        "stopEach", "bootSave", "startEach"}
         /\ pc'[t] = "restartSave" => pc[t] \in Starting \cup {"undo"}
         /\ pc'[t] = "bootSave" => t \in Booter
         /\ t \in Booter => pc'[t] \in {"idle", "startEach", "bootSave"}
<1>1. StackOf(t, pc[t], then[t]) \/ MoreStack(t, pc[t], then[t])
  BY DEF Stacks
<1>2. CASE then[t] = <<>>
  <2>1. /\ Others(t) /\ pc'[t] = "idle" /\ then'[t] = <<>> /\ loc'[t] = NoLocal
    BY <1>2, ReturnIs
  <2> QED
    BY <1>1, <2>1 DEF StackOf, ThreadStack, BooterStack, WatcherStack, MoreStack,
                      Outermost
<1>3. CASE t \in Thread /\ then[t] # <<>>
  <2>1. t \notin Booter
    BY <1>3, ManagerAssumption
  <2>2. \/ /\ pc[t] \in Starting \cup {"undo"}
           /\ then[t] \in {<<"restartSave">>, <<"startEach">>}
        \/ /\ pc[t] \in {"stop", "force", "notRunning", "next", "read", "write"}
           /\ then[t] \in AfterStop
    BY <1>1, <1>3, <2>1, ManagerAssumption
    DEF StackOf, ThreadStack, MoreStack, AfterStart, Outermost
  <2>3. CASE then[t] \in {<<"restartSave">>, <<"startEach">>}
    <3>1. /\ Others(t) /\ then'[t] = <<>> /\ loc'[t] = l
          /\ pc'[t] \in {"restartSave", "startEach"}
      BY <2>3, ReturnIs
    <3> QED
      BY <1>3, <2>1, <2>2, <2>3, <3>1
      DEF StackOf, ThreadStack, Outermost, AfterStop, Starting
  <2>4. CASE then[t] = <<"start", "restartSave">>
    <3>1. /\ Others(t) /\ then'[t] = <<"restartSave">> /\ loc'[t] = l
          /\ pc'[t] = "start"
      BY <2>4, ReturnIs
    <3> QED
      BY <1>3, <2>1, <3>1 DEF StackOf, ThreadStack, Starting
  <2>5. CASE then[t] \in {<<"delete">>, <<"stopEach">>, <<"preflight">>}
    <3>1. /\ Others(t) /\ then'[t] = <<>> /\ loc'[t] = l
          /\ pc'[t] \in {"delete", "stopEach", "preflight"}
      BY <2>5, ReturnIs
    <3> QED
      BY <1>3, <2>1, <3>1 DEF StackOf, ThreadStack, Outermost
  <2> QED
    BY <1>3, <2>2, <2>3, <2>4, <2>5 DEF AfterStop
<1>4. CASE t \in Booter /\ then[t] # <<>>
  <2>1. t \notin Thread /\ t \notin Watcher /\ t \notin Mirror
    BY <1>4, ManagerAssumption
  <2>2. \/ then[t] = <<"bootSave", "startEach">>
        \/ pc[t] = "bootSave" /\ then[t] = <<"startEach">>
    BY <1>1, <1>4, <2>1 DEF StackOf, BooterStack, MoreStack
  <2>3. CASE then[t] = <<"bootSave", "startEach">>
    <3>1. /\ Others(t) /\ then'[t] = <<"startEach">> /\ loc'[t] = l
          /\ pc'[t] = "bootSave"
      BY <2>3, ReturnIs
    <3> QED
      BY <1>4, <3>1 DEF StackOf, BooterStack
  <2>4. CASE then[t] = <<"startEach">>
    <3>1. /\ Others(t) /\ then'[t] = <<>> /\ loc'[t] = l
          /\ pc'[t] = "startEach"
      BY <2>4, ReturnIs
    <3> QED
      BY <1>4, <3>1 DEF StackOf, BooterStack
  <2> QED
    BY <2>2, <2>3, <2>4
<1>5. CASE t \notin Thread \cup Booter
  BY <1>1, <1>2, <1>5 DEF StackOf, WatcherStack, MoreStack
<1> QED
  BY <1>2, <1>3, <1>4, <1>5

(* ... and when it has waited for a mirror.                                *)
LEMMA WaitLands ==
  ASSUME ControlOK, Stacks, NEW t \in Proc, pc[t] = "wait", NEW l, Return(t, l)
  PROVE  /\ Others(t) /\ loc'[t] = l
         /\ StackOf(t, pc'[t], then'[t]) \/ MoreStack(t, pc'[t], then'[t])
         /\ pc'[t] \in {"read", "undo", "relaunch"}
         /\ t \in Booter => pc'[t] = "undo"
<1>1. StackOf(t, "wait", then[t]) \/ MoreStack(t, "wait", then[t])
  BY DEF Stacks
<1>2. PICK h \in {"read", "undo", "relaunch"}, r \in AfterStop \cup AfterStart :
        /\ then[t] = <<h>> \o r
        /\ h = "read" => \/ t \in Thread /\ r \in AfterStop
                         \/ t \in Watcher \cup Mirror /\ r = <<>>
        /\ h = "relaunch" => t \in Thread /\ r = <<>>
        /\ h = "undo" => /\ t \in Thread \cup Booter /\ r \in AfterStart
                         /\ t \in Booter <=> r = <<"bootSave", "startEach">>
  <2>1. <<>> \in AfterStop
    BY DEF AfterStop
  <2>2. CASE StackOf(t, "wait", then[t])
    BY <2>1, <2>2 DEF StackOf, ThreadStack, BooterStack, WatcherStack, Outermost,
                      Starting
  <2>3. CASE MoreStack(t, "wait", then[t])
    BY <2>1, <2>3 DEF MoreStack
  <2> QED
    BY <1>1, <2>2, <2>3
<1>3. /\ Others(t) /\ pc'[t] = h /\ then'[t] = r /\ loc'[t] = l
  BY <1>2, WokenTo
<1>4. StackOf(t, h, r) \/ MoreStack(t, h, r)
  BY <1>2, ManagerAssumption
  DEF StackOf, ThreadStack, WatcherStack, MoreStack, AfterStop
<1>5. t \in Booter => h = "undo"
  BY <1>2, ManagerAssumption
<1> QED
  BY <1>3, <1>4, <1>5

-----------------------------------------------------------------------------
(* A step of one goroutine, by what it does for itself.                    *)
LEMMA HaltKeeps ==
  ASSUME HaltInv, NEW t \in Proc, pc[t] # "idle" \/ t \in Mirror \/ Quiescent,
         Others(t), HaltRelies(t)', HaltedStayPaused',
         StackOf(t, pc'[t], then'[t]) \/ MoreStack(t, pc'[t], then'[t]),
         heldBack' \subseteq heldBack \/ t \notin Mirror
  PROVE  HaltInv'
<1>1. ASSUME NEW u \in Proc, u # t
      PROVE  pc'[u] = pc[u] /\ then'[u] = then[u] /\ loc'[u] = loc[u]
  BY <1>1 DEF Others
<1>2. ASSUME NEW u \in Proc \ Mirror, u # t, t \notin Mirror
      PROVE  pc[u] = "idle"
  BY <1>2 DEF HaltInv, OneRequest, Quiescent
<1>3. Stacks'
  BY <1>1 DEF HaltInv, Stacks
<1>4. OneRequest'
  <2>1. CASE t \in Mirror
    BY <1>1, <2>1 DEF HaltInv, OneRequest
  <2>2. CASE t \notin Mirror
    BY <1>1, <1>2, <2>2 DEF OneRequest
  <2> QED
    BY <2>1, <2>2
<1>5. ASSUME NEW u \in Proc, u # t
      PROVE  HaltRelies(u)'
  <2>1. HaltRelies(u) /\ pc'[u] = pc[u] /\ loc'[u] = loc[u]
    BY <1>1, <1>5 DEF HaltInv
  <2>2. CASE pc[u] = "idle"
    BY <2>1, <2>2 DEF HaltRelies, Starting
  <2>3. CASE heldBack' \subseteq heldBack
    BY <2>1, <2>3 DEF HaltRelies
  <2>4. CASE u \in Mirror
    <3>1. pc[u] \notin {"restartSave", "updateSave"} /\ u \notin Booter
      BY <2>4, ManagerAssumption
      DEF HaltInv, Stacks, StackOf, MoreStack
    <3> QED
      BY <2>1, <3>1 DEF HaltRelies
  <2> QED
    BY <1>2, <1>5, <2>2, <2>3, <2>4
<1> QED
  BY <1>3, <1>4, <1>5 DEF HaltInv

(* Jobs are taken out of the map, or others than those held back are put   *)
(* in it or marked active.                                                 *)
LEMMA StillPaused ==
  ASSUME IInv, HaltInv, heldBack' \subseteq heldBack,
         \A j \in Job : \/ j \notin heldBack'
                        \/ /\ kafMirrors'[j] = kafMirrors[j] \/ kafMirrors'[j] = None
                           /\ db'[j] = db[j] \/ db'[j] # "active"
  PROVE  HaltedStayPaused'
<1>1. heldBack \subseteq Job
  BY DEF IInv, TypeOK
<1> QED
  BY <1>1 DEF HaltInv, HaltedStayPaused

(* A Goto or a Call.                                                       *)
LEMMA MoveHalt ==
  ASSUME HaltInv, NEW t \in Proc, pc[t] # "idle" \/ t \in Mirror \/ Quiescent,
         Others(t),
         StackOf(t, pc'[t], then'[t]) \/ MoreStack(t, pc'[t], then'[t]),
         pc'[t] \notin {"restartSave", "updateSave"},
         loc'[t].mark # "active",
         t \in Mirror \cup Booter => loc'[t].mark # "halted",
         t \in Booter => /\ loc'[t].todo \cap heldBack = {}
                         /\ pc'[t] \in Starting => loc'[t].job \notin heldBack,
         heldBack' \subseteq heldBack \/ t \notin Mirror \cup Booter,
         HaltedStayPaused'
  PROVE  HaltInv'
<1>1. HaltRelies(t)'
  BY DEF HaltRelies
<1> QED
  BY <1>1, HaltKeeps

(* A Return.                                                               *)
LEMMA ReturnHalt ==
  ASSUME IInv, HaltInv, NEW t \in Proc, pc[t] \notin {"idle", "wait"}, NEW l,
         Return(t, l), l.mark = loc[t].mark, l.todo = loc[t].todo,
         pc[t] \in Starting \cup {"undo"} /\ l.ok = TRUE => l.job \notin heldBack',
         heldBack' \subseteq heldBack, HaltedStayPaused'
  PROVE  HaltInv'
<1>0. ControlOK /\ Stacks /\ HaltRelies(t)
  BY DEF IInv, TypeOK, ControlOK, HaltInv
<1>1. /\ Others(t)
      /\ StackOf(t, pc'[t], then'[t]) \/ MoreStack(t, pc'[t], then'[t])
      /\ loc'[t] = l \/ (pc'[t] = "idle" /\ loc'[t] = NoLocal)
      /\ pc'[t] \in {"idle", "delete", "preflight", "start", "restartSave",
                     "stopEach", "bootSave", "startEach"}
      /\ pc'[t] = "restartSave" => pc[t] \in Starting \cup {"undo"}
      /\ t \in Booter => pc'[t] \in {"idle", "startEach", "bootSave"}
  BY <1>0, ReturnLands
<1>2. HaltRelies(t)'
  <2>1. CASE loc'[t] = l
    BY <1>0, <1>1, <2>1 DEF HaltRelies, Starting
  <2>2. CASE pc'[t] = "idle" /\ loc'[t] = NoLocal
    BY <2>2, NoLocalIs DEF HaltRelies, Starting
  <2> QED
    BY <1>1, <2>1, <2>2
<1> QED
  BY <1>1, <1>2, HaltKeeps

LEMMA HaltFacts ==
  ASSUME IInv, HaltInv, NEW t \in Proc
  PROVE  /\ ControlOK /\ loc[t] \in Local
         /\ StackOf(t, pc[t], then[t]) \/ MoreStack(t, pc[t], then[t])
         /\ HaltRelies(t)
         /\ None \notin Job /\ None \notin Proc /\ None \notin Mirror
         /\ None # "active"
         /\ kafMirrors \in [Job -> Mirror \cup {None}]
         /\ db \in [Job -> Status \cup {None}] /\ heldBack \subseteq Job
         /\ pc[t] \notin {"idle", "halt", "next", "list", "startEach"} =>
              loc[t].job \in Job
<1>1. ControlOK /\ loc[t] \in Local
  BY DEF IInv, TypeOK, ControlOK
<1>2. None \notin Job /\ None \notin Proc /\ None \notin Mirror /\ None # "active"
  BY ManagerAssumption DEF Proc, Status
<1>3. pc[t] \notin {"idle", "halt", "next", "list", "startEach"} =>
        loc[t].job \in Job
  BY <1>1 DEF ControlOK, JobInv, Local
<1> QED
  BY <1>1, <1>2, <1>3 DEF IInv, TypeOK, HaltInv, Stacks

-----------------------------------------------------------------------------
(* StartJob.                                                               *)
LEMMA StartHalt ==
  ASSUME IInv, HaltInv, NEW t \in Proc, Start(t) \/ Guard(t) \/ Undo(t)
  PROVE  HaltInv'
<1>0. /\ ControlOK /\ loc[t] \in Local /\ HaltRelies(t)
      /\ StackOf(t, pc[t], then[t]) \/ MoreStack(t, pc[t], then[t])
  BY HaltFacts
<1>1. /\ pc[t] \in {"start", "guard", "undo"} /\ UNCHANGED <<db, heldBack>>
      /\ \A j \in Job : kafMirrors'[j] = kafMirrors[j] \/ kafMirrors'[j] = None
      /\ \/ Return(t, [loc[t] EXCEPT !.ok = FALSE])
         \/ Return(t, [loc[t] EXCEPT !.ok = FALSE, !.mir = None])
         \/ pc[t] # "undo" /\ \E phase \in {"guard", "launch"} :
                                Goto(t, phase, loc[t])
  BY HaltFacts DEF Start, Guard, Undo, guardVars
<1>2. HaltedStayPaused'
  BY <1>1, StillPaused
<1>3. ASSUME NEW l, Return(t, l), l.mark = loc[t].mark, l.todo = loc[t].todo,
             l.ok = FALSE
      PROVE  HaltInv'
  BY <1>1, <1>2, <1>3, ReturnHalt
<1>4. CASE Return(t, [loc[t] EXCEPT !.ok = FALSE])
  <2> DEFINE l == [loc[t] EXCEPT !.ok = FALSE]
  <2>1. l.mark = loc[t].mark /\ l.todo = loc[t].todo /\ l.ok = FALSE
    BY <1>0 DEF Local
  <2>2. Return(t, l)
    BY <1>4
  <2> HIDE DEF l
  <2> QED
    BY <1>3, <2>1, <2>2
<1>5. CASE Return(t, [loc[t] EXCEPT !.ok = FALSE, !.mir = None])
  <2> DEFINE l == [loc[t] EXCEPT !.ok = FALSE, !.mir = None]
  <2>1. l.mark = loc[t].mark /\ l.todo = loc[t].todo /\ l.ok = FALSE
    BY <1>0 DEF Local
  <2>2. Return(t, l)
    BY <1>5
  <2> HIDE DEF l
  <2> QED
    BY <1>3, <2>1, <2>2
<1>6. ASSUME NEW phase \in {"guard", "launch"}, Goto(t, phase, loc[t]),
             pc[t] # "undo"
      PROVE  HaltInv'
  <2>1. Others(t) /\ pc'[t] = phase /\ then'[t] = then[t] /\ loc'[t] = loc[t]
    BY <1>0, <1>6, Goes
  <2>2. StackOf(t, phase, then[t])
    BY <1>0, <1>1, <1>6
    DEF StackOf, ThreadStack, BooterStack, WatcherStack, MoreStack, Outermost,
        Starting
  <2>3. /\ pc'[t] \notin {"restartSave", "updateSave"} /\ pc[t] # "idle"
        /\ loc'[t].mark # "active" /\ heldBack' \subseteq heldBack
        /\ t \in Mirror \cup Booter => loc'[t].mark # "halted"
    BY <1>0, <1>1, <1>6, <2>1 DEF HaltRelies
  <2>4. t \in Booter => loc'[t].todo \cap heldBack = {} /\ loc'[t].job \notin heldBack
    BY <1>0, <1>1, <1>6, <2>1 DEF HaltRelies, Starting
  <2> QED
    BY <1>2, <2>1, <2>2, <2>3, <2>4, MoveHalt
<1> QED
  BY <1>1, <1>4, <1>5, <1>6

LEMMA LaunchHalt ==
  ASSUME IInv, HaltInv, NEW t \in Proc, Launch(t)
  PROVE  HaltInv'
<1>0. /\ ControlOK /\ loc[t] \in Local /\ HaltRelies(t) /\ loc[t].job \in Job
      /\ StackOf(t, pc[t], then[t]) \/ MoreStack(t, pc[t], then[t])
      /\ kafMirrors \in [Job -> Mirror \cup {None}]
      /\ db \in [Job -> Status \cup {None}] /\ heldBack \subseteq Job
      /\ pc[t] = "launch"
  BY HaltFacts DEF Launch
<1> DEFINE j == loc[t].job
           l(b) == [loc[t] EXCEPT !.ok = b]
           w(m) == [loc[t] EXCEPT !.mir = m]
<1>1. /\ \A b : /\ l(b).mark = loc[t].mark /\ l(b).todo = loc[t].todo
                /\ l(b).job = j
      /\ \A m : /\ w(m).mark = loc[t].mark /\ w(m).todo = loc[t].todo
      /\ l(FALSE).ok = FALSE
  BY <1>0 DEF Local
<1>2. CASE Return(t, l(FALSE)) /\ UNCHANGED <<kafMirrors, db, heldBack>>
  <2>1. HaltedStayPaused'
    BY <1>2, StillPaused
  <2> HIDE DEF l
  <2> QED
    BY <1>0, <1>1, <1>2, <2>1, ReturnHalt
<1>3. ASSUME NEW m \in Mirror, kafMirrors' = [kafMirrors EXCEPT ![j] = m],
             StartedBy(t, j), db' = db \/ db' = Saved(j, "active"),
             Return(t, l(TRUE)) \/ Call(t, "wait", <<"undo">>, w(m))
      PROVE  HaltInv'
  <2>1. /\ t \in Thread \cup Booter
        /\ then[t] \in AfterStart
        /\ t \in Booter <=> then[t] = <<"bootSave", "startEach">>
    <3>1. StackOf(t, "launch", then[t])
      BY <1>0 DEF MoreStack
    <3>2. CASE t \in Thread
      <4>1. t \notin Booter /\ ThreadStack("launch", then[t])
        BY <3>1, <3>2, Kinds
      <4>2. then[t] \in {<<>>, <<"restartSave">>, <<"startEach">>}
        BY <4>1 DEF ThreadStack, Outermost
      <4>3. then[t] # <<"bootSave", "startEach">>
        BY <4>2
      <4> QED
        BY <3>2, <4>1, <4>2, <4>3 DEF AfterStart
    <3>3. CASE t \in Booter
      <4>1. BooterStack("launch", then[t])
        BY <3>1, <3>3, Kinds
      <4>2. then[t] = <<"bootSave", "startEach">>
        BY <4>1 DEF BooterStack, Starting
      <4> QED
        BY <3>3, <4>2 DEF AfterStart
    <3>4. CASE t \notin Thread \cup Booter
      BY <3>1, <3>4 DEF StackOf, WatcherStack
    <3> QED
      BY <3>2, <3>3, <3>4
  <2>2. j \notin heldBack' /\ heldBack' \subseteq heldBack
    BY <1>0, <1>3, <2>1 DEF StartedBy, HaltRelies, Starting
  <2>3. \A i \in Job : i # j => kafMirrors'[i] = kafMirrors[i] /\ db'[i] = db[i]
    BY <1>0, <1>3 DEF Saved
  <2>4. HaltedStayPaused'
    BY <2>2, <2>3, StillPaused
  <2> HIDE DEF l, w
  <2>5. CASE Return(t, l(TRUE))
    BY <1>0, <1>1, <2>2, <2>4, <2>5, ReturnHalt
  <2>6. CASE Call(t, "wait", <<"undo">>, w(m))
    <3>1. /\ Others(t) /\ pc'[t] = "wait" /\ loc'[t] = w(m)
          /\ then'[t] = <<"undo">> \o then[t]
      BY <1>0, <2>6, CallIs
    <3>2. MoreStack(t, pc'[t], then'[t])
      BY <2>1, <3>1 DEF MoreStack
    <3> QED
      BY <1>0, <1>1, <2>2, <2>4, <3>1, <3>2, MoveHalt DEF HaltRelies, Starting
  <2> QED
    BY <1>3, <2>5, <2>6
<1>4. \/ Return(t, l(FALSE)) /\ UNCHANGED <<kafMirrors, db, heldBack>>
      \/ \E m \in Mirror :
           /\ kafMirrors' = [kafMirrors EXCEPT ![j] = m] /\ StartedBy(t, j)
           /\ db' = db \/ db' = Saved(j, "active")
           /\ Return(t, l(TRUE)) \/ Call(t, "wait", <<"undo">>, w(m))
  BY DEF Launch, Create, Save
<1> QED
  BY <1>2, <1>3, <1>4

(* The wait for a mirror.                                                  *)
LEMMA WaitHalt ==
  ASSUME IInv, HaltInv, NEW t \in Proc, Wait(t)
  PROVE  HaltInv'
<1>0. ControlOK /\ HaltRelies(t) /\ Stacks
  BY HaltFacts DEF HaltInv
<1>1. /\ pc[t] = "wait" /\ Return(t, loc[t])
      /\ UNCHANGED <<kafMirrors, db, heldBack>>
  BY DEF Wait, managerVars, guardVars
<1>2. HaltedStayPaused'
  BY <1>1, StillPaused
<1>3. /\ Others(t) /\ loc'[t] = loc[t]
      /\ StackOf(t, pc'[t], then'[t]) \/ MoreStack(t, pc'[t], then'[t])
      /\ pc'[t] \in {"read", "undo", "relaunch"}
  BY <1>0, <1>1, WaitLands
<1> QED
  BY <1>0, <1>1, <1>2, <1>3, MoveHalt DEF HaltRelies, Starting
-----------------------------------------------------------------------------
(* The throttling restarts a mirror that is in the map under Mu, whose job *)
(* is therefore not held back.                                             *)
LEMMA ThrottleHalt ==
  ASSUME IInv, HaltInv, NEW t \in Proc, Throttle(t) \/ Apply(t) \/ Relaunch(t)
  PROVE  HaltInv'
<1>0. /\ ControlOK /\ loc[t] \in Local /\ HaltRelies(t) /\ loc[t].job \in Job
      /\ StackOf(t, pc[t], then[t]) \/ MoreStack(t, pc[t], then[t])
      /\ kafMirrors \in [Job -> Mirror \cup {None}] /\ None \notin Mirror
      /\ db \in [Job -> Status \cup {None}] /\ heldBack \subseteq Job
      /\ pc[t] \in {"throttle", "apply", "relaunch"} /\ heldBack' = heldBack
  BY HaltFacts DEF Throttle, Apply, Relaunch, guardVars
<1> DEFINE j == loc[t].job
<1>1. t \in Thread /\ t \notin Booter /\ then[t] = <<>>
  BY <1>0, ManagerAssumption
  DEF StackOf, ThreadStack, BooterStack, WatcherStack, MoreStack, Outermost,
      Starting
(* What is saved, and put in the map, is of a job that is in the map.      *)
<1>2. \/ UNCHANGED <<kafMirrors, db>>
      \/ /\ \A i \in Job : i # j => kafMirrors'[i] = kafMirrors[i] /\ db'[i] = db[i]
         /\ kafMirrors[j] # None
  <2>1. CASE Throttle(t)
    BY <2>1 DEF Throttle, managerVars
  <2>2. CASE Apply(t)
    BY <1>0, <2>2 DEF Apply, Save, Saved
  <2>3. CASE Relaunch(t)
    <3>1. mu = t
      BY <2>3 DEF Relaunch, IInv, LockInv, Within
    <3>2. kafMirrors[j] # None
      BY <1>0, <2>3, <3>1 DEF Relaunch, IInv, MirrorInv, WaitInv
    <3> QED
      BY <1>0, <2>3, <3>2 DEF Relaunch, Create, Save, Saved
  <2> QED
    BY <2>1, <2>2, <2>3
<1>3. HaltedStayPaused'
  <2>1. kafMirrors[j] # None => j \notin heldBack
    BY DEF HaltInv, HaltedStayPaused
  <2> QED
    BY <1>0, <1>2, <2>1, StillPaused
<1>4. CASE Return(t, loc[t])
  BY <1>0, <1>3, <1>4, ReturnHalt DEF Starting
<1>5. CASE Throttle(t) /\ ~Return(t, loc[t])
  <2> DEFINE l == [loc[t] EXCEPT !.list[j] = db[j]]
  <2>1. l.mark = loc[t].mark
    BY <1>0 DEF Local
  <2>2. Goto(t, "apply", l)
    BY <1>5 DEF Throttle
  <2> HIDE DEF l
  <2>3. Others(t) /\ pc'[t] = "apply" /\ then'[t] = <<>> /\ loc'[t] = l
    BY <1>0, <1>1, <2>2, Goes
  <2>4. MoreStack(t, pc'[t], then'[t])
    BY <1>1, <2>3 DEF MoreStack
  <2> QED
    BY <1>0, <1>1, <1>3, <2>1, <2>3, <2>4, MoveHalt, ManagerAssumption
    DEF HaltRelies
<1>6. CASE Apply(t) /\ ~Return(t, loc[t])
  <2> DEFINE l == [loc[t] EXCEPT !.mir = kafMirrors[j]]
  <2>1. l.mark = loc[t].mark
    BY <1>0 DEF Local
  <2>2. Call(t, "wait", <<"relaunch">>, l)
    BY <1>6 DEF Apply
  <2> HIDE DEF l
  <2>3. /\ Others(t) /\ pc'[t] = "wait" /\ loc'[t] = l
        /\ then'[t] = <<"relaunch">> \o <<>>
    BY <1>0, <1>1, <2>2, CallIs
  <2>4. MoreStack(t, pc'[t], then'[t])
    BY <1>1, <2>3 DEF MoreStack
  <2> QED
    BY <1>0, <1>1, <1>3, <2>1, <2>3, <2>4, MoveHalt, ManagerAssumption
    DEF HaltRelies
<1> QED
  BY <1>4, <1>5, <1>6 DEF Relaunch, Throttle, Apply

-----------------------------------------------------------------------------
(* Whoever stops mirrors, and where it can go on.                          *)
LEMMA StopperStacks ==
  ASSUME Stacks, NEW t \in Proc,
         pc[t] \in {"stop", "force", "panic", "notRunning", "halt", "stopAll",
                    "next", "read", "write"}
  PROVE  /\ t \notin Booter
         /\ pc[t] = "halt" => t \notin Mirror
         /\ \A p \in {"next", "read", "write"} :
              StackOf(t, p, then[t]) \/ MoreStack(t, p, then[t])
         /\ pc[t] = "stop" => StackOf(t, "notRunning", then[t])
         /\ pc[t] = "next" =>
              \/ StackOf(t, "wait", <<"read">> \o then[t])
              \/ MoreStack(t, "wait", <<"read">> \o then[t])
<1>0. StackOf(t, pc[t], then[t]) \/ MoreStack(t, pc[t], then[t])
  BY DEF Stacks
<1>1. CASE t \in Thread
  <2>1. t \notin Booter /\ t \notin Mirror /\ ThreadStack(pc[t], then[t])
    BY <1>0, <1>1, ManagerAssumption DEF StackOf, MoreStack
  <2>2. then[t] \in AfterStop
    BY <2>1 DEF ThreadStack, Outermost, Starting, AfterStop
  <2> QED
    BY <1>1, <2>1, <2>2 DEF StackOf, ThreadStack
<1>2. CASE t \in Watcher
  <2>1. t \notin Booter /\ t \notin Mirror /\ WatcherStack(pc[t], then[t])
    BY <1>0, <1>2, ManagerAssumption DEF StackOf, MoreStack
  <2> QED
    BY <1>2, <2>1 DEF StackOf, WatcherStack
<1>3. CASE t \in Mirror
  <2>1. t \notin Booter /\ then[t] = <<>> /\ pc[t] \in {"panic", "next", "read", "write"}
    BY <1>0, <1>3, ManagerAssumption DEF StackOf, MoreStack
  <2> QED
    BY <1>3, <2>1 DEF MoreStack
<1>4. CASE t \notin Thread \cup Watcher \cup Mirror
  BY <1>0, <1>4 DEF StackOf, BooterStack, MoreStack, Starting
<1> QED
  BY <1>1, <1>2, <1>3, <1>4

(* StopJob, ForceRestartJob, handleJobPanic, HaltRunningJobs, StopAllJobs. *)
LEMMA TakeHalt ==
  ASSUME IInv, HaltInv, NEW t \in Proc,
         TakeOne(t) \/ NotRunning(t) \/ TakeAll(t) \/ StopAll(t)
  PROVE  HaltInv'
<1>0. /\ ControlOK /\ loc[t] \in Local /\ HaltRelies(t) /\ Stacks
      /\ kafMirrors \in [Job -> Mirror \cup {None}]
  BY HaltFacts DEF HaltInv
<1>1. /\ pc[t] \in {"stop", "force", "panic", "notRunning", "halt", "stopAll"}
      /\ UNCHANGED <<db, heldBack>>
      /\ \A j \in Job : kafMirrors'[j] = kafMirrors[j] \/ kafMirrors'[j] = None
  BY <1>0 DEF TakeOne, NotRunning, TakeAll, StopAll, managerVars, guardVars
<1>2. /\ t \notin Booter
      /\ pc[t] = "halt" => t \notin Mirror
      /\ \A p \in {"next", "write"} :
           StackOf(t, p, then[t]) \/ MoreStack(t, p, then[t])
      /\ pc[t] = "stop" => StackOf(t, "notRunning", then[t])
  BY <1>0, <1>1, StopperStacks
<1>3. HaltedStayPaused'
  BY <1>1, StillPaused
<1>4. ASSUME NEW phase \in {"next", "write", "notRunning"}, NEW l,
             Goto(t, phase, l), phase = "notRunning" => pc[t] = "stop",
             l.mark # "active", l.mark = "halted" => t \notin Mirror
      PROVE  HaltInv'
  <2>1. Others(t) /\ pc'[t] = phase /\ then'[t] = then[t] /\ loc'[t] = l
    BY <1>0, <1>4, Goes
  <2> QED
    BY <1>1, <1>2, <1>3, <1>4, <2>1, MoveHalt
<1>5. CASE TakeOne(t)
  <2> DEFINE j == loc[t].job
             l == [loc[t] EXCEPT
                     !.queue = {<<j, kafMirrors[j]>>},
                     !.mark = IF pc[t] = "panic" THEN "failed" ELSE "paused"]
  <2>1. l.mark \in {"failed", "paused"}
    BY <1>0 DEF Local
  <2>2. \/ pc[t] = "stop" /\ Goto(t, "notRunning", loc[t])
        \/ Goto(t, "next", l)
    BY <1>5 DEF TakeOne
  <2> HIDE DEF l
  <2>3. CASE Goto(t, "next", l)
    BY <1>4, <2>1, <2>3
  <2>4. CASE pc[t] = "stop" /\ Goto(t, "notRunning", loc[t])
    BY <1>0, <1>4, <2>4 DEF HaltRelies
  <2> QED
    BY <2>2, <2>3, <2>4
<1>6. CASE NotRunning(t)
  <2> DEFINE l == [loc[t] EXCEPT !.row = "active", !.mark = "paused"]
  <2>1. l.mark = "paused"
    BY <1>0 DEF Local
  <2>2. Goto(t, "write", l) \/ Return(t, loc[t])
    BY <1>6 DEF NotRunning
  <2> HIDE DEF l
  <2>3. CASE Goto(t, "write", l)
    BY <1>4, <2>1, <2>3
  <2>4. CASE Return(t, loc[t])
    BY <1>1, <1>3, <1>6, <2>4, ReturnHalt DEF NotRunning, Starting
  <2> QED
    BY <2>2, <2>3, <2>4
<1>7. CASE TakeAll(t)
  <2> DEFINE l == [loc[t] EXCEPT !.queue = AllMirrors, !.mark = "halted"]
  <2>1. l.mark = "halted"
    BY <1>0 DEF Local
  <2>2. Goto(t, "next", l) /\ pc[t] = "halt"
    BY <1>7 DEF TakeAll
  <2> HIDE DEF l
  <2> QED
    BY <1>2, <1>4, <2>1, <2>2
<1>8. CASE StopAll(t)
  <2> DEFINE l == [loc[t] EXCEPT !.queue = AllMirrors]
  <2>1. l.mark = loc[t].mark
    BY <1>0 DEF Local
  <2>2. Goto(t, "next", l)
    BY <1>8 DEF StopAll
  <2> HIDE DEF l
  <2> QED
    BY <1>0, <1>4, <2>1, <2>2 DEF HaltRelies
<1> QED
  BY <1>5, <1>6, <1>7, <1>8

LEMMA NextMirrorHalt ==
  ASSUME IInv, HaltInv, NEW t \in Proc, NextMirror(t) \/ Read(t)
  PROVE  HaltInv'
<1>0. /\ ControlOK /\ loc[t] \in Local /\ HaltRelies(t) /\ Stacks
      /\ kafMirrors \in [Job -> Mirror \cup {None}]
  BY HaltFacts DEF HaltInv
<1>1. /\ pc[t] \in {"next", "read"} /\ UNCHANGED <<db, heldBack>>
      /\ \A j \in Job : kafMirrors'[j] = kafMirrors[j] \/ kafMirrors'[j] = None
  BY <1>0 DEF NextMirror, Read, guardVars
<1>2. /\ t \notin Booter
      /\ \A p \in {"next", "read", "write"} :
           StackOf(t, p, then[t]) \/ MoreStack(t, p, then[t])
      /\ pc[t] = "next" =>
           \/ StackOf(t, "wait", <<"read">> \o then[t])
           \/ MoreStack(t, "wait", <<"read">> \o then[t])
  BY <1>0, <1>1, StopperStacks
<1>3. HaltedStayPaused'
  BY <1>1, StillPaused
<1>4. ASSUME NEW phase \in {"next", "read", "write"}, NEW l, Goto(t, phase, l),
             l.mark = loc[t].mark
      PROVE  HaltInv'
  <2>1. Others(t) /\ pc'[t] = phase /\ then'[t] = then[t] /\ loc'[t] = l
    BY <1>0, <1>4, Goes
  <2> QED
    BY <1>0, <1>1, <1>2, <1>3, <1>4, <2>1, MoveHalt DEF HaltRelies
<1>5. CASE Return(t, loc[t]) /\ pc[t] = "next"
  BY <1>1, <1>3, <1>5, ReturnHalt DEF Starting
<1>6. CASE NextMirror(t) /\ ~Return(t, loc[t])
  <2> DEFINE l(q) == [loc[t] EXCEPT !.job = q[1], !.mir = q[2], !.queue = @ \ {q}]
  <2>1. \A q : l(q).mark = loc[t].mark
    BY <1>0 DEF Local
  <2>2. PICK q : Goto(t, "read", l(q)) \/ Call(t, "wait", <<"read">>, l(q))
    BY <1>6 DEF NextMirror
  <2>3. pc[t] = "next"
    BY <1>6 DEF NextMirror
  <2> HIDE DEF l
  <2>4. CASE Goto(t, "read", l(q))
    BY <1>4, <2>1, <2>4
  <2>5. CASE Call(t, "wait", <<"read">>, l(q))
    <3>1. /\ Others(t) /\ pc'[t] = "wait" /\ loc'[t] = l(q)
          /\ then'[t] = <<"read">> \o then[t]
      BY <1>0, <2>5, CallIs
    <3> QED
      BY <1>0, <1>1, <1>2, <1>3, <2>1, <2>3, <3>1, MoveHalt DEF HaltRelies
  <2> QED
    BY <2>2, <2>4, <2>5
<1>7. CASE Read(t)
  <2> DEFINE j == loc[t].job
             l == [loc[t] EXCEPT !.row = db[j], !.ok = db[j] # None, !.mir = None]
  <2>1. l.mark = loc[t].mark
    BY <1>0 DEF Local
  <2>2. Goto(t, "next", l) \/ Goto(t, "write", l)
    BY <1>7 DEF Read
  <2> HIDE DEF l
  <2> QED
    BY <1>4, <2>1, <2>2
<1> QED
  BY <1>1, <1>5, <1>6, <1>7 DEF NextMirror

(* A halt writes what it has stopped as paused, and only then counts it as *)
(* held back; nobody writes what it has stopped as active.                 *)
LEMMA WriteHalt ==
  ASSUME IInv, HaltInv, NEW t \in Proc, Write(t)
  PROVE  HaltInv'
<1>0. /\ ControlOK /\ loc[t] \in Local /\ HaltRelies(t) /\ Stacks
      /\ loc[t].job \in Job /\ None # "active"
      /\ db \in [Job -> Status \cup {None}] /\ heldBack \subseteq Job
      /\ pc[t] = "write"
  BY HaltFacts DEF HaltInv, Write
<1> DEFINE j == loc[t].job
           byHalt == loc[t].mark = "halted"
           l(failing) == [loc[t] EXCEPT !.ok = ~failing, !.row = None]
<1>1. PICK failing \in BOOLEAN :
        /\ Save(j, IF byHalt THEN "paused" ELSE loc[t].mark, failing)
        /\ heldBack' = IF byHalt /\ ~failing /\ kafMirrors[j] = None
                       THEN heldBack \cup {j} ELSE heldBack
        /\ Goto(t, "next", l(failing))
  BY DEF Write
<1>2. l(failing).mark = loc[t].mark
  BY <1>0 DEF Local
<1> HIDE DEF l
<1>3. /\ kafMirrors' = kafMirrors
      /\ \A i \in Job : db'[i] = db[i] \/ db'[i] # "active"
      /\ ~failing => db'[j] # "active"
  BY <1>0, <1>1 DEF Write, managerVars, Save, Saved, HaltRelies
<1>4. HaltedStayPaused'
  BY <1>0, <1>1, <1>3 DEF HaltInv, HaltedStayPaused
<1>5. heldBack' \subseteq heldBack \/ t \notin Mirror \cup Booter
  BY <1>0, <1>1 DEF HaltRelies
<1>6. t \notin Booter /\ (StackOf(t, "next", then[t]) \/ MoreStack(t, "next", then[t]))
  BY <1>0, StopperStacks
<1>7. Others(t) /\ pc'[t] = "next" /\ then'[t] = then[t] /\ loc'[t] = l(failing)
  BY <1>0, <1>1, Goes
<1> QED
  BY <1>0, <1>2, <1>4, <1>5, <1>6, <1>7, MoveHalt DEF HaltRelies

-----------------------------------------------------------------------------
(* The operations that begin with nothing to return to.                    *)
LEMMA OuterStacks ==
  ASSUME Stacks, NEW t \in Proc, pc[t] \in Outermost \ {"idle", "halt"}
  PROVE  /\ then[t] = <<>> /\ t \notin Mirror
         /\ t \in Thread \/ (t \in Booter /\ pc[t] \in {"list", "startEach"})
         /\ t \in Thread => t \notin Booter
<1>0. StackOf(t, pc[t], then[t]) \/ MoreStack(t, pc[t], then[t])
  BY DEF Stacks
<1>1. StackOf(t, pc[t], then[t])
  BY <1>0 DEF MoreStack, Outermost
<1> QED
  BY <1>1, Kinds, ManagerAssumption
  DEF StackOf, ThreadStack, BooterStack, WatcherStack, Outermost, Starting

(* A thread goes on with one of them, or calls StopJob or StartJob.        *)
LEMMA ThreadMoves ==
  ASSUME IInv, HaltInv, NEW t \in Thread, pc[t] \in Outermost \ {"idle", "halt"},
         NEW phase, NEW s, NEW l, ThreadStack(phase, s), s \in Seq(Phases),
         (Goto(t, phase, l) /\ s = <<>>) \/ Call(t, phase, s, l),
         phase \notin {"restartSave", "updateSave"}, l.mark = loc[t].mark,
         heldBack' \subseteq heldBack, HaltedStayPaused'
  PROVE  HaltInv'
<1>1. t \in Proc /\ t \notin Booter /\ t \notin Mirror
  BY ManagerAssumption DEF Proc
<1>2. ControlOK /\ then[t] = <<>> /\ HaltRelies(t)
  BY <1>1, HaltFacts, OuterStacks DEF HaltInv
<1>3. /\ Others(t) /\ pc'[t] = phase /\ then'[t] = s /\ loc'[t] = l
  BY <1>1, <1>2, Goes, CallIs
<1>4. StackOf(t, pc'[t], then'[t])
  BY <1>3 DEF StackOf
<1> QED
  BY <1>1, <1>2, <1>3, <1>4, MoveHalt DEF HaltRelies

LEMMA ThreadHalt ==
  ASSUME IInv, HaltInv, NEW t \in Proc,
         \/ Restart(t) \/ Preflight(t) \/ Update(t) \/ Sync(t)
         \/ ListAll(t) \/ Collect(t) \/ StopEach(t)
  PROVE  HaltInv'
<1>0. /\ ControlOK /\ loc[t] \in Local /\ HaltRelies(t) /\ Stacks
      /\ db \in [Job -> Status \cup {None}]
  BY HaltFacts DEF HaltInv
<1>1. /\ pc[t] \in {"restart", "preflight", "update", "sync", "listAll",
                    "collect", "stopEach"}
      /\ UNCHANGED <<kafMirrors, db, heldBack>>
  BY DEF Restart, Preflight, Update, Sync, ListAll, Collect, StopEach,
         managerVars, guardVars
<1>2. t \in Thread /\ t \notin Booter /\ then[t] = <<>>
  BY <1>0, <1>1, OuterStacks DEF Outermost
<1>3. HaltedStayPaused'
  BY <1>1, StillPaused
<1>4. /\ <<>> \in Seq(Phases) /\ <<"restartSave">> \in Seq(Phases)
      /\ <<"start", "restartSave">> \in Seq(Phases)
      /\ <<"stopEach">> \in Seq(Phases)
  BY DEF Phases
<1>5. ASSUME NEW phase \in {"start", "syncSave", "collect", "stopEach", "startEach"},
             NEW l, Goto(t, phase, l), l.mark = loc[t].mark
      PROVE  HaltInv'
  <2>1. ThreadStack(phase, <<>>)
    BY <1>5 DEF ThreadStack, Outermost, Starting
  <2> QED
    BY <1>1, <1>2, <1>3, <1>4, <1>5, <2>1, ThreadMoves DEF Outermost
<1>6. ASSUME NEW phase, NEW s, NEW l, Call(t, phase, s, l), l.mark = loc[t].mark,
             \/ phase = "stop" /\ s \in {<<"start", "restartSave">>, <<"stopEach">>}
             \/ phase = "start" /\ s = <<"restartSave">>
      PROVE  HaltInv'
  <2>1. ThreadStack(phase, s) /\ s \in Seq(Phases)
    BY <1>4, <1>6 DEF ThreadStack, AfterStop, Starting
  <2>2. phase \notin {"restartSave", "updateSave"}
    BY <1>6
  <2>3. pc[t] \in Outermost \ {"idle", "halt"} /\ heldBack' \subseteq heldBack
    BY <1>1 DEF Outermost
  <2> QED
    BY <1>2, <1>3, <1>6, <2>1, <2>2, <2>3, ThreadMoves
<1>7. CASE Return(t, loc[t])
  BY <1>1, <1>3, <1>7, ReturnHalt DEF Starting
<1> DEFINE seen == [loc[t] EXCEPT !.list[loc[t].job] = db[loc[t].job]]
<1>8. /\ seen.mark = loc[t].mark /\ seen.job = loc[t].job
      /\ loc[t].job \in Job => seen.list[seen.job] = db[seen.job]
  BY <1>0 DEF Local
<1> HIDE DEF seen
<1>9. CASE Restart(t) /\ ~Return(t, loc[t])
  <2>1. \/ Call(t, "stop", <<"start", "restartSave">>, seen)
        \/ Call(t, "start", <<"restartSave">>, seen)
    BY <1>9 DEF Restart, seen
  <2> QED
    BY <1>6, <1>8, <2>1
<1>10. CASE Preflight(t) /\ ~Return(t, loc[t])
  BY <1>5, <1>10 DEF Preflight
<1>11. CASE Update(t) /\ ~Return(t, loc[t])
  <2>1. Goto(t, "updateSave", seen)
    BY <1>11 DEF Update, seen
  <2>2. /\ Others(t) /\ pc'[t] = "updateSave" /\ then'[t] = <<>> /\ loc'[t] = seen
    BY <1>0, <1>2, <2>1, Goes
  <2>3. loc[t].job \in Job
    BY <1>11, HaltFacts DEF Update
  <2>4. \A j \in Job : db[j] = "active" => j \notin heldBack
    BY DEF HaltInv, HaltedStayPaused
  <2>5. HaltRelies(t)'
    <3>1. loc'[t].list[loc'[t].job] = "active" => loc'[t].job \notin heldBack'
      BY <1>1, <1>8, <2>2, <2>3, <2>4
    <3>2. t \notin Mirror
      BY <1>2, ManagerAssumption
    <3> QED
      BY <1>0, <1>2, <1>8, <2>2, <3>1, <3>2 DEF HaltRelies
  <2>6. StackOf(t, pc'[t], then'[t])
    BY <1>2, <2>2 DEF StackOf, ThreadStack, Outermost
  <2> QED
    BY <1>1, <1>3, <2>2, <2>5, <2>6, HaltKeeps
<1>12. CASE /\ Sync(t) \/ ListAll(t) \/ Collect(t) \/ StopEach(t)
            /\ ~Return(t, loc[t])
  <2>1. \A x, y, z :
          /\ [loc[t] EXCEPT !.list = x].mark = loc[t].mark
          /\ [loc[t] EXCEPT !.todo = y].mark = loc[t].mark
          /\ [loc[t] EXCEPT !.job = z, !.todo = y].mark = loc[t].mark
    BY <1>0 DEF Local
  <2>2. \/ \E phase \in {"syncSave", "collect", "stopEach", "startEach"} : \E l :
             Goto(t, phase, l) /\ l.mark = loc[t].mark
        \/ \E l : Call(t, "stop", <<"stopEach">>, l) /\ l.mark = loc[t].mark
    <3>1. CASE Sync(t)
      BY <2>1, <3>1 DEF Sync
    <3>2. CASE ListAll(t)
      BY <2>1, <3>2 DEF ListAll
    <3>3. CASE Collect(t)
      BY <2>1, <3>3 DEF Collect
    <3>4. CASE StopEach(t)
      BY <2>1, <3>4 DEF StopEach
    <3> QED
      BY <1>12, <3>1, <3>2, <3>3, <3>4
  <2> QED
    BY <1>5, <1>6, <2>2
<1> QED
  BY <1>7, <1>9, <1>10, <1>11, <1>12

(* The writes of rows.                                                     *)
LEMMA SaveHalt ==
  ASSUME IInv, HaltInv, NEW t \in Proc,
         \/ Delete(t) \/ RestartSave(t) \/ UpdateSave(t) \/ SyncSave(t)
         \/ BootSave(t)
  PROVE  HaltInv'
<1>0. /\ ControlOK /\ loc[t] \in Local /\ HaltRelies(t) /\ Stacks
      /\ db \in [Job -> Status \cup {None}] /\ None # "active"
      /\ loc[t].job \in Job
  BY HaltFacts
  DEF HaltInv, Delete, RestartSave, UpdateSave, SyncSave, BootSave
<1>1. /\ pc[t] \in {"delete", "restartSave", "updateSave", "syncSave", "bootSave"}
      /\ UNCHANGED <<kafMirrors, heldBack>>
  BY DEF Delete, RestartSave, UpdateSave, SyncSave, BootSave, managerVars,
         guardVars
<1>2. \A j \in Job : \/ db'[j] = db[j] \/ db'[j] # "active"
                     \/ kafMirrors[j] # None \/ j \notin heldBack
  <2>1. CASE Delete(t)
    BY <1>0, <2>1 DEF Delete
  <2>2. CASE RestartSave(t)
    <3>1. loc[t].ok = TRUE => loc[t].job \notin heldBack
      BY <1>0, <2>2 DEF RestartSave, HaltRelies
    <3>2. db' = db \/ (loc[t].ok = TRUE /\ db' = Saved(loc[t].job, "active"))
      <4>1. loc[t].ok \in BOOLEAN
        BY <1>0 DEF Local
      <4> QED
        BY <2>2, <4>1 DEF RestartSave, Save
    <3> QED
      BY <1>0, <3>1, <3>2 DEF Saved
  <2>3. CASE UpdateSave(t)
    <3>1. loc[t].list[loc[t].job] = "active" => loc[t].job \notin heldBack
      BY <1>0, <2>3 DEF UpdateSave, HaltRelies
    <3> QED
      BY <1>0, <2>3, <3>1 DEF UpdateSave, Save, Saved
  <2>4. CASE SyncSave(t)
    BY <1>0, <2>4 DEF SyncSave
  <2>5. CASE BootSave(t)
    BY <1>0, <2>5 DEF BootSave, Save, Saved
  <2> QED
    BY <2>1, <2>2, <2>3, <2>4, <2>5
<1>3. \A j \in Job : kafMirrors[j] # None => j \notin heldBack
  BY DEF HaltInv, HaltedStayPaused
<1>4. HaltedStayPaused'
  BY <1>1, <1>2, <1>3, StillPaused
<1>5. CASE Return(t, loc[t])
  BY <1>1, <1>4, <1>5, ReturnHalt DEF Starting
<1>6. CASE SyncSave(t)
  <2>1. Goto(t, "listAll", loc[t]) /\ pc[t] = "syncSave"
    BY <1>6 DEF SyncSave
  <2>2. t \in Thread
    BY <1>0, <2>1, OuterStacks DEF Outermost
  <2>3. ThreadStack("listAll", <<>>) /\ <<>> \in Seq(Phases)
    BY DEF ThreadStack, Outermost
  <2> QED
    BY <1>1, <1>4, <2>1, <2>2, <2>3, ThreadMoves DEF Outermost
<1> QED
  BY <1>5, <1>6 DEF Delete, RestartSave, UpdateSave, BootSave

(* The reconciliation takes what is marked active, which is not held back. *)
LEMMA ListHalt ==
  ASSUME IInv, HaltInv, NEW t \in Proc, List(t) \/ StartEach(t)
  PROVE  HaltInv'
<1>0. /\ ControlOK /\ loc[t] \in Local /\ HaltRelies(t) /\ Stacks
      /\ heldBack \subseteq Job
  BY HaltFacts DEF HaltInv
<1>1. pc[t] \in {"list", "startEach"} /\ UNCHANGED <<kafMirrors, db, heldBack>>
  BY DEF List, StartEach, managerVars, guardVars
<1>2. then[t] = <<>> /\ t \notin Mirror /\ (t \in Thread \/ t \in Booter)
  BY <1>0, <1>1, OuterStacks DEF Outermost
<1>3. HaltedStayPaused'
  BY <1>1, StillPaused
<1>4. CASE List(t)
  <2> DEFINE todo == {j \in Job : db[j] # None /\ (db[j] = "active" <=> t \in Booter)}
             l == [loc[t] EXCEPT !.list = db, !.todo = todo]
  <2>1. l.mark = loc[t].mark /\ l.todo = todo
    BY <1>0 DEF Local
  <2>2. Goto(t, "startEach", l) /\ pc[t] = "list"
    BY <1>4 DEF List
  <2>3. t \in Booter => todo \cap heldBack = {}
    BY DEF HaltInv, HaltedStayPaused
  <2> HIDE DEF l
  <2>4. Others(t) /\ pc'[t] = "startEach" /\ then'[t] = <<>> /\ loc'[t] = l
    BY <1>0, <1>2, <2>2, Goes
  <2>5. StackOf(t, pc'[t], then'[t])
    BY <1>2, <2>4 DEF StackOf, ThreadStack, BooterStack, Outermost
  <2> QED
    BY <1>0, <1>1, <1>2, <1>3, <2>1, <2>3, <2>4, <2>5, MoveHalt
    DEF HaltRelies, Starting
<1>5. CASE Return(t, loc[t]) /\ StartEach(t)
  BY <1>1, <1>3, <1>5, ReturnHalt DEF Starting
<1>6. CASE StartEach(t) /\ ~Return(t, loc[t])
  <2> DEFINE rest == IF t \in Booter THEN <<"bootSave", "startEach">>
                                     ELSE <<"startEach">>
             l(j) == [loc[t] EXCEPT !.job = j, !.todo = @ \ {j}]
  <2>1. PICK j \in loc[t].todo : Call(t, "start", rest, l(j))
    BY <1>6 DEF StartEach
  <2> DEFINE k == l(j)
  <2>2. k.mark = loc[t].mark /\ k.job = j /\ k.todo = loc[t].todo \ {j}
    BY <1>0 DEF Local
  <2> HIDE DEF l
  <2>3. Call(t, "start", rest, k) /\ pc[t] = "startEach"
    BY <1>6, <2>1 DEF StartEach
  <2>4. rest \in Seq(Phases)
    <3>1. <<"bootSave", "startEach">> \in Seq(Phases)
      BY DEF Phases
    <3>2. <<"startEach">> \in Seq(Phases)
      BY DEF Phases
    <3> QED
      BY <3>1, <3>2
  <2> HIDE DEF k
  <2>5. Others(t) /\ pc'[t] = "start" /\ then'[t] = rest /\ loc'[t] = k
    BY <1>0, <1>2, <2>3, <2>4, CallIs
  <2>6. StackOf(t, pc'[t], then'[t])
    BY <1>2, <2>5, ManagerAssumption DEF StackOf, ThreadStack, BooterStack, Starting
  <2>7. t \in Booter => loc[t].todo \cap heldBack = {}
    BY <1>0, <2>3 DEF HaltRelies
  <2>8. t \in Booter => k.todo \cap heldBack = {} /\ k.job \notin heldBack
    BY <2>1, <2>2, <2>7
  <2> QED
    BY <1>0, <1>1, <1>2, <1>3, <2>2, <2>3, <2>5, <2>6, <2>8, MoveHalt DEF HaltRelies
<1> QED
  BY <1>4, <1>5, <1>6

-----------------------------------------------------------------------------
(* Requests, halts, ticks, panics and crashes.                             *)
LEMMA BeginHaltInv ==
  ASSUME OneByOne, IInv, HaltInv, NEW t \in Thread, NEW r, NEW j \in Job,
         Begin(t, r, j)
  PROVE  HaltInv'
<1>0. t \in Proc /\ t \notin Booter /\ t \notin Mirror /\ ControlOK
  BY ManagerAssumption DEF Proc, IInv, TypeOK, ControlOK
<1>1. /\ Quiescent /\ pc[t] = "idle" /\ then[t] = <<>>
      /\ r \in Requests \ {"halt", "resume"}
      /\ UNCHANGED <<kafMirrors, db, heldBack>>
  BY <1>0, ManagerAssumption
  DEF OneByOne, Begin, managerVars, guardVars, ControlOK, StackInv
<1>2. HaltedStayPaused'
  BY <1>1, StillPaused
<1> DEFINE l == [NoLocal EXCEPT !.job = j]
<1>3. l.mark = "paused"
  BY DEF NoLocal
<1>4. Call(t, Head(Routine(r)), Tail(Routine(r)), l)
  BY DEF Begin
<1> HIDE DEF l
<1>5. \/ Routine(r) = <<"stop", "delete">>
      \/ Routine(r) = <<"force", "preflight">>
      \/ Routine(r) = <<"list">> \/ Routine(r) = <<"sync">>
      \/ \E p \in {"start", "stop", "restart", "stopAll", "update", "throttle"} :
           Routine(r) = <<p>>
  BY <1>1 DEF Routine, Requests
<1>6. ASSUME NEW p, NEW s, Call(t, p, s, l), s \in Seq(Phases),
             StackOf(t, p, s) \/ MoreStack(t, p, s),
             p \notin {"restartSave", "updateSave"}
      PROVE  HaltInv'
  <2>1. Others(t) /\ pc'[t] = p /\ then'[t] = s /\ loc'[t] = l
    BY <1>0, <1>1, <1>6, CallIs
  <2> QED
    BY <1>0, <1>1, <1>2, <1>3, <1>6, <2>1, MoveHalt
<1>7. /\ <<"delete">> \in Seq(Phases) /\ <<"preflight">> \in Seq(Phases)
      /\ <<>> \in Seq(Phases)
  BY DEF Phases
<1>8. CASE Routine(r) = <<"stop", "delete">>
  <2>1. Call(t, "stop", <<"delete">>, l)
    BY <1>4, <1>8
  <2> QED
    BY <1>6, <1>7, <2>1 DEF StackOf, ThreadStack, AfterStop
<1>9. CASE Routine(r) = <<"force", "preflight">>
  <2>1. Call(t, "force", <<"preflight">>, l)
    BY <1>4, <1>9
  <2> QED
    BY <1>6, <1>7, <2>1 DEF StackOf, ThreadStack, AfterStop
<1>10. ASSUME NEW p \in {"start", "stop", "restart", "stopAll", "update",
                         "throttle", "list", "sync"},
              Routine(r) = <<p>>
       PROVE  HaltInv'
  <2>1. Call(t, p, <<>>, l)
    BY <1>4, <1>10
  <2>2. StackOf(t, p, <<>>) \/ MoreStack(t, p, <<>>)
    BY <1>10
    DEF StackOf, ThreadStack, MoreStack, AfterStop, Outermost, Starting
  <2> QED
    BY <1>6, <1>7, <1>10, <2>1, <2>2
<1> QED
  BY <1>5, <1>8, <1>9, <1>10

LEMMA HaltBegins ==
  ASSUME OneByOne, IInv, HaltInv, NEW t \in Proc,
         (t \in Thread /\ BeginHalt(t)) \/ Tick(t)
  PROVE  HaltInv'
<1>0. ControlOK /\ (t \in Thread \/ t \in Watcher) /\ t \notin Booter /\ t \notin Mirror
  BY ManagerAssumption DEF IInv, TypeOK, ControlOK, Tick
<1>1. /\ Quiescent /\ pc[t] = "idle" /\ then[t] = <<>>
      /\ UNCHANGED <<kafMirrors, db, heldBack>>
      /\ Goto(t, "halt", NoLocal) \/ UNCHANGED procVars
  BY <1>0 DEF OneByOne, BeginHalt, Tick, managerVars, ControlOK, StackInv
<1>2. HaltedStayPaused'
  BY <1>1, StillPaused
<1>3. CASE Goto(t, "halt", NoLocal)
  <2>1. Others(t) /\ pc'[t] = "halt" /\ then'[t] = <<>> /\ loc'[t] = NoLocal
    BY <1>0, <1>1, <1>3, Goes
  <2>2. StackOf(t, pc'[t], then'[t])
    BY <1>0, <2>1 DEF StackOf, ThreadStack, WatcherStack, Outermost
  <2> QED
    BY <1>0, <1>1, <1>2, <2>1, <2>2, NoLocalIs, MoveHalt
<1>4. CASE UNCHANGED procVars
  <2>1. UNCHANGED <<pc, then, loc>>
    BY <1>4 DEF procVars
  <2>2. Others(t) /\ loc'[t].mark # "active"
    BY <2>1 DEF Others, HaltInv, HaltRelies
  <2>3. StackOf(t, pc'[t], then'[t]) \/ MoreStack(t, pc'[t], then'[t])
    BY <2>1 DEF HaltInv, Stacks
  <2> QED
    BY <1>0, <1>1, <1>2, <2>1, <2>2, <2>3, MoveHalt
<1> QED
  BY <1>1, <1>3, <1>4

LEMMA PanicHalt ==
  ASSUME IInv, HaltInv, NEW m \in Mirror, Panic(m)
  PROVE  HaltInv'
<1> DEFINE l == [NoLocal EXCEPT !.job = jobOf[m]]
<1>1. m \in Proc /\ m \notin Booter /\ ControlOK /\ then[m] = <<>>
  BY ManagerAssumption
  DEF Proc, IInv, TypeOK, ControlOK, StackInv, Panic
<1>2. l.mark = "paused"
  BY DEF NoLocal
<1>3. Goto(m, "panic", l) /\ UNCHANGED <<kafMirrors, db, heldBack>>
  BY DEF Panic, managerVars, guardVars
<1> HIDE DEF l
<1>4. Others(m) /\ pc'[m] = "panic" /\ then'[m] = <<>> /\ loc'[m] = l
  BY <1>1, <1>3, Goes
<1>5. HaltedStayPaused'
  BY <1>3, StillPaused
<1>6. MoreStack(m, pc'[m], then'[m])
  BY <1>4 DEF MoreStack
<1> QED
  BY <1>1, <1>2, <1>3, <1>4, <1>5, <1>6, MoveHalt

LEMMA CrashHalt ==
  ASSUME IInv, OneByOne, HaltInv, Crash
  PROVE  HaltInv'
<1>1. /\ \A j \in Job : kafMirrors'[j] = None
      /\ \A t \in Proc : /\ pc'[t] = IF t \in Booter THEN "list" ELSE "idle"
                         /\ then'[t] = <<>> /\ loc'[t] = NoLocal
      /\ UNCHANGED <<db, heldBack>>
  BY DEF Crash
<1>2. Stacks'
  BY <1>1
  DEF Stacks, StackOf, ThreadStack, BooterStack, WatcherStack, Outermost, Proc
<1>3. OneRequest'
  BY <1>1 DEF OneRequest, OneByOne
<1>4. \A t \in Proc : HaltRelies(t)'
  BY <1>1, NoLocalIs DEF HaltRelies, Starting
<1>5. HaltedStayPaused'
  BY <1>1, StillPaused
<1> QED
  BY <1>2, <1>3, <1>4, <1>5 DEF HaltInv

LEMMA StillHalt ==
  ASSUME HaltInv, UNCHANGED <<kafMirrors, db, heldBack, procVars>>
  PROVE  HaltInv'
<1>1. UNCHANGED <<kafMirrors, db, heldBack, pc, then, loc>>
  BY DEF procVars
<1>2. Stacks' /\ OneRequest' /\ HaltedStayPaused'
  BY <1>1 DEF HaltInv, Stacks, OneRequest, HaltedStayPaused
<1>3. \A t \in Proc : HaltRelies(t)'
  BY <1>1 DEF HaltInv, HaltRelies
<1> QED
  BY <1>2, <1>3 DEF HaltInv

LEMMA StepHalt ==
  ASSUME IInv, HaltInv, NEW t \in Proc, Step(t)
  PROVE  HaltInv'
BY StartHalt, LaunchHalt, WaitHalt, ThrottleHalt, TakeHalt, NextMirrorHalt,
   WriteHalt, ThreadHalt, SaveHalt, ListHalt
DEF Step

LEMMA NextHalt ==
  ASSUME OneByOne, IInv, HaltInv, [Next]_vars
  PROVE  HaltInv'
<1>1. ASSUME NEW t \in Thread, BeginHalt(t)
      PROVE  HaltInv'
  BY <1>1, HaltBegins DEF Proc
<1>2. ASSUME NEW t \in Thread, NEW r \in Requests, NEW j \in Job, Begin(t, r, j)
      PROVE  HaltInv'
  BY <1>2, BeginHaltInv
<1>3. ASSUME NEW t \in Proc, Step(t)
      PROVE  HaltInv'
  BY <1>3, StepHalt
<1>4. ASSUME NEW t \in Proc, Tick(t)
      PROVE  HaltInv'
  BY <1>4, HaltBegins
<1>5. ASSUME NEW m \in Mirror, Panic(m)
      PROVE  HaltInv'
  BY <1>5, PanicHalt
<1>6. CASE Resume \/ Trip
  BY <1>6, StillHalt DEF Resume, Trip, managerVars
<1>7. CASE Crash
  BY <1>7, CrashHalt
<1>8. CASE UNCHANGED vars
  BY <1>8, StillHalt DEF vars, managerVars, guardVars
<1> QED
  BY <1>1, <1>2, <1>3, <1>4, <1>5, <1>6, <1>7, <1>8 DEF Next

LEMMA InitHalt == Init => HaltInv
<1> SUFFICES ASSUME Init PROVE HaltInv
  OBVIOUS
<1>1. /\ \A t \in Proc : pc[t] = "idle" /\ then[t] = <<>> /\ loc[t] = NoLocal
      /\ heldBack = {}
  BY DEF Init
<1>2. Stacks
  BY <1>1
  DEF Stacks, StackOf, ThreadStack, BooterStack, WatcherStack, Outermost, Proc
<1>3. OneRequest /\ HaltedStayPaused
  BY <1>1 DEF OneRequest, HaltedStayPaused
<1>4. \A t \in Proc : HaltRelies(t)
  BY <1>1, NoLocalIs DEF HaltRelies, Starting
<1> QED
  BY <1>2, <1>3, <1>4 DEF HaltInv

(* As long as requests are made one at a time, a job that a halt has       *)
(* paused stays out of the map and its row does not say active until a     *)
(* request starts it.  Panics, failing writes, throttling, updates, and    *)
(* crashes with the reconciliation of the program that starts again do not *)
(* bring it back (manager.go: StartJob, HaltRunningJobs,                   *)
(* applyThrottlingChanges, reconcileAndStartJobs; handleUpdateJob).        *)
THEOREM HaltsAreKept == OneByOne => (Spec => []HaltedStayPaused)
<1>1. OneByOne /\ IInv /\ HaltInv /\ [Next]_vars => (IInv /\ HaltInv)'
  BY NextIInv, NextHalt
<1>2. Init => IInv /\ HaltInv
  BY InitIInv, InitHalt
<1>3. HaltInv => HaltedStayPaused
  BY DEF HaltInv
<1>4. CASE OneByOne
  BY <1>1, <1>2, <1>3, <1>4, PTL DEF Spec
<1> QED
  BY <1>4
=============================================================================
