--------------------------- MODULE ReplicationLoop --------------------------
(***************************************************************************)
(* The consume - produce - commit loop of one replication job:            *)
(* Consumer.Consume, KafMirrorImpl.handleRecord, Producer.ProduceSync and *)
(* the part of KafMirrorImpl.Start and Stop that begins and ends it.      *)
(*                                                                         *)
(* An instance is one KafMirrorImpl.  Every instance of a job joins the   *)
(* same consumer group (kaf-mirror-job-<id>), and a job can have more     *)
(* than one for a while: StopJob and HaltRunningJobs take the instance    *)
(* out of the manager's map before they wait for it, so the next StartJob *)
(* does not wait.  The brokers are modelled by what the loop sees of      *)
(* them: source logs, the group's assignment and committed offsets, the   *)
(* copies on the target.                                                  *)
(*                                                                         *)
(* A record is its partition and offset.  Keys, values and headers are    *)
(* passed through by the code and do not occur here.                      *)
(***************************************************************************)
EXTENDS Naturals

CONSTANTS
  Partition,    \* partitions of the subscribed source topics
  Unmapped,     \* those whose topic the topic map gives no target for
  Instance,     \* slots for instances of the job; a slot can be used again
  None,         \* no owner, or no record in hand
  Idempotent,   \* FALSE: KAFMIRROR_DISABLE_IDEMPOTENT_WRITES is set
  MaxOffset,    \* bound: records per source partition
  MaxStarts,    \* bound: instances started
  MaxMoves,     \* bound: partitions taken from a live member by a rebalance
  MaxCrashes,   \* bound: crashes of the process
  MaxPanics,    \* bound: instances that end in onPanic
  MaxCopies     \* bound: copies of one record, when retries can duplicate

ASSUME LoopAssumption ==
  /\ Unmapped \subseteq Partition
  /\ None \notin Instance \cup Partition
  /\ Idempotent \in BOOLEAN
  /\ MaxOffset \in Nat
  /\ MaxStarts \in Nat
  /\ MaxMoves \in Nat
  /\ MaxCrashes \in Nat
  /\ MaxPanics \in Nat
  /\ MaxCopies \in Nat

Offset   == 0 .. (MaxOffset - 1)
Position == 0 .. MaxOffset

VARIABLES
  \* brokers
  logEnd,       \* end offset of each source partition
  copies,       \* copies of each source record on the target
  committed,    \* committed offset of the job's group, 0 if there is none
  owner,        \* the group member each partition is assigned to
  \* instances
  life,         \* "down", "running", "cancelled" or "wedged"
  phase,        \* where Consume is: "idle", "produce", "written", "commit"
  cur,          \* the partition of the record in hand, None when idle
  fetchPos,     \* where the client fetches next on a partition it owns
  next,         \* next record of the fetched batch that Consume handles
  upto,         \* end of the fetched batch
  \* history
  failed,       \* records for which a ProduceSync returned an error
  skipped,      \* records handled without a target topic
  starts, moves, crashes, panics, assigned

brokerVars == <<logEnd, copies, committed, owner>>
loopVars   == <<life, phase, cur, fetchPos, next, upto>>
recordVars == <<failed, skipped>>
countVars  == <<starts, moves, crashes, panics, assigned>>
vars == <<brokerVars, loopVars, recordVars, countVars>>

Lives  == {"down", "running", "cancelled", "wedged"}
Phases == {"idle", "produce", "written", "commit"}

TypeOK ==
  /\ logEnd \in [Partition -> Position]
  /\ copies \in [Partition -> [Offset -> Nat]]
  /\ committed \in [Partition -> Position]
  /\ owner \in [Partition -> Instance \cup {None}]
  /\ life \in [Instance -> Lives]
  /\ phase \in [Instance -> Phases]
  /\ cur \in [Instance -> Partition \cup {None}]
  /\ fetchPos \in [Instance -> [Partition -> Position]]
  /\ next \in [Instance -> [Partition -> Position]]
  /\ upto \in [Instance -> [Partition -> Position]]
  /\ failed \in [Partition -> SUBSET Offset]
  /\ skipped \in [Partition -> SUBSET Offset]
  /\ starts \in Nat
  /\ moves \in Nat
  /\ crashes \in Nat
  /\ panics \in Nat
  /\ assigned \in [Partition -> Nat]

(* A record is settled when the loop is done with it, one way or another. *)
Copied(p)          == {o \in Offset : copies[p][o] > 0}
Settled(p, o)      == o \in Copied(p) \cup failed[p] \cup skipped[p]
SettledBelow(p, n) == \A o \in 0 .. (n - 1) : Settled(p, o)

(* Mutant of BatchDone: a poll discards what is left of the last batch.   *)
BatchDropped(i) == TRUE

(* Every fetched record has been handed to the handler.  *)
BatchDone(i) == \A p \in Partition : next[i][p] = upto[i][p]

(* The record Consume is working on. *)
InHand(i) == next[i][cur[i]]

Nowhere == [p \in Partition |-> 0]
-----------------------------------------------------------------------------
Init ==
  /\ logEnd = [p \in Partition |-> 0]
  /\ copies = [p \in Partition |-> [o \in Offset |-> 0]]
  /\ committed = Nowhere
  /\ owner = [p \in Partition |-> None]
  /\ life = [i \in Instance |-> "down"]
  /\ phase = [i \in Instance |-> "idle"]
  /\ cur = [i \in Instance |-> None]
  /\ fetchPos = [i \in Instance |-> Nowhere]
  /\ next = [i \in Instance |-> Nowhere]
  /\ upto = [i \in Instance |-> Nowhere]
  /\ failed = [p \in Partition |-> {}]
  /\ skipped = [p \in Partition |-> {}]
  /\ starts = 0
  /\ moves = 0
  /\ crashes = 0
  /\ panics = 0
  /\ assigned = [p \in Partition |-> 0]

(* An application appends to a source partition. *)
Arrive(p) ==
  /\ logEnd[p] < MaxOffset
  /\ logEnd' = [logEnd EXCEPT ![p] = @ + 1]
  /\ UNCHANGED <<copies, committed, owner, loopVars, recordVars, countVars>>

(* NewKafMirror and Start: a fresh client with no position anywhere. *)
Start(i) ==
  /\ life[i] = "down"
  /\ starts < MaxStarts
  /\ life' = [life EXCEPT ![i] = "running"]
  /\ starts' = starts + 1
  /\ UNCHANGED <<brokerVars, phase, cur, fetchPos, next, upto, recordVars,
                 moves, crashes, panics, assigned>>

(* The group assigns p to i, which begins to fetch at the committed       *)
(* offset.  A batch of p it may still be working on is not taken back.    *)
GiveTo(i, p) ==
  /\ owner' = [owner EXCEPT ![p] = i]
  /\ fetchPos' = [fetchPos EXCEPT ![i][p] = committed[p]]
  /\ assigned' = [assigned EXCEPT ![p] = @ + 1]
  /\ UNCHANGED <<logEnd, copies, committed, life, phase, cur, next, upto,
                 recordVars, starts, crashes, panics>>

(* A member gets a partition nobody owns.  A cancelled or a wedged        *)
(* instance is still a member: its client has not been closed.            *)
Assign(i, p) ==
  /\ life[i] # "down"
  /\ owner[p] = None
  /\ GiveTo(i, p)
  /\ UNCHANGED moves

(* A rebalance moves a partition from one member to another. *)
Move(i, p) ==
  /\ life[i] # "down"
  /\ owner[p] \notin {None, i}
  /\ moves < MaxMoves
  /\ moves' = moves + 1
  /\ GiveTo(i, p)
-----------------------------------------------------------------------------
(* PollFetches returns records of some of the partitions i owns, at the   *)
(* top of the loop, where a cancelled context has been ruled out.         *)
Poll(i) ==
  /\ life[i] = "running"
  /\ phase[i] = "idle"
  /\ BatchDone(i)
  /\ \E end \in [Partition -> Position] :
       /\ \A p \in Partition :
            IF owner[p] = i
            THEN fetchPos[i][p] <= end[p] /\ end[p] <= logEnd[p]
            ELSE end[p] = fetchPos[i][p]
       /\ end # fetchPos[i]
       /\ next' = [next EXCEPT ![i] = fetchPos[i]]
       /\ upto' = [upto EXCEPT ![i] = end]
       /\ fetchPos' = [fetchPos EXCEPT ![i] = end]
  /\ UNCHANGED <<brokerVars, life, phase, cur, recordVars, countVars>>

(* EachRecord calls handleRecord with the next fetched record of p.  A    *)
(* topic without a target is passed over with a warning and no error.     *)
HandleRecord(i, p) ==
  /\ life[i] # "down"
  /\ phase[i] = "idle"
  /\ next[i][p] < upto[i][p]
  /\ cur' = [cur EXCEPT ![i] = p]
  /\ \/ /\ p \in Unmapped
        /\ skipped' = [skipped EXCEPT ![p] = @ \cup {next[i][p]}]
        /\ phase' = [phase EXCEPT ![i] = "commit"]
     \/ /\ p \notin Unmapped
        /\ phase' = [phase EXCEPT ![i] = "produce"]
        /\ UNCHANGED skipped
  /\ UNCHANGED <<brokerVars, life, fetchPos, next, upto, failed, countVars>>

(* The target broker stores the record ProduceSync sent. *)
TargetWrite(i) ==
  /\ phase[i] = "produce"
  /\ copies' = [copies EXCEPT ![cur[i]][InHand(i)] = @ + 1]
  /\ phase' = [phase EXCEPT ![i] = "written"]
  /\ UNCHANGED <<logEnd, committed, owner, life, cur, fetchPos, next, upto,
                 recordVars, countVars>>

(* Mutant of TargetRetry: the producer is never idempotent.               *)
TargetRetryAlways(i) ==
  /\ phase[i] = "written"
  /\ copies[cur[i]][InHand(i)] < MaxCopies
  /\ copies' = [copies EXCEPT ![cur[i]][InHand(i)] = @ + 1]
  /\ UNCHANGED <<logEnd, committed, owner, loopVars, recordVars, countVars>>

(* The client repeats a request whose answer was lost.  The broker drops  *)
(* the repetition only if the producer is idempotent.                     *)
TargetRetry(i) ==
  /\ ~Idempotent
  /\ phase[i] = "written"
  /\ copies[cur[i]][InHand(i)] < MaxCopies
  /\ copies' = [copies EXCEPT ![cur[i]][InHand(i)] = @ + 1]
  /\ UNCHANGED <<logEnd, committed, owner, loopVars, recordVars, countVars>>

(* The acknowledgement arrives: handleRecord returns nil. *)
ProduceAck(i) ==
  /\ phase[i] = "written"
  /\ phase' = [phase EXCEPT ![i] = "commit"]
  /\ UNCHANGED <<brokerVars, life, cur, fetchPos, next, upto, recordVars,
                 countVars>>

(* Mutant of Advance: a record is passed over.                            *)
AdvanceTwo(i) ==
  /\ next' = [next EXCEPT ![i][cur[i]] = @ + 2]
  /\ phase' = [phase EXCEPT ![i] = "idle"]
  /\ cur' = [cur EXCEPT ![i] = None]

(* Consume goes on with the record after the one in hand. *)
Advance(i) ==
  /\ next' = [next EXCEPT ![i][cur[i]] = @ + 1]
  /\ phase' = [phase EXCEPT ![i] = "idle"]
  /\ cur' = [cur EXCEPT ![i] = None]

(* ProduceSync returns an error: the target refused the record, or stored *)
(* it and the answer was lost.  The error is logged and the closure       *)
(* returns, which ends the work on this record and not on the batch.      *)
ProduceFail(i) ==
  /\ phase[i] \in {"produce", "written"}
  /\ failed' = [failed EXCEPT ![cur[i]] = @ \cup {InHand(i)}]
  /\ Advance(i)
  /\ UNCHANGED <<brokerVars, life, fetchPos, upto, skipped, countVars>>

(* Mutant of CommitOk: the end of the fetched batch is committed, as      *)
(* CommitUncommittedOffsets would.                                        *)
CommitBatch(i) ==
  /\ phase[i] = "commit"
  /\ committed' = [committed EXCEPT ![cur[i]] = upto[i][cur[i]]]
  /\ Advance(i)
  /\ UNCHANGED <<logEnd, copies, owner, life, fetchPos, upto, recordVars,
                 countVars>>

(* CommitRecords(ctx, record) sets the group's offset to the record's     *)
(* offset + 1, whatever it was.                                           *)
CommitOk(i) ==
  /\ phase[i] = "commit"
  /\ committed' = [committed EXCEPT ![cur[i]] = InHand(i) + 1]
  /\ Advance(i)
  /\ UNCHANGED <<logEnd, copies, owner, life, fetchPos, upto, recordVars,
                 countVars>>

(* The commit is refused or its context is cancelled; the error is logged. *)
CommitFail(i) ==
  /\ phase[i] = "commit"
  /\ Advance(i)
  /\ UNCHANGED <<brokerVars, life, fetchPos, upto, recordVars, countVars>>
-----------------------------------------------------------------------------
(* Stop cancels the context.  Records already fetched are still handled:  *)
(* ProduceSync runs under a context of its own.                           *)
Cancel(i) ==
  /\ life[i] = "running"
  /\ life' = [life EXCEPT ![i] = "cancelled"]
  /\ UNCHANGED <<brokerVars, phase, cur, fetchPos, next, upto, recordVars,
                 countVars>>

(* A goroutine of the instance calls onPanic: the context is cancelled,   *)
(* but Stop waits for the goroutine that called it, so that the clients   *)
(* are not closed and the instance stays a member of the group.           *)
Panic(i) ==
  /\ life[i] = "running"
  /\ panics < MaxPanics
  /\ panics' = panics + 1
  /\ life' = [life EXCEPT ![i] = "wedged"]
  /\ UNCHANGED <<brokerVars, phase, cur, fetchPos, next, upto, recordVars,
                 starts, moves, crashes, assigned>>

(* Mutant of Forget: the consumer is not closed and keeps its partitions. *)
ForgetButStay(gone) ==
  /\ life' = [i \in Instance |-> IF i \in gone THEN "down" ELSE life[i]]
  /\ phase' = [i \in Instance |-> IF i \in gone THEN "idle" ELSE phase[i]]
  /\ cur' = [i \in Instance |-> IF i \in gone THEN None ELSE cur[i]]
  /\ fetchPos' = [i \in Instance |->
                    IF i \in gone THEN Nowhere ELSE fetchPos[i]]
  /\ next' = [i \in Instance |-> IF i \in gone THEN Nowhere ELSE next[i]]
  /\ upto' = [i \in Instance |-> IF i \in gone THEN Nowhere ELSE upto[i]]
  /\ UNCHANGED <<logEnd, copies, committed, owner, recordVars>>

(* What is left of instances that are gone. *)
Forget(gone) ==
  /\ life' = [i \in Instance |-> IF i \in gone THEN "down" ELSE life[i]]
  /\ phase' = [i \in Instance |-> IF i \in gone THEN "idle" ELSE phase[i]]
  /\ cur' = [i \in Instance |-> IF i \in gone THEN None ELSE cur[i]]
  /\ fetchPos' = [i \in Instance |->
                    IF i \in gone THEN Nowhere ELSE fetchPos[i]]
  /\ next' = [i \in Instance |-> IF i \in gone THEN Nowhere ELSE next[i]]
  /\ upto' = [i \in Instance |-> IF i \in gone THEN Nowhere ELSE upto[i]]
  /\ owner' = [p \in Partition |-> IF owner[p] \in gone THEN None ELSE owner[p]]
  /\ UNCHANGED <<logEnd, copies, committed, recordVars>>

(* Consume has seen the cancelled context and returned; Stop closes the   *)
(* clients, and the instance leaves the group.                            *)
Close(i) ==
  /\ life[i] = "cancelled"
  /\ phase[i] = "idle"
  /\ BatchDone(i)
  /\ Forget({i})
  /\ UNCHANGED countVars

(* The process dies with all its instances, whatever they were doing. *)
Crash ==
  /\ crashes < MaxCrashes
  /\ \E i \in Instance : life[i] # "down"
  /\ crashes' = crashes + 1
  /\ Forget(Instance)
  /\ UNCHANGED <<starts, moves, panics, assigned>>

Loop(i) ==
  \/ Poll(i)
  \/ \E p \in Partition : HandleRecord(i, p)
  \/ TargetWrite(i) \/ ProduceAck(i) \/ ProduceFail(i)
  \/ CommitOk(i) \/ CommitFail(i)

Next ==
  \/ \E p \in Partition : Arrive(p)
  \/ \E i \in Instance :
       \/ Start(i) \/ Cancel(i) \/ Panic(i) \/ Close(i)
       \/ \E p \in Partition : Assign(i, p) \/ Move(i, p)
       \/ Loop(i) \/ TargetRetry(i)
  \/ Crash

Spec == Init /\ [][Next]_vars

(* The goroutine of an instance runs, a produce call is answered, and the *)
(* group hands out partitions nobody owns.                                *)
Fairness ==
  \A i \in Instance :
    /\ WF_vars(Loop(i))
    /\ WF_vars(Close(i))
    /\ \A p \in Partition : WF_vars(Assign(i, p))

FairSpec == Spec /\ Fairness
-----------------------------------------------------------------------------
(* Nothing below a committed offset is merely forgotten: a restarted job  *)
(* looks at nothing below it, so each record there has a copy on the      *)
(* target, failed to be produced, or has no target topic.                 *)
CommittedIsSettled ==
  \A p \in Partition : SettledBelow(p, committed[p])

(* An acknowledged record stays on the target; the position from which an *)
(* instance reads, the batch it works on and the committed offset stay    *)
(* within the source log.                                                 *)
PositionsInLog ==
  \A p \in Partition :
    /\ committed[p] <= logEnd[p]
    /\ \A i \in Instance :
         /\ next[i][p] <= upto[i][p]
         /\ upto[i][p] <= logEnd[p]
         /\ fetchPos[i][p] <= logEnd[p]
         /\ phase[i] # "idle" => InHand(i) < upto[i][cur[i]]

(* With an idempotent producer a record is copied at most once for each   *)
(* time its partition was assigned: every duplicate is the price of a     *)
(* restart or a rebalance, none comes from the loop itself.               *)
DuplicatesNeedReassignment ==
  Idempotent =>
    \A p \in Partition : \A o \in Offset : copies[p][o] <= assigned[p]

(* The copy of a partition grows without holes: when a record reaches the *)
(* target for the first time, everything below it is settled, whichever   *)
(* instance wrote it and however many instances are at work.              *)
CopyInOrder ==
  [][\A p \in Partition : \A o \in Offset :
       copies[p][o] = 0 /\ copies'[p][o] > 0 => SettledBelow(p, o)]_vars

(* Why committed offsets are safe: everything below the record an         *)
(* instance handles next is settled, everything below the position it     *)
(* fetches from is settled or in its batch, and the record in hand is     *)
(* settled once it is on the target or skipped.                           *)
LoopSettled ==
  \A i \in Instance : \A p \in Partition :
    /\ SettledBelow(p, next[i][p])
    /\ \A o \in 0 .. (fetchPos[i][p] - 1) :
         Settled(p, o) \/ o \in next[i][p] .. (upto[i][p] - 1)
    /\ phase[i] \in {"written", "commit"} /\ cur[i] = p =>
         Settled(p, next[i][p])

HandInv == \A i \in Instance : phase[i] = "idle" <=> cur[i] = None

(* The inductive invariant. *)
IInv ==
  /\ TypeOK
  /\ HandInv
  /\ PositionsInLog
  /\ CommittedIsSettled
  /\ LoopSettled

Running == \E i \in Instance : life[i] = "running"

(* An instance that ended in onPanic polls no more and is a member still, *)
(* so that nobody reads what the group has given it.                      *)
HeldByWedged(p) == owner[p] # None /\ life[owner[p]] = "wedged"

(* Every record of the source is eventually copied, failed or skipped,    *)
(* over crashes, restarts and rebalances, unless at some time no instance *)
(* of the job runs or a wedged one holds the partition of the record.     *)
EventuallySettled ==
  \A p \in Partition : \A o \in Offset :
    o < logEnd[p] ~> (Settled(p, o) \/ ~Running \/ HeldByWedged(p))

(* What README.md says: source offsets are committed only after the       *)
(* target produce is acknowledged.                                        *)
CommittedOnlyAfterAck ==
  \A p \in Partition \ Unmapped : \A o \in 0 .. (committed[p] - 1) :
    o \in Copied(p)

(* The loop implements the contract of the job. *)
Contract == INSTANCE MirrorContract WITH
              written <- logEnd,
              copied  <- [p \in Partition |-> Copied(p)],
              givenUp <- [p \in Partition |-> failed[p] \cup skipped[p]]

ContractSpec == Contract!Spec
=============================================================================
