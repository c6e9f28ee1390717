--------------------------- MODULE ManagerContract ---------------------------
(***************************************************************************)
(* What the job manager promises about mirrors, without goroutines, locks  *)
(* and rows: which mirror a job has in service, and how a mirror ends.     *)
(*                                                                         *)
(* A job has one mirror in service at most, and gets another only after    *)
(* that one has been withdrawn or closed.  A mirror is closed once, after  *)
(* it was cancelled, and never serves again; one that is being stopped in  *)
(* service stays there until it is closed.  A withdrawn mirror may go on   *)
(* for a while beside its successor.  An order to halt does not stop what  *)
(* is being started, but once it stands nothing gets into service.         *)
(***************************************************************************)
CONSTANTS Job,         \* the jobs
          Mirror,      \* the mirrors that may be created for them
          None         \* no mirror, no job

VARIABLES kafMirrors,  \* the mirror in service for each job, or None
          life,        \* "new", "running", "cancelled" or "closed"
          jobOf,       \* the job a mirror was created for, or None
          ordered,     \* there is an order to halt
          standing     \* the order has been carried out and still stands

vars == <<kafMirrors, life, jobOf, ordered, standing>>

Init ==
  /\ kafMirrors = [j \in Job |-> None]
  /\ life = [m \in Mirror |-> "new"]
  /\ jobOf = [m \in Mirror |-> None]
  /\ ordered = FALSE /\ standing = FALSE

Serves(m) == \E j \in Job : kafMirrors[j] = m
Vacant(j) == kafMirrors[j] = None \/ life[kafMirrors[j]] = "closed"

(* A new mirror comes into service, or is cancelled as soon as it does.    *)
Serve(j, m) ==
  /\ ~standing
  /\ Vacant(j)
  /\ life[m] = "new"
  /\ \E l \in {"running", "cancelled"} : life' = [life EXCEPT ![m] = l]
  /\ jobOf' = [jobOf EXCEPT ![m] = j]
  /\ kafMirrors' = [kafMirrors EXCEPT ![j] = m]
  /\ UNCHANGED <<ordered, standing>>

(* A mirror is withdrawn while it runs, for somebody to stop, or after it  *)
(* has been closed; not in between.                                        *)
Withdraw(j) ==
  /\ kafMirrors[j] # None
  /\ life[kafMirrors[j]] \in {"running", "closed"}
  /\ kafMirrors' = [kafMirrors EXCEPT ![j] = None]
  /\ UNCHANGED <<life, jobOf, ordered, standing>>

Cancel(m) ==
  /\ life[m] = "running"
  /\ life' = [life EXCEPT ![m] = "cancelled"]
  /\ UNCHANGED <<kafMirrors, jobOf, ordered, standing>>

Close(m) ==
  /\ life[m] = "cancelled"
  /\ life' = [life EXCEPT ![m] = "closed"]
  /\ UNCHANGED <<kafMirrors, jobOf, ordered, standing>>

Order ==
  /\ ~ordered
  /\ ordered' = TRUE
  /\ UNCHANGED <<kafMirrors, life, jobOf, standing>>

(* All mirrors are withdrawn at once, and none of them is being stopped    *)
(* already.  If the order is still there, it stands from now on.           *)
Halt ==
  /\ \A m \in Mirror : Serves(m) => life[m] = "running"
  /\ kafMirrors' = [j \in Job |-> None]
  /\ standing' = ordered
  /\ UNCHANGED <<life, jobOf, ordered>>

Lift ==
  /\ ordered
  /\ ordered' = FALSE /\ standing' = FALSE
  /\ UNCHANGED <<kafMirrors, life, jobOf>>

(* The program dies, and every mirror with it; the order to halt stays.    *)
Crash ==
  /\ kafMirrors' = [j \in Job |-> None]
  /\ life' = [m \in Mirror |-> IF life[m] = "new" THEN "new" ELSE "closed"]
  /\ UNCHANGED <<jobOf, ordered, standing>>

Next ==
  \/ \E j \in Job : Withdraw(j) \/ \E m \in Mirror : Serve(j, m)
  \/ \E m \in Mirror : Cancel(m) \/ Close(m)
  \/ Order \/ Halt \/ Lift \/ Crash

Spec == Init /\ [][Next]_vars
=============================================================================
