----------------------------- MODULE WorkQueue -----------------------------
(***************************************************************************)
(* What the thread pool of support/threadpool promises to the service that *)
(* owns it: a request handed to lwfs_thread_pool_add_request is run at     *)
(* most once, requests are started in the order in which they were added,  *)
(* and lwfs_thread_pool_fini returns only when no handler is running.  A   *)
(* request may be dropped unrun only after lwfs_exit_now() became true.    *)
(*                                                                         *)
(* ThreadPool.tla implements this specification.                           *)
(***************************************************************************)
EXTENDS Naturals

CONSTANT Requests            \* a set of numbers, in submission order

VARIABLES status,            \* where each request is in its life
          aborted,           \* lwfs_exit_now()
          closed             \* lwfs_thread_pool_fini returned

wqVars == <<status, aborted, closed>>

Status == {"new", "queued", "running", "done", "dropped"}

WQTypeOK ==
  /\ status \in [Requests -> Status]
  /\ aborted \in BOOLEAN
  /\ closed \in BOOLEAN

WQInit ==
  /\ status = [r \in Requests |-> "new"]
  /\ aborted = FALSE
  /\ closed = FALSE

\* Requests are added in the order of their numbers.
Add(r) ==
  /\ ~closed
  /\ status[r] = "new"
  /\ \A s \in Requests : s < r => status[s] # "new"
  /\ status' = [status EXCEPT ![r] = "queued"]
  /\ UNCHANGED <<aborted, closed>>

\* Only the oldest queued request may be started.
Start(r) ==
  /\ ~closed
  /\ status[r] = "queued"
  /\ \A s \in Requests : s < r => status[s] \notin {"new", "queued"}
  /\ status' = [status EXCEPT ![r] = "running"]
  /\ UNCHANGED <<aborted, closed>>

Finish(r) ==
  /\ status[r] = "running"
  /\ status' = [status EXCEPT ![r] = "done"]
  /\ UNCHANGED <<aborted, closed>>

Abort ==
  /\ aborted' = TRUE
  /\ UNCHANGED <<status, closed>>

\* Closing waits for the running requests; it drops queued ones only after an
\* abort.
Close ==
  /\ ~closed
  /\ \A r \in Requests : status[r] # "running"
  /\ (\E r \in Requests : status[r] = "queued") => aborted
  /\ status' = [r \in Requests |->
                  IF status[r] = "queued" THEN "dropped" ELSE status[r]]
  /\ closed' = TRUE
  /\ UNCHANGED aborted

WQNext ==
  \/ \E r \in Requests : Add(r) \/ Start(r) \/ Finish(r)
  \/ Abort
  \/ Close

WQSpec == WQInit /\ [][WQNext]_wqVars
=============================================================================
