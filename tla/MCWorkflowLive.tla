---------------------------- MODULE MCWorkflowLive ----------------------------
(***************************************************************************)
(* WorkflowJobs from an arbitrary moment on at which faults stop: nothing  *)
(* crashes or rolls back any more, callers do as they please.              *)
(***************************************************************************)
EXTENDS MCWorkflowJobs

VARIABLE calm      \* have the faults stopped

LiveInit == Init /\ calm = FALSE

LiveNext ==
  \/ /\ Caller \/ Coordinator \/ \E w \in Workers : Worker(w)
     /\ UNCHANGED calm
  \/ ~calm /\ Fault /\ UNCHANGED calm
  \/ ~calm /\ calm' = TRUE /\ UNCHANGED vars

\* The coordinator polls every 50 ms and is restarted by a caller that retries.
\* A worker's transactions retry BEGIN for as long as its deadline allows, while
\* the coordinator's lock is free between polls: strong fairness.  Its native
\* work ends because the guard ends it at attempt_seconds.
LiveSpec ==
  /\ LiveInit /\ [][LiveNext]_<<vars, calm>>
  /\ WF_<<vars, calm>>(~calm /\ calm' = TRUE /\ UNCHANGED vars)
  /\ WF_<<vars, calm>>(Coordinator /\ UNCHANGED calm)
  /\ \A w \in Workers : SF_<<vars, calm>>(Worker(w) /\ UNCHANGED calm)

\* A queued job does not stay queued: it is claimed, refused or cancelled, even
\* when workers of cancelled jobs and of rolled back claims held the capacity.
QueuedServed == \A j \in Jobs : state[j] = "queued" ~> state[j] # "queued"

\* A claim that commits is run: the spawned child does not mistake the snapshot
\* it read before the commit for a claim that was taken back.
ClaimsAreRun ==
  \A w \in Workers, j \in Jobs :
    calm /\ serves[w] = j /\ j \in claimed
      ~> (serves[w] = j /\ pc[w] = "working") \/ state[j] = "cancelled"
=============================================================================
