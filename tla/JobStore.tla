------------------------------- MODULE JobStore -------------------------------
(***************************************************************************)
(* What the job store of the replays promises to those who ask for a job's *)
(* status (replay_jobs in backend/app/routers/replay.py): a job is queued, *)
(* processed, and ends once, as completed or failed; a restart of the      *)
(* process forgets every job.  ReplayJobs implements this, ReplayPanel     *)
(* relies on it.                                                           *)
(***************************************************************************)
CONSTANT JobIds   \* the ids that may be given to jobs

VARIABLE jobs     \* replay_jobs[id]["status"]; "none" before, "forgotten" after

Ended == {"completed", "failed"}

StoreInit == jobs = [j \in JobIds |-> "none"]

\* POST /api/replay/trigger.
Queue(j) == jobs[j] = "none" /\ jobs' = [jobs EXCEPT ![j] = "queued"]

\* execute_pcap_replay_job begins ...
Start(j) == jobs[j] = "queued" /\ jobs' = [jobs EXCEPT ![j] = "processing"]

\* ... and ends.
Finish(j) ==
    /\ jobs[j] = "processing"
    /\ \E s \in Ended : jobs' = [jobs EXCEPT ![j] = s]

\* The dictionary lives in the process.
Forget == jobs' = [j \in JobIds |-> IF jobs[j] = "none" THEN "none" ELSE "forgotten"]

StoreNext == Forget \/ \E j \in JobIds : Queue(j) \/ Start(j) \/ Finish(j)

StoreSpec == StoreInit /\ [][StoreNext]_jobs
=============================================================================
