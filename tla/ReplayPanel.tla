----------------------------- MODULE ReplayPanel -----------------------------
(***************************************************************************)
(* The replay panel of the dashboard (frontend/src/components/             *)
(* ReplayModal.tsx): it triggers replays and polls the status of the one   *)
(* it shows.  What it relies on, the job store of backend/app/routers/     *)
(* replay.py, is JobStore.                                                 *)
(*                                                                         *)
(* A step is a handler of the browser up to its next await, a tick of the  *)
(* poll's interval, or the server answering one request.  Each request is  *)
(* in flight from its fetch to its answer, and answers come in any order:  *)
(* nothing in the panel cancels a request or looks at what it has done     *)
(* since.  The panel stays mounted, and polls, while it is closed.         *)
(*                                                                         *)
(* The names of the specification start with Panel: the proofs extend this *)
(* module beside ReplayJobs.                                               *)
(***************************************************************************)
EXTENDS JobStore, FiniteSets, Naturals

CONSTANTS NoJob,
          MaxPolls,    \* bound on the polls in flight
          MaxRuns,     \* bound on the trigger requests in flight
          MaxUploads,  \* bound on the uploads in flight
          Faults       \* which of "network", "restart" may happen

ASSUME PanelAssumption ==
    /\ NoJob \notin JobIds
    /\ MaxPolls \in Nat \ {0} /\ MaxRuns \in Nat \ {0} /\ MaxUploads \in Nat
    /\ Faults \subseteq {"network", "restart"}

VARIABLES
    net,         \* requests are answered
    open,        \* the panel is shown
    activeJob,   \* the job it shows
    toast,       \* what its message says of a job, if it does
    uploads,     \* how many uploads are in flight
    posts,       \* trigger requests in flight
    polls        \* status requests in flight

panel     == <<open, activeJob, toast, uploads>>
panelVars == <<jobs, net, panel, posts, polls>>

NotYet    == {"queued", "processing"}
NoReplay  == [id |-> NoJob, status |-> "none"]
NoToast   == [kind |-> "none", job |-> NoJob]   \* none, or one that is about no job

\* A trigger request that the server has not seen, and one that has failed.
Asked  == [stage |-> "asked"]
Failed == [stage |-> "failed"]

PanelInit ==
    /\ StoreInit /\ net \in {b \in BOOLEAN : b \/ "network" \in Faults}
    /\ open = FALSE /\ activeJob = NoReplay /\ toast = NoToast /\ uploads = 0
    /\ posts = {} /\ polls = {}
----------------------------------------------------------------------------
\* Opening and closing the panel; what it shows of a job stays.
SetOpen ==
    /\ open' = ~open
    /\ UNCHANGED <<jobs, net, activeJob, toast, uploads, posts, polls>>

\* A file is dropped or chosen, also while another one is on its way.
Upload ==
    /\ open /\ uploads < MaxUploads
    /\ uploads' = uploads + 1 /\ toast' = NoToast
    /\ UNCHANGED <<jobs, net, open, activeJob, posts, polls>>

\* ... handleFileUpload ends, even if the panel has been closed: its message
\* takes the place of the one about a job.
Uploaded ==
    /\ uploads > 0
    /\ uploads' = uploads - 1 /\ toast' = NoToast
    /\ UNCHANGED <<jobs, net, open, activeJob, posts, polls>>

\* RUN REPLAY is enabled by the job that is shown, not the one on its way.
RunEnabled == activeJob.status # "processing"

RunReplay ==
    /\ open /\ RunEnabled
    /\ Asked \notin posts /\ Cardinality(posts) < MaxRuns
    /\ toast' = NoToast
    /\ posts' = posts \cup {Asked}
    /\ UNCHANGED <<jobs, net, open, activeJob, uploads, polls>>

\* trigger_pcap_replay gives the job an id that was never used.  The capture
\* may be gone.
ServeRun ==
    /\ Asked \in posts
    /\ \/ /\ net
          /\ \E j \in JobIds : /\ Queue(j)
                               /\ posts' = (posts \ {Asked}) \cup {[stage |-> "ok", job |-> j]}
       \/ posts' = (posts \ {Asked}) \cup {Failed} /\ UNCHANGED jobs
    /\ UNCHANGED <<net, panel, polls>>

\* The job is shown as processing, whatever it is doing.
Triggered(p) ==
    /\ p # Asked
    /\ posts' = posts \ {p}
    /\ \/ p = Failed /\ toast' = NoToast /\ UNCHANGED activeJob
       \/ p # Failed /\ activeJob' = [id |-> p.job, status |-> "processing"] /\ UNCHANGED toast
    /\ UNCHANGED <<jobs, net, open, uploads, polls>>
----------------------------------------------------------------------------
\* A bug: only a job that is shown as processing is polled.
PollProcessing ==
    /\ activeJob.status = "processing" /\ Cardinality(polls) < MaxPolls
    /\ polls' = polls \cup {[job |-> activeJob.id, got |-> "asked"]}
    /\ UNCHANGED <<jobs, net, panel, posts>>

\* The interval runs as long as the job that is shown has not ended.
Poll ==
    /\ activeJob.status \in NotYet /\ Cardinality(polls) < MaxPolls
    /\ polls' = polls \cup {[job |-> activeJob.id, got |-> "asked"]}
    /\ UNCHANGED <<jobs, net, panel, posts>>

\* get_replay_job_status, 404 when the job is forgotten.
ServePoll(p) ==
    /\ p.got = "asked"
    /\ polls' = (polls \ {p}) \cup {[p EXCEPT !.got = IF net THEN jobs[p.job] ELSE "failed request"]}
    /\ UNCHANGED <<jobs, net, panel, posts>>

\* A bug: the status is written into the job that is shown.
PolledInto(p) ==
    /\ p.got # "asked"
    /\ polls' = polls \ {p}
    /\ activeJob' = IF p.got \in NotYet \cup Ended THEN [activeJob EXCEPT !.status = p.got] ELSE activeJob
    /\ toast' = IF p.got \in Ended THEN [kind |-> p.got, job |-> p.job] ELSE toast
    /\ UNCHANGED <<jobs, net, open, uploads, posts>>

\* The answer replaces the job that is shown, even if that has changed since;
\* an answer that is not ok is ignored.
Polled(p) ==
    /\ p.got # "asked"
    /\ polls' = polls \ {p}
    /\ activeJob' = IF p.got \in NotYet \cup Ended THEN [id |-> p.job, status |-> p.got] ELSE activeJob
    /\ toast' = IF p.got \in Ended THEN [kind |-> p.got, job |-> p.job] ELSE toast
    /\ UNCHANGED <<jobs, net, open, uploads, posts>>

Dismiss ==
    /\ open /\ toast # NoToast
    /\ toast' = NoToast
    /\ UNCHANGED <<jobs, net, open, activeJob, uploads, posts, polls>>

\* The look of the card of the job; it has none for "queued".
Card ==
    CASE activeJob = NoReplay            -> "no card"
      [] activeJob.status = "processing" -> "spinner"
      [] activeJob.status = "completed"  -> "check"
      [] OTHER                           -> "alert"
----------------------------------------------------------------------------
JobStep ==
    /\ \E j \in JobIds : Start(j) \/ Finish(j)
    /\ UNCHANGED <<net, panel, posts, polls>>

Restart ==
    /\ "restart" \in Faults
    /\ Forget
    /\ UNCHANGED <<net, panel, posts, polls>>

NetSwitch ==
    /\ "network" \in Faults
    /\ net' = ~net
    /\ UNCHANGED <<jobs, panel, posts, polls>>
----------------------------------------------------------------------------
PanelNext ==
    \/ SetOpen \/ Upload \/ Uploaded \/ Dismiss \/ RunReplay \/ ServeRun \/ Poll \/ JobStep \/ Restart \/ NetSwitch
    \/ \E p \in posts : Triggered(p)
    \/ \E p \in polls : ServePoll(p) \/ Polled(p)

PanelSpec == PanelInit /\ [][PanelNext]_panelVars

(* The interval ticks, every poll is answered or fails, and a job ends     *)
(* (JobsEnd of ReplayJobs).                                                *)
PanelFairness ==
    /\ WF_panelVars(Poll)
    /\ \A j \in JobIds : WF_panelVars(JobStep /\ jobs'[j] # jobs[j])
    /\ \A j \in JobIds : WF_panelVars(\E p \in polls : p.job = j /\ ServePoll(p))
    /\ \A j \in JobIds : WF_panelVars(\E p \in polls : p.job = j /\ Polled(p))

PanelFairSpec == PanelSpec /\ PanelFairness
----------------------------------------------------------------------------
PanelTypeOK ==
    /\ jobs \in [JobIds -> {"none", "forgotten"} \cup NotYet \cup Ended]
    /\ net \in BOOLEAN /\ open \in BOOLEAN /\ uploads \in 0..MaxUploads
    /\ activeJob = NoReplay \/ /\ activeJob.id \in JobIds /\ jobs[activeJob.id] # "none"
                               /\ activeJob.status \in NotYet \cup Ended
    /\ toast.kind \in {"none"} \cup Ended /\ toast.job \in JobIds \cup {NoJob}
    /\ posts \subseteq {Asked, Failed} \cup [stage : {"ok"}, job : JobIds]
    /\ \A p \in polls : p.job \in JobIds /\ jobs[p.job] # "none"

(* A job whose card shows the check mark or, but for a queued one, the     *)
(* alert, or that the message announces as ended, did end that way: no     *)
(* late answer of another job's poll, and no answer from before the end,   *)
(* puts the end of one job on another.                                     *)
EndIsTrue ==
    /\ Card = "check" => jobs[activeJob.id] \in {"completed", "forgotten"}
    /\ Card = "alert" => activeJob.status = "queued" \/ jobs[activeJob.id] \in {"failed", "forgotten"}
    /\ toast.kind \in Ended => jobs[toast.job] \in {toast.kind, "forgotten"}

(* The panel does not lose track of the replay it shows: when the network  *)
(* holds, it shows the end of it in the end, however late and out of order *)
(* the polls are answered, unless it shows another one by then or the      *)
(* process has forgotten the job.                                          *)
EndIsShown ==
    <>[]net => \A j \in JobIds :
        activeJob.id = j ~> (activeJob.id # j \/ activeJob.status \in Ended \/ jobs[j] = "forgotten")
=============================================================================
