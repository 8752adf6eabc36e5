------------------------------ MODULE ReplayJobs ------------------------------
(***************************************************************************)
(* Replays of captures: the jobs of backend/app/routers/replay.py and the  *)
(* older replay of backend/app/main.py.  Each has a thread of its own and  *)
(* runs Zeek in a container, whose name they share, or the PCAP engine;    *)
(* its shipper reads the logs line by line, sends them to Kafka, and the   *)
(* events go to a pipeline: the live one for jobs, an isolated one for the *)
(* older replay.  A container whose time is over writes on, into files the *)
(* PCAP engine has written and the shipper reads.                          *)
(* Composes ZeekLogs (the data) and KafkaIngest (the topics, the consumer).*)
(***************************************************************************)
EXTENDS ZeekLogs, KafkaIngest

CONSTANTS Jobs,       \* replay jobs, each triggered once
          Legacies,   \* replays started by POST /api/replay/start, each once
          Files,      \* captures in pcaps/
          Capture,    \* what is in each of them
          Zeek,       \* the lines of Zeek's logs of each of them, and of ...
          Every,      \* ... all of them, one run of Zeek after the other
          NoFile,
          Nobody,     \* no container
          Docker,     \* the host has Docker
          Exceptions  \* may a step of a replay raise?

\* What the PCAP engine makes of a capture, and the connections it finds there.
EngineLogs == [f \in Files |-> Exported(Capture[f])]
EngineUids(f) == {e.uid : e \in ToSet(EngineLogs[f].conn)}

ASSUME ReplayAssumption ==
    /\ Jobs \cap Legacies = {} /\ NoFile \notin Files
    /\ Nobody \notin Jobs \cup Legacies
    /\ Docker \in BOOLEAN /\ Exceptions \in BOOLEAN
    /\ \A f \in Files : /\ Capture[f] \in Seq(ToSet(Capture[f]))
                        /\ \A frame \in ToSet(Capture[f]) : frame.len \in Nat

(* Of Zeek no more is assumed than that it writes one conn line for each   *)
(* connection, under a uid that is not one of the PCAP engine's.  It may   *)
(* write many dns and ssl lines for a connection, count payload only, tell *)
(* connections apart by protocol, and decode what the PCAP engine does not.*)
ASSUME ZeekAssumption ==
    \A f \in Files \cup {Every} :
        /\ \A l \in Logs : Zeek[f][l] \in Seq(ToSet(Zeek[f][l]))
        /\ \A i, k \in DOMAIN Zeek[f].conn : Zeek[f].conn[i].uid = Zeek[f].conn[k].uid => i = k
        /\ \A l \in Logs : \A e \in ToSet(Zeek[f][l]) : \A g \in Files : e.uid \notin EngineUids(g)
        /\ \A e \in ToSet(Zeek[f].conn) : {e.out, e.in, e.outIp, e.inIp} \subseteq Nat

Threads == Jobs \cup Legacies

VARIABLES
    status,     \* replay_jobs[j]["status"], or "none"
    totals,     \* total_flows and published_records of a job
    legacy,     \* replay_state["status"]
    pc,         \* what each thread does next
    file,       \* the capture it replays
    logs,       \* the files in its temporary directory
    container,  \* whose the container threatlens-zeek-replay is
    link,       \* its shipper is connected to Kafka
    cache,      \* its shipper's correlation cache
    step,       \* how many log files it is done with
    pos,        \* the last lines it has read of the next one, by who wrote them
    records,    \* the records it has read, of all files
    handled,    \* how many of them it has evaluated
    counted,    \* total_flows and published_records of a job's function
    exported    \* history: the PCAP engine has written all it had to, alone

setup  == <<status, totals, legacy, file, container>>
data   == <<logs, link, cache, step, pos, records, handled, counted, exported>>
replay == <<setup, data, pc>>
vars   == <<replay, kafka>>

(* A log file is what the two engines have written into it: the first so   *)
(* many lines of the PCAP engine, and maybe lines of Zeek.  Two processes  *)
(* that write one file overwrite each other's lines, so of such a file any *)
(* lines may be left; one that is torn is not JSON and is skipped.         *)
Empty == [l \in Logs |-> [engine |-> 0, zeek |-> FALSE]]
Top == [engine |-> 0, zeek |-> 0]
Zero  == [flows |-> 0, published |-> 0]

Init ==
    /\ KafkaInit
    /\ status = [j \in Jobs |-> "none"] /\ totals = [j \in Jobs |-> Zero]
    /\ legacy = "idle"
    /\ pc = [t \in Threads |-> "idle"] /\ file = [t \in Threads |-> NoFile]
    /\ logs = [t \in Threads |-> Empty] /\ container = Nobody
    /\ link = [t \in Threads |-> FALSE] /\ cache = [t \in Threads |-> NoCache]
    /\ step = [t \in Threads |-> 0] /\ pos = [t \in Threads |-> Top]
    /\ records = [t \in Threads |-> <<>>]
    /\ handled = [t \in Threads |-> 0] /\ counted = [j \in Jobs |-> Zero]
    /\ exported = [t \in Threads |-> FALSE]

Goto(t, l) == pc' = [pc EXCEPT ![t] = l]

\* What the container works on: the older replay names no capture.
Given(t) == IF t \in Jobs THEN file[t] ELSE Every

\* The order in which a job reads the logs, and the older replay.
Order(t) == IF t \in Jobs THEN <<"conn", "dns", "ssl">> ELSE <<"dns", "ssl", "conn">>
----------------------------------------------------------------------------
(* A replay begins.                                                        *)

\* A bug: a replay that failed is retried under its id.
TriggerAgain(j) ==
    /\ status[j] \in {"none", "failed"}
    /\ \E f \in Files : file' = [file EXCEPT ![j] = f]
    /\ status' = [status EXCEPT ![j] = "queued"]
    /\ Goto(j, "begin")
    /\ UNCHANGED <<totals, legacy, container, data, kafka>>

\* POST /api/replay/trigger.
Trigger(j) ==
    /\ status[j] = "none"
    /\ \E f \in Files : file' = [file EXCEPT ![j] = f]
    /\ status' = [status EXCEPT ![j] = "queued"]
    /\ Goto(j, "begin")
    /\ UNCHANGED <<totals, legacy, container, data, kafka>>

\* POST /api/replay/start: 409 when a replay is running ...
Request(l) ==
    /\ file[l] = NoFile /\ legacy # "running"
    /\ \E f \in Files : file' = [file EXCEPT ![l] = f]
    /\ Goto(l, "begin")
    /\ UNCHANGED <<status, totals, legacy, container, data, kafka>>

\* ... which it is when its thread has begun.
Begin(t) ==
    /\ pc[t] = "begin"
    /\ status' = [j \in Jobs |-> IF j = t THEN "processing" ELSE status[j]]
    /\ legacy' = IF t \in Legacies THEN "running" ELSE legacy
    /\ Goto(t, IF Docker THEN "remove" ELSE "native")
    /\ UNCHANGED <<totals, file, container, data, kafka>>
----------------------------------------------------------------------------
(* The container.                                                          *)

\* docker rm -f, whoever's container it is: it may fail, which nobody looks at,
\* or time out, with or without effect.
RemoveContainer(t) ==
    /\ pc[t] = "remove"
    /\ container' \in {container, Nobody}
    /\ \E l \in {"run", "native"} : Goto(t, l)
    /\ UNCHANGED <<status, totals, legacy, file, data, kafka>>

\* docker compose run fails if another has taken the name.  If not, Zeek may
\* write the logs of the thread from now on, until the container is gone.
Run(t) ==
    /\ pc[t] = "run"
    /\ \/ /\ container = Nobody /\ container' = t
          /\ logs' = [logs EXCEPT ![t] = [l \in Logs |-> [@[l] EXCEPT !.zeek = TRUE]]]
          /\ Goto(t, "wait")
       \/ UNCHANGED <<container, logs>> /\ Goto(t, "native")
    /\ UNCHANGED <<status, totals, legacy, file, kafka>>
    /\ UNCHANGED <<link, cache, step, pos, records, handled, counted, exported>>

\* The container is done, even if Zeek has failed on a capture.  A job runs the
\* PCAP engine all the same: its zeek_success is never set.
Finished(t) ==
    /\ pc[t] = "wait" /\ container = t
    /\ container' = Nobody
    /\ Goto(t, IF t \in Jobs THEN "native" ELSE "ship")
    /\ UNCHANGED <<status, totals, legacy, file, data, kafka>>

\* A bug: there is no timeout, only the removal by another replay ends the wait.
WaitForever(t) ==
    /\ pc[t] = "wait" /\ container # t
    /\ Goto(t, "native")
    /\ UNCHANGED <<setup, data, kafka>>

\* Another replay has removed it, or 30 s are over: then it lingers ...
GiveUp(t) ==
    /\ pc[t] = "wait"
    /\ Goto(t, "native")
    /\ UNCHANGED <<setup, data, kafka>>

\* ... and ends by itself.
Linger(t) ==
    /\ container = t /\ pc[t] # "wait"
    /\ container' = Nobody
    /\ UNCHANGED <<status, totals, legacy, pc, file, data, kafka>>
----------------------------------------------------------------------------
(* The native engine.                                                      *)

Whole(t) == [l \in Logs |-> Len(EngineLogs[file[t]][l])]

\* A bug: the files are opened to append.
WrittenBehind(t, opened, n) ==
    [l \in Logs |-> IF l \in opened THEN [engine |-> n[l], zeek |-> logs[t][l].zeek] ELSE logs[t][l]]

\* The engine has emptied the files it opened, and written the first n[l] lines.
Written(t, opened, n) ==
    [l \in Logs |-> IF l \in opened THEN [engine |-> n[l], zeek |-> container = t] ELSE logs[t][l]]

\* What it has written when it raises: first it parses the capture, then it opens
\* the files, one after the other, then it writes flow by flow.
Begun(t) ==
    {logs[t]} \cup {Written(t, opened, [l \in Logs |-> 0]) : opened \in {{"conn"}, {"conn", "dns"}}}
    \cup {Written(t, Logs, n) : n \in {n \in [Logs -> 0..Whole(t)["conn"]] : \A l \in Logs : n[l] <= Whole(t)[l]}}

\* export_zeek_logs; a failure is logged, and what is in the directory stays.
\* What a container writes meanwhile is any of its lines: this can be one step.
Native(t) ==
    /\ pc[t] = "native"
    /\ \/ /\ logs' = [logs EXCEPT ![t] = Written(t, Logs, Whole(t))]
          /\ exported' = [exported EXCEPT ![t] = container # t]
       \/ /\ Exceptions
          /\ \E g \in Begun(t) : logs' = [logs EXCEPT ![t] = g]
          /\ UNCHANGED exported
    /\ Goto(t, "ship")
    /\ UNCHANGED <<setup, link, cache, step, pos, records, handled, counted, kafka>>
----------------------------------------------------------------------------
(* The shipper, and the evaluation of what it reads.                       *)

\* A new shipper connects if the broker is there.
Ship(t) ==
    /\ pc[t] = "ship"
    /\ link' = [link EXCEPT ![t] = broker]
    /\ Goto(t, "read")
    /\ UNCHANGED <<setup, logs, cache, step, pos, records, handled, counted, exported, kafka>>

\* emit: without the broker a record goes to a queue that nothing reads.
Emit(t) ==
    /\ topic' = IF link[t] /\ broker THEN Append(topic, [by |-> t, ok |-> TRUE]) ELSE topic
    /\ UNCHANGED <<broker, consuming, next, foreign, evaluated>>

\* The log it reads, and the lines that either engine may have written there.
Log(t) == Order(t)[step[t] + 1]

Lines(t) == [engine |-> EngineLogs[file[t]][Log(t)],
             zeek   |-> Zeek[Given(t)][Log(t)]]

\* The lines of one engine that may come next: of a file that the PCAP engine
\* wrote alone its next line, of any other file any line behind the last one.
Ahead(t, by) ==
    LET log == logs[t][Log(t)]
        end == IF by = "engine" THEN log.engine ELSE Len(Lines(t).zeek)
    IN {i \in (pos[t][by] + 1)..end : log.zeek \/ (by = "engine" /\ i = pos[t][by] + 1)}

\* process_log_line, for the next line of the file that can be parsed.
ReadLine(t) ==
    /\ pc[t] = "read"
    /\ \E by \in {"engine", "zeek"} : \E i \in Ahead(t, by) :
          LET line == Process(Log(t), Lines(t)[by][i], cache[t])
          IN /\ records' = [records EXCEPT ![t] = Append(@, line.record)]
             /\ cache' = [cache EXCEPT ![t] = line.cache]
             /\ pos' = [pos EXCEPT ![t][by] = i]
    /\ Emit(t)
    /\ UNCHANGED <<setup, pc, logs, link, step, handled, counted, exported>>

\* process_log_file returns the records; a job counts them.
EndOfFile(t) ==
    /\ pc[t] = "read" /\ (Ahead(t, "engine") = {} \/ logs[t][Log(t)].zeek)
    /\ LET n == Len(records[t]) - handled[t]
       IN counted' = [j \in Jobs |-> IF j # t THEN counted[j] ELSE
              [flows |-> counted[j].flows + (IF Log(t) = "conn" THEN n ELSE 0),
               published |-> counted[j].published + n]]
    /\ Goto(t, "evaluate")
    /\ UNCHANGED <<setup, logs, link, cache, step, pos, records, handled, exported, kafka>>

\* The next one is evaluated; a job sends it once more before.
Evaluate(t) ==
    /\ pc[t] = "evaluate" /\ handled[t] < Len(records[t])
    /\ handled' = [handled EXCEPT ![t] = @ + 1]
    /\ IF t \in Jobs THEN Emit(t) ELSE UNCHANGED kafka
    /\ UNCHANGED <<setup, pc, logs, link, cache, step, pos, records, counted, exported>>

\* A bug: the position is not that of a new file.
NextFileOn(t) ==
    /\ pc[t] = "evaluate" /\ handled[t] = Len(records[t])
    /\ step' = [step EXCEPT ![t] = @ + 1]
    /\ Goto(t, IF step[t] < 2 THEN "read" ELSE "done")
    /\ UNCHANGED <<setup, logs, link, cache, pos, records, handled, counted, exported, kafka>>

NextFile(t) ==
    /\ pc[t] = "evaluate" /\ handled[t] = Len(records[t])
    /\ step' = [step EXCEPT ![t] = @ + 1]
    /\ pos' = [pos EXCEPT ![t] = Top]
    /\ Goto(t, IF step[t] < 2 THEN "read" ELSE "done")
    /\ UNCHANGED <<setup, logs, link, cache, records, handled, counted, exported, kafka>>

\* The function returns: its directory and its shipper go, the outcome is noted.
End(t, outcome) ==
    /\ status' = [j \in Jobs |-> IF j = t THEN outcome ELSE status[j]]
    /\ legacy' = IF t \in Legacies THEN outcome ELSE legacy
    /\ Goto(t, "idle")
    /\ logs' = [logs EXCEPT ![t] = Empty] /\ cache' = [cache EXCEPT ![t] = NoCache]
    /\ link' = [link EXCEPT ![t] = FALSE] /\ step' = [step EXCEPT ![t] = 0]
    /\ pos' = [pos EXCEPT ![t] = Top]
    /\ counted' = [j \in Jobs |-> IF j = t THEN Zero ELSE counted[j]]
    /\ UNCHANGED <<file, container, records, handled, exported>>

Complete(t) ==
    /\ pc[t] = "done"
    /\ End(t, "completed")
    /\ totals' = [j \in Jobs |-> IF j = t THEN counted[t] ELSE totals[j]]
    /\ UNCHANGED kafka

\* Anything may raise while records are read and evaluated, and the pipeline when
\* a record has just been sent.
Fail(t) ==
    /\ Exceptions /\ pc[t] \in {"ship", "read", "evaluate", "done"}
    /\ End(t, "failed")
    /\ UNCHANGED totals
    /\ \/ UNCHANGED kafka
       \/ t \in Jobs /\ pc[t] = "evaluate" /\ handled[t] < Len(records[t]) /\ Emit(t)
----------------------------------------------------------------------------
Proceed(t) ==
    \/ Begin(t) \/ RemoveContainer(t) \/ Run(t) \/ GiveUp(t) \/ Native(t) \/ Ship(t)
    \/ ReadLine(t) \/ EndOfFile(t) \/ Evaluate(t) \/ NextFile(t) \/ Complete(t)

Next ==
    \/ \E j \in Jobs : Trigger(j)
    \/ \E l \in Legacies : Request(l)
    \/ \E t \in Threads : Proceed(t) \/ Fail(t) \/ Finished(t) \/ Linger(t)
    \/ KafkaNext /\ UNCHANGED replay

Spec == Init /\ [][Next]_vars

(* The threads of the replays run, and a subprocess ends or is given up    *)
(* after its timeout.  Nothing is assumed of the container, of Kafka or of *)
(* those who start replays.                                                *)
Fairness == \A t \in Threads : WF_vars(Proceed(t))

FairSpec == Spec /\ Fairness
----------------------------------------------------------------------------
TypeOK ==
    /\ KafkaTypeOK
    /\ status \in [Jobs -> {"none", "queued", "processing", "completed", "failed"}]
    /\ legacy \in {"idle", "running", "completed", "failed"}
    /\ pc \in [Threads -> {"idle", "begin", "remove", "run", "wait", "native", "ship",
                           "read", "evaluate", "done"}]
    /\ file \in [Threads -> Files \cup {NoFile}] /\ container \in Threads \cup {Nobody}
    /\ logs \in [Threads -> [Logs -> [engine : Nat, zeek : BOOLEAN]]]
    /\ link \in [Threads -> BOOLEAN] /\ step \in [Threads -> 0..3]
    /\ pos \in [Threads -> [engine : Nat, zeek : Nat]] /\ exported \in [Threads -> BOOLEAN]
    /\ \A t \in Threads : \A u \in DOMAIN cache[t] : DOMAIN cache[t][u] = {"dns", "ja3"}
    /\ \A t \in Threads : handled[t] \in 0..Len(records[t])
    /\ \A j \in Jobs : counted[j].flows <= counted[j].published

(* A job that is completed has evaluated records of its own capture and of *)
(* no other, whatever replays take the container from one another, and no  *)
(* connection of Zeek's nor anything of the PCAP engine's twice, even from *)
(* logs both engines write while they are read.  It reports how many it    *)
(* evaluated.  If the PCAP engine wrote its logs undisturbed, these are    *)
(* all of its records and nothing else: what a container left is gone.     *)
JobHandlesItsCapture ==
    \A j \in Jobs : status[j] = "completed" =>
        LET done == 1..handled[j]
            r(i) == records[j][i]
            made(i, engine) == \E e \in ToSet(engine[file[j]][r(i).log]) : e.uid = r(i).uid
        IN /\ \A i \in done : made(i, EngineLogs) \/ made(i, Zeek)
           /\ \A i, k \in done :
                 /\ r(i).log = r(k).log /\ r(i).uid = r(k).uid
                 /\ r(i).log = "conn" \/ made(i, EngineLogs)
                 => i = k
           /\ totals[j].published = handled[j]
           /\ totals[j].flows = Cardinality({i \in done : r(i).log = "conn"})
           /\ exported[j] =>
                 /\ \A i \in done : made(i, EngineLogs)
                 /\ \A l \in Logs : \A e \in ToSet(EngineLogs[file[j]][l]) :
                       \E i \in done : r(i).log = l /\ r(i).uid = e.uid

(* The bytes of every packet of a connection are in the event that the     *)
(* PCAP engine's line of it became, in either direction: aggregation and   *)
(* export lose or double none.  Nor does the normalisation of Zeek's lines *)
(* lose any, where a count of payload gives way to one of the IP level and *)
(* a one-way flood is turned around.                                       *)
BytesConserved ==
    \A t \in Threads : \A i \in 1..handled[t] : LET r == records[t][i] IN
        r.log = "conn" =>
            IF r.uid \in EngineUids(file[t])
            THEN r.out + r.in = Bytes(Capture[file[t]], {r.uid, Mirror(r.uid)})
            ELSE \E e \in ToSet(Zeek[Given(t)].conn) :
                    e.uid = r.uid /\ r.out + r.in = Or(e.out, e.outIp) + Or(e.in, e.inIp)

\* The last record of another log that a conn record could take along.
Latest(seen, i, log) ==
    LET of(k) == seen[k].log = log /\ seen[k].uid = seen[i].uid
    IN {k \in 1..(i - 1) : of(k) /\ \A m \in (k + 1)..(i - 1) : ~of(m)}

(* The older replay gives the pipeline each connection with its last       *)
(* question and its last TLS fingerprint of those that were in the other   *)
(* logs, and with those of no other connection (its shipper "correlates    *)
(* connection metadata").                                                  *)
LegacyEnriched ==
    \A l \in Legacies : \A i \in 1..handled[l] : LET seen == records[l] IN
        seen[i].log = "conn" =>
            /\ \A k \in Latest(seen, i, "dns") : seen[i].dns = seen[k].dns
            /\ \A k \in Latest(seen, i, "ssl") : seen[i].ja3 = seen[k].ja3
            /\ Latest(seen, i, "dns") = {} => seen[i].dns = None
            /\ Latest(seen, i, "ssl") = {} => seen[i].ja3 = None

(* Every job that is triggered ends as completed or failed, whatever the   *)
(* container does.                                                         *)
JobsEnd == \A j \in Jobs : status[j] = "queued" ~> status[j] \in {"completed", "failed"}
----------------------------------------------------------------------------
Store == INSTANCE JobStore WITH JobIds <- Jobs, jobs <- status

(* To those who ask for the status of a job the replays are the job store  *)
(* that the panel relies on: whatever becomes of containers and logs, a    *)
(* job is queued, processed and ends once, and no step of another replay   *)
(* or of the older one changes what is reported of it.                     *)
ImplementsJobStore == Store!StoreSpec
=============================================================================
