----------------------------- MODULE KafkaIngest -----------------------------
(***************************************************************************)
(* The backend's consumer (engine/kafka_consumer.py, started by lifespan() *)
(* in backend/app/main.py): it polls the topics and gives every record to  *)
(* the live pipeline.  The three topics are one log here: each has one     *)
(* partition, and no record depends on those of another topic.  What       *)
(* produces to the topics composes with this module; other producers       *)
(* (shippers of sensors, anything with access to the broker) are Foreign.  *)
(***************************************************************************)
EXTENDS Naturals, Sequences, FiniteSets

CONSTANTS Consumer,    \* lifespan() starts a consumer (INGEST_SOURCE)
          MaxPoll,     \* max_poll_records
          MaxForeign,  \* bound on the records of other producers
          Outages      \* may the broker go away and come back?

ASSUME KafkaAssumption ==
    Consumer \in BOOLEAN /\ MaxPoll \in Nat \ {0} /\ MaxForeign \in Nat /\ Outages \in BOOLEAN

VARIABLES
    broker,     \* the broker answers
    consuming,  \* is_kafka_connected: the consumer loop runs
    topic,      \* the records in the topics
    next,       \* the record the consumer's next poll begins with
    foreign,    \* how many records other producers have sent
    evaluated   \* history: the records the pipeline has evaluated

kafka == <<broker, consuming, topic, next, foreign, evaluated>>

\* A record of another producer, well-formed or not.
Other == [by |-> "other", ok |-> TRUE]
Bad   == [by |-> "other", ok |-> FALSE]

\* The constructor connects if the broker is there; it does not try again.
KafkaInit ==
    /\ broker \in {b \in BOOLEAN : b \/ Outages}
    /\ consuming = (Consumer /\ broker)
    /\ topic = <<>> /\ next = 1 /\ foreign = 0 /\ evaluated = {}

\* What process_message takes of the batch that ends at last: a record that
\* cannot be decoded or processed raises, outside of the loop over the batch.
Processed(last) == {i \in next..last : \A b \in next..i : topic[b].ok}

\* A bug: the exception leaves the outer loop, too.
ConsumeOnce ==
    /\ consuming /\ broker
    /\ \E n \in 1..MaxPoll : LET last == next + n - 1 IN
        /\ last <= Len(topic)
        /\ next' = last + 1
        /\ evaluated' = evaluated \cup Processed(last)
        /\ consuming' = (last \in Processed(last))
    /\ UNCHANGED <<broker, topic, foreign>>

\* A bug: when more records are waiting, the next batch begins one record late.
ConsumeLate ==
    /\ consuming /\ broker
    /\ \E n \in 1..MaxPoll : LET last == next + n - 1 IN
        /\ last <= Len(topic)
        /\ next' = IF last < Len(topic) THEN last + 2 ELSE last + 1
        /\ evaluated' = evaluated \cup Processed(last)
    /\ UNCHANGED <<broker, consuming, topic, foreign>>

\* run_consumer_loop: poll() gives some of what is there; the exception is
\* logged, and the next poll begins behind the batch.
Consume ==
    /\ consuming /\ broker
    /\ \E n \in 1..MaxPoll : LET last == next + n - 1 IN
        /\ last <= Len(topic)
        /\ next' = last + 1
        /\ evaluated' = evaluated \cup Processed(last)
    /\ UNCHANGED <<broker, consuming, topic, foreign>>

Foreign ==
    /\ broker /\ foreign < MaxForeign
    /\ foreign' = foreign + 1
    /\ \E r \in {Other, Bad} : topic' = Append(topic, r)
    /\ UNCHANGED <<broker, consuming, next, evaluated>>

BrokerSwitch ==
    /\ Outages
    /\ broker' = ~broker
    /\ UNCHANGED <<consuming, topic, next, foreign, evaluated>>

KafkaNext == Consume \/ Foreign \/ BrokerSwitch

\* The consumer's thread runs; poll() returns when records are there.
KafkaSpec == KafkaInit /\ [][KafkaNext]_kafka /\ WF_kafka(Consume)
----------------------------------------------------------------------------
KafkaTypeOK ==
    /\ broker \in BOOLEAN /\ consuming \in BOOLEAN
    /\ \A i \in DOMAIN topic : topic[i].ok \in BOOLEAN
    /\ next \in 1..(Len(topic) + 1)
    /\ foreign \in 0..MaxForeign /\ evaluated \subseteq DOMAIN topic

(* A record the consumer has passed was evaluated, or could not be, or was *)
(* polled together with a record before it that could not be: what a bad   *)
(* record costs is the rest of one batch, across any number of outages.    *)
LossOnlyBehindBad ==
    \A i \in 1..(next - 1) :
        i \in evaluated \/ \E b \in 1..i : ~topic[b].ok /\ b > i - MaxPoll

(* While the broker stays up the consumer catches up with the topics,      *)
(* whatever is in them: no record and no outage ends the loop.             *)
CatchesUp == (consuming /\ <>[]broker) => <>[](next > Len(topic))
=============================================================================
