------------------------- MODULE StreamConnectors -------------------------
(***************************************************************************)
(* The stream connectors (agenthandler/streams.py): each reads a broker's  *)
(* log in a task of its own and awaits on_message once per record.  `kind' *)
(* says which of the three runs in a behaviour; they share nothing.        *)
(*                                                                         *)
(* The log is one Kafka partition, Kinesis shard or Redis stream, its      *)
(* records numbered from 1.  What a broker keeps for its reader, a         *)
(* committed offset, an iterator, or a group's place and pending entries,  *)
(* is taken from the calls the connectors make.                            *)
(***************************************************************************)
EXTENDS Integers

CONSTANTS
    LastRecord,      \* bound: records ever appended
    Limit,     \* records per fetch: 100 of Kinesis, 10 of Redis
    Bad,       \* records whose data is not JSON
    FromStart, \* auto_offset_reset is "earliest", the iterator TRIM_HORIZON
    MaxStarts  \* bound: how often the connector is started

Record == 1..LastRecord

ASSUME StreamAssumption ==
    /\ LastRecord \in Nat /\ Limit \in Nat \ {0} /\ MaxStarts \in Nat
    /\ Bad \subseteq Record /\ FromStart \in BOOLEAN

VARIABLES
    kind,     \* the connector of this behaviour
    tail,     \* records appended so far
    loop,     \* what the consume task does; "ended": it raised and is gone
    next,     \* where the consumer reads next; 0: it never read, or there
              \* is no group for it to read from
    at, upto, \* the records at..upto-1 are fetched and not through
    settled,  \* Kafka: records before it are committed; 0: nothing is
    pending,  \* Redis: delivered and not acknowledged
    starts,   \* how often it was started
    tried,    \* history: records given to on_message
    handled   \* history: records whose on_message returned

broker == <<kind, tail, settled, pending>>
streamVars == <<broker, loop, next, at, upto, starts, tried, handled>>

StreamInit ==
    /\ kind \in {"kafka", "kinesis", "redis"} /\ tail = 0
    /\ loop = "stopped" /\ next = 0 /\ at = 0 /\ upto = 0
    /\ settled = 0 /\ pending = {} /\ starts = 0 /\ tried = {} /\ handled = {}

-----------------------------------------------------------------------------
AppendRecord ==
    /\ tail < LastRecord /\ tail' = tail + 1
    /\ UNCHANGED <<kind, loop, next, at, upto, settled, pending, starts, tried, handled>>

\* Where a consumer that starts now reads first.  Redis makes the group at the
\* end of the stream, and the group keeps its place.
StartsAt ==
    CASE kind = "kafka" /\ settled > 0 -> settled
      [] kind = "redis" /\ next > 0 -> next
      [] OTHER -> IF FromStart /\ kind # "redis" THEN 1 ELSE tail + 1

\* start() passes over a failed xgroup_create, taking it for a group that is
\* there already: the loop then reads from a group that nobody made.
ReadsFrom == IF kind = "redis" THEN {StartsAt, next} ELSE {StartsAt}

\* A Kinesis stream that cannot be described ends the task it was started in.
StreamStart ==
    /\ loop = "stopped" /\ starts < MaxStarts
    /\ loop' \in IF kind = "kinesis" THEN {"polling", "ended"} ELSE {"polling"}
    /\ starts' = starts + 1
    /\ next' \in ReadsFrom
    /\ UNCHANGED <<broker, at, upto, tried, handled>>

\* stop() cancels the task wherever it is, in the middle of on_message too; so
\* does the end of the process.  What it had fetched is forgotten.
StreamStop ==
    /\ loop # "stopped"
    /\ loop' = "stopped" /\ at' = upto
    /\ UNCHANGED <<broker, next, upto, starts, tried, handled>>

FetchEnd == IF kind = "kafka" \/ Limit = 1 THEN next + 1
            ELSE IF tail < next + Limit THEN tail + 1 ELSE next + Limit

\* Kafka and Redis note at once that the records were delivered; the Kinesis
\* iterator is kept until the batch is through.
Fetch ==
    /\ loop = "polling" /\ 0 < next /\ next <= tail
    /\ loop' = "deciding" /\ at' = next /\ upto' = FetchEnd
    /\ next' = IF kind = "kinesis" THEN next ELSE FetchEnd
    /\ pending' = IF kind = "redis" THEN pending \cup next..(FetchEnd - 1) ELSE pending
    /\ UNCHANGED <<kind, tail, settled, starts, tried, handled>>

\* A Kafka client that cannot fetch raises out of the loop; the other two sleep
\* and ask again, Redis also where there is no group.
FetchFails ==
    /\ loop = "polling" /\ kind = "kafka" /\ loop' = "ended"
    /\ UNCHANGED <<broker, next, at, upto, starts, tried, handled>>

Decodable(m) == m \notin Bad \/ kind = "redis"

HandOn ==
    /\ loop = "deciding" /\ at < upto /\ Decodable(at)
    /\ loop' = "handling" /\ tried' = tried \cup {at}
    /\ UNCHANGED <<broker, next, at, upto, starts, handled>>

\* A record that is not JSON raises outside the inner try: that ends the Kafka
\* loop, and leaves a Kinesis batch without moving the iterator.
Undecodable ==
    /\ loop = "deciding" /\ at < upto /\ ~Decodable(at)
    /\ loop' = IF kind = "kafka" THEN "ended" ELSE "polling"
    /\ at' = upto
    /\ UNCHANGED <<broker, next, upto, starts, tried, handled>>

\* (Bug: acknowledged in a finally clause, whatever on_message did.)
AcknowledgesAlways(acked) ==
    /\ settled' = IF kind = "kafka" THEN next ELSE settled
    /\ pending' = pending \ {at}

\* commit() stores the consumer's position, xack drops the record's entry.
Acknowledges(acked) ==
    /\ settled' = IF acked /\ kind = "kafka" THEN next ELSE settled
    /\ pending' = IF acked THEN pending \ {at} ELSE pending

\* on_message returns or raises.  A commit or an xack that raises is swallowed
\* like an on_message that does.
HandlerEnds(returned, acked) ==
    /\ loop = "handling" /\ (acked => returned)
    /\ handled' = IF returned THEN handled \cup {at} ELSE handled
    /\ Acknowledges(acked)
    /\ at' = at + 1 /\ loop' = "deciding"
    /\ UNCHANGED <<kind, tail, next, upto, starts, tried>>

\* (Bug: the iterator also moves past what was appended meanwhile.)
BatchEndsAtTail ==
    /\ loop = "deciding" /\ at = upto /\ loop' = "polling"
    /\ next' = tail + 1
    /\ UNCHANGED <<broker, at, upto, starts, tried, handled>>

BatchEnds ==
    /\ loop = "deciding" /\ at = upto /\ loop' = "polling"
    /\ next' = IF kind = "kinesis" THEN upto ELSE next
    /\ UNCHANGED <<broker, at, upto, starts, tried, handled>>

StreamNext ==
    \/ AppendRecord \/ StreamStart \/ StreamStop
    \/ Fetch \/ FetchFails \/ HandOn \/ Undecodable \/ BatchEnds
    \/ \E returned, acked \in BOOLEAN : HandlerEnds(returned, acked)

\* The consume task goes on while it is there; that on_message ends is the
\* tool timeouts' doing, not the connector's.
StreamFairness ==
    /\ WF_streamVars(Fetch) /\ WF_streamVars(HandOn) /\ WF_streamVars(Undecodable)
    /\ WF_streamVars(BatchEnds)
    /\ WF_streamVars(\E returned, acked \in BOOLEAN : HandlerEnds(returned, acked))

StreamSpec == StreamInit /\ [][StreamNext]_streamVars /\ StreamFairness

-----------------------------------------------------------------------------
\* What a connector acknowledged was handled (streams.py:125-129, 313-317): the
\* last record that Kafka's offset covers, and every record that Redis
\* delivered and no longer holds as pending.
AcknowledgedMeansHandled ==
    /\ settled > 0 => settled - 1 \in handled
    /\ kind = "redis" => (tried \ pending) \subseteq handled

\* A record that the running connector has yet to read reaches on_message,
\* through failing handlers and failing acknowledgements, unless the loop goes,
\* a record before it cannot be decoded or the group it reads from was never
\* made (streams.py:231-245, 294-297).
RecordsAreServed ==
    \A m \in Record :
        (/\ loop = "polling" /\ 0 < next /\ next <= m /\ m <= tail
         /\ \A b \in 1..m : Decodable(b))
        ~> (m \in tried \/ loop \in {"stopped", "ended"})

\* "All three use at-least-once delivery [...] If the agent crashes
\* mid-processing, the message is redelivered" (README.md:515): a record whose
\* handler did not return is one that the broker may deliver again.
UnhandledMayComeBack ==
    \A m \in tried \ handled :
        IF kind = "kafka" THEN settled <= m
        ELSE next <= m \/ (at <= m /\ m < upto)

-----------------------------------------------------------------------------
\* The inductive invariant behind AcknowledgedMeansHandled: records are fetched and
\* not through only while the loop is at them, Kafka's position is one past its
\* only fetched record, and Redis holds every fetched record as pending.
StreamInv ==
    /\ {tail, next, at, upto, settled} \subseteq Nat /\ at <= upto
    /\ loop \notin {"deciding", "handling"} => at = upto
    /\ loop = "handling" => at < upto
    /\ kind = "kafka" /\ at < upto => upto = at + 1 /\ next = upto
    /\ kind = "redis" => at..(upto - 1) \subseteq pending
    /\ AcknowledgedMeansHandled
=============================================================================
