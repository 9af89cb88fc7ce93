------------------------------ MODULE RoundTrip ------------------------------
(***************************************************************************)
(* A collector that exports several signals to one JetStream stream and a  *)
(* collector that receives them from it, end to end.  Each signal has an   *)
(* exporter and a receiver of its own, wired to the others only through    *)
(* the settings: subjects, and names of consumers on the server.           *)
(*                                                                         *)
(* The exporters are what ExportPromise says of them, which NatsExporter   *)
(* implements.  Of a receiver there is left what its consumer and its      *)
(* pipeline see, as in AtLeastOnce, with max_deliver unlimited: a message  *)
(* is taken, perhaps again, and settled some time later.  What is new are  *)
(* consumers that filter, and whose filter is replaced by whoever starts   *)
(* under their name.                                                       *)
(***************************************************************************)
EXTENDS Naturals

CONSTANTS
    Signals,       \* some of "logs", "metrics", "traces"
    Batches,       \* batches of telemetry
    SignalOf,      \* the signal of each
    NoSubject,     \* the subject of a record that has none
    Names,         \* durable names
    NoName,        \* the empty name: an ephemeral consumer
    Deployments,   \* the receivers' settings to consider
    MaxExports     \* bound on how often a batch is exported

Subjects == {"otel_logs", "otel_metrics", "otel_spans"}

\* The subject settings of both factories.
ExporterDefault == [logs |-> "otel_logs", metrics |-> "otel_metrics", traces |-> "otel_spans"]

\* A receiver that looks for traces under their name.
DriftedDefault == [logs |-> "otel_logs", metrics |-> "otel_metrics", traces |-> "otel_traces"]

ReceiverDefault == [logs |-> "otel_logs", metrics |-> "otel_metrics", traces |-> "otel_spans"]

\* The records of a batch evaluate to the default subject of its signal.
RecordsOf == [b \in Batches |-> {ExporterDefault[SignalOf[b]]}]

\* A receiver reads its signal's default subject, or is "wild": it has a wildcard
\* or no subject at all.
\* A consumer is known by its name or by its signal, never by both.
ASSUME RoundTripAssumption ==
    /\ Signals \subseteq DOMAIN ExporterDefault
    /\ Names \cap (Signals \cup {NoName}) = {}
    /\ MaxExports \in Nat
    /\ SignalOf \in [Batches -> Signals]
    /\ Deployments \subseteq [wild : SUBSET Signals, durable : [Signals -> Names \cup {NoName}]]

VARIABLES
    jetstream, exports, result, stored,   \* the exporters and the stream, see ExportPromise
    deployment,   \* the receivers' settings
    running,      \* whether the receiver of each signal runs
    filter,       \* server: the subjects each consumer reads
    fate,         \* server: how each message stands with each consumer
    taken         \* history: the receiver, consumer and message of what was accepted

exportVars == <<jetstream, exports, result, stored>>
receiveVars == <<running, filter, fate, taken>>
vars == <<exportVars, receiveVars, deployment>>

Exporter == INSTANCE ExportPromise

\* Each copy the stream stored is a message.  An ephemeral consumer is known by
\* the signal it is for, since nobody else can use it.
Messages  == {m \in [batch : Batches, subject : Subjects, copy : 1..MaxExports] :
                 m.subject \in RecordsOf[m.batch]}
InStream  == {m \in Messages : m.copy <= stored[m.batch][m.subject]}
Consumers == Names \cup Signals
SignalOfMsg(m) == SignalOf[m.batch]

Init ==
    /\ Exporter!Init
    /\ deployment \in Deployments
    /\ running = [s \in Signals |-> FALSE]
    /\ filter = [c \in Consumers |-> {}]
    /\ fate = [c \in Consumers |-> [m \in Messages |-> "open"]]
    /\ taken = {}

-----------------------------------------------------------------------------
(***************************************************************************)
(* Starting and stopping receivers.                                        *)
(***************************************************************************)

\* The factory passes the logs' settings to every receiver.
LogsConfigForAll(s) ==
    [subjects |-> IF "logs" \in deployment.wild THEN Subjects ELSE {ReceiverDefault["logs"]},
     durable  |-> deployment.durable["logs"]]

\* The settings the factory passes to the receiver of s.
SignalConfig(s) ==
    [subjects |-> IF s \in deployment.wild THEN Subjects ELSE {ReceiverDefault[s]},
     durable  |-> deployment.durable[s]]

\* A consumer configuration without FilterSubject.
NoFilterSubject(s) == Subjects

FilterSubject(s) == SignalConfig(s).subjects

Ephemeral(s)  == SignalConfig(s).durable = NoName
ConsumerOf(s) == IF Ephemeral(s) THEN s ELSE SignalConfig(s).durable

\* CreateOrUpdateConsumer: a durable consumer that exists gets the new filter and
\* keeps its state.  It may have gone past messages the old filter left out, and
\* does not go back to them.  An ephemeral consumer begins with the whole stream.
Start(s) ==
    LET c == ConsumerOf(s)
        leftOut == {m \in InStream : filter[c] # {} /\ m.subject \notin filter[c]} IN
    /\ ~ running[s]
    /\ running' = [running EXCEPT ![s] = TRUE]
    /\ filter' = [filter EXCEPT ![c] = FilterSubject(s)]
    /\ IF Ephemeral(s)
       THEN fate' = [fate EXCEPT ![c] = [m \in Messages |-> "open"]]
       ELSE \E passed \in SUBSET leftOut :
              fate' = [fate EXCEPT ![c] =
                         [m \in Messages |-> IF m \in passed THEN "passed" ELSE @[m]]]
    /\ UNCHANGED <<exportVars, deployment, taken>>

\* Shutdown, or a crash.
Stop(s) ==
    /\ running[s]
    /\ running' = [running EXCEPT ![s] = FALSE]
    /\ UNCHANGED <<exportVars, deployment, filter, fate, taken>>

-----------------------------------------------------------------------------
(***************************************************************************)
(* Receiving.                                                              *)
(***************************************************************************)

\* The server may send m to the receiver of s: it sends what the filter lets pass
\* to whoever consumes under the name.
Gets(s, m) == running[s] /\ m \in InStream /\ m.subject \in filter[ConsumerOf(s)]

Settle(c, m, how) == fate[c][m] = "open" /\ fate' = [fate EXCEPT ![c][m] = how]

\* The pipeline of s accepts m, also a copy that was still under way when m was
\* settled, and also another signal's payload if the encoding happens to read it.
Accept(s, m) ==
    /\ Gets(s, m)
    /\ taken' = taken \cup {[by |-> s, from |-> ConsumerOf(s), msg |-> m]}
    /\ UNCHANGED <<exportVars, deployment, running, filter, fate>>

\* The acknowledgement of an accepted message arrives, whoever still runs.
Acknowledge(c, m) ==
    /\ \E t \in taken : t.from = c /\ t.msg = m
    /\ Settle(c, m, "acked")
    /\ UNCHANGED <<exportVars, deployment, running, filter, taken>>

\* The receiver of s cannot read m, which is of another signal.
Terminate(s, m) ==
    /\ Gets(s, m)
    /\ SignalOfMsg(m) # s
    /\ Settle(ConsumerOf(s), m, "termed")
    /\ UNCHANGED <<exportVars, deployment, running, filter, taken>>

Export == Exporter!Next /\ UNCHANGED <<receiveVars, deployment>>

Next ==
    \/ Export
    \/ \E s \in Signals : Start(s) \/ Stop(s)
    \/ \E s \in Signals, m \in Messages : Accept(s, m) \/ Terminate(s, m)
    \/ \E c \in Consumers, m \in Messages : Acknowledge(c, m)

\* The server offers and the pipeline accepts, in the end, what the receiver of
\* its signal is due.  Nothing is assumed of exporters, nor of starting.
Fairness == \A s \in Signals, m \in Messages :
    SignalOfMsg(m) = s => WF_vars(Accept(s, m))

Spec == Init /\ [][Next]_vars /\ Fairness

-----------------------------------------------------------------------------
(***************************************************************************)
(* Properties.                                                             *)
(***************************************************************************)

\* No other signal is configured with the durable name of s.
OwnName(s) ==
    \A t \in Signals \ {s} : deployment.durable[t] = deployment.durable[s]
                                => deployment.durable[s] = NoName

TakenBy(s, m) == \E t \in taken : t.by = s /\ t.msg = m

\* A signal with its own subject and its own name stays apart from the others,
\* even where those share names or have wildcards: its pipeline gets nothing of
\* theirs, and its receiver terminates nothing, whoever restarts when.
SignalsStayApart ==
    \A s \in Signals : OwnName(s) /\ s \notin deployment.wild =>
        /\ \A m \in Messages : TakenBy(s, m) => SignalOfMsg(m) = s
        /\ \A m \in Messages : fate[ConsumerOf(s)][m] # "termed"

\* No silent loss from pipeline to pipeline: of a batch whose export over JetStream
\* returned no error, each group has a copy that the receiver's pipeline accepted
\* or its consumer still has to offer, provided no other signal has its name.
NoSilentLoss ==
    \A b \in Batches :
        jetstream /\ result[b] = "ok" /\ OwnName(SignalOf[b]) =>
            \A g \in Exporter!GroupsOf(b) : \E m \in InStream :
                /\ m.batch = b /\ m.subject = g
                /\ \/ TakenBy(SignalOf[b], m)
                   \/ fate[ConsumerOf(SignalOf[b])][m] = "open"

\* And it arrives: if the receiver of the signal keeps running from some time on,
\* its pipeline accepts every group.  Default settings suffice: both factories
\* name the same subjects.
Arrives ==
    \A b \in Batches :
        LET s == SignalOf[b] IN
        /\ OwnName(s)
        /\ <>(jetstream /\ result[b] = "ok")
        /\ <>[]running[s]
        => \A g \in Exporter!GroupsOf(b) :
             <>(\E m \in Messages : m.batch = b /\ m.subject = g /\ TakenBy(s, m))

=============================================================================
