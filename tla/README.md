# A TLA+ development of the NATS receiver and exporter

This directory models the OpenTelemetry Collector components of this repository
— `receiver/natsreceiver` and `exporter/natsexporter` — checks the models with
TLC and proves theorems about them with TLAPS.

    tlc -config ReceiverDurable.cfg MCNatsReceiver     # a run; all are in PROJECT.json
    tlapm NatsReceiverProofs.tla                       # a proof module; all are in section 4

## 1. The system

| Component | State | Operations | Modelled in |
|---|---|---|---|
| Receiver, JetStream mode (`receiver.go`) | unmarshaler, connection, consume context, cancellable context; the client library's buffer behind it | `Start`, the callback `handle`, `Shutdown` | `NatsReceiver`, `AtLeastOnce` |
| Receiver, core mode (`receiver.go`) | the same with a subscription | `startCore`, `handle` without a message to acknowledge | `CoreReceiver`, `BestEffort` |
| Exporter (`exporter.go`, `factory.go`) | publisher (core or JetStream) on a connection, marshaler | `start`, `export` (concurrently), `shutdown` | `NatsExporter`, `ExportPromise` |
| Groupers (`internal/grouper`) | destination payloads by subject | `Group` | `Grouper`, `NaiveGrouping` |
| Marshalers and unmarshalers (`internal/marshaler`, `unmarshaler.go`) | the function picked at start | `Resolve`, `Marshal` | `Codecs`, `Setup` |
| Client options and configuration (`internal/natsclient`, both `config.go`) | — | `Validate`, `Connect` | `ClientAuth`, `Setup` |
| Factories and the wiring of signals (both `factory.go`) | default subjects, durable names | `createDefaultConfig`, `create…Exporter`, `create…Receiver` | `RoundTrip` |
| JetStream server, nats.go (external) | consumers, delivery counts, streams, connections | deliver, ack_wait, max_deliver, store, acknowledge, reconnect | with the component that uses it |

How they interact. The pipeline calls `Start`, `export` and `Shutdown` on
goroutines of its own. The receiver hands a callback to `Consume`; the client
library calls it on one goroutine, one message at a time, in the order of its
buffer. The callback calls the pipeline and then sends Ack, Nak or Term on the
connection, ignoring the error. `Shutdown` cancels the callback's context, stops
the consume context and closes the connection, and waits for none of it. The
exporter's connection is shared by all exports under way; `shutdown` closes it.
Exporters and receivers meet only at the server: by subject, and receivers also by
the durable name of their consumer. Each signal of each side has its own settings,
factory function, resolver and grouper, written three times.

What is hard here. (a) Redelivery: `ack_wait` runs while a message waits in the
client's buffer, so copies of one message overlap, in one receiver or in several
on one durable consumer, and a reply to an old copy settles the message for the
new one. (b) Shutdown and crashes between any two steps of a callback. (c)
Replies and publish acknowledgements that are lost or late, with errors ignored
or no retry set up. (d) Partial failure: start half done, one group of a batch
refused. (e) `Group` remembers a last resource and scope per subject while
records of several subjects alternate. (f) Consumers are named and updated by
whoever starts last: signals that share a name read each other's messages, and a
filter that is replaced leaves messages behind. (g) The same lists — encodings,
subjects, required settings — are written in several places that have to agree.
`PROJECT.json` lists each hazard at its line, with the properties that cover it.

## 2. Modules

### NatsReceiver, MCNatsReceiver

One action per operation or step:

| Action | Code |
|---|---|
| `Start`, `StartFailsToConnect`, `StartFailsToConsume` | `Start` and `startJetStream`, by where they return; a failed `startJetStream` leaves the connection open and perhaps a consumer on the server |
| `Handle` | the callback begins: `unmarshal`; an unreadable payload leads to Term |
| `ConsumeAccepts`, `ConsumeRejects` | `r.consume` returns |
| `Reply` | `Ack`, `Nak`, `Term`: written to an open connection, silently lost on a closed one |
| `ShutdownCancel`, `ShutdownStop`, `ShutdownClose` | the three calls of `Shutdown`, callbacks running in between |
| `Rebuild`, `Crash` | a new instance after a shutdown, or after the process died |
| `Deliver`, `Exhaust`, `ServerReply`, `AckWaitExpires` | the durable or ephemeral consumer on the server |
| `Reconnect`, `GiveUp` | what the connection's default options allow |

A message is a model value; whether it can be unmarshaled is whether it is in
`Poison`. A delivery is identified by consumer, message and delivery count.
`buffer[r]` is everything sent to a receiver and not yet handled, the wire
included; `out[r]` is the replies written and not yet at the server, in order.
After `Stop` the library may still call back for buffered messages, after
`Close` it does not; a callback under way goes on in both cases. `Start` in
JetStream mode takes its encoding and connection errors from one action each,
since what is left behind is all that differs.

The server is modelled from how `receiver.go` uses it: an explicit-ack consumer
that delivers a message when it is new or due again, looks at the message and not
at the delivery when a reply comes in, ignores replies to settled messages and
drops a message that is due after `max_deliver` deliveries. `max_deliver` 0 is
not passed on and means unlimited. Messages are delivered in any order.

### AtLeastOnce

What the receiver promises, without receivers, connections or replies: a
readable message is acknowledged only after the pipeline took it, an unreadable
one is only terminated, one is abandoned only after `MaxDeliver` failures, and the
first of these is final. A failure is an event, a refusal or an expiry, and one
delivery may bring both. `NatsReceiver` implements it under
the mapping at the end of that module (`Abstract`), on each consumer: the promise's
messages are pairs of consumer and message (`Views`), the fate of one is the
message's status on that consumer, its failures are its refusals plus its
expiries. With a durable name there is one consumer in use, shared and kept through
restarts; without one every restart reads the stream again on a consumer of its own,
and the promise holds on each of them.

### NatsExporter, MCNatsExporter

`Start` (with `NewPublisher`), `Shutdown`, and per batch `Export`, `SkipGroup`,
`PublishGroup` (`CorePublish` or `JetStreamPublish`), `PublishAnswered`,
`PublishFails`, `Return`. Groups are published in any order, since they come out
of a Go map. `RecordsOf` is what the subject expression makes of a batch;
`NoSubject` among them stands for records `Group` leaves out with an error. The
client refuses a group that is too large or has a bad subject (`Unpublishable`).
The server stores or refuses a publish and answers; publishes and answers get
lost; the library drops an answer nobody waits for any more; an export may go on
after `Shutdown`, because a receiver's callback may. The exporter helper is what
`factory.go` makes of it: no retry, no queue, so `Return` hands the result to the
pipeline. The pipeline may export a batch again, whatever came of it.

### ExportPromise

What the exporter promises to its pipeline and to a reader of the stream, without
connections, publishes and answers: each export adds at most one copy of each
group of the batch, perhaps after it has returned, and over JetStream returns no
error only if every record had a subject and every group is in the stream.
`NatsExporter` implements it (`Promise`: `jetstream` is whether the publisher is
the JetStream one, the other variables are its own).

### RoundTrip, MCRoundTrip

Several signals from pipeline to pipeline over one stream. The exporters are
`ExportPromise`, by `INSTANCE`. Of a receiver there is left what its consumer and
pipeline see, as in `AtLeastOnce`: `Start`, `Stop`, `Accept`, `Acknowledge`,
`Terminate`. New is the wiring: default subjects of both factories, the settings
the factory functions pass on, `FilterSubject`, durable names, and what
`CreateOrUpdateConsumer` does to a consumer that another signal uses. A message a
filter left out may be behind the consumer when the filter is replaced
(`"passed"`). Simplified: `max_deliver` is unlimited (`NatsReceiver` has the
limit), the stream keeps everything, and a delivery under way when the filter
changes is not kept apart from one that is made afterwards.

### Grouper, NaiveGrouping

`SkipRecord` and `CopyRecord` are one turn of the innermost loop of `Group`;
`WithResource`, `WithScope` and `WithRecord` are its three copying steps with
the "last source" comparisons. The three groupers are one algorithm; the map
names `logs_grouper.go`. `NaiveGrouping` defines the naive grouping that the
grouper tests use as their oracle: per subject, the resources, scopes and records
that are left when those of other subjects are removed.

### CoreReceiver, MCCoreReceiver

The receiver without JetStream: `Start`, `StartFails`, `Handle`,
`ConsumeAccepts`, `ConsumeRejects` and the calls of `Shutdown`. `pending[r]` is
what the client library has for the callback, the wire included, up to its limit;
`Publish` sends a message to every subscription of the moment. Unsubscribing,
closing, a broken connection and a crash take messages away; `lost` records
which, so that `EachInOnePlace` can tell them from messages the receiver loses.

### BestEffort

What receivers promise over core NATS, without queues, connections and lifecycles: a
message is sent once, to whoever reads then; a pipeline is called with it at most
once and never with one that cannot be read; and accepted, rejected, dropped or lost
is the end of it for this reader and nothing to the others. `CoreReceiver` implements
it (`Abstract`; `Fate` is the place a message is in).

### Setup, MCSetup; Codecs, ClientAuth

From the configuration to a running component, for an exporter and a receiver of
one signal side by side: `Validate`; `CreateExporter`, `CreateReceiver`; then
`ResolveMarshaler`, `Connect`, `Dial`, `MakePublisher` on one side and
`ResolveUnmarshaler`, `Connect`, `Dial`, `Subscribe` on the other. The exporter's
start goes on after it failed to resolve, the receiver's returns. A component ends
up `"running"`; `"failed"` for something the collector can see by itself; or, with
everything well formed, `"unreachable"` (no connection) or `"refused"` (JetStream
has no such stream or domain, or the user may not).

`Codecs` and `ClientAuth` hold the functions: validation and resolution of the
encoding on each side, in code that is written twice, and validation and
application of the authentication methods. `options` says for each client option
which method's credentials it holds, since that is where methods collide. What
the server makes of them is not modelled, nor is whether a public key belongs to
its seed, which nothing in the code compares. Endpoints, subjects, stream and durable
names are empty, malformed or good (`Text`). An inline seed or certificate is
malformed or good, which is a matter of the settings; a file can be read or cannot,
which is a matter of the host. TLS settings that the collector's own `Validate`
rejects are `"invalid"`. The JetStream domain is no setting of its own: the client
only puts it into the subjects of its requests, and a wrong one is like one the
server does not have. An exporter with a wrong domain therefore starts and fails when
it publishes.

## 3. Runs

| Run | Question | Bounds |
|---|---|---|
| `receiver_durable` | safety of receivers sharing a durable consumer, and that they implement `AtLeastOnce`; the invariants of the proofs (`EvidenceInv`, `AccountInv`) | 2 receivers, 1 readable and 1 unreadable message, `max_deliver` 2, any refusals, 3 faults |
| `receiver_ephemeral` | no durable name, and a buffer of 2: duplicates, and `AtLeastOnce` on each consumer | 1 receiver, 2 messages, 2 consumers in a row, 2 faults |
| `receiver_liveness` | every message is settled, though the pipeline may refuse one every time | 2 receivers, 1 readable and 1 unreadable message, `max_deliver` 2, any refusals, 2 faults |
| `exporter` | safety of concurrent exports, and that they implement `ExportPromise`; the invariant of the proofs | core NATS or JetStream; 2 batches of 2 and 3 groups, each exported twice; the second has a record without subject, a group that cannot be marshaled and one the client refuses |
| `exporter_liveness` | every export returns | the same, JetStream |
| `core_receiver` | at most once, nothing disappears by itself, everything is handled or lost; that the receivers implement `BestEffort`; the invariant of the proofs | 2 receivers, 2 readable and 1 unreadable message, a queue of 2, 2 faults |
| `round_trip` | signals stay apart, nothing is lost silently, everything arrives | 3 signals, a batch of logs and one of traces, each exported once; default settings, own names, logs and metrics under one name, metrics with a wildcard |
| `setup` | what fails beyond `Validate` has a cause and nothing runs with one, equal settings agree, no method is ignored | per side all encodings with all subjects and `jetstream` sections, all combinations of subject, stream and durable name; all encodings on both sides; all combinations of the 5 methods and TLS, and of TLS and endpoint; 2 extensions, one of which only writes; every set of them on the host |
| `grouper` | `Group` equals the naive grouping, puts each record where it belongs and copies each context once | all payloads of up to 5 records, 2 resources of 2 scopes, 2 subjects and errors: 31k payloads |

The other three runs, below, find what a text says violated.

Why the bounds are enough. A fault of the receiver is a slow delivery that
outlives `ack_wait`, a shutdown, a failed start, a broken connection or a crash;
refusals are free where `max_deliver` bounds them, and cost a fault where it does
not. A message interacts with another only through buffers and the one callback
goroutine, so two messages and two receivers give every pair of roles: old copy
and new copy, settled and in flight, same and other receiver. Three faults, with
free refusals, allow a slow delivery, a lost reply and a crash in one behaviour
while `max_deliver` (2) runs out; the case of a stale Nak that puts a message back
while the pipeline has a newer copy needs one. The buffer is 1 in the two-receiver
runs (overlap comes from two receivers there) and 2 in `receiver_ephemeral`, which
has no `max_deliver`. Symmetry of receivers and of readable messages is used in
safety runs only.

Exporter: two exports of one batch give an old and a new try whose publishes and
answers overlap, with another batch under way on the same connection. Round trip:
what a consumer does with a message depends on its subject and on whose filter it
was read with, so two signals that have a message and a third that may interfere
give every case; a second export adds copies, which `exporter` covers. Setup: no
step of one side reads the other's settings, and only the encoding is compared
between the sides, so each side is varied alone, encodings together. Settings that
one step looks at together (methods and TLS; subject, stream and durable name) are
combined in all ways.

Deadlock is not checked: the receiver comes to rest when all messages are settled
and no fault is left, the exporter when all batches were exported as often as the
bound says, `Group` when it returns, a component when it has started or failed, the round trip when everything is
exported and settled.
The queue of the core receiver reaches its limit when the third message comes
before the first is taken.

Fairness, in `FairSpec` only. Receiver: the callback goroutine, `Shutdown`, the
client library and the server keep running, the pipeline answers every call, and
`ack_wait` passes for a delivery nobody holds. The pipeline answers one way or the
other and may refuse every time. Faults are bounded and not fair, and nobody is
assumed to start a receiver: the property assumes one that runs and keeps its
connection. Exporter: the exporting goroutine
runs and the deadline of a publish passes (`publish_timeout`, else the deadline
the helper and the client put on the context); nothing is assumed of the server.
Core receiver: the callback goroutine runs and the pipeline answers, either way.
Round trip: what a running receiver is due of its own signal is offered and
accepted in the end — the delivery is part of `Accept` — (`max_deliver` being unlimited there, a pipeline that refuses
for ever would keep it for ever); nothing is assumed of the exporters.

Every property of a passing run has a mutant in `PROJECT.json`: a faulty variant
of a definition (they are in the modules, marked as such) under which the
property fails.

### What the code does otherwise than a text says

- `receiver_max_deliver_doc`: the receiver's README calls `max_deliver` the
  "Maximum redelivery attempts"; the server counts deliveries, the first included.
- `exporter_retry_doc`: "a publish error is returned to the exporter helper, which
  retries the batch"; the helper is given no retry settings.
- `auth_doc`: "At most one may be configured"; only the NKey variants are
  counted.

More can be read off the models. Settings that can never work pass `Validate`
and stop the component later (`LeftToStart` of `Setup`): an exporter's empty
subject, which `Validate` does not parse and creation does; an endpoint, an inline
seed or an inline certificate that is malformed, which are parsed on connecting; and
of a receiver a missing or malformed subject, stream or durable name, which only
`Start` looks at, when it has connected. `max_deliver` can be used up under a delivery
that has not failed: with 2, the first delivery expires in a slow pipeline, the second
goes to another receiver, the slow pipeline refuses the first, whose Nak makes the
message due again, and the server drops it after one expiry and one refusal while the
second delivery is still being handled (its Ack then comes too late). `handle` logs "downstream consumer rejected
data; will retry" over core NATS too, where `ConsumeRejects` of `CoreReceiver`
is the end of the message. And "a poison payload should not be redelivered", but
it is when its Term is lost or late: the error of `TermWithReason` is ignored and
the message forgotten.

## 4. Proofs

`NatsReceiverProofs`, for all values of the constants under the assumptions named
in `NatsReceiver` (`PoisonAssumption`, `NamesAssumption`, `NumbersAssumption`;
nothing has to be finite):

- `TypeCorrect`: `Spec => []TypeOK`. `TypeOK` is not inductive: a receiver
  indexes the server's state with its consumer. `TypeInv` adds
  `ConsumingIsBound`: whoever has a consume context is bound to a consumer.
- `AckedAfterAccept`, `TerminatedIsPoison`: `Spec => []AckedWasAccepted` and
  `Spec => []OnlyPoisonTerminated`. Neither is inductive, because the reason for
  a verdict is established in the callback and used at the server, with a lossy
  wire between. `EvidenceInv` carries it: what the callback knows justifies the
  reply it is about to send (`HandlingIsJustified`), the same holds of every
  reply on the wire (`RepliesAreJustified`) however often others step in
  between, and so of the server's verdicts. `EvidenceCorrect`:
  `Spec => []EvidenceInv`.

`NatsReceiverAccountProofs`, under the same assumptions:

- `AccountCorrect`: `Spec => []AccountInv`, the inductive invariant behind what
  counts. A delivery is with one receiver, once (`OneCopyEach`), the pipeline
  decides on it once and only after it left the buffer (`OneOutcomeEach`), and only
  deliveries the server made are held or decided on (`NumbersAreKnown`). The
  deliveries of a message are at most one more than its expiries and its refusals
  whose Nak has arrived or is lost (`FailuresAreCounted`; `Spent` leaves out a Nak
  under way, because the message is not due again for it yet). These are events: a
  delivery that expires and is refused afterwards counts twice, and the next
  delivery need not have failed when its Nak makes the message due again. It needs
  `EvidenceInv`: only a refused delivery, or an unreadable one, is answered by
  something else than an Ack. A receiver bound to the durable consumer uses no
  other (`BoundToDurable`). Most steps only lose copies or move one from
  buffer to callback to wire, and are treated together (`LosingStep`,
  `QuietStep`, `MovingKeepsAccount`).
- `DuplicatesBounded`, `DropsAccounted`: `DuplicatesNeedExpiry` and
  `DropsNeedRefusalsOrExpiries` follow from it, the first by counting deliveries
  by their numbers (`OutcomesAreDeliveries`).
- `ProgressPersists`: `Spec => ProgressSurvivesRestart`, an action property, step by
  step.
- `ReceiverRefines`: `Spec => ImplementsAtLeastOnce`, with a durable name or
  without. The pipeline's decisions, expiries, replies that settle a message and
  drops are the promise's steps, each on one consumer's view of one message; a
  restart on another consumer is no step of it. Settling needs `EvidenceInv`, dropping
  `FailuresAreCounted`, and a failure being a new one `OneOutcomeEach`.

`CoreReceiverProofs`, under the assumption of `CoreReceiver`:

- `TypeCorrect`: `Spec => []TypeOK`.
- `InvCorrect`: `Spec => []CoreInv`: nothing is sent before it is published
  (`FreshUntilSent`), the library's queue holds no message twice (`QueuedOnce`), what the
  pipeline was given has left the queue (`CalledOnce`), and `EachInOnePlace`.
  `CalledAtMostOnce` and `NoneDisappears` (`AtMostOnce`, `EachInOnePlace`) follow. A step
  touches one receiver only (`ReceiverFrame`), so they are proved receiver
  by receiver.
- `CoreRefines`: `Spec => ImplementsBestEffort`. The callback's two steps, losses and
  a publication are the promise's steps; starting and stopping are none. It needs
  `CoreInv` for every step: a message that is taken out of the queue, decided on or
  lost is in no other place, so its fate changes once, and no other's with it
  (`MoveFate`, `LoseFates`); one that is published was with nobody
  (`PublishFates`).

`RoundTripProofs`, under `RoundTripAssumption`, for any signals, batches, names and
deployments: `SignalsApart` and `NothingLost` (`SignalsStayApart`,
`NoSilentLoss`). Neither is inductive: both depend on the filter that was in force
when a message was taken or left behind. `RoundTripInv` says that the filter of a
consumer one signal has to itself is its own or not set yet (`FilterIsOwn`), that
everything taken passed it (`TakenThroughFilter`), what stands behind each fate
(`FateIsJustified`), and what is needed of the exporters (`ExportsKept`). The
assumption's second conjunct only fixes how the model names consumers: a durable
name is neither the empty one nor one of the signals that stand for ephemeral
consumers.

`SetupProofs`, under `CodecAssumption` and `ConfigurationsAssumption`, for any
extensions and any configurations:
`FailuresHaveCause`, `SettingsAgree`, `MethodsPresented` (`FailsForCause`,
`EqualSettingsAgree`, `NoMethodIgnored`). `SetupInv` says, for each stage a component is
in, what every check it has passed leaves possible: its settings are valid
(`OnlyValidGoesOn`), its codec is the one resolution gives (`CodecChosen`), `broken`
stands for an extension the host lacks, and for nothing else (`BrokenWithoutCodec`),
and from dialling on TLS and seeds are well formed and the options those of its
methods (`OptionsAreSet`). `FailsForCause` has two halves: the second, that what runs
has no wrong setting, needs that each setting of `LeftToStart` is met by some step on
the way, also in the exporter, whose start goes on after an error. Two facts about the functions carry
the rest: of the methods that share a client option at most one is
configured, so each option has at most one writer, and the two resolvers agree where
validation lets both sides pass. `CodecAssumption` says that an extension's
identifier is not one of the strings the model uses for built-in codecs, no codec
and malformed identifiers; in the code extensions are component IDs, of another type.

`GrouperProofs`, under the assumption of `Grouper`, for payloads of any length:
`RecordsPartitioned` (`GroupsPartitionRecords`) and `ContextsOnce`
(`ContextsCopiedOnce`). `GrouperInv` says of each group that it is
well formed — it remembers its last resource and last scope, or is empty — that
its records are of its subject, under their own resource and scope, in order
and complete so far, and that it has no empty context and none twice in a row.
That none comes back later at all follows from the order of the loops
(`ContextsInOrder`). Copying a record is three steps, each of which changes the
last resource and the last scope in it only (`AddResource`, `AddScope`, `AddRecord`), so the
tree gains one place after all others (`OnePlaceMore`, `CopyGrows`).

`NaiveGroupingProofs`, under the same assumption: `GroupMatchesNaive`
(`MatchesNaive`), for payloads of any length what the grouper tests try on
samples. `Group` and the oracle each list the resources of a group, the scopes of a
resource and the records of a scope. `GrouperInv` gives that `Group`'s lists
ascend, that they hold what the subject has there (`ResourcesListed`,
`ScopesListed`, `RecordsListed`), and hence are the oracle's: a set of positions has
one ascending list (`IncreasingUnique`, at the first place where two differ each
element would have to come later in the other). `SeenSoFar` adds what is not about a
single group: the errors kept, and a destination only for a subject there is.

Lemmas about sequences (cutting, growing, taking the first or a contiguous part,
replacing the last element) are stated once in each family of modules and cited.

`NatsExporterProofs`, under `GroupsAssumption` and `ModeAssumption` (any batches,
subjects, number of exports, and choice of groups the marshaler or the client
refuses; batches and subjects may be infinite):

- `TypeCorrect`: `Spec => []TypeOK`, inductive as it stands.
- `ExportCorrect`: `Spec => []ExportInv`, the inductive invariant, which TLC also
  checks in `exporter`. Its parts follow a group from the loop to the stream. While
  an export has met no error, each group is still to be published, being waited
  for, or stored (`ErrorsAreKept`), which needs that an acknowledgement is true
  however late it comes (`AnswersAreTrue`). Copies stored and copies on the wire
  together are no more than the exports that have handed the group over
  (`CopiesAreCounted`, with `FiniteSetTheorems`). What can be marshaled has been
  handed over or is still before the loop (`NothingIsSkipped`). An open connection
  has a publisher that `shutdown` closes it through (`OpenIsHeld`).
- `SuccessStored`, `DuplicatesBounded`, `OthersPublished`, `ConnectionClosed`: the
  four safety properties of the exporter follow from it.
- `ExporterRefines`: `Spec => ImplementsPromise`. Start with JetStream, beginning an
  export, storing a copy and returning are the promise's steps; the promise sees
  none of the others. Storing needs `CopiesAreCounted` (the copy on the wire is
  still free), returning `ErrorsAreKept`. So `RoundTrip` may use the promise for
  the exporter.

Model-checked only: the liveness properties `EventuallySettled`, `ExportReturns`,
`SentIsHandled` and `Arrives`, which are out of the prover's reach. Every other
property of a passing run is a theorem.

## 5. Plan

Composition: that a receiver of `RoundTrip` is implemented by `NatsReceiver` with
`MaxDeliver` 0, as its exporters are by `NatsExporter`.

## 6. Not modelled

Subject expressions (OTTL is a library: a record's subject is an input), the
content of payloads, TLS material and the syntax of seeds, endpoints and names (well formed or
not). The demo, the
deployment manifests, the end-to-end tests and generated metadata have no logic of
their own. Of the JetStream server: `MaxAckPending`, heartbeats, the order of
deliveries, limits and retention of a stream; and deletion of streams or consumers
by an administrator, after which the code does nothing until it is restarted and no
text says what it should do.
