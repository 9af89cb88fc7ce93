---------------------------- MODULE NatsReceiver ----------------------------
(***************************************************************************)
(* The NATS receiver in JetStream mode: natsReceiver of                    *)
(* receiver/natsreceiver/receiver.go, together with the part of a          *)
(* JetStream server it talks to.                                           *)
(*                                                                         *)
(* Several receivers (collector processes, or one collector restarted) may *)
(* be bound to the same durable consumer.  A receiver pulls messages of    *)
(* the stream into a client-side buffer, and its one callback goroutine    *)
(* takes them out one at a time: handle unmarshals, calls the pipeline and *)
(* sends Ack, Nak or Term.  Shutdown runs in another goroutine and does    *)
(* not wait for the callback.  The server redelivers what was not settled  *)
(* before ack_wait, up to max_deliver deliveries.                          *)
(*                                                                         *)
(* Connections drop and reconnect, give up, processes crash: each of these *)
(* costs one of MaxFaults, the bound that keeps the model finite.          *)
(***************************************************************************)
EXTENDS Naturals, Sequences, FiniteSets

CONSTANTS
    Receivers,      \* receiver instances that may bind to the stream
    Messages,       \* the messages stored in the stream
    Poison,         \* those whose payload the configured encoding cannot read
    ConsumerNames,  \* the names the server may give or be given for consumers
    NoConsumer,     \* the empty string: no durable name, not bound
    DurableName,    \* SignalConfig.Durable; NoConsumer makes it ephemeral
    MaxDeliver,     \* JetStreamConfig.MaxDeliver; 0 means unlimited
    Prefetch,       \* how many messages the client library buffers
    MaxFaults       \* bound on the faults of the environment

ASSUME PoisonAssumption   == Poison \subseteq Messages
ASSUME NamesAssumption    == /\ NoConsumer \notin ConsumerNames
                             /\ DurableName \in ConsumerNames \cup {NoConsumer}
ASSUME NumbersAssumption  == /\ MaxDeliver \in Nat
                             /\ Prefetch \in Nat \ {0}
                             /\ MaxFaults \in Nat

VARIABLES
    phase,       \* lifecycle of each receiver
    conn,        \* r.conn
    consumeCtx,  \* r.consumeCtx
    consumer,    \* the server-side consumer r is bound to
    buffer,      \* deliveries received, in order, and not yet handed to handle
    handling,    \* what the callback goroutine is doing
    out,         \* replies written to the connection, not yet at the server
    created,     \* server: the consumers that exist
    status,      \* server: where each message stands for each consumer
    deliveries,  \* server: how often it was delivered
    expired,     \* server: how often ack_wait ran out on it
    accepted,    \* history: deliveries the pipeline accepted
    rejected,    \* history: deliveries the pipeline returned an error for
    faults       \* faults spent

receiverVars == <<phase, conn, consumeCtx, consumer, buffer, handling, out>>
serverVars   == <<created, status, deliveries, expired>>
historyVars  == <<accepted, rejected>>
vars == <<receiverVars, serverVars, historyVars, faults>>

Delivery == [consumer : ConsumerNames, msg : Messages, num : Nat]
Replies  == {"ack", "nak", "term"}
Answer   == [kind : Replies, d : Delivery]
Idle     == [stage |-> "idle"]
Task     == [stage : Replies \cup {"consume"}, d : Delivery]

(***************************************************************************)
(* Faulty variants of the definitions below, each a slip one could make in *)
(* receiver.go.  No specification uses them: a run repeated with one of    *)
(* them in the place of the original shows that its property can fail.     *)
(***************************************************************************)

\* handle acknowledges whether or not the pipeline took the data.
AckAlways(outcome) == IF outcome = "unmarshal error" THEN "term" ELSE "ack"

\* handle gives a message up that the pipeline refused.
TermOnAnyError(outcome) == IF outcome = "consumed" THEN "ack" ELSE "term"

\* handle has its test of the pipeline's error the wrong way round.
NakWhenConsumed(outcome) ==
    IF outcome = "unmarshal error" THEN "term"
    ELSE IF outcome = "consume error" THEN "ack"
    ELSE "nak"

\* handle returns without a reply when the pipeline refuses.
NoNak(outcome) ==
    IF outcome = "unmarshal error" THEN "term"
    ELSE IF outcome = "consume error" THEN "none"
    ELSE "ack"

\* startJetStream leaves Durable out of the ConsumerConfig.
AlwaysEphemeral == ConsumerNames \ created

\* startJetStream returns without calling Consume.
StartWithoutConsume(r) ==
    /\ phase[r] = "created"
    /\ phase' = [phase EXCEPT ![r] = "running"]
    /\ conn' = [conn EXCEPT ![r] = "open"]
    /\ consumer' = [consumer EXCEPT ![r] = DurableName]
    /\ created' = created \cup {DurableName}
    /\ UNCHANGED <<consumeCtx, buffer, handling, out, status, deliveries, expired,
                   historyVars, faults>>

-----------------------------------------------------------------------------
(***************************************************************************)
(* Helpers.                                                                *)
(***************************************************************************)

\* The deliveries on their way to receiver r, with its callback, and answered by a
\* reply that is on its way to the server.
Buffered(r)  == {buffer[r][i] : i \in 1..Len(buffer[r])}
InHand(r)    == {t.d : t \in {handling[r]} \ {Idle}}
Answering(r) == {out[r][i].d : i \in 1..Len(out[r])}
Held(r)      == Buffered(r) \cup InHand(r) \cup Answering(r)

\* A copy of delivery d is with a receiver, or its reply is under way.
InFlight(d) == \E r \in Receivers : d \in Held(r)

\* The last delivery of m the server made on consumer c.
LastDelivery(c, m) == [consumer |-> c, msg |-> m, num |-> deliveries[c][m]]

\* max_deliver is passed on only when it is positive; else it is unlimited.
CapReached(c, m) == MaxDeliver > 0 /\ deliveries[c][m] >= MaxDeliver

\* What CreateOrUpdateConsumer may bind to: the durable consumer, which keeps
\* its state if it exists, or a consumer the server makes for the occasion.
BindableConsumers ==
    IF DurableName # NoConsumer THEN {DurableName}
                                ELSE ConsumerNames \ created

\* The reply handle sends for each way its work can end.
ReplyFor(outcome) ==
    IF outcome = "unmarshal error" THEN "term"
    ELSE IF outcome = "consume error" THEN "nak"
    ELSE "ack"

Fault     == faults < MaxFaults /\ faults' = faults + 1
NoFault   == UNCHANGED faults

-----------------------------------------------------------------------------
Init ==
    /\ phase = [r \in Receivers |-> "created"]
    /\ conn = [r \in Receivers |-> "none"]
    /\ consumeCtx = [r \in Receivers |-> "none"]
    /\ consumer = [r \in Receivers |-> NoConsumer]
    /\ buffer = [r \in Receivers |-> <<>>]
    /\ handling = [r \in Receivers |-> Idle]
    /\ out = [r \in Receivers |-> <<>>]
    /\ created = {}
    /\ status = [c \in ConsumerNames |-> [m \in Messages |-> "new"]]
    /\ deliveries = [c \in ConsumerNames |-> [m \in Messages |-> 0]]
    /\ expired = [c \in ConsumerNames |-> [m \in Messages |-> 0]]
    /\ accepted = {}
    /\ rejected = {}
    /\ faults = 0

-----------------------------------------------------------------------------
(***************************************************************************)
(* Start.                                                                  *)
(***************************************************************************)

\* Start succeeds: connected, consumer created or updated, consuming.
Start(r) ==
    /\ phase[r] = "created"
    /\ phase' = [phase EXCEPT ![r] = "running"]
    /\ conn' = [conn EXCEPT ![r] = "open"]
    /\ consumeCtx' = [consumeCtx EXCEPT ![r] = "consuming"]
    /\ \E c \in BindableConsumers :
         /\ consumer' = [consumer EXCEPT ![r] = c]
         /\ created' = created \cup {c}
    /\ UNCHANGED <<buffer, handling, out, status, deliveries, expired,
                   historyVars, faults>>

\* Start returns an error before it has a connection (no encoding extension,
\* bad credentials, no server).
StartFailsToConnect(r) ==
    /\ phase[r] = "created"
    /\ phase' = [phase EXCEPT ![r] = "failed"]
    /\ Fault
    /\ UNCHANGED <<conn, consumeCtx, consumer, buffer, handling, out,
                   serverVars, historyVars>>

\* startJetStream returns an error: the connection is left open, and the
\* consumer may already exist on the server.
StartFailsToConsume(r) ==
    /\ phase[r] = "created"
    /\ phase' = [phase EXCEPT ![r] = "failed"]
    /\ conn' = [conn EXCEPT ![r] = "open"]
    /\ \/ UNCHANGED created
       \/ \E c \in BindableConsumers : created' = created \cup {c}
    /\ Fault
    /\ UNCHANGED <<consumeCtx, consumer, buffer, handling, out,
                   status, deliveries, expired, historyVars>>

-----------------------------------------------------------------------------
(***************************************************************************)
(* handle, run by the callback goroutine of the consume context, one       *)
(* message at a time.                                                      *)
(***************************************************************************)

\* The next callback starts.  Stop does not wait, so a buffered message may
\* still be handed over after it; none is once the connection is closed.
Handle(r) ==
    /\ handling[r] = Idle
    /\ conn[r] = "open"
    /\ consumeCtx[r] # "none"
    /\ buffer[r] # <<>>
    /\ LET d == Head(buffer[r])
           next == IF d.msg \in Poison THEN ReplyFor("unmarshal error") ELSE "consume" IN
         handling' = [handling EXCEPT ![r] = [stage |-> next, d |-> d]]
    /\ buffer' = [buffer EXCEPT ![r] = Tail(@)]
    /\ UNCHANGED <<phase, conn, consumeCtx, consumer, out, serverVars, historyVars, faults>>

\* r.consume returned nil: an Ack comes next.
ConsumeAccepts(r) ==
    /\ handling[r].stage = "consume"
    /\ accepted' = accepted \cup {handling[r].d}
    /\ handling' = [handling EXCEPT ![r] = [stage |-> ReplyFor("consumed"), d |-> @.d]]
    /\ UNCHANGED <<phase, conn, consumeCtx, consumer, buffer, out, serverVars,
                   rejected, faults>>

\* r.consume returned an error: a Nak comes next.  The pipeline refuses for its
\* own reasons or because Shutdown has cancelled r.ctx.  It may refuse a message
\* whenever it comes; only where max_deliver does not bound that is it a fault.
ConsumeRejects(r) ==
    /\ handling[r].stage = "consume"
    /\ rejected' = rejected \cup {handling[r].d}
    /\ handling' = [handling EXCEPT ![r] = [stage |-> ReplyFor("consume error"), d |-> @.d]]
    /\ IF MaxDeliver > 0 THEN NoFault ELSE Fault
    /\ UNCHANGED <<phase, conn, consumeCtx, consumer, buffer, out, serverVars,
                   accepted>>

\* Ack, Nak or Term: a publish on the connection.  Its error, which a closed
\* connection gives, is ignored.
Reply(r) ==
    /\ handling[r].stage \in Replies
    /\ out' = IF conn[r] = "open"
              THEN [out EXCEPT ![r] = Append(@, [kind |-> handling[r].stage,
                                                 d    |-> handling[r].d])]
              ELSE out
    /\ handling' = [handling EXCEPT ![r] = Idle]
    /\ UNCHANGED <<phase, conn, consumeCtx, consumer, buffer, serverVars,
                   historyVars, faults>>

-----------------------------------------------------------------------------
(***************************************************************************)
(* Shutdown: cancel the handlers' context, stop consuming, close the       *)
(* connection.  Each call returns at once and the callback may run between *)
(* any two of them, and after the last.                                    *)
(***************************************************************************)

\* r.cancel(), on a receiver in whatever state Start left it, or never started.
\* Every shutdown costs a fault.
ShutdownCancel(r) ==
    /\ phase[r] \in {"created", "running", "failed"}
    /\ phase' = [phase EXCEPT ![r] = "cancelled"]
    /\ Fault
    /\ UNCHANGED <<conn, consumeCtx, consumer, buffer, handling, out,
                   serverVars, historyVars>>

\* r.consumeCtx.Stop(), if Start got that far.
ShutdownStop(r) ==
    /\ phase[r] = "cancelled"
    /\ phase' = [phase EXCEPT ![r] = "stopping"]
    /\ consumeCtx' = [consumeCtx EXCEPT ![r] = IF @ = "none" THEN @ ELSE "stopped"]
    /\ UNCHANGED <<conn, consumer, buffer, handling, out, serverVars,
                   historyVars, faults>>

\* r.conn.Close(), if Start got that far.  What is buffered is gone; replies
\* already written may arrive, or only the first of them.
ShutdownClose(r) ==
    /\ phase[r] = "stopping"
    /\ phase' = [phase EXCEPT ![r] = "stopped"]
    /\ conn' = [conn EXCEPT ![r] = IF @ = "none" THEN @ ELSE "closed"]
    /\ buffer' = [buffer EXCEPT ![r] = <<>>]
    /\ \E n \in 0..Len(out[r]) : out' = [out EXCEPT ![r] = SubSeq(@, 1, n)]
    /\ UNCHANGED <<consumeCtx, consumer, handling, serverVars, historyVars, faults>>

\* The collector builds the receiver again (newNatsReceiver).  The same name is
\* reused once the old instance's last callback has returned; an old and a new
\* instance that overlap are two members of Receivers.
Rebuild(r) ==
    /\ phase[r] = "stopped"
    /\ handling[r] = Idle
    /\ phase' = [phase EXCEPT ![r] = "created"]
    /\ conn' = [conn EXCEPT ![r] = "none"]
    /\ consumeCtx' = [consumeCtx EXCEPT ![r] = "none"]
    /\ consumer' = [consumer EXCEPT ![r] = NoConsumer]
    /\ UNCHANGED <<buffer, handling, out, serverVars, historyVars, faults>>

-----------------------------------------------------------------------------
(***************************************************************************)
(* The server and the client library, as receiver.go uses them.            *)
(***************************************************************************)

\* The server sends a message that is new or due again to a consuming client.
Deliver(r, m) ==
    LET c == consumer[r] IN
    /\ conn[r] = "open"
    /\ consumeCtx[r] = "consuming"
    /\ Len(buffer[r]) < Prefetch
    /\ status[c][m] \in {"new", "queued"}
    /\ ~ CapReached(c, m)
    /\ status' = [status EXCEPT ![c][m] = "pending"]
    /\ deliveries' = [deliveries EXCEPT ![c][m] = @ + 1]
    /\ buffer' = [buffer EXCEPT ![r] =
                    Append(@, [consumer |-> c, msg |-> m, num |-> deliveries[c][m] + 1])]
    /\ UNCHANGED <<phase, conn, consumeCtx, consumer, handling, out, created,
                   expired, historyVars, faults>>

\* A message due again has used its deliveries up: the server drops it.
Exhaust(c, m) ==
    /\ status[c][m] = "queued"
    /\ CapReached(c, m)
    /\ status' = [status EXCEPT ![c][m] = "exhausted"]
    /\ UNCHANGED <<receiverVars, created, deliveries, expired, historyVars, faults>>

\* What a reply does to a message: only one that is not settled changes, and
\* the server looks at the message, not at which delivery the reply answers.
AfterReply(kind, st) ==
    IF st \in {"pending", "queued"}
    THEN [ack |-> "acked", term |-> "termed", nak |-> "queued"][kind]
    ELSE st

\* The server takes the next reply of r, in the order they were sent.
ServerReply(r) ==
    /\ out[r] # <<>>
    /\ LET a == Head(out[r]) IN
         status' = [status EXCEPT ![a.d.consumer][a.d.msg] = AfterReply(a.kind, @)]
    /\ out' = [out EXCEPT ![r] = Tail(@)]
    /\ UNCHANGED <<phase, conn, consumeCtx, consumer, buffer, handling, created,
                   deliveries, expired, historyVars, faults>>

\* ack_wait runs out.  It costs a fault while the delivery is only slow (it sits
\* in a buffer, in the pipeline or on the wire), nothing when it is really lost.
AckWaitExpires(c, m) ==
    /\ status[c][m] = "pending"
    /\ status' = [status EXCEPT ![c][m] = "queued"]
    /\ expired' = [expired EXCEPT ![c][m] = @ + 1]
    /\ IF InFlight(LastDelivery(c, m)) THEN Fault ELSE NoFault
    /\ UNCHANGED <<receiverVars, created, deliveries, historyVars>>

\* The connection breaks and the library reconnects: deliveries still on the
\* wire are lost and so are replies already written to the old connection;
\* later ones wait in the library for the new connection.
Reconnect(r) ==
    /\ conn[r] = "open"
    /\ \E n \in 0..Len(buffer[r]) : buffer' = [buffer EXCEPT ![r] = SubSeq(@, 1, n)]
    /\ \E n \in 0..Len(out[r]) : out' = [out EXCEPT ![r] = SubSeq(@, n + 1, Len(@))]
    /\ Fault
    /\ UNCHANGED <<phase, conn, consumeCtx, consumer, handling, serverVars, historyVars>>

\* Reconnecting is given up: the library closes the connection for good.
\* Nothing in the receiver notices.
GiveUp(r) ==
    /\ conn[r] = "open"
    /\ conn' = [conn EXCEPT ![r] = "closed"]
    /\ buffer' = [buffer EXCEPT ![r] = <<>>]
    /\ out' = [out EXCEPT ![r] = <<>>]
    /\ Fault
    /\ UNCHANGED <<phase, consumeCtx, consumer, handling, serverVars, historyVars>>

\* The collector process dies at any point and a new one is built.
Crash(r) ==
    /\ phase[r] # "created"
    /\ phase' = [phase EXCEPT ![r] = "created"]
    /\ conn' = [conn EXCEPT ![r] = "none"]
    /\ consumeCtx' = [consumeCtx EXCEPT ![r] = "none"]
    /\ consumer' = [consumer EXCEPT ![r] = NoConsumer]
    /\ buffer' = [buffer EXCEPT ![r] = <<>>]
    /\ handling' = [handling EXCEPT ![r] = Idle]
    /\ \E n \in 0..Len(out[r]) : out' = [out EXCEPT ![r] = SubSeq(@, 1, n)]
    /\ Fault
    /\ UNCHANGED <<serverVars, historyVars>>

-----------------------------------------------------------------------------
ReceiverNext(r) ==
    \/ Start(r) \/ StartFailsToConnect(r) \/ StartFailsToConsume(r)
    \/ Handle(r) \/ ConsumeAccepts(r) \/ ConsumeRejects(r) \/ Reply(r)
    \/ ShutdownCancel(r) \/ ShutdownStop(r) \/ ShutdownClose(r) \/ Rebuild(r)
    \/ Crash(r)

ServerNext ==
    \/ \E r \in Receivers : \/ ServerReply(r) \/ Reconnect(r) \/ GiveUp(r)
                            \/ \E m \in Messages : Deliver(r, m)
    \/ \E c \in ConsumerNames, m \in Messages : AckWaitExpires(c, m) \/ Exhaust(c, m)

Next == (\E r \in Receivers : ReceiverNext(r)) \/ ServerNext

Spec == Init /\ [][Next]_vars

\* ack_wait of a delivery nobody holds any more.
LostDeliveryExpires(c, m) == AckWaitExpires(c, m) /\ NoFault

\* The callback goroutine and Shutdown keep running, the pipeline answers every
\* call (it may refuse each time), the network and the server deliver, timers
\* fire.  Nothing fair about faults, nor about anybody starting a receiver.
Fairness ==
    /\ \A r \in Receivers :
         /\ WF_vars(Handle(r)) /\ WF_vars(Reply(r))
         /\ WF_vars(ConsumeAccepts(r) \/ ConsumeRejects(r))
         /\ WF_vars(ShutdownStop(r)) /\ WF_vars(ShutdownClose(r))
         /\ WF_vars(ServerReply(r))
         /\ \A m \in Messages : WF_vars(Deliver(r, m))
    /\ \A c \in ConsumerNames, m \in Messages :
         WF_vars(LostDeliveryExpires(c, m)) /\ WF_vars(Exhaust(c, m))

FairSpec == Spec /\ Fairness

-----------------------------------------------------------------------------
(***************************************************************************)
(* Properties.                                                             *)
(***************************************************************************)

Settled == {"acked", "termed", "exhausted"}

\* The deliveries of m on c among those in D.
Of(D, c, m) == {d \in D : d.consumer = c /\ d.msg = m}

\* Type invariant of the receiver, the server and the wire between them.
TypeOK ==
    /\ phase \in [Receivers -> {"created", "running", "failed",
                                "cancelled", "stopping", "stopped"}]
    /\ conn \in [Receivers -> {"none", "open", "closed"}]
    /\ consumeCtx \in [Receivers -> {"none", "consuming", "stopped"}]
    /\ consumer \in [Receivers -> ConsumerNames \cup {NoConsumer}]
    /\ buffer \in [Receivers -> Seq(Delivery)]
    /\ handling \in [Receivers -> Task \cup {Idle}]
    /\ out \in [Receivers -> Seq(Answer)]
    /\ created \subseteq ConsumerNames
    /\ status \in [ConsumerNames -> [Messages -> Settled \cup {"new", "pending", "queued"}]]
    /\ deliveries \in [ConsumerNames -> [Messages -> Nat]]
    /\ expired \in [ConsumerNames -> [Messages -> Nat]]
    /\ accepted \subseteq Delivery
    /\ rejected \subseteq Delivery
    /\ faults \in 0..MaxFaults

\* The server takes a message for acknowledged only if the pipeline accepted a
\* delivery of it, whatever stale reply of whatever receiver settled it: handle
\* acknowledges each message only after consume returned nil.
AckedWasAccepted ==
    \A c \in ConsumerNames, m \in Messages :
        status[c][m] = "acked" => Of(accepted, c, m) # {}

\* Only messages the encoding cannot read are terminated, and no such message
\* ever reaches the pipeline or is acknowledged.
OnlyPoisonTerminated ==
    /\ \A c \in ConsumerNames, m \in Messages :
         /\ status[c][m] = "termed" => m \in Poison
         /\ status[c][m] = "acked"  => m \notin Poison
    /\ \A d \in accepted \cup rejected : d.msg \notin Poison

\* The pipeline gets a message twice only if ack_wait ran out on it in between:
\* no interleaving of callbacks, stale replies, shutdowns and crashes makes a
\* duplicate otherwise.
DuplicatesNeedExpiry ==
    \A c \in ConsumerNames, m \in Messages :
        Cardinality(Of(accepted, c, m)) <= expired[c][m] + 1

\* The server drops a message only if max_deliver is set and its refusals by the
\* pipeline and its expiries of ack_wait together are at least that many: shutdowns,
\* crashes and lost replies alone drop nothing.  This counts events, not deliveries:
\* one that expires and is refused afterwards counts twice, and its stale Nak then
\* uses up a delivery that is still with another receiver and has not failed.
DropsNeedRefusalsOrExpiries ==
    \A c \in ConsumerNames, m \in Messages :
        status[c][m] = "exhausted" =>
            /\ MaxDeliver > 0
            /\ Cardinality(Of(rejected, c, m)) + expired[c][m] >= MaxDeliver

\* With a durable name, what was acknowledged stays so for every receiver that
\* is started, restarted or shares the consumer: it is never delivered again.
ProgressSurvivesRestart ==
    [][ DurableName # NoConsumer =>
          \A m \in Messages :
             (\E c \in ConsumerNames : status[c][m] = "acked")
                => \A c \in ConsumerNames : deliveries'[c][m] = deliveries[c][m] ]_vars

\* If from some time on some receiver runs and keeps its connection, every
\* message is settled in the end: acknowledged, terminated or dropped at
\* max_deliver, also those that stopped, crashed or cut-off receivers held.
EventuallySettled ==
    \A m \in Messages :
        <>[](\E r \in Receivers : phase[r] = "running" /\ conn[r] = "open")
            => <>(status[DurableName][m] \in Settled)

\* receiver/natsreceiver/README.md calls max_deliver the "Maximum redelivery
\* attempts": a message given up was redelivered that often.
MaxDeliverCountsRedeliveries ==
    \A c \in ConsumerNames, m \in Messages :
        status[c][m] = "exhausted" => deliveries[c][m] - 1 >= MaxDeliver

-----------------------------------------------------------------------------
(***************************************************************************)
(* Each consumer implements AtLeastOnce on the messages it keeps track of. *)
(***************************************************************************)

\* A message as one consumer sees it.
Views == ConsumerNames \X Messages

FateOf(v) == LET st == status[v[1]][v[2]] IN IF st \in Settled THEN st ELSE "open"

\* The refusals of a message and its expiries of ack_wait; one delivery may bring both.
FailuresOf(v) == Cardinality(Of(rejected, v[1], v[2])) + expired[v[1]][v[2]]

Abstract == INSTANCE AtLeastOnce WITH
    Messages <- Views,
    Poison   <- ConsumerNames \X Poison,
    fate     <- [v \in Views |-> FateOf(v)],
    taken    <- {<<d.consumer, d.msg>> : d \in accepted},
    failures <- [v \in Views |-> FailuresOf(v)]

\* Every behaviour of receivers and server is one of AtLeastOnce on each consumer,
\* durable or not: startJetStream promises "acknowledging each only after the
\* pipeline accepts it", through every crash, restart and lost reply.
ImplementsAtLeastOnce == Abstract!Spec

-----------------------------------------------------------------------------
(***************************************************************************)
(* The inductive invariant behind the safety properties.                   *)
(***************************************************************************)

\* Whoever consumes is bound to a consumer that exists on the server.
ConsumingIsBound ==
    \A r \in Receivers : consumeCtx[r] # "none" => consumer[r] \in ConsumerNames

\* What handle knows of its message justifies the reply it is about to send.
HandlingIsJustified ==
    \A r \in Receivers : handling[r] # Idle =>
        /\ handling[r].stage = "ack"  => handling[r].d \in accepted
        /\ handling[r].stage = "nak"  => handling[r].d \in rejected
        /\ handling[r].stage = "term" => handling[r].d.msg \in Poison
        /\ handling[r].stage = "consume" => handling[r].d.msg \notin Poison

\* So does what is known when a reply is on the wire, however late it arrives.
RepliesAreJustified ==
    \A r \in Receivers : \A i \in 1..Len(out[r]) :
        /\ out[r][i].kind = "ack"  => out[r][i].d \in accepted
        /\ out[r][i].kind = "nak"  => out[r][i].d \in rejected
        /\ out[r][i].kind = "term" => out[r][i].d.msg \in Poison

\* Unreadable payloads stay out of the pipeline.
PipelineGetsReadable == \A d \in accepted \cup rejected : d.msg \notin Poison

\* The server's verdicts have their reason.
VerdictsAreJustified ==
    \A c \in ConsumerNames, m \in Messages :
        /\ status[c][m] = "acked"  => Of(accepted, c, m) # {}
        /\ status[c][m] = "termed" => m \in Poison

\* TypeOK /\ ConsumingIsBound is inductive by itself; with the other conjuncts it
\* implies AckedWasAccepted and OnlyPoisonTerminated: acknowledgements and
\* terminations carry their reason from the callback over the wire to the server.
EvidenceInv ==
    /\ ConsumingIsBound
    /\ HandlingIsJustified
    /\ RepliesAreJustified
    /\ PipelineGetsReadable
    /\ VerdictsAreJustified

-----------------------------------------------------------------------------
(***************************************************************************)
(* The inductive invariant behind the properties that count.  The server   *)
(* makes one delivery of a message, and another for each event that makes  *)
(* it due again: an expiry of ack_wait, or the Nak of a refused delivery.  *)
(* A delivery can be the cause of both, when it is refused after it has    *)
(* expired; so these count events, not deliveries that failed.             *)
(***************************************************************************)

\* A delivery is in one place of one receiver, and once in it.
OneCopyEach ==
    /\ \A r, q \in Receivers : r # q => Held(r) \cap Held(q) = {}
    /\ \A r \in Receivers :
         /\ Buffered(r) \cap (InHand(r) \cup Answering(r)) = {}
         /\ InHand(r) \cap Answering(r) = {}
         /\ \A i, j \in 1..Len(buffer[r]) : buffer[r][i] = buffer[r][j] => i = j
         /\ \A i, j \in 1..Len(out[r]) : out[r][i].d = out[r][j].d => i = j

\* The pipeline decides once on a delivery, and only after it left the buffer.
OneOutcomeEach ==
    /\ accepted \cap rejected = {}
    /\ \A r \in Receivers :
         /\ Buffered(r) \cap (accepted \cup rejected) = {}
         /\ handling[r].stage = "consume" => handling[r].d \notin accepted \cup rejected

\* Whatever is held or was decided on is a delivery the server has made.
NumbersAreKnown ==
    \A d \in accepted \cup rejected \cup UNION {Held(r) : r \in Receivers} :
        d.num \in 1..deliveries[d.consumer][d.msg]

\* Refused deliveries whose Nak has arrived or is lost; it may have made the message
\* due again under a newer delivery.
Spent(c, m) == {d \in Of(rejected, c, m) : ~ InFlight(d)}

FailuresAreCounted ==
    /\ IsFiniteSet(accepted) /\ IsFiniteSet(rejected)
    /\ \A c \in ConsumerNames, m \in Messages :
         LET events == Cardinality(Spent(c, m)) + expired[c][m] IN
         /\ deliveries[c][m] <= events + 1
         /\ status[c][m] = "queued" => deliveries[c][m] <= events
         /\ status[c][m] = "new" => deliveries[c][m] = 0

\* With a durable name no other consumer is used.
BoundToDurable ==
    DurableName # NoConsumer =>
        /\ \A r \in Receivers : consumer[r] \in {DurableName, NoConsumer}
        /\ \A c \in ConsumerNames \ {DurableName}, m \in Messages : status[c][m] = "new"

\* With TypeOK and EvidenceInv this is inductive and implies DuplicatesNeedExpiry
\* (each delivery has one outcome, and there are no more of them than refusals,
\* expiries and one), DropsNeedRefusalsOrExpiries and ProgressSurvivesRestart.
AccountInv ==
    /\ OneCopyEach
    /\ OneOutcomeEach
    /\ NumbersAreKnown
    /\ FailuresAreCounted
    /\ DropsNeedRefusalsOrExpiries
    /\ BoundToDurable

=============================================================================
