----------------------------- MODULE CoreReceiver -----------------------------
(***************************************************************************)
(* The NATS receiver without JetStream: startCore, handle without a        *)
(* message to acknowledge, and Shutdown of receiver.go.                    *)
(*                                                                         *)
(* The server sends a message to every subscription there is at that       *)
(* moment and forgets it.  The client library queues it, up to a limit,    *)
(* for the one callback goroutine.  Every receiver subscribes for itself   *)
(* (no queue group), so each of them gets its own copy.                    *)
(***************************************************************************)
EXTENDS Naturals, Sequences, Functions

CONSTANTS
    Receivers,     \* receivers of the same subject
    Messages,      \* messages published on it
    Poison,        \* those the configured encoding cannot read
    PendingLimit,  \* how many messages the client library queues
    MaxFaults      \* bound on the faults of the environment

ASSUME CoreAssumption ==
    /\ Poison \subseteq Messages
    /\ PendingLimit \in Nat
    /\ MaxFaults \in Nat

VARIABLES
    phase,      \* lifecycle of each receiver
    conn,       \* r.conn
    sub,        \* r.sub
    pending,    \* messages the library has queued for the callback
    handling,   \* what the callback is doing
    unsent,     \* messages not yet published
    sentTo,     \* history: the messages each receiver was subscribed for
    lost,       \* history: those that network, shutdown or crash took from it
    calls,      \* history: how often each receiver called the pipeline with each
    outcome,    \* history: how the receiver was done with it; "none" if it is not
    faults      \* faults spent

vars == <<phase, conn, sub, pending, handling, unsent, sentTo, lost, calls, outcome, faults>>

Idle == [stage |-> "idle"]
Task == [stage : {"consume"}, msg : Messages]

Fault == faults < MaxFaults /\ faults' = faults + 1

Queued(r) == Range(pending[r])
InHand(r) == {t.msg : t \in {handling[r]} \ {Idle}}

\* What receiver r has left after the environment keeps n queued messages.
Keep(r, n) ==
    /\ pending' = [pending EXCEPT ![r] = SubSeq(@, 1, n)]
    /\ lost' = [lost EXCEPT ![r] = @ \cup Range(SubSeq(pending[r], n + 1, Len(pending[r])))]

-----------------------------------------------------------------------------
Init ==
    /\ phase = [r \in Receivers |-> "created"]
    /\ conn = [r \in Receivers |-> "none"]
    /\ sub = [r \in Receivers |-> "none"]
    /\ pending = [r \in Receivers |-> <<>>]
    /\ handling = [r \in Receivers |-> Idle]
    /\ unsent = Messages
    /\ sentTo = [r \in Receivers |-> {}]
    /\ lost = [r \in Receivers |-> {}]
    /\ calls = [r \in Receivers |-> [m \in Messages |-> 0]]
    /\ outcome = [r \in Receivers |-> [m \in Messages |-> "none"]]
    /\ faults = 0

\* Start connects and subscribes.
Start(r) ==
    /\ phase[r] = "created"
    /\ phase' = [phase EXCEPT ![r] = "running"]
    /\ conn' = [conn EXCEPT ![r] = "open"]
    /\ sub' = [sub EXCEPT ![r] = "active"]
    /\ UNCHANGED <<pending, handling, unsent, sentTo, lost, calls, outcome, faults>>

\* Start returns an error, before the connection or when subscribing.
StartFails(r) ==
    /\ phase[r] = "created"
    /\ phase' = [phase EXCEPT ![r] = "failed"]
    /\ \E c \in {"none", "open"} : conn' = [conn EXCEPT ![r] = c]
    /\ Fault
    /\ UNCHANGED <<sub, pending, handling, unsent, sentTo, lost, calls, outcome>>

\* A callback that keeps a message it cannot read.
HandleKeepsPoison(r) ==
    /\ handling[r] = Idle
    /\ sub[r] = "active"
    /\ pending[r] # <<>>
    /\ Head(pending[r]) \notin Poison
    /\ handling' = [handling EXCEPT ![r] = [stage |-> "consume", msg |-> Head(pending[r])]]
    /\ calls' = [calls EXCEPT ![r][Head(pending[r])] = @ + 1]
    /\ pending' = [pending EXCEPT ![r] = Tail(@)]
    /\ UNCHANGED <<phase, conn, sub, unsent, sentTo, lost, outcome, faults>>

\* The callback takes the next message: dropped if it cannot be unmarshaled,
\* else handed to the pipeline.
Handle(r) ==
    /\ handling[r] = Idle
    /\ sub[r] = "active"
    /\ pending[r] # <<>>
    /\ LET m == Head(pending[r]) IN
         IF m \in Poison
         THEN /\ outcome' = [outcome EXCEPT ![r][m] = "dropped"]
              /\ UNCHANGED <<handling, calls>>
         ELSE /\ handling' = [handling EXCEPT ![r] = [stage |-> "consume", msg |-> m]]
              /\ calls' = [calls EXCEPT ![r][m] = @ + 1]
              /\ UNCHANGED outcome
    /\ pending' = [pending EXCEPT ![r] = Tail(@)]
    /\ UNCHANGED <<phase, conn, sub, unsent, sentTo, lost, faults>>

\* The pipeline accepts.
ConsumeAccepts(r) ==
    /\ handling[r] # Idle
    /\ outcome' = [outcome EXCEPT ![r][handling[r].msg] = "accepted"]
    /\ handling' = [handling EXCEPT ![r] = Idle]
    /\ UNCHANGED <<phase, conn, sub, pending, unsent, sentTo, lost, calls, faults>>

\* What one could take the log line for: the message is queued again.
RequeueRejected(r) ==
    /\ handling[r] # Idle
    /\ pending' = [pending EXCEPT ![r] = Append(@, handling[r].msg)]
    /\ handling' = [handling EXCEPT ![r] = Idle]
    /\ Fault
    /\ UNCHANGED <<phase, conn, sub, unsent, sentTo, lost, calls, outcome>>

\* A callback that gives up its subscription on an error.
UnsubscribeRejected(r) ==
    /\ handling[r] # Idle
    /\ outcome' = [outcome EXCEPT ![r][handling[r].msg] = "rejected"]
    /\ handling' = [handling EXCEPT ![r] = Idle]
    /\ sub' = [sub EXCEPT ![r] = "closed"]
    /\ pending' = [pending EXCEPT ![r] = <<>>]
    /\ Fault
    /\ UNCHANGED <<phase, conn, unsent, sentTo, lost, calls>>

\* The pipeline refuses: an error is logged, there is nothing to acknowledge.
ConsumeRejects(r) ==
    /\ handling[r] # Idle
    /\ outcome' = [outcome EXCEPT ![r][handling[r].msg] = "rejected"]
    /\ handling' = [handling EXCEPT ![r] = Idle]
    /\ Fault
    /\ UNCHANGED <<phase, conn, sub, pending, unsent, sentTo, lost, calls>>

\* Shutdown: r.cancel(), then r.sub.Unsubscribe(), which discards what is
\* queued, then r.conn.Close(); the callback may run on through all of it.
ShutdownCancel(r) ==
    /\ phase[r] \in {"created", "running", "failed"}
    /\ phase' = [phase EXCEPT ![r] = "cancelled"]
    /\ Fault
    /\ UNCHANGED <<conn, sub, pending, handling, unsent, sentTo, lost, calls, outcome>>

ShutdownUnsubscribe(r) ==
    /\ phase[r] = "cancelled"
    /\ phase' = [phase EXCEPT ![r] = "stopping"]
    /\ sub' = [sub EXCEPT ![r] = IF @ = "none" THEN @ ELSE "closed"]
    /\ Keep(r, 0)
    /\ UNCHANGED <<conn, handling, unsent, sentTo, calls, outcome, faults>>

ShutdownClose(r) ==
    /\ phase[r] = "stopping"
    /\ phase' = [phase EXCEPT ![r] = "stopped"]
    /\ conn' = [conn EXCEPT ![r] = IF @ = "none" THEN @ ELSE "closed"]
    /\ UNCHANGED <<sub, pending, handling, unsent, sentTo, lost, calls, outcome, faults>>

-----------------------------------------------------------------------------
\* A message is published: each active subscription queues it, and one that is
\* at its limit drops it.
Publish(m) ==
    LET subscribed == {r \in Receivers : sub[r] = "active"}
        full == {r \in subscribed : Len(pending[r]) >= PendingLimit} IN
    /\ m \in unsent
    /\ unsent' = unsent \ {m}
    /\ sentTo' = [r \in Receivers |-> sentTo[r] \cup {x \in {m} : r \in subscribed}]
    /\ lost' = [r \in Receivers |-> lost[r] \cup {x \in {m} : r \in full}]
    /\ pending' = [r \in Receivers |->
                    IF r \in subscribed \ full THEN Append(pending[r], m) ELSE pending[r]]
    /\ UNCHANGED <<phase, conn, sub, handling, calls, outcome, faults>>

\* The connection breaks and comes back: of the messages on their way to the
\* callback, those still on the wire are lost.
Reconnect(r) ==
    /\ conn[r] = "open"
    /\ \E n \in 0..Len(pending[r]) : Keep(r, n)
    /\ Fault
    /\ UNCHANGED <<phase, conn, sub, handling, unsent, sentTo, calls, outcome>>

\* The library stops reconnecting: it closes connection and subscription.
GiveUp(r) ==
    /\ conn[r] = "open"
    /\ conn' = [conn EXCEPT ![r] = "closed"]
    /\ sub' = [sub EXCEPT ![r] = IF @ = "none" THEN @ ELSE "closed"]
    /\ Keep(r, 0)
    /\ Fault
    /\ UNCHANGED <<phase, handling, unsent, sentTo, calls, outcome>>

\* The process dies and a new receiver is built.
Crash(r) ==
    /\ phase[r] # "created"
    /\ phase' = [phase EXCEPT ![r] = "created"]
    /\ conn' = [conn EXCEPT ![r] = "none"]
    /\ sub' = [sub EXCEPT ![r] = "none"]
    /\ pending' = [pending EXCEPT ![r] = <<>>]
    /\ handling' = [handling EXCEPT ![r] = Idle]
    /\ lost' = [lost EXCEPT ![r] = @ \cup Queued(r) \cup InHand(r)]
    /\ Fault
    /\ UNCHANGED <<unsent, sentTo, calls, outcome>>

Next ==
    \/ \E r \in Receivers :
         \/ Start(r) \/ StartFails(r) \/ Handle(r) \/ ConsumeAccepts(r)
         \/ ConsumeRejects(r) \/ ShutdownCancel(r) \/ ShutdownUnsubscribe(r)
         \/ ShutdownClose(r) \/ Reconnect(r) \/ GiveUp(r) \/ Crash(r)
    \/ \E m \in Messages : Publish(m)

Spec == Init /\ [][Next]_vars

\* The callback goroutine runs, and the pipeline answers every call.
Fairness ==
    \A r \in Receivers :
        /\ WF_vars(Handle(r))
        /\ WF_vars(ConsumeAccepts(r) \/ ConsumeRejects(r))

FairSpec == Spec /\ Fairness

-----------------------------------------------------------------------------
\* Type invariant: the values, and the library's queue kept within its limit.
TypeOK ==
    /\ phase \in [Receivers -> {"created", "running", "failed",
                                "cancelled", "stopping", "stopped"}]
    /\ conn \in [Receivers -> {"none", "open", "closed"}]
    /\ sub \in [Receivers -> {"none", "active", "closed"}]
    /\ pending \in [Receivers -> Seq(Messages)]
    /\ \A r \in Receivers : Len(pending[r]) <= PendingLimit
    /\ handling \in [Receivers -> Task \cup {Idle}]
    /\ unsent \subseteq Messages
    /\ sentTo \in [Receivers -> SUBSET Messages]
    /\ lost \in [Receivers -> SUBSET Messages]
    /\ calls \in [Receivers -> [Messages -> Nat]]
    /\ outcome \in [Receivers -> [Messages -> {"none", "accepted", "rejected", "dropped"}]]
    /\ faults \in 0..MaxFaults

\* At most once: through reconnects, shutdowns and crashes, a receiver gives the
\* pipeline a message at most once, and only one it was subscribed for.
AtMostOnce ==
    \A r \in Receivers, m \in Messages :
        calls[r][m] <= IF m \in sentTo[r] THEN 1 ELSE 0

\* Every message sent to a receiver is in exactly one place: queued, in hand,
\* done with, or lost to the network, a shutdown or a crash.  No error path of
\* the callback takes other messages with it.
EachInOnePlace ==
    \A r \in Receivers :
        LET done == {m \in Messages : outcome[r][m] # "none"}
            places == <<Queued(r), InHand(r), done, lost[r]>> IN
        /\ sentTo[r] = UNION Range(places)
        /\ \A i, j \in 1..4 : i # j => places[i] \cap places[j] = {}

\* Every message sent to a receiver is handled in the end, unless it is lost to
\* the network, a shutdown or a crash: an error on one does not keep the next.
SentIsHandled ==
    \A r \in Receivers, m \in Messages :
        m \in sentTo[r] ~> outcome[r][m] # "none" \/ m \in lost[r]

-----------------------------------------------------------------------------
(***************************************************************************)
(* The receivers implement BestEffort.                                     *)
(***************************************************************************)

\* What has become of each message at receiver r.
Fate(r) == [m \in Messages |->
    IF m \in Queued(r) THEN "queued"
    ELSE IF m \in InHand(r) THEN "offered"
    ELSE IF m \in lost[r] THEN "lost"
    ELSE outcome[r][m]]

Abstract == INSTANCE BestEffort WITH
    Readers   <- Receivers,
    published <- Messages \ unsent,
    fate      <- [r \in Receivers |-> Fate(r)]

\* Every behaviour of the receivers is one of BestEffort: whatever goes wrong with
\* a message or a receiver is final for that message there, and touches neither
\* another message nor another receiver, as startCore says: "a payload that fails
\* to unmarshal or that the pipeline rejects is logged and dropped".
ImplementsBestEffort == Abstract!Spec

-----------------------------------------------------------------------------
(***************************************************************************)
(* The inductive invariant behind AtMostOnce and EachInOnePlace.           *)
(***************************************************************************)

\* A message is not sent to anyone before it is published.
FreshUntilSent == \A r \in Receivers : unsent \cap sentTo[r] = {}

\* The library queues no message twice.
QueuedOnce ==
    \A r \in Receivers : \A i, j \in 1..Len(pending[r]) :
        pending[r][i] = pending[r][j] => i = j

\* The pipeline was given no message that is still queued, and none twice.
CalledOnce ==
    \A r \in Receivers, m \in Messages :
        calls[r][m] # 0 => calls[r][m] = 1 /\ m \in sentTo[r] \ Queued(r)

\* With TypeOK this is inductive, and implies AtMostOnce: a message enters the
\* queue once, when it is published, and leaves it for the callback or for good.
CoreInv ==
    /\ FreshUntilSent
    /\ QueuedOnce
    /\ CalledOnce
    /\ EachInOnePlace

=============================================================================
