----------------------------- MODULE NatsExporter -----------------------------
(***************************************************************************)
(* The NATS exporter: natsExporter and its two publishers of               *)
(* exporter/natsexporter/exporter.go, the exporter helper as factory.go    *)
(* sets it up, and the server it publishes to.                             *)
(*                                                                         *)
(* The pipeline may export several batches at once, and may still do so    *)
(* while and after Shutdown closes the connection.  An export splits its   *)
(* batch into one group per subject and publishes the groups one after the *)
(* other, in an order nobody chose (they come out of a Go map).  With core *)
(* NATS a publish only writes to the connection; with JetStream it waits   *)
(* for the server's answer, which may be lost or late.                     *)
(***************************************************************************)
EXTENDS Naturals, FiniteSets

CONSTANTS
    Batches,        \* batches of telemetry, exported concurrently
    Subjects,       \* the subjects the records evaluate to
    NoSubject,      \* none of them
    RecordsOf,      \* what the subject expression makes of the records of each
                    \* batch: their subjects, and NoSubject where it fails
    Unmarshalable,  \* <<batch, subject>>: groups the marshaler refuses
    Unpublishable,  \* groups the client refuses: too large, or a bad subject
    Modes,          \* "jetstream" if Config.JetStream may be set, "core" if it may not
    MaxExports      \* bound on how often the pipeline exports one batch

ASSUME GroupsAssumption ==
    /\ NoSubject \notin Subjects
    /\ RecordsOf \in [Batches -> SUBSET (Subjects \cup {NoSubject})]
    /\ Unmarshalable \cup Unpublishable \subseteq Batches \X Subjects
ASSUME ModeAssumption == Modes \subseteq {"core", "jetstream"} /\ MaxExports \in Nat

VARIABLES
    phase,      \* created, started or failed by start, stopped or abandoned
    publisher,  \* e.publisher: nil, a core or a JetStream publisher
    conn,       \* the connection
    stage,      \* where the export of each batch stands
    todo,       \* groups its loop has not reached yet
    current,    \* the group it is publishing
    errs,       \* whether it has collected an error
    exports,    \* how often the batch was exported
    result,     \* what the last export returned to the pipeline
    tried,      \* history: groups the last export handed to the publisher
    wire,       \* publishes written to the connection, not yet at the server
    answers,    \* the server's answers that are under way
    stored      \* how often the server stored each group of each batch

exportVars == <<stage, todo, current, errs, exports, result, tried>>
serverVars == <<wire, answers, stored>>
vars == <<phase, publisher, conn, exportVars, serverVars>>

Publish  == [batch : Batches, subject : Subjects, try : Nat]
Answer   == [to : Publish, ok : BOOLEAN]

\* What Group makes of a batch: a group for each subject, and an error if there
\* are records without one, which are in no group.
GroupsOf(b)      == RecordsOf[b] \ {NoSubject}
HasUnroutable(b) == NoSubject \in RecordsOf[b]

-----------------------------------------------------------------------------
Init ==
    /\ phase = "created"
    /\ publisher = "nil"
    /\ conn = "none"
    /\ stage = [b \in Batches |-> "idle"]
    /\ todo = [b \in Batches |-> {}]
    /\ current = [b \in Batches |-> NoSubject]
    /\ errs = [b \in Batches |-> FALSE]
    /\ exports = [b \in Batches |-> 0]
    /\ result = [b \in Batches |-> "none"]
    /\ tried = [b \in Batches |-> {}]
    /\ wire = {}
    /\ answers = {}
    /\ stored = [b \in Batches |-> [s \in Subjects |-> 0]]

(***************************************************************************)
(* Faulty variants of definitions below, slips one could make in           *)
(* exporter.go; used only to check that the properties can fail.           *)
(***************************************************************************)

\* newPublisher forgets conn.Close() when JetStream cannot be set up.
LeakyNewPublisher ==
    \/ publisher' = "nil" /\ conn' = "none"
    \/ "jetstream" \in Modes /\ publisher' = "nil" /\ conn' = "open"
    \/ publisher' \in Modes /\ conn' = "open"

\* Group keeps its map of subjects from one call to the next.
ExportWithStaleGroups(b) ==
    /\ phase \in {"started", "stopped"}
    /\ stage[b] \in {"idle", "returned"}
    /\ exports[b] < MaxExports
    /\ stage' = [stage EXCEPT ![b] = "looping"]
    /\ todo' = [todo EXCEPT ![b] = UNION {GroupsOf(o) : o \in Batches}]
    /\ errs' = [errs EXCEPT ![b] = HasUnroutable(b)]
    /\ exports' = [exports EXCEPT ![b] = @ + 1]
    /\ result' = [result EXCEPT ![b] = "none"]
    /\ tried' = [tried EXCEPT ![b] = {}]
    /\ UNCHANGED <<phase, publisher, conn, current, serverVars>>

\* export overwrites its errors instead of appending to them.
PublishFailureForgotten(b) ==
    /\ stage[b] = "waiting"
    /\ stage' = [stage EXCEPT ![b] = "looping"]
    /\ current' = [current EXCEPT ![b] = NoSubject]
    /\ UNCHANGED <<phase, publisher, conn, todo, errs, exports, result, tried, serverVars>>

\* jetStreamPublisher tries once more when the wait for the answer fails.
PublishAgain(b) ==
    /\ stage[b] = "waiting"
    /\ todo' = [todo EXCEPT ![b] = @ \cup {current[b]}]
    /\ stage' = [stage EXCEPT ![b] = "looping"]
    /\ current' = [current EXCEPT ![b] = NoSubject]
    /\ UNCHANGED <<phase, publisher, conn, errs, exports, result, tried, serverVars>>

\* export returns at the first group it cannot marshal.
SkipRest(b, s) ==
    /\ stage[b] = "looping"
    /\ s \in todo[b]
    /\ <<b, s>> \in Unmarshalable
    /\ todo' = [todo EXCEPT ![b] = {}]
    /\ errs' = [errs EXCEPT ![b] = TRUE]
    /\ UNCHANGED <<phase, publisher, conn, stage, current, exports, result, tried,
                   serverVars>>

(***************************************************************************)
(* start and shutdown.                                                     *)
(***************************************************************************)

\* newPublisher: no connection, one that could not be given a JetStream context
\* and is closed again, or a publisher of the configured kind on an open connection.
NewPublisher ==
    \/ publisher' = "nil" /\ conn' = "none"
    \/ "jetstream" \in Modes /\ publisher' = "nil" /\ conn' = "closed"
    \/ publisher' \in Modes /\ conn' = "open"

\* start resolves the marshaler and makes the publisher, and does the second
\* even when the first failed.
Start ==
    /\ phase = "created"
    /\ NewPublisher
    /\ \E resolved \in BOOLEAN :
         phase' = IF resolved /\ publisher' # "nil" THEN "started" ELSE "failed"
    /\ UNCHANGED <<exportVars, serverVars>>

\* shutdown closes the connection through the publisher, if there is one.  It
\* does not wait for exports.
Shutdown ==
    /\ phase \in {"created", "started", "failed"}
    /\ phase' = IF phase = "started" THEN "stopped" ELSE "abandoned"
    /\ conn' = IF publisher # "nil" THEN "closed" ELSE conn
    /\ UNCHANGED <<publisher, exportVars, serverVars>>

(***************************************************************************)
(* export.                                                                 *)
(***************************************************************************)

\* The pipeline exports b, for the first time or again whatever came of the last
\* time.  Group keeps the error of records without a subject.
Export(b) ==
    /\ phase \in {"started", "stopped"}
    /\ stage[b] \in {"idle", "returned"}
    /\ exports[b] < MaxExports
    /\ stage' = [stage EXCEPT ![b] = "looping"]
    /\ todo' = [todo EXCEPT ![b] = GroupsOf(b)]
    /\ errs' = [errs EXCEPT ![b] = HasUnroutable(b)]
    /\ exports' = [exports EXCEPT ![b] = @ + 1]
    /\ result' = [result EXCEPT ![b] = "none"]
    /\ tried' = [tried EXCEPT ![b] = {}]
    /\ UNCHANGED <<phase, publisher, conn, current, serverVars>>

\* The group cannot be marshaled: note the error and go on.
SkipGroup(b, s) ==
    /\ stage[b] = "looping"
    /\ s \in todo[b]
    /\ <<b, s>> \in Unmarshalable
    /\ todo' = [todo EXCEPT ![b] = @ \ {s}]
    /\ errs' = [errs EXCEPT ![b] = TRUE]
    /\ UNCHANGED <<phase, publisher, conn, stage, current, exports, result, tried,
                   serverVars>>

\* The client takes a message for the connection.
Writable(b, s) == conn = "open" /\ <<b, s>> \notin Unpublishable

\* conn.Publish: written to the connection, or an error if it is closed or the
\* client refuses the message.
CorePublish(b, s) ==
    /\ IF Writable(b, s)
       THEN /\ wire' = wire \cup {[batch |-> b, subject |-> s, try |-> exports[b]]}
            /\ UNCHANGED errs
       ELSE /\ errs' = [errs EXCEPT ![b] = TRUE]
            /\ UNCHANGED wire
    /\ UNCHANGED <<stage, current>>

\* js.Publish: the same, and then a wait for the server's answer.
JetStreamPublish(b, s) ==
    IF Writable(b, s)
    THEN /\ wire' = wire \cup {[batch |-> b, subject |-> s, try |-> exports[b]]}
         /\ stage' = [stage EXCEPT ![b] = "waiting"]
         /\ current' = [current EXCEPT ![b] = s]
         /\ UNCHANGED errs
    ELSE /\ errs' = [errs EXCEPT ![b] = TRUE]
         /\ UNCHANGED <<wire, stage, current>>

\* The group is marshaled and published.
PublishGroup(b, s) ==
    /\ stage[b] = "looping"
    /\ s \in todo[b]
    /\ <<b, s>> \notin Unmarshalable
    /\ todo' = [todo EXCEPT ![b] = @ \ {s}]
    /\ tried' = [tried EXCEPT ![b] = @ \cup {s}]
    /\ IF publisher = "jetstream" THEN JetStreamPublish(b, s) ELSE CorePublish(b, s)
    /\ UNCHANGED <<phase, publisher, conn, exports, result, answers, stored>>

\* What a waiting publish waits for.
Awaited(b) == [batch |-> b, subject |-> current[b], try |-> exports[b]]

\* js.Publish got the answer: an acknowledgement, or the server's error.
PublishAnswered(b) ==
    /\ stage[b] = "waiting"
    /\ \E a \in answers :
         /\ a.to = Awaited(b)
         /\ conn = "open"
         /\ answers' = answers \ {a}
         /\ errs' = [errs EXCEPT ![b] = @ \/ ~ a.ok]
    /\ stage' = [stage EXCEPT ![b] = "looping"]
    /\ current' = [current EXCEPT ![b] = NoSubject]
    /\ UNCHANGED <<phase, publisher, conn, todo, exports, result, tried, wire, stored>>

\* js.Publish gave up: publish_timeout or the helper's deadline passed, nobody
\* listens on the subject, or the connection was closed while it waited.
PublishFails(b) ==
    /\ stage[b] = "waiting"
    /\ errs' = [errs EXCEPT ![b] = TRUE]
    /\ stage' = [stage EXCEPT ![b] = "looping"]
    /\ current' = [current EXCEPT ![b] = NoSubject]
    /\ answers' = {a \in answers : a.to # Awaited(b)}
    /\ UNCHANGED <<phase, publisher, conn, todo, exports, result, tried, wire, stored>>

\* factory.go gives the exporter helper no retry settings and no queue: what
\* export returns is what the pipeline gets.
HelperResult(failed) == IF failed THEN "error" ELSE "ok"

\* export has been through all groups and returns its errors joined.
Return(b) ==
    /\ stage[b] = "looping"
    /\ todo[b] = {}
    /\ stage' = [stage EXCEPT ![b] = "returned"]
    /\ result' = [result EXCEPT ![b] = HelperResult(errs[b])]
    /\ UNCHANGED <<phase, publisher, conn, todo, current, errs, exports, tried,
                   serverVars>>

(***************************************************************************)
(* The server and the network.                                             *)
(***************************************************************************)

\* The answer to p goes out.  The library drops one that nobody waits for any more.
AnswerTo(p, ok) ==
    answers' = IF \E b \in Batches : stage[b] = "waiting" /\ Awaited(b) = p
               THEN answers \cup {[to |-> p, ok |-> ok]}
               ELSE answers

\* The server takes a publish: a stream stores it, and answers if it was asked
\* to.  No message identifier is sent, so the server does not drop duplicates.
Store(p) ==
    /\ p \in wire
    /\ wire' = wire \ {p}
    /\ stored' = [stored EXCEPT ![p.batch][p.subject] = @ + 1]
    /\ AnswerTo(p, TRUE)
    /\ UNCHANGED <<phase, publisher, conn, exportVars>>

\* The stream refuses it (full, sealed, no leader).
Refuse(p) ==
    /\ publisher = "jetstream"
    /\ p \in wire
    /\ wire' = wire \ {p}
    /\ AnswerTo(p, FALSE)
    /\ UNCHANGED <<phase, publisher, conn, exportVars, stored>>

\* A connection that breaks loses publishes and answers.
Lose ==
    /\ \/ \E p \in wire : wire' = wire \ {p} /\ UNCHANGED answers
       \/ \E a \in answers : answers' = answers \ {a} /\ UNCHANGED wire
    /\ UNCHANGED <<phase, publisher, conn, exportVars, stored>>

\* The library gives reconnecting up and closes the connection.
GiveUp ==
    /\ conn = "open"
    /\ conn' = "closed"
    /\ UNCHANGED <<phase, publisher, exportVars, serverVars>>

-----------------------------------------------------------------------------
BatchNext(b) ==
    \/ Export(b) \/ PublishAnswered(b) \/ PublishFails(b) \/ Return(b)
    \/ \E s \in Subjects : SkipGroup(b, s) \/ PublishGroup(b, s)

ServerNext == (\E p \in wire : Store(p) \/ Refuse(p)) \/ Lose

Next == Start \/ Shutdown \/ GiveUp \/ ServerNext \/ \E b \in Batches : BatchNext(b)

Spec == Init /\ [][Next]_vars

\* An export once begun keeps running, and the deadline of a publish passes.
\* Nothing is assumed of the server or the network.
Fairness ==
    \A b \in Batches :
        /\ WF_vars(PublishFails(b)) /\ WF_vars(Return(b))
        /\ \A s \in Subjects : WF_vars(SkipGroup(b, s)) /\ WF_vars(PublishGroup(b, s))

FairSpec == Spec /\ Fairness

-----------------------------------------------------------------------------
(***************************************************************************)
(* Properties.                                                             *)
(***************************************************************************)

\* Type invariant.  An export works on the groups of its own batch only, each
\* at most once, and waits for at most one of them.
TypeOK ==
    /\ phase \in {"created", "started", "failed", "stopped", "abandoned"}
    /\ publisher \in {"nil"} \cup Modes
    /\ conn \in {"none", "open", "closed"}
    /\ stage \in [Batches -> {"idle", "looping", "waiting", "returned"}]
    /\ todo \in [Batches -> SUBSET Subjects]
    /\ current \in [Batches -> Subjects \cup {NoSubject}]
    /\ errs \in [Batches -> BOOLEAN]
    /\ exports \in [Batches -> 0..MaxExports]
    /\ result \in [Batches -> {"none", "ok", "error"}]
    /\ tried \in [Batches -> SUBSET Subjects]
    /\ \A b \in Batches :
         /\ todo[b] \cup tried[b] \subseteq GroupsOf(b)
         /\ todo[b] \cap tried[b] = {}
         /\ stage[b] = "waiting" => current[b] \in tried[b]
    /\ wire \subseteq Publish
    /\ answers \subseteq Answer
    /\ stored \in [Batches -> [Subjects -> Nat]]

\* JetStream gives "durable, at-least-once delivery": when an export returned no
\* error, every record had a subject, and every group of the batch is stored,
\* whatever was lost, late, refused or cut off by Shutdown on the way.
SuccessMeansStored ==
    \A b \in Batches :
        publisher = "jetstream" /\ result[b] = "ok" =>
            /\ ~ HasUnroutable(b)
            /\ \A s \in GroupsOf(b) : stored[b][s] > 0

\* A group that cannot be marshaled or published does not keep the others from
\* being published: every export hands over each group that can be marshaled.
OthersArePublished ==
    \A b \in Batches :
        stage[b] = "returned" =>
            tried[b] = {s \in GroupsOf(b) : <<b, s>> \notin Unmarshalable}

\* A stream holds a group twice only if the pipeline exported the batch again:
\* no timeout or late acknowledgement within one export duplicates it.
DuplicatesNeedResend ==
    \A b \in Batches, s \in Subjects : stored[b][s] <= exports[b]

\* What the exporter promises, in ExportPromise: the two properties above, and
\* that each export returns once and nothing is stored of a group that is not the
\* batch's.  The exporter keeps the promise in every behaviour.
Promise == INSTANCE ExportPromise WITH jetstream <- publisher = "jetstream"

ImplementsPromise == Promise!Spec

\* After Shutdown no connection is left open, whichever part of start failed.
NoLeakedConnection == phase \in {"stopped", "abandoned"} => conn # "open"

\* Every export returns, even if the server never answers and Shutdown closes
\* the connection under it.
ExportReturns ==
    \A b \in Batches : stage[b] \in {"looping", "waiting"} ~> stage[b] = "returned"

\* The comment on jetStreamPublisher: "a publish error is returned to the
\* exporter helper, which retries the batch".  If so, the pipeline of a running
\* exporter sees an error only after more than one try.
PublishErrorIsRetried ==
    phase = "started" => \A b \in Batches : result[b] = "error" => exports[b] > 1

-----------------------------------------------------------------------------
(***************************************************************************)
(* The inductive invariant behind the safety properties.                   *)
(***************************************************************************)

\* Nothing is exported before start, and a result is there when an export is over.
StagesAgree ==
    /\ phase = "created" => publisher = "nil" /\ \A b \in Batches : exports[b] = 0
    /\ \A b \in Batches :
         /\ stage[b] = "idle" <=> exports[b] = 0
         /\ stage[b] = "returned" <=> result[b] # "none"
         /\ exports[b] = 0 => tried[b] = {}

\* An acknowledgement tells the truth, however late.
AnswersAreTrue ==
    \A a \in answers : a.ok => stored[a.to.batch][a.to.subject] > 0

\* As long as the export of b has met no error, each group is yet to be published,
\* being published, or stored.
NoErrorYet(b) ==
    publisher = "jetstream" /\ stage[b] \in {"looping", "waiting"} /\ ~ errs[b] =>
        /\ ~ HasUnroutable(b)
        /\ \A s \in GroupsOf(b) :
             \/ s \in todo[b]
             \/ stage[b] = "waiting" /\ s = current[b]
             \/ stored[b][s] > 0

ErrorsAreKept == \A b \in Batches : NoErrorYet(b)

\* What is on the wire is a group of the batch it says.
WireIsJustified == \A p \in wire : p.subject \in GroupsOf(p.batch)

\* The publishes of a group on the wire, and how many exports have published it.
OnWire(b, s) == {p \in wire : p.batch = b /\ p.subject = s}
Tries(b, s) ==
    IF s \in tried[b] THEN exports[b] ELSE IF exports[b] = 0 THEN 0 ELSE exports[b] - 1

\* Each copy that is stored or under way is from an export of its own.
CopiesAreCounted ==
    /\ IsFiniteSet(wire)
    /\ \A b \in Batches, s \in Subjects :
         stored[b][s] + Cardinality(OnWire(b, s)) <= Tries(b, s)

\* An export hands over what can be marshaled, or has it still before it; it
\* returns with nothing left.
NothingIsSkipped ==
    \A b \in Batches :
        /\ stage[b] # "idle" =>
             {s \in GroupsOf(b) : <<b, s>> \notin Unmarshalable} =
             tried[b] \cup {s \in todo[b] : <<b, s>> \notin Unmarshalable}
        /\ stage[b] = "returned" => todo[b] = {}

\* A connection that is open is one that shutdown can close.
OpenIsHeld == conn = "open" => publisher # "nil"

\* With TypeOK this is inductive and implies the safety properties above: what an
\* export may still count on follows each group from the loop over the wire to the
\* stream and back.
ExportInv ==
    /\ StagesAgree
    /\ AnswersAreTrue
    /\ ErrorsAreKept
    /\ SuccessMeansStored
    /\ WireIsJustified
    /\ CopiesAreCounted
    /\ NothingIsSkipped
    /\ OpenIsHeld
    /\ NoLeakedConnection

=============================================================================
