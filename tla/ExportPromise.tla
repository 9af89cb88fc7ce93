---------------------------- MODULE ExportPromise ----------------------------
(***************************************************************************)
(* What the exporter promises to its pipeline and to whoever reads the     *)
(* stream, with connections, publishes and answers left out: each export   *)
(* adds at most one copy of each group of the batch, whenever that is, and *)
(* over JetStream it returns without an error only if every record had a   *)
(* subject and every group is in the stream.                               *)
(***************************************************************************)
EXTENDS Naturals

CONSTANTS
    Batches,      \* batches of telemetry
    Subjects,     \* subjects of records
    NoSubject,    \* none of them
    RecordsOf,    \* the subjects of the records of each batch, NoSubject among them
    MaxExports    \* bound on how often the pipeline exports a batch

VARIABLES
    jetstream,    \* whether the exporter publishes with JetStream
    exports,      \* how often the pipeline exported each batch
    result,       \* what the last export of it returned
    stored        \* how many copies of each group of it the server stored

vars == <<jetstream, exports, result, stored>>

\* The groups a batch is published as, and whether it has records in none.
GroupsOf(b)      == RecordsOf[b] \ {NoSubject}
HasUnroutable(b) == NoSubject \in RecordsOf[b]

Init ==
    /\ jetstream = FALSE
    /\ exports = [b \in Batches |-> 0]
    /\ result = [b \in Batches |-> "none"]
    /\ stored = [b \in Batches |-> [s \in Subjects |-> 0]]

\* The exporter starts with JetStream configured, before any export.
Choose ==
    /\ \A b \in Batches : exports[b] = 0
    /\ jetstream' = TRUE
    /\ UNCHANGED <<exports, result, stored>>

Begin(b) ==
    /\ exports[b] = 0 \/ result[b] # "none"
    /\ exports[b] < MaxExports
    /\ exports' = [exports EXCEPT ![b] = @ + 1]
    /\ result' = [result EXCEPT ![b] = "none"]
    /\ UNCHANGED <<jetstream, stored>>

\* A copy arrives at the server, perhaps long after its export has returned.
Store(b, s) ==
    /\ s \in GroupsOf(b)
    /\ stored[b][s] < exports[b]
    /\ stored' = [stored EXCEPT ![b][s] = @ + 1]
    /\ UNCHANGED <<jetstream, exports, result>>

Delivered(b) == ~ HasUnroutable(b) /\ \A s \in GroupsOf(b) : stored[b][s] > 0

\* The export returns: an error for whatever reason, success only for its own.
Report(b) ==
    /\ exports[b] > 0
    /\ result[b] = "none"
    /\ \/ result' = [result EXCEPT ![b] = "error"]
       \/ /\ jetstream => Delivered(b)
          /\ result' = [result EXCEPT ![b] = "ok"]
    /\ UNCHANGED <<jetstream, exports, stored>>

Next ==
    \/ Choose
    \/ \E b \in Batches : Begin(b) \/ Report(b) \/ \E s \in Subjects : Store(b, s)

Spec == Init /\ [][Next]_vars

=============================================================================
