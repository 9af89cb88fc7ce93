------------------------------- MODULE Grouper -------------------------------
(***************************************************************************)
(* Group of exporter/natsexporter/internal/grouper: one pass over a        *)
(* payload that copies every record into the payload of its subject, under *)
(* copies of its resource and scope.  logs_grouper.go, metrics_grouper.go  *)
(* and traces_grouper.go are the same algorithm over different types; the  *)
(* definitions below are mapped to the first of them.                      *)
(*                                                                         *)
(* Resources and scopes without records do nothing in the three nested     *)
(* loops, so a payload is the sequence of its records in loop order, each  *)
(* with its resource, its scope and what its subject evaluates to.         *)
(***************************************************************************)
EXTENDS Naturals, Sequences

CONSTANTS
    Resources,   \* positions of resources in a payload
    Scopes,      \* positions of scopes in a resource
    Subjects,    \* strings the subject expression can give
    NoSubject,   \* it gave an error, or no string
    MaxRecords   \* bound on the records of a payload

ASSUME GrouperAssumption ==
    /\ Resources \subseteq Nat \ {0}
    /\ Scopes \subseteq Nat \ {0}
    /\ NoSubject \notin Subjects
    /\ MaxRecords \in Nat

VARIABLES
    payload,   \* the records of the source
    next,      \* the record the loops have come to
    dest,      \* destBySubject
    errs       \* the records an error was kept for

vars == <<payload, next, dest, errs>>

Record == [res : Resources, scope : Scopes, subject : Subjects \cup {NoSubject}]

\* The loops visit a resource's records together, and a scope's within it.
InLoopOrder(p) ==
    \A i, j \in 1..Len(p) : i < j =>
        \/ p[i].res < p[j].res
        \/ p[i].res = p[j].res /\ p[i].scope <= p[j].scope

Payloads ==
    {p \in UNION {[1..n -> Record] : n \in 0..MaxRecords} : InLoopOrder(p)}

\* A new destContext: no source seen yet, an empty payload.
EmptyDest == [res |-> 0, scope |-> <<0, 0>>, tree |-> <<>>]

-----------------------------------------------------------------------------
\* Faulty variants, to check that the properties can fail.

\* dest.srcResourceLogs is not updated.
ResourceNotRemembered(d, rec) ==
    IF d.res # rec.res
    THEN [d EXCEPT !.tree = Append(@, [res |-> rec.res, scopes |-> <<>>])]
    ELSE d

\* The loops are left at the first record without a subject.
StopAtError ==
    /\ next <= Len(payload)
    /\ payload[next].subject = NoSubject
    /\ errs' = errs \cup {next}
    /\ next' = Len(payload) + 1
    /\ UNCHANGED <<payload, dest>>

-----------------------------------------------------------------------------
\* A resource other than the last one copied is appended, without scopes.
WithResource(d, rec) ==
    IF d.res # rec.res
    THEN [d EXCEPT !.res = rec.res,
                   !.tree = Append(@, [res |-> rec.res, scopes |-> <<>>])]
    ELSE d

\* A scope other than the last one copied is appended to the last resource.
WithScope(d, rec) ==
    LET n == Len(d.tree) IN
    IF d.scope # <<rec.res, rec.scope>>
    THEN [d EXCEPT !.scope = <<rec.res, rec.scope>>,
                   !.tree[n].scopes = Append(@, [scope |-> rec.scope, recs |-> <<>>])]
    ELSE d

\* The record, known by its position i, is appended to the last scope.
WithRecord(d, i) ==
    LET n == Len(d.tree)
        k == Len(d.tree[n].scopes)
    IN  [d EXCEPT !.tree[n].scopes[k].recs = Append(@, i)]

Copied(d, i) == WithRecord(WithScope(WithResource(d, payload[i]), payload[i]), i)

DestOf(s) == IF s \in DOMAIN dest THEN dest[s] ELSE EmptyDest

\* What Group returns: one group for each subject, in no particular order.
Groups == {[subject |-> s, data |-> dest[s].tree] : s \in DOMAIN dest}

-----------------------------------------------------------------------------
Init ==
    /\ payload \in Payloads
    /\ next = 1
    /\ dest = [s \in {} |-> EmptyDest]
    /\ errs = {}

\* The subject cannot be evaluated, or is no string: keep an error, go on.
SkipRecord ==
    /\ next <= Len(payload)
    /\ payload[next].subject = NoSubject
    /\ errs' = errs \cup {next}
    /\ next' = next + 1
    /\ UNCHANGED <<payload, dest>>

\* The record is copied to its subject, which may be a new one.
CopyRecord ==
    /\ next <= Len(payload)
    /\ payload[next].subject # NoSubject
    /\ LET s == payload[next].subject IN
         dest' = [t \in DOMAIN dest \cup {s} |->
                    IF t = s THEN Copied(DestOf(s), next) ELSE dest[t]]
    /\ next' = next + 1
    /\ UNCHANGED <<payload, errs>>

Next == SkipRecord \/ CopyRecord

Spec == Init /\ [][Next]_vars

-----------------------------------------------------------------------------
(***************************************************************************)
(* Properties.                                                             *)
(***************************************************************************)

\* The places of the records in the group of subject s.
Places(s) ==
    LET t == dest[s].tree IN
    {p \in (1..MaxRecords) \X (1..MaxRecords) \X (1..MaxRecords) :
        /\ p[1] <= Len(t)
        /\ p[2] <= Len(t[p[1]].scopes)
        /\ p[3] <= Len(t[p[1]].scopes[p[2]].recs)}

At(s, p) == dest[s].tree[p[1]].scopes[p[2]].recs[p[3]]

Before(p, o) ==
    \/ p[1] < o[1]
    \/ p[1] = o[1] /\ p[2] < o[2]
    \/ p[1] = o[1] /\ p[2] = o[2] /\ p[3] < o[3]

\* The groups partition the records seen so far that have a subject: each is in
\* the group of its subject, under its own resource and scope, once, and the
\* records of a group keep their order.
GroupsPartitionRecords ==
    /\ \A s \in DOMAIN dest, i \in 1..Len(payload) :
         i < next /\ payload[i].subject = s => \E p \in Places(s) : At(s, p) = i
    /\ \A i \in 1..Len(payload) :
         i < next => payload[i].subject \in DOMAIN dest \cup {NoSubject}
    /\ \A s \in DOMAIN dest : \A p \in Places(s) :
         /\ At(s, p) < next
         /\ payload[At(s, p)].subject = s
         /\ payload[At(s, p)].res = dest[s].tree[p[1]].res
         /\ payload[At(s, p)].scope = dest[s].tree[p[1]].scopes[p[2]].scope
         /\ \A o \in Places(s) : Before(p, o) => At(s, p) < At(s, o)

\* A group has a copy of each context once, in the order of the payload and never
\* without records: to remember the last resource and scope is enough, though
\* records of other subjects come in between.
ContextsCopiedOnce ==
    \A s \in DOMAIN dest :
        LET t == dest[s].tree IN
        /\ \A q, x \in 1..Len(t) : q < x => t[q].res < t[x].res
        /\ \A q \in 1..Len(t) :
             /\ Len(t[q].scopes) > 0
             /\ \A e, y \in 1..Len(t[q].scopes) :
                  e < y => t[q].scopes[e].scope < t[q].scopes[y].scope
             /\ \A e \in 1..Len(t[q].scopes) : Len(t[q].scopes[e].recs) > 0

=============================================================================
