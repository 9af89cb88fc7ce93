---------------------------- MODULE NaiveGrouping ----------------------------
(***************************************************************************)
(* Group against the naive grouping of the grouper tests: copy the whole   *)
(* payload for each subject, then remove the other records and what is     *)
(* empty after that.                                                       *)
(***************************************************************************)
EXTENDS Grouper, FiniteSets

\* The elements of a set of positions, in their order.
Ascending(S) ==
    CHOOSE q \in [1..Cardinality(S) -> S] : \A i, j \in DOMAIN q : i < j => q[i] < q[j]

\* The records of subject s, and those of them in one resource or scope.
RecordsOf(s)            == {i \in DOMAIN payload : payload[i].subject = s}
InResource(s, r)        == {i \in RecordsOf(s) : payload[i].res = r}
InScope(s, r, c)        == {i \in InResource(s, r) : payload[i].scope = c}
NonEmptyResources(s)    == {payload[i].res : i \in RecordsOf(s)}
NonEmptyScopes(s, r)    == {payload[i].scope : i \in InResource(s, r)}

NaiveScopes(s, r) ==
    LET cs == Ascending(NonEmptyScopes(s, r)) IN
    [e \in DOMAIN cs |-> [scope |-> cs[e], recs |-> Ascending(InScope(s, r, cs[e]))]]

NaiveTree(s) ==
    LET rs == Ascending(NonEmptyResources(s)) IN
    [q \in DOMAIN rs |-> [res |-> rs[q], scopes |-> NaiveScopes(s, rs[q])]]

\* Group gives what the tests' naive grouping gives, for every payload and not
\* only the recorded ones: one group per subject, with the same resources,
\* scopes and records in the same order, and an error for each other record.
MatchesNaive ==
    next > Len(payload) =>
        /\ Groups = {[subject |-> s, data |-> NaiveTree(s)] :
                        s \in {payload[i].subject : i \in DOMAIN payload} \ {NoSubject}}
        /\ errs = RecordsOf(NoSubject)

=============================================================================
