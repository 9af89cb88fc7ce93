--------------------------- MODULE MCNatsExporter ---------------------------
(* Model-checking constants for NatsExporter.                              *)
EXTENDS NatsExporter, TLC

CONSTANTS b1, b2, s1, s2, s3

\* Two groups in each batch.  Or with trouble: a group more in the second, and
\* records without a subject.
MCRecordsOf == b1 :> {s1, s2} @@ b2 :> {s2, s3}
MCRecordsWithTrouble == b1 :> {s1, s2} @@ b2 :> {s1, s2, s3, NoSubject}

Nothing == {}
OneUnpublishable == {<<b2, s2>>}
OneUnmarshalable == {<<b2, s3>>}

=============================================================================
