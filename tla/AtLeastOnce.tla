----------------------------- MODULE AtLeastOnce -----------------------------
(***************************************************************************)
(* What the receiver promises in JetStream mode to whoever reads the       *)
(* pipeline and the stream, with receivers, connections and replies left   *)
(* out: a readable message is acknowledged only after the pipeline         *)
(* accepted it; an unreadable one is terminated and never accepted; one is *)
(* abandoned only after MaxDeliver failures; and whichever of these        *)
(* happens first is final.  A failure is a refusal or an expiry: one copy  *)
(* may bring both.  The pipeline may accept a message several times, also  *)
(* after it was settled (an earlier copy is still under way).              *)
(***************************************************************************)
EXTENDS Naturals

CONSTANTS Messages, Poison, MaxDeliver

VARIABLES
    fate,      \* open, or how the message was settled
    taken,     \* the messages the pipeline accepted at least once
    failures   \* how often each message was refused or timed out

vars == <<fate, taken, failures>>

Init ==
    /\ fate = [m \in Messages |-> "open"]
    /\ taken = {}
    /\ failures = [m \in Messages |-> 0]

Settle(m, how) == fate[m] = "open" /\ fate' = [fate EXCEPT ![m] = how]

\* The pipeline takes m.
Accept(m) ==
    /\ m \notin Poison
    /\ taken' = taken \cup {m}
    /\ UNCHANGED <<fate, failures>>

\* m is refused by the pipeline, or times out.
Fail(m) ==
    /\ failures' = [failures EXCEPT ![m] = @ + 1]
    /\ UNCHANGED <<fate, taken>>

Acknowledge(m) ==
    /\ m \in taken
    /\ Settle(m, "acked")
    /\ UNCHANGED <<taken, failures>>

Terminate(m) ==
    /\ m \in Poison
    /\ Settle(m, "termed")
    /\ UNCHANGED <<taken, failures>>

Abandon(m) ==
    /\ MaxDeliver > 0
    /\ failures[m] >= MaxDeliver
    /\ Settle(m, "exhausted")
    /\ UNCHANGED <<taken, failures>>

Next == \E m \in Messages :
    Accept(m) \/ Fail(m) \/ Acknowledge(m) \/ Terminate(m) \/ Abandon(m)

Spec == Init /\ [][Next]_vars

=============================================================================
