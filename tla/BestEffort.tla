----------------------------- MODULE BestEffort -----------------------------
(***************************************************************************)
(* What receivers promise over core NATS, with queues, connections and     *)
(* lifecycles left out: a message is sent once, to whoever reads then; a   *)
(* reader's pipeline is called with it at most once and never with one     *)
(* that cannot be read; and accepted, rejected, dropped or lost, that is   *)
(* the end of it for this reader and nothing to the others.                *)
(***************************************************************************)
CONSTANTS Readers, Messages, Poison

VARIABLES
    published,   \* the messages sent so far
    fate         \* what became of each message at each reader

vars == <<published, fate>>

Init ==
    /\ published = {}
    /\ fate = [r \in Readers |-> [m \in Messages |-> "none"]]

\* m is sent: each reader has it in its queue, loses it there and then, or is
\* not subscribed.
Send(m) ==
    /\ m \notin published
    /\ published' = published \cup {m}
    /\ \E how \in [Readers -> {"none", "queued", "lost"}] :
         fate' = [r \in Readers |-> [fate[r] EXCEPT ![m] = how[r]]]

Move(r, m, from, to) ==
    /\ fate[r][m] = from
    /\ fate' = [fate EXCEPT ![r][m] = to]
    /\ UNCHANGED published

\* The pipeline of r is called with m, and answers.
Offer(r, m)  == m \notin Poison /\ Move(r, m, "queued", "offered")
Decide(r, m) == \E verdict \in {"accepted", "rejected"} : Move(r, m, "offered", verdict)

\* m cannot be unmarshaled.
Drop(r, m) == m \in Poison /\ Move(r, m, "queued", "dropped")

\* Network, shutdown or a crash take messages r was not done with.
Lose(r) ==
    /\ \E gone \in SUBSET {m \in Messages : fate[r][m] \in {"queued", "offered"}} :
         fate' = [fate EXCEPT ![r] = [m \in Messages |->
                                        IF m \in gone THEN "lost" ELSE fate[r][m]]]
    /\ UNCHANGED published

Next ==
    \/ \E m \in Messages : Send(m)
    \/ \E r \in Readers :
         Lose(r) \/ \E m \in Messages : Offer(r, m) \/ Decide(r, m) \/ Drop(r, m)

Spec == Init /\ [][Next]_vars

=============================================================================
