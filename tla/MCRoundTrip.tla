----------------------------- MODULE MCRoundTrip -----------------------------
(* Model-checking constants for RoundTrip.                                 *)
EXTENDS RoundTrip, TLC

CONSTANTS l, t,         \* a batch of two of the signals
          d1, d2, d3    \* durable names

MCSignalOf == l :> "logs" @@ t :> "traces"

\* The default settings; a name for each signal; two signals with one name, the
\* third with or without its own; and one signal with a wildcard.
Ephemeral3 == [logs |-> NoName, metrics |-> NoName, traces |-> NoName]
Own        == [logs |-> d1, metrics |-> d2, traces |-> d3]
Shared     == [logs |-> d1, metrics |-> d1, traces |-> d2]

MCDeployments ==
    {[wild |-> {}, durable |-> n] : n \in {Ephemeral3, Own, Shared}}
    \cup {[wild |-> {"metrics"}, durable |-> Own]}

=============================================================================
