------------------------------- MODULE MCSetup -------------------------------
(* Model-checking constants for Setup.                                     *)
EXTENDS Setup, TLC

CONSTANTS both, oneway    \* an extension for both directions, and one that only writes

MCImplements == both :> {"marshal", "unmarshal"} @@ oneway :> {"marshal"}

DefaultExporter == [name |-> "", ext |-> "", subject |-> "good", jetstream |-> "set",
                    endpoint |-> "good", auth |-> NoAuth, tls |-> "good"]
DefaultReceiver == [name |-> "", ext |-> "", subject |-> "good",
                    stream |-> "good", durable |-> "good", jetstream |-> "set",
                    endpoint |-> "good", auth |-> NoAuth, tls |-> "good"]

\* Both sides at once with the same authentication, TLS and endpoint.
Connection(a, t, e) ==
    [exporter |-> [DefaultExporter EXCEPT !.auth = a, !.tls = t, !.endpoint = e],
     receiver |-> [DefaultReceiver EXCEPT !.auth = a, !.tls = t, !.endpoint = e]]

\* Each side alone, the other with its defaults: every encoding with every subject
\* and way to use JetStream, and every way to subscribe.  Both sides with the same
\* encoding settings.  Both with all settings of authentication and TLS, and of TLS
\* and endpoint.
MCConfigurations ==
    {[exporter |-> [DefaultExporter EXCEPT !.name = n, !.ext = x, !.subject = t, !.jetstream = j],
      receiver |-> DefaultReceiver] :
        n \in CodecNames, x \in ExtensionNames, t \in Text, j \in JetStreamSections}
    \cup {[exporter |-> DefaultExporter,
           receiver |-> [DefaultReceiver EXCEPT !.name = n, !.ext = x, !.subject = t,
                                                !.jetstream = j]] :
        n \in CodecNames, x \in ExtensionNames, t \in Text, j \in JetStreamSections}
    \cup {[exporter |-> DefaultExporter,
           receiver |-> [DefaultReceiver EXCEPT !.subject = t, !.stream = r, !.durable = d,
                                                !.jetstream = j]] :
        t \in Text, r \in Text, d \in Text, j \in JetStreamSections}
    \cup {[exporter |-> [DefaultExporter EXCEPT !.name = n, !.ext = x],
           receiver |-> [DefaultReceiver EXCEPT !.name = n, !.ext = x]] :
        n \in CodecNames, x \in ExtensionNames}
    \cup {Connection(a, t, "good") : a \in AuthConfigs, t \in TLSSettings}
    \cup {Connection(NoAuth, t, e) : t \in TLSSettings, e \in Text}

=============================================================================
