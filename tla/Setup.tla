-------------------------------- MODULE Setup --------------------------------
(***************************************************************************)
(* From a configuration to a running component: what the collector makes   *)
(* of the settings of an exporter and of a receiver of one signal.  It     *)
(* validates them when it loads them, creates the component, and starts    *)
(* it; each later step checks something the earlier ones let pass.         *)
(*                                                                         *)
(* The settings of one signal stand for those of all three, which Validate *)
(* looks at in the same way.  No step of a side reads the other's.         *)
(***************************************************************************)
EXTENDS ClientAuth, Codecs

CONSTANT Configurations    \* the pairs of configurations to consider

\* A text is empty, is not what it has to be, or is fine.
Text == {"", "malformed", "good"}

\* There is no jetstream section, one with a negative number, or a proper one.
JetStreamSections == {"absent", "negative", "set"}

\* TLS settings contradict each other, hold a certificate or key that is none, name
\* a file that cannot be read, or are fine.
TLSSettings == {"invalid", "malformed", "unreadable", "good"}

\* The exporter's subject is an OTTL expression.
ExporterConfigs == [name : CodecNames, ext : ExtensionNames, subject : Text,
                    jetstream : JetStreamSections, endpoint : Text,
                    auth : AuthConfigs, tls : TLSSettings]

\* The receiver's subject is one to subscribe to, or the filter of a consumer on a
\* stream; without the name durable the consumer is ephemeral.
ReceiverConfigs == [name : CodecNames, ext : ExtensionNames, subject : Text,
                    stream : Text, durable : Text,
                    jetstream : JetStreamSections, endpoint : Text,
                    auth : AuthConfigs, tls : TLSSettings]

ASSUME ConfigurationsAssumption ==
    Configurations \subseteq [exporter : ExporterConfigs, receiver : ReceiverConfigs]

VARIABLES
    cfg,       \* the configuration of each component
    host,      \* the extensions the collector runs
    stage,     \* how far each component is
    codec,     \* the codec each has chosen
    broken,    \* whether start has met an error and gone on
    options    \* the client options each has set

vars == <<cfg, host, stage, codec, broken, options>>

Sides == {"exporter", "receiver"}

Init ==
    /\ cfg \in Configurations
    /\ host \in SUBSET Extensions
    /\ stage = [s \in Sides |-> "loaded"]
    /\ codec = [s \in Sides |-> NoCodec]
    /\ broken = [s \in Sides |-> FALSE]
    /\ options = [s \in Sides |-> NoOptions]

\* s goes from one stage to the next.
Step(s, from, to) == stage[s] = from /\ stage' = [stage EXCEPT ![s] = to]

-----------------------------------------------------------------------------
(***************************************************************************)
(* Loading and creation.                                                   *)
(***************************************************************************)

\* LogsConfig.Validate and its two copies: an empty subject is not parsed.
SubjectValid(c) == c.subject # "malformed"

\* JetStreamConfig.Validate of both components.
JetStreamValid(c) == c.jetstream # "negative"

\* The receiver's Validate looks at no subject, stream or durable name; neither looks
\* at the endpoint.  The one of TLS is the collector's own.
Valid(s) ==
    /\ IF s = "exporter" THEN ExporterCodecValid(cfg[s]) /\ SubjectValid(cfg[s])
                         ELSE ReceiverCodecValid(cfg[s])
    /\ ValidAuth(cfg[s].auth)
    /\ JetStreamValid(cfg[s])
    /\ cfg[s].tls # "invalid"

Validate(s) ==
    /\ Step(s, "loaded", IF Valid(s) THEN "validated" ELSE "rejected")
    /\ UNCHANGED <<cfg, host, codec, broken, options>>

\* The constructors of the groupers parse the subject, an empty one too.
GrouperBuilt(c) == c.subject = "good"

CreateExporter ==
    LET c == CreateResolver(cfg.exporter) IN
    /\ Step("exporter", "validated",
            IF GrouperBuilt(cfg.exporter) /\ c # NoCodec THEN "created" ELSE "failed")
    /\ codec' = [codec EXCEPT !["exporter"] = c]
    /\ UNCHANGED <<cfg, host, broken, options>>

\* Creating a receiver cannot fail.
CreateReceiver ==
    /\ Step("receiver", "validated", "created")
    /\ UNCHANGED <<cfg, host, codec, broken, options>>

-----------------------------------------------------------------------------
(***************************************************************************)
(* Start.                                                                  *)
(***************************************************************************)

\* Marshaler.Resolve.  The exporter's start goes on if it fails.
ResolveMarshaler ==
    /\ Step("exporter", "created", "resolved")
    /\ broken' = [broken EXCEPT !["exporter"] = ~ Usable(codec["exporter"], host, "marshal")]
    /\ UNCHANGED <<cfg, host, codec, options>>

\* The receiver's Start returns if there is no unmarshaler.
ResolveUnmarshaler ==
    LET c == UnmarshalerCodec(cfg.receiver) IN
    /\ Step("receiver", "created", IF Usable(c, host, "unmarshal") THEN "resolved" ELSE "failed")
    /\ codec' = [codec EXCEPT !["receiver"] = c]
    /\ UNCHANGED <<cfg, host, broken, options>>

\* Connect: with an error of TLS or of any method there is no attempt to dial.
Connect(s) ==
    LET dials == cfg[s].tls = "good" /\ ~ AuthError(cfg[s].auth) IN
    /\ Step(s, "resolved", IF dials THEN "dialing" ELSE "failed")
    /\ options' = IF dials THEN [options EXCEPT ![s] = AuthOptions(cfg[s].auth)] ELSE options
    /\ UNCHANGED <<cfg, host, codec, broken>>

\* options.Connect(): an endpoint that is no URL fails at once (an empty one is the
\* library's default); else there is a connection or there is none, as when no
\* server is there or it refuses the credentials.
Dial(s) ==
    /\ \E outcome \in IF cfg[s].endpoint = "malformed" THEN {"failed"}
                       ELSE {"connected", "unreachable"} :
           Step(s, "dialing", outcome)
    /\ UNCHANGED <<cfg, host, codec, broken, options>>

\* newPublisher wraps the connection, unless jetstream.New fails; start returns what
\* errors there were, of Resolve too.
MakePublisher ==
    /\ \/ Step("exporter", "connected", IF broken["exporter"] THEN "failed" ELSE "running")
       \/ cfg.exporter.jetstream = "set" /\ Step("exporter", "connected", "refused")
    /\ UNCHANGED <<cfg, host, codec, broken, options>>

\* startCore needs a subject; startJetStream needs a stream, takes no subject for no
\* filter and no durable name for an ephemeral consumer.  Library and server refuse
\* a malformed subject or name.
Subscribes(c) ==
    IF c.jetstream = "absent" THEN c.subject = "good"
    ELSE c.stream = "good" /\ c.subject # "malformed" /\ c.durable # "malformed"

\* What is well formed the server of JetStream may still refuse: it has no such
\* stream or domain, JetStream is off, or the user may not.
Subscribe ==
    /\ \/ Step("receiver", "connected", IF Subscribes(cfg.receiver) THEN "running" ELSE "failed")
       \/ /\ cfg.receiver.jetstream = "set" /\ Subscribes(cfg.receiver)
          /\ Step("receiver", "connected", "refused")
    /\ UNCHANGED <<cfg, host, codec, broken, options>>

Next ==
    \/ \E s \in Sides : Validate(s) \/ Connect(s) \/ Dial(s)
    \/ CreateExporter \/ ResolveMarshaler \/ MakePublisher
    \/ CreateReceiver \/ ResolveUnmarshaler \/ Subscribe

Spec == Init /\ [][Next]_vars

-----------------------------------------------------------------------------
\* What the collector's process lacks for s: the extension it names, in its
\* direction, or a file that can be read.
LacksExtension(s) ==
    LET direction == IF s = "exporter" THEN "marshal" ELSE "unmarshal" IN
    cfg[s].ext \in Extensions /\ ~ Usable(cfg[s].ext, host, direction)

HostLacks(s) ==
    \/ LacksExtension(s)
    \/ cfg[s].tls = "unreadable" \/ cfg[s].auth["nkey_user_file"] = "unreadable"

\* The wrong settings that Validate lets pass: an endpoint, a seed, a certificate or
\* key; an exporter without a subject; for a receiver the subject of core NATS, or
\* the stream, the filter or the durable name of JetStream.
LeftToStart(s) ==
    \/ cfg[s].endpoint = "malformed" \/ cfg[s].tls = "malformed"
    \/ \E m \in Methods : cfg[s].auth[m] = "malformed"
    \/ s = "exporter" /\ cfg[s].subject = ""
    \/ s = "receiver" /\ cfg[s].jetstream = "absent" /\ cfg[s].subject # "good"
    \/ s = "receiver" /\ cfg[s].jetstream = "set" /\
          (cfg[s].stream # "good" \/ cfg[s].subject = "malformed" \/ cfg[s].durable = "malformed")

\* Beyond Validate a component fails for what its host lacks or for a wrong setting
\* of LeftToStart, and for nothing else; and none comes to run with either, although
\* start goes on after an error.  What the server does is not counted: it may not be
\* there ("unreachable"), or refuse what is well formed ("refused").
FailsForCause ==
    \A s \in Sides :
        /\ stage[s] = "failed"  => HostLacks(s) \/ LeftToStart(s)
        /\ stage[s] = "running" => ~ HostLacks(s) /\ ~ LeftToStart(s)

\* An exporter and a receiver with the same encoding settings, defaults included,
\* write and read the same encoding, in code that is written twice.
EqualSettingsAgree ==
    /\ cfg.exporter.name = cfg.receiver.name
    /\ cfg.exporter.ext = cfg.receiver.ext
    /\ \A s \in Sides : stage[s] = "running"
    => codec["exporter"] = codec["receiver"]

\* No method that is configured is silently left out: a component that dials
\* presents the credentials of each of them, none overwritten by another one and
\* none skipped because its seed or file could not be read.
NoMethodIgnored ==
    \A s \in Sides : stage[s] \in {"dialing", "connected", "running"} =>
        \A m \in Configured(cfg[s].auth) : \A o \in Fields[m] : options[s][o] = m

\* Both READMEs: "At most one may be configured".
AtMostOneMethod ==
    \A s \in Sides : stage[s] = "validated" => Cardinality(Configured(cfg[s].auth)) <= 1

=============================================================================
