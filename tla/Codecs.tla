-------------------------------- MODULE Codecs --------------------------------
(***************************************************************************)
(* The encoding settings of a signal, c.name (marshaler, encoding) and     *)
(* c.ext (encoding_extension): what either side's Validate lets pass, and  *)
(* which codec createResolver and the marshaler package choose on the      *)
(* exporter's side, the unmarshaler resolvers on the receiver's.  The      *)
(* three signals have the same code; this is one of them.                  *)
(***************************************************************************)
CONSTANTS
    Extensions,    \* identifiers of encoding extensions
    Implements     \* the directions in which each extension handles the signal

Builtin == {"otlp_proto", "otlp_json"}
NoCodec == "none"

\* No extension is named as a built-in codec is, and none is named "none".
ASSUME CodecAssumption ==
    /\ Implements \in [Extensions -> SUBSET {"marshal", "unmarshal"}]
    /\ Extensions \cap (Builtin \cup {NoCodec, "", "malformed"}) = {}

\* A name may be empty or unsupported, an extension empty or no identifier.
CodecNames == Builtin \cup {"", "unsupported"}
ExtensionNames == Extensions \cup {"", "malformed"}

-----------------------------------------------------------------------------
\* SignalConfig.Validate of either component.
ExporterCodecValid(c) ==
    /\ c.name = "" \/ c.ext = ""
    /\ c.name \in Builtin \cup {""}
    /\ c.ext # "malformed"

ReceiverCodecValid(c) ==
    /\ c.name = "" \/ c.ext = ""
    /\ c.name # "" => c.name \in Builtin
    /\ c.ext # "" => c.ext # "malformed"

-----------------------------------------------------------------------------
\* createResolver without a default: an empty name has no marshaler.
ResolverWithoutDefault(c) ==
    IF c.ext # "" THEN (IF c.ext = "malformed" THEN NoCodec ELSE c.ext)
    ELSE IF c.name \in Builtin THEN c.name ELSE NoCodec

\* createResolver: the extension if one is named, else the built-in marshaler.
CreateResolver(c) ==
    IF c.ext # "" THEN (IF c.ext = "malformed" THEN NoCodec ELSE c.ext)
    ELSE IF c.name = "" THEN "otlp_proto"
    ELSE IF c.name \in Builtin THEN c.name ELSE NoCodec

\* An unmarshaler resolver with another default than the exporter's.
UnmarshalerDefaultsToJSON(c) ==
    IF c.ext # "" THEN (IF c.ext = "malformed" THEN NoCodec ELSE c.ext)
    ELSE IF c.name \in {"", "otlp_json"} THEN "otlp_json"
    ELSE IF c.name = "otlp_proto" THEN c.name ELSE NoCodec

\* The codec the unmarshaler resolvers look for.
UnmarshalerCodec(c) ==
    IF c.ext # "" THEN (IF c.ext = "malformed" THEN NoCodec ELSE c.ext)
    ELSE IF c.name \in {"", "otlp_proto"} THEN "otlp_proto"
    ELSE IF c.name = "otlp_json" THEN c.name ELSE NoCodec

\* A built-in codec is always there; an extension has to run in the host, and to
\* implement the signal in the direction asked for.
Runs(codec, host) == codec \in Builtin \cup host
Picks(codec, direction) == codec \in Builtin \/ direction \in Implements[codec]
Usable(codec, host, direction) == Runs(codec, host) /\ Picks(codec, direction)

=============================================================================
