----------------------------- MODULE SetupProofs -----------------------------
(***************************************************************************)
(* Proofs about Setup, for any extensions, whatever they implement, and    *)
(* any set of configurations: what Validate lets pass has a codec, has at  *)
(* most one method for each client option, and then fails for what the     *)
(* host lacks or a setting that Validate leaves to Start, or runs with     *)
(* neither.                                                                *)
(***************************************************************************)
EXTENDS Setup, FiniteSetTheorems, TLAPS

-----------------------------------------------------------------------------
(***************************************************************************)
(* Client options.                                                         *)
(***************************************************************************)

\* The greatest of some places in Order.
LEMMA MaxOfPlaces ==
    ASSUME NEW S \in SUBSET (1..5), S # {}
    PROVE  Max(S) \in S /\ \A i \in S : Max(S) >= i
<1>1. \E x \in S : \A y \in S : x >= y
  <2>1. CASE 5 \in S
    BY <2>1
  <2>2. CASE 5 \notin S /\ 4 \in S
    BY <2>2
  <2>3. CASE 5 \notin S /\ 4 \notin S /\ 3 \in S
    BY <2>3
  <2>4. CASE 5 \notin S /\ 4 \notin S /\ 3 \notin S /\ 2 \in S
    BY <2>4
  <2>5. CASE 5 \notin S /\ 4 \notin S /\ 3 \notin S /\ 2 \notin S
    <3>1. \A x \in S : x \in 1..5 /\ x # 2 /\ x # 3 /\ x # 4 /\ x # 5
      BY <2>5
    <3>2. \A x \in 1..5 : x = 1 \/ x = 2 \/ x = 3 \/ x = 4 \/ x = 5
      OBVIOUS
    <3>3. \A x \in S : x = 1
      BY <3>1, <3>2
    <3>4. 1 \in S
      BY <3>3
    <3> QED
      BY <3>3, <3>4
  <2> QED
    BY <2>1, <2>2, <2>3, <2>4, <2>5
<1> QED
  BY <1>1 DEF Max

\* What the order of the methods comes down to.
LEMMA OrderType ==
    /\ DOMAIN Order = 1..5
    /\ \A i \in 1..5 : Order[i] \in Methods
    /\ \A m \in Methods : \E i \in 1..5 : Order[i] = m
    /\ \A i, j \in 1..5 : Order[i] = Order[j] => i = j
BY DEF Order, Methods

LEMMA AuthOptionsType ==
    ASSUME NEW auth PROVE AuthOptions(auth) \in [OptionNames -> Methods \cup {"none"}]
<1>1. ASSUME NEW o \in OptionNames, Writers(auth, o) # {}
      PROVE  Order[Max(Writers(auth, o))] \in Methods
  <2>1. Writers(auth, o) \in SUBSET (1..5)
    BY OrderType DEF Writers
  <2>2. Max(Writers(auth, o)) \in 1..5
    BY <1>1, <2>1, MaxOfPlaces
  <2> QED
    BY <2>2, OrderType
<1> QED
  BY <1>1 DEF AuthOptions

\* A set of at most one element.
LEMMA AtMostOne ==
    ASSUME NEW S, IsFiniteSet(S), Cardinality(S) <= 1, NEW a \in S, NEW b \in S
    PROVE  a = b
<1> SUFFICES ASSUME a # b PROVE FALSE
  OBVIOUS
<1>1. IsFiniteSet({a}) /\ Cardinality({a}) = 1
  BY FS_Singleton
<1>2. IsFiniteSet({a, b}) /\ Cardinality({a, b}) = 2
  <2>1. {a, b} = {a} \cup {b} /\ b \notin {a}
    OBVIOUS
  <2> QED
    BY <1>1, <2>1, FS_AddElement
<1>3. Cardinality({a, b}) <= Cardinality(S)
  BY FS_Subset
<1>4. Cardinality(S) \in Nat
  BY FS_CardinalityType
<1> QED
  BY <1>2, <1>3, <1>4

\* Two methods that set one client option are both of the NKey kind.
LEMMA SharedFields ==
    ASSUME NEW m \in Methods, NEW n \in Methods, m # n,
           NEW o \in Fields[m], o \in Fields[n]
    PROVE  m \in KeyMethods /\ n \in KeyMethods
BY DEF Methods, Fields, KeyMethods

\* A valid configuration whose seeds and files can be read presents every method
\* it configures: Validate allows two methods only where they share no option.
LEMMA EveryMethodPresented ==
    ASSUME NEW auth \in AuthConfigs, ValidAuth(auth), ~ AuthError(auth),
           NEW m \in Configured(auth), NEW o \in Fields[m]
    PROVE  AuthOptions(auth)[o] = m
<1>1. /\ m \in Methods /\ o \in OptionNames
      /\ \A n \in Methods : auth[n] \in {"absent", "incomplete", "complete", "malformed", "unreadable"}
  BY DEF Configured, OptionNames, AuthConfigs, Settings, Methods
<1>2. \A n \in Methods : auth[n] \in {"absent", "complete"}
  BY <1>1 DEF AuthError, ValidAuth, Complete, Configured
<1>3. PICK i \in 1..5 : Order[i] = m
  BY <1>1, OrderType
<1>4. i \in Writers(auth, o)
  BY <1>1, <1>2, <1>3, OrderType DEF Writers, Configured
<1>5. ASSUME NEW j \in Writers(auth, o) PROVE j = i
  <2>1. j \in 1..5 /\ Order[j] \in Configured(auth) /\ o \in Fields[Order[j]]
    BY OrderType DEF Writers, Configured
  <2>2. CASE Order[j] # m
    <3>1. Order[j] \in Methods
      BY <2>1, OrderType
    <3>2. Order[j] \in KeyMethods /\ m \in KeyMethods
      BY <1>1, <2>1, <2>2, <3>1, SharedFields
    <3>3. IsFiniteSet(Configured(auth) \cap KeyMethods)
      <4>1. IsFiniteSet({"nkey"} \cup {"nkey_jwt"} \cup {"nkey_user_file"})
        BY FS_Singleton, FS_Union
      <4>2. Configured(auth) \cap KeyMethods
                \subseteq {"nkey"} \cup {"nkey_jwt"} \cup {"nkey_user_file"}
        BY DEF KeyMethods
      <4> QED
        BY <4>1, <4>2, FS_Subset
    <3>4. Cardinality(Configured(auth) \cap KeyMethods) <= 1
      BY DEF ValidAuth, OneKeyMethod
    <3> QED
      BY <2>1, <2>2, <3>2, <3>3, <3>4, AtMostOne
  <2>3. CASE Order[j] = m
    BY <1>3, <2>1, <2>3, OrderType
  <2> QED
    BY <2>2, <2>3
<1>6. Writers(auth, o) = {i}
  BY <1>4, <1>5
<1>7. Max(Writers(auth, o)) = i
  BY <1>6, MaxOfPlaces
<1> QED
  BY <1>1, <1>3, <1>6, <1>7 DEF AuthOptions

-----------------------------------------------------------------------------
(***************************************************************************)
(* Codecs.                                                                 *)
(***************************************************************************)

\* Both sides' Validate let the same encoding settings pass, and both resolvers
\* then choose the extension that is named, or the same built-in codec.
LEMMA ResolversAgree ==
    ASSUME NEW c, c.ext \in ExtensionNames, NEW d, d.name = c.name, d.ext = c.ext,
           ExporterCodecValid(c) \/ ReceiverCodecValid(c)
    PROVE  /\ CreateResolver(c) = UnmarshalerCodec(d)
           /\ c.ext # "" => c.ext \in Extensions /\ CreateResolver(c) = c.ext
           /\ c.ext = "" => CreateResolver(c) \in Builtin
           /\ CreateResolver(c) # NoCodec
<1>1. c.ext # "malformed" /\ c.name \in Builtin \cup {""} /\ (c.ext # "" => c.name = "")
  BY DEF ExporterCodecValid, ReceiverCodecValid
<1>2. c.ext # "" => c.ext \in Extensions /\ c.ext # NoCodec
  BY <1>1, CodecAssumption DEF ExtensionNames
<1>3. NoCodec \notin Builtin
  BY DEF NoCodec, Builtin
<1>4. /\ c.ext # "" => CreateResolver(c) = c.ext /\ UnmarshalerCodec(d) = c.ext
      /\ c.ext = "" => CreateResolver(c) \in Builtin /\ CreateResolver(c) = UnmarshalerCodec(d)
  BY <1>1 DEF CreateResolver, UnmarshalerCodec, Builtin
<1> QED
  BY <1>2, <1>3, <1>4

\* A codec that cannot be used is an extension the settings name.
LEMMA BuiltinUsable ==
    ASSUME NEW codecName \in Builtin, NEW extensions, NEW direction
    PROVE  Usable(codecName, extensions, direction)
BY DEF Usable, Runs, Picks

-----------------------------------------------------------------------------
(***************************************************************************)
(* The inductive invariant.                                                *)
(***************************************************************************)

Stages == {"loaded", "validated", "rejected", "created", "resolved", "dialing",
           "connected", "unreachable", "refused", "running", "failed"}

SetupType ==
    /\ cfg \in [exporter : ExporterConfigs, receiver : ReceiverConfigs]
    /\ host \in SUBSET Extensions
    /\ stage \in [Sides -> Stages]
    /\ codec \in [Sides -> Extensions \cup Builtin \cup {NoCodec}]
    /\ broken \in [Sides -> BOOLEAN]
    /\ options \in [Sides -> [OptionNames -> Methods \cup {"none"}]]

Resolved == {"resolved", "dialing", "connected", "unreachable", "refused", "running"}

Chosen(s) == IF s = "exporter" THEN CreateResolver(cfg[s]) ELSE UnmarshalerCodec(cfg[s])

\* What each stage says of the settings of side s, of its codec c, of whether its
\* start has met an error, b, and of its client options o.

\* Only what is valid gets beyond Validate.
OnlyValidGoesOn(s, st) == st \notin {"loaded", "rejected"} => Valid(s)

\* A side has the codec its resolver chooses, the exporter from creation on, when
\* its subject has been parsed too.
CodecChosen(s, st, c) ==
    /\ st \in Resolved => c = Chosen(s)
    /\ s = "exporter" /\ st \in Resolved \cup {"created"} =>
           c = Chosen(s) /\ cfg[s].subject = "good"

\* Only the exporter's start goes on without the extension, and it remembers.
BrokenWithoutCodec(s, st, b) ==
    /\ b => s = "exporter" /\ LacksExtension(s)
    /\ st \in Resolved /\ LacksExtension(s) => b

\* Whoever has come to dial has set the options of every method, without an error,
\* and whoever is connected had an endpoint to dial.
OptionsAreSet(s, st, o) ==
    /\ st \in {"dialing", "connected", "running"} =>
           /\ cfg[s].tls = "good" /\ ~ AuthError(cfg[s].auth)
           /\ o = AuthOptions(cfg[s].auth)
    /\ st \in {"connected", "running"} => cfg[s].endpoint # "malformed"

\* FailsForCause, of one side.
HasCause(s, st) ==
    /\ st = "failed"  => HostLacks(s) \/ LeftToStart(s)
    /\ st = "running" => ~ HostLacks(s) /\ ~ LeftToStart(s)

SideInv(s, st, c, b, o) ==
    /\ OnlyValidGoesOn(s, st)
    /\ CodecChosen(s, st, c)
    /\ BrokenWithoutCodec(s, st, b)
    /\ OptionsAreSet(s, st, o)
    /\ HasCause(s, st)

SetupInv ==
    /\ SetupType
    /\ \A s \in Sides : SideInv(s, stage[s], codec[s], broken[s], options[s])

-----------------------------------------------------------------------------
(***************************************************************************)
(* Steps.                                                                  *)
(***************************************************************************)

LEMMA SettingsNeverChange == [Next]_vars => cfg' = cfg /\ host' = host
BY DEF Next, vars, Validate, Connect, Dial, CreateExporter, ResolveMarshaler,
       MakePublisher, CreateReceiver, ResolveUnmarshaler, Subscribe

\* The settings of a side, by its name.
LEMMA SideTypes ==
    ASSUME SetupType
    PROVE  /\ cfg["exporter"] = cfg.exporter /\ cfg["receiver"] = cfg.receiver
           /\ cfg.exporter \in ExporterConfigs /\ cfg.receiver \in ReceiverConfigs
           /\ Sides = {"exporter", "receiver"}
           /\ \A s \in Sides : /\ cfg[s].ext \in ExtensionNames
                               /\ cfg[s].auth \in AuthConfigs
                               /\ cfg[s].subject \in Text
                               /\ cfg[s].jetstream \in JetStreamSections
                               /\ cfg[s].tls \in TLSSettings
BY DEF SetupType, Sides, ExporterConfigs, ReceiverConfigs

\* What a valid side's resolver chooses, and that it can fail for the host only.
LEMMA ChosenCodec ==
    ASSUME SetupType, NEW s \in Sides, Valid(s)
    PROVE  /\ CreateResolver(cfg[s]) = UnmarshalerCodec(cfg[s])
           /\ CreateResolver(cfg[s]) # NoCodec
           /\ ~ Usable(CreateResolver(cfg[s]), host, IF s = "exporter" THEN "marshal" ELSE "unmarshal")
                  <=> LacksExtension(s)
<1>1. cfg[s].ext \in ExtensionNames
  BY SideTypes
<1>2. ExporterCodecValid(cfg[s]) \/ ReceiverCodecValid(cfg[s])
  BY DEF Valid
<1>3. /\ CreateResolver(cfg[s]) = UnmarshalerCodec(cfg[s])
      /\ cfg[s].ext # "" => cfg[s].ext \in Extensions /\ CreateResolver(cfg[s]) = cfg[s].ext
      /\ cfg[s].ext = "" => CreateResolver(cfg[s]) \in Builtin
      /\ CreateResolver(cfg[s]) # NoCodec
  BY <1>1, <1>2, ResolversAgree
<1>4. "" \notin Extensions
  BY CodecAssumption
<1> QED
  BY <1>3, <1>4, BuiltinUsable DEF LacksExtension

\* The two ways in which Connect fails, by whose they are.
LEMMA ConnectFails ==
    ASSUME SetupType, NEW s \in Sides, Valid(s)
    PROVE  /\ cfg[s].tls # "good" \/ AuthError(cfg[s].auth) => HostLacks(s) \/ LeftToStart(s)
           /\ cfg[s].tls = "good" /\ ~ AuthError(cfg[s].auth) =>
                  /\ HostLacks(s) <=> LacksExtension(s)
                  /\ \A m \in Methods : cfg[s].auth[m] # "malformed"
<1>1. cfg[s].tls \in {"malformed", "unreadable", "good"}
  BY SideTypes DEF Valid, TLSSettings
<1>2. \A m \in Methods : cfg[s].auth[m] = "unreadable" => m = "nkey_user_file"
  BY SideTypes DEF AuthConfigs, Settings
<1>3. "nkey_user_file" \in Methods
  BY DEF Methods
<1> QED
  BY <1>1, <1>2, <1>3 DEF AuthError, HostLacks, LeftToStart

LEMMA SetupInit == Init => SetupInv
<1> SUFFICES ASSUME Init PROVE SetupInv
  OBVIOUS
<1>1. cfg \in [exporter : ExporterConfigs, receiver : ReceiverConfigs]
  BY ConfigurationsAssumption DEF Init
<1>2. NoOptions \in [OptionNames -> Methods \cup {"none"}]
  BY DEF NoOptions
<1>3. SetupType
  BY <1>1, <1>2 DEF Init, SetupType, Stages
<1>4. \A s \in Sides : stage[s] = "loaded" /\ broken[s] = FALSE
  BY DEF Init
<1>5. \A s \in Sides : SideInv(s, stage[s], codec[s], broken[s], options[s])
  BY <1>4 DEF SideInv, OnlyValidGoesOn, CodecChosen, BrokenWithoutCodec, OptionsAreSet,
              HasCause, Resolved
<1> QED
  BY <1>3, <1>5 DEF SetupInv

\* A step of one side keeps the invariant if it keeps that side's part: it changes
\* no settings, and nothing of the other side.
LEMMA OneSideSteps ==
    ASSUME SetupInv, SetupType', cfg' = cfg, host' = host, NEW s \in Sides,
           \A t \in Sides \ {s} : /\ stage'[t] = stage[t] /\ codec'[t] = codec[t]
                                  /\ broken'[t] = broken[t] /\ options'[t] = options[t],
           SideInv(s, stage'[s], codec'[s], broken'[s], options'[s])
    PROVE  SetupInv'
<1>1. \A t \in Sides : SideInv(t, stage'[t], codec'[t], broken'[t], options'[t])
  BY DEF SetupInv
<1>2. ASSUME NEW t \in Sides
      PROVE  /\ Valid(t)' <=> Valid(t)
             /\ LacksExtension(t)' <=> LacksExtension(t)
             /\ HostLacks(t)' <=> HostLacks(t)
             /\ LeftToStart(t)' <=> LeftToStart(t)
             /\ Chosen(t)' = Chosen(t)
  BY DEF Valid, LacksExtension, HostLacks, LeftToStart, Chosen
<1>3. ASSUME NEW t \in Sides
      PROVE  SideInv(t, stage[t], codec[t], broken[t], options[t])'
  <2>1. SideInv(t, stage'[t], codec'[t], broken'[t], options'[t])
    BY <1>1
  <2> QED
    BY <1>2, <2>1 DEF SideInv, OnlyValidGoesOn, CodecChosen, BrokenWithoutCodec,
                      OptionsAreSet, HasCause
<1> QED
  BY <1>3 DEF SetupInv

LEMMA SetupTypeStep == SetupType /\ [Next]_vars => SetupType'
<1> SUFFICES ASSUME SetupType, [Next]_vars PROVE SetupType'
  OBVIOUS
<1>1. cfg' = cfg /\ host' = host
  BY SettingsNeverChange
<1> DEFINE Types == /\ stage' \in [Sides -> Stages]
                    /\ codec' \in [Sides -> Extensions \cup Builtin \cup {NoCodec}]
                    /\ broken' \in [Sides -> BOOLEAN]
                    /\ options' \in [Sides -> [OptionNames -> Methods \cup {"none"}]]
<1>2. ASSUME NEW s \in Sides, NEW from, NEW to \in Stages, Step(s, from, to)
      PROVE  stage' \in [Sides -> Stages]
  BY <1>2 DEF Step, SetupType
<1>3. ASSUME NEW s \in Sides, Validate(s) PROVE Types
  BY <1>2, <1>3 DEF Validate, SetupType, Stages
<1>4. ASSUME NEW s \in Sides, Connect(s) PROVE Types
  <2>1. AuthOptions(cfg[s].auth) \in [OptionNames -> Methods \cup {"none"}]
    BY AuthOptionsType
  <2>2. options' = [options EXCEPT ![s] = AuthOptions(cfg[s].auth)] \/ options' = options
    BY <1>4 DEF Connect
  <2>3. options' \in [Sides -> [OptionNames -> Methods \cup {"none"}]]
    BY <2>1, <2>2 DEF SetupType
  <2>4. stage' \in [Sides -> Stages]
    BY <1>2, <1>4 DEF Connect, Stages
  <2> QED
    BY <1>4, <2>3, <2>4 DEF Connect, SetupType
<1>5. ASSUME NEW s \in Sides, Dial(s) PROVE Types
  BY <1>2, <1>5 DEF Dial, SetupType, Stages
<1>6. ASSUME CreateExporter PROVE Types
  <2>1. CreateResolver(cfg.exporter) \in Extensions \cup Builtin \cup {NoCodec}
    BY SideTypes DEF CreateResolver, ExtensionNames, Builtin, NoCodec
  <2>2. "exporter" \in Sides
    BY DEF Sides
  <2> QED
    BY <1>2, <1>6, <2>1, <2>2 DEF CreateExporter, SetupType, Stages
<1>7. ASSUME CreateReceiver PROVE Types
  BY <1>2, <1>7 DEF CreateReceiver, SetupType, Stages, Sides
<1>8. ASSUME ResolveMarshaler PROVE Types
  <2>1. "exporter" \in Sides
    BY DEF Sides
  <2>2. broken' \in [Sides -> BOOLEAN]
    <3> DEFINE fails == ~ Usable(codec["exporter"], host, "marshal")
    <3>1. broken' = [broken EXCEPT !["exporter"] = fails] /\ fails \in BOOLEAN
      BY <1>8 DEF ResolveMarshaler
    <3> HIDE DEF fails
    <3> QED
      BY <2>1, <3>1 DEF SetupType
  <2>3. stage' \in [Sides -> Stages]
    BY <1>2, <1>8, <2>1 DEF ResolveMarshaler, Stages
  <2> QED
    BY <1>8, <2>2, <2>3 DEF ResolveMarshaler, SetupType
<1>9. ASSUME ResolveUnmarshaler PROVE Types
  <2>1. UnmarshalerCodec(cfg.receiver) \in Extensions \cup Builtin \cup {NoCodec}
    BY SideTypes DEF UnmarshalerCodec, ExtensionNames, Builtin, NoCodec, Sides
  <2>2. "receiver" \in Sides
    BY DEF Sides
  <2> QED
    BY <1>2, <1>9, <2>1, <2>2 DEF ResolveUnmarshaler, SetupType, Stages
<1>10. ASSUME MakePublisher PROVE Types
  BY <1>2, <1>10 DEF MakePublisher, SetupType, Stages, Sides
<1>11. ASSUME Subscribe PROVE Types
  BY <1>2, <1>11 DEF Subscribe, SetupType, Stages, Sides
<1>12. ASSUME UNCHANGED vars PROVE Types
  BY <1>12 DEF vars, SetupType
<1>13. Types
  BY <1>3, <1>4, <1>5, <1>6, <1>7, <1>8, <1>9, <1>10, <1>11, <1>12 DEF Next
<1> QED
  BY <1>1, <1>13 DEF SetupType

LEMMA SetupStep == SetupInv /\ [Next]_vars => SetupInv'
<1> SUFFICES ASSUME SetupInv, [Next]_vars PROVE SetupInv'
  OBVIOUS
<1>1. cfg' = cfg /\ host' = host
  BY SettingsNeverChange
<1>2. SetupType /\ SetupType'
  BY SetupTypeStep DEF SetupInv
<1>3. /\ stage \in [Sides -> Stages] /\ DOMAIN codec = Sides
      /\ broken \in [Sides -> BOOLEAN] /\ DOMAIN options = Sides
  BY <1>2 DEF SetupType
<1>4. /\ "exporter" \in Sides /\ "receiver" \in Sides
      /\ cfg["exporter"] = cfg.exporter /\ cfg["receiver"] = cfg.receiver
  BY <1>2, SideTypes
<1>5. \A s \in Sides : SideInv(s, stage[s], codec[s], broken[s], options[s])
  BY DEF SetupInv
<1>6. \A s \in Sides : \A from, to : Step(s, from, to) =>
         stage[s] = from /\ stage'[s] = to /\ \A t \in Sides \ {s} : stage'[t] = stage[t]
  BY <1>3 DEF Step
<1> USE DEF SideInv, OnlyValidGoesOn, CodecChosen, BrokenWithoutCodec, OptionsAreSet, HasCause,
            Resolved
<1>7. ASSUME NEW s \in Sides, Validate(s) PROVE SetupInv'
  <2>1. /\ stage[s] = "loaded" /\ stage'[s] \in {"validated", "rejected"}
        /\ stage'[s] = "validated" => Valid(s)
        /\ \A t \in Sides \ {s} : stage'[t] = stage[t]
        /\ UNCHANGED <<codec, broken, options>>
    BY <1>6, <1>7 DEF Validate
  <2>2. SideInv(s, stage'[s], codec'[s], broken'[s], options'[s])
    BY <1>5, <2>1
  <2> QED
    BY <1>1, <1>2, <2>1, <2>2, OneSideSteps
<1>8. ASSUME NEW s \in Sides, Connect(s) PROVE SetupInv'
  <2> DEFINE dials == cfg[s].tls = "good" /\ ~ AuthError(cfg[s].auth)
  <2>1. /\ stage[s] = "resolved"
        /\ dials => stage'[s] = "dialing" /\ options' = [options EXCEPT ![s] = AuthOptions(cfg[s].auth)]
        /\ ~ dials => stage'[s] = "failed" /\ options' = options
        /\ \A t \in Sides \ {s} : stage'[t] = stage[t]
        /\ UNCHANGED <<codec, broken>>
    BY <1>6, <1>8 DEF Connect
  <2>2. /\ \A t \in Sides \ {s} : options'[t] = options[t]
        /\ dials => options'[s] = AuthOptions(cfg[s].auth)
    BY <1>3, <2>1
  <2>3. ~ dials => HostLacks(s) \/ LeftToStart(s)
    BY <1>2, <1>5, <2>1, ConnectFails
  <2>4. SideInv(s, stage'[s], codec'[s], broken'[s], options'[s])
    <3>1. CASE dials
      BY <1>5, <2>1, <2>2, <3>1
    <3>2. CASE ~ dials
      BY <1>5, <2>1, <2>3, <3>2
    <3> QED
      BY <3>1, <3>2
  <2> HIDE DEF dials
  <2> QED
    BY <1>1, <1>2, <2>1, <2>2, <2>4, OneSideSteps
<1>9. ASSUME NEW s \in Sides, Dial(s) PROVE SetupInv'
  <2>1. /\ stage[s] = "dialing" /\ stage'[s] \in {"connected", "unreachable", "failed"}
        /\ stage'[s] = "failed" <=> cfg[s].endpoint = "malformed"
        /\ \A t \in Sides \ {s} : stage'[t] = stage[t]
        /\ UNCHANGED <<codec, broken, options>>
    BY <1>6, <1>9 DEF Dial
  <2>2. cfg[s].endpoint = "malformed" => LeftToStart(s)
    BY DEF LeftToStart
  <2>3. SideInv(s, stage'[s], codec'[s], broken'[s], options'[s])
    BY <1>5, <2>1, <2>2
  <2> QED
    BY <1>1, <1>2, <2>1, <2>3, OneSideSteps
<1>10. ASSUME CreateExporter PROVE SetupInv'
  <2> DEFINE s == "exporter"
             c == CreateResolver(cfg.exporter)
  <2>1. /\ stage[s] = "validated"
        /\ stage'[s] = IF GrouperBuilt(cfg.exporter) /\ c # NoCodec THEN "created" ELSE "failed"
        /\ \A t \in Sides \ {s} : stage'[t] = stage[t]
        /\ codec' = [codec EXCEPT ![s] = c]
        /\ UNCHANGED <<broken, options>>
    BY <1>4, <1>6, <1>10 DEF CreateExporter
  <2>2. Valid(s) /\ s \in Sides
    BY <1>4, <1>5, <2>1
  <2>3. c # NoCodec /\ Chosen(s) = c
    BY <1>2, <1>4, <2>2, ChosenCodec DEF Chosen
  <2>4. ~ GrouperBuilt(cfg.exporter) => LeftToStart(s)
    BY <1>2, <1>4, <2>2, SideTypes DEF Valid, SubjectValid, GrouperBuilt, LeftToStart, Text
  <2>5. GrouperBuilt(cfg.exporter) => cfg[s].subject = "good"
    BY <1>4 DEF GrouperBuilt
  <2>6. codec'[s] = c /\ \A t \in Sides \ {s} : codec'[t] = codec[t]
    BY <1>3, <1>4, <2>1
  <2> HIDE DEF c
  <2>7. SideInv(s, stage'[s], codec'[s], broken'[s], options'[s])
    BY <1>5, <2>1, <2>2, <2>3, <2>4, <2>5, <2>6
  <2> QED
    BY <1>1, <1>2, <2>1, <2>2, <2>6, <2>7, OneSideSteps
<1>11. ASSUME CreateReceiver PROVE SetupInv'
  <2> DEFINE s == "receiver"
  <2>1. /\ stage[s] = "validated" /\ stage'[s] = "created"
        /\ \A t \in Sides \ {s} : stage'[t] = stage[t]
        /\ UNCHANGED <<codec, broken, options>>
    BY <1>4, <1>6, <1>11 DEF CreateReceiver
  <2>2. SideInv(s, stage'[s], codec'[s], broken'[s], options'[s]) /\ s \in Sides
    BY <1>4, <1>5, <2>1
  <2> QED
    BY <1>1, <1>2, <2>1, <2>2, OneSideSteps
<1>12. ASSUME ResolveMarshaler PROVE SetupInv'
  <2> DEFINE s == "exporter"
             fails == ~ Usable(codec["exporter"], host, "marshal")
  <2>1. /\ stage[s] = "created" /\ stage'[s] = "resolved"
        /\ \A t \in Sides \ {s} : stage'[t] = stage[t]
        /\ broken' = [broken EXCEPT ![s] = fails]
        /\ UNCHANGED <<codec, options>>
    BY <1>4, <1>6, <1>12 DEF ResolveMarshaler
  <2>2. Valid(s) /\ s \in Sides /\ codec[s] = Chosen(s)
    BY <1>4, <1>5, <2>1
  <2>3. fails <=> LacksExtension(s)
    BY <1>2, <2>2, ChosenCodec DEF Chosen
  <2>4. (broken'[s] <=> fails) /\ \A t \in Sides \ {s} : broken'[t] = broken[t]
    BY <1>3, <1>4, <2>1
  <2> HIDE DEF fails
  <2>5. SideInv(s, stage'[s], codec'[s], broken'[s], options'[s])
    BY <1>5, <2>1, <2>2, <2>3, <2>4
  <2> QED
    BY <1>1, <1>2, <2>1, <2>2, <2>4, <2>5, OneSideSteps
<1>13. ASSUME ResolveUnmarshaler PROVE SetupInv'
  <2> DEFINE s == "receiver"
             c == UnmarshalerCodec(cfg.receiver)
  <2>1. /\ stage[s] = "created"
        /\ stage'[s] = IF Usable(c, host, "unmarshal") THEN "resolved" ELSE "failed"
        /\ \A t \in Sides \ {s} : stage'[t] = stage[t]
        /\ codec' = [codec EXCEPT ![s] = c]
        /\ UNCHANGED <<broken, options>>
    BY <1>4, <1>6, <1>13 DEF ResolveUnmarshaler
  <2>2. Valid(s) /\ s \in Sides
    BY <1>4, <1>5, <2>1
  <2>3. c = Chosen(s) /\ c = CreateResolver(cfg[s])
    BY <1>2, <1>4, <2>2, ChosenCodec DEF Chosen
  <2>4. ~ Usable(c, host, "unmarshal") <=> LacksExtension(s)
    BY <1>2, <2>2, <2>3, ChosenCodec
  <2>5. codec'[s] = c /\ \A t \in Sides \ {s} : codec'[t] = codec[t]
    BY <1>3, <1>4, <2>1
  <2>6. LacksExtension(s) => HostLacks(s)
    BY DEF HostLacks
  <2> HIDE DEF c
  <2>7. SideInv(s, stage'[s], codec'[s], broken'[s], options'[s])
    BY <1>5, <2>1, <2>2, <2>3, <2>4, <2>5, <2>6
  <2> QED
    BY <1>1, <1>2, <2>1, <2>2, <2>5, <2>7, OneSideSteps
<1>14. ASSUME MakePublisher PROVE SetupInv'
  <2> DEFINE s == "exporter"
  <2>1. /\ stage[s] = "connected"
        /\ stage'[s] = (IF broken[s] THEN "failed" ELSE "running") \/ stage'[s] = "refused"
        /\ \A t \in Sides \ {s} : stage'[t] = stage[t]
        /\ UNCHANGED <<codec, broken, options>>
    BY <1>4, <1>6, <1>14 DEF MakePublisher
  <2>2. /\ s \in Sides /\ Valid(s) /\ (broken[s] <=> LacksExtension(s))
        /\ cfg[s].tls = "good" /\ ~ AuthError(cfg[s].auth)
        /\ cfg[s].endpoint # "malformed" /\ cfg[s].subject = "good"
    BY <1>4, <1>5, <2>1
  <2>3. /\ HostLacks(s) <=> broken[s]
        /\ \A m \in Methods : cfg[s].auth[m] # "malformed"
    BY <1>2, <2>2, ConnectFails
  <2>4. ~ LeftToStart(s)
    BY <2>2, <2>3 DEF LeftToStart
  <2>5. SideInv(s, stage'[s], codec'[s], broken'[s], options'[s])
    BY <1>5, <2>1, <2>2, <2>3, <2>4
  <2> QED
    BY <1>1, <1>2, <2>1, <2>2, <2>5, OneSideSteps
<1>15. ASSUME Subscribe PROVE SetupInv'
  <2> DEFINE s == "receiver"
  <2>1. /\ stage[s] = "connected"
        /\ \/ stage'[s] = IF Subscribes(cfg.receiver) THEN "running" ELSE "failed"
           \/ stage'[s] = "refused"
        /\ \A t \in Sides \ {s} : stage'[t] = stage[t]
        /\ UNCHANGED <<codec, broken, options>>
    BY <1>4, <1>6, <1>15 DEF Subscribe
  <2>2. /\ s \in Sides /\ Valid(s) /\ ~ LacksExtension(s)
        /\ cfg[s].tls = "good" /\ ~ AuthError(cfg[s].auth) /\ cfg[s].endpoint # "malformed"
    BY <1>4, <1>5, <2>1
  <2>3. cfg[s].jetstream \in {"absent", "set"}
    BY <1>2, <2>2, SideTypes DEF Valid, JetStreamValid, JetStreamSections
  <2>4. ~ HostLacks(s) /\ (LeftToStart(s) <=> ~ Subscribes(cfg.receiver))
    BY <1>2, <1>4, <2>2, <2>3, ConnectFails DEF Subscribes, LeftToStart
  <2>5. SideInv(s, stage'[s], codec'[s], broken'[s], options'[s])
    BY <1>5, <2>1, <2>2, <2>4
  <2> QED
    BY <1>1, <1>2, <2>1, <2>2, <2>5, OneSideSteps
<1>16. ASSUME UNCHANGED vars PROVE SetupInv'
  <2>1. UNCHANGED <<stage, codec, broken, options>>
    BY <1>16 DEF vars
  <2>2. SideInv("exporter", stage'["exporter"], codec'["exporter"],
                broken'["exporter"], options'["exporter"])
    BY <1>4, <1>5, <2>1
  <2> QED
    BY <1>1, <1>2, <1>4, <2>1, <2>2, OneSideSteps
<1> QED
  BY <1>7, <1>8, <1>9, <1>10, <1>11, <1>12, <1>13, <1>14, <1>15, <1>16 DEF Next

LEMMA SetupInvariant == Spec => []SetupInv
BY SetupInit, SetupStep, PTL DEF Spec

-----------------------------------------------------------------------------
(***************************************************************************)
(* The properties.                                                         *)
(***************************************************************************)

\* With any extensions and configurations, a component that is validated and fails
\* has a cause: the host lacks something, or the configuration has one of the wrong
\* settings that Validate leaves to Start; and none runs with such a cause.
THEOREM FailuresHaveCause == Spec => []FailsForCause
<1>1. SetupInv => FailsForCause
  BY DEF SetupInv, SideInv, HasCause, FailsForCause
<1> QED
  BY <1>1, SetupInvariant, PTL

\* An exporter and a receiver with the same encoding settings that both run write
\* and read the same encoding, whatever the settings are.
THEOREM SettingsAgree == Spec => []EqualSettingsAgree
<1>1. SetupInv => EqualSettingsAgree
  <2> SUFFICES ASSUME SetupInv, cfg.exporter.name = cfg.receiver.name,
                      cfg.exporter.ext = cfg.receiver.ext,
                      \A s \in Sides : stage[s] = "running"
               PROVE  codec["exporter"] = codec["receiver"]
    BY DEF EqualSettingsAgree
  <2>1. /\ codec["exporter"] = CreateResolver(cfg.exporter)
        /\ codec["receiver"] = UnmarshalerCodec(cfg.receiver)
    BY SideTypes DEF SetupInv, SideInv, CodecChosen, Chosen, Resolved
  <2>2. ExporterCodecValid(cfg.exporter) /\ cfg.exporter.ext \in ExtensionNames
    BY SideTypes DEF SetupInv, SideInv, OnlyValidGoesOn, Valid
  <2> QED
    BY <2>1, <2>2, ResolversAgree
<1> QED
  BY <1>1, SetupInvariant, PTL

\* No method of authentication is silently left out: a component that dials has
\* set every option of every method it is configured with.
THEOREM MethodsPresented == Spec => []NoMethodIgnored
<1>1. SetupInv => NoMethodIgnored
  <2> SUFFICES ASSUME SetupInv, NEW s \in Sides, stage[s] \in {"dialing", "connected", "running"},
                      NEW m \in Configured(cfg[s].auth), NEW o \in Fields[m]
               PROVE  options[s][o] = m
    BY DEF NoMethodIgnored
  <2>1. options[s] = AuthOptions(cfg[s].auth) /\ ~ AuthError(cfg[s].auth)
    BY DEF SetupInv, SideInv, OptionsAreSet
  <2>2. ValidAuth(cfg[s].auth) /\ cfg[s].auth \in AuthConfigs
    BY SideTypes DEF SetupInv, SideInv, OnlyValidGoesOn, Valid
  <2> QED
    BY <2>1, <2>2, EveryMethodPresented
<1> QED
  BY <1>1, SetupInvariant, PTL

=============================================================================
