--------------------------- MODULE RoundTripProofs ---------------------------
(***************************************************************************)
(* Proofs about RoundTrip, for any signals, batches, deployments and names:*)
(* a signal that has its durable name to itself keeps to its own messages, *)
(* and loses none of a batch whose export over JetStream succeeded.        *)
(*                                                                         *)
(* Both rest on one fact about names: the consumer of such a signal is no  *)
(* other signal's.  Only its receiver then sets the filter of the consumer *)
(* and takes or terminates messages through it, so that the filter always  *)
(* lets the signal's own subject pass.                                     *)
(***************************************************************************)
EXTENDS RoundTrip, TLAPS

-----------------------------------------------------------------------------
(***************************************************************************)
(* The inductive invariant.                                                *)
(***************************************************************************)

Fates == {"open", "passed", "acked", "termed"}

RoundTripType ==
    /\ jetstream \in BOOLEAN
    /\ exports \in [Batches -> 0..MaxExports]
    /\ result \in [Batches -> {"none", "ok", "error"}]
    /\ stored \in [Batches -> [Subjects -> Nat]]
    /\ deployment \in Deployments
    /\ running \in [Signals -> BOOLEAN]
    /\ filter \in [Consumers -> SUBSET Subjects]
    /\ fate \in [Consumers -> [Messages -> Fates]]
    /\ taken \subseteq [by : Signals, from : Consumers, msg : Messages]

\* The exporters: no result before an export, no copy without one, and over
\* JetStream no success without a copy of each group.
ExportsKept ==
    \A b \in Batches :
        /\ exports[b] = 0 => result[b] = "none"
        /\ \A g \in Subjects : stored[b][g] <= exports[b]
        /\ jetstream /\ result[b] = "ok" => Exporter!Delivered(b)

\* A consumer whose name one signal has to itself reads what that signal's
\* settings say, or nothing yet.
FilterIsOwn ==
    \A s \in Signals : OwnName(s) => filter[ConsumerOf(s)] \in {{}, FilterSubject(s)}

\* What was taken came from the taker's consumer, through its filter.
TakenThroughFilter ==
    \A t \in taken :
        /\ t.from = ConsumerOf(t.by)
        /\ OwnName(t.by) => t.msg.subject \in FilterSubject(t.by)

\* Such a consumer terminates only what passes its filter and is of another
\* signal, and goes past nothing of its own; an acknowledgement, of any consumer,
\* answers what was taken from it.
FateIsJustified ==
    /\ \A s \in Signals, m \in Messages : OwnName(s) =>
         /\ fate[ConsumerOf(s)][m] = "termed" =>
                m.subject \in FilterSubject(s) /\ SignalOfMsg(m) # s
         /\ fate[ConsumerOf(s)][m] = "passed" => SignalOfMsg(m) # s
    /\ \A c \in Consumers, m \in Messages :
         fate[c][m] = "acked" => \E t \in taken : t.from = c /\ t.msg = m

RoundTripInv ==
    RoundTripType /\ ExportsKept /\ FilterIsOwn /\ TakenThroughFilter /\ FateIsJustified

-----------------------------------------------------------------------------
(***************************************************************************)
(* Subjects and names.                                                     *)
(***************************************************************************)

\* A message has the default subject of its signal, which no other signal has.
LEMMA SubjectOfMessage ==
    ASSUME NEW m \in Messages
    PROVE  /\ m.batch \in Batches /\ SignalOfMsg(m) \in Signals
           /\ m.subject \in Subjects
           /\ \A s \in Signals : m.subject = ReceiverDefault[s] <=> SignalOfMsg(m) = s
<1>1. m.batch \in Batches /\ m.subject \in Subjects /\ m.subject \in RecordsOf[m.batch]
  BY DEF Messages
<1>2. SignalOfMsg(m) \in Signals /\ Signals \subseteq {"logs", "metrics", "traces"}
  BY <1>1, RoundTripAssumption DEF SignalOfMsg, ExporterDefault
<1>3. m.subject = ExporterDefault[SignalOfMsg(m)]
  BY <1>1 DEF RecordsOf, SignalOfMsg
<1>4. \A s, t \in {"logs", "metrics", "traces"} :
         ExporterDefault[s] = ReceiverDefault[t] <=> s = t
  BY DEF ExporterDefault, ReceiverDefault
<1> HIDE DEF SignalOfMsg
<1> QED
  BY <1>1, <1>2, <1>3, <1>4

\* The settings passed to a receiver, and the consumer it gets.
LEMMA SettingsType ==
    ASSUME RoundTripType, NEW s \in Signals
    PROVE  /\ deployment.durable[s] \in Names \cup {NoName}
           /\ ConsumerOf(s) \in Consumers
           /\ FilterSubject(s) \in SUBSET Subjects
           /\ ReceiverDefault[s] \in FilterSubject(s)
           /\ s \notin deployment.wild => FilterSubject(s) = {ReceiverDefault[s]}
<1>1. /\ deployment.durable \in [Signals -> Names \cup {NoName}]
      /\ Signals \subseteq {"logs", "metrics", "traces"}
  BY RoundTripAssumption DEF RoundTripType, ExporterDefault
<1>2. ReceiverDefault[s] \in Subjects
  BY <1>1 DEF ReceiverDefault, Subjects
<1> QED
  BY <1>1, <1>2 DEF ConsumerOf, Ephemeral, SignalConfig, FilterSubject, Consumers

\* A signal that has its name to itself has its consumer to itself.
LEMMA OwnConsumer ==
    ASSUME RoundTripType, NEW s \in Signals, OwnName(s), NEW t \in Signals,
           ConsumerOf(t) = ConsumerOf(s)
    PROVE  t = s
<1>1. /\ deployment.durable[s] \in Names \cup {NoName}
      /\ deployment.durable[t] \in Names \cup {NoName}
  BY SettingsType
<1>2. /\ deployment.durable[s] \in Names => deployment.durable[s] \notin Signals \cup {NoName}
      /\ deployment.durable[t] \in Names => deployment.durable[t] \notin Signals \cup {NoName}
  BY RoundTripAssumption
<1>3. t # s /\ deployment.durable[t] = deployment.durable[s] => deployment.durable[s] = NoName
  BY DEF OwnName
<1> QED
  BY <1>1, <1>2, <1>3 DEF ConsumerOf, Ephemeral, SignalConfig

\* The settings never change, so neither do names, consumers and filters' settings.
LEMMA SettingsStay ==
    ASSUME deployment' = deployment
    PROVE  /\ \A s \in Signals : /\ ConsumerOf(s)' = ConsumerOf(s)
                                 /\ FilterSubject(s)' = FilterSubject(s)
                                 /\ OwnName(s)' <=> OwnName(s)
           /\ \A s \in Signals : Ephemeral(s)' <=> Ephemeral(s)
BY DEF ConsumerOf, Ephemeral, SignalConfig, FilterSubject, OwnName

LEMMA DeploymentStays == [Next]_vars => deployment' = deployment
BY DEF Next, vars, Export, Start, Stop, Accept, Terminate, Acknowledge

-----------------------------------------------------------------------------
(***************************************************************************)
(* Type correctness.                                                       *)
(***************************************************************************)

LEMMA RoundTripTypeInit == Init => RoundTripType
<1> SUFFICES ASSUME Init PROVE RoundTripType
  OBVIOUS
<1>1. /\ jetstream \in BOOLEAN
      /\ exports \in [Batches -> 0..MaxExports]
      /\ result \in [Batches -> {"none", "ok", "error"}]
      /\ stored \in [Batches -> [Subjects -> Nat]]
  <2>1. 0 \in 0..MaxExports
    BY RoundTripAssumption
  <2> QED
    BY <2>1 DEF Init, Exporter!Init
<1>2. fate \in [Consumers -> [Messages -> Fates]]
  <2>1. [m \in Messages |-> "open"] \in [Messages -> Fates]
    BY DEF Fates
  <2> QED
    BY <2>1 DEF Init
<1> QED
  BY <1>1, <1>2 DEF Init, RoundTripType

LEMMA RoundTripTypeStep == RoundTripType /\ [Next]_vars => RoundTripType'
<1> SUFFICES ASSUME RoundTripType, [Next]_vars PROVE RoundTripType'
  OBVIOUS
<1>1. CASE Export
  <2>1. UNCHANGED <<deployment, running, filter, fate, taken>>
    BY <1>1 DEF Export, receiveVars
  <2>2. /\ jetstream' \in BOOLEAN
        /\ exports' \in [Batches -> 0..MaxExports]
        /\ result' \in [Batches -> {"none", "ok", "error"}]
        /\ stored' \in [Batches -> [Subjects -> Nat]]
    <3>1. CASE Exporter!Choose
      BY <3>1 DEF Exporter!Choose, RoundTripType
    <3>2. ASSUME NEW b \in Batches, Exporter!Begin(b) PROVE <2>2
      <4>1. exports[b] + 1 \in 0..MaxExports
        BY <3>2, RoundTripAssumption DEF Exporter!Begin, RoundTripType
      <4> QED
        BY <3>2, <4>1 DEF Exporter!Begin, RoundTripType
    <3>3. ASSUME NEW b \in Batches, Exporter!Report(b) PROVE <2>2
      BY <3>3 DEF Exporter!Report, RoundTripType
    <3>4. ASSUME NEW b \in Batches, NEW g \in Subjects, Exporter!Store(b, g) PROVE <2>2
      BY <3>4 DEF Exporter!Store, RoundTripType
    <3> QED
      BY <1>1, <3>1, <3>2, <3>3, <3>4 DEF Export, Exporter!Next
  <2> QED
    BY <2>1, <2>2 DEF RoundTripType
<1>2. ASSUME NEW s \in Signals, Start(s) PROVE RoundTripType'
  <2>1. /\ UNCHANGED <<jetstream, exports, result, stored, deployment, taken>>
        /\ running' = [running EXCEPT ![s] = TRUE]
        /\ filter' = [filter EXCEPT ![ConsumerOf(s)] = FilterSubject(s)]
    BY <1>2 DEF Start, exportVars
  <2>2. FilterSubject(s) \in SUBSET Subjects
    BY SettingsType
  <2>3. \E new \in [Messages -> Fates] : fate' = [fate EXCEPT ![ConsumerOf(s)] = new]
    <3>1. CASE Ephemeral(s)
      <4>1. [m \in Messages |-> "open"] \in [Messages -> Fates]
        BY DEF Fates
      <4> QED
        BY <1>2, <3>1, <4>1 DEF Start
    <3>2. CASE ~ Ephemeral(s)
      <4>1. PICK passed \in SUBSET InStream :
               fate' = [fate EXCEPT ![ConsumerOf(s)] =
                          [m \in Messages |-> IF m \in passed THEN "passed" ELSE @[m]]]
        BY <1>2, <3>2 DEF Start
      <4>2. fate[ConsumerOf(s)] \in [Messages -> Fates]
        BY SettingsType DEF RoundTripType
      <4>3. [m \in Messages |-> IF m \in passed THEN "passed" ELSE fate[ConsumerOf(s)][m]]
                \in [Messages -> Fates]
        BY <4>2 DEF Fates
      <4> QED
        BY <4>1, <4>3
    <3> QED
      BY <3>1, <3>2
  <2> QED
    BY <2>1, <2>2, <2>3 DEF RoundTripType
<1>3. ASSUME NEW s \in Signals, Stop(s) PROVE RoundTripType'
  BY <1>3 DEF Stop, RoundTripType, exportVars
<1>4. ASSUME NEW s \in Signals, NEW m \in Messages, Accept(s, m) PROVE RoundTripType'
  <2>1. [by |-> s, from |-> ConsumerOf(s), msg |-> m]
            \in [by : Signals, from : Consumers, msg : Messages]
    BY SettingsType
  <2> QED
    BY <1>4, <2>1 DEF Accept, RoundTripType, exportVars
<1>5. ASSUME NEW s \in Signals, NEW m \in Messages, Terminate(s, m) PROVE RoundTripType'
  BY <1>5, SettingsType DEF Terminate, Settle, RoundTripType, exportVars, Fates
<1>6. ASSUME NEW c \in Consumers, NEW m \in Messages, Acknowledge(c, m) PROVE RoundTripType'
  BY <1>6 DEF Acknowledge, Settle, RoundTripType, exportVars, Fates
<1>7. CASE UNCHANGED vars
  BY <1>7 DEF vars, exportVars, receiveVars, RoundTripType
<1> QED
  BY <1>1, <1>2, <1>3, <1>4, <1>5, <1>6, <1>7 DEF Next

-----------------------------------------------------------------------------
(***************************************************************************)
(* The exporters.                                                          *)
(***************************************************************************)

LEMMA ExportsStep == RoundTripType /\ ExportsKept /\ [Next]_vars => ExportsKept'
<1> SUFFICES ASSUME RoundTripType, ExportsKept, [Next]_vars,
                    NEW b \in Batches
             PROVE  (/\ exports[b] = 0 => result[b] = "none"
                     /\ \A g \in Subjects : stored[b][g] <= exports[b]
                     /\ jetstream /\ result[b] = "ok" => Exporter!Delivered(b))'
  BY DEF ExportsKept
<1>1. /\ exports[b] = 0 => result[b] = "none"
      /\ \A g \in Subjects : stored[b][g] <= exports[b] /\ stored[b][g] \in Nat
      /\ jetstream /\ result[b] = "ok" => Exporter!Delivered(b)
      /\ exports \in [Batches -> 0..MaxExports] /\ exports[b] \in Nat
      /\ result \in [Batches -> {"none", "ok", "error"}]
      /\ stored \in [Batches -> [Subjects -> Nat]]
  BY RoundTripAssumption DEF ExportsKept, RoundTripType
<1>2. Exporter!GroupsOf(b) \subseteq Subjects
  BY RoundTripAssumption DEF Exporter!GroupsOf, RecordsOf, ExporterDefault, Subjects
<1>3. CASE Exporter!Choose
  BY <1>1, <1>3 DEF Exporter!Choose
<1>4. ASSUME NEW d \in Batches, Exporter!Begin(d)
      PROVE  (/\ exports[b] = 0 => result[b] = "none"
              /\ \A g \in Subjects : stored[b][g] <= exports[b]
              /\ jetstream /\ result[b] = "ok" => Exporter!Delivered(b))'
  <2>1. /\ exports'[b] \in {exports[b], exports[b] + 1}
        /\ result'[b] = "none" \/ (result'[b] = result[b] /\ exports'[b] = exports[b])
        /\ UNCHANGED <<jetstream, stored>>
    BY <1>1, <1>4 DEF Exporter!Begin
  <2> QED
    BY <1>1, <2>1 DEF Exporter!Delivered
<1>5. ASSUME NEW d \in Batches, Exporter!Report(d)
      PROVE  (/\ exports[b] = 0 => result[b] = "none"
              /\ \A g \in Subjects : stored[b][g] <= exports[b]
              /\ jetstream /\ result[b] = "ok" => Exporter!Delivered(b))'
  <2>1. /\ UNCHANGED <<jetstream, exports, stored>>
        /\ d # b => result'[b] = result[b]
        /\ exports[d] > 0
        /\ result'[d] = "ok" /\ jetstream => Exporter!Delivered(d)
    BY <1>1, <1>5 DEF Exporter!Report
  <2> QED
    BY <1>1, <2>1 DEF Exporter!Delivered
<1>6. ASSUME NEW d \in Batches, NEW h \in Subjects, Exporter!Store(d, h)
      PROVE  (/\ exports[b] = 0 => result[b] = "none"
              /\ \A g \in Subjects : stored[b][g] <= exports[b]
              /\ jetstream /\ result[b] = "ok" => Exporter!Delivered(b))'
  <2>1. /\ UNCHANGED <<jetstream, exports, result>>
        /\ stored[d][h] < exports[d]
        /\ stored' = [stored EXCEPT ![d][h] = @ + 1]
    BY <1>6 DEF Exporter!Store
  <2>2. \A g \in Subjects : stored'[b][g] = IF d = b /\ g = h THEN stored[b][g] + 1 ELSE stored[b][g]
    BY <1>1, <2>1
  <2>3. \A g \in Subjects : stored'[b][g] <= exports[b] /\ stored'[b][g] >= stored[b][g]
    BY <1>1, <2>1, <2>2
  <2>4. Exporter!Delivered(b) => Exporter!Delivered(b)'
    <3>1. \A g \in Subjects : stored[b][g] > 0 => stored'[b][g] > 0
      BY <1>1, <2>1, <2>2
    <3> QED
      BY <1>2, <3>1 DEF Exporter!Delivered, Exporter!GroupsOf, Exporter!HasUnroutable
  <2> QED
    BY <1>1, <2>1, <2>3, <2>4
<1>7. CASE UNCHANGED <<jetstream, exports, result, stored>>
  BY <1>1, <1>7 DEF Exporter!Delivered
<1>8. Exporter!Next \/ UNCHANGED <<jetstream, exports, result, stored>>
  BY DEF Next, Export, Start, Stop, Accept, Terminate, Acknowledge, vars, exportVars
<1> QED
  BY <1>3, <1>4, <1>5, <1>6, <1>7, <1>8 DEF Exporter!Next

-----------------------------------------------------------------------------
(***************************************************************************)
(* The receivers and their consumers.                                      *)
(***************************************************************************)

\* Only Start sets a filter, that of the consumer it starts.
LEMMA FilterStep == RoundTripType /\ FilterIsOwn /\ [Next]_vars => FilterIsOwn'
<1> SUFFICES ASSUME RoundTripType, FilterIsOwn, [Next]_vars,
                    NEW s \in Signals, OwnName(s)
             PROVE  filter'[ConsumerOf(s)] \in {{}, FilterSubject(s)}
  BY DeploymentStays, SettingsStay DEF FilterIsOwn
<1>1. filter[ConsumerOf(s)] \in {{}, FilterSubject(s)}
  BY DEF FilterIsOwn
<1>2. ASSUME NEW t \in Signals, Start(t)
      PROVE  filter'[ConsumerOf(s)] \in {{}, FilterSubject(s)}
  <2>1. /\ filter' = [filter EXCEPT ![ConsumerOf(t)] = FilterSubject(t)]
        /\ ConsumerOf(s) \in DOMAIN filter
    BY <1>2, SettingsType DEF Start, RoundTripType
  <2>2. CASE ConsumerOf(t) = ConsumerOf(s)
    <3>1. t = s
      BY <2>2, OwnConsumer
    <3> QED
      BY <2>1, <3>1
  <2>3. CASE ConsumerOf(t) # ConsumerOf(s)
    BY <1>1, <2>1, <2>3
  <2> QED
    BY <2>2, <2>3
<1>3. (\E t \in Signals : Start(t)) \/ filter' = filter
  BY DEF Next, Export, receiveVars, Stop, Accept, Terminate, Acknowledge, vars
<1> QED
  BY <1>1, <1>2, <1>3

\* What the receiver of a signal with its own name is sent has passed its filter.
LEMMA SentThroughFilter ==
    ASSUME FilterIsOwn, NEW s \in Signals, OwnName(s), NEW m \in Messages, Gets(s, m)
    PROVE  m.subject \in FilterSubject(s)
BY DEF FilterIsOwn, Gets

LEMMA TakenStep ==
    RoundTripType /\ FilterIsOwn /\ TakenThroughFilter /\ [Next]_vars => TakenThroughFilter'
<1> SUFFICES ASSUME RoundTripType, FilterIsOwn, TakenThroughFilter, [Next]_vars,
                    NEW t \in taken'
             PROVE  /\ t.by \in Signals
                    /\ t.from = ConsumerOf(t.by)
                    /\ OwnName(t.by) => t.msg.subject \in FilterSubject(t.by)
  BY DeploymentStays, SettingsStay DEF TakenThroughFilter
<1>1. CASE t \in taken
  BY <1>1 DEF TakenThroughFilter, RoundTripType
<1>2. ASSUME NEW s \in Signals, NEW m \in Messages, Accept(s, m), t \notin taken
      PROVE  /\ t.by \in Signals
             /\ t.from = ConsumerOf(t.by)
             /\ OwnName(t.by) => t.msg.subject \in FilterSubject(t.by)
  <2>1. t = [by |-> s, from |-> ConsumerOf(s), msg |-> m] /\ Gets(s, m)
    BY <1>2 DEF Accept
  <2>2. OwnName(s) => m.subject \in FilterSubject(s)
    BY <2>1, SentThroughFilter
  <2> QED
    BY <2>1, <2>2
<1>3. (\E s \in Signals, m \in Messages : Accept(s, m)) \/ taken' = taken
  BY DEF Next, Export, receiveVars, Start, Stop, Terminate, Acknowledge, vars
<1> QED
  BY <1>1, <1>2, <1>3

\* How a message stands with the consumer of a signal with its own name changes
\* only through that signal's receiver, but for acknowledgements.
LEMMA FateStep ==
    RoundTripType /\ FilterIsOwn /\ TakenThroughFilter /\ FateIsJustified /\ [Next]_vars
        => FateIsJustified'
<1> SUFFICES ASSUME RoundTripType, FilterIsOwn, TakenThroughFilter, FateIsJustified, [Next]_vars
             PROVE  FateIsJustified'
  OBVIOUS
<1> DEFINE Own(c, how) ==
      \A s \in Signals, m \in Messages : OwnName(s) /\ ConsumerOf(s) = c =>
         /\ how[m] = "termed" => m.subject \in FilterSubject(s) /\ SignalOfMsg(m) # s
         /\ how[m] = "passed" => SignalOfMsg(m) # s
           Acked(c, how) ==
      \A m \in Messages : how[m] = "acked" => \E t \in taken : t.from = c /\ t.msg = m
<1>1. \A c \in Consumers : Own(c, fate[c]) /\ Acked(c, fate[c])
  BY DEF FateIsJustified
<1>2. taken \subseteq taken'
  BY DEF Next, Export, receiveVars, Start, Stop, Accept, Terminate, Acknowledge, vars
<1>3. ASSUME \A c \in Consumers : Own(c, fate'[c]) /\ Acked(c, fate'[c])
      PROVE  FateIsJustified'
  <2>1. \A s \in Signals : ConsumerOf(s) \in Consumers
    BY SettingsType
  <2>2. \A s \in Signals, m \in Messages : OwnName(s) =>
          /\ fate'[ConsumerOf(s)][m] = "termed" =>
                 m.subject \in FilterSubject(s) /\ SignalOfMsg(m) # s
          /\ fate'[ConsumerOf(s)][m] = "passed" => SignalOfMsg(m) # s
    BY <1>3, <2>1
  <2>3. \A c \in Consumers, m \in Messages :
          fate'[c][m] = "acked" => \E t \in taken' : t.from = c /\ t.msg = m
    BY <1>2, <1>3
  <2> QED
    BY <2>2, <2>3, DeploymentStays, SettingsStay DEF FateIsJustified, SignalOfMsg
<1>4. ASSUME NEW d \in Consumers, NEW new, fate' = [fate EXCEPT ![d] = new],
             Own(d, new), Acked(d, new)
      PROVE  FateIsJustified'
  <2>1. \A c \in Consumers : fate'[c] = IF c = d THEN new ELSE fate[c]
    BY <1>4 DEF RoundTripType
  <2>2. \A c \in Consumers : Own(c, fate'[c]) /\ Acked(c, fate'[c])
    BY <1>1, <1>4, <2>1
  <2> QED
    BY <1>3, <2>2
<1>5. ASSUME fate' = fate PROVE FateIsJustified'
  BY <1>1, <1>3, <1>5
<1>6. \A s \in Signals, t \in Signals :
         OwnName(s) /\ ConsumerOf(s) = ConsumerOf(t) => t = s
  BY OwnConsumer
<1>7. ASSUME NEW t \in Signals, Start(t) PROVE FateIsJustified'
  <2> DEFINE c == ConsumerOf(t)
             leftOut == {m \in InStream : filter[c] # {} /\ m.subject \notin filter[c]}
  <2>1. c \in Consumers
    BY SettingsType
  <2>2. CASE Ephemeral(t)
    <3> DEFINE new == [m \in Messages |-> "open"]
    <3>1. fate' = [fate EXCEPT ![c] = new]
      BY <1>7, <2>2 DEF Start
    <3>2. Own(c, new) /\ Acked(c, new)
      OBVIOUS
    <3> HIDE DEF new, c, Own, Acked
    <3> QED
      BY <1>4, <2>1, <3>1, <3>2
  <2>3. CASE ~ Ephemeral(t)
    <3>1. PICK passed \in SUBSET leftOut :
             fate' = [fate EXCEPT ![c] =
                        [m \in Messages |-> IF m \in passed THEN "passed" ELSE @[m]]]
      BY <1>7, <2>3 DEF Start
    <3> DEFINE new == [m \in Messages |-> IF m \in passed THEN "passed" ELSE fate[c][m]]
    <3>2. fate' = [fate EXCEPT ![c] = new]
      BY <3>1
    <3>3. \A m \in passed : OwnName(t) => SignalOfMsg(m) # t
      <4> SUFFICES ASSUME NEW m \in passed, OwnName(t), SignalOfMsg(m) = t PROVE FALSE
        OBVIOUS
      <4>1. /\ m \in Messages /\ filter[c] # {} /\ m.subject \notin filter[c]
            /\ filter[c] \in {{}, FilterSubject(t)}
        BY DEF FilterIsOwn, InStream
      <4>2. m.subject = ReceiverDefault[t] /\ ReceiverDefault[t] \in FilterSubject(t)
        BY <4>1, SubjectOfMessage, SettingsType
      <4> QED
        BY <4>1, <4>2
    <3>4. \A m \in Messages : /\ m \in passed => new[m] = "passed"
                              /\ m \notin passed => new[m] = fate[c][m]
      OBVIOUS
    <3> HIDE DEF new, c
    <3>5. Own(c, new) /\ Acked(c, new)
      <4>1. Own(c, new)
        <5> SUFFICES ASSUME NEW s \in Signals, NEW m \in Messages, OwnName(s), ConsumerOf(s) = c
                     PROVE  /\ new[m] = "termed" => m.subject \in FilterSubject(s) /\ SignalOfMsg(m) # s
                            /\ new[m] = "passed" => SignalOfMsg(m) # s
          OBVIOUS
        <5>1. s = t
          BY <1>6 DEF c
        <5>2. CASE m \in passed
          BY <3>3, <3>4, <5>1, <5>2
        <5>3. CASE m \notin passed
          BY <1>1, <2>1, <3>4, <5>3
        <5> QED
          BY <5>2, <5>3
      <4>2. Acked(c, new)
        BY <1>1, <2>1, <3>4
      <4> QED
        BY <4>1, <4>2
    <3> HIDE DEF Own, Acked
    <3> QED
      BY <1>4, <2>1, <3>2, <3>5
  <2> QED
    BY <2>2, <2>3
<1>8. ASSUME NEW c \in Consumers, NEW m \in Messages, NEW how \in {"acked", "termed"},
             Settle(c, m, how),
             how = "acked" => \E t \in taken : t.from = c /\ t.msg = m,
             how = "termed" => \A s \in Signals : OwnName(s) /\ ConsumerOf(s) = c =>
                                  m.subject \in FilterSubject(s) /\ SignalOfMsg(m) # s
      PROVE  FateIsJustified'
  <2> DEFINE new == [fate[c] EXCEPT ![m] = how]
  <2>1. fate' = [fate EXCEPT ![c] = new]
    BY <1>8 DEF Settle
  <2>2. \A n \in Messages : new[n] = IF n = m THEN how ELSE fate[c][n]
    BY <1>8 DEF RoundTripType
  <2> HIDE DEF new
  <2>3. Own(c, new)
    BY <1>1, <1>8, <2>2
  <2>4. Acked(c, new)
    BY <1>1, <1>8, <2>2
  <2> HIDE DEF Own, Acked
  <2> QED
    BY <1>4, <1>8, <2>1, <2>3, <2>4
<1>9. ASSUME NEW t \in Signals, NEW m \in Messages, Terminate(t, m) PROVE FateIsJustified'
  <2>1. /\ ConsumerOf(t) \in Consumers
        /\ Settle(ConsumerOf(t), m, "termed")
        /\ SignalOfMsg(m) # t /\ Gets(t, m)
    BY <1>9, SettingsType DEF Terminate
  <2>2. \A s \in Signals : OwnName(s) /\ ConsumerOf(s) = ConsumerOf(t) =>
           m.subject \in FilterSubject(s) /\ SignalOfMsg(m) # s
    BY <1>6, <2>1, SentThroughFilter
  <2> QED
    BY <1>8, <2>1, <2>2
<1>10. ASSUME NEW c \in Consumers, NEW m \in Messages, Acknowledge(c, m) PROVE FateIsJustified'
  BY <1>8, <1>10 DEF Acknowledge
<1>11. \/ \E t \in Signals : Start(t)
       \/ \E t \in Signals, m \in Messages : Terminate(t, m)
       \/ \E c \in Consumers, m \in Messages : Acknowledge(c, m)
       \/ fate' = fate
  BY DEF Next, Export, receiveVars, Stop, Accept, vars
<1> QED
  BY <1>5, <1>7, <1>9, <1>10, <1>11

-----------------------------------------------------------------------------
(***************************************************************************)
(* The properties.                                                         *)
(***************************************************************************)

LEMMA RoundTripInit == Init => RoundTripInv
<1> SUFFICES ASSUME Init PROVE RoundTripInv
  OBVIOUS
<1>1. RoundTripType
  BY RoundTripTypeInit
<1>2. ExportsKept
  <2>1. /\ \A b \in Batches : result[b] = "none" /\ exports[b] = 0
        /\ \A b \in Batches, g \in Subjects : stored[b][g] = 0
    BY DEF Init, Exporter!Init
  <2> QED
    BY <2>1 DEF ExportsKept
<1>3. FilterIsOwn
  BY <1>1, SettingsType DEF FilterIsOwn, Init
<1>4. TakenThroughFilter
  BY DEF TakenThroughFilter, Init
<1>5. FateIsJustified
  <2>1. \A c \in Consumers, m \in Messages : fate[c][m] = "open"
    BY DEF Init
  <2> QED
    BY <1>1, <2>1, SettingsType DEF FateIsJustified
<1> QED
  BY <1>1, <1>2, <1>3, <1>4, <1>5 DEF RoundTripInv

LEMMA RoundTripStep == RoundTripInv /\ [Next]_vars => RoundTripInv'
BY RoundTripTypeStep, ExportsStep, FilterStep, TakenStep, FateStep DEF RoundTripInv

LEMMA RoundTripInvariant == Spec => []RoundTripInv
BY RoundTripInit, RoundTripStep, PTL DEF Spec

\* A signal with its own subject and its own durable name stays apart from the
\* others: its pipeline gets nothing of theirs, and its receiver terminates
\* nothing, whatever the others are configured with and whoever restarts when.
THEOREM SignalsApart == Spec => []SignalsStayApart
<1>1. RoundTripInv => SignalsStayApart
  <2> SUFFICES ASSUME RoundTripInv, NEW s \in Signals, OwnName(s), s \notin deployment.wild
               PROVE  /\ \A m \in Messages : TakenBy(s, m) => SignalOfMsg(m) = s
                      /\ \A m \in Messages : fate[ConsumerOf(s)][m] # "termed"
    BY DEF SignalsStayApart
  <2>1. FilterSubject(s) = {ReceiverDefault[s]}
    BY SettingsType DEF RoundTripInv
  <2>2. \A m \in Messages : m.subject \in FilterSubject(s) => SignalOfMsg(m) = s
    BY <2>1, SubjectOfMessage
  <2>3. \A m \in Messages : TakenBy(s, m) => m.subject \in FilterSubject(s)
    BY DEF RoundTripInv, TakenThroughFilter, TakenBy
  <2>4. \A m \in Messages : fate[ConsumerOf(s)][m] = "termed" =>
                                m.subject \in FilterSubject(s) /\ SignalOfMsg(m) # s
    BY DEF RoundTripInv, FateIsJustified
  <2> QED
    BY <2>2, <2>3, <2>4
<1> QED
  BY <1>1, RoundTripInvariant, PTL

\* No silent loss from pipeline to pipeline: a batch whose export over JetStream
\* returned no error has, for each of its groups, a copy in the stream that the
\* receiver's pipeline accepted or that its consumer still has to offer, provided
\* the signal shares its durable name with no other.
THEOREM NothingLost == Spec => []NoSilentLoss
<1>1. RoundTripInv => NoSilentLoss
  <2> SUFFICES ASSUME RoundTripInv, NEW b \in Batches, jetstream, result[b] = "ok",
                      OwnName(SignalOf[b]), NEW g \in Exporter!GroupsOf(b)
               PROVE  \E m \in InStream :
                         /\ m.batch = b /\ m.subject = g
                         /\ \/ TakenBy(SignalOf[b], m)
                            \/ fate[ConsumerOf(SignalOf[b])][m] = "open"
    BY DEF NoSilentLoss
  <2> DEFINE s == SignalOf[b]
             m == [batch |-> b, subject |-> g, copy |-> 1]
  <2>1. /\ g \in RecordsOf[b] /\ g \in Subjects
        /\ stored[b][g] \in Nat /\ stored[b][g] > 0 /\ exports[b] \in 0..MaxExports
        /\ stored[b][g] <= exports[b]
    <3>1. g \in RecordsOf[b] /\ g \in Subjects
      BY RoundTripAssumption DEF Exporter!GroupsOf, RecordsOf, ExporterDefault, Subjects
    <3>2. Exporter!Delivered(b)
      BY DEF RoundTripInv, ExportsKept
    <3> QED
      BY <3>1, <3>2 DEF Exporter!Delivered, RoundTripInv, RoundTripType, ExportsKept
  <2>2. m \in Messages /\ m \in InStream
    <3>1. 1 \in 1..MaxExports /\ 1 <= stored[b][g]
      BY <2>1, RoundTripAssumption
    <3> QED
      BY <2>1, <3>1 DEF Messages, InStream
  <2>3. m.batch = b /\ m.subject = g /\ SignalOfMsg(m) = s
    BY DEF SignalOfMsg
  <2> HIDE DEF m
  <2>4. s \in Signals /\ ConsumerOf(s) \in Consumers
    BY RoundTripAssumption, SettingsType DEF RoundTripInv
  <2>5. fate[ConsumerOf(s)][m] \in {"open", "acked"}
    <3>1. fate[ConsumerOf(s)][m] \in Fates
      BY <2>2, <2>4 DEF RoundTripInv, RoundTripType
    <3>2. fate[ConsumerOf(s)][m] \notin {"termed", "passed"}
      BY <2>2, <2>3, <2>4 DEF RoundTripInv, FateIsJustified
    <3> QED
      BY <3>1, <3>2 DEF Fates
  <2>6. fate[ConsumerOf(s)][m] = "acked" => TakenBy(s, m)
    <3> SUFFICES ASSUME fate[ConsumerOf(s)][m] = "acked" PROVE TakenBy(s, m)
      OBVIOUS
    <3>1. PICK t \in taken : t.from = ConsumerOf(s) /\ t.msg = m
      BY <2>2, <2>4 DEF RoundTripInv, FateIsJustified
    <3>2. t.by \in Signals /\ ConsumerOf(t.by) = ConsumerOf(s)
      BY <3>1 DEF RoundTripInv, RoundTripType, TakenThroughFilter
    <3>3. t.by = s
      BY <2>4, <3>2, OwnConsumer DEF RoundTripInv
    <3> QED
      BY <3>1, <3>3 DEF TakenBy
  <2> QED
    BY <2>2, <2>3, <2>5, <2>6
<1> QED
  BY <1>1, RoundTripInvariant, PTL

=============================================================================
