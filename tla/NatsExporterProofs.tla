-------------------------- MODULE NatsExporterProofs --------------------------
(***************************************************************************)
(* Proofs about NatsExporter, for any batches, subjects, number of exports *)
(* and choice of records the marshaler or the client refuses.              *)
(***************************************************************************)
EXTENDS NatsExporter, FiniteSetTheorems, TLAPS

(***************************************************************************)
(* Type correctness.                                                       *)
(***************************************************************************)

LEMMA GroupsOfType == \A b \in Batches : GroupsOf(b) \subseteq Subjects
BY GroupsAssumption DEF GroupsOf

\* What a publish of a group is written as, and what a waiting one waits for.
LEMMA PublishType ==
    ASSUME TypeOK, NEW b \in Batches, NEW s \in Subjects
    PROVE  /\ [batch |-> b, subject |-> s, try |-> exports[b]] \in Publish
           /\ exports[b] \in Nat
BY ModeAssumption DEF TypeOK, Publish

LEMMA TypeInit == Init => TypeOK
BY GroupsAssumption, ModeAssumption DEF Init, TypeOK, GroupsOf

\* The answer to a publish, where somebody waits for it, is an answer.
LEMMA AnswerToType ==
    ASSUME TypeOK, NEW p \in Publish, NEW ok \in BOOLEAN, AnswerTo(p, ok)
    PROVE  answers' \subseteq Answer
<1>1. [to |-> p, ok |-> ok] \in Answer
  BY DEF Answer
<1> QED
  BY <1>1 DEF AnswerTo, TypeOK

LEMMA TypeStep == TypeOK /\ [Next]_vars => TypeOK'
<1> SUFFICES ASSUME TypeOK, [Next]_vars PROVE TypeOK'
  OBVIOUS
<1>1. ASSUME Start PROVE TypeOK'
  BY <1>1, ModeAssumption DEF Start, NewPublisher, TypeOK, exportVars, serverVars
<1>2. ASSUME Shutdown PROVE TypeOK'
  BY <1>2 DEF Shutdown, TypeOK, exportVars, serverVars
<1>3. ASSUME GiveUp PROVE TypeOK'
  BY <1>3 DEF GiveUp, TypeOK, exportVars, serverVars
<1>4. ASSUME NEW b \in Batches, Export(b) PROVE TypeOK'
  BY <1>4, GroupsOfType, ModeAssumption DEF Export, TypeOK, serverVars, HasUnroutable
<1>5. ASSUME NEW b \in Batches, NEW s \in Subjects, SkipGroup(b, s) PROVE TypeOK'
  BY <1>5 DEF SkipGroup, TypeOK, serverVars
<1>6. ASSUME NEW b \in Batches, NEW s \in Subjects, PublishGroup(b, s) PROVE TypeOK'
  <2>1. /\ wire' \subseteq Publish
        /\ errs' \in [Batches -> BOOLEAN]
        /\ current' \in [Batches -> Subjects \cup {NoSubject}]
        /\ stage' \in [Batches -> {"idle", "looping", "waiting", "returned"}]
    <3> DEFINE new == [batch |-> b, subject |-> s, try |-> exports[b]]
    <3>1. new \in Publish
      BY PublishType
    <3>2. wire' = wire \cup {new} \/ wire' = wire
      BY <1>6 DEF PublishGroup, JetStreamPublish, CorePublish
    <3>3. errs' = [errs EXCEPT ![b] = TRUE] \/ errs' = errs
      BY <1>6 DEF PublishGroup, JetStreamPublish, CorePublish
    <3>4. stage' = [stage EXCEPT ![b] = "waiting"] \/ stage' = stage
      BY <1>6 DEF PublishGroup, JetStreamPublish, CorePublish
    <3>5. current' = [current EXCEPT ![b] = s] \/ current' = current
      BY <1>6 DEF PublishGroup, JetStreamPublish, CorePublish
    <3> HIDE DEF new
    <3>6. wire' \subseteq Publish
      BY <3>1, <3>2 DEF TypeOK
    <3>7. errs' \in [Batches -> BOOLEAN]
      BY <3>3 DEF TypeOK
    <3>8. current' \in [Batches -> Subjects \cup {NoSubject}]
      BY <3>5 DEF TypeOK
    <3>9. stage' \in [Batches -> {"idle", "looping", "waiting", "returned"}]
      BY <3>4 DEF TypeOK
    <3> QED
      BY <3>6, <3>7, <3>8, <3>9
  <2>2. /\ todo' \in [Batches -> SUBSET Subjects]
        /\ tried' \in [Batches -> SUBSET Subjects]
    BY <1>6 DEF PublishGroup, TypeOK
  <2>3. ASSUME NEW o \in Batches
        PROVE  /\ todo'[o] \cup tried'[o] \subseteq GroupsOf(o)
               /\ todo'[o] \cap tried'[o] = {}
    BY <1>6 DEF PublishGroup, TypeOK
  <2>4. ASSUME NEW o \in Batches, stage'[o] = "waiting"
        PROVE  current'[o] \in tried'[o]
    BY <1>6, <2>4 DEF PublishGroup, JetStreamPublish, CorePublish, TypeOK
  <2> QED
    BY <1>6, <2>1, <2>2, <2>3, <2>4 DEF PublishGroup, TypeOK
<1>7. ASSUME NEW b \in Batches, PublishAnswered(b) PROVE TypeOK'
  BY <1>7 DEF PublishAnswered, TypeOK, Answer
<1>8. ASSUME NEW b \in Batches, PublishFails(b) PROVE TypeOK'
  BY <1>8 DEF PublishFails, TypeOK
<1>9. ASSUME NEW b \in Batches, Return(b) PROVE TypeOK'
  BY <1>9 DEF Return, HelperResult, TypeOK, serverVars
<1>10. ASSUME NEW p \in wire, Store(p) PROVE TypeOK'
  <2>1. p \in Publish
    BY DEF TypeOK
  <2>2. answers' \subseteq Answer
    BY <1>10, <2>1, AnswerToType DEF Store
  <2>3. stored' \in [Batches -> [Subjects -> Nat]]
    BY <1>10, <2>1 DEF Store, TypeOK, Publish
  <2> QED
    BY <1>10, <2>2, <2>3 DEF Store, TypeOK, exportVars
<1>11. ASSUME NEW p \in wire, Refuse(p) PROVE TypeOK'
  <2>1. p \in Publish
    BY DEF TypeOK
  <2>2. answers' \subseteq Answer
    BY <1>11, <2>1, AnswerToType DEF Refuse
  <2> QED
    BY <1>11, <2>2 DEF Refuse, TypeOK, exportVars
<1>12. ASSUME Lose PROVE TypeOK'
  BY <1>12 DEF Lose, TypeOK, exportVars
<1>13. ASSUME UNCHANGED vars PROVE TypeOK'
  BY <1>13 DEF TypeOK, vars, exportVars, serverVars
<1> QED
  BY <1>1, <1>2, <1>3, <1>4, <1>5, <1>6, <1>7, <1>8, <1>9, <1>10, <1>11, <1>12, <1>13
  DEF Next, ServerNext, BatchNext

\* Every state has its type: an export works on its own batch's groups only, each
\* at most once, and waits for one it has handed over, whatever it is interleaved
\* with.
THEOREM TypeCorrect == Spec => []TypeOK
BY TypeInit, TypeStep, PTL DEF Spec

(***************************************************************************)
(* The inductive invariant, a conjunct at a time.                          *)
(***************************************************************************)

LEMMA InvInit == Init => ExportInv
<1> SUFFICES ASSUME Init PROVE ExportInv
  OBVIOUS
<1>1. StagesAgree /\ AnswersAreTrue /\ ErrorsAreKept /\ SuccessMeansStored /\ WireIsJustified
  BY DEF Init, StagesAgree, AnswersAreTrue, ErrorsAreKept, NoErrorYet, SuccessMeansStored,
         WireIsJustified
<1>2. CopiesAreCounted
  <2>1. ASSUME NEW b \in Batches, NEW s \in Subjects
        PROVE  stored[b][s] + Cardinality(OnWire(b, s)) <= Tries(b, s)
    <3>1. OnWire(b, s) = {}
      BY DEF Init, OnWire
    <3>2. stored[b][s] = 0 /\ Tries(b, s) = 0
      BY DEF Init, Tries
    <3> QED
      BY <3>1, <3>2, FS_EmptySet
  <2>2. IsFiniteSet(wire)
    BY FS_EmptySet DEF Init
  <2> QED
    BY <2>1, <2>2 DEF CopiesAreCounted
<1>3. NothingIsSkipped /\ OpenIsHeld /\ NoLeakedConnection
  BY DEF Init, NothingIsSkipped, OpenIsHeld, NoLeakedConnection
<1> QED
  BY <1>1, <1>2, <1>3 DEF ExportInv

\* Start, exports and returns agree on which stage each batch is in.
LEMMA StagesStep == TypeOK /\ StagesAgree /\ [Next]_vars => StagesAgree'
<1> SUFFICES ASSUME TypeOK, StagesAgree, [Next]_vars PROVE StagesAgree'
  OBVIOUS
<1>1. ASSUME Start PROVE StagesAgree'
  BY <1>1 DEF Start, StagesAgree, exportVars
<1>2. ASSUME Shutdown PROVE StagesAgree'
  BY <1>2 DEF Shutdown, StagesAgree, exportVars
<1>3. ASSUME NEW b \in Batches, Export(b) PROVE StagesAgree'
  <2>1. exports[b] + 1 # 0
    BY ModeAssumption DEF TypeOK
  <2>2. phase' # "created"
    BY <1>3 DEF Export
  <2> QED
    BY <1>3, <2>1, <2>2 DEF Export, StagesAgree, TypeOK
<1>4. ASSUME NEW b \in Batches, NEW s \in Subjects, SkipGroup(b, s) PROVE StagesAgree'
  BY <1>4 DEF SkipGroup, StagesAgree
<1>5. ASSUME NEW b \in Batches, NEW s \in Subjects, PublishGroup(b, s) PROVE StagesAgree'
  <2>1. stage' = [stage EXCEPT ![b] = "waiting"] \/ stage' = stage
    BY <1>5 DEF PublishGroup, JetStreamPublish, CorePublish
  <2>2. exports[b] # 0
    BY <1>5 DEF PublishGroup, StagesAgree
  <2> QED
    BY <1>5, <2>1, <2>2 DEF PublishGroup, StagesAgree, TypeOK
<1>6. ASSUME NEW b \in Batches, PublishAnswered(b) PROVE StagesAgree'
  BY <1>6 DEF PublishAnswered, StagesAgree, TypeOK
<1>7. ASSUME NEW b \in Batches, PublishFails(b) PROVE StagesAgree'
  BY <1>7 DEF PublishFails, StagesAgree, TypeOK
<1>8. ASSUME NEW b \in Batches, Return(b) PROVE StagesAgree'
  BY <1>8 DEF Return, HelperResult, StagesAgree, TypeOK
<1>9. ASSUME ServerNext \/ GiveUp \/ UNCHANGED vars PROVE StagesAgree'
  BY <1>9 DEF ServerNext, Store, Refuse, Lose, GiveUp, StagesAgree, vars, exportVars
<1> QED
  BY <1>1, <1>2, <1>3, <1>4, <1>5, <1>6, <1>7, <1>8, <1>9 DEF Next, BatchNext

\* Only Store changes what is stored, and never takes anything out.
LEMMA StoredGrows ==
    ASSUME TypeOK, [Next]_vars
    PROVE  /\ stored' = stored \/ \E p \in wire : Store(p)
           /\ \A b \in Batches, s \in Subjects : stored[b][s] > 0 => stored'[b][s] > 0
<1>1. stored' = stored \/ \E p \in wire : Store(p)
  BY DEF Next, BatchNext, ServerNext, Start, Shutdown, GiveUp, Export, SkipGroup,
         PublishGroup, PublishAnswered, PublishFails, Return, Refuse, Lose, vars, serverVars
<1>2. ASSUME NEW p \in wire, Store(p), NEW b \in Batches, NEW s \in Subjects
      PROVE  stored[b][s] > 0 => stored'[b][s] > 0
  BY <1>2 DEF Store, TypeOK, Publish
<1> QED
  BY <1>1, <1>2

\* An acknowledgement goes out with the copy it acknowledges.
LEMMA AnswersStep == TypeOK /\ AnswersAreTrue /\ [Next]_vars => AnswersAreTrue'
<1> SUFFICES ASSUME TypeOK, AnswersAreTrue, [Next]_vars,
                    NEW a \in answers', a.ok
             PROVE  stored'[a.to.batch][a.to.subject] > 0
  BY DEF AnswersAreTrue
<1>1. CASE a \in answers
  <2>1. a.to.batch \in Batches /\ a.to.subject \in Subjects
    BY <1>1 DEF TypeOK, Answer, Publish
  <2>2. stored[a.to.batch][a.to.subject] > 0
    BY <1>1 DEF AnswersAreTrue
  <2> QED
    BY <2>1, <2>2, StoredGrows
<1>2. CASE a \notin answers
  <2>1. PICK p \in wire : Store(p) \/ Refuse(p)
    BY <1>2 DEF Next, BatchNext, ServerNext, Start, Shutdown, GiveUp, Export, SkipGroup,
                PublishGroup, PublishAnswered, PublishFails, Return, Lose, vars, serverVars
  <2>2. Store(p) /\ a = [to |-> p, ok |-> TRUE]
    BY <1>2, <2>1 DEF Store, Refuse, AnswerTo
  <2>3. p.batch \in Batches /\ p.subject \in Subjects
    BY DEF TypeOK, Publish
  <2> QED
    BY <2>2, <2>3 DEF Store, TypeOK
<1> QED
  BY <1>1, <1>2

\* A step of another batch, and of the server, leaves a batch's errors alone.
LEMMA OtherErrors ==
    ASSUME TypeOK, [Next]_vars, NEW b \in Batches, NoErrorYet(b),
           publisher' = publisher, stage'[b] = stage[b], errs'[b] = errs[b],
           todo'[b] = todo[b], current'[b] = current[b]
    PROVE  NoErrorYet(b)'
<1>1. \A s \in GroupsOf(b) : stored[b][s] > 0 => stored'[b][s] > 0
  BY StoredGrows, GroupsOfType
<1> QED
  BY <1>1 DEF NoErrorYet, HasUnroutable, GroupsOf

\* Each step of an export either notes its error or moves the group on.
LEMMA ErrorsStep ==
    TypeOK /\ StagesAgree /\ AnswersAreTrue /\ ErrorsAreKept /\ [Next]_vars => ErrorsAreKept'
<1> SUFFICES ASSUME TypeOK, StagesAgree, AnswersAreTrue, ErrorsAreKept, [Next]_vars,
                    NEW o \in Batches
             PROVE  NoErrorYet(o)'
  BY DEF ErrorsAreKept
<1>0. NoErrorYet(o)
  BY DEF ErrorsAreKept
<1>1. ASSUME Start PROVE NoErrorYet(o)'
  <2>1. stage'[o] = "idle"
    BY <1>1 DEF Start, StagesAgree, exportVars
  <2> QED
    BY <2>1 DEF NoErrorYet
<1>2. ASSUME ServerNext \/ Shutdown \/ GiveUp \/ UNCHANGED vars PROVE NoErrorYet(o)'
  <2>1. UNCHANGED exportVars /\ publisher' = publisher
    BY <1>2 DEF ServerNext, Store, Refuse, Lose, Shutdown, GiveUp, vars
  <2> QED
    BY <2>1, <1>0, OtherErrors DEF exportVars
<1>3. ASSUME NEW b \in Batches, BatchNext(b), b # o PROVE NoErrorYet(o)'
  <2>1. /\ stage'[o] = stage[o] /\ errs'[o] = errs[o] /\ publisher' = publisher
        /\ todo'[o] = todo[o] /\ current'[o] = current[o]
    <3>1. CASE Export(b)
      BY <1>3, <3>1 DEF Export, TypeOK
    <3>2. ASSUME NEW s \in Subjects, SkipGroup(b, s)
          PROVE  /\ stage'[o] = stage[o] /\ errs'[o] = errs[o] /\ publisher' = publisher
                 /\ todo'[o] = todo[o] /\ current'[o] = current[o]
      BY <1>3, <3>2 DEF SkipGroup, TypeOK
    <3>3. ASSUME NEW s \in Subjects, PublishGroup(b, s)
          PROVE  /\ stage'[o] = stage[o] /\ errs'[o] = errs[o] /\ publisher' = publisher
                 /\ todo'[o] = todo[o] /\ current'[o] = current[o]
      <4>1. /\ stage' = [stage EXCEPT ![b] = "waiting"] \/ stage' = stage
            /\ errs' = [errs EXCEPT ![b] = TRUE] \/ errs' = errs
            /\ current' = [current EXCEPT ![b] = s] \/ current' = current
        BY <3>3 DEF PublishGroup, JetStreamPublish, CorePublish
      <4>2. todo' = [todo EXCEPT ![b] = @ \ {s}] /\ publisher' = publisher
        BY <3>3 DEF PublishGroup
      <4> QED
        BY <1>3, <4>1, <4>2 DEF TypeOK
    <3>4. CASE PublishAnswered(b)
      BY <1>3, <3>4 DEF PublishAnswered, TypeOK
    <3>5. CASE PublishFails(b)
      BY <1>3, <3>5 DEF PublishFails, TypeOK
    <3>6. CASE Return(b)
      BY <1>3, <3>6 DEF Return, TypeOK
    <3> QED
      BY <1>3, <3>1, <3>2, <3>3, <3>4, <3>5, <3>6 DEF BatchNext
  <2> QED
    BY <2>1, <1>0, OtherErrors
<1>4. ASSUME Export(o) PROVE NoErrorYet(o)'
  <2>1. todo'[o] = GroupsOf(o) /\ errs'[o] = HasUnroutable(o)
    BY <1>4 DEF Export, TypeOK
  <2> QED
    BY <2>1 DEF NoErrorYet, GroupsOf, HasUnroutable
<1>5. ASSUME NEW s \in Subjects, SkipGroup(o, s) PROVE NoErrorYet(o)'
  <2>1. errs'[o]
    BY <1>5 DEF SkipGroup, TypeOK
  <2> QED
    BY <2>1 DEF NoErrorYet
<1>6. ASSUME NEW s \in Subjects, PublishGroup(o, s) PROVE NoErrorYet(o)'
  <2>1. CASE errs'[o] \/ publisher # "jetstream"
    BY <1>6, <2>1 DEF NoErrorYet, PublishGroup
  <2>2. CASE ~ errs'[o] /\ publisher = "jetstream"
    <3>1. /\ stage' = [stage EXCEPT ![o] = "waiting"]
          /\ current' = [current EXCEPT ![o] = s]
          /\ errs' = errs
      BY <1>6, <2>2 DEF PublishGroup, JetStreamPublish, TypeOK
    <3>2. todo'[o] = todo[o] \ {s} /\ stored' = stored /\ stage[o] = "looping"
      BY <1>6 DEF PublishGroup, TypeOK
    <3>3. stage'[o] = "waiting" /\ current'[o] = s
      BY <3>1 DEF TypeOK
    <3> QED
      BY <1>0, <2>2, <3>1, <3>2, <3>3 DEF NoErrorYet, GroupsOf, HasUnroutable
  <2> QED
    BY <2>1, <2>2
<1>7. ASSUME PublishAnswered(o) PROVE NoErrorYet(o)'
  <2>1. PICK a \in answers : a.to = Awaited(o) /\ errs' = [errs EXCEPT ![o] = @ \/ ~ a.ok]
    BY <1>7 DEF PublishAnswered
  <2>2. a.ok \in BOOLEAN
    BY DEF TypeOK, Answer
  <2>3. errs'[o] \/ (a.ok /\ ~ errs[o])
    BY <2>1, <2>2 DEF TypeOK
  <2>4. CASE errs'[o]
    BY <2>4 DEF NoErrorYet
  <2>5. CASE a.ok /\ ~ errs[o]
    <3>1. a.to.batch = o /\ a.to.subject = current[o]
      BY <2>1 DEF Awaited
    <3>2. stored[o][current[o]] > 0
      BY <2>5, <3>1 DEF AnswersAreTrue
    <3>3. /\ publisher' = publisher /\ todo' = todo /\ stored' = stored
          /\ stage[o] = "waiting"
      BY <1>7 DEF PublishAnswered
    <3> QED
      BY <1>0, <2>5, <3>2, <3>3 DEF NoErrorYet, GroupsOf, HasUnroutable
  <2> QED
    BY <2>3, <2>4, <2>5
<1>8. ASSUME PublishFails(o) PROVE NoErrorYet(o)'
  <2>1. errs'[o]
    BY <1>8 DEF PublishFails, TypeOK
  <2> QED
    BY <2>1 DEF NoErrorYet
<1>9. ASSUME Return(o) PROVE NoErrorYet(o)'
  <2>1. stage'[o] = "returned"
    BY <1>9 DEF Return, TypeOK
  <2> QED
    BY <2>1 DEF NoErrorYet
<1> QED
  BY <1>1, <1>2, <1>3, <1>4, <1>5, <1>6, <1>7, <1>8, <1>9 DEF Next, BatchNext

\* An export returns without an error only after all groups, and a copy once
\* stored stays.
LEMMA SuccessStep ==
    TypeOK /\ StagesAgree /\ ErrorsAreKept /\ SuccessMeansStored /\ [Next]_vars
        => SuccessMeansStored'
<1> SUFFICES ASSUME TypeOK, StagesAgree, ErrorsAreKept, SuccessMeansStored, [Next]_vars,
                    NEW o \in Batches, publisher' = "jetstream", result'[o] = "ok"
             PROVE  ~ HasUnroutable(o) /\ \A s \in GroupsOf(o) : stored'[o][s] > 0
  BY DEF SuccessMeansStored, HasUnroutable, GroupsOf
<1>0. \A s \in GroupsOf(o) : stored[o][s] > 0 => stored'[o][s] > 0
  BY StoredGrows, GroupsOfType
<1>1. CASE publisher' = publisher /\ result'[o] = result[o]
  BY <1>0, <1>1 DEF SuccessMeansStored
<1>2. CASE ~ (publisher' = publisher /\ result'[o] = result[o])
  <2>1. CASE Start
    <3>1. result'[o] = "none"
      BY <2>1 DEF Start, StagesAgree, exportVars, TypeOK
    <3> QED
      BY <3>1
  <2>2. CASE ServerNext \/ Shutdown \/ GiveUp \/ UNCHANGED vars
    BY <1>2, <2>2 DEF ServerNext, Store, Refuse, Lose, Shutdown, GiveUp, vars, exportVars
  <2>3. ASSUME NEW b \in Batches, NEW s \in Subjects, SkipGroup(b, s) \/ PublishGroup(b, s)
        PROVE  FALSE
    BY <1>2, <2>3 DEF SkipGroup, PublishGroup
  <2>4. ASSUME NEW b \in Batches, Export(b)
        PROVE  FALSE
    BY <1>2, <2>4 DEF Export, TypeOK
  <2>5. ASSUME NEW b \in Batches, Return(b)
        PROVE  ~ HasUnroutable(o) /\ \A s \in GroupsOf(o) : stored'[o][s] > 0
    <3>1. b = o /\ ~ errs[o]
      BY <1>2, <2>5 DEF Return, HelperResult, TypeOK
    <3>2. stage[o] = "looping" /\ todo[o] = {} /\ stored' = stored /\ publisher = "jetstream"
      BY <2>5, <3>1 DEF Return, serverVars
    <3> QED
      BY <3>1, <3>2 DEF ErrorsAreKept, NoErrorYet
  <2>6. CASE \E b \in Batches : PublishAnswered(b) \/ PublishFails(b)
    BY <1>2, <2>6 DEF PublishAnswered, PublishFails
  <2> QED
    BY <2>1, <2>2, <2>3, <2>4, <2>5, <2>6 DEF Next, BatchNext
<1> QED
  BY <1>1, <1>2

\* A group is published only for the batch it comes from.
LEMMA WireStep == TypeOK /\ WireIsJustified /\ [Next]_vars => WireIsJustified'
<1> SUFFICES ASSUME TypeOK, WireIsJustified, [Next]_vars, NEW p \in wire'
             PROVE  p.subject \in GroupsOf(p.batch)
  BY DEF WireIsJustified, GroupsOf
<1>1. CASE p \in wire
  BY <1>1 DEF WireIsJustified
<1>2. CASE p \notin wire
  <2>1. PICK b \in Batches, s \in Subjects : PublishGroup(b, s)
    BY <1>2 DEF Next, BatchNext, ServerNext, Start, Shutdown, GiveUp, Export, SkipGroup,
                PublishAnswered, PublishFails, Return, Store, Refuse, Lose, vars, serverVars
  <2>2. p.batch = b /\ p.subject = s
    BY <1>2, <2>1 DEF PublishGroup, JetStreamPublish, CorePublish
  <2>3. s \in GroupsOf(b)
    BY <2>1 DEF PublishGroup, TypeOK
  <2> QED
    BY <2>2, <2>3
<1> QED
  BY <1>1, <1>2

\* Publishes under way are counted with natural numbers, and fewer of them are no more.
LEMMA OnWireCount ==
    ASSUME IsFiniteSet(wire), NEW b, NEW s
    PROVE  /\ IsFiniteSet(OnWire(b, s))
           /\ Cardinality(OnWire(b, s)) \in Nat
           /\ \A W \in SUBSET OnWire(b, s) :
                IsFiniteSet(W) /\ Cardinality(W) \in Nat /\ Cardinality(W) <= Cardinality(OnWire(b, s))
<1>1. OnWire(b, s) \subseteq wire
  BY DEF OnWire
<1>2. IsFiniteSet(OnWire(b, s))
  BY <1>1, FS_Subset
<1> QED
  BY <1>2, FS_Subset, FS_CardinalityType

LEMMA TriesType ==
    ASSUME TypeOK, NEW b \in Batches, NEW s \in Subjects
    PROVE  Tries(b, s) \in Nat /\ Tries(b, s) <= exports[b]
<1>1. exports[b] \in Nat
  BY ModeAssumption DEF TypeOK
<1> QED
  BY <1>1 DEF Tries

\* Whatever neither stores nor publishes leaves the count within the tries.
LEMMA NoNewCopy ==
    ASSUME TypeOK, TypeOK', CopiesAreCounted, wire' \subseteq wire, stored' = stored,
           \A b \in Batches, s \in Subjects : Tries(b, s) <= Tries(b, s)'
    PROVE  CopiesAreCounted'
<1>a. \A b \in Batches, s \in Subjects : Tries(b, s) \in Nat /\ Tries(b, s)' \in Nat
  <2>1. \A b \in Batches, s \in Subjects : Tries(b, s) \in Nat
    BY TriesType
  <2>2. ASSUME NEW b \in Batches, NEW s \in Subjects
        PROVE  Tries(b, s)' \in Nat
    <3>1. exports'[b] \in Nat
      BY ModeAssumption DEF TypeOK
    <3> QED
      BY <3>1 DEF Tries
  <2> QED
    BY <2>1, <2>2
<1>1. IsFiniteSet(wire')
  BY FS_Subset DEF CopiesAreCounted
<1>2. ASSUME NEW b \in Batches, NEW s \in Subjects
      PROVE  stored'[b][s] + Cardinality(OnWire(b, s)') <= Tries(b, s)'
  <2>1. OnWire(b, s)' \subseteq OnWire(b, s)
    BY DEF OnWire
  <2>2. /\ Cardinality(OnWire(b, s)') \in Nat /\ Cardinality(OnWire(b, s)) \in Nat
        /\ Cardinality(OnWire(b, s)') <= Cardinality(OnWire(b, s))
    BY <2>1, OnWireCount DEF CopiesAreCounted
  <2>3. Tries(b, s) \in Nat /\ Tries(b, s)' \in Nat
    BY <1>a
  <2>4. stored[b][s] \in Nat
    BY DEF TypeOK
  <2>5. stored[b][s] + Cardinality(OnWire(b, s)) <= Tries(b, s)
    BY DEF CopiesAreCounted
  <2> QED
    BY <2>2, <2>3, <2>4, <2>5
<1> QED
  BY <1>1, <1>2 DEF CopiesAreCounted

LEMMA CopiesStep ==
    TypeOK /\ StagesAgree /\ CopiesAreCounted /\ [Next]_vars => CopiesAreCounted'
<1> SUFFICES ASSUME TypeOK, StagesAgree, CopiesAreCounted, [Next]_vars
             PROVE  CopiesAreCounted'
  OBVIOUS
<1>0. TypeOK'
  BY TypeStep
<1>a. \A b \in Batches, s \in Subjects : Tries(b, s) \in Nat
  BY TriesType
<1>1. ASSUME wire' \subseteq wire, stored' = stored, exports' = exports, tried' = tried
      PROVE  CopiesAreCounted'
  <2>1. \A b \in Batches, s \in Subjects : Tries(b, s)' = Tries(b, s)
    BY <1>1 DEF Tries
  <2> QED
    BY <1>0, <1>a, <1>1, <2>1, NoNewCopy
<1>2. ASSUME Start \/ Shutdown \/ GiveUp \/ UNCHANGED vars PROVE CopiesAreCounted'
  BY <1>1, <1>2 DEF Start, Shutdown, GiveUp, vars, exportVars, serverVars
<1>3. ASSUME NEW b \in Batches, PublishAnswered(b) \/ PublishFails(b) \/ Return(b)
      PROVE  CopiesAreCounted'
  BY <1>1, <1>3 DEF PublishAnswered, PublishFails, Return, serverVars
<1>4. ASSUME NEW b \in Batches, NEW s \in Subjects, SkipGroup(b, s)
      PROVE  CopiesAreCounted'
  BY <1>1, <1>4 DEF SkipGroup, serverVars
<1>5. ASSUME Lose \/ \E p \in wire : Refuse(p) PROVE CopiesAreCounted'
  BY <1>1, <1>5 DEF Lose, Refuse, exportVars
<1>6. ASSUME NEW o \in Batches, Export(o) PROVE CopiesAreCounted'
  <2>1. ASSUME NEW b \in Batches, NEW s \in Subjects
        PROVE  Tries(b, s) <= Tries(b, s)'
    <3>1. exports[b] \in Nat
      BY ModeAssumption DEF TypeOK
    <3>2. CASE b = o
      <4>1. exports'[b] = exports[b] + 1 /\ tried'[b] = {}
        BY <1>6, <3>2 DEF Export, TypeOK
      <4>2. Tries(b, s)' = exports[b]
        BY <3>1, <4>1 DEF Tries
      <4> QED
        BY <4>2, TriesType
    <3>3. CASE b # o
      <4>1. exports'[b] = exports[b] /\ tried'[b] = tried[b]
        BY <1>6, <3>3 DEF Export, TypeOK
      <4>2. Tries(b, s)' = Tries(b, s)
        BY <4>1 DEF Tries
      <4> QED
        BY <4>2, <1>a
    <3> QED
      BY <3>2, <3>3
  <2> QED
    BY <1>0, <1>6, <2>1, NoNewCopy DEF Export, serverVars
<1>7. ASSUME NEW o \in Batches, NEW t \in Subjects, PublishGroup(o, t)
      PROVE  CopiesAreCounted'
  <2> DEFINE new == [batch |-> o, subject |-> t, try |-> exports[o]]
  <2>1. wire' = wire \cup {new} \/ wire' = wire
    BY <1>7 DEF PublishGroup, JetStreamPublish, CorePublish
  <2>2. new.batch = o /\ new.subject = t
    OBVIOUS
  <2> HIDE DEF new
  <2>3. IsFiniteSet(wire')
    BY <2>1, FS_AddElement DEF CopiesAreCounted
  <2>4. stored' = stored /\ exports' = exports /\ tried' = [tried EXCEPT ![o] = @ \cup {t}]
    BY <1>7 DEF PublishGroup
  <2>5. ASSUME NEW b \in Batches, NEW s \in Subjects
        PROVE  stored'[b][s] + Cardinality(OnWire(b, s)') <= Tries(b, s)'
    <3>1. stored[b][s] + Cardinality(OnWire(b, s)) <= Tries(b, s)
      BY DEF CopiesAreCounted
    <3>2. stored[b][s] \in Nat /\ exports[b] \in Nat
      BY ModeAssumption DEF TypeOK
    <3>3. /\ IsFiniteSet(OnWire(b, s))
          /\ Cardinality(OnWire(b, s)) \in Nat
      BY OnWireCount DEF CopiesAreCounted
    <3>4. CASE b = o /\ s = t
      <4>1. s \notin tried[b] /\ exports[b] # 0
        BY <1>7, <3>4 DEF PublishGroup, TypeOK, StagesAgree
      <4>2. s \in tried'[b]
        BY <2>4, <3>4 DEF TypeOK
      <4>3. Tries(b, s) = exports[b] - 1 /\ Tries(b, s)' = exports[b]
        BY <2>4, <4>1, <4>2 DEF Tries
      <4>4. OnWire(b, s)' = OnWire(b, s) \cup {new} \/ OnWire(b, s)' = OnWire(b, s)
        BY <2>1, <2>2, <3>4 DEF OnWire
      <4>5. \/ Cardinality(OnWire(b, s)') = Cardinality(OnWire(b, s))
            \/ Cardinality(OnWire(b, s)') = Cardinality(OnWire(b, s)) + 1
        BY <4>4, <3>3, FS_AddElement
      <4> QED
        BY <2>4, <3>1, <3>2, <3>3, <4>3, <4>5
    <3>5. CASE ~ (b = o /\ s = t)
      <4>1. OnWire(b, s)' = OnWire(b, s)
        BY <2>1, <2>2, <3>5 DEF OnWire
      <4>2. s \in tried'[b] <=> s \in tried[b]
        BY <2>4, <3>5 DEF TypeOK
      <4>3. Tries(b, s)' = Tries(b, s)
        BY <2>4, <4>2 DEF Tries
      <4> QED
        BY <2>4, <3>1, <4>1, <4>3
    <3> QED
      BY <3>4, <3>5
  <2> QED
    BY <2>3, <2>5 DEF CopiesAreCounted
<1>8. ASSUME NEW p \in wire, Store(p) PROVE CopiesAreCounted'
  <2>1. p.batch \in Batches /\ p.subject \in Subjects
    BY DEF TypeOK, Publish
  <2>2. wire' = wire \ {p} /\ exports' = exports /\ tried' = tried
    BY <1>8 DEF Store, exportVars
  <2>3. IsFiniteSet(wire')
    BY <2>2, FS_RemoveElement DEF CopiesAreCounted
  <2>4. ASSUME NEW b \in Batches, NEW s \in Subjects
        PROVE  stored'[b][s] + Cardinality(OnWire(b, s)') <= Tries(b, s)'
    <3>1. stored[b][s] + Cardinality(OnWire(b, s)) <= Tries(b, s)
      BY DEF CopiesAreCounted
    <3>2. stored[b][s] \in Nat /\ Tries(b, s) \in Nat /\ Tries(b, s)' = Tries(b, s)
      BY <2>2, <1>a DEF TypeOK, Tries
    <3>3. IsFiniteSet(OnWire(b, s)) /\ Cardinality(OnWire(b, s)) \in Nat
      BY OnWireCount DEF CopiesAreCounted
    <3>4. CASE p.batch = b /\ p.subject = s
      <4>1. OnWire(b, s)' = OnWire(b, s) \ {p} /\ p \in OnWire(b, s)
        BY <2>2, <3>4 DEF OnWire
      <4>2. Cardinality(OnWire(b, s)') = Cardinality(OnWire(b, s)) - 1
        BY <3>3, <4>1, FS_RemoveElement
      <4>3. stored'[b][s] = stored[b][s] + 1
        BY <1>8, <3>4 DEF Store, TypeOK
      <4> QED
        BY <3>1, <3>2, <3>3, <4>2, <4>3
    <3>5. CASE ~ (p.batch = b /\ p.subject = s)
      <4>1. OnWire(b, s)' = OnWire(b, s)
        BY <2>2, <3>5 DEF OnWire
      <4>2. stored'[b][s] = stored[b][s]
        BY <1>8, <2>1, <3>5 DEF Store, TypeOK
      <4> QED
        BY <3>1, <3>2, <4>1, <4>2
    <3> QED
      BY <3>4, <3>5
  <2> QED
    BY <2>3, <2>4 DEF CopiesAreCounted
<1> QED
  BY <1>2, <1>3, <1>4, <1>5, <1>6, <1>7, <1>8 DEF Next, BatchNext, ServerNext

\* Every group leaves the loop through the publisher or the marshaler's error.
LEMMA NothingIsSkippedStep ==
    TypeOK /\ StagesAgree /\ NothingIsSkipped /\ [Next]_vars => NothingIsSkipped'
<1> DEFINE Can(b) == {s \in GroupsOf(b) : <<b, s>> \notin Unmarshalable}
           Left(b) == {s \in todo[b] : <<b, s>> \notin Unmarshalable}
           Part(b) == /\ stage[b] # "idle" => Can(b) = tried[b] \cup Left(b)
                      /\ stage[b] = "returned" => todo[b] = {}
<1> SUFFICES ASSUME TypeOK, StagesAgree, NothingIsSkipped, [Next]_vars, NEW o \in Batches
             PROVE  Part(o)'
  BY DEF NothingIsSkipped, GroupsOf
<1>0. Part(o) /\ Can(o)' = Can(o)
  BY DEF NothingIsSkipped, GroupsOf
<1> HIDE DEF Can
<1>1. ASSUME stage'[o] = stage[o], todo'[o] = todo[o], tried'[o] = tried[o] PROVE Part(o)'
  BY <1>0, <1>1
<1>2. ASSUME ServerNext \/ Start \/ Shutdown \/ GiveUp \/ UNCHANGED vars PROVE Part(o)'
  <2>1. UNCHANGED exportVars
    BY <1>2 DEF ServerNext, Store, Refuse, Lose, Start, Shutdown, GiveUp, vars
  <2> QED
    BY <2>1, <1>1 DEF exportVars
<1>3. ASSUME NEW b \in Batches, Export(b) PROVE Part(o)'
  <2>1. CASE b = o
    <3>1. stage'[o] = "looping" /\ todo'[o] = GroupsOf(o) /\ tried'[o] = {}
      BY <1>3, <2>1 DEF Export, TypeOK
    <3> QED
      BY <1>0, <3>1 DEF Can
  <2>2. CASE b # o
    BY <1>1, <1>3, <2>2 DEF Export, TypeOK
  <2> QED
    BY <2>1, <2>2
<1>4. ASSUME NEW b \in Batches, NEW s \in Subjects, SkipGroup(b, s) PROVE Part(o)'
  <2>1. stage' = stage /\ tried' = tried /\ <<b, s>> \in Unmarshalable
    BY <1>4 DEF SkipGroup
  <2>2. todo' = [todo EXCEPT ![b] = @ \ {s}] /\ stage[b] = "looping"
    BY <1>4 DEF SkipGroup
  <2>3. Left(o)' = Left(o)
    BY <2>1, <2>2 DEF TypeOK
  <2>4. stage[o] = "returned" => todo'[o] = {}
    BY <1>0, <2>2 DEF TypeOK
  <2> HIDE DEF Left
  <2> QED
    BY <1>0, <2>1, <2>3, <2>4
<1>5. ASSUME NEW b \in Batches, NEW s \in Subjects, PublishGroup(b, s) PROVE Part(o)'
  <2>1. stage' = [stage EXCEPT ![b] = "waiting"] \/ stage' = stage
    BY <1>5 DEF PublishGroup, JetStreamPublish, CorePublish
  <2>2. /\ todo' = [todo EXCEPT ![b] = @ \ {s}] /\ s \in todo[b] /\ stage[b] = "looping"
        /\ tried' = [tried EXCEPT ![b] = @ \cup {s}] /\ <<b, s>> \notin Unmarshalable
    BY <1>5 DEF PublishGroup
  <2>3. CASE b = o
    <3>1. stage'[o] # "returned" /\ stage[o] # "idle"
      BY <2>1, <2>2, <2>3 DEF TypeOK
    <3>2. tried'[o] = tried[o] \cup {s} /\ todo'[o] = todo[o] \ {s}
      BY <2>2, <2>3 DEF TypeOK
    <3>3. tried'[o] \cup Left(o)' = tried[o] \cup Left(o)
      BY <2>2, <2>3, <3>2
    <3> HIDE DEF Left
    <3> QED
      BY <1>0, <3>1, <3>3
  <2>4. CASE b # o
    BY <1>1, <2>1, <2>2, <2>4 DEF TypeOK
  <2> QED
    BY <2>3, <2>4
<1>6. ASSUME NEW b \in Batches, PublishAnswered(b) \/ PublishFails(b) PROVE Part(o)'
  <2>1. /\ stage' = [stage EXCEPT ![b] = "looping"] /\ stage[b] = "waiting"
        /\ todo' = todo /\ tried' = tried
    BY <1>6 DEF PublishAnswered, PublishFails
  <2>2. stage'[o] # "idle" => stage[o] # "idle"
    BY <2>1 DEF TypeOK
  <2>3. stage'[o] = "returned" => stage[o] = "returned"
    BY <2>1 DEF TypeOK
  <2> QED
    BY <1>0, <2>1, <2>2, <2>3
<1>7. ASSUME NEW b \in Batches, Return(b) PROVE Part(o)'
  <2>1. /\ stage' = [stage EXCEPT ![b] = "returned"] /\ stage[b] = "looping"
        /\ todo' = todo /\ tried' = tried /\ todo[b] = {}
    BY <1>7 DEF Return
  <2>2. stage'[o] # "idle" => stage[o] # "idle"
    BY <2>1 DEF TypeOK
  <2>3. stage'[o] = "returned" => stage[o] = "returned" \/ o = b
    BY <2>1 DEF TypeOK
  <2> QED
    BY <1>0, <2>1, <2>2, <2>3
<1> QED
  BY <1>2, <1>3, <1>4, <1>5, <1>6, <1>7 DEF Next, BatchNext

\* The connection is opened once, with the publisher that shutdown closes it through.
LEMMA ConnectionStep ==
    /\ TypeOK /\ StagesAgree /\ OpenIsHeld /\ NoLeakedConnection /\ [Next]_vars
    => OpenIsHeld' /\ NoLeakedConnection'
<1> SUFFICES ASSUME TypeOK, StagesAgree, OpenIsHeld, NoLeakedConnection, [Next]_vars
             PROVE  OpenIsHeld' /\ NoLeakedConnection'
  OBVIOUS
<1>1. CASE UNCHANGED <<phase, publisher, conn>>
  BY <1>1 DEF OpenIsHeld, NoLeakedConnection
<1>2. CASE Start
  BY <1>2, ModeAssumption DEF Start, NewPublisher, OpenIsHeld, NoLeakedConnection
<1>3. CASE Shutdown \/ GiveUp
  BY <1>3 DEF Shutdown, GiveUp, OpenIsHeld, NoLeakedConnection
<1>4. Start \/ Shutdown \/ GiveUp \/ UNCHANGED <<phase, publisher, conn>>
  BY DEF Next, BatchNext, ServerNext, Export, SkipGroup, PublishGroup, PublishAnswered,
         PublishFails, Return, Store, Refuse, Lose, vars
<1> QED
  BY <1>1, <1>2, <1>3, <1>4

LEMMA InvStep == TypeOK /\ ExportInv /\ [Next]_vars => ExportInv'
BY StagesStep, AnswersStep, ErrorsStep, SuccessStep, WireStep, CopiesStep,
   NothingIsSkippedStep, ConnectionStep DEF ExportInv

\* The inductive invariant holds of every execution.
THEOREM ExportCorrect == Spec => []ExportInv
<1>1. TypeOK /\ ExportInv /\ [Next]_vars => TypeOK' /\ ExportInv'
  BY TypeStep, InvStep
<1> QED
  BY <1>1, TypeInit, InvInit, PTL DEF Spec

(***************************************************************************)
(* What it implies.                                                        *)
(***************************************************************************)

\* Over JetStream an export that returns no error has every group stored, whatever
\* the network, the server and Shutdown do meanwhile.
THEOREM SuccessStored == Spec => []SuccessMeansStored
<1>1. ExportInv => SuccessMeansStored
  BY DEF ExportInv
<1> QED
  BY <1>1, ExportCorrect, PTL

\* The stream holds no more copies of a group than there were exports of its batch.
THEOREM DuplicatesBounded == Spec => []DuplicatesNeedResend
<1>1. TypeOK /\ ExportInv => DuplicatesNeedResend
  <2> SUFFICES ASSUME TypeOK, ExportInv, NEW b \in Batches, NEW s \in Subjects
               PROVE  stored[b][s] <= exports[b]
    BY DEF DuplicatesNeedResend
  <2>1. Cardinality(OnWire(b, s)) \in Nat
    BY OnWireCount DEF ExportInv, CopiesAreCounted
  <2>2. stored[b][s] + Cardinality(OnWire(b, s)) <= Tries(b, s)
    BY DEF ExportInv, CopiesAreCounted
  <2>3. Tries(b, s) \in Nat /\ Tries(b, s) <= exports[b]
    BY TriesType
  <2>4. stored[b][s] \in Nat /\ exports[b] \in Nat
    BY ModeAssumption DEF TypeOK
  <2> QED
    BY <2>1, <2>2, <2>3, <2>4
<1> QED
  BY <1>1, TypeCorrect, ExportCorrect, PTL

\* An export hands over every group that can be marshaled, whichever of the others
\* cannot be marshaled or published, and in whatever order it meets them.
THEOREM OthersPublished == Spec => []OthersArePublished
<1>1. ExportInv => OthersArePublished
  BY DEF ExportInv, NothingIsSkipped, OthersArePublished
<1> QED
  BY <1>1, ExportCorrect, PTL

\* Nothing leaves a connection open behind Shutdown.
THEOREM ConnectionClosed == Spec => []NoLeakedConnection
<1>1. ExportInv => NoLeakedConnection
  BY DEF ExportInv
<1> QED
  BY <1>1, ExportCorrect, PTL

(***************************************************************************)
(* The exporter keeps its promise.                                         *)
(***************************************************************************)

LEMMA PromiseInit == Init => Promise!Init
BY DEF Init, Promise!Init

\* Start with JetStream, beginning an export, a copy that is stored and an export
\* that returns are the promise's steps; all others it does not see.
LEMMA PromiseStep ==
    TypeOK /\ ExportInv /\ [Next]_vars => [Promise!Next]_(Promise!vars)
<1> SUFFICES ASSUME TypeOK, ExportInv, [Next]_vars
             PROVE  [Promise!Next]_(Promise!vars)
  OBVIOUS
<1>1. ASSUME publisher' = publisher, exports' = exports, result' = result, stored' = stored
      PROVE  [Promise!Next]_(Promise!vars)
  BY <1>1 DEF Promise!vars
<1>2. ASSUME Start PROVE [Promise!Next]_(Promise!vars)
  <2>1. publisher # "jetstream" /\ \A b \in Batches : exports[b] = 0
    BY <1>2 DEF Start, ExportInv, StagesAgree
  <2>2. exports' = exports /\ result' = result /\ stored' = stored
    BY <1>2 DEF Start, exportVars, serverVars
  <2>3. CASE publisher' = "jetstream"
    <3>1. Promise!Choose
      BY <2>1, <2>2, <2>3 DEF Promise!Choose
    <3> QED
      BY <3>1 DEF Promise!Next
  <2>4. CASE publisher' # "jetstream"
    BY <2>1, <2>2, <2>4 DEF Promise!vars
  <2> QED
    BY <2>3, <2>4
<1>3. ASSUME NEW b \in Batches, Export(b) PROVE [Promise!Next]_(Promise!vars)
  <2>1. exports[b] = 0 \/ result[b] # "none"
    BY <1>3 DEF Export, ExportInv, StagesAgree
  <2>2. Promise!Begin(b)
    BY <1>3, <2>1 DEF Export, Promise!Begin, serverVars
  <2> QED
    BY <2>2 DEF Promise!Next
<1>4. ASSUME NEW p \in wire, Store(p) PROVE [Promise!Next]_(Promise!vars)
  <2> DEFINE b == p.batch
             s == p.subject
  <2>1. b \in Batches /\ s \in Subjects
    BY DEF TypeOK, Publish
  <2>2. s \in Promise!GroupsOf(b)
    BY DEF ExportInv, WireIsJustified, GroupsOf, Promise!GroupsOf
  <2>3. stored[b][s] < exports[b]
    <3>1. p \in OnWire(b, s)
      BY DEF OnWire
    <3>2. IsFiniteSet(OnWire(b, s)) /\ Cardinality(OnWire(b, s)) \in Nat
      BY OnWireCount DEF ExportInv, CopiesAreCounted
    <3>3. Cardinality(OnWire(b, s)) # 0
      BY <3>1, <3>2, FS_EmptySet
    <3>4. stored[b][s] + Cardinality(OnWire(b, s)) <= Tries(b, s)
      BY <2>1 DEF ExportInv, CopiesAreCounted
    <3>5. Tries(b, s) \in Nat /\ Tries(b, s) <= exports[b]
      BY <2>1, TriesType
    <3>6. stored[b][s] \in Nat /\ exports[b] \in Nat
      BY <2>1, ModeAssumption DEF TypeOK
    <3> QED
      BY <3>2, <3>3, <3>4, <3>5, <3>6
  <2>4. Promise!Store(b, s)
    BY <1>4, <2>2, <2>3 DEF Store, Promise!Store, exportVars
  <2> QED
    BY <2>1, <2>4 DEF Promise!Next
<1>5. ASSUME NEW b \in Batches, Return(b) PROVE [Promise!Next]_(Promise!vars)
  <2>1. exports[b] > 0 /\ result[b] = "none"
    <3>1. exports[b] \in Nat /\ exports[b] # 0 /\ result[b] = "none"
      BY <1>5, ModeAssumption DEF Return, ExportInv, StagesAgree, TypeOK
    <3> QED
      BY <3>1
  <2>2. UNCHANGED <<publisher, exports, stored>>
    BY <1>5 DEF Return, serverVars
  <2>3. CASE errs[b]
    <3>1. result' = [result EXCEPT ![b] = "error"]
      BY <1>5, <2>3 DEF Return, HelperResult
    <3>2. Promise!Report(b)
      BY <2>1, <2>2, <3>1 DEF Promise!Report
    <3> QED
      BY <3>2 DEF Promise!Next
  <2>4. CASE ~ errs[b]
    <3>1. result' = [result EXCEPT ![b] = "ok"]
      BY <1>5, <2>4 DEF Return, HelperResult
    <3>2. publisher = "jetstream" => Promise!Delivered(b)
      BY <1>5, <2>4 DEF Return, ExportInv, ErrorsAreKept, NoErrorYet, GroupsOf, HasUnroutable,
                        Promise!Delivered, Promise!GroupsOf, Promise!HasUnroutable
    <3>3. Promise!Report(b)
      BY <2>1, <2>2, <3>1, <3>2 DEF Promise!Report
    <3> QED
      BY <3>3 DEF Promise!Next
  <2> QED
    BY <2>3, <2>4
<1>6. ASSUME Shutdown \/ GiveUp \/ Lose \/ UNCHANGED vars \/ \E p \in wire : Refuse(p)
      PROVE  [Promise!Next]_(Promise!vars)
  BY <1>1, <1>6 DEF Shutdown, GiveUp, Lose, Refuse, vars, exportVars, serverVars
<1>7. ASSUME NEW b \in Batches, PublishAnswered(b) \/ PublishFails(b)
      PROVE  [Promise!Next]_(Promise!vars)
  BY <1>1, <1>7 DEF PublishAnswered, PublishFails
<1>8. ASSUME NEW b \in Batches, NEW s \in Subjects, SkipGroup(b, s) \/ PublishGroup(b, s)
      PROVE  [Promise!Next]_(Promise!vars)
  BY <1>1, <1>8 DEF SkipGroup, PublishGroup, serverVars
<1> QED
  BY <1>2, <1>3, <1>4, <1>5, <1>6, <1>7, <1>8 DEF Next, BatchNext, ServerNext

\* The exporter implements ExportPromise: at most one copy of a group for each
\* export, only of the batch's own groups, and success only when all are stored.
THEOREM ExporterRefines == Spec => ImplementsPromise
<1>1. Spec => [](TypeOK /\ ExportInv)
  BY TypeCorrect, ExportCorrect, PTL
<1> QED
  BY <1>1, PromiseInit, PromiseStep, PTL DEF Spec, ImplementsPromise, Promise!Spec

=============================================================================
