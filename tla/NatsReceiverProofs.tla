-------------------------- MODULE NatsReceiverProofs --------------------------
(***************************************************************************)
(* Proofs about NatsReceiver, for any receivers, messages, consumers,      *)
(* max_deliver, buffer size and number of faults.                          *)
(***************************************************************************)
EXTENDS NatsReceiver, TLAPS

(***************************************************************************)
(* Sequences: cutting one and taking its elements.                         *)
(***************************************************************************)

\* Any contiguous part of a sequence is a sequence over the same set, and
\* each of its elements is an element of the whole.
LEMMA CutSequence ==
    ASSUME NEW S, NEW s \in Seq(S), NEW i \in Nat \ {0}, NEW j \in 0..Len(s)
    PROVE  /\ SubSeq(s, i, j) \in Seq(S)
           /\ \A k \in 1..Len(SubSeq(s, i, j)) :
                \E l \in 1..Len(s) : SubSeq(s, i, j)[k] = s[l]
<1>1. SubSeq(s, i, j) \in Seq(S)
  OBVIOUS
<1>2. ASSUME NEW k \in 1..Len(SubSeq(s, i, j))
      PROVE  \E l \in 1..Len(s) : SubSeq(s, i, j)[k] = s[l]
  <2>1. k + i - 1 \in 1..Len(s) /\ SubSeq(s, i, j)[k] = s[k + i - 1]
    OBVIOUS
  <2> QED
    BY <2>1
<1> QED
  BY <1>1, <1>2

\* What Append adds, and what Tail and Head take.
LEMMA GrowSequence ==
    ASSUME NEW S, NEW s \in Seq(S), NEW e \in S
    PROVE  /\ Append(s, e) \in Seq(S)
           /\ \A k \in 1..Len(Append(s, e)) :
                Append(s, e)[k] = e \/ \E l \in 1..Len(s) : Append(s, e)[k] = s[l]
<1>1. ASSUME NEW k \in 1..Len(Append(s, e))
      PROVE  Append(s, e)[k] = e \/ \E l \in 1..Len(s) : Append(s, e)[k] = s[l]
  <2>1. k = Len(s) + 1 \/ k \in 1..Len(s)
    OBVIOUS
  <2>2. CASE k = Len(s) + 1
    BY <2>2
  <2>3. CASE k \in 1..Len(s)
    <3>1. Append(s, e)[k] = s[k]
      BY <2>3
    <3> QED
      BY <3>1, <2>3
  <2> QED
    BY <2>1, <2>2, <2>3
<1> QED
  BY <1>1

LEMMA ShrinkSequence ==
    ASSUME NEW S, NEW s \in Seq(S), s # <<>>
    PROVE  /\ Head(s) \in S
           /\ Head(s) = s[1] /\ 1 \in 1..Len(s)
           /\ Tail(s) \in Seq(S)
           /\ \A k \in 1..Len(Tail(s)) : \E l \in 1..Len(s) : Tail(s)[k] = s[l]
<1>1. Len(s) \in Nat /\ Len(s) >= 1
  OBVIOUS
<1>2. ASSUME NEW k \in 1..Len(Tail(s))
      PROVE  \E l \in 1..Len(s) : Tail(s)[k] = s[l]
  <2>1. k + 1 \in 1..Len(s) /\ Tail(s)[k] = s[k + 1]
    BY <1>1
  <2> QED
    BY <2>1
<1> QED
  BY <1>1, <1>2

(***************************************************************************)
(* Type correctness.  A receiver indexes the server's state with the       *)
(* consumer it is bound to, so TypeOK needs ConsumingIsBound to be         *)
(* inductive.                                                              *)
(***************************************************************************)

TypeInv == TypeOK /\ ConsumingIsBound

LEMMA BindableConsumersType == BindableConsumers \subseteq ConsumerNames
BY NamesAssumption DEF BindableConsumers

LEMMA ReplyForType ==
    /\ ReplyFor("unmarshal error") = "term"
    /\ ReplyFor("consume error") = "nak"
    /\ ReplyFor("consumed") = "ack"
BY DEF ReplyFor

LEMMA TypeInit == Init => TypeInv
<1> SUFFICES ASSUME Init PROVE TypeInv
  OBVIOUS
<1> USE NamesAssumption, NumbersAssumption
<1>1. /\ buffer \in [Receivers -> Seq(Delivery)]
      /\ out \in [Receivers -> Seq(Answer)]
  BY DEF Init
<1>2. handling \in [Receivers -> Task \cup {Idle}]
  BY DEF Init
<1>3. status \in [ConsumerNames -> [Messages -> Settled \cup {"new", "pending", "queued"}]]
  BY DEF Init
<1> QED
  BY <1>1, <1>2, <1>3 DEF Init, TypeInv, TypeOK, ConsumingIsBound

\* Spending a fault stays within the bound.
LEMMA FaultType == TypeInv /\ (Fault \/ NoFault) => faults' \in 0..MaxFaults
BY NumbersAssumption DEF TypeInv, TypeOK, Fault, NoFault

LEMMA TypeStep == TypeInv /\ [Next]_vars => TypeInv'
<1> SUFFICES ASSUME TypeInv, [Next]_vars PROVE TypeInv'
  OBVIOUS
<1> USE FaultType
<1> USE DEF TypeInv
<1>1. ASSUME NEW r \in Receivers, Start(r)
      PROVE  TypeInv'
  BY <1>1, BindableConsumersType DEF Start, TypeOK, ConsumingIsBound, historyVars
<1>2. ASSUME NEW r \in Receivers, StartFailsToConnect(r)
      PROVE  TypeInv'
  BY <1>2 DEF StartFailsToConnect, TypeOK, ConsumingIsBound, historyVars, serverVars
<1>3. ASSUME NEW r \in Receivers, StartFailsToConsume(r)
      PROVE  TypeInv'
  BY <1>3, BindableConsumersType DEF StartFailsToConsume, TypeOK, ConsumingIsBound, historyVars
<1>4. ASSUME NEW r \in Receivers, Handle(r)
      PROVE  TypeInv'
  <2> DEFINE b == buffer[r]
  <2>1. b \in Seq(Delivery) /\ b # <<>>
    BY <1>4 DEF Handle, TypeOK
  <2>2. Head(b) \in Delivery /\ Tail(b) \in Seq(Delivery)
    BY <2>1, ShrinkSequence
  <2>3. buffer' \in [Receivers -> Seq(Delivery)]
    BY <1>4, <2>2 DEF Handle, TypeOK
  <2>4. [stage |-> ReplyFor("unmarshal error"), d |-> Head(b)] \in Task
    BY <2>2, ReplyForType DEF Task, Replies
  <2>5. [stage |-> "consume", d |-> Head(b)] \in Task
    BY <2>2 DEF Task
  <2>6. handling' \in [Receivers -> Task \cup {Idle}]
    BY <1>4, <2>4, <2>5 DEF Handle, TypeOK
  <2> QED
    BY <1>4, <2>3, <2>6 DEF Handle, TypeOK, ConsumingIsBound, serverVars, historyVars
<1>5. ASSUME NEW r \in Receivers, ConsumeAccepts(r)
      PROVE  TypeInv'
  <2>1. handling[r] \in Task
    <3>1. handling[r].stage = "consume"
      BY <1>5 DEF ConsumeAccepts
    <3>2. handling[r] # Idle
      BY <3>1 DEF Idle
    <3> QED
      BY <3>2 DEF TypeOK
  <2>2. handling[r].d \in Delivery
    BY <2>1 DEF Task
  <2>3. [stage |-> ReplyFor("consumed"), d |-> handling[r].d] \in Task
    BY <2>2, ReplyForType DEF Task, Replies
  <2>4. handling' \in [Receivers -> Task \cup {Idle}]
    BY <1>5, <2>3 DEF ConsumeAccepts, TypeOK
  <2> QED
    BY <1>5, <2>2, <2>4 DEF ConsumeAccepts, TypeOK, ConsumingIsBound, serverVars
<1>6. ASSUME NEW r \in Receivers, ConsumeRejects(r)
      PROVE  TypeInv'
  <2>1. handling[r] \in Task
    <3>1. handling[r].stage = "consume"
      BY <1>6 DEF ConsumeRejects
    <3>2. handling[r] # Idle
      BY <3>1 DEF Idle
    <3> QED
      BY <3>2 DEF TypeOK
  <2>2. handling[r].d \in Delivery
    BY <2>1 DEF Task
  <2>3. [stage |-> ReplyFor("consume error"), d |-> handling[r].d] \in Task
    BY <2>2, ReplyForType DEF Task, Replies
  <2>4. handling' \in [Receivers -> Task \cup {Idle}]
    BY <1>6, <2>3 DEF ConsumeRejects, TypeOK
  <2> QED
    BY <1>6, <2>2, <2>4 DEF ConsumeRejects, TypeOK, ConsumingIsBound, serverVars
<1>7. ASSUME NEW r \in Receivers, Reply(r)
      PROVE  TypeInv'
  <2> DEFINE a == [kind |-> handling[r].stage, d |-> handling[r].d]
  <2>1. a \in Answer
    BY <1>7 DEF Reply, TypeOK, Idle, Replies, Task, Answer
  <2>2. Append(out[r], a) \in Seq(Answer)
    BY <2>1, GrowSequence DEF TypeOK
  <2>3. out' \in [Receivers -> Seq(Answer)]
    BY <1>7, <2>2 DEF Reply, TypeOK
  <2> QED
    BY <1>7, <2>3 DEF Reply, TypeOK, ConsumingIsBound, serverVars, historyVars
<1>8. ASSUME NEW r \in Receivers, ShutdownCancel(r)
      PROVE  TypeInv'
  BY <1>8 DEF ShutdownCancel, TypeOK, ConsumingIsBound, historyVars, serverVars
<1>9. ASSUME NEW r \in Receivers, ShutdownStop(r)
      PROVE  TypeInv'
  BY <1>9 DEF ShutdownStop, TypeOK, ConsumingIsBound, historyVars, serverVars
<1>10. ASSUME NEW r \in Receivers, ShutdownClose(r)
       PROVE  TypeInv'
  <2>1. out' \in [Receivers -> Seq(Answer)]
    <3>1. PICK n \in 0..Len(out[r]) : out' = [out EXCEPT ![r] = SubSeq(@, 1, n)]
      BY <1>10 DEF ShutdownClose
    <3>2. SubSeq(out[r], 1, n) \in Seq(Answer)
      BY <3>1, CutSequence DEF TypeOK
    <3> QED
      BY <3>1, <3>2 DEF TypeOK
  <2>2. buffer' \in [Receivers -> Seq(Delivery)]
    BY <1>10 DEF ShutdownClose, TypeOK
  <2> QED
    BY <1>10, <2>1, <2>2 DEF ShutdownClose, TypeOK, ConsumingIsBound, historyVars, serverVars
<1>11. ASSUME NEW r \in Receivers, Rebuild(r)
       PROVE  TypeInv'
  BY <1>11 DEF Rebuild, TypeOK, ConsumingIsBound, historyVars, serverVars
<1>12. ASSUME NEW r \in Receivers, Crash(r)
       PROVE  TypeInv'
  <2>1. out' \in [Receivers -> Seq(Answer)]
    <3>1. PICK n \in 0..Len(out[r]) : out' = [out EXCEPT ![r] = SubSeq(@, 1, n)]
      BY <1>12 DEF Crash
    <3>2. SubSeq(out[r], 1, n) \in Seq(Answer)
      BY <3>1, CutSequence DEF TypeOK
    <3> QED
      BY <3>1, <3>2 DEF TypeOK
  <2>2. buffer' \in [Receivers -> Seq(Delivery)]
    BY <1>12 DEF Crash, TypeOK
  <2> QED
    BY <1>12, <2>1, <2>2 DEF Crash, TypeOK, ConsumingIsBound, historyVars, serverVars
<1>13. ASSUME NEW r \in Receivers, NEW m \in Messages, Deliver(r, m)
       PROVE  TypeInv'
  <2> DEFINE c == consumer[r]
             d == [consumer |-> c, msg |-> m, num |-> deliveries[c][m] + 1]
  <2>1. c \in ConsumerNames
    BY <1>13 DEF Deliver, ConsumingIsBound
  <2>2. deliveries[c][m] + 1 \in Nat
    BY <2>1 DEF TypeOK
  <2>3. d \in Delivery
    BY <2>1, <2>2 DEF Delivery
  <2>4. buffer' \in [Receivers -> Seq(Delivery)]
    BY <1>13, <2>3, GrowSequence DEF Deliver, TypeOK
  <2>5. /\ status' \in [ConsumerNames -> [Messages -> Settled \cup {"new", "pending", "queued"}]]
        /\ deliveries' \in [ConsumerNames -> [Messages -> Nat]]
    BY <1>13, <2>1 DEF Deliver, TypeOK
  <2> QED
    BY <1>13, <2>4, <2>5 DEF Deliver, TypeOK, ConsumingIsBound, historyVars
<1>14. ASSUME NEW r \in Receivers, ServerReply(r)
       PROVE  TypeInv'
  <2> DEFINE a == Head(out[r])
  <2>1. /\ a \in Answer
        /\ Tail(out[r]) \in Seq(Answer)
    BY <1>14, ShrinkSequence DEF ServerReply, TypeOK
  <2>2. out' \in [Receivers -> Seq(Answer)]
    BY <1>14, <2>1 DEF ServerReply, TypeOK
  <2>3. a.d.consumer \in ConsumerNames /\ a.d.msg \in Messages
    BY <2>1 DEF Answer, Delivery
  <2>4. ASSUME NEW st \in Settled \cup {"new", "pending", "queued"}
        PROVE  AfterReply(a.kind, st) \in Settled \cup {"new", "pending", "queued"}
    <3>1. a.kind \in {"ack", "nak", "term"}
      BY <2>1 DEF Answer, Replies
    <3> QED
      BY <3>1 DEF AfterReply, Settled
  <2>5. status' \in [ConsumerNames -> [Messages -> Settled \cup {"new", "pending", "queued"}]]
    <3>1. status' = [status EXCEPT ![a.d.consumer][a.d.msg] = AfterReply(a.kind, @)]
      BY <1>14 DEF ServerReply
    <3>2. status \in [ConsumerNames -> [Messages -> Settled \cup {"new", "pending", "queued"}]]
      BY DEF TypeOK
    <3> HIDE DEF a
    <3>3. status[a.d.consumer][a.d.msg] \in Settled \cup {"new", "pending", "queued"}
      BY <2>3, <3>2
    <3> QED
      BY <2>3, <2>4, <3>1, <3>2, <3>3
  <2> QED
    BY <1>14, <2>2, <2>5 DEF ServerReply, TypeOK, ConsumingIsBound, historyVars
<1>15. ASSUME NEW r \in Receivers, Reconnect(r)
       PROVE  TypeInv'
  <2>1. out' \in [Receivers -> Seq(Answer)]
    <3>1. PICK n \in 0..Len(out[r]) : out' = [out EXCEPT ![r] = SubSeq(@, n + 1, Len(@))]
      BY <1>15 DEF Reconnect
    <3>2. out[r] \in Seq(Answer)
      BY DEF TypeOK
    <3>3. n + 1 \in Nat \ {0} /\ Len(out[r]) \in 0..Len(out[r])
      BY <3>2
    <3>4. SubSeq(out[r], n + 1, Len(out[r])) \in Seq(Answer)
      BY <3>2, <3>3, CutSequence
    <3> QED
      BY <3>1, <3>4 DEF TypeOK
  <2>2. buffer' \in [Receivers -> Seq(Delivery)]
    <3>1. PICK n \in 0..Len(buffer[r]) : buffer' = [buffer EXCEPT ![r] = SubSeq(@, 1, n)]
      BY <1>15 DEF Reconnect
    <3>2. SubSeq(buffer[r], 1, n) \in Seq(Delivery)
      BY <3>1, CutSequence DEF TypeOK
    <3> QED
      BY <3>1, <3>2 DEF TypeOK
  <2> QED
    BY <1>15, <2>1, <2>2 DEF Reconnect, TypeOK, ConsumingIsBound, historyVars, serverVars
<1>16. ASSUME NEW r \in Receivers, GiveUp(r)
       PROVE  TypeInv'
  <2>1. out' \in [Receivers -> Seq(Answer)]
    BY <1>16 DEF GiveUp, TypeOK
  <2>2. buffer' \in [Receivers -> Seq(Delivery)]
    BY <1>16 DEF GiveUp, TypeOK
  <2> QED
    BY <1>16, <2>1, <2>2 DEF GiveUp, TypeOK, ConsumingIsBound, historyVars, serverVars
<1>17. ASSUME NEW c \in ConsumerNames, NEW m \in Messages, AckWaitExpires(c, m)
       PROVE  TypeInv'
  <2>1. /\ status' \in [ConsumerNames -> [Messages -> Settled \cup {"new", "pending", "queued"}]]
        /\ expired' \in [ConsumerNames -> [Messages -> Nat]]
    BY <1>17 DEF AckWaitExpires, TypeOK
  <2> QED
    BY <1>17, <2>1 DEF AckWaitExpires, TypeOK, ConsumingIsBound, historyVars, receiverVars
<1>18. ASSUME NEW c \in ConsumerNames, NEW m \in Messages, Exhaust(c, m)
       PROVE  TypeInv'
  <2>1. status' \in [ConsumerNames -> [Messages -> Settled \cup {"new", "pending", "queued"}]]
    BY <1>18 DEF Exhaust, TypeOK, Settled
  <2> QED
    BY <1>18, <2>1 DEF Exhaust, TypeOK, ConsumingIsBound, historyVars, receiverVars
<1>19. CASE UNCHANGED vars
  BY <1>19 DEF vars, TypeOK, ConsumingIsBound, historyVars, serverVars, receiverVars
<1> QED
  BY <1>1, <1>2, <1>3, <1>4, <1>5, <1>6, <1>7, <1>8, <1>9, <1>10, <1>11, <1>12,
     <1>13, <1>14, <1>15, <1>16, <1>17, <1>18, <1>19
     DEF Next, ReceiverNext, ServerNext

LEMMA TypeInvariant == Spec => []TypeInv
BY TypeInit, TypeStep, PTL DEF Spec

\* The receiver, the server and the wire keep their types, in every behaviour.
THEOREM TypeCorrect == Spec => []TypeOK
BY TypeInvariant, PTL DEF TypeInv

(***************************************************************************)
(* Acknowledged means accepted, terminated means unreadable.  The reason   *)
(* for a reply is known when handle chooses it and must still be known     *)
(* when the server reads the reply, after any number of steps of others.   *)
(***************************************************************************)

\* Steps that leave what was replied to what alone.
LEMMA EvidenceFrame ==
    ASSUME EvidenceInv, UNCHANGED <<handling, out, status, accepted, rejected>>
    PROVE  HandlingIsJustified' /\ RepliesAreJustified' /\ PipelineGetsReadable'
           /\ VerdictsAreJustified'
BY DEF EvidenceInv, HandlingIsJustified, RepliesAreJustified, PipelineGetsReadable,
       VerdictsAreJustified, Of

\* Replies that are lost, or cut off, need no reason.
LEMMA RepliesLost ==
    ASSUME RepliesAreJustified, UNCHANGED <<accepted, rejected>>,
           \A r \in Receivers : \A k \in 1..Len(out'[r]) :
               \E l \in 1..Len(out[r]) : out'[r][k] = out[r][l]
    PROVE  RepliesAreJustified'
BY DEF RepliesAreJustified

\* Replacing one receiver's replies by a contiguous part of them loses replies.
LEMMA CutReplies ==
    ASSUME TypeInv, NEW r \in Receivers, NEW i \in Nat \ {0}, NEW j \in 0..Len(out[r]),
           out' = [out EXCEPT ![r] = SubSeq(@, i, j)]
    PROVE  \A q \in Receivers : \A k \in 1..Len(out'[q]) :
               \E l \in 1..Len(out[q]) : out'[q][k] = out[q][l]
<1>1. out \in [Receivers -> Seq(Answer)]
  BY DEF TypeInv, TypeOK
<1> SUFFICES ASSUME NEW q \in Receivers, NEW k \in 1..Len(out'[q])
             PROVE  \E l \in 1..Len(out[q]) : out'[q][k] = out[q][l]
  OBVIOUS
<1>2. CASE q = r
  <2>1. out'[q] = SubSeq(out[q], i, j)
    BY <1>1, <1>2
  <2> QED
    BY <1>1, <1>2, <2>1, CutSequence
<1>3. CASE q # r
  <2>1. out'[q] = out[q]
    BY <1>1, <1>3
  <2> QED
    BY <2>1
<1> QED
  BY <1>2, <1>3

LEMMA EvidenceInit == Init => EvidenceInv
BY NamesAssumption DEF Init, EvidenceInv, ConsumingIsBound, HandlingIsJustified,
   RepliesAreJustified, PipelineGetsReadable, VerdictsAreJustified, Idle

LEMMA EvidenceStep == TypeInv /\ EvidenceInv /\ [Next]_vars => EvidenceInv'
<1> SUFFICES ASSUME TypeInv, EvidenceInv, [Next]_vars PROVE EvidenceInv'
  OBVIOUS
<1> DEFINE Goal == /\ HandlingIsJustified' /\ RepliesAreJustified'
                   /\ PipelineGetsReadable' /\ VerdictsAreJustified'
<1>a. ConsumingIsBound'
  BY TypeStep DEF TypeInv
<1>b. /\ HandlingIsJustified /\ RepliesAreJustified
      /\ PipelineGetsReadable /\ VerdictsAreJustified
  BY DEF EvidenceInv
<1>c. /\ handling \in [Receivers -> Task \cup {Idle}]
      /\ out \in [Receivers -> Seq(Answer)]
      /\ buffer \in [Receivers -> Seq(Delivery)]
      /\ status \in [ConsumerNames -> [Messages -> Settled \cup {"new", "pending", "queued"}]]
  BY DEF TypeInv, TypeOK
<1>d. \A d \in Answer : d.d \in Delivery /\ d.kind \in Replies
  BY DEF Answer
<1>e. \A d \in Task : d.d \in Delivery
  BY DEF Task
<1>1. ASSUME NEW r \in Receivers, Start(r)
      PROVE  Goal
  BY <1>1, EvidenceFrame DEF Start, historyVars
<1>2. ASSUME NEW r \in Receivers, StartFailsToConnect(r)
      PROVE  Goal
  BY <1>2, EvidenceFrame DEF StartFailsToConnect, historyVars, serverVars
<1>3. ASSUME NEW r \in Receivers, StartFailsToConsume(r)
      PROVE  Goal
  BY <1>3, EvidenceFrame DEF StartFailsToConsume, historyVars
<1>4. ASSUME NEW r \in Receivers, Handle(r)
      PROVE  Goal
  <2>1. UNCHANGED <<out, status, accepted, rejected>>
    BY <1>4 DEF Handle, serverVars, historyVars
  <2>2. RepliesAreJustified' /\ PipelineGetsReadable' /\ VerdictsAreJustified'
    BY <1>b, <2>1 DEF RepliesAreJustified, PipelineGetsReadable, VerdictsAreJustified, Of
  <2>3. HandlingIsJustified'
    <3> DEFINE d == Head(buffer[r])
    <3>1. CASE d.msg \in Poison
      <4>1. handling' = [handling EXCEPT ![r] = [stage |-> "term", d |-> d]]
        BY <1>4, <3>1, ReplyForType DEF Handle
      <4> QED
        BY <1>b, <1>c, <2>1, <3>1, <4>1 DEF HandlingIsJustified, Idle
    <3>2. CASE d.msg \notin Poison
      <4>1. handling' = [handling EXCEPT ![r] = [stage |-> "consume", d |-> d]]
        BY <1>4, <3>2 DEF Handle
      <4> QED
        BY <1>b, <1>c, <2>1, <3>2, <4>1 DEF HandlingIsJustified, Idle
    <3> QED
      BY <3>1, <3>2
  <2> QED
    BY <2>2, <2>3
<1>5. ASSUME NEW r \in Receivers, ConsumeAccepts(r)
      PROVE  Goal
  <2> DEFINE d == handling[r].d
  <2>1. /\ handling[r].stage = "consume" /\ handling[r] # Idle
        /\ UNCHANGED <<out, status, rejected>>
        /\ accepted' = accepted \cup {d}
        /\ handling' = [handling EXCEPT ![r] = [stage |-> "ack", d |-> d]]
    <3>1. handling[r].stage = "consume"
      BY <1>5 DEF ConsumeAccepts
    <3>2. handling[r] # Idle
      BY <3>1 DEF Idle
    <3> QED
      BY <1>5, <3>1, <3>2, ReplyForType DEF ConsumeAccepts, serverVars
  <2>2. d.msg \notin Poison
    BY <1>b, <2>1 DEF HandlingIsJustified
  <2>3. HandlingIsJustified'
    BY <1>b, <1>c, <2>1, <2>2 DEF HandlingIsJustified, Idle
  <2>4. RepliesAreJustified'
    BY <1>b, <2>1 DEF RepliesAreJustified
  <2>5. PipelineGetsReadable'
    BY <1>b, <2>1, <2>2 DEF PipelineGetsReadable
  <2>6. VerdictsAreJustified'
    BY <1>b, <2>1 DEF VerdictsAreJustified, Of
  <2> QED
    BY <2>3, <2>4, <2>5, <2>6
<1>6. ASSUME NEW r \in Receivers, ConsumeRejects(r)
      PROVE  Goal
  <2> DEFINE d == handling[r].d
  <2>1. /\ handling[r].stage = "consume" /\ handling[r] # Idle
        /\ UNCHANGED <<out, status, accepted>>
        /\ rejected' = rejected \cup {d}
        /\ handling' = [handling EXCEPT ![r] = [stage |-> "nak", d |-> d]]
    <3>1. handling[r].stage = "consume"
      BY <1>6 DEF ConsumeRejects
    <3>2. handling[r] # Idle
      BY <3>1 DEF Idle
    <3> QED
      BY <1>6, <3>1, <3>2, ReplyForType DEF ConsumeRejects, serverVars
  <2>2. d.msg \notin Poison
    BY <1>b, <2>1 DEF HandlingIsJustified
  <2>3. HandlingIsJustified'
    BY <1>b, <1>c, <2>1, <2>2 DEF HandlingIsJustified, Idle
  <2>4. RepliesAreJustified'
    BY <1>b, <2>1 DEF RepliesAreJustified
  <2>5. PipelineGetsReadable'
    BY <1>b, <2>1, <2>2 DEF PipelineGetsReadable
  <2>6. VerdictsAreJustified'
    BY <1>b, <2>1 DEF VerdictsAreJustified, Of
  <2> QED
    BY <2>3, <2>4, <2>5, <2>6
<1>7. ASSUME NEW r \in Receivers, Reply(r)
      PROVE  Goal
  <2> DEFINE a == [kind |-> handling[r].stage, d |-> handling[r].d]
  <2>1. /\ handling[r] # Idle /\ handling[r].stage \in Replies
        /\ UNCHANGED <<status, accepted, rejected>>
        /\ handling' = [handling EXCEPT ![r] = Idle]
    BY <1>7 DEF Reply, serverVars, historyVars, Idle, Replies
  <2>2. HandlingIsJustified'
    BY <1>b, <1>c, <2>1 DEF HandlingIsJustified
  <2>3. PipelineGetsReadable' /\ VerdictsAreJustified'
    BY <1>b, <2>1 DEF PipelineGetsReadable, VerdictsAreJustified, Of
  <2>4. /\ a \in Answer
        /\ a.kind = "ack" => a.d \in accepted
        /\ a.kind = "nak" => a.d \in rejected
        /\ a.kind = "term" => a.d.msg \in Poison
    BY <1>b, <1>c, <1>e, <2>1 DEF HandlingIsJustified, Answer, Replies
  <2>5. RepliesAreJustified'
    <3>1. CASE UNCHANGED out
      BY <1>b, <2>1, <3>1 DEF RepliesAreJustified
    <3>2. CASE out' = [out EXCEPT ![r] = Append(@, a)]
      <4> SUFFICES ASSUME NEW q \in Receivers, NEW k \in 1..Len(out'[q])
                   PROVE  /\ out'[q][k].kind = "ack"  => out'[q][k].d \in accepted
                          /\ out'[q][k].kind = "nak"  => out'[q][k].d \in rejected
                          /\ out'[q][k].kind = "term" => out'[q][k].d.msg \in Poison
        BY <2>1 DEF RepliesAreJustified
      <4>1. CASE q = r
        <5>1. out'[q] = Append(out[q], a)
          BY <1>c, <3>2, <4>1
        <5>2. out'[q][k] = a \/ \E l \in 1..Len(out[q]) : out'[q][k] = out[q][l]
          BY <1>c, <2>4, <5>1, GrowSequence
        <5> QED
          BY <1>b, <2>4, <5>2 DEF RepliesAreJustified
      <4>2. CASE q # r
        <5>1. out'[q] = out[q]
          BY <1>c, <3>2, <4>2
        <5> QED
          BY <1>b, <5>1 DEF RepliesAreJustified
      <4> QED
        BY <4>1, <4>2
    <3> QED
      BY <1>7, <3>1, <3>2 DEF Reply
  <2> QED
    BY <2>2, <2>3, <2>5
<1>8. ASSUME NEW r \in Receivers, ShutdownCancel(r)
      PROVE  Goal
  BY <1>8, EvidenceFrame DEF ShutdownCancel, historyVars, serverVars
<1>9. ASSUME NEW r \in Receivers, ShutdownStop(r)
      PROVE  Goal
  BY <1>9, EvidenceFrame DEF ShutdownStop, historyVars, serverVars
<1>10. ASSUME NEW r \in Receivers, ShutdownClose(r)
       PROVE  Goal
  <2>1. UNCHANGED <<handling, status, accepted, rejected>>
    BY <1>10 DEF ShutdownClose, serverVars, historyVars
  <2>2. HandlingIsJustified' /\ PipelineGetsReadable' /\ VerdictsAreJustified'
    BY <1>b, <2>1 DEF HandlingIsJustified, PipelineGetsReadable, VerdictsAreJustified, Of
  <2>3. PICK n \in 0..Len(out[r]) : out' = [out EXCEPT ![r] = SubSeq(@, 1, n)]
    BY <1>10 DEF ShutdownClose
  <2>4. RepliesAreJustified'
    BY <1>b, <2>1, <2>3, CutReplies, RepliesLost
  <2> QED
    BY <2>2, <2>4
<1>11. ASSUME NEW r \in Receivers, Rebuild(r)
       PROVE  Goal
  BY <1>11, EvidenceFrame DEF Rebuild, historyVars, serverVars
<1>12. ASSUME NEW r \in Receivers, Crash(r)
       PROVE  Goal
  <2>1. /\ UNCHANGED <<status, accepted, rejected>>
        /\ handling' = [handling EXCEPT ![r] = Idle]
    BY <1>12 DEF Crash, serverVars, historyVars
  <2>2. HandlingIsJustified'
    BY <1>b, <1>c, <2>1 DEF HandlingIsJustified
  <2>3. PipelineGetsReadable' /\ VerdictsAreJustified'
    BY <1>b, <2>1 DEF PipelineGetsReadable, VerdictsAreJustified, Of
  <2>4. PICK n \in 0..Len(out[r]) : out' = [out EXCEPT ![r] = SubSeq(@, 1, n)]
    BY <1>12 DEF Crash
  <2>5. RepliesAreJustified'
    BY <1>b, <2>1, <2>4, CutReplies, RepliesLost
  <2> QED
    BY <2>2, <2>3, <2>5
<1>13. ASSUME NEW r \in Receivers, NEW m \in Messages, Deliver(r, m)
       PROVE  Goal
  <2> DEFINE c == consumer[r]
  <2>1. /\ c \in ConsumerNames
        /\ status' = [status EXCEPT ![c][m] = "pending"]
        /\ UNCHANGED <<handling, out, accepted, rejected>>
    BY <1>13 DEF Deliver, historyVars, TypeInv, ConsumingIsBound
  <2>2. HandlingIsJustified' /\ RepliesAreJustified' /\ PipelineGetsReadable'
    BY <1>b, <2>1 DEF HandlingIsJustified, RepliesAreJustified, PipelineGetsReadable
  <2>3. VerdictsAreJustified'
    BY <1>b, <1>c, <2>1 DEF VerdictsAreJustified, Of
  <2> QED
    BY <2>2, <2>3
<1>14. ASSUME NEW r \in Receivers, ServerReply(r)
       PROVE  Goal
  <2> DEFINE a == Head(out[r])
  <2>1. /\ out[r] # <<>>
        /\ status' = [status EXCEPT ![a.d.consumer][a.d.msg] = AfterReply(a.kind, @)]
        /\ out' = [out EXCEPT ![r] = Tail(@)]
        /\ UNCHANGED <<handling, accepted, rejected>>
    BY <1>14 DEF ServerReply, historyVars
  <2>2. /\ a \in Answer /\ a = out[r][1] /\ 1 \in 1..Len(out[r])
        /\ \A k \in 1..Len(Tail(out[r])) :
             \E l \in 1..Len(out[r]) : Tail(out[r])[k] = out[r][l]
    BY <1>c, <2>1, ShrinkSequence
  <2>3. HandlingIsJustified' /\ PipelineGetsReadable'
    BY <1>b, <2>1 DEF HandlingIsJustified, PipelineGetsReadable
  <2>4. RepliesAreJustified'
    <3>1. ASSUME NEW q \in Receivers, NEW k \in 1..Len(out'[q])
          PROVE  \E l \in 1..Len(out[q]) : out'[q][k] = out[q][l]
      <4>1. CASE q = r
        <5>1. out'[q] = Tail(out[q])
          BY <1>c, <2>1, <4>1
        <5> QED
          BY <2>2, <4>1, <5>1
      <4>2. CASE q # r
        <5>1. out'[q] = out[q]
          BY <1>c, <2>1, <4>2
        <5> QED
          BY <5>1
      <4> QED
        BY <4>1, <4>2
    <3> QED
      BY <1>b, <2>1, <3>1, RepliesLost
  <2>5. /\ a.kind \in {"ack", "nak", "term"}
        /\ a.kind = "ack" => a.d \in accepted
        /\ a.kind = "term" => a.d.msg \in Poison
    BY <1>b, <1>d, <2>2 DEF RepliesAreJustified, Replies
  <2>6. a.d.consumer \in ConsumerNames /\ a.d.msg \in Messages
    BY <1>d, <2>2 DEF Delivery
  <2>7. VerdictsAreJustified'
    <3> SUFFICES ASSUME NEW c \in ConsumerNames, NEW m \in Messages
                 PROVE  /\ status'[c][m] = "acked"  => Of(accepted, c, m) # {}
                        /\ status'[c][m] = "termed" => m \in Poison
      BY <2>1 DEF VerdictsAreJustified, Of
    <3>1. CASE c = a.d.consumer /\ m = a.d.msg
      <4>1. status'[c][m] = AfterReply(a.kind, status[c][m])
        BY <1>c, <2>1, <2>6, <3>1
      <4>2. a.d \in accepted => Of(accepted, c, m) # {}
        BY <3>1 DEF Of
      <4>3. CASE status[c][m] \in {"pending", "queued"}
        <5>1. AfterReply(a.kind, status[c][m]) =
                IF a.kind = "ack" THEN "acked" ELSE IF a.kind = "term" THEN "termed" ELSE "queued"
          BY <2>5, <4>3 DEF AfterReply
        <5> QED
          BY <2>5, <3>1, <4>1, <4>2, <5>1
      <4>4. CASE status[c][m] \notin {"pending", "queued"}
        BY <1>b, <4>1, <4>4 DEF AfterReply, VerdictsAreJustified
      <4> QED
        BY <4>3, <4>4
    <3>2. CASE ~ (c = a.d.consumer /\ m = a.d.msg)
      <4>1. status'[c][m] = status[c][m]
        BY <1>c, <2>1, <2>6, <3>2
      <4> QED
        BY <1>b, <4>1 DEF VerdictsAreJustified
    <3> QED
      BY <3>1, <3>2
  <2> QED
    BY <2>3, <2>4, <2>7
<1>15. ASSUME NEW r \in Receivers, Reconnect(r)
       PROVE  Goal
  <2>1. UNCHANGED <<handling, status, accepted, rejected>>
    BY <1>15 DEF Reconnect, serverVars, historyVars
  <2>2. HandlingIsJustified' /\ PipelineGetsReadable' /\ VerdictsAreJustified'
    BY <1>b, <2>1 DEF HandlingIsJustified, PipelineGetsReadable, VerdictsAreJustified, Of
  <2>3. PICK n \in 0..Len(out[r]) : out' = [out EXCEPT ![r] = SubSeq(@, n + 1, Len(@))]
    BY <1>15 DEF Reconnect
  <2>4. /\ n + 1 \in Nat \ {0} /\ Len(out[r]) \in 0..Len(out[r])
        /\ out' = [out EXCEPT ![r] = SubSeq(@, n + 1, Len(out[r]))]
    BY <1>c, <2>3
  <2>5. RepliesAreJustified'
    BY <1>b, <2>1, <2>4, CutReplies, RepliesLost
  <2> QED
    BY <2>2, <2>5
<1>16. ASSUME NEW r \in Receivers, GiveUp(r)
       PROVE  Goal
  <2>1. UNCHANGED <<handling, status, accepted, rejected>>
    BY <1>16 DEF GiveUp, serverVars, historyVars
  <2>2. HandlingIsJustified' /\ PipelineGetsReadable' /\ VerdictsAreJustified'
    BY <1>b, <2>1 DEF HandlingIsJustified, PipelineGetsReadable, VerdictsAreJustified, Of
  <2>3. out' = [out EXCEPT ![r] = <<>>]
    BY <1>16 DEF GiveUp
  <2>4. RepliesAreJustified'
    BY <1>b, <1>c, <2>1, <2>3 DEF RepliesAreJustified
  <2> QED
    BY <2>2, <2>4
<1>17. ASSUME NEW c \in ConsumerNames, NEW m \in Messages, AckWaitExpires(c, m)
       PROVE  Goal
  <2>1. /\ status' = [status EXCEPT ![c][m] = "queued"]
        /\ UNCHANGED <<handling, out, accepted, rejected>>
    BY <1>17 DEF AckWaitExpires, historyVars, receiverVars
  <2>2. HandlingIsJustified' /\ RepliesAreJustified' /\ PipelineGetsReadable'
    BY <1>b, <2>1 DEF HandlingIsJustified, RepliesAreJustified, PipelineGetsReadable
  <2>3. VerdictsAreJustified'
    BY <1>b, <1>c, <2>1 DEF VerdictsAreJustified, Of
  <2> QED
    BY <2>2, <2>3
<1>18. ASSUME NEW c \in ConsumerNames, NEW m \in Messages, Exhaust(c, m)
       PROVE  Goal
  <2>1. /\ status' = [status EXCEPT ![c][m] = "exhausted"]
        /\ UNCHANGED <<handling, out, accepted, rejected>>
    BY <1>18 DEF Exhaust, historyVars, receiverVars
  <2>2. HandlingIsJustified' /\ RepliesAreJustified' /\ PipelineGetsReadable'
    BY <1>b, <2>1 DEF HandlingIsJustified, RepliesAreJustified, PipelineGetsReadable
  <2>3. VerdictsAreJustified'
    BY <1>b, <1>c, <2>1 DEF VerdictsAreJustified, Of
  <2> QED
    BY <2>2, <2>3
<1>19. ASSUME UNCHANGED vars
       PROVE  Goal
  <2>1. UNCHANGED <<handling, out, status, accepted, rejected>>
    BY <1>19 DEF vars, historyVars, serverVars, receiverVars
  <2> QED
    BY <2>1, EvidenceFrame
<1> HIDE DEF Goal
<1>20. Goal
  BY <1>1, <1>2, <1>3, <1>4, <1>5, <1>6, <1>7, <1>8, <1>9, <1>10, <1>11, <1>12,
     <1>13, <1>14, <1>15, <1>16, <1>17, <1>18, <1>19
     DEF Next, ReceiverNext, ServerNext
<1> QED
  BY <1>a, <1>20 DEF EvidenceInv, Goal

\* The reason for every verdict is on record from the callback to the server: what
\* is about to be answered, what is on the wire and what the server concluded.
THEOREM EvidenceCorrect == Spec => []EvidenceInv
BY TypeInvariant, EvidenceInit, EvidenceStep, PTL DEF Spec

\* Whatever the interleaving of callbacks, shutdowns, crashes, lost and stale
\* replies: a message the server takes for acknowledged was accepted by the pipeline.
THEOREM AckedAfterAccept == Spec => []AckedWasAccepted
<1>1. EvidenceInv => AckedWasAccepted
  BY DEF EvidenceInv, VerdictsAreJustified, AckedWasAccepted
<1> QED
  BY <1>1, EvidenceCorrect, PTL

\* Only unreadable messages are terminated, and they never reach the pipeline.
THEOREM TerminatedIsPoison == Spec => []OnlyPoisonTerminated
<1>1. EvidenceInv => OnlyPoisonTerminated
  BY DEF EvidenceInv, VerdictsAreJustified, PipelineGetsReadable, OnlyPoisonTerminated, Of
<1> QED
  BY <1>1, EvidenceCorrect, PTL

=============================================================================
