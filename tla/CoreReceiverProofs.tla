-------------------------- MODULE CoreReceiverProofs --------------------------
(***************************************************************************)
(* Proofs about CoreReceiver, for any receivers and messages, any limit of *)
(* the client library's queue and any number of faults.                    *)
(***************************************************************************)
EXTENDS CoreReceiver, TLAPS

(***************************************************************************)
(* Queues without duplicates.                                              *)
(***************************************************************************)

Distinct(s) == \A i, j \in 1..Len(s) : s[i] = s[j] => i = j

LEMMA RangeOfSequence ==
    ASSUME NEW S, NEW s \in Seq(S)
    PROVE  Range(s) = {s[i] : i \in 1..Len(s)} /\ Range(s) \subseteq S
BY DEF Range

\* Taking the first message out.
LEMMA TakeFirst ==
    ASSUME NEW S, NEW s \in Seq(S), s # <<>>, Distinct(s)
    PROVE  /\ Head(s) \in Range(s)
           /\ Tail(s) \in Seq(S) /\ Len(Tail(s)) <= Len(s)
           /\ Range(Tail(s)) = Range(s) \ {Head(s)}
           /\ Distinct(Tail(s))
<1>1. /\ Len(s) \in Nat /\ 1 \in 1..Len(s) /\ Head(s) = s[1]
      /\ Tail(s) \in Seq(S) /\ Len(Tail(s)) = Len(s) - 1
      /\ \A k \in 1..Len(Tail(s)) : k + 1 \in 1..Len(s) /\ Tail(s)[k] = s[k + 1]
  OBVIOUS
<1>2. /\ Range(s) = {s[i] : i \in 1..Len(s)}
      /\ Range(Tail(s)) = {Tail(s)[i] : i \in 1..Len(Tail(s))}
  BY <1>1, RangeOfSequence
<1>3. ASSUME NEW e \in Range(Tail(s))
      PROVE  e \in Range(s) \ {Head(s)}
  <2>1. PICK k \in 1..Len(Tail(s)) : e = Tail(s)[k]
    BY <1>2, <1>3
  <2>2. e = s[k + 1] /\ k + 1 \in 1..Len(s) /\ k + 1 # 1
    BY <1>1, <2>1
  <2> QED
    BY <1>1, <1>2, <2>2 DEF Distinct
<1>4. ASSUME NEW e \in Range(s), e # Head(s)
      PROVE  e \in Range(Tail(s))
  <2>1. PICK k \in 1..Len(s) : e = s[k]
    BY <1>2, <1>4
  <2>2. k - 1 \in 1..Len(Tail(s)) /\ (k - 1) + 1 = k
    BY <1>1, <1>4, <2>1
  <2>3. Tail(s)[k - 1] = e
    BY <1>1, <2>1, <2>2
  <2> QED
    BY <1>2, <2>2, <2>3
<1>5. ASSUME NEW i \in 1..Len(Tail(s)), NEW j \in 1..Len(Tail(s)), Tail(s)[i] = Tail(s)[j]
      PROVE  i = j
  <2>1. i + 1 = j + 1
    BY <1>1, <1>5 DEF Distinct
  <2> QED
    BY <1>1, <2>1
<1> QED
  BY <1>1, <1>2, <1>3, <1>4, <1>5 DEF Distinct

\* Adding one that is not there.
LEMMA AddLast ==
    ASSUME NEW S, NEW s \in Seq(S), NEW e \in S, e \notin Range(s), Distinct(s)
    PROVE  /\ Append(s, e) \in Seq(S) /\ Len(Append(s, e)) = Len(s) + 1
           /\ Range(Append(s, e)) = Range(s) \cup {e}
           /\ Distinct(Append(s, e))
<1> DEFINE t == Append(s, e)
<1>1. /\ Len(s) \in Nat /\ t \in Seq(S) /\ Len(t) = Len(s) + 1
      /\ \A k \in 1..Len(s) : k \in 1..Len(t) /\ t[k] = s[k]
      /\ Len(s) + 1 \in 1..Len(t) /\ t[Len(s) + 1] = e
      /\ \A k \in 1..Len(t) : k \in 1..Len(s) \/ k = Len(s) + 1
  OBVIOUS
<1>2. /\ Range(s) = {s[i] : i \in 1..Len(s)}
      /\ Range(t) = {t[i] : i \in 1..Len(t)}
  BY <1>1, RangeOfSequence
<1> HIDE DEF t
<1>3. Range(t) \subseteq Range(s) \cup {e}
  BY <1>1, <1>2
<1>4. Range(s) \cup {e} \subseteq Range(t)
  BY <1>1, <1>2
<1>5. ASSUME NEW i \in 1..Len(t), NEW j \in 1..Len(t), t[i] = t[j]
      PROVE  i = j
  <2>1. \A k \in 1..Len(s) : s[k] # e
    BY <1>2
  <2>2. \A k, l \in 1..Len(s) : s[k] = s[l] => k = l
    BY DEF Distinct
  <2> QED
    BY <1>1, <1>5, <2>1, <2>2
<1> QED
  BY <1>1, <1>3, <1>4, <1>5 DEF Distinct, t

\* Cutting in two.
LEMMA CutInTwo ==
    ASSUME NEW S, NEW s \in Seq(S), NEW n \in 0..Len(s), Distinct(s)
    PROVE  /\ SubSeq(s, 1, n) \in Seq(S) /\ Len(SubSeq(s, 1, n)) <= Len(s)
           /\ Range(s) = Range(SubSeq(s, 1, n)) \cup Range(SubSeq(s, n + 1, Len(s)))
           /\ Range(SubSeq(s, 1, n)) \cap Range(SubSeq(s, n + 1, Len(s))) = {}
           /\ Distinct(SubSeq(s, 1, n))
<1> DEFINE a == SubSeq(s, 1, n)
           b == SubSeq(s, n + 1, Len(s))
<1>1. /\ Len(s) \in Nat /\ n \in Nat /\ n <= Len(s)
      /\ a \in Seq(S) /\ b \in Seq(S)
      /\ Len(a) = n /\ Len(b) = Len(s) - n
      /\ \A k \in 1..n : k \in 1..Len(s) /\ a[k] = s[k]
      /\ \A k \in 1..Len(b) : k + n \in 1..Len(s) /\ b[k] = s[k + n]
  <2>1. /\ Len(s) \in Nat /\ n \in Nat /\ n <= Len(s)
        /\ a \in Seq(S) /\ Len(a) = n
        /\ \A k \in 1..n : k \in 1..Len(s) /\ a[k] = s[k]
    OBVIOUS
  <2>2. b \in Seq(S) /\ Len(b) = Len(s) - n
    OBVIOUS
  <2>3. \A k \in 1..Len(b) : k + n \in 1..Len(s) /\ b[k] = s[k + n]
    OBVIOUS
  <2> QED
    BY <2>1, <2>2, <2>3
<1> HIDE DEF a, b
<1>2. /\ Range(s) = {s[i] : i \in 1..Len(s)}
      /\ Range(a) = {a[i] : i \in 1..Len(a)}
      /\ Range(b) = {b[i] : i \in 1..Len(b)}
  BY <1>1, RangeOfSequence
<1>3. Range(a) \subseteq Range(s) /\ Range(b) \subseteq Range(s)
  BY <1>1, <1>2
<1>4. ASSUME NEW e \in Range(s)
      PROVE  e \in Range(a) \cup Range(b)
  <2>1. PICK k \in 1..Len(s) : e = s[k]
    BY <1>2, <1>4
  <2>2. CASE k <= n
    BY <1>1, <1>2, <2>1, <2>2
  <2>3. CASE k > n
    <3>1. k - n \in 1..Len(b) /\ (k - n) + n = k
      BY <1>1, <2>1, <2>3
    <3>2. b[k - n] = e
      BY <1>1, <2>1, <3>1
    <3> QED
      BY <1>2, <3>1, <3>2
  <2> QED
    BY <1>1, <2>2, <2>3
<1>5. ASSUME NEW e \in Range(a), e \in Range(b)
      PROVE  FALSE
  <2>1. PICK i \in 1..n : e = s[i]
    BY <1>1, <1>2, <1>5
  <2>2. PICK k \in 1..Len(b) : e = s[k + n] /\ k + n \in 1..Len(s)
    BY <1>1, <1>2, <1>5
  <2>3. i = k + n
    BY <1>1, <2>1, <2>2 DEF Distinct
  <2> QED
    BY <1>1, <2>1, <2>2, <2>3
<1>6. Distinct(a)
  BY <1>1 DEF Distinct
<1> QED
  BY <1>1, <1>3, <1>4, <1>5, <1>6 DEF a, b

(***************************************************************************)
(* The invariant, receiver by receiver.                                    *)
(***************************************************************************)

Done(r) == {m \in Messages : outcome[r][m] # "none"}

InOnePlace(r) ==
    /\ sentTo[r] = Queued(r) \cup InHand(r) \cup Done(r) \cup lost[r]
    /\ Queued(r) \cap (InHand(r) \cup Done(r) \cup lost[r]) = {}
    /\ InHand(r) \cap (Done(r) \cup lost[r]) = {}
    /\ Done(r) \cap lost[r] = {}

ReceiverInv(r) ==
    /\ unsent \cap sentTo[r] = {}
    /\ Distinct(pending[r])
    /\ \A m \in Messages : calls[r][m] # 0 => calls[r][m] = 1 /\ m \in sentTo[r] \ Queued(r)
    /\ InOnePlace(r)

LEMMA PlacesAsSets == EachInOnePlace <=> \A r \in Receivers : InOnePlace(r)
<1> SUFFICES ASSUME NEW r \in Receivers
             PROVE  LET places == <<Queued(r), InHand(r), Done(r), lost[r]>> IN
                    (/\ sentTo[r] = UNION Range(places)
                     /\ \A i, j \in 1..4 : i # j => places[i] \cap places[j] = {})
                      <=> InOnePlace(r)
  BY DEF EachInOnePlace, Done
<1> DEFINE places == <<Queued(r), InHand(r), Done(r), lost[r]>>
<1>1. /\ places[1] = Queued(r) /\ places[2] = InHand(r)
      /\ places[3] = Done(r) /\ places[4] = lost[r]
      /\ DOMAIN places = 1..4 /\ 1..4 = {1, 2, 3, 4}
  OBVIOUS
<1> HIDE DEF places
<1>2. Range(places) = {places[1], places[2], places[3], places[4]}
  BY <1>1 DEF Range
<1>3. UNION Range(places) = Queued(r) \cup InHand(r) \cup Done(r) \cup lost[r]
  BY <1>1, <1>2
<1>4. (\A i, j \in 1..4 : i # j => places[i] \cap places[j] = {})
        <=> /\ places[1] \cap places[2] = {} /\ places[1] \cap places[3] = {}
            /\ places[1] \cap places[4] = {} /\ places[2] \cap places[3] = {}
            /\ places[2] \cap places[4] = {} /\ places[3] \cap places[4] = {}
  BY <1>1
<1>5. (\A i, j \in 1..4 : i # j => places[i] \cap places[j] = {})
        <=> /\ Queued(r) \cap (InHand(r) \cup Done(r) \cup lost[r]) = {}
            /\ InHand(r) \cap (Done(r) \cup lost[r]) = {}
            /\ Done(r) \cap lost[r] = {}
  BY <1>1, <1>4
<1> QED
  BY <1>3, <1>5 DEF InOnePlace, places

LEMMA InvByReceiver == CoreInv <=> \A r \in Receivers : ReceiverInv(r)
BY PlacesAsSets DEF CoreInv, ReceiverInv, FreshUntilSent, QueuedOnce, CalledOnce, Distinct

\* A step that changes nothing of receiver q and publishes nothing keeps its part.
LEMMA ReceiverFrame ==
    ASSUME NEW q, ReceiverInv(q), UNCHANGED unsent,
           pending'[q] = pending[q], handling'[q] = handling[q], sentTo'[q] = sentTo[q],
           lost'[q] = lost[q], calls'[q] = calls[q], outcome'[q] = outcome[q]
    PROVE  ReceiverInv(q)'
BY DEF ReceiverInv, InOnePlace, Queued, InHand, Done

(***************************************************************************)
(* Type correctness.                                                       *)
(***************************************************************************)

LEMMA FaultType == TypeOK /\ Fault => faults' \in 0..MaxFaults
BY CoreAssumption DEF TypeOK, Fault

\* What Keep does, type and contents.
LEMMA KeepType ==
    ASSUME TypeOK, NEW r \in Receivers, NEW n \in 0..Len(pending[r]), Keep(r, n)
    PROVE  /\ pending' \in [Receivers -> Seq(Messages)]
           /\ \A q \in Receivers : Len(pending'[q]) <= PendingLimit
           /\ lost' \in [Receivers -> SUBSET Messages]
<1> DEFINE s == pending[r]
<1>1. s \in Seq(Messages) /\ Len(s) \in Nat /\ Len(s) <= PendingLimit /\ PendingLimit \in Nat
  BY CoreAssumption DEF TypeOK
<1>2. /\ SubSeq(s, 1, n) \in Seq(Messages) /\ Len(SubSeq(s, 1, n)) <= PendingLimit
      /\ SubSeq(s, n + 1, Len(s)) \in Seq(Messages)
  BY <1>1
<1>3. Range(SubSeq(s, n + 1, Len(s))) \subseteq Messages
  BY <1>2, RangeOfSequence
<1>4. /\ pending' = [pending EXCEPT ![r] = SubSeq(s, 1, n)]
      /\ lost' = [lost EXCEPT ![r] = @ \cup Range(SubSeq(s, n + 1, Len(s)))]
  BY DEF Keep
<1> HIDE DEF s
<1> QED
  BY <1>2, <1>3, <1>4 DEF TypeOK

LEMMA TypeInit == Init => TypeOK
BY CoreAssumption DEF Init, TypeOK

LEMMA TypeStep == TypeOK /\ [Next]_vars => TypeOK'
<1> SUFFICES ASSUME TypeOK, [Next]_vars PROVE TypeOK'
  OBVIOUS
<1> USE FaultType
<1>0. CoreAssumption
  BY CoreAssumption
<1>1. ASSUME NEW r \in Receivers, Start(r) PROVE TypeOK'
  BY <1>1 DEF Start, TypeOK
<1>2. ASSUME NEW r \in Receivers, StartFails(r) PROVE TypeOK'
  BY <1>2 DEF StartFails, TypeOK
<1>3. ASSUME NEW r \in Receivers, Handle(r) PROVE TypeOK'
  <2>1. pending[r] \in Seq(Messages) /\ pending[r] # <<>> /\ Len(pending[r]) <= PendingLimit
    BY <1>3 DEF Handle, TypeOK
  <2>2. PICK m \in Messages : m = Head(pending[r])
    BY <2>1
  <2>3. Tail(pending[r]) \in Seq(Messages) /\ Len(Tail(pending[r])) <= PendingLimit
    BY <2>1, CoreAssumption
  <2>4. pending' = [pending EXCEPT ![r] = Tail(pending[r])]
    BY <1>3 DEF Handle
  <2>5. /\ pending' \in [Receivers -> Seq(Messages)]
        /\ \A q \in Receivers : Len(pending'[q]) <= PendingLimit
    BY <2>3, <2>4 DEF TypeOK
  <2>6. [stage |-> "consume", msg |-> m] \in Task
    BY DEF Task
  <2>7. outcome' = [outcome EXCEPT ![r][m] = "dropped"] \/ outcome' = outcome
    BY <1>3, <2>2 DEF Handle
  <2>8. \/ handling' = handling
        \/ handling' = [handling EXCEPT ![r] = [stage |-> "consume", msg |-> m]]
    BY <1>3, <2>2 DEF Handle
  <2>9. calls' = calls \/ calls' = [calls EXCEPT ![r][m] = @ + 1]
    BY <1>3, <2>2 DEF Handle
  <2>10. outcome' \in [Receivers -> [Messages -> {"none", "accepted", "rejected", "dropped"}]]
    <3>1. outcome \in [Receivers -> [Messages -> {"none", "accepted", "rejected", "dropped"}]]
      BY DEF TypeOK
    <3>2. [outcome EXCEPT ![r][m] = "dropped"] \in [Receivers -> [Messages -> {"none", "accepted", "rejected", "dropped"}]]
      BY <3>1
    <3> QED
      BY <2>7, <3>1, <3>2
  <2>11. handling' \in [Receivers -> Task \cup {Idle}]
    BY <2>6, <2>8 DEF TypeOK
  <2>12. calls' \in [Receivers -> [Messages -> Nat]]
    <3>1. calls \in [Receivers -> [Messages -> Nat]]
      BY DEF TypeOK
    <3>2. [calls EXCEPT ![r][m] = @ + 1] \in [Receivers -> [Messages -> Nat]]
      BY <3>1
    <3> QED
      BY <2>9, <3>1, <3>2
  <2> QED
    BY <1>3, <2>5, <2>10, <2>11, <2>12 DEF Handle, TypeOK
<1>4. ASSUME NEW r \in Receivers, ConsumeAccepts(r) \/ ConsumeRejects(r) PROVE TypeOK'
  <2>1. handling[r] \in Task
    BY <1>4 DEF ConsumeAccepts, ConsumeRejects, TypeOK
  <2>2. handling[r].msg \in Messages
    BY <2>1 DEF Task
  <2>3. /\ handling' = [handling EXCEPT ![r] = Idle]
        /\ \/ outcome' = [outcome EXCEPT ![r][handling[r].msg] = "accepted"]
           \/ outcome' = [outcome EXCEPT ![r][handling[r].msg] = "rejected"]
    BY <1>4 DEF ConsumeAccepts, ConsumeRejects
  <2>4. outcome' \in [Receivers -> [Messages -> {"none", "accepted", "rejected", "dropped"}]]
    <3>1. outcome \in [Receivers -> [Messages -> {"none", "accepted", "rejected", "dropped"}]]
      BY DEF TypeOK
    <3>2. PICK m \in Messages : m = handling[r].msg
      BY <2>2
    <3>3. /\ [outcome EXCEPT ![r][m] = "accepted"] \in [Receivers -> [Messages -> {"none", "accepted", "rejected", "dropped"}]]
          /\ [outcome EXCEPT ![r][m] = "rejected"] \in [Receivers -> [Messages -> {"none", "accepted", "rejected", "dropped"}]]
      BY <3>1
    <3> QED
      BY <2>3, <3>2, <3>3
  <2>5. handling' \in [Receivers -> Task \cup {Idle}]
    BY <2>3 DEF TypeOK
  <2> QED
    BY <1>4, <2>4, <2>5 DEF ConsumeAccepts, ConsumeRejects, TypeOK
<1>5. ASSUME NEW r \in Receivers, ShutdownCancel(r) PROVE TypeOK'
  BY <1>5 DEF ShutdownCancel, TypeOK
<1>6. ASSUME NEW r \in Receivers, ShutdownUnsubscribe(r) PROVE TypeOK'
  <2>1. 0 \in 0..Len(pending[r]) /\ Keep(r, 0)
    BY <1>6 DEF ShutdownUnsubscribe, TypeOK
  <2> QED
    BY <1>6, <2>1, KeepType DEF ShutdownUnsubscribe, TypeOK
<1>7. ASSUME NEW r \in Receivers, ShutdownClose(r) PROVE TypeOK'
  BY <1>7 DEF ShutdownClose, TypeOK
<1>8. ASSUME NEW m \in Messages, Publish(m) PROVE TypeOK'
  <2> DEFINE subscribed == {r \in Receivers : sub[r] = "active"}
             full == {r \in subscribed : Len(pending[r]) >= PendingLimit}
  <2>1. /\ unsent' = unsent \ {m}
        /\ sentTo' = [r \in Receivers |-> sentTo[r] \cup {x \in {m} : r \in subscribed}]
        /\ lost' = [r \in Receivers |-> lost[r] \cup {x \in {m} : r \in full}]
        /\ pending' = [r \in Receivers |->
                        IF r \in subscribed \ full THEN Append(pending[r], m) ELSE pending[r]]
        /\ UNCHANGED <<phase, conn, sub, handling, calls, outcome, faults>>
    BY <1>8 DEF Publish
  <2>2. sentTo' \in [Receivers -> SUBSET Messages] /\ lost' \in [Receivers -> SUBSET Messages]
    BY <2>1 DEF TypeOK
  <2>3. ASSUME NEW r \in Receivers
        PROVE  pending'[r] \in Seq(Messages) /\ Len(pending'[r]) <= PendingLimit
    <3>1. /\ pending[r] \in Seq(Messages) /\ Len(pending[r]) \in Nat
          /\ Len(pending[r]) <= PendingLimit /\ PendingLimit \in Nat
      BY <1>0 DEF TypeOK, CoreAssumption
    <3>2. CASE r \in subscribed \ full
      <4>1. pending'[r] = Append(pending[r], m) /\ ~ (Len(pending[r]) >= PendingLimit)
        BY <2>1, <3>2
      <4>2. Append(pending[r], m) \in Seq(Messages) /\ Len(Append(pending[r], m)) = Len(pending[r]) + 1
        BY <3>1
      <4>3. Len(pending[r]) + 1 <= PendingLimit
        BY <3>1, <4>1
      <4> QED
        BY <4>1, <4>2, <4>3
    <3>3. CASE r \notin subscribed \ full
      <4>1. pending'[r] = pending[r]
        BY <2>1, <3>3
      <4> QED
        BY <3>1, <4>1
    <3> QED
      BY <3>2, <3>3
  <2>4. pending' \in [Receivers -> Seq(Messages)]
    <3>1. DOMAIN pending' = Receivers
          /\ pending' = [r \in Receivers |-> pending'[r]]
      BY <2>1
    <3> QED
      BY <2>3, <3>1
  <2> QED
    BY <2>1, <2>2, <2>3, <2>4 DEF TypeOK
<1>9. ASSUME NEW r \in Receivers, Reconnect(r) PROVE TypeOK'
  <2>1. PICK n \in 0..Len(pending[r]) : Keep(r, n)
    BY <1>9 DEF Reconnect
  <2> QED
    BY <1>9, <2>1, KeepType DEF Reconnect, TypeOK
<1>10. ASSUME NEW r \in Receivers, GiveUp(r) PROVE TypeOK'
  <2>1. 0 \in 0..Len(pending[r]) /\ Keep(r, 0)
    BY <1>10 DEF GiveUp, TypeOK
  <2> QED
    BY <1>10, <2>1, KeepType DEF GiveUp, TypeOK
<1>11. ASSUME NEW r \in Receivers, Crash(r) PROVE TypeOK'
  <2>1. Queued(r) \subseteq Messages
    BY RangeOfSequence DEF TypeOK, Queued
  <2>2. InHand(r) \subseteq Messages
    <3>1. handling[r] \in Task \cup {Idle}
      BY DEF TypeOK
    <3>2. handling[r] # Idle => handling[r].msg \in Messages
      BY <3>1 DEF Task
    <3>3. \A x \in InHand(r) : handling[r] # Idle /\ x = handling[r].msg
      BY DEF InHand
    <3> QED
      BY <3>2, <3>3
  <2>3. lost' \in [Receivers -> SUBSET Messages]
    BY <1>11, <2>1, <2>2 DEF Crash, TypeOK
  <2>4. /\ pending' = [pending EXCEPT ![r] = <<>>]
        /\ pending' \in [Receivers -> Seq(Messages)]
        /\ \A q \in Receivers : Len(pending'[q]) <= PendingLimit
    BY <1>11, <1>0 DEF Crash, TypeOK, CoreAssumption
  <2> QED
    BY <1>11, <2>3, <2>4 DEF Crash, TypeOK
<1>12. CASE UNCHANGED vars
  BY <1>12 DEF vars, TypeOK
<1> QED
  BY <1>1, <1>2, <1>3, <1>4, <1>5, <1>6, <1>7, <1>8, <1>9, <1>10, <1>11, <1>12 DEF Next

\* The receiver without JetStream keeps its types, and the client library's queue
\* its limit, in every behaviour.
THEOREM TypeCorrect == Spec => []TypeOK
BY TypeInit, TypeStep, PTL DEF Spec

(***************************************************************************)
(* Every message in one place.                                             *)
(***************************************************************************)

LEMMA InvInit == Init => CoreInv
<1> SUFFICES ASSUME Init, NEW r \in Receivers PROVE ReceiverInv(r)
  BY InvByReceiver
<1>1. Queued(r) = {} /\ InHand(r) = {} /\ Done(r) = {} /\ lost[r] = {} /\ sentTo[r] = {}
  BY DEF Init, Queued, InHand, Done, Range
<1> QED
  BY <1>1 DEF Init, ReceiverInv, InOnePlace, Distinct

\* What is cut off the queue is lost, the rest stays queued.
LEMMA KeepStep ==
    ASSUME TypeOK, NEW r \in Receivers, ReceiverInv(r), NEW n \in 0..Len(pending[r]), Keep(r, n),
           UNCHANGED <<handling, unsent, sentTo, calls, outcome>>
    PROVE  ReceiverInv(r)'
<1> DEFINE s == pending[r]
           a == SubSeq(s, 1, n)
           b == SubSeq(s, n + 1, Len(s))
<1>1. s \in Seq(Messages) /\ Distinct(s)
  BY DEF TypeOK, ReceiverInv
<1>2. pending'[r] = a /\ lost'[r] = lost[r] \cup Range(b)
  BY DEF Keep, TypeOK
<1>3. Range(s) = Range(a) \cup Range(b) /\ Range(a) \cap Range(b) = {} /\ Distinct(a)
  BY <1>1, CutInTwo
<1>4. /\ Queued(r) = Range(s) /\ Queued(r)' = Range(a)
      /\ InHand(r)' = InHand(r) /\ Done(r)' = Done(r)
  BY <1>2 DEF Queued, InHand, Done
<1> HIDE DEF s, a, b
<1>5. InOnePlace(r)'
  BY <1>2, <1>3, <1>4 DEF ReceiverInv, InOnePlace
<1> QED
  BY <1>2, <1>3, <1>4, <1>5 DEF ReceiverInv

LEMMA HandleStep ==
    ASSUME TypeOK, NEW r \in Receivers, ReceiverInv(r), Handle(r)
    PROVE  ReceiverInv(r)'
<1> DEFINE s == pending[r]
<1>1. /\ s \in Seq(Messages) /\ s # <<>> /\ Distinct(s) /\ handling[r] = Idle
      /\ UNCHANGED <<unsent, sentTo, lost>>
      /\ pending'[r] = Tail(s)
  BY DEF Handle, TypeOK, ReceiverInv
<1>2. PICK m \in Messages : m = Head(s)
  BY <1>1
<1>3. m \in Range(s) /\ Range(Tail(s)) = Range(s) \ {m} /\ Distinct(Tail(s))
  BY <1>1, <1>2, TakeFirst
<1>4. Queued(r) = Range(s) /\ Queued(r)' = Range(s) \ {m} /\ InHand(r) = {}
  BY <1>1, <1>3 DEF Queued, InHand
<1> HIDE DEF s
<1>5. \/ UNCHANGED <<handling, calls>> /\ outcome' = [outcome EXCEPT ![r][m] = "dropped"]
      \/ /\ UNCHANGED outcome
         /\ handling' = [handling EXCEPT ![r] = [stage |-> "consume", msg |-> m]]
         /\ calls' = [calls EXCEPT ![r][m] = @ + 1]
  BY <1>2 DEF Handle, s
<1>6. CASE UNCHANGED <<handling, calls>> /\ outcome' = [outcome EXCEPT ![r][m] = "dropped"]
  <2>1. Done(r)' = Done(r) \cup {m} /\ InHand(r)' = {}
    BY <1>4, <1>6 DEF Done, InHand, TypeOK
  <2>2. InOnePlace(r)'
    BY <1>1, <1>3, <1>4, <2>1 DEF ReceiverInv, InOnePlace
  <2> QED
    BY <1>1, <1>3, <1>4, <1>6, <2>2 DEF ReceiverInv
<1>7. CASE /\ UNCHANGED outcome
           /\ handling' = [handling EXCEPT ![r] = [stage |-> "consume", msg |-> m]]
           /\ calls' = [calls EXCEPT ![r][m] = @ + 1]
  <2>1. handling'[r] = [stage |-> "consume", msg |-> m]
    BY <1>7 DEF TypeOK
  <2>2. handling'[r] # Idle /\ handling'[r].msg = m
    BY <2>1 DEF Idle
  <2>3. Done(r)' = Done(r) /\ InHand(r)' = {m}
    BY <1>7, <2>2 DEF Done, InHand
  <2>4. InOnePlace(r)'
    BY <1>1, <1>3, <1>4, <2>3 DEF ReceiverInv, InOnePlace
  <2>5. calls[r][m] = 0 /\ m \in sentTo[r]
    BY <1>3, <1>4 DEF ReceiverInv, InOnePlace
  <2>6. \A n \in Messages : calls'[r][n] = IF n = m THEN calls[r][n] + 1 ELSE calls[r][n]
    BY <1>7 DEF TypeOK
  <2>7. \A n \in Messages :
          calls'[r][n] # 0 => calls'[r][n] = 1 /\ n \in sentTo'[r] \ Queued(r)'
    BY <1>1, <1>4, <2>5, <2>6 DEF ReceiverInv
  <2> QED
    BY <1>1, <1>3, <2>4, <2>7 DEF ReceiverInv
<1> QED
  BY <1>5, <1>6, <1>7

LEMMA ConsumeStep ==
    ASSUME TypeOK, NEW r \in Receivers, ReceiverInv(r), ConsumeAccepts(r) \/ ConsumeRejects(r)
    PROVE  ReceiverInv(r)'
<1>1. /\ handling[r] # Idle /\ handling[r] \in Task
      /\ UNCHANGED <<pending, unsent, sentTo, lost, calls>>
      /\ handling'[r] = Idle
  BY DEF ConsumeAccepts, ConsumeRejects, TypeOK
<1>2. PICK m \in Messages : m = handling[r].msg
  BY <1>1 DEF Task
<1>3. PICK how \in {"accepted", "rejected"} : outcome' = [outcome EXCEPT ![r][m] = how]
  BY <1>2 DEF ConsumeAccepts, ConsumeRejects
<1>4. /\ InHand(r) = {m} /\ InHand(r)' = {}
      /\ Queued(r)' = Queued(r)
  BY <1>1, <1>2 DEF InHand, Queued
<1>5. Done(r)' = Done(r) \cup {m}
  BY <1>3 DEF Done, TypeOK
<1>6. InOnePlace(r)'
  BY <1>1, <1>4, <1>5 DEF ReceiverInv, InOnePlace
<1> QED
  BY <1>1, <1>4, <1>6 DEF ReceiverInv

LEMMA CrashStep ==
    ASSUME TypeOK, NEW r \in Receivers, ReceiverInv(r), Crash(r)
    PROVE  ReceiverInv(r)'
<1>1. /\ pending'[r] = <<>> /\ handling'[r] = Idle
      /\ lost'[r] = lost[r] \cup Queued(r) \cup InHand(r)
      /\ UNCHANGED <<unsent, sentTo, calls, outcome>>
  BY DEF Crash, TypeOK
<1>2. Queued(r)' = {} /\ InHand(r)' = {} /\ Done(r)' = Done(r)
  BY <1>1 DEF Queued, InHand, Done, Range
<1>3. InOnePlace(r)'
  BY <1>1, <1>2 DEF ReceiverInv, InOnePlace
<1> QED
  BY <1>1, <1>2, <1>3 DEF ReceiverInv, Distinct

\* A published message is new to every receiver, and goes into its queue or is lost.
LEMMA PublishStep ==
    ASSUME TypeOK, NEW m \in Messages, Publish(m), NEW r \in Receivers, ReceiverInv(r)
    PROVE  ReceiverInv(r)'
<1>1. /\ m \in unsent /\ unsent' = unsent \ {m}
      /\ UNCHANGED <<handling, calls, outcome>>
  BY DEF Publish
<1>2. \/ UNCHANGED <<pending[r], sentTo[r], lost[r]>>
      \/ /\ sentTo'[r] = sentTo[r] \cup {m} /\ lost'[r] = lost[r] \cup {m}
         /\ pending'[r] = pending[r]
      \/ /\ sentTo'[r] = sentTo[r] \cup {m} /\ lost'[r] = lost[r]
         /\ pending'[r] = Append(pending[r], m)
  <2> DEFINE subscribed == {q \in Receivers : sub[q] = "active"}
             full == {q \in subscribed : Len(pending[q]) >= PendingLimit}
  <2>1. /\ sentTo'[r] = sentTo[r] \cup {x \in {m} : r \in subscribed}
        /\ lost'[r] = lost[r] \cup {x \in {m} : r \in full}
        /\ pending'[r] = IF r \in subscribed \ full THEN Append(pending[r], m) ELSE pending[r]
    BY DEF Publish
  <2>2. full \subseteq subscribed
    OBVIOUS
  <2> HIDE DEF subscribed, full
  <2>3. CASE r \notin subscribed
    BY <2>1, <2>2, <2>3
  <2>4. CASE r \in full
    BY <2>1, <2>2, <2>4
  <2>5. CASE r \in subscribed \ full
    BY <2>1, <2>5
  <2> QED
    BY <2>3, <2>4, <2>5
<1>3. InHand(r)' = InHand(r) /\ Done(r)' = Done(r) /\ m \notin sentTo[r]
  BY <1>1 DEF InHand, Done, ReceiverInv
<1>4. CASE UNCHANGED <<pending[r], sentTo[r], lost[r]>>
  <2>1. Queued(r)' = Queued(r)
    BY <1>4 DEF Queued
  <2> QED
    BY <1>1, <1>3, <1>4, <2>1 DEF ReceiverInv, InOnePlace
<1>5. CASE /\ sentTo'[r] = sentTo[r] \cup {m} /\ lost'[r] = lost[r] \cup {m}
           /\ pending'[r] = pending[r]
  <2>1. Queued(r)' = Queued(r)
    BY <1>5 DEF Queued
  <2>2. InOnePlace(r)'
    BY <1>3, <1>5, <2>1 DEF ReceiverInv, InOnePlace
  <2> QED
    BY <1>1, <1>3, <1>5, <2>1, <2>2 DEF ReceiverInv
<1>6. CASE /\ sentTo'[r] = sentTo[r] \cup {m} /\ lost'[r] = lost[r]
           /\ pending'[r] = Append(pending[r], m)
  <2>1. pending[r] \in Seq(Messages) /\ Distinct(pending[r]) /\ m \notin Range(pending[r])
    BY <1>3 DEF TypeOK, ReceiverInv, InOnePlace, Queued
  <2>2. Queued(r)' = Queued(r) \cup {m} /\ Distinct(pending'[r])
    BY <1>6, <2>1, AddLast DEF Queued
  <2>3. InOnePlace(r)'
    BY <1>3, <1>6, <2>2 DEF ReceiverInv, InOnePlace
  <2>4. \A n \in Messages : calls[r][n] # 0 => n # m
    BY <1>3 DEF ReceiverInv
  <2> QED
    BY <1>1, <1>3, <1>6, <2>2, <2>3, <2>4 DEF ReceiverInv
<1> QED
  BY <1>2, <1>4, <1>5, <1>6

LEMMA InvStep == TypeOK /\ CoreInv /\ [Next]_vars => CoreInv'
<1> SUFFICES ASSUME TypeOK, CoreInv, [Next]_vars, NEW q \in Receivers
             PROVE  ReceiverInv(q)'
  <2>1. (CoreInv <=> \A r \in Receivers : ReceiverInv(r))'
    BY InvByReceiver, PTL
  <2> QED
    BY <2>1
<1>a. ReceiverInv(q)
  BY InvByReceiver
<1>1. CASE UNCHANGED <<pending, handling, unsent, sentTo, lost, calls, outcome>>
  BY <1>1, <1>a, ReceiverFrame
<1>2. ASSUME NEW r \in Receivers, Handle(r)
      PROVE  ReceiverInv(q)'
  <2>1. CASE q = r
    BY <1>2, <1>a, <2>1, HandleStep
  <2>2. CASE q # r
    <3>1. /\ UNCHANGED <<unsent, sentTo, lost>> /\ pending'[q] = pending[q]
          /\ handling'[q] = handling[q] /\ calls'[q] = calls[q] /\ outcome'[q] = outcome[q]
      BY <1>2, <2>2 DEF Handle, TypeOK
    <3> QED
      BY <1>a, <3>1, ReceiverFrame
  <2> QED
    BY <2>1, <2>2
<1>3. ASSUME NEW r \in Receivers, ConsumeAccepts(r) \/ ConsumeRejects(r)
      PROVE  ReceiverInv(q)'
  <2>1. CASE q = r
    BY <1>3, <1>a, <2>1, ConsumeStep
  <2>2. CASE q # r
    <3>1. /\ UNCHANGED <<pending, unsent, sentTo, lost, calls>>
          /\ handling'[q] = handling[q] /\ outcome'[q] = outcome[q]
      BY <1>3, <2>2 DEF ConsumeAccepts, ConsumeRejects, TypeOK
    <3> QED
      BY <1>a, <3>1, ReceiverFrame
  <2> QED
    BY <2>1, <2>2
<1>4. ASSUME NEW r \in Receivers, NEW n \in 0..Len(pending[r]), Keep(r, n),
             UNCHANGED <<handling, unsent, sentTo, calls, outcome>>
      PROVE  ReceiverInv(q)'
  <2>1. CASE q = r
    BY <1>4, <1>a, <2>1, KeepStep
  <2>2. CASE q # r
    <3>1. pending'[q] = pending[q] /\ lost'[q] = lost[q]
      BY <1>4, <2>2 DEF Keep, TypeOK
    <3> QED
      BY <1>4, <1>a, <3>1, ReceiverFrame
  <2> QED
    BY <2>1, <2>2
<1>5. ASSUME NEW r \in Receivers, ShutdownUnsubscribe(r) \/ Reconnect(r) \/ GiveUp(r)
      PROVE  ReceiverInv(q)'
  <2>1. 0 \in 0..Len(pending[r])
    BY DEF TypeOK
  <2>2. /\ \E n \in 0..Len(pending[r]) : Keep(r, n)
        /\ UNCHANGED <<handling, unsent, sentTo, calls, outcome>>
    BY <1>5, <2>1 DEF ShutdownUnsubscribe, Reconnect, GiveUp
  <2> QED
    BY <1>4, <2>2
<1>6. ASSUME NEW r \in Receivers, Crash(r)
      PROVE  ReceiverInv(q)'
  <2>1. CASE q = r
    BY <1>6, <1>a, <2>1, CrashStep
  <2>2. CASE q # r
    <3>1. /\ UNCHANGED <<unsent, sentTo, calls, outcome>> /\ pending'[q] = pending[q]
          /\ handling'[q] = handling[q] /\ lost'[q] = lost[q]
      BY <1>6, <2>2 DEF Crash, TypeOK
    <3> QED
      BY <1>a, <3>1, ReceiverFrame
  <2> QED
    BY <2>1, <2>2
<1>7. ASSUME NEW m \in Messages, Publish(m)
      PROVE  ReceiverInv(q)'
  BY <1>7, <1>a, PublishStep
<1> QED
  <2>1. \/ UNCHANGED <<pending, handling, unsent, sentTo, lost, calls, outcome>>
        \/ \E r \in Receivers :
             \/ Handle(r) \/ ConsumeAccepts(r) \/ ConsumeRejects(r) \/ Crash(r)
             \/ ShutdownUnsubscribe(r) \/ Reconnect(r) \/ GiveUp(r)
        \/ \E m \in Messages : Publish(m)
    BY DEF Next, vars, Start, StartFails, ShutdownCancel, ShutdownClose
  <2> QED
    BY <1>1, <1>2, <1>3, <1>5, <1>6, <1>7, <2>1

\* The invariant holds for any number of receivers, messages and faults.
THEOREM InvCorrect == Spec => []CoreInv
BY TypeCorrect, InvInit, InvStep, PTL DEF Spec

\* No receiver gives its pipeline a message twice, or one it was not sent.
THEOREM CalledAtMostOnce == Spec => []AtMostOnce
<1>1. CoreInv => AtMostOnce
  BY DEF CoreInv, CalledOnce, AtMostOnce
<1> QED
  BY <1>1, InvCorrect, PTL

\* A message sent to a receiver is queued, in hand, done with or lost, and only one
\* of these: errors and shutdowns make none disappear otherwise.
THEOREM NoneDisappears == Spec => []EachInOnePlace
<1>1. CoreInv => EachInOnePlace
  BY DEF CoreInv
<1> QED
  BY <1>1, InvCorrect, PTL

(***************************************************************************)
(* Receivers implement BestEffort.                                         *)
(***************************************************************************)

Fates == [r \in Receivers |-> Fate(r)]

LEMMA FateValues ==
    ASSUME TypeOK, NEW r \in Receivers, ReceiverInv(r), NEW m \in Messages
    PROVE  /\ m \in Queued(r) => Fate(r)[m] = "queued"
           /\ m \in InHand(r) => Fate(r)[m] = "offered"
           /\ m \notin sentTo[r] => Fate(r)[m] = "none"
BY DEF Fate, ReceiverInv, InOnePlace, Done

LEMMA SameFate ==
    ASSUME NEW q, pending'[q] = pending[q], handling'[q] = handling[q],
           lost'[q] = lost[q], outcome'[q] = outcome[q]
    PROVE  Fate(q)' = Fate(q)
BY DEF Fate, Queued, InHand

\* A step of receiver r changes its fates only.
LEMMA FatesOf ==
    ASSUME NEW r \in Receivers, \A q \in Receivers \ {r} : Fate(q)' = Fate(q)
    PROVE  Fates' = [Fates EXCEPT ![r] = Fate(r)']
BY DEF Fates

LEMMA MoveFate ==
    ASSUME NEW r \in Receivers, \A q \in Receivers \ {r} : Fate(q)' = Fate(q),
           UNCHANGED unsent, NEW m \in Messages, NEW from, NEW to,
           Fate(r)[m] = from, Fate(r)' = [Fate(r) EXCEPT ![m] = to]
    PROVE  Abstract!Move(r, m, from, to)
<1>1. Fates' = [Fates EXCEPT ![r] = Fate(r)']
  BY FatesOf
<1>2. Fates[r] = Fate(r) /\ DOMAIN Fates = Receivers
  BY DEF Fates
<1>3. Fates' = [Fates EXCEPT ![r][m] = to]
  BY <1>1, <1>2
<1> QED
  BY <1>2, <1>3 DEF Abstract!Move, Fates

\* Messages of receiver r are lost; the others stay where they are.
LEMMA LoseFates ==
    ASSUME NEW r \in Receivers, \A q \in Receivers \ {r} : Fate(q)' = Fate(q),
           UNCHANGED unsent, NEW gone \in SUBSET (Queued(r) \cup InHand(r)),
           TypeOK, ReceiverInv(r),
           Fate(r)' = [m \in Messages |-> IF m \in gone THEN "lost" ELSE Fate(r)[m]]
    PROVE  Abstract!Lose(r)
<1>1. Fates' = [Fates EXCEPT ![r] = Fate(r)']
  BY FatesOf
<1>2. Fates[r] = Fate(r)
  BY DEF Fates
<1>3. Queued(r) \cup InHand(r) \subseteq Messages
  <2>1. Queued(r) \subseteq Messages
    BY RangeOfSequence DEF TypeOK, Queued
  <2>2. InHand(r) \subseteq Messages
    <3>1. handling[r] # Idle => handling[r].msg \in Messages
      BY DEF TypeOK, Task
    <3> QED
      BY <3>1 DEF InHand
  <2> QED
    BY <2>1, <2>2
<1>4. \A m \in gone : m \in Messages /\ Fate(r)[m] \in {"queued", "offered"}
  BY <1>3, FateValues
<1>5. gone \in SUBSET {m \in Messages : Fates[r][m] \in {"queued", "offered"}}
  BY <1>2, <1>4
<1>6. Fates' = [Fates EXCEPT ![r] = [m \in Messages |->
                                       IF m \in gone THEN "lost" ELSE Fates[r][m]]]
  BY <1>1, <1>2
<1> QED
  BY <1>5, <1>6 DEF Abstract!Lose, Fates

LEMMA BestEffortInit == Init => Abstract!Init
<1> SUFFICES ASSUME Init PROVE Abstract!Init
  OBVIOUS
<1>1. ASSUME NEW r \in Receivers
      PROVE  Fate(r) = [m \in Messages |-> "none"]
  <2>1. Queued(r) = {} /\ InHand(r) = {}
    BY DEF Init, Queued, InHand, Range
  <2> QED
    BY <2>1 DEF Init, Fate
<1> QED
  BY <1>1 DEF Init, Abstract!Init

LEMMA HandleOffers ==
    ASSUME TypeOK, NEW r \in Receivers, ReceiverInv(r), Handle(r)
    PROVE  \E m \in Messages : Abstract!Offer(r, m) \/ Abstract!Drop(r, m)
<1>1. /\ pending[r] \in Seq(Messages) /\ pending[r] # <<>> /\ Distinct(pending[r])
      /\ handling[r] = Idle /\ UNCHANGED <<unsent, sentTo, lost>>
      /\ pending' = [pending EXCEPT ![r] = Tail(pending[r])]
  BY DEF Handle, TypeOK, ReceiverInv
<1>2. PICK m \in Messages : m = Head(pending[r])
  BY <1>1
<1>3. m \in Queued(r) /\ Queued(r)' = Queued(r) \ {m} /\ InHand(r) = {}
  <2>1. pending'[r] = Tail(pending[r])
    BY <1>1 DEF TypeOK
  <2>2. Head(pending[r]) \in Range(pending[r])
        /\ Range(Tail(pending[r])) = Range(pending[r]) \ {Head(pending[r])}
    BY <1>1, TakeFirst
  <2> QED
    BY <1>1, <1>2, <2>1, <2>2 DEF Queued, InHand
<1>4. /\ m \notin lost[r] /\ outcome[r][m] = "none"
      /\ Fate(r)[m] = "queued"
  BY <1>3, FateValues DEF ReceiverInv, InOnePlace, Done
<1>5. ASSUME NEW q \in Receivers \ {r} PROVE Fate(q)' = Fate(q)
  <2>1. /\ pending'[q] = pending[q] /\ handling'[q] = handling[q]
        /\ lost'[q] = lost[q] /\ outcome'[q] = outcome[q]
    BY DEF Handle, TypeOK
  <2> QED
    BY <2>1, SameFate
<1>6. CASE m \in Poison
  <2>1. handling' = handling /\ outcome' = [outcome EXCEPT ![r][m] = "dropped"]
    BY <1>2, <1>6 DEF Handle
  <2>2. InHand(r)' = {} /\ lost'[r] = lost[r]
    BY <1>1, <1>3, <2>1 DEF InHand
  <2>3. \A n \in Messages : outcome'[r][n] = IF n = m THEN "dropped" ELSE outcome[r][n]
    BY <2>1 DEF TypeOK
  <2>4. Fate(r)' = [Fate(r) EXCEPT ![m] = "dropped"]
    BY <1>3, <1>4, <2>2, <2>3 DEF Fate
  <2>5. Abstract!Move(r, m, "queued", "dropped")
    BY <1>1, <1>4, <1>5, <2>4, MoveFate
  <2> QED
    BY <1>6, <2>5 DEF Abstract!Drop
<1>7. CASE m \notin Poison
  <2>1. /\ outcome' = outcome
        /\ handling' = [handling EXCEPT ![r] = [stage |-> "consume", msg |-> m]]
    BY <1>2, <1>7 DEF Handle
  <2>2. handling'[r] = [stage |-> "consume", msg |-> m]
    BY <2>1 DEF TypeOK
  <2>3. InHand(r)' = {m} /\ lost'[r] = lost[r]
    BY <1>1, <2>2 DEF InHand, Idle
  <2>4. Fate(r)' = [Fate(r) EXCEPT ![m] = "offered"]
    BY <1>3, <2>1, <2>3 DEF Fate
  <2>5. Abstract!Move(r, m, "queued", "offered")
    BY <1>1, <1>4, <1>5, <2>4, MoveFate
  <2> QED
    BY <1>7, <2>5 DEF Abstract!Offer
<1> QED
  BY <1>6, <1>7

LEMMA ConsumeDecides ==
    ASSUME TypeOK, NEW r \in Receivers, ReceiverInv(r), ConsumeAccepts(r) \/ ConsumeRejects(r)
    PROVE  \E m \in Messages : Abstract!Decide(r, m)
<1>1. /\ handling[r] # Idle /\ handling[r] \in Task
      /\ UNCHANGED <<pending, unsent, lost>>
      /\ handling' = [handling EXCEPT ![r] = Idle]
  BY DEF ConsumeAccepts, ConsumeRejects, TypeOK
<1>2. PICK m \in Messages : m = handling[r].msg
  BY <1>1 DEF Task
<1>3. PICK how \in {"accepted", "rejected"} : outcome' = [outcome EXCEPT ![r][m] = how]
  BY <1>2 DEF ConsumeAccepts, ConsumeRejects
<1>4. InHand(r) = {m} /\ InHand(r)' = {} /\ Queued(r)' = Queued(r) /\ lost'[r] = lost[r]
  BY <1>1, <1>2 DEF InHand, Queued, TypeOK
<1>5. m \notin Queued(r) /\ m \notin lost[r] /\ Fate(r)[m] = "offered"
  BY <1>4, FateValues DEF ReceiverInv, InOnePlace
<1>6. \A n \in Messages : outcome'[r][n] = IF n = m THEN how ELSE outcome[r][n]
  BY <1>3 DEF TypeOK
<1>7. Fate(r)' = [Fate(r) EXCEPT ![m] = how]
  BY <1>4, <1>5, <1>6 DEF Fate
<1>8. ASSUME NEW q \in Receivers \ {r} PROVE Fate(q)' = Fate(q)
  <2>1. handling'[q] = handling[q] /\ outcome'[q] = outcome[q]
    BY <1>1, <1>3 DEF TypeOK
  <2> QED
    BY <1>1, <2>1, SameFate
<1>9. Abstract!Move(r, m, "offered", how)
  BY <1>1, <1>5, <1>7, <1>8, MoveFate
<1> QED
  BY <1>9 DEF Abstract!Decide

LEMMA KeepLoses ==
    ASSUME TypeOK, NEW r \in Receivers, ReceiverInv(r), NEW n \in 0..Len(pending[r]), Keep(r, n),
           UNCHANGED <<handling, unsent, outcome>>
    PROVE  Abstract!Lose(r)
<1> DEFINE s == pending[r]
           a == SubSeq(s, 1, n)
           b == SubSeq(s, n + 1, Len(s))
<1>1. s \in Seq(Messages) /\ Distinct(s)
  BY DEF TypeOK, ReceiverInv
<1>2. pending'[r] = a /\ lost'[r] = lost[r] \cup Range(b)
  BY DEF Keep, TypeOK
<1>3. Range(s) = Range(a) \cup Range(b) /\ Range(a) \cap Range(b) = {}
  BY <1>1, CutInTwo
<1>4. Queued(r) = Range(s) /\ Queued(r)' = Range(a) /\ InHand(r)' = InHand(r)
  BY <1>2 DEF Queued, InHand
<1> HIDE DEF s, a, b
<1>5. Queued(r) \cap InHand(r) = {}
  BY DEF ReceiverInv, InOnePlace
<1>6. Fate(r)' = [m \in Messages |-> IF m \in Range(b) THEN "lost" ELSE Fate(r)[m]]
  BY <1>2, <1>3, <1>4, <1>5 DEF Fate
<1>7. ASSUME NEW q \in Receivers \ {r} PROVE Fate(q)' = Fate(q)
  <2>1. pending'[q] = pending[q] /\ lost'[q] = lost[q]
    BY DEF Keep, TypeOK
  <2> QED
    BY <2>1, SameFate
<1>8. Range(b) \in SUBSET (Queued(r) \cup InHand(r))
  BY <1>3, <1>4
<1> QED
  BY <1>6, <1>7, <1>8, LoseFates

LEMMA CrashLoses ==
    ASSUME TypeOK, NEW r \in Receivers, ReceiverInv(r), Crash(r)
    PROVE  Abstract!Lose(r)
<1> DEFINE gone == Queued(r) \cup InHand(r)
<1>1. /\ pending'[r] = <<>> /\ handling'[r] = Idle
      /\ lost'[r] = lost[r] \cup gone
      /\ UNCHANGED <<unsent, outcome>>
  BY DEF Crash, TypeOK
<1>2. Queued(r)' = {} /\ InHand(r)' = {}
  BY <1>1 DEF Queued, InHand, Range
<1>3. Fate(r)' = [m \in Messages |-> IF m \in gone THEN "lost" ELSE Fate(r)[m]]
  BY <1>1, <1>2 DEF Fate
<1>4. ASSUME NEW q \in Receivers \ {r} PROVE Fate(q)' = Fate(q)
  <2>1. /\ pending'[q] = pending[q] /\ handling'[q] = handling[q]
        /\ lost'[q] = lost[q] /\ outcome'[q] = outcome[q]
    BY DEF Crash, TypeOK
  <2> QED
    BY <2>1, SameFate
<1>5. gone \in SUBSET (Queued(r) \cup InHand(r))
  OBVIOUS
<1> HIDE DEF gone
<1> QED
  BY <1>1, <1>3, <1>4, <1>5, LoseFates

\* A published message goes into the queue, is lost at once or was not for r.
LEMMA PublishFates ==
    ASSUME TypeOK, NEW m \in Messages, Publish(m), NEW r \in Receivers, ReceiverInv(r)
    PROVE  \E to \in {"none", "queued", "lost"} : Fate(r)' = [Fate(r) EXCEPT ![m] = to]
<1>1. /\ m \in unsent /\ UNCHANGED <<handling, outcome>>
      /\ \/ pending'[r] = pending[r] /\ lost'[r] = lost[r]
         \/ pending'[r] = pending[r] /\ lost'[r] = lost[r] \cup {m}
         \/ pending'[r] = Append(pending[r], m) /\ lost'[r] = lost[r]
  <2> DEFINE subscribed == {q \in Receivers : sub[q] = "active"}
             full == {q \in subscribed : Len(pending[q]) >= PendingLimit}
  <2>1. /\ lost'[r] = lost[r] \cup {x \in {m} : r \in full}
        /\ pending'[r] = IF r \in subscribed \ full THEN Append(pending[r], m) ELSE pending[r]
    BY DEF Publish
  <2>2. m \in unsent /\ UNCHANGED <<handling, outcome>>
    BY DEF Publish
  <2> HIDE DEF subscribed, full
  <2>3. CASE r \in full
    BY <2>1, <2>2, <2>3
  <2>4. CASE r \notin full
    BY <2>1, <2>2, <2>4
  <2> QED
    BY <2>3, <2>4
<1>2. /\ m \notin Queued(r) /\ m \notin InHand(r) /\ m \notin lost[r]
      /\ outcome[r][m] = "none" /\ Fate(r)[m] = "none"
  BY <1>1, FateValues DEF ReceiverInv, InOnePlace, Done
<1>3. InHand(r)' = InHand(r)
  BY <1>1 DEF InHand
<1>4. CASE pending'[r] = pending[r] /\ lost'[r] = lost[r]
  <2>1. Fate(r)' = [Fate(r) EXCEPT ![m] = "none"]
    BY <1>1, <1>2, <1>3, <1>4 DEF Fate, Queued
  <2> QED
    BY <2>1
<1>5. CASE pending'[r] = pending[r] /\ lost'[r] = lost[r] \cup {m}
  <2>1. Fate(r)' = [Fate(r) EXCEPT ![m] = "lost"]
    BY <1>1, <1>2, <1>3, <1>5 DEF Fate, Queued
  <2> QED
    BY <2>1
<1>6. CASE pending'[r] = Append(pending[r], m) /\ lost'[r] = lost[r]
  <2>1. Queued(r)' = Queued(r) \cup {m}
    BY <1>2, <1>6, AddLast DEF TypeOK, ReceiverInv, Queued
  <2>2. Fate(r)' = [Fate(r) EXCEPT ![m] = "queued"]
    BY <1>1, <1>2, <1>3, <1>6, <2>1 DEF Fate
  <2> QED
    BY <2>2
<1> QED
  BY <1>1, <1>4, <1>5, <1>6

LEMMA PublishSends ==
    ASSUME TypeOK, CoreInv, NEW m \in Messages, Publish(m)
    PROVE  Abstract!Send(m)
<1> DEFINE how == [r \in Receivers |-> CHOOSE to \in {"none", "queued", "lost"} :
                                         Fate(r)' = [Fate(r) EXCEPT ![m] = to]]
<1>1. ASSUME NEW r \in Receivers
      PROVE  how[r] \in {"none", "queued", "lost"} /\ Fate(r)' = [Fate(r) EXCEPT ![m] = how[r]]
  BY InvByReceiver, PublishFates
<1>2. how \in [Receivers -> {"none", "queued", "lost"}]
  BY <1>1
<1> HIDE DEF how
<1>3. Fates' = [r \in Receivers |-> [Fates[r] EXCEPT ![m] = how[r]]]
  BY <1>1 DEF Fates
<1>4. m \in unsent /\ unsent' = unsent \ {m}
  BY DEF Publish
<1>5. (Messages \ unsent)' = (Messages \ unsent) \cup {m}
  BY <1>4 DEF TypeOK
<1> QED
  BY <1>2, <1>3, <1>4, <1>5 DEF Abstract!Send, Fates

LEMMA BestEffortStep ==
    TypeOK /\ CoreInv /\ [Next]_vars => [Abstract!Next]_Abstract!vars
<1> SUFFICES ASSUME TypeOK, CoreInv, [Next]_vars PROVE [Abstract!Next]_Abstract!vars
  OBVIOUS
<1>a. \A r \in Receivers : ReceiverInv(r)
  BY InvByReceiver
<1>1. CASE UNCHANGED <<pending, handling, unsent, lost, outcome>>
  <2>1. \A r \in Receivers : Fate(r)' = Fate(r)
    BY <1>1, SameFate
  <2> QED
    BY <1>1, <2>1 DEF Abstract!vars
<1>2. ASSUME NEW r \in Receivers, Handle(r) PROVE Abstract!Next
  BY <1>2, <1>a, HandleOffers DEF Abstract!Next
<1>3. ASSUME NEW r \in Receivers, ConsumeAccepts(r) \/ ConsumeRejects(r) PROVE Abstract!Next
  BY <1>3, <1>a, ConsumeDecides DEF Abstract!Next
<1>4. ASSUME NEW r \in Receivers, ShutdownUnsubscribe(r) \/ Reconnect(r) \/ GiveUp(r)
      PROVE  Abstract!Next
  <2>1. 0 \in 0..Len(pending[r])
    BY DEF TypeOK
  <2>2. PICK n \in 0..Len(pending[r]) : Keep(r, n) /\ UNCHANGED <<handling, unsent, outcome>>
    BY <1>4, <2>1 DEF ShutdownUnsubscribe, Reconnect, GiveUp
  <2>3. Abstract!Lose(r)
    BY <1>a, <2>2, KeepLoses
  <2> QED
    BY <2>3 DEF Abstract!Next
<1>5. ASSUME NEW r \in Receivers, Crash(r) PROVE Abstract!Next
  BY <1>5, <1>a, CrashLoses DEF Abstract!Next
<1>6. ASSUME NEW m \in Messages, Publish(m) PROVE Abstract!Next
  BY <1>6, PublishSends DEF Abstract!Next
<1> QED
  <2>1. \/ UNCHANGED <<pending, handling, unsent, lost, outcome>>
        \/ \E r \in Receivers :
             \/ Handle(r) \/ ConsumeAccepts(r) \/ ConsumeRejects(r) \/ Crash(r)
             \/ ShutdownUnsubscribe(r) \/ Reconnect(r) \/ GiveUp(r)
        \/ \E m \in Messages : Publish(m)
    BY DEF Next, vars, Start, StartFails, ShutdownCancel, ShutdownClose
  <2> QED
    BY <1>1, <1>2, <1>3, <1>4, <1>5, <1>6, <2>1

\* Over core NATS, any number of receivers keep the promise of BestEffort: what
\* becomes of a message at a receiver is final, and the others' copies are untouched.
THEOREM CoreRefines == Spec => ImplementsBestEffort
<1>1. Spec => [](TypeOK /\ CoreInv)
  BY TypeCorrect, InvCorrect, PTL
<1> QED
  BY <1>1, BestEffortInit, BestEffortStep, PTL DEF Spec, ImplementsBestEffort, Abstract!Spec

=============================================================================
