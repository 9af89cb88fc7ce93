---------------------- MODULE NatsReceiverAccountProofs ----------------------
(***************************************************************************)
(* Proofs of what counts in NatsReceiver: every delivery is with at most   *)
(* one receiver and is decided on once, and there are no more deliveries   *)
(* of a message than its refusals and expiries, and one.  From that follow *)
(* the bounds on duplicates and on messages dropped, that progress         *)
(* survives restarts, and that receivers implement AtLeastOnce.            *)
(***************************************************************************)
EXTENDS NatsReceiverProofs, FiniteSetTheorems

(***************************************************************************)
(* Contiguous parts of sequences: what losing, handing over and answering  *)
(* leave of a buffer or of the replies on the wire.                        *)
(***************************************************************************)

PartOf(t, s) ==
    \E o \in Nat : \A k \in 1..Len(t) : k + o \in 1..Len(s) /\ t[k] = s[k + o]

LEMMA PartsOfSequence ==
    ASSUME NEW S, NEW s \in Seq(S)
    PROVE  /\ PartOf(s, s)
           /\ PartOf(<<>>, s)
           /\ s # <<>> => PartOf(Tail(s), s)
           /\ \A n \in 0..Len(s) : /\ PartOf(SubSeq(s, 1, n), s)
                                   /\ PartOf(SubSeq(s, n + 1, Len(s)), s)
<1>1. PartOf(s, s)
  <2>1. \A k \in 1..Len(s) : k + 0 \in 1..Len(s) /\ s[k] = s[k + 0]
    OBVIOUS
  <2> QED
    BY <2>1 DEF PartOf
<1>2. PartOf(<<>>, s)
  BY DEF PartOf
<1>3. ASSUME s # <<>>
      PROVE  PartOf(Tail(s), s)
  <2>1. \A k \in 1..Len(Tail(s)) : k + 1 \in 1..Len(s) /\ Tail(s)[k] = s[k + 1]
    BY <1>3
  <2> QED
    BY <2>1 DEF PartOf
<1>4. ASSUME NEW n \in 0..Len(s)
      PROVE  PartOf(SubSeq(s, 1, n), s)
  <2>1. \A k \in 1..Len(SubSeq(s, 1, n)) : k + 0 \in 1..Len(s) /\ SubSeq(s, 1, n)[k] = s[k + 0]
    OBVIOUS
  <2> QED
    BY <2>1 DEF PartOf
<1>5. ASSUME NEW n \in 0..Len(s)
      PROVE  PartOf(SubSeq(s, n + 1, Len(s)), s)
  <2>1. n \in Nat
    OBVIOUS
  <2>2. \A k \in 1..Len(SubSeq(s, n + 1, Len(s))) :
          k + n \in 1..Len(s) /\ SubSeq(s, n + 1, Len(s))[k] = s[k + n]
    OBVIOUS
  <2> QED
    BY <2>1, <2>2 DEF PartOf
<1> QED
  BY <1>1, <1>2, <1>3, <1>4, <1>5

(***************************************************************************)
(* Where deliveries are.                                                   *)
(***************************************************************************)

\* What is held has the type of a delivery.
LEMMA HeldType ==
    ASSUME TypeInv, NEW r \in Receivers
    PROVE  Held(r) \subseteq Delivery
<1>1. Buffered(r) \subseteq Delivery
  BY DEF TypeInv, TypeOK, Buffered
<1>2. InHand(r) \subseteq Delivery
  <2>1. handling[r] \in Task \cup {Idle}
    BY DEF TypeInv, TypeOK
  <2>2. handling[r] # Idle => handling[r].d \in Delivery
    BY <2>1 DEF Task
  <2>3. ASSUME NEW d \in InHand(r)
        PROVE  handling[r] # Idle /\ d = handling[r].d
    BY <2>3 DEF InHand
  <2> QED
    BY <2>2, <2>3
<1>3. Answering(r) \subseteq Delivery
  <2>1. \A i \in 1..Len(out[r]) : out[r][i] \in Answer
    BY DEF TypeInv, TypeOK
  <2>2. \A a \in Answer : a.d \in Delivery
    BY DEF Answer
  <2> QED
    BY <2>1, <2>2 DEF Answering
<1> QED
  BY <1>1, <1>2, <1>3 DEF Held

\* The receivers' queues before and after a step that only loses entries.
Losing ==
    \A q \in Receivers :
        /\ PartOf(buffer'[q], buffer[q])
        /\ PartOf(out'[q], out[q])
        /\ handling'[q] \in {handling[q], Idle}

LEMMA LosingHeld ==
    ASSUME Losing, NEW q \in Receivers
    PROVE  /\ Buffered(q)' \subseteq Buffered(q)
           /\ InHand(q)' \subseteq InHand(q)
           /\ Answering(q)' \subseteq Answering(q)
           /\ Held(q)' \subseteq Held(q)
<1>1. Buffered(q)' \subseteq Buffered(q)
  <2>1. PICK o \in Nat : \A k \in 1..Len(buffer'[q]) :
             k + o \in 1..Len(buffer[q]) /\ buffer'[q][k] = buffer[q][k + o]
    BY DEF Losing, PartOf
  <2> QED
    BY <2>1 DEF Buffered
<1>2. Answering(q)' \subseteq Answering(q)
  <2>1. PICK o \in Nat : \A k \in 1..Len(out'[q]) :
             k + o \in 1..Len(out[q]) /\ out'[q][k] = out[q][k + o]
    BY DEF Losing, PartOf
  <2> QED
    BY <2>1 DEF Answering
<1>3. InHand(q)' \subseteq InHand(q)
  BY DEF Losing, InHand
<1> QED
  BY <1>1, <1>2, <1>3 DEF Held

LEMMA LosingKeepsOneCopy ==
    ASSUME TypeInv', OneCopyEach, Losing
    PROVE  OneCopyEach'
<1>1. ASSUME NEW r \in Receivers, NEW q \in Receivers, r # q
      PROVE  (Held(r) \cap Held(q) = {})'
  BY <1>1, LosingHeld DEF OneCopyEach
<1>2. ASSUME NEW r \in Receivers
      PROVE  /\ (Buffered(r) \cap (InHand(r) \cup Answering(r)) = {})'
             /\ (InHand(r) \cap Answering(r) = {})'
  BY LosingHeld DEF OneCopyEach
<1>3. ASSUME NEW r \in Receivers, NEW i \in 1..Len(buffer'[r]), NEW j \in 1..Len(buffer'[r]),
             buffer'[r][i] = buffer'[r][j]
      PROVE  i = j
  <2>1. PICK o \in Nat : \A k \in 1..Len(buffer'[r]) :
             k + o \in 1..Len(buffer[r]) /\ buffer'[r][k] = buffer[r][k + o]
    BY DEF Losing, PartOf
  <2>2. i + o = j + o
    BY <1>3, <2>1 DEF OneCopyEach
  <2>3. Len(buffer'[r]) \in Nat
    BY DEF TypeInv, TypeOK
  <2> QED
    BY <2>1, <2>2, <2>3
<1>4. ASSUME NEW r \in Receivers, NEW i \in 1..Len(out'[r]), NEW j \in 1..Len(out'[r]),
             out'[r][i].d = out'[r][j].d
      PROVE  i = j
  <2>1. PICK o \in Nat : \A k \in 1..Len(out'[r]) :
             k + o \in 1..Len(out[r]) /\ out'[r][k] = out[r][k + o]
    BY DEF Losing, PartOf
  <2>2. \A k, l \in 1..Len(out[r]) : out[r][k].d = out[r][l].d => k = l
    BY DEF OneCopyEach
  <2>3. /\ i + o \in 1..Len(out[r]) /\ j + o \in 1..Len(out[r])
        /\ out[r][i + o].d = out[r][j + o].d
    BY <1>4, <2>1
  <2>4. i + o = j + o
    BY <2>2, <2>3
  <2>5. Len(out'[r]) \in Nat
    BY DEF TypeInv, TypeOK
  <2> QED
    BY <2>1, <2>4, <2>5
<1> QED
  BY <1>1, <1>2, <1>3, <1>4 DEF OneCopyEach

(***************************************************************************)
(* What stays when a step only loses entries and decides nothing.          *)
(***************************************************************************)

LEMMA LosingKeepsOutcomes ==
    ASSUME OneOutcomeEach, Losing, UNCHANGED <<accepted, rejected>>
    PROVE  OneOutcomeEach'
<1>1. ASSUME NEW r \in Receivers
      PROVE  (Buffered(r) \cap (accepted \cup rejected) = {})'
  BY LosingHeld DEF OneOutcomeEach
<1>2. ASSUME NEW r \in Receivers, handling'[r].stage = "consume"
      PROVE  handling'[r].d \notin accepted' \cup rejected'
  <2>1. handling'[r] = handling[r]
    BY <1>2 DEF Losing, Idle
  <2> QED
    BY <1>2, <2>1 DEF OneOutcomeEach
<1> QED
  BY <1>1, <1>2 DEF OneOutcomeEach

LEMMA LosingKeepsNumbers ==
    ASSUME NumbersAreKnown, Losing, UNCHANGED <<accepted, rejected, deliveries>>
    PROVE  NumbersAreKnown'
<1>1. (UNION {Held(r) : r \in Receivers})' \subseteq UNION {Held(r) : r \in Receivers}
  BY LosingHeld
<1> QED
  BY <1>1 DEF NumbersAreKnown

\* Refused deliveries that are not in flight stay so.
LEMMA LosingKeepsSpent ==
    ASSUME Losing, UNCHANGED rejected, NEW c, NEW m
    PROVE  Spent(c, m) \subseteq Spent(c, m)'
<1>1. ASSUME NEW d, InFlight(d)'
      PROVE  InFlight(d)
  BY <1>1, LosingHeld DEF InFlight
<1> QED
  BY <1>1 DEF Spent, Of

\* Subsets of the refused deliveries are finite, and growing ones count more.
LEMMA SpentGrows ==
    ASSUME FailuresAreCounted, IsFiniteSet(rejected'), NEW c, NEW m,
           Spent(c, m) \subseteq Spent(c, m)'
    PROVE  /\ Cardinality(Spent(c, m)) \in Nat
           /\ Cardinality(Spent(c, m)') \in Nat
           /\ Cardinality(Spent(c, m)) <= Cardinality(Spent(c, m)')
<1>1. IsFiniteSet(Spent(c, m)')
  <2>1. Spent(c, m)' \subseteq rejected'
    BY DEF Spent, Of
  <2> QED
    BY <2>1, FS_Subset
<1>2. IsFiniteSet(Spent(c, m))
  BY <1>1, FS_Subset
<1> QED
  BY <1>1, <1>2, FS_Subset, FS_CardinalityType

\* The same for all refused deliveries of a message.
LEMMA RejectedGrows ==
    ASSUME IsFiniteSet(rejected'), rejected \subseteq rejected', NEW c, NEW m
    PROVE  /\ Cardinality(Of(rejected, c, m)) \in Nat
           /\ Cardinality(Of(rejected', c, m)) \in Nat
           /\ Cardinality(Of(rejected, c, m)) <= Cardinality(Of(rejected', c, m))
           /\ IsFiniteSet(Of(rejected, c, m))
<1>1. IsFiniteSet(Of(rejected', c, m))
  <2>1. Of(rejected', c, m) \subseteq rejected'
    BY DEF Of
  <2> QED
    BY <2>1, FS_Subset
<1>2. Of(rejected, c, m) \subseteq Of(rejected', c, m)
  BY DEF Of
<1>3. IsFiniteSet(Of(rejected, c, m))
  BY <1>1, <1>2, FS_Subset
<1> QED
  BY <1>1, <1>2, <1>3, FS_Subset, FS_CardinalityType

\* Fewer deliveries are spent than were refused.
LEMMA SpentBound ==
    ASSUME IsFiniteSet(rejected), NEW c, NEW m
    PROVE  /\ Cardinality(Spent(c, m)) \in Nat
           /\ Cardinality(Of(rejected, c, m)) \in Nat
           /\ Cardinality(Spent(c, m)) <= Cardinality(Of(rejected, c, m))
<1>1. Of(rejected, c, m) \subseteq rejected /\ Spent(c, m) \subseteq Of(rejected, c, m)
  BY DEF Of, Spent
<1>2. IsFiniteSet(Of(rejected, c, m))
  BY <1>1, FS_Subset
<1> QED
  BY <1>1, <1>2, FS_Subset, FS_CardinalityType

\* The account balances after a step without a delivery if it only adds to what
\* was refused, spent or ran out, and puts back in the queue nothing that did not
\* fail, and if it drops nothing whose deliveries are not used up.
LEMMA AccountFrame ==
    ASSUME TypeInv, TypeInv', FailuresAreCounted, DropsNeedRefusalsOrExpiries,
           IsFiniteSet(accepted'), IsFiniteSet(rejected'), rejected \subseteq rejected',
           UNCHANGED deliveries,
           \A c \in ConsumerNames, m \in Messages :
               /\ Spent(c, m) \subseteq Spent(c, m)'
               /\ expired'[c][m] >= expired[c][m]
               /\ status'[c][m] = "queued" =>
                    \/ status[c][m] = "queued"
                    \/ deliveries[c][m] <= Cardinality(Spent(c, m)') + expired'[c][m]
               /\ status'[c][m] = "new" => status[c][m] = "new"
               /\ status'[c][m] = "exhausted" =>
                    \/ status[c][m] = "exhausted"
                    \/ status[c][m] = "queued" /\ CapReached(c, m)
    PROVE  FailuresAreCounted' /\ DropsNeedRefusalsOrExpiries'
<1>t. ASSUME NEW c \in ConsumerNames, NEW m \in Messages
      PROVE  /\ deliveries[c][m] \in Nat
             /\ expired[c][m] \in Nat
             /\ expired'[c][m] \in Nat
             /\ MaxDeliver \in Nat
  BY NumbersAssumption DEF TypeInv, TypeOK
<1>1. FailuresAreCounted'
  <2> SUFFICES ASSUME NEW c \in ConsumerNames, NEW m \in Messages
               PROVE  LET events == Cardinality(Spent(c, m)') + expired'[c][m] IN
                      /\ deliveries[c][m] <= events + 1
                      /\ status'[c][m] = "queued" => deliveries[c][m] <= events
                      /\ status'[c][m] = "new" => deliveries[c][m] = 0
    BY DEF FailuresAreCounted
  <2> DEFINE old == Cardinality(Spent(c, m))
             new == Cardinality(Spent(c, m)')
  <2>1. old \in Nat /\ new \in Nat /\ old <= new
    BY SpentGrows
  <2>2. /\ deliveries[c][m] <= old + expired[c][m] + 1
        /\ status[c][m] = "queued" => deliveries[c][m] <= old + expired[c][m]
        /\ status[c][m] = "new" => deliveries[c][m] = 0
    BY DEF FailuresAreCounted
  <2>3. /\ expired'[c][m] >= expired[c][m]
        /\ status'[c][m] = "queued" =>
                    \/ status[c][m] = "queued"
                    \/ deliveries[c][m] <= new + expired'[c][m]
        /\ status'[c][m] = "new" => status[c][m] = "new"
    OBVIOUS
  <2> HIDE DEF old, new
  <2>4. /\ deliveries[c][m] <= new + expired'[c][m] + 1
        /\ status[c][m] = "queued" => deliveries[c][m] <= new + expired'[c][m]
    BY <1>t, <2>1, <2>2, <2>3
  <2> QED
    BY <2>2, <2>3, <2>4 DEF new
<1>2. DropsNeedRefusalsOrExpiries'
  <2> SUFFICES ASSUME NEW c \in ConsumerNames, NEW m \in Messages,
                      status'[c][m] = "exhausted"
               PROVE  /\ MaxDeliver > 0
                      /\ Cardinality(Of(rejected', c, m)) + expired'[c][m] >= MaxDeliver
    BY DEF DropsNeedRefusalsOrExpiries, Of
  <2> DEFINE old == Cardinality(Of(rejected, c, m))
             new == Cardinality(Of(rejected', c, m))
             spent == Cardinality(Spent(c, m))
  <2>1. /\ old \in Nat /\ new \in Nat /\ old <= new
        /\ spent \in Nat /\ spent <= old
    BY RejectedGrows, SpentBound DEF FailuresAreCounted
  <2>2. MaxDeliver > 0 /\ old + expired[c][m] >= MaxDeliver
    <3>1. CASE status[c][m] = "exhausted"
      BY <3>1 DEF DropsNeedRefusalsOrExpiries
    <3>2. CASE status[c][m] = "queued" /\ CapReached(c, m)
      <4>1. deliveries[c][m] <= spent + expired[c][m]
        BY <3>2 DEF FailuresAreCounted
      <4>2. MaxDeliver > 0 /\ deliveries[c][m] >= MaxDeliver
        BY <3>2 DEF CapReached
      <4> HIDE DEF old, new, spent
      <4> QED
        BY <1>t, <2>1, <4>1, <4>2
    <3> QED
      BY <3>1, <3>2
  <2>3. expired'[c][m] >= expired[c][m]
    OBVIOUS
  <2> HIDE DEF old, new, spent
  <2>4. new + expired'[c][m] >= MaxDeliver
    BY <1>t, <2>1, <2>2, <2>3
  <2> QED
    BY <2>2, <2>4 DEF new
<1> QED
  BY <1>1, <1>2

(***************************************************************************)
(* The steps that move, add or decide.                                     *)
(***************************************************************************)

\* handle takes the first delivery out of the buffer: what r holds is the same.
LEMMA HandleMoves ==
    ASSUME TypeInv, OneCopyEach, NEW r \in Receivers, Handle(r)
    PROVE  \E d \in Buffered(r) :
             /\ d \notin InHand(r) \cup Answering(r)
             /\ InHand(r) = {}
             /\ Buffered(r)' = Buffered(r) \ {d}
             /\ InHand(r)' = {d}
             /\ handling'[r].d = d
             /\ Answering(r)' = Answering(r)
             /\ \A i, j \in 1..Len(buffer'[r]) : buffer'[r][i] = buffer'[r][j] => i = j
             /\ \A q \in Receivers \ {r} : /\ buffer'[q] = buffer[q]
                                           /\ handling'[q] = handling[q]
<1> DEFINE b == buffer[r]
<1>1. /\ b \in Seq(Delivery) /\ b # <<>> /\ handling[r] = Idle /\ out' = out
      /\ buffer' = [buffer EXCEPT ![r] = Tail(b)]
  BY DEF Handle, TypeInv, TypeOK
<1>2. PICK d \in Delivery : d = Head(b)
  BY <1>1, ShrinkSequence
<1>3. PICK st : handling' = [handling EXCEPT ![r] = [stage |-> st, d |-> d]]
  BY <1>2 DEF Handle
<1>4. /\ buffer'[r] = Tail(b)
      /\ handling'[r] = [stage |-> st, d |-> d]
      /\ \A q \in Receivers \ {r} : buffer'[q] = buffer[q] /\ handling'[q] = handling[q]
  BY <1>1, <1>3 DEF TypeInv, TypeOK
<1>5. /\ Len(b) \in Nat /\ 1 \in 1..Len(b) /\ d = b[1]
      /\ Len(Tail(b)) = Len(b) - 1
      /\ \A k \in 1..Len(Tail(b)) : k + 1 \in 1..Len(b) /\ Tail(b)[k] = b[k + 1]
  BY <1>1, <1>2
<1>6. d \in Buffered(r) /\ d \notin InHand(r) \cup Answering(r)
  BY <1>5 DEF Buffered, OneCopyEach
<1>7. InHand(r) = {} /\ InHand(r)' = {d} /\ handling'[r].d = d /\ Answering(r)' = Answering(r)
  <2>1. handling'[r] # Idle
    BY <1>4 DEF Idle
  <2> QED
    BY <1>1, <1>4, <2>1 DEF InHand, Answering
<1>8. Buffered(r)' = Buffered(r) \ {d}
  <2>1. ASSUME NEW e \in Buffered(r)'
        PROVE  e \in Buffered(r) /\ e # d
    <3>1. PICK k \in 1..Len(Tail(b)) : e = Tail(b)[k]
      BY <1>4, <2>1 DEF Buffered
    <3>2. e = b[k + 1] /\ k + 1 \in 1..Len(b) /\ k + 1 # 1
      BY <1>5, <3>1
    <3> QED
      BY <1>5, <3>2 DEF Buffered, OneCopyEach
  <2>2. ASSUME NEW e \in Buffered(r), e # d
        PROVE  e \in Buffered(r)'
    <3>1. PICK k \in 1..Len(b) : e = b[k]
      BY <2>2 DEF Buffered
    <3>2. k - 1 \in 1..Len(Tail(b)) /\ (k - 1) + 1 = k
      BY <1>5, <2>2, <3>1
    <3>3. Tail(b)[k - 1] = e
      BY <1>5, <3>1, <3>2
    <3> QED
      BY <1>4, <3>2, <3>3 DEF Buffered
  <2> QED
    BY <2>1, <2>2
<1>9. ASSUME NEW i \in 1..Len(Tail(b)), NEW j \in 1..Len(Tail(b)), Tail(b)[i] = Tail(b)[j]
      PROVE  i = j
  <2>1. i + 1 = j + 1
    BY <1>5, <1>9 DEF OneCopyEach
  <2> QED
    BY <1>5, <2>1
<1> QED
  BY <1>4, <1>6, <1>7, <1>8, <1>9

\* Ack, Nak and Term put the delivery in hand among those answered.
LEMMA ReplyMoves ==
    ASSUME TypeInv, OneCopyEach, NEW r \in Receivers, Reply(r), conn[r] = "open"
    PROVE  \E d \in InHand(r) :
             /\ d \notin Answering(r)
             /\ InHand(r) = {d}
             /\ Buffered(r)' = Buffered(r)
             /\ InHand(r)' = {}
             /\ handling'[r] = Idle
             /\ Answering(r)' = Answering(r) \cup {d}
             /\ \A i, j \in 1..Len(out'[r]) : out'[r][i].d = out'[r][j].d => i = j
             /\ \A q \in Receivers \ {r} : /\ out'[q] = out[q]
                                           /\ handling'[q] = handling[q]
<1> DEFINE o == out[r]
<1>1. PICK d : d = handling[r].d
  OBVIOUS
<1>2. PICK a : a = [kind |-> handling[r].stage, d |-> d]
  OBVIOUS
<1>3. /\ o \in Seq(Answer) /\ handling[r] # Idle /\ handling[r] \in Task
      /\ buffer' = buffer
      /\ out' = [out EXCEPT ![r] = Append(o, a)]
      /\ handling' = [handling EXCEPT ![r] = Idle]
  BY <1>1, <1>2 DEF Reply, TypeInv, TypeOK, Idle, Replies
<1>4. /\ out'[r] = Append(o, a) /\ handling'[r] = Idle
      /\ \A q \in Receivers \ {r} : out'[q] = out[q] /\ handling'[q] = handling[q]
  BY <1>3 DEF TypeInv, TypeOK
<1>5. InHand(r) = {d} /\ InHand(r)' = {} /\ Buffered(r)' = Buffered(r)
  BY <1>1, <1>3, <1>4 DEF InHand, Buffered
<1>6. d \notin Answering(r)
  BY <1>5 DEF OneCopyEach
<1>7. /\ Len(o) \in Nat /\ Len(Append(o, a)) = Len(o) + 1
      /\ \A k \in 1..Len(o) : Append(o, a)[k] = o[k]
      /\ Append(o, a)[Len(o) + 1] = a /\ a.d = d
      /\ \A k \in 1..Len(Append(o, a)) : k \in 1..Len(o) \/ k = Len(o) + 1
  BY <1>2, <1>3
<1>8. Answering(r)' = Answering(r) \cup {d}
  <2>1. ASSUME NEW e \in Answering(r)'
        PROVE  e \in Answering(r) \cup {d}
    <3>1. PICK k \in 1..Len(Append(o, a)) : e = Append(o, a)[k].d
      BY <1>4, <2>1 DEF Answering
    <3> QED
      BY <1>7, <3>1 DEF Answering
  <2>2. ASSUME NEW e \in Answering(r)
        PROVE  e \in Answering(r)'
    <3>1. PICK k \in 1..Len(o) : e = o[k].d
      BY <2>2 DEF Answering
    <3>2. k \in 1..Len(Append(o, a)) /\ e = Append(o, a)[k].d
      BY <1>7, <3>1
    <3> QED
      BY <1>4, <3>2 DEF Answering
  <2>3. d \in Answering(r)'
    <3>1. Len(o) + 1 \in 1..Len(Append(o, a))
      BY <1>7
    <3> QED
      BY <1>4, <1>7, <3>1 DEF Answering
  <2> QED
    BY <2>1, <2>2, <2>3
<1>9. ASSUME NEW i \in 1..Len(Append(o, a)), NEW j \in 1..Len(Append(o, a)),
             Append(o, a)[i].d = Append(o, a)[j].d
      PROVE  i = j
  <2>1. \A k \in 1..Len(o) : o[k].d # d
    BY <1>6 DEF Answering
  <2>2. \A k, l \in 1..Len(o) : o[k].d = o[l].d => k = l
    BY DEF OneCopyEach
  <2> QED
    BY <1>7, <1>9, <2>1, <2>2
<1> QED
  BY <1>4, <1>5, <1>6, <1>8, <1>9

\* The server sends a delivery that nobody has seen before.
LEMMA DeliverAdds ==
    ASSUME TypeInv, OneCopyEach, OneOutcomeEach, NumbersAreKnown,
           NEW r \in Receivers, NEW m \in Messages, Deliver(r, m)
    PROVE  \E d \in Delivery :
             /\ d = [consumer |-> consumer[r], msg |-> m,
                     num |-> deliveries[consumer[r]][m] + 1]
             /\ \A q \in Receivers : d \notin Held(q)
             /\ d \notin accepted \cup rejected
             /\ Buffered(r)' = Buffered(r) \cup {d}
             /\ \A i, j \in 1..Len(buffer'[r]) : buffer'[r][i] = buffer'[r][j] => i = j
             /\ \A q \in Receivers \ {r} : buffer'[q] = buffer[q]
<1> DEFINE b == buffer[r]
           c == consumer[r]
<1>1. /\ c \in ConsumerNames /\ deliveries[c][m] \in Nat /\ b \in Seq(Delivery)
  BY DEF Deliver, TypeInv, TypeOK, ConsumingIsBound
<1>2. [consumer |-> c, msg |-> m, num |-> deliveries[c][m] + 1] \in Delivery
  BY <1>1 DEF Delivery
<1>3. PICK d \in Delivery : d = [consumer |-> c, msg |-> m, num |-> deliveries[c][m] + 1]
  BY <1>2
<1>4. /\ buffer' = [buffer EXCEPT ![r] = Append(b, d)]
      /\ buffer'[r] = Append(b, d)
      /\ \A q \in Receivers \ {r} : buffer'[q] = buffer[q]
  BY <1>3 DEF Deliver, TypeInv, TypeOK
<1>5. d.num \notin 1..deliveries[d.consumer][d.msg]
  BY <1>1, <1>3
<1>6. d \notin accepted \cup rejected /\ \A q \in Receivers : d \notin Held(q)
  BY <1>5 DEF NumbersAreKnown
<1>7. /\ Len(b) \in Nat /\ Len(Append(b, d)) = Len(b) + 1
      /\ \A k \in 1..Len(b) : Append(b, d)[k] = b[k]
      /\ Append(b, d)[Len(b) + 1] = d
      /\ \A k \in 1..Len(Append(b, d)) : k \in 1..Len(b) \/ k = Len(b) + 1
  BY <1>1
<1>8. Buffered(r)' = Buffered(r) \cup {d}
  <2>1. ASSUME NEW e \in Buffered(r)'
        PROVE  e \in Buffered(r) \cup {d}
    <3>1. PICK k \in 1..Len(Append(b, d)) : e = Append(b, d)[k]
      BY <1>4, <2>1 DEF Buffered
    <3> QED
      BY <1>7, <3>1 DEF Buffered
  <2>2. ASSUME NEW e \in Buffered(r)
        PROVE  e \in Buffered(r)'
    <3>1. PICK k \in 1..Len(b) : e = b[k]
      BY <2>2 DEF Buffered
    <3>2. k \in 1..Len(Append(b, d)) /\ e = Append(b, d)[k]
      BY <1>7, <3>1
    <3> QED
      BY <1>4, <3>2 DEF Buffered
  <2>3. d \in Buffered(r)'
    <3>1. Len(b) + 1 \in 1..Len(Append(b, d))
      BY <1>7
    <3> QED
      BY <1>4, <1>7, <3>1 DEF Buffered
  <2> QED
    BY <2>1, <2>2, <2>3
<1>9. ASSUME NEW i \in 1..Len(Append(b, d)), NEW j \in 1..Len(Append(b, d)),
             Append(b, d)[i] = Append(b, d)[j]
      PROVE  i = j
  <2>1. \A k \in 1..Len(b) : b[k] # d
    BY <1>6 DEF Buffered, Held
  <2>2. \A k, l \in 1..Len(b) : b[k] = b[l] => k = l
    BY DEF OneCopyEach
  <2> QED
    BY <1>7, <1>9, <2>1, <2>2
<1> QED
  BY <1>3, <1>4, <1>6, <1>8, <1>9

\* The pipeline's answer leaves every delivery where it is.
LEMMA ConsumeMoves ==
    ASSUME TypeInv, NEW r \in Receivers, ConsumeAccepts(r) \/ ConsumeRejects(r)
    PROVE  \E d \in InHand(r) :
             /\ d = handling[r].d
             /\ handling[r].stage = "consume"
             /\ handling'[r].stage # "consume"
             /\ InHand(r) = {d} /\ InHand(r)' = {d}
             /\ \A q \in Receivers \ {r} : handling'[q] = handling[q]
             /\ UNCHANGED <<buffer, out>>
<1>1. PICK d : d = handling[r].d
  OBVIOUS
<1>2. PICK st \in Replies : handling' = [handling EXCEPT ![r] = [stage |-> st, d |-> d]]
  BY <1>1, ReplyForType DEF ConsumeAccepts, ConsumeRejects, Replies
<1>3. /\ handling'[r] = [stage |-> st, d |-> d]
      /\ \A q \in Receivers \ {r} : handling'[q] = handling[q]
  BY <1>2 DEF TypeInv, TypeOK
<1>4. handling[r].stage = "consume" /\ UNCHANGED <<buffer, out>>
  BY DEF ConsumeAccepts, ConsumeRejects
<1>5. handling[r] # Idle /\ handling'[r] # Idle /\ handling'[r].stage # "consume"
  BY <1>2, <1>3, <1>4 DEF Idle, Replies
<1>6. InHand(r) = {d} /\ InHand(r)' = {d}
  BY <1>1, <1>3, <1>5 DEF InHand
<1> QED
  BY <1>1, <1>3, <1>4, <1>5, <1>6

LEMMA UnchangedIsLosing ==
    ASSUME TypeInv, UNCHANGED <<buffer, out>>,
           \A q \in Receivers : handling'[q] \in {handling[q], Idle}
    PROVE  Losing
<1>1. \A q \in Receivers : buffer[q] \in Seq(Delivery) /\ out[q] \in Seq(Answer)
  BY DEF TypeInv, TypeOK
<1>2. \A q \in Receivers : PartOf(buffer[q], buffer[q]) /\ PartOf(out[q], out[q])
  BY <1>1, PartsOfSequence
<1> QED
  BY <1>2 DEF Losing

\* One receiver's queues are replaced by parts of them.
LEMMA CutIsLosing ==
    ASSUME TypeInv, NEW r \in Receivers,
           PartOf(buffer'[r], buffer[r]), PartOf(out'[r], out[r]),
           handling'[r] \in {handling[r], Idle},
           \A q \in Receivers \ {r} : /\ buffer'[q] = buffer[q]
                                      /\ out'[q] = out[q]
                                      /\ handling'[q] = handling[q]
    PROVE  Losing
<1>1. \A q \in Receivers : buffer[q] \in Seq(Delivery) /\ out[q] \in Seq(Answer)
  BY DEF TypeInv, TypeOK
<1>2. \A q \in Receivers : PartOf(buffer[q], buffer[q]) /\ PartOf(out[q], out[q])
  BY <1>1, PartsOfSequence
<1>3. ASSUME NEW q \in Receivers, q # r
      PROVE  /\ PartOf(buffer'[q], buffer[q])
             /\ PartOf(out'[q], out[q])
             /\ handling'[q] \in {handling[q], Idle}
  BY <1>2, <1>3
<1> QED
  BY <1>3 DEF Losing

\* The account without the part that is about durable names.
Account ==
    /\ OneCopyEach
    /\ OneOutcomeEach
    /\ NumbersAreKnown
    /\ FailuresAreCounted
    /\ DropsNeedRefusalsOrExpiries

LEMMA LosingStep ==
    ASSUME TypeInv, TypeInv', Account, Losing, UNCHANGED <<accepted, rejected, deliveries>>,
           \A c \in ConsumerNames, m \in Messages :
               /\ expired'[c][m] >= expired[c][m]
               /\ status'[c][m] = "queued" =>
                    \/ status[c][m] = "queued"
                    \/ deliveries[c][m] <= Cardinality(Spent(c, m)') + expired'[c][m]
               /\ status'[c][m] = "new" => status[c][m] = "new"
               /\ status'[c][m] = "exhausted" =>
                    \/ status[c][m] = "exhausted"
                    \/ status[c][m] = "queued" /\ CapReached(c, m)
    PROVE  Account'
<1>1. OneCopyEach' /\ OneOutcomeEach' /\ NumbersAreKnown'
  BY LosingKeepsOneCopy, LosingKeepsOutcomes, LosingKeepsNumbers DEF Account
<1>2. IsFiniteSet(accepted') /\ IsFiniteSet(rejected')
  BY DEF Account, FailuresAreCounted
<1>3. \A c \in ConsumerNames, m \in Messages : Spent(c, m) \subseteq Spent(c, m)'
  BY LosingKeepsSpent
<1>4. FailuresAreCounted' /\ DropsNeedRefusalsOrExpiries'
  BY <1>2, <1>3, AccountFrame DEF Account
<1> QED
  BY <1>1, <1>4 DEF Account

\* In particular when the server's view does not change.
LEMMA QuietStep ==
    ASSUME TypeInv, TypeInv', Account, Losing,
           UNCHANGED <<accepted, rejected, deliveries, status, expired>>
    PROVE  Account'
<1>1. \A c \in ConsumerNames, m \in Messages : expired'[c][m] >= expired[c][m]
  BY DEF TypeInv, TypeOK
<1> QED
  BY <1>1, LosingStep

\* A step that moves deliveries from place to place in one receiver, or decides
\* on the one in hand, leaves the account balanced.
LEMMA MovingKeepsAccount ==
    ASSUME TypeInv, TypeInv', Account,
           \A q \in Receivers : Held(q)' = Held(q),
           rejected \subseteq rejected', IsFiniteSet(accepted'), IsFiniteSet(rejected'),
           UNCHANGED <<status, deliveries, expired>>
    PROVE  FailuresAreCounted' /\ DropsNeedRefusalsOrExpiries'
<1>1. \A d : InFlight(d)' <=> InFlight(d)
  BY DEF InFlight
<1>2. \A c, m : Spent(c, m) \subseteq Spent(c, m)'
  BY <1>1 DEF Spent, Of
<1>3. \A c \in ConsumerNames, m \in Messages : expired'[c][m] >= expired[c][m]
  BY DEF TypeInv, TypeOK
<1> QED
  BY <1>2, <1>3, AccountFrame DEF Account

LEMMA HandleStep ==
    ASSUME TypeInv, TypeInv', Account, NEW r \in Receivers, Handle(r)
    PROVE  Account'
<1>a. OneCopyEach /\ OneOutcomeEach /\ NumbersAreKnown
  BY DEF Account
<1>1. PICK d \in Buffered(r) :
         /\ d \notin InHand(r) \cup Answering(r)
         /\ InHand(r) = {}
         /\ Buffered(r)' = Buffered(r) \ {d}
         /\ InHand(r)' = {d}
         /\ handling'[r].d = d
         /\ Answering(r)' = Answering(r)
         /\ \A i, j \in 1..Len(buffer'[r]) : buffer'[r][i] = buffer'[r][j] => i = j
         /\ \A q \in Receivers \ {r} : /\ buffer'[q] = buffer[q]
                                       /\ handling'[q] = handling[q]
  BY <1>a, HandleMoves
<1>2. UNCHANGED <<accepted, rejected, deliveries, status, expired, out>>
  BY DEF Handle, serverVars, historyVars
<1>3. \A q \in Receivers \ {r} : /\ Buffered(q)' = Buffered(q)
                                 /\ InHand(q)' = InHand(q)
                                 /\ Answering(q)' = Answering(q)
  BY <1>1, <1>2 DEF Buffered, InHand, Answering
<1>4. \A q \in Receivers : Held(q)' = Held(q)
  <2>1. Held(r)' = Held(r)
    BY <1>1 DEF Held
  <2> QED
    BY <1>3, <2>1 DEF Held
<1>5. OneCopyEach'
  <2>1. \A q, p \in Receivers : q # p => (Held(q) \cap Held(p) = {})'
    BY <1>a, <1>4 DEF OneCopyEach
  <2>2. ASSUME NEW q \in Receivers
        PROVE  /\ (Buffered(q) \cap (InHand(q) \cup Answering(q)) = {})'
               /\ (InHand(q) \cap Answering(q) = {})'
    BY <1>a, <1>1, <1>3 DEF OneCopyEach
  <2>3. ASSUME NEW q \in Receivers
        PROVE  /\ \A i, j \in 1..Len(buffer'[q]) : buffer'[q][i] = buffer'[q][j] => i = j
               /\ \A i, j \in 1..Len(out'[q]) : out'[q][i].d = out'[q][j].d => i = j
    BY <1>a, <1>1, <1>2 DEF OneCopyEach
  <2> QED
    BY <2>1, <2>2, <2>3 DEF OneCopyEach
<1>6. OneOutcomeEach'
  <2>1. \A q \in Receivers : Buffered(q)' \subseteq Buffered(q)
    BY <1>1, <1>3
  <2>2. d \notin accepted \cup rejected
    BY <1>a DEF OneOutcomeEach
  <2> QED
    BY <1>a, <1>1, <1>2, <2>1, <2>2 DEF OneOutcomeEach
<1>7. NumbersAreKnown'
  BY <1>a, <1>2, <1>4 DEF NumbersAreKnown
<1>8. FailuresAreCounted' /\ DropsNeedRefusalsOrExpiries'
  <2>1. IsFiniteSet(accepted') /\ IsFiniteSet(rejected')
    BY <1>2 DEF Account, FailuresAreCounted
  <2> QED
    BY <1>2, <1>4, <2>1, MovingKeepsAccount
<1> QED
  BY <1>5, <1>6, <1>7, <1>8 DEF Account

LEMMA ReplyStep ==
    ASSUME TypeInv, TypeInv', Account, NEW r \in Receivers, Reply(r)
    PROVE  Account'
<1>a. OneCopyEach /\ OneOutcomeEach /\ NumbersAreKnown
  BY DEF Account
<1>b. UNCHANGED <<accepted, rejected, deliveries, status, expired, buffer>>
  BY DEF Reply, serverVars, historyVars
<1>1. CASE conn[r] = "open"
  <2>1. PICK d \in InHand(r) :
           /\ d \notin Answering(r)
           /\ InHand(r) = {d}
           /\ Buffered(r)' = Buffered(r)
           /\ InHand(r)' = {}
           /\ handling'[r] = Idle
           /\ Answering(r)' = Answering(r) \cup {d}
           /\ \A i, j \in 1..Len(out'[r]) : out'[r][i].d = out'[r][j].d => i = j
           /\ \A q \in Receivers \ {r} : /\ out'[q] = out[q]
                                         /\ handling'[q] = handling[q]
    BY <1>1, <1>a, ReplyMoves
  <2>2. \A q \in Receivers \ {r} : /\ Buffered(q)' = Buffered(q)
                                   /\ InHand(q)' = InHand(q)
                                   /\ Answering(q)' = Answering(q)
    BY <1>b, <2>1 DEF Buffered, InHand, Answering
  <2>3. \A q \in Receivers : Held(q)' = Held(q)
    <3>1. Held(r)' = Held(r)
      BY <2>1 DEF Held
    <3> QED
      BY <2>2, <3>1 DEF Held
  <2>4. OneCopyEach'
    <3>1. \A q, p \in Receivers : q # p => (Held(q) \cap Held(p) = {})'
      BY <1>a, <2>3 DEF OneCopyEach
    <3>2. ASSUME NEW q \in Receivers
          PROVE  /\ (Buffered(q) \cap (InHand(q) \cup Answering(q)) = {})'
                 /\ (InHand(q) \cap Answering(q) = {})'
      BY <1>a, <2>1, <2>2 DEF OneCopyEach
    <3>3. ASSUME NEW q \in Receivers
          PROVE  /\ \A i, j \in 1..Len(buffer'[q]) : buffer'[q][i] = buffer'[q][j] => i = j
                 /\ \A i, j \in 1..Len(out'[q]) : out'[q][i].d = out'[q][j].d => i = j
      BY <1>a, <1>b, <2>1 DEF OneCopyEach
    <3> QED
      BY <3>1, <3>2, <3>3 DEF OneCopyEach
  <2>5. OneOutcomeEach'
    <3>1. \A q \in Receivers : Buffered(q)' = Buffered(q)
      BY <2>1, <2>2
    <3>2. handling'[r].stage # "consume"
      BY <2>1 DEF Idle
    <3> QED
      BY <1>a, <1>b, <2>1, <3>1, <3>2 DEF OneOutcomeEach
  <2>6. NumbersAreKnown'
    BY <1>a, <1>b, <2>3 DEF NumbersAreKnown
  <2>7. FailuresAreCounted' /\ DropsNeedRefusalsOrExpiries'
    <3>1. IsFiniteSet(accepted') /\ IsFiniteSet(rejected')
      BY <1>b DEF Account, FailuresAreCounted
    <3> QED
      BY <1>b, <2>3, <3>1, MovingKeepsAccount
  <2> QED
    BY <2>4, <2>5, <2>6, <2>7 DEF Account
<1>2. CASE conn[r] # "open"
  <2>1. out' = out /\ \A q \in Receivers : handling'[q] \in {handling[q], Idle}
    BY <1>2 DEF Reply, TypeInv, TypeOK
  <2>2. Losing
    BY <1>b, <2>1, UnchangedIsLosing
  <2> QED
    BY <1>b, <2>2, QuietStep
<1> QED
  BY <1>1, <1>2

\* Accepting or refusing decides on the one delivery in hand, on which nobody has
\* decided yet.
LEMMA ConsumeStep ==
    ASSUME TypeInv, TypeInv', Account, NEW r \in Receivers,
           ConsumeAccepts(r) \/ ConsumeRejects(r)
    PROVE  Account'
<1>a. OneCopyEach /\ OneOutcomeEach /\ NumbersAreKnown
  BY DEF Account
<1>1. PICK d \in InHand(r) :
         /\ d = handling[r].d
         /\ handling[r].stage = "consume"
         /\ handling'[r].stage # "consume"
         /\ InHand(r) = {d} /\ InHand(r)' = {d}
         /\ \A q \in Receivers \ {r} : handling'[q] = handling[q]
         /\ UNCHANGED <<buffer, out>>
  BY ConsumeMoves
<1>2. /\ UNCHANGED <<deliveries, status, expired>>
      /\ \/ accepted' = accepted \cup {d} /\ rejected' = rejected
         \/ accepted' = accepted /\ rejected' = rejected \cup {d}
  BY <1>1 DEF ConsumeAccepts, ConsumeRejects, serverVars
<1>3. \A q \in Receivers : /\ Buffered(q)' = Buffered(q)
                           /\ InHand(q)' = InHand(q)
                           /\ Answering(q)' = Answering(q)
  BY <1>1 DEF Buffered, InHand, Answering
<1>4. \A q \in Receivers : Held(q)' = Held(q)
  BY <1>3 DEF Held
<1>5. OneCopyEach'
  <2>1. \A q, p \in Receivers : q # p => (Held(q) \cap Held(p) = {})'
    BY <1>a, <1>4 DEF OneCopyEach
  <2>2. ASSUME NEW q \in Receivers
        PROVE  /\ (Buffered(q) \cap (InHand(q) \cup Answering(q)) = {})'
               /\ (InHand(q) \cap Answering(q) = {})'
    BY <1>a, <1>3 DEF OneCopyEach
  <2>3. ASSUME NEW q \in Receivers
        PROVE  /\ \A i, j \in 1..Len(buffer'[q]) : buffer'[q][i] = buffer'[q][j] => i = j
               /\ \A i, j \in 1..Len(out'[q]) : out'[q][i].d = out'[q][j].d => i = j
    BY <1>a, <1>1 DEF OneCopyEach
  <2> QED
    BY <2>1, <2>2, <2>3 DEF OneCopyEach
<1>6. OneOutcomeEach'
  <2>1. d \notin accepted \cup rejected
    BY <1>a, <1>1 DEF OneOutcomeEach
  <2>2. ASSUME NEW q \in Receivers
        PROVE  d \notin Buffered(q)
    <3>1. CASE q = r
      BY <1>a, <3>1 DEF OneCopyEach
    <3>2. CASE q # r
      BY <1>a, <3>2 DEF OneCopyEach, Held
    <3> QED
      BY <3>1, <3>2
  <2>3. ASSUME NEW q \in Receivers, handling'[q].stage = "consume"
        PROVE  /\ handling'[q] = handling[q]
               /\ handling[q].d # d
    <3>1. q # r /\ handling'[q] = handling[q]
      BY <1>1, <2>3
    <3>2. handling[q].d \in InHand(q)
      BY <2>3, <3>1 DEF InHand, Idle
    <3> QED
      BY <1>a, <3>1, <3>2 DEF OneCopyEach, Held
  <2>4. accepted' \cap rejected' = {}
    BY <1>a, <1>2, <2>1 DEF OneOutcomeEach
  <2>5. accepted' \cup rejected' = (accepted \cup rejected) \cup {d}
    BY <1>2
  <2>6. ASSUME NEW q \in Receivers
        PROVE  Buffered(q)' \cap (accepted' \cup rejected') = {}
    BY <1>a, <1>3, <2>2, <2>5 DEF OneOutcomeEach
  <2>7. ASSUME NEW q \in Receivers, handling'[q].stage = "consume"
        PROVE  handling'[q].d \notin accepted' \cup rejected'
    BY <1>a, <2>3, <2>5, <2>7 DEF OneOutcomeEach
  <2> QED
    BY <2>4, <2>6, <2>7 DEF OneOutcomeEach
<1>7. NumbersAreKnown'
  <2>1. d \in UNION {Held(q) : q \in Receivers}
    BY DEF Held
  <2> QED
    BY <1>a, <1>2, <1>4, <2>1 DEF NumbersAreKnown
<1>8. FailuresAreCounted' /\ DropsNeedRefusalsOrExpiries'
  <2>1. IsFiniteSet(accepted') /\ IsFiniteSet(rejected')
    BY <1>2, FS_AddElement DEF Account, FailuresAreCounted
  <2>2. rejected \subseteq rejected'
    BY <1>2
  <2> QED
    BY <1>2, <1>4, <2>1, <2>2, MovingKeepsAccount
<1> QED
  BY <1>5, <1>6, <1>7, <1>8 DEF Account

\* A new delivery is one more than refusals and expiries, and none is made while the
\* last one is still pending.
LEMMA DeliverStep ==
    ASSUME TypeInv, TypeInv', Account,
           NEW r \in Receivers, NEW m \in Messages, Deliver(r, m)
    PROVE  Account'
<1>a. OneCopyEach /\ OneOutcomeEach /\ NumbersAreKnown
  BY DEF Account
<1>1. PICK d \in Delivery :
         /\ d = [consumer |-> consumer[r], msg |-> m,
                 num |-> deliveries[consumer[r]][m] + 1]
         /\ \A q \in Receivers : d \notin Held(q)
         /\ d \notin accepted \cup rejected
         /\ Buffered(r)' = Buffered(r) \cup {d}
         /\ \A i, j \in 1..Len(buffer'[r]) : buffer'[r][i] = buffer'[r][j] => i = j
         /\ \A q \in Receivers \ {r} : buffer'[q] = buffer[q]
  BY <1>a, DeliverAdds
<1>2. PICK c \in ConsumerNames : c = consumer[r]
  BY DEF Deliver, TypeInv, ConsumingIsBound
<1>3. /\ UNCHANGED <<handling, out, accepted, rejected, expired>>
      /\ status[c][m] \in {"new", "queued"}
      /\ status' = [status EXCEPT ![c][m] = "pending"]
      /\ deliveries' = [deliveries EXCEPT ![c][m] = @ + 1]
  BY <1>2 DEF Deliver, historyVars
<1>4. /\ \A q \in Receivers \ {r} : Buffered(q)' = Buffered(q)
      /\ \A q \in Receivers : InHand(q)' = InHand(q) /\ Answering(q)' = Answering(q)
  BY <1>1, <1>3 DEF Buffered, InHand, Answering
<1>5. /\ Held(r)' = Held(r) \cup {d}
      /\ \A q \in Receivers \ {r} : Held(q)' = Held(q)
  BY <1>1, <1>4 DEF Held
<1>6. OneCopyEach'
  <2>1. ASSUME NEW q \in Receivers, NEW p \in Receivers, q # p
        PROVE  Held(q)' \cap Held(p)' = {}
    <3>1. Held(q) \cap Held(p) = {} /\ d \notin Held(q) \cup Held(p)
      BY <1>a, <1>1, <2>1 DEF OneCopyEach
    <3>2. \/ Held(q)' = Held(q) /\ Held(p)' = Held(p)
          \/ Held(q)' = Held(q) \cup {d} /\ Held(p)' = Held(p)
          \/ Held(q)' = Held(q) /\ Held(p)' = Held(p) \cup {d}
      BY <1>5, <2>1
    <3> QED
      BY <3>1, <3>2
  <2>2. ASSUME NEW q \in Receivers
        PROVE  /\ (Buffered(q) \cap (InHand(q) \cup Answering(q)) = {})'
               /\ (InHand(q) \cap Answering(q) = {})'
    <3>1. d \notin InHand(q) \cup Answering(q)
      BY <1>1 DEF Held
    <3>2. Buffered(q)' \subseteq Buffered(q) \cup {d}
      BY <1>1, <1>4
    <3> QED
      BY <1>a, <1>4, <3>1, <3>2 DEF OneCopyEach
  <2>3. ASSUME NEW q \in Receivers
        PROVE  /\ \A i, j \in 1..Len(buffer'[q]) : buffer'[q][i] = buffer'[q][j] => i = j
               /\ \A i, j \in 1..Len(out'[q]) : out'[q][i].d = out'[q][j].d => i = j
    BY <1>a, <1>1, <1>3 DEF OneCopyEach
  <2> QED
    BY <2>1, <2>2, <2>3 DEF OneCopyEach
<1>7. OneOutcomeEach'
  <2>1. ASSUME NEW q \in Receivers
        PROVE  Buffered(q)' \subseteq Buffered(q) \cup {d}
    BY <1>1, <1>4
  <2> QED
    BY <1>a, <1>1, <1>3, <2>1 DEF OneOutcomeEach
<1>t. /\ \A k \in ConsumerNames, n \in Messages :
           /\ deliveries[k][n] \in Nat
           /\ deliveries'[k][n] \in Nat
           /\ deliveries'[k][n] =
                IF k = c /\ n = m THEN deliveries[k][n] + 1 ELSE deliveries[k][n]
           /\ status'[k][n] = IF k = c /\ n = m THEN "pending" ELSE status[k][n]
           /\ expired[k][n] \in Nat
  BY <1>3 DEF TypeInv, TypeOK
<1>8. NumbersAreKnown'
  <2> SUFFICES ASSUME NEW e, e \in accepted \cup rejected \cup UNION {Held(q)' : q \in Receivers}
               PROVE  e.num \in 1..deliveries'[e.consumer][e.msg]
    BY <1>3 DEF NumbersAreKnown
  <2>1. CASE e = d
    BY <1>1, <1>2, <1>t, <2>1
  <2>2. CASE e # d
    <3>1. e \in accepted \cup rejected \cup UNION {Held(q) : q \in Receivers}
      BY <1>5, <2>2
    <3>2. e \in Delivery
      <4>1. accepted \subseteq Delivery /\ rejected \subseteq Delivery
        BY DEF TypeInv, TypeOK
      <4> QED
        BY <3>1, <4>1, HeldType
    <3>3. e.num \in 1..deliveries[e.consumer][e.msg]
      BY <1>a, <3>1 DEF NumbersAreKnown
    <3>4. e.consumer \in ConsumerNames /\ e.msg \in Messages
      BY <3>2 DEF Delivery
    <3> QED
      BY <1>t, <3>3, <3>4
  <2> QED
    BY <2>1, <2>2
<1>9. \A k, n : Spent(k, n)' = Spent(k, n)
  <2>1. ASSUME NEW e \in rejected
        PROVE  InFlight(e)' <=> InFlight(e)
    BY <1>1, <1>5 DEF InFlight
  <2> QED
    BY <1>3, <2>1 DEF Spent, Of
<1>10. FailuresAreCounted'
  <2>1. IsFiniteSet(accepted') /\ IsFiniteSet(rejected')
    BY <1>3 DEF Account, FailuresAreCounted
  <2>2. ASSUME NEW k \in ConsumerNames, NEW n \in Messages
        PROVE  LET events == Cardinality(Spent(k, n)') + expired'[k][n] IN
               /\ deliveries'[k][n] <= events + 1
               /\ status'[k][n] = "queued" => deliveries'[k][n] <= events
               /\ status'[k][n] = "new" => deliveries'[k][n] = 0
    <3> DEFINE spent == Cardinality(Spent(k, n))
    <3>1. spent \in Nat
      BY SpentBound DEF Account, FailuresAreCounted
    <3>2. /\ deliveries[k][n] <= spent + expired[k][n] + 1
          /\ status[k][n] = "queued" => deliveries[k][n] <= spent + expired[k][n]
          /\ status[k][n] = "new" => deliveries[k][n] = 0
      BY DEF Account, FailuresAreCounted
    <3>3. Cardinality(Spent(k, n)') = spent /\ expired'[k][n] = expired[k][n]
      BY <1>3, <1>9
    <3> HIDE DEF spent
    <3>4. CASE k = c /\ n = m
      <4>1. deliveries[k][n] <= spent + expired[k][n]
        BY <1>3, <1>t, <3>1, <3>2, <3>4
      <4> QED
        BY <1>t, <3>1, <3>3, <3>4, <4>1
    <3>5. CASE ~ (k = c /\ n = m)
      BY <1>t, <3>1, <3>2, <3>3, <3>5
    <3> QED
      BY <3>4, <3>5
  <2> QED
    BY <2>1, <2>2 DEF FailuresAreCounted
<1>11. DropsNeedRefusalsOrExpiries'
  <2>1. \A k \in ConsumerNames, n \in Messages :
          status'[k][n] = "exhausted" => status[k][n] = "exhausted"
    BY <1>t
  <2> QED
    BY <1>3, <2>1 DEF Account, DropsNeedRefusalsOrExpiries, Of
<1> QED
  BY <1>6, <1>7, <1>8, <1>10, <1>11 DEF Account

\* A Nak that makes a message due again is that of a refused delivery, which from
\* now on counts as spent.
LEMMA ServerReplyStep ==
    ASSUME TypeInv, TypeInv', RepliesAreJustified, Account,
           NEW r \in Receivers, ServerReply(r)
    PROVE  Account'
<1> DEFINE o == out[r]
<1>1. o \in Seq(Answer) /\ o # <<>>
  BY DEF ServerReply, TypeInv, TypeOK
<1>2. PICK a \in Answer : a = Head(o)
  BY <1>1, ShrinkSequence
<1>3. PICK d \in Delivery : d = a.d
  BY DEF Answer
<1>4. /\ d.consumer \in ConsumerNames /\ d.msg \in Messages
      /\ a.kind \in {"ack", "nak", "term"}
  BY DEF Delivery, Answer, Replies
<1>5. /\ status' = [status EXCEPT ![d.consumer][d.msg] = AfterReply(a.kind, @)]
      /\ out' = [out EXCEPT ![r] = Tail(o)]
      /\ UNCHANGED <<buffer, handling, accepted, rejected, deliveries, expired>>
  BY <1>2, <1>3 DEF ServerReply, historyVars
<1>6. /\ out'[r] = Tail(o)
      /\ \A q \in Receivers \ {r} : out'[q] = out[q]
      /\ \A c \in ConsumerNames, m \in Messages :
           status'[c][m] = IF c = d.consumer /\ m = d.msg THEN AfterReply(a.kind, status[c][m])
                                                          ELSE status[c][m]
  BY <1>4, <1>5 DEF TypeInv, TypeOK
<1>7. Losing
  <2>1. PartOf(out'[r], out[r])
    BY <1>1, <1>6, PartsOfSequence
  <2>2. buffer[r] \in Seq(Delivery)
    BY DEF TypeInv, TypeOK
  <2>3. PartOf(buffer'[r], buffer[r])
    BY <1>5, <2>2, PartsOfSequence
  <2> QED
    BY <1>5, <1>6, <2>1, <2>3, CutIsLosing
<1>8. \A c \in ConsumerNames, m \in Messages :
        /\ status'[c][m] = "new" => status[c][m] = "new"
        /\ status'[c][m] = "exhausted" => status[c][m] = "exhausted"
        /\ status'[c][m] = "queued" =>
             \/ status[c][m] = "queued"
             \/ a.kind = "nak" /\ c = d.consumer /\ m = d.msg
  <2>1. ASSUME NEW st
        PROVE  \/ AfterReply(a.kind, st) = st
               \/ AfterReply(a.kind, st) \in {"acked", "termed"}
               \/ AfterReply(a.kind, st) = "queued" /\ a.kind = "nak"
    BY <1>4 DEF AfterReply
  <2> QED
    BY <1>6, <2>1
<1>9. ~ InFlight(d)' /\ InFlight(d)
  <2>1. /\ Len(o) \in Nat /\ 1 \in 1..Len(o) /\ a = o[1]
        /\ \A k \in 1..Len(Tail(o)) : k + 1 \in 1..Len(o) /\ Tail(o)[k] = o[k + 1] /\ k + 1 # 1
    BY <1>1, <1>2
  <2>2. d \in Answering(r)
    BY <1>3, <2>1 DEF Answering
  <2>3. d \notin Answering(r)'
    <3>1. ASSUME NEW k \in 1..Len(Tail(o))
          PROVE  Tail(o)[k].d # d
      BY <1>3, <2>1 DEF Account, OneCopyEach
    <3> QED
      BY <1>6, <3>1 DEF Answering
  <2>4. d \notin Buffered(r) \cup InHand(r)
    BY <2>2 DEF Account, OneCopyEach
  <2>5. d \notin Held(r)'
    BY <1>7, <2>3, <2>4, LosingHeld DEF Held
  <2>6. \A q \in Receivers \ {r} : d \notin Held(q)
    BY <2>2 DEF Account, OneCopyEach, Held
  <2>7. \A q \in Receivers \ {r} : d \notin Held(q)'
    BY <1>7, <2>6, LosingHeld
  <2> QED
    BY <2>2, <2>5, <2>7 DEF InFlight, Held
<1>10. ASSUME NEW c \in ConsumerNames, NEW m \in Messages,
              a.kind = "nak", c = d.consumer, m = d.msg
       PROVE  deliveries[c][m] <= Cardinality(Spent(c, m)') + expired'[c][m]
  <2>1. d \in rejected
    <3>1. 1 \in 1..Len(o) /\ a = o[1]
      BY <1>1, <1>2
    <3> QED
      BY <1>3, <1>10, <3>1 DEF RepliesAreJustified
  <2>2. d \in Spent(c, m)' /\ d \notin Spent(c, m)
    BY <1>5, <1>9, <1>10, <2>1 DEF Spent, Of
  <2>3. Spent(c, m) \subseteq Spent(c, m)'
    BY <1>5, <1>7, LosingKeepsSpent
  <2>4. IsFiniteSet(Spent(c, m)') /\ IsFiniteSet(Spent(c, m))
    <3>1. Spent(c, m)' \subseteq rejected /\ Spent(c, m) \subseteq rejected /\ IsFiniteSet(rejected)
      BY <1>5 DEF Spent, Of, Account, FailuresAreCounted
    <3> QED
      BY <3>1, FS_Subset
  <2>5. Spent(c, m) \cup {d} \subseteq Spent(c, m)'
    BY <2>2, <2>3
  <2> DEFINE old == Cardinality(Spent(c, m))
             new == Cardinality(Spent(c, m)')
  <2>6. /\ old \in Nat /\ new \in Nat
        /\ Cardinality(Spent(c, m) \cup {d}) = old + 1
        /\ Cardinality(Spent(c, m) \cup {d}) <= new
    BY <2>2, <2>4, <2>5, FS_AddElement, FS_Subset, FS_CardinalityType
  <2>7. deliveries[c][m] <= old + expired[c][m] + 1 /\ expired'[c][m] = expired[c][m]
    BY <1>5 DEF Account, FailuresAreCounted
  <2>8. deliveries[c][m] \in Nat /\ expired[c][m] \in Nat
    BY DEF TypeInv, TypeOK
  <2> HIDE DEF old, new
  <2>9. deliveries[c][m] <= new + expired'[c][m]
    BY <2>6, <2>7, <2>8
  <2> QED
    BY <2>9 DEF new
<1>11. \A c \in ConsumerNames, m \in Messages : expired'[c][m] >= expired[c][m]
  BY <1>5 DEF TypeInv, TypeOK
<1> HIDE DEF o
<1> QED
  BY <1>5, <1>7, <1>8, <1>10, <1>11, LosingStep

(***************************************************************************)
(* The account is an invariant.                                            *)
(***************************************************************************)

LEMMA AccountInit == Init => Account
<1> SUFFICES ASSUME Init PROVE Account
  OBVIOUS
<1>1. \A r \in Receivers : Buffered(r) = {} /\ InHand(r) = {} /\ Answering(r) = {}
  BY DEF Init, Buffered, InHand, Answering
<1>2. \A r \in Receivers : Held(r) = {}
  BY <1>1 DEF Held
<1>3. OneCopyEach
  BY <1>1, <1>2 DEF Init, OneCopyEach
<1>4. OneOutcomeEach
  BY <1>1 DEF Init, OneOutcomeEach, Idle
<1>5. NumbersAreKnown
  BY <1>2 DEF Init, NumbersAreKnown
<1>6. FailuresAreCounted
  <2>1. IsFiniteSet(accepted) /\ IsFiniteSet(rejected)
    BY FS_EmptySet DEF Init
  <2>2. ASSUME NEW c \in ConsumerNames, NEW m \in Messages
        PROVE  /\ Cardinality(Spent(c, m)) \in Nat
               /\ expired[c][m] = 0 /\ deliveries[c][m] = 0
    BY <2>1, SpentBound DEF Init
  <2> QED
    BY <2>1, <2>2 DEF FailuresAreCounted
<1>7. DropsNeedRefusalsOrExpiries
  BY DEF Init, DropsNeedRefusalsOrExpiries
<1> QED
  BY <1>3, <1>4, <1>5, <1>6, <1>7 DEF Account

LEMMA AccountStep == TypeInv /\ EvidenceInv /\ Account /\ [Next]_vars => Account'
<1> SUFFICES ASSUME TypeInv, EvidenceInv, Account, [Next]_vars PROVE Account'
  OBVIOUS
<1>a. TypeInv'
  BY TypeStep
<1>b. \A q \in Receivers : buffer[q] \in Seq(Delivery) /\ out[q] \in Seq(Answer)
  BY DEF TypeInv, TypeOK
<1>c. /\ buffer \in [Receivers -> Seq(Delivery)]
      /\ out \in [Receivers -> Seq(Answer)]
      /\ handling \in [Receivers -> Task \cup {Idle}]
      /\ status \in [ConsumerNames -> [Messages -> Settled \cup {"new", "pending", "queued"}]]
      /\ expired \in [ConsumerNames -> [Messages -> Nat]]
  BY DEF TypeInv, TypeOK
<1>q. ASSUME UNCHANGED <<buffer, handling, out, accepted, rejected, deliveries, status, expired>>
      PROVE  Account'
  <2>1. Losing
    BY <1>q, UnchangedIsLosing
  <2> QED
    BY <1>a, <1>q, <2>1, QuietStep
<1>l. ASSUME NEW r \in Receivers,
             PartOf(buffer'[r], buffer[r]), PartOf(out'[r], out[r]),
             handling'[r] \in {handling[r], Idle},
             \A q \in Receivers \ {r} : /\ buffer'[q] = buffer[q]
                                        /\ out'[q] = out[q]
                                        /\ handling'[q] = handling[q],
             UNCHANGED <<accepted, rejected, deliveries, status, expired>>
      PROVE  Account'
  <2>1. Losing
    BY <1>l, CutIsLosing
  <2> QED
    BY <1>a, <1>l, <2>1, QuietStep
<1>1. ASSUME NEW r \in Receivers, Start(r)
      PROVE  Account'
  BY <1>1, <1>q DEF Start, historyVars
<1>2. ASSUME NEW r \in Receivers, StartFailsToConnect(r)
      PROVE  Account'
  BY <1>2, <1>q DEF StartFailsToConnect, historyVars, serverVars
<1>3. ASSUME NEW r \in Receivers, StartFailsToConsume(r)
      PROVE  Account'
  BY <1>3, <1>q DEF StartFailsToConsume, historyVars
<1>4. ASSUME NEW r \in Receivers, Handle(r)
      PROVE  Account'
  BY <1>4, <1>a, HandleStep
<1>5. ASSUME NEW r \in Receivers, ConsumeAccepts(r) \/ ConsumeRejects(r)
      PROVE  Account'
  BY <1>5, <1>a, ConsumeStep
<1>7. ASSUME NEW r \in Receivers, Reply(r)
      PROVE  Account'
  BY <1>7, <1>a, ReplyStep
<1>8. ASSUME NEW r \in Receivers, ShutdownCancel(r)
      PROVE  Account'
  BY <1>8, <1>q DEF ShutdownCancel, historyVars, serverVars
<1>9. ASSUME NEW r \in Receivers, ShutdownStop(r)
      PROVE  Account'
  BY <1>9, <1>q DEF ShutdownStop, historyVars, serverVars
<1>10. ASSUME NEW r \in Receivers, ShutdownClose(r)
       PROVE  Account'
  <2>1. PICK n \in 0..Len(out[r]) : out' = [out EXCEPT ![r] = SubSeq(@, 1, n)]
    BY <1>10 DEF ShutdownClose
  <2>2. /\ buffer' = [buffer EXCEPT ![r] = <<>>]
        /\ UNCHANGED <<handling, accepted, rejected, deliveries, status, expired>>
    BY <1>10 DEF ShutdownClose, historyVars, serverVars
  <2>3. PartOf(buffer'[r], buffer[r]) /\ PartOf(out'[r], out[r])
    BY <1>b, <1>c, <2>1, <2>2, PartsOfSequence
  <2>4. \A q \in Receivers \ {r} : buffer'[q] = buffer[q] /\ out'[q] = out[q]
    BY <1>c, <2>1, <2>2
  <2> QED
    BY <1>l, <2>2, <2>3, <2>4
<1>11. ASSUME NEW r \in Receivers, Rebuild(r)
       PROVE  Account'
  BY <1>11, <1>q DEF Rebuild, historyVars, serverVars
<1>12. ASSUME NEW r \in Receivers, Crash(r)
       PROVE  Account'
  <2>1. PICK n \in 0..Len(out[r]) : out' = [out EXCEPT ![r] = SubSeq(@, 1, n)]
    BY <1>12 DEF Crash
  <2>2. /\ buffer' = [buffer EXCEPT ![r] = <<>>]
        /\ handling' = [handling EXCEPT ![r] = Idle]
        /\ UNCHANGED <<accepted, rejected, deliveries, status, expired>>
    BY <1>12 DEF Crash, historyVars, serverVars
  <2>3. PartOf(buffer'[r], buffer[r]) /\ PartOf(out'[r], out[r])
    BY <1>b, <1>c, <2>1, <2>2, PartsOfSequence
  <2>4. /\ \A q \in Receivers \ {r} : /\ buffer'[q] = buffer[q]
                                      /\ out'[q] = out[q]
                                      /\ handling'[q] = handling[q]
        /\ handling'[r] = Idle
    BY <1>c, <2>1, <2>2
  <2> QED
    BY <1>l, <2>2, <2>3, <2>4
<1>13. ASSUME NEW r \in Receivers, NEW m \in Messages, Deliver(r, m)
       PROVE  Account'
  BY <1>13, <1>a, DeliverStep
<1>14. ASSUME NEW r \in Receivers, ServerReply(r)
       PROVE  Account'
  BY <1>14, <1>a, ServerReplyStep DEF EvidenceInv
<1>15. ASSUME NEW r \in Receivers, Reconnect(r)
       PROVE  Account'
  <2>1. PICK n \in 0..Len(out[r]) : out' = [out EXCEPT ![r] = SubSeq(@, n + 1, Len(@))]
    BY <1>15 DEF Reconnect
  <2>2. PICK k \in 0..Len(buffer[r]) : buffer' = [buffer EXCEPT ![r] = SubSeq(@, 1, k)]
    BY <1>15 DEF Reconnect
  <2>3. UNCHANGED <<handling, accepted, rejected, deliveries, status, expired>>
    BY <1>15 DEF Reconnect, historyVars, serverVars
  <2>4. PartOf(buffer'[r], buffer[r]) /\ PartOf(out'[r], out[r])
    BY <1>b, <1>c, <2>1, <2>2, PartsOfSequence
  <2>5. \A q \in Receivers \ {r} : buffer'[q] = buffer[q] /\ out'[q] = out[q]
    BY <1>c, <2>1, <2>2
  <2> QED
    BY <1>l, <2>3, <2>4, <2>5
<1>16. ASSUME NEW r \in Receivers, GiveUp(r)
       PROVE  Account'
  <2>1. /\ buffer' = [buffer EXCEPT ![r] = <<>>]
        /\ out' = [out EXCEPT ![r] = <<>>]
        /\ UNCHANGED <<handling, accepted, rejected, deliveries, status, expired>>
    BY <1>16 DEF GiveUp, historyVars, serverVars
  <2>2. PartOf(buffer'[r], buffer[r]) /\ PartOf(out'[r], out[r])
    BY <1>b, <1>c, <2>1, PartsOfSequence
  <2>3. \A q \in Receivers \ {r} : buffer'[q] = buffer[q] /\ out'[q] = out[q]
    BY <1>c, <2>1
  <2> QED
    BY <1>l, <2>1, <2>2, <2>3
<1>17. ASSUME NEW c \in ConsumerNames, NEW m \in Messages, AckWaitExpires(c, m)
       PROVE  Account'
  <2>1. /\ status' = [status EXCEPT ![c][m] = "queued"]
        /\ expired' = [expired EXCEPT ![c][m] = @ + 1]
        /\ UNCHANGED <<buffer, handling, out, accepted, rejected, deliveries>>
    BY <1>17 DEF AckWaitExpires, receiverVars, historyVars
  <2>2. Losing
    BY <2>1, UnchangedIsLosing
  <2>3. \A k \in ConsumerNames, n \in Messages :
          /\ status'[k][n] = IF k = c /\ n = m THEN "queued" ELSE status[k][n]
          /\ expired'[k][n] = IF k = c /\ n = m THEN expired[k][n] + 1 ELSE expired[k][n]
          /\ expired[k][n] \in Nat
    BY <1>c, <2>1
  <2>4. deliveries[c][m] <= Cardinality(Spent(c, m)') + expired'[c][m]
    <3> DEFINE spent == Cardinality(Spent(c, m))
    <3>1. \A q \in Receivers : Held(q)' = Held(q)
      BY <2>1 DEF Held, Buffered, InHand, Answering
    <3>2. Spent(c, m)' = Spent(c, m)
      BY <2>1, <3>1 DEF Spent, Of, InFlight
    <3>3. spent \in Nat /\ deliveries[c][m] <= spent + expired[c][m] + 1
      BY SpentBound DEF Account, FailuresAreCounted
    <3>4. deliveries[c][m] \in Nat
      BY DEF TypeInv, TypeOK
    <3> HIDE DEF spent
    <3>5. deliveries[c][m] <= spent + expired'[c][m]
      BY <2>3, <3>3, <3>4
    <3> QED
      BY <3>2, <3>5 DEF spent
  <2>5. \A k \in ConsumerNames, n \in Messages :
          /\ expired'[k][n] >= expired[k][n]
          /\ status'[k][n] = "queued" =>
               \/ status[k][n] = "queued"
               \/ deliveries[k][n] <= Cardinality(Spent(k, n)') + expired'[k][n]
          /\ status'[k][n] = "new" => status[k][n] = "new"
          /\ status'[k][n] = "exhausted" => status[k][n] = "exhausted"
    <3>1. \A k \in ConsumerNames, n \in Messages : expired'[k][n] >= expired[k][n]
      BY <2>3
    <3>2. \A k \in ConsumerNames, n \in Messages :
            ~ (k = c /\ n = m) => status'[k][n] = status[k][n]
      BY <2>3
    <3>3. status'[c][m] = "queued"
      BY <2>3
    <3> QED
      BY <2>4, <3>1, <3>2, <3>3
  <2> QED
    BY <1>a, <2>1, <2>2, <2>5, LosingStep
<1>18. ASSUME NEW c \in ConsumerNames, NEW m \in Messages, Exhaust(c, m)
       PROVE  Account'
  <2>1. /\ status' = [status EXCEPT ![c][m] = "exhausted"]
        /\ status[c][m] = "queued" /\ CapReached(c, m)
        /\ UNCHANGED <<buffer, handling, out, accepted, rejected, deliveries, expired>>
    BY <1>18 DEF Exhaust, receiverVars, historyVars
  <2>2. Losing
    BY <2>1, UnchangedIsLosing
  <2>3. \A k \in ConsumerNames, n \in Messages :
          /\ status'[k][n] = IF k = c /\ n = m THEN "exhausted" ELSE status[k][n]
          /\ expired'[k][n] >= expired[k][n]
    BY <1>c, <2>1
  <2>4. \A k \in ConsumerNames, n \in Messages :
          /\ status'[k][n] = "queued" => status[k][n] = "queued"
          /\ status'[k][n] = "new" => status[k][n] = "new"
          /\ status'[k][n] = "exhausted" =>
               \/ status[k][n] = "exhausted"
               \/ status[k][n] = "queued" /\ CapReached(k, n)
    BY <2>1, <2>3
  <2> QED
    BY <1>a, <2>1, <2>2, <2>3, <2>4, LosingStep
<1>19. ASSUME UNCHANGED vars
       PROVE  Account'
  BY <1>19, <1>q DEF vars, historyVars, serverVars, receiverVars
<1> QED
  BY <1>1, <1>2, <1>3, <1>4, <1>5, <1>7, <1>8, <1>9, <1>10, <1>11, <1>12,
     <1>13, <1>14, <1>15, <1>16, <1>17, <1>18, <1>19
     DEF Next, ReceiverNext, ServerNext

(***************************************************************************)
(* With a durable name, nobody uses another consumer.                      *)
(***************************************************************************)

LEMMA BoundInit == Init => BoundToDurable
BY DEF Init, BoundToDurable

LEMMA BoundStep == TypeInv /\ BoundToDurable /\ [Next]_vars => BoundToDurable'
<1> SUFFICES ASSUME TypeInv, BoundToDurable, [Next]_vars, DurableName # NoConsumer
             PROVE  BoundToDurable'
  BY DEF BoundToDurable
<1>a. /\ consumer \in [Receivers -> ConsumerNames \cup {NoConsumer}]
      /\ status \in [ConsumerNames -> [Messages -> Settled \cup {"new", "pending", "queued"}]]
      /\ \A r \in Receivers : consumer[r] \in {DurableName, NoConsumer}
      /\ \A c \in ConsumerNames \ {DurableName}, m \in Messages : status[c][m] = "new"
  BY DEF TypeInv, TypeOK, BoundToDurable
<1>1. \A r \in Receivers : consumer'[r] \in {DurableName, NoConsumer}
  <2>1. CASE UNCHANGED consumer
    BY <1>a, <2>1
  <2>2. ASSUME NEW r \in Receivers, Start(r)
        PROVE  \A q \in Receivers : consumer'[q] \in {DurableName, NoConsumer}
    BY <1>a, <2>2 DEF Start, BindableConsumers
  <2>3. ASSUME NEW r \in Receivers, Rebuild(r) \/ Crash(r)
        PROVE  \A q \in Receivers : consumer'[q] \in {DurableName, NoConsumer}
    BY <1>a, <2>3 DEF Rebuild, Crash
  <2>4. \/ UNCHANGED consumer
        \/ \E r \in Receivers : Start(r) \/ Rebuild(r) \/ Crash(r)
    BY DEF Next, ReceiverNext, ServerNext, vars, receiverVars, StartFailsToConnect,
           StartFailsToConsume, Handle, ConsumeAccepts, ConsumeRejects, Reply, ShutdownCancel,
           ShutdownStop, ShutdownClose, ServerReply, Reconnect, GiveUp, Deliver,
           AckWaitExpires, Exhaust
  <2> QED
    BY <2>1, <2>2, <2>3, <2>4
<1>2. \A c \in ConsumerNames \ {DurableName}, m \in Messages : status'[c][m] = "new"
  <2>1. CASE UNCHANGED status
    BY <1>a, <2>1
  <2>2. ASSUME NEW r \in Receivers, NEW m \in Messages, Deliver(r, m)
        PROVE  \A c \in ConsumerNames \ {DurableName}, n \in Messages : status'[c][n] = "new"
    <3>1. consumer[r] = DurableName
      BY <1>a, <2>2, NamesAssumption DEF Deliver, TypeInv, ConsumingIsBound
    <3> QED
      BY <1>a, <2>2, <3>1 DEF Deliver
  <2>3. ASSUME NEW r \in Receivers, ServerReply(r)
        PROVE  \A c \in ConsumerNames \ {DurableName}, n \in Messages : status'[c][n] = "new"
    <3>1. PICK a : status' = [status EXCEPT ![a.d.consumer][a.d.msg] = AfterReply(a.kind, @)]
      BY <2>3 DEF ServerReply
    <3>2. AfterReply(a.kind, "new") = "new"
      BY DEF AfterReply
    <3>3. ASSUME NEW c \in ConsumerNames \ {DurableName}, NEW n \in Messages
          PROVE  status'[c][n] \in {status[c][n], AfterReply(a.kind, status[c][n])}
      BY <1>a, <3>1
    <3> QED
      BY <1>a, <3>2, <3>3
  <2>4. ASSUME NEW c \in ConsumerNames, NEW m \in Messages,
               AckWaitExpires(c, m) \/ Exhaust(c, m)
        PROVE  \A k \in ConsumerNames \ {DurableName}, n \in Messages : status'[k][n] = "new"
    <3>1. /\ status[c][m] # "new"
          /\ \E st : status' = [status EXCEPT ![c][m] = st]
      BY <2>4 DEF AckWaitExpires, Exhaust
    <3>2. c = DurableName
      BY <1>a, <3>1
    <3> QED
      BY <1>a, <3>1, <3>2
  <2>5. \/ UNCHANGED status
        \/ \E r \in Receivers : ServerReply(r) \/ \E m \in Messages : Deliver(r, m)
        \/ \E c \in ConsumerNames, m \in Messages : AckWaitExpires(c, m) \/ Exhaust(c, m)
    BY DEF Next, ReceiverNext, ServerNext, vars, serverVars, Start, StartFailsToConnect,
           StartFailsToConsume, Handle, ConsumeAccepts, ConsumeRejects, Reply, ShutdownCancel,
           ShutdownStop, ShutdownClose, Rebuild, Crash, Reconnect, GiveUp
  <2> QED
    BY <2>1, <2>2, <2>3, <2>4, <2>5
<1> QED
  BY <1>1, <1>2 DEF BoundToDurable

\* Every delivery is in one place and decided on once, and the server makes no
\* more of them than there were refusals and expiries, and one.
THEOREM AccountCorrect == Spec => []AccountInv
<1>1. Init => Account /\ BoundToDurable
  BY AccountInit, BoundInit
<1>2. TypeInv /\ EvidenceInv /\ Account /\ BoundToDurable /\ [Next]_vars
        => (Account /\ BoundToDurable)'
  BY AccountStep, BoundStep
<1>3. Account /\ BoundToDurable => AccountInv
  BY DEF Account, AccountInv
<1> QED
  BY <1>1, <1>2, <1>3, TypeInvariant, EvidenceCorrect, PTL DEF Spec

(***************************************************************************)
(* What follows from the account.                                          *)
(***************************************************************************)

\* Delivery numbers tell the deliveries of a message apart, so no more of them
\* are decided on than the server made.
LEMMA OutcomesAreDeliveries ==
    ASSUME TypeInv, Account, NEW c \in ConsumerNames, NEW m \in Messages
    PROVE  /\ Cardinality(Of(accepted, c, m)) \in Nat
           /\ Cardinality(Of(rejected, c, m)) \in Nat
           /\ Cardinality(Of(accepted, c, m)) + Cardinality(Of(rejected, c, m))
                <= deliveries[c][m]
<1> DEFINE A == Of(accepted, c, m)
           R == Of(rejected, c, m)
           T == 1..deliveries[c][m]
           f == [d \in A \cup R |-> d.num]
<1>1. A \subseteq accepted /\ R \subseteq rejected
  BY DEF Of
<1>2. IsFiniteSet(A) /\ IsFiniteSet(R)
  BY <1>1, FS_Subset DEF Account, FailuresAreCounted
<1>3. A \cap R = {}
  BY <1>1 DEF Account, OneOutcomeEach
<1>4. /\ Cardinality(A) \in Nat /\ Cardinality(R) \in Nat
      /\ Cardinality(A \cup R) = Cardinality(A) + Cardinality(R)
  <2>1. Cardinality(A) \in Nat /\ Cardinality(R) \in Nat
    BY <1>2, FS_CardinalityType
  <2>2. Cardinality(A \cup R) = Cardinality(A) + Cardinality(R) - Cardinality(A \cap R)
    BY <1>2, FS_Union
  <2>3. Cardinality(A \cap R) = 0
    BY <1>3, FS_EmptySet
  <2> HIDE DEF A, R
  <2> QED
    BY <2>1, <2>2, <2>3
<1>5. deliveries[c][m] \in Nat
  BY DEF TypeInv, TypeOK
<1>6. IsFiniteSet(T) /\ Cardinality(T) = deliveries[c][m]
  <2>1. PICK n \in Nat : n = deliveries[c][m]
    BY <1>5
  <2>2. /\ IsFiniteSet(1..n)
        /\ Cardinality(1..n) = IF 1 > n THEN 0 ELSE n - 1 + 1
    BY FS_Interval
  <2>3. Cardinality(1..n) = n
    BY <2>2
  <2> QED
    BY <2>1, <2>2, <2>3
<1>7. f \in Injection(A \cup R, T)
  <2>1. ASSUME NEW d \in A \cup R
        PROVE  d.num \in T
    BY <1>1 DEF Of, Account, NumbersAreKnown
  <2>2. ASSUME NEW d \in A \cup R, NEW e \in A \cup R, d.num = e.num
        PROVE  d = e
    <3>1. d \in Delivery /\ e \in Delivery
      BY <1>1 DEF TypeInv, TypeOK
    <3>2. d.consumer = e.consumer /\ d.msg = e.msg
      BY DEF Of
    <3> QED
      BY <2>2, <3>1, <3>2 DEF Delivery
  <2> QED
    BY <2>1, <2>2 DEF Injection, IsInjective
<1>8. Cardinality(A \cup R) <= Cardinality(T)
  BY <1>6, <1>7, FS_Injection
<1> QED
  BY <1>4, <1>6, <1>8

\* The pipeline accepts a message at most once more often than ack_wait ran out
\* on it, for any number of receivers, buffered messages, restarts and refusals.
THEOREM DuplicatesBounded == Spec => []DuplicatesNeedExpiry
<1>1. TypeInv /\ AccountInv => DuplicatesNeedExpiry
  <2> SUFFICES ASSUME TypeInv, AccountInv, NEW c \in ConsumerNames, NEW m \in Messages
               PROVE  Cardinality(Of(accepted, c, m)) <= expired[c][m] + 1
    BY DEF DuplicatesNeedExpiry
  <2>1. Account
    BY DEF Account, AccountInv
  <2> DEFINE a == Cardinality(Of(accepted, c, m))
             r == Cardinality(Of(rejected, c, m))
             spent == Cardinality(Spent(c, m))
  <2>2. a \in Nat /\ r \in Nat /\ a + r <= deliveries[c][m]
    BY <2>1, OutcomesAreDeliveries
  <2>3. spent \in Nat /\ spent <= r /\ deliveries[c][m] <= spent + expired[c][m] + 1
    BY <2>1, SpentBound DEF Account, FailuresAreCounted
  <2>4. deliveries[c][m] \in Nat /\ expired[c][m] \in Nat
    BY DEF TypeInv, TypeOK
  <2> HIDE DEF a, r, spent
  <2>5. a <= expired[c][m] + 1
    BY <2>2, <2>3, <2>4
  <2> QED
    BY <2>5 DEF a
<1> QED
  BY <1>1, TypeInvariant, AccountCorrect, PTL

\* A message is dropped at max_deliver only if it was refused and expired that many
\* times in all, though perhaps not on as many deliveries.
THEOREM DropsAccounted == Spec => []DropsNeedRefusalsOrExpiries
<1>1. AccountInv => DropsNeedRefusalsOrExpiries
  BY DEF AccountInv
<1> QED
  BY <1>1, AccountCorrect, PTL

\* No step delivers what a shared or restarted durable consumer has acknowledged.
THEOREM ProgressPersists == Spec => ProgressSurvivesRestart
<1> DEFINE Kept == DurableName # NoConsumer =>
          \A m \in Messages :
             (\E c \in ConsumerNames : status[c][m] = "acked")
                => \A c \in ConsumerNames : deliveries'[c][m] = deliveries[c][m]
<1>1. TypeInv /\ AccountInv /\ [Next]_vars => [Kept]_vars
  <2> SUFFICES ASSUME TypeInv, AccountInv, [Next]_vars, DurableName # NoConsumer,
                      NEW m \in Messages, NEW k \in ConsumerNames, status[k][m] = "acked",
                      NEW c \in ConsumerNames
               PROVE  deliveries'[c][m] = deliveries[c][m]
    OBVIOUS
  <2>1. status[DurableName][m] = "acked"
    BY DEF AccountInv, BoundToDurable
  <2>2. CASE UNCHANGED deliveries
    BY <2>2
  <2>3. ASSUME NEW r \in Receivers, NEW n \in Messages, Deliver(r, n)
        PROVE  deliveries'[c][m] = deliveries[c][m]
    <3>1. consumer[r] = DurableName
      BY <2>3, NamesAssumption
         DEF Deliver, TypeInv, ConsumingIsBound, AccountInv, BoundToDurable
    <3>2. n # m
      BY <2>1, <2>3, <3>1 DEF Deliver
    <3>3. deliveries' = [deliveries EXCEPT ![DurableName][n] = @ + 1]
      BY <2>3, <3>1 DEF Deliver
    <3>4. deliveries \in [ConsumerNames -> [Messages -> Nat]]
      BY DEF TypeInv, TypeOK
    <3> QED
      BY <3>2, <3>3, <3>4
  <2>4. \/ UNCHANGED deliveries
        \/ \E r \in Receivers, n \in Messages : Deliver(r, n)
    BY DEF Next, ReceiverNext, ServerNext, vars, serverVars, Start, StartFailsToConnect,
           StartFailsToConsume, Handle, ConsumeAccepts, ConsumeRejects, Reply, ShutdownCancel,
           ShutdownStop, ShutdownClose, Rebuild, Crash, ServerReply, Reconnect, GiveUp,
           AckWaitExpires, Exhaust
  <2> QED
    BY <2>2, <2>3, <2>4
<1> QED
  BY <1>1, TypeInvariant, AccountCorrect, PTL DEF Spec, ProgressSurvivesRestart

(***************************************************************************)
(* The refinement of AtLeastOnce.                                          *)
(***************************************************************************)

\* The abstract variables as the receivers and the server determine them.
Fates    == [v \in Views |-> FateOf(v)]
Taken    == {<<d.consumer, d.msg>> : d \in accepted}
Failures == [v \in Views |-> FailuresOf(v)]

LEMMA AbstractInit == Init => Abstract!Init
<1> SUFFICES ASSUME Init PROVE Abstract!Init
  OBVIOUS
<1>1. Fates = [v \in Views |-> "open"]
  BY DEF Init, Fates, FateOf, Settled, Views
<1>2. Taken = {}
  BY DEF Init, Taken
<1>3. Failures = [v \in Views |-> 0]
  <2>1. ASSUME NEW v \in Views
        PROVE  FailuresOf(v) = 0
    <3>1. Of(rejected, v[1], v[2]) = {} /\ expired[v[1]][v[2]] = 0
      BY DEF Init, Of, Views
    <3> QED
      BY <3>1, FS_EmptySet DEF FailuresOf
  <2> QED
    BY <2>1 DEF Failures
<1> QED
  BY <1>1, <1>2, <1>3 DEF Abstract!Init, Fates, Taken, Failures

\* A step that changes none of the abstract variables stutters.
LEMMA AbstractStutter ==
    ASSUME UNCHANGED <<Fates, Taken, Failures>>
    PROVE  UNCHANGED Abstract!vars
BY DEF Abstract!vars, Fates, Taken, Failures

LEMMA AbstractAccept ==
    ASSUME NEW v \in Views, v[2] \notin Poison, Taken' = Taken \cup {v},
           UNCHANGED <<Fates, Failures>>
    PROVE  Abstract!Next
<1>1. Abstract!Accept(v)
  BY DEF Abstract!Accept, Fates, Taken, Failures
<1> QED
  BY <1>1 DEF Abstract!Next

LEMMA AbstractFail ==
    ASSUME NEW v \in Views, Failures' = [Failures EXCEPT ![v] = @ + 1],
           UNCHANGED <<Fates, Taken>>
    PROVE  Abstract!Next
<1>1. Abstract!Fail(v)
  BY DEF Abstract!Fail, Fates, Taken, Failures
<1> QED
  BY <1>1 DEF Abstract!Next

LEMMA AbstractSettle ==
    ASSUME NEW v \in Views, NEW how, Fates[v] = "open",
           Fates' = [Fates EXCEPT ![v] = how], UNCHANGED <<Taken, Failures>>,
           \/ how = "acked" /\ v \in Taken
           \/ how = "termed" /\ v[2] \in Poison
           \/ how = "exhausted" /\ MaxDeliver > 0 /\ Failures[v] >= MaxDeliver
    PROVE  Abstract!Next
<1>1. Abstract!Settle(v, how)
  BY DEF Abstract!Settle, Fates
<1>2. CASE how = "acked" /\ v \in Taken
  <2>1. Abstract!Acknowledge(v)
    BY <1>1, <1>2 DEF Abstract!Acknowledge, Taken, Failures
  <2> QED
    BY <2>1 DEF Abstract!Next
<1>3. CASE how = "termed" /\ v[2] \in Poison
  <2>1. Abstract!Terminate(v)
    BY <1>1, <1>3 DEF Abstract!Terminate, Taken, Failures, Views
  <2> QED
    BY <2>1 DEF Abstract!Next
<1>4. CASE how = "exhausted" /\ MaxDeliver > 0 /\ Failures[v] >= MaxDeliver
  <2>1. Abstract!Abandon(v)
    BY <1>1, <1>4 DEF Abstract!Abandon, Taken, Failures
  <2> QED
    BY <2>1 DEF Abstract!Next
<1> QED
  BY <1>2, <1>3, <1>4

LEMMA AbstractStep ==
    TypeInv /\ EvidenceInv /\ AccountInv /\ [Next]_vars => [Abstract!Next]_(Abstract!vars)
<1> SUFFICES ASSUME TypeInv, EvidenceInv, AccountInv, [Next]_vars
             PROVE  [Abstract!Next]_(Abstract!vars)
  OBVIOUS
<1>b. /\ status \in [ConsumerNames -> [Messages -> Settled \cup {"new", "pending", "queued"}]]
      /\ expired \in [ConsumerNames -> [Messages -> Nat]]
  BY DEF TypeInv, TypeOK
<1>c. IsFiniteSet(rejected)
  BY DEF AccountInv, FailuresAreCounted
<1>f. ASSUME UNCHANGED status
      PROVE  UNCHANGED Fates
  BY <1>f DEF Fates, FateOf
<1>g. ASSUME UNCHANGED <<rejected, expired>>
      PROVE  UNCHANGED Failures
  BY <1>g DEF Failures, FailuresOf, Of
<1>h. ASSUME UNCHANGED accepted
      PROVE  UNCHANGED Taken
  BY <1>h DEF Taken
<1>1. CASE UNCHANGED <<status, accepted, rejected, expired>>
  BY <1>1, <1>f, <1>g, <1>h, AbstractStutter
<1>2. ASSUME NEW r \in Receivers, ConsumeAccepts(r) \/ ConsumeRejects(r)
      PROVE  Abstract!Next
  <2>1. PICK d \in InHand(r) : d = handling[r].d /\ handling[r].stage = "consume"
    BY <1>2, ConsumeMoves
  <2> DEFINE v == <<d.consumer, d.msg>>
  <2>2. d \in Delivery
    BY HeldType DEF Held
  <2>3. v \in Views /\ v[2] \notin Poison /\ d \notin rejected
    <3>1. v \in Views
      BY <2>2 DEF Delivery, Views
    <3>2. handling[r] # Idle
      BY <2>1 DEF Idle
    <3> QED
      BY <2>1, <3>1, <3>2
         DEF EvidenceInv, HandlingIsJustified, AccountInv, OneOutcomeEach
  <2>4. CASE ConsumeAccepts(r)
    <3>1. accepted' = accepted \cup {d} /\ UNCHANGED <<status, rejected, expired>>
      BY <2>1, <2>4 DEF ConsumeAccepts, serverVars
    <3>2. Taken' = Taken \cup {v}
      BY <3>1 DEF Taken
    <3> HIDE DEF v
    <3> QED
      BY <1>f, <1>g, <2>3, <3>1, <3>2, AbstractAccept
  <2>5. CASE ConsumeRejects(r)
    <3>1. rejected' = rejected \cup {d} /\ UNCHANGED <<status, accepted, expired>>
      BY <2>1, <2>5 DEF ConsumeRejects, serverVars
    <3>2. ASSUME NEW w \in Views
          PROVE  FailuresOf(w)' = IF w = v THEN FailuresOf(w) + 1 ELSE FailuresOf(w)
      <4> DEFINE R == Of(rejected, w[1], w[2])
      <4>1. IsFiniteSet(R) /\ d \notin R
        BY <1>c, <2>3, FS_Subset DEF Of
      <4>2. Of(rejected, w[1], w[2])' = IF w = v THEN R \cup {d} ELSE R
        <5>1. w = v <=> d.consumer = w[1] /\ d.msg = w[2]
          BY DEF Views
        <5> QED
          BY <3>1, <5>1 DEF Of
      <4>3. Cardinality(R \cup {d}) = Cardinality(R) + 1 /\ Cardinality(R) \in Nat
        BY <4>1, FS_AddElement, FS_CardinalityType
      <4>4. expired'[w[1]][w[2]] = expired[w[1]][w[2]] /\ expired[w[1]][w[2]] \in Nat
        BY <1>b, <3>1 DEF Views
      <4> HIDE DEF R, v
      <4>5. CASE w = v
        <5>1. Cardinality(Of(rejected, w[1], w[2])') = Cardinality(R) + 1
          BY <4>2, <4>3, <4>5
        <5>2. Cardinality(R) + 1 + expired'[w[1]][w[2]]
                = Cardinality(R) + expired[w[1]][w[2]] + 1
          BY <4>3, <4>4
        <5> QED
          BY <4>5, <5>1, <5>2 DEF FailuresOf, R
      <4>6. CASE w # v
        <5>1. Of(rejected, w[1], w[2])' = R
          BY <4>2, <4>6
        <5> QED
          BY <4>4, <4>6, <5>1 DEF FailuresOf, R
      <4> QED
        BY <4>5, <4>6
    <3> HIDE DEF v
    <3>3. Failures' = [Failures EXCEPT ![v] = @ + 1]
      BY <2>3, <3>2 DEF Failures
    <3> QED
      BY <1>f, <1>h, <2>3, <3>1, <3>3, AbstractFail
  <2> QED
    BY <1>2, <2>4, <2>5
\* What a step that changes the status of m on c alone does to the fates.
<1>s. ASSUME NEW c \in ConsumerNames, NEW m \in Messages, NEW st,
             status' = [status EXCEPT ![c][m] = st]
      PROVE  /\ <<c, m>> \in Views
             /\ Fates' = [Fates EXCEPT ![<<c, m>>] = IF st \in Settled THEN st ELSE "open"]
             /\ Fates[<<c, m>>] = IF status[c][m] \in Settled THEN status[c][m] ELSE "open"
  <2>1. ASSUME NEW w \in Views
        PROVE  status'[w[1]][w[2]] = IF w = <<c, m>> THEN st ELSE status[w[1]][w[2]]
    <3>1. w = <<c, m>> <=> w[1] = c /\ w[2] = m
      BY DEF Views
    <3> QED
      BY <1>b, <1>s, <3>1 DEF Views
  <2>2. <<c, m>> \in Views
    BY DEF Views
  <2> QED
    BY <2>1, <2>2 DEF Fates, FateOf
<1>3. ASSUME NEW r \in Receivers, NEW m \in Messages, Deliver(r, m)
      PROVE  UNCHANGED Abstract!vars
  <2>1. PICK c \in ConsumerNames : c = consumer[r]
    BY <1>3 DEF Deliver, TypeInv, ConsumingIsBound
  <2>2. /\ status[c][m] \in {"new", "queued"}
        /\ status' = [status EXCEPT ![c][m] = "pending"]
        /\ UNCHANGED <<accepted, rejected, expired>>
    BY <1>3, <2>1 DEF Deliver, historyVars
  <2>3. UNCHANGED Fates
    <3> DEFINE v == <<c, m>>
    <3>1. /\ v \in Views /\ Fates[v] = "open"
          /\ Fates' = [Fates EXCEPT ![v] = "open"]
      BY <1>s, <2>2 DEF Settled
    <3> HIDE DEF v
    <3> QED
      BY <3>1 DEF Fates
  <2> QED
    BY <1>g, <1>h, <2>2, <2>3, AbstractStutter
<1>4. ASSUME NEW r \in Receivers, ServerReply(r)
      PROVE  [Abstract!Next]_(Abstract!vars)
  <2>1. out[r] \in Seq(Answer) /\ out[r] # <<>>
    BY <1>4 DEF ServerReply, TypeInv, TypeOK
  <2>2. PICK a \in Answer : a = Head(out[r]) /\ a = out[r][1] /\ 1 \in 1..Len(out[r])
    BY <2>1, ShrinkSequence
  <2>3. /\ a.d.consumer \in ConsumerNames /\ a.d.msg \in Messages
        /\ a.kind \in {"ack", "nak", "term"}
    BY DEF Answer, Replies, Delivery
  <2>4. PICK c \in ConsumerNames, m \in Messages : c = a.d.consumer /\ m = a.d.msg
    BY <2>3
  <2>5. PICK st : st = AfterReply(a.kind, status[c][m])
    OBVIOUS
  <2> DEFINE v == <<c, m>>
  <2>6. /\ status' = [status EXCEPT ![c][m] = st]
        /\ UNCHANGED <<accepted, rejected, expired>>
    BY <1>4, <2>2, <2>3, <2>4, <2>5 DEF ServerReply, historyVars
  <2>7. CASE status[c][m] \notin {"pending", "queued"}
    <3>1. st = status[c][m]
      BY <2>5, <2>7 DEF AfterReply
    <3>2. UNCHANGED status
      BY <1>b, <2>6, <3>1
    <3> QED
      BY <1>1, <2>6, <3>2
  <2>8. CASE status[c][m] \in {"pending", "queued"}
    <3>1. v \in Views /\ Fates[v] = "open"
      BY <1>s, <2>6, <2>8 DEF Settled
    <3>2. Fates' = [Fates EXCEPT ![v] = IF st \in Settled THEN st ELSE "open"]
      BY <1>s, <2>6
    <3>3. CASE a.kind = "ack"
      <4>1. st = "acked"
        BY <2>5, <2>8, <3>3 DEF AfterReply
      <4>2. v \in Taken
        BY <2>2, <2>4, <3>3 DEF EvidenceInv, RepliesAreJustified, Taken
      <4>3. Fates' = [Fates EXCEPT ![v] = "acked"]
        BY <3>2, <4>1 DEF Settled
      <4> QED
        BY <1>g, <1>h, <2>6, <3>1, <4>2, <4>3, AbstractSettle
    <3>4. CASE a.kind = "term"
      <4>1. st = "termed"
        BY <2>5, <2>8, <3>4 DEF AfterReply
      <4>2. v[2] \in Poison
        BY <2>2, <2>4, <3>4 DEF EvidenceInv, RepliesAreJustified
      <4>3. Fates' = [Fates EXCEPT ![v] = "termed"]
        BY <3>2, <4>1 DEF Settled
      <4> QED
        BY <1>g, <1>h, <2>6, <3>1, <4>2, <4>3, AbstractSettle
    <3>5. CASE a.kind = "nak"
      <4>1. st = "queued"
        BY <2>5, <2>8, <3>5 DEF AfterReply
      <4>2. UNCHANGED Fates
        BY <3>1, <3>2, <4>1 DEF Settled, Fates
      <4> QED
        BY <1>g, <1>h, <2>6, <4>2, AbstractStutter
    <3> QED
      BY <2>3, <3>3, <3>4, <3>5
  <2> QED
    BY <2>7, <2>8
<1>5. ASSUME NEW c \in ConsumerNames, NEW m \in Messages, AckWaitExpires(c, m)
      PROVE  Abstract!Next
  <2> DEFINE v == <<c, m>>
  <2>1. /\ status[c][m] = "pending"
        /\ status' = [status EXCEPT ![c][m] = "queued"]
        /\ expired' = [expired EXCEPT ![c][m] = @ + 1]
        /\ UNCHANGED <<accepted, rejected>>
    BY <1>5 DEF AckWaitExpires, historyVars
  <2>2. v \in Views /\ UNCHANGED Fates
    <3>1. /\ v \in Views /\ Fates[v] = "open"
          /\ Fates' = [Fates EXCEPT ![v] = "open"]
      BY <1>s, <2>1 DEF Settled
    <3> HIDE DEF v
    <3> QED
      BY <3>1 DEF Fates
  <2>3. ASSUME NEW w \in Views
        PROVE  FailuresOf(w)' = IF w = v THEN FailuresOf(w) + 1 ELSE FailuresOf(w)
    <3> DEFINE k == Cardinality(Of(rejected, w[1], w[2]))
               x == expired[w[1]][w[2]]
    <3>1. k \in Nat /\ x \in Nat
      BY <1>b, <1>c, SpentBound DEF Views
    <3>2. Cardinality(Of(rejected, w[1], w[2])') = k
      BY <2>1 DEF Of
    <3>3. expired'[w[1]][w[2]] = IF w = v THEN x + 1 ELSE x
      <4>1. w = v <=> w[1] = c /\ w[2] = m
        BY DEF Views
      <4> QED
        BY <1>b, <2>1, <4>1 DEF Views
    <3> HIDE DEF k, x, v
    <3>4. k + expired'[w[1]][w[2]] = IF w = v THEN k + x + 1 ELSE k + x
      BY <3>1, <3>3
    <3> QED
      BY <3>2, <3>4 DEF FailuresOf, k, x
  <2> HIDE DEF v
  <2>4. Failures' = [Failures EXCEPT ![v] = @ + 1]
    BY <2>2, <2>3 DEF Failures
  <2> QED
    BY <1>h, <2>1, <2>2, <2>4, AbstractFail
<1>6. ASSUME NEW c \in ConsumerNames, NEW m \in Messages, Exhaust(c, m)
      PROVE  Abstract!Next
  <2> DEFINE v == <<c, m>>
  <2>1. /\ status[c][m] = "queued"
        /\ CapReached(c, m)
        /\ status' = [status EXCEPT ![c][m] = "exhausted"]
        /\ UNCHANGED <<accepted, rejected, expired>>
    BY <1>6 DEF Exhaust, historyVars
  <2>2. v \in Views /\ Fates[v] = "open" /\ Fates' = [Fates EXCEPT ![v] = "exhausted"]
    BY <1>s, <2>1 DEF Settled
  <2>3. MaxDeliver > 0 /\ Failures[v] >= MaxDeliver
    <3> DEFINE k == Cardinality(Of(rejected, c, m))
               spent == Cardinality(Spent(c, m))
    <3>1. k \in Nat /\ spent \in Nat /\ spent <= k
      BY <1>c, SpentBound
    <3>2. /\ expired[c][m] \in Nat /\ deliveries[c][m] \in Nat
          /\ MaxDeliver \in Nat
      BY NumbersAssumption DEF TypeInv, TypeOK
    <3>3. MaxDeliver > 0 /\ deliveries[c][m] >= MaxDeliver
      BY <2>1 DEF CapReached
    <3>4. deliveries[c][m] <= spent + expired[c][m]
      BY <2>1 DEF AccountInv, FailuresAreCounted
    <3>5. Failures[v] = k + expired[c][m]
      BY <2>2 DEF Failures, FailuresOf
    <3> HIDE DEF k, spent, v
    <3>6. k + expired[c][m] >= MaxDeliver
      BY <3>1, <3>2, <3>3, <3>4
    <3> QED
      BY <3>3, <3>5, <3>6
  <2> HIDE DEF v
  <2> QED
    BY <1>g, <1>h, <2>1, <2>2, <2>3, AbstractSettle
<1> QED
  <2>1. ASSUME NEW r \in Receivers,
               \/ Start(r) \/ StartFailsToConnect(r) \/ StartFailsToConsume(r) \/ Handle(r)
               \/ Reply(r) \/ ShutdownCancel(r) \/ ShutdownStop(r) \/ ShutdownClose(r)
               \/ Rebuild(r) \/ Crash(r) \/ Reconnect(r) \/ GiveUp(r)
        PROVE  UNCHANGED <<status, accepted, rejected, expired>>
    BY <2>1 DEF serverVars, historyVars, Start, StartFailsToConnect, StartFailsToConsume,
                Handle, Reply, ShutdownCancel, ShutdownStop, ShutdownClose, Rebuild,
                Crash, Reconnect, GiveUp
  <2>2. UNCHANGED vars => UNCHANGED <<status, accepted, rejected, expired>>
    BY DEF vars, serverVars, historyVars
  <2>3. \/ UNCHANGED <<status, accepted, rejected, expired>>
        \/ \E r \in Receivers : \/ ConsumeAccepts(r) \/ ConsumeRejects(r) \/ ServerReply(r)
                                \/ \E m \in Messages : Deliver(r, m)
        \/ \E c \in ConsumerNames, m \in Messages : AckWaitExpires(c, m) \/ Exhaust(c, m)
    BY <2>1, <2>2 DEF Next, ReceiverNext, ServerNext
  <2> QED
    BY <1>1, <1>2, <1>3, <1>4, <1>5, <1>6, <2>3

\* On every consumer, durable or not, receivers implement AtLeastOnce: acknowledged
\* only after accepted, terminated only if unreadable, dropped only after max_deliver
\* refusals and expiries, and each of these for good.
THEOREM ReceiverRefines == Spec => ImplementsAtLeastOnce
<1>1. Init => Abstract!Init
  BY AbstractInit
<1>2. TypeInv /\ EvidenceInv /\ AccountInv /\ [Next]_vars => [Abstract!Next]_(Abstract!vars)
  BY AbstractStep
<1> QED
  BY <1>1, <1>2, TypeInvariant, EvidenceCorrect, AccountCorrect, PTL
     DEF Spec, ImplementsAtLeastOnce, Abstract!Spec

=============================================================================
