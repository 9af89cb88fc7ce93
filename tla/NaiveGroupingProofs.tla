------------------------- MODULE NaiveGroupingProofs -------------------------
(***************************************************************************)
(* Group gives what the naive grouping of the grouper tests gives, for any *)
(* payload over any resources, scopes and subjects.                        *)
(*                                                                         *)
(* At each level of a group's tree the positions go up, and they are those *)
(* of the naive tree; only one sequence goes up through a set of numbers.  *)
(***************************************************************************)
EXTENDS NaiveGrouping, GrouperProofs, FiniteSetTheorems

-----------------------------------------------------------------------------
(***************************************************************************)
(* Ascending.                                                              *)
(***************************************************************************)

Increasing(f, n) == \A i, j \in 1..n : i < j => f[i] < f[j]

\* f goes through S from its least element to its greatest, in n places.
Lists(f, n, S) ==
    f \in [1..n -> S] /\ Increasing(f, n) /\ \A x \in S : \E i \in 1..n : f[i] = x

\* An increasing sequence of numbers has each of them once.
LEMMA IncreasingInjects ==
    ASSUME NEW S, S \subseteq Nat, NEW n \in Nat, NEW f \in [1..n -> S], Increasing(f, n)
    PROVE  f \in Injection(1..n, S)
<1>1. ASSUME NEW i \in 1..n, NEW j \in 1..n, f[i] = f[j] PROVE i = j
  <2>1. f[i] \in S /\ f[j] \in S
    OBVIOUS
  <2>2. (i < j => f[i] < f[j]) /\ (j < i => f[j] < f[i])
    BY DEF Increasing
  <2>3. f[i] \in Nat /\ f[j] \in Nat
    BY <2>1
  <2> QED
    BY <1>1, <2>2, <2>3
<1> QED
  BY <1>1 DEF Injection, IsInjective

\* There is one increasing sequence of all elements of a set of numbers: at the
\* first place where two differ, each would have to come later in the other.
LEMMA IncreasingUnique ==
    ASSUME NEW S, S \subseteq Nat, NEW n \in Nat, NEW f, NEW g, Lists(f, n, S), Lists(g, n, S)
    PROVE  f = g
<1> USE DEF Lists
<1> DEFINE T == {i \in 1..n : f[i] # g[i]}
<1> SUFFICES ASSUME T # {} PROVE FALSE
  OBVIOUS
<1>1. PICK m \in T : \A y \in T : <<y, m>> \notin OpToRel(<, Nat)
  <2>1. T \subseteq Nat
    OBVIOUS
  <2> HIDE DEF T
  <2> QED
    BY <2>1, NatLessThanWellFounded, WFMin
<1>2. m \in 1..n /\ f[m] # g[m]
  OBVIOUS
<1>3. ASSUME NEW y \in 1..n, y < m PROVE f[y] = g[y]
  <2>1. <<y, m>> \in OpToRel(<, Nat)
    BY <1>2, <1>3 DEF OpToRel
  <2> QED
    BY <1>1, <2>1
<1>4. \A i \in 1..n : f[i] \in Nat /\ g[i] \in Nat
  OBVIOUS
<1>5. PICK a \in 1..n : g[a] = f[m]
  BY <1>2
<1>6. PICK b \in 1..n : f[b] = g[m]
  BY <1>2
<1> HIDE DEF T
<1>7. m < a
  <2>1. a < m => f[a] = f[m] /\ f[a] < f[m]
    BY <1>2, <1>3, <1>5 DEF Increasing
  <2>2. a # m
    BY <1>2, <1>5
  <2> QED
    BY <1>2, <1>4, <2>1, <2>2
<1>8. m < b
  <2>1. b < m => g[b] = g[m] /\ g[b] < g[m]
    BY <1>2, <1>3, <1>6 DEF Increasing
  <2>2. b # m
    BY <1>2, <1>6
  <2> QED
    BY <1>2, <1>4, <2>1, <2>2
<1>9. g[m] < f[m] /\ f[m] < g[m]
  BY <1>2, <1>5, <1>6, <1>7, <1>8 DEF Increasing
<1> QED
  BY <1>2, <1>4, <1>9

\* An increasing sequence of all elements of a set is what Ascending gives.
LEMMA AscendingIs ==
    ASSUME NEW S, S \subseteq Nat, NEW n \in Nat, NEW f, Lists(f, n, S)
    PROVE  Ascending(S) = f
<1>1. f \in Bijection(1..n, S)
  BY IncreasingInjects DEF Lists, Bijection, Surjection
<1>2. IsFiniteSet(S) /\ Cardinality(S) = n
  <2>1. ExistsBijection(1..n, S)
    BY <1>1 DEF ExistsBijection
  <2> QED
    BY <2>1, FS_CountingElements, FS_NatBijection
<1> DEFINE g == Ascending(S)
<1>3. g \in [1..n -> S] /\ Increasing(g, n)
  <2>1. \E q \in [1..n -> S] : \A i, j \in DOMAIN q : i < j => q[i] < q[j]
    <3>1. f \in [1..n -> S] /\ \A i, j \in DOMAIN f : i < j => f[i] < f[j]
      BY DEF Lists, Increasing
    <3> QED
      BY <3>1
  <2>2. g = CHOOSE q \in [1..n -> S] : \A i, j \in DOMAIN q : i < j => q[i] < q[j]
    BY <1>2 DEF Ascending
  <2>3. g \in [1..n -> S] /\ \A i, j \in DOMAIN g : i < j => g[i] < g[j]
    BY <2>1, <2>2
  <2> QED
    BY <2>3 DEF Increasing
<1> HIDE DEF g
<1>4. g \in Injection(1..n, S)
  BY <1>3, IncreasingInjects
<1>5. IsFiniteSet(1..n) /\ Cardinality(1..n) = n
  BY FS_Interval
<1>6. g \in Surjection(1..n, S)
  BY <1>2, <1>4, <1>5, FS_Injection
<1>7. Lists(g, n, S)
  BY <1>3, <1>6 DEF Lists, Surjection
<1>8. g = f
  BY <1>7, IncreasingUnique
<1> QED
  BY <1>8 DEF g

-----------------------------------------------------------------------------
(***************************************************************************)
(* The positions in a group when the loops are done.                       *)
(***************************************************************************)

\* A record of subject s is in its group, under its own resource and scope.
LEMMA PlaceOfRecord ==
    ASSUME GrouperInv, next > Len(payload), NEW s \in DOMAIN dest, NEW i \in RecordsOf(s)
    PROVE  LET t == dest[s].tree IN
           \E q, e, k \in Nat : /\ IsPlace(t, q, e, k) /\ RecordAt(t, q, e, k) = i
                               /\ payload[i].res = t[q].res
                               /\ payload[i].scope = t[q].scopes[e].scope
<1> DEFINE t == dest[s].tree
<1>1. i \in 1..Len(payload) /\ payload[i].subject = s /\ Len(payload) \in Nat /\ next \in Nat
  BY DEF RecordsOf, GrouperInv
<1>2. NoneMissing(t, s, next) /\ OwnRecords(t, s, next)
  BY DEF GrouperInv, GroupKept
<1>3. i < next
  BY <1>1
<1>4. PICK q \in Nat, e \in Nat, k \in Nat : IsPlace(t, q, e, k) /\ RecordAt(t, q, e, k) = i
  BY <1>1, <1>2, <1>3 DEF NoneMissing
<1>5. Fits(i, t, q, e, s, next)
  BY <1>2, <1>4 DEF OwnRecords
<1> QED
  BY <1>4, <1>5 DEF Fits

\* What a group has in a place is a record of its subject, resource and scope.
LEMMA RecordOfPlace ==
    ASSUME GrouperInv, NEW s \in DOMAIN dest, NEW q \in Nat, NEW e \in Nat, NEW k \in Nat,
           IsPlace(dest[s].tree, q, e, k)
    PROVE  LET t == dest[s].tree IN
           RecordAt(t, q, e, k) \in InScope(s, t[q].res, t[q].scopes[e].scope)
<1> DEFINE t == dest[s].tree
           i == RecordAt(t, q, e, k)
<1>1. Fits(i, t, q, e, s, next) /\ payload \in Seq(Record)
  BY DEF GrouperInv, GroupKept, OwnRecords
<1> HIDE DEF i, t
<1>2. /\ i \in DOMAIN payload /\ payload[i].subject = s
      /\ payload[i].res = t[q].res /\ payload[i].scope = t[q].scopes[e].scope
  BY <1>1 DEF Fits
<1>3. i \in InScope(s, t[q].res, t[q].scopes[e].scope)
  BY <1>2 DEF InScope, InResource, RecordsOf
<1> QED
  BY <1>3 DEF i, t

\* Positions are numbers.
LEMMA NaivePositions ==
    ASSUME GrouperInv, NEW s
    PROVE  /\ RecordsOf(s) \subseteq Nat /\ NonEmptyResources(s) \subseteq Nat
           /\ \A r : NonEmptyScopes(s, r) \subseteq Nat
           /\ \A r, c : InScope(s, r, c) \subseteq Nat
<1>1. payload \in Seq(Record) /\ DOMAIN payload = 1..Len(payload) /\ Len(payload) \in Nat
  BY DEF GrouperInv
<1>2. \A i \in DOMAIN payload : i \in Nat /\ payload[i].res \in Nat /\ payload[i].scope \in Nat
  <2> SUFFICES ASSUME NEW i \in DOMAIN payload
               PROVE  i \in Nat /\ payload[i].res \in Nat /\ payload[i].scope \in Nat
    OBVIOUS
  <2>1. i \in Nat /\ payload[i] \in Record
    BY <1>1
  <2> QED
    BY <2>1, GrouperAssumption DEF Record
<1> QED
  BY <1>2 DEF RecordsOf, NonEmptyResources, NonEmptyScopes, InScope, InResource

\* The tree of a group, and what ContextsCopiedOnce says of it.
LEMMA TreeAscends ==
    ASSUME GrouperInv, NEW s \in DOMAIN dest
    PROVE  LET t == dest[s].tree IN
           /\ t \in Seq(ResourceNode) /\ Len(t) \in Nat
           /\ \A q, x \in 1..Len(t) : q < x => t[q].res < t[x].res
           /\ \A q \in 1..Len(t) :
                /\ t[q] \in ResourceNode
                /\ Len(t[q].scopes) \in Nat /\ Len(t[q].scopes) > 0
                /\ \A e, y \in 1..Len(t[q].scopes) :
                     e < y => t[q].scopes[e].scope < t[q].scopes[y].scope
                /\ \A e \in 1..Len(t[q].scopes) :
                     Len(t[q].scopes[e].recs) \in Nat /\ Len(t[q].scopes[e].recs) > 0
<1> DEFINE t == dest[s].tree
<1>1. t \in Seq(ResourceNode)
  BY DEF GrouperInv, GroupKept, WellFormed, Dest
<1>2. /\ \A q, x \in 1..Len(t) : q < x => t[q].res < t[x].res
      /\ \A q \in 1..Len(t) :
           /\ Len(t[q].scopes) > 0
           /\ \A e, y \in 1..Len(t[q].scopes) :
                e < y => t[q].scopes[e].scope < t[q].scopes[y].scope
           /\ \A e \in 1..Len(t[q].scopes) : Len(t[q].scopes[e].recs) > 0
  BY ContextsAscend DEF ContextsCopiedOnce
<1> HIDE DEF t
<1>3. /\ Len(t) \in Nat
      /\ \A q \in 1..Len(t) : t[q] \in ResourceNode /\ Len(t[q].scopes) \in Nat
      /\ \A q \in 1..Len(t) : \A e \in 1..Len(t[q].scopes) : Len(t[q].scopes[e].recs) \in Nat
  BY <1>1, TreeTypes
<1> QED
  BY <1>1, <1>2, <1>3 DEF t

-----------------------------------------------------------------------------
(***************************************************************************)
(* The three levels of the naive tree.                                     *)
(***************************************************************************)

\* Every node has a first record.
LEMMA FirstPlaces ==
    ASSUME GrouperInv, NEW s \in DOMAIN dest, NEW q \in 1..Len(dest[s].tree)
    PROVE  LET t == dest[s].tree IN
           /\ 1 \in 1..Len(t[q].scopes)
           /\ \A e \in 1..Len(t[q].scopes) : q \in Nat /\ e \in Nat /\ IsPlace(t, q, e, 1)
<1> DEFINE t == dest[s].tree
<1>1. /\ q \in 1..Len(t) /\ Len(t) \in Nat
      /\ Len(t[q].scopes) \in Nat /\ Len(t[q].scopes) > 0
      /\ \A e \in 1..Len(t[q].scopes) :
           Len(t[q].scopes[e].recs) \in Nat /\ Len(t[q].scopes[e].recs) > 0
  BY TreeAscends
<1> HIDE DEF t
<1>2. ASSUME NEW e \in 1..Len(t[q].scopes)
      PROVE  q \in Nat /\ e \in Nat /\ 1 \in 1..Len(t[q].scopes[e].recs)
  <2> DEFINE l == Len(t[q].scopes[e].recs)
  <2>1. l \in Nat /\ l > 0
    BY <1>1
  <2> HIDE DEF l
  <2>2. 1 \in 1..l
    BY <2>1
  <2>3. q \in Nat /\ e \in Nat
    BY <1>1
  <2> QED
    BY <2>2, <2>3 DEF l
<1>3. 1 \in 1..Len(t[q].scopes)
  BY <1>1
<1> QED
  BY <1>1, <1>2, <1>3 DEF IsPlace, t

\* The resources of a group are those its subject has records in.
LEMMA ResourcesListed ==
    ASSUME GrouperInv, next > Len(payload), NEW s \in DOMAIN dest
    PROVE  LET t == dest[s].tree IN
           Ascending(NonEmptyResources(s)) = [q \in 1..Len(t) |-> t[q].res]
<1> DEFINE t == dest[s].tree
           f == [q \in 1..Len(t) |-> t[q].res]
           S == NonEmptyResources(s)
<1>1. Len(t) \in Nat /\ \A q, x \in 1..Len(t) : q < x => t[q].res < t[x].res
  BY TreeAscends
<1>2. ASSUME NEW q \in 1..Len(t) PROVE t[q].res \in S
  <2>1. 1 \in Nat /\ q \in Nat /\ IsPlace(t, q, 1, 1)
    BY FirstPlaces
  <2>2. RecordAt(t, q, 1, 1) \in InScope(s, t[q].res, t[q].scopes[1].scope)
    BY <2>1, RecordOfPlace
  <2> QED
    BY <2>2 DEF InScope, InResource, NonEmptyResources
<1>3. ASSUME NEW r \in S PROVE \E q \in 1..Len(t) : t[q].res = r
  <2>1. PICK i \in RecordsOf(s) : payload[i].res = r
    BY DEF NonEmptyResources
  <2>2. PICK q \in Nat, e \in Nat, k \in Nat : IsPlace(t, q, e, k) /\ payload[i].res = t[q].res
    BY PlaceOfRecord
  <2> QED
    BY <2>1, <2>2 DEF IsPlace
<1> HIDE DEF t, S
<1>4. Lists(f, Len(t), S)
  BY <1>1, <1>2, <1>3 DEF Lists, Increasing
<1>5. S \subseteq Nat
  BY NaivePositions DEF S
<1> HIDE DEF f
<1>6. Ascending(S) = f
  BY <1>1, <1>4, <1>5, AscendingIs
<1> QED
  BY <1>6 DEF f, t, S

\* The scopes of a resource of a group are those its subject has records in.
LEMMA ScopesListed ==
    ASSUME GrouperInv, next > Len(payload), NEW s \in DOMAIN dest,
           NEW q \in 1..Len(dest[s].tree)
    PROVE  LET t == dest[s].tree IN
           Ascending(NonEmptyScopes(s, t[q].res))
             = [e \in 1..Len(t[q].scopes) |-> t[q].scopes[e].scope]
<1> DEFINE t == dest[s].tree
           n == Len(t[q].scopes)
           f == [e \in 1..n |-> t[q].scopes[e].scope]
           S == NonEmptyScopes(s, t[q].res)
<1>1. n \in Nat /\ \A e, y \in 1..n : e < y => t[q].scopes[e].scope < t[q].scopes[y].scope
  BY TreeAscends
<1>2. ASSUME NEW e \in 1..n PROVE t[q].scopes[e].scope \in S
  <2>1. 1 \in Nat /\ q \in Nat /\ e \in Nat /\ IsPlace(t, q, e, 1)
    BY FirstPlaces
  <2>2. RecordAt(t, q, e, 1) \in InScope(s, t[q].res, t[q].scopes[e].scope)
    BY <2>1, RecordOfPlace
  <2> QED
    BY <2>2 DEF InScope, NonEmptyScopes
<1>3. ASSUME NEW c \in S PROVE \E e \in 1..n : t[q].scopes[e].scope = c
  <2>1. PICK i \in RecordsOf(s) : payload[i].res = t[q].res /\ payload[i].scope = c
    BY DEF NonEmptyScopes, InResource
  <2>2. PICK x \in Nat, e \in Nat, k \in Nat :
          /\ IsPlace(t, x, e, k)
          /\ payload[i].res = t[x].res /\ payload[i].scope = t[x].scopes[e].scope
    BY PlaceOfRecord
  <2>3. x = q
    <3>1. /\ \A y, z \in 1..Len(t) : y < z => t[y].res < t[z].res
          /\ Len(t) \in Nat /\ x \in 1..Len(t) /\ q \in 1..Len(t) /\ t[x].res = t[q].res
      BY <2>1, <2>2, TreeAscends DEF IsPlace
    <3>2. t[q].res \in Nat
      <4>1. t[q] \in ResourceNode
        BY TreeAscends
      <4> QED
        BY <4>1, GrouperAssumption DEF ResourceNode
    <3> HIDE DEF t
    <3>3. ~(x < q) /\ ~(q < x)
      BY <3>1, <3>2
    <3> QED
      BY <3>1, <3>3
  <2> QED
    BY <2>1, <2>2, <2>3 DEF IsPlace
<1> HIDE DEF t, S, n
<1>4. Lists(f, n, S)
  BY <1>1, <1>2, <1>3 DEF Lists, Increasing
<1>5. S \subseteq Nat
  BY NaivePositions DEF S
<1> HIDE DEF f
<1>6. Ascending(S) = f
  BY <1>1, <1>4, <1>5, AscendingIs
<1> QED
  BY <1>6 DEF f, t, S, n

\* The records of a scope of a group are its subject's there.
LEMMA RecordsListed ==
    ASSUME GrouperInv, next > Len(payload), NEW s \in DOMAIN dest,
           NEW q \in 1..Len(dest[s].tree), NEW e \in 1..Len(dest[s].tree[q].scopes)
    PROVE  LET t == dest[s].tree IN
           Ascending(InScope(s, t[q].res, t[q].scopes[e].scope)) = t[q].scopes[e].recs
<1> DEFINE t == dest[s].tree
           f == t[q].scopes[e].recs
           n == Len(f)
           S == InScope(s, t[q].res, t[q].scopes[e].scope)
<1>1. q \in Nat /\ e \in Nat /\ q \in 1..Len(t) /\ e \in 1..Len(t[q].scopes)
  BY FirstPlaces
<1>2. f \in Seq(Nat)
  <2> DEFINE ss == t[q].scopes
  <2>1. ss \in Seq(ScopeNode)
    BY TreeAscends, TreeTypes
  <2>2. e \in 1..Len(ss)
    OBVIOUS
  <2> HIDE DEF ss
  <2>3. ss[e] \in ScopeNode
    BY <2>1, <2>2
  <2> QED
    BY <2>3 DEF ScopeNode, ss
<1>3. n \in Nat
  <2> HIDE DEF f
  <2> QED
    BY <1>2
<1>4. \A k \in 1..n : k \in Nat /\ IsPlace(t, q, e, k) /\ RecordAt(t, q, e, k) = f[k]
  BY <1>1 DEF IsPlace, RecordAt
<1>5. ASSUME NEW k \in 1..n PROVE f[k] \in S
  BY <1>1, <1>4, RecordOfPlace
<1>6. Increasing(f, n)
  <2> SUFFICES ASSUME NEW k \in 1..n, NEW z \in 1..n, k < z PROVE f[k] < f[z]
    BY DEF Increasing
  <2>1. InOrder(t)
    BY DEF GrouperInv, GroupKept
  <2>2. Earlier(q, e, k, q, e, z)
    BY DEF Earlier
  <2>3. RecordAt(t, q, e, k) < RecordAt(t, q, e, z)
    BY <1>1, <1>4, <2>1, <2>2 DEF InOrder
  <2> QED
    BY <1>4, <2>3
<1>7. ASSUME NEW i \in S PROVE \E k \in 1..n : f[k] = i
  <2>1. i \in RecordsOf(s) /\ payload[i].res = t[q].res /\ payload[i].scope = t[q].scopes[e].scope
    BY DEF InScope, InResource
  <2>2. PICK x \in Nat, y \in Nat, k \in Nat :
          /\ IsPlace(t, x, y, k) /\ RecordAt(t, x, y, k) = i
          /\ payload[i].res = t[x].res /\ payload[i].scope = t[x].scopes[y].scope
    BY <2>1, PlaceOfRecord
  <2>3. /\ \A b, z \in 1..Len(t) : b < z => t[b].res < t[z].res
        /\ \A b, z \in 1..Len(t[q].scopes) :
             b < z => t[q].scopes[b].scope < t[q].scopes[z].scope
    BY TreeAscends
  <2>4. t[q].res \in Nat /\ t[q].scopes[e].scope \in Nat
    <3>1. payload[i].res \in Nat /\ payload[i].scope \in Nat
      <4>1. payload[i] \in Record
        BY <2>1 DEF GrouperInv, RecordsOf
      <4> QED
        BY <4>1, GrouperAssumption DEF Record
    <3> QED
      BY <2>1, <3>1
  <2> HIDE DEF t, f, n
  <2>5. x = q
    <3>1. x \in 1..Len(t) /\ t[x].res = t[q].res
      BY <2>1, <2>2 DEF IsPlace
    <3>2. ~(x < q) /\ ~(q < x)
      BY <1>1, <2>3, <2>4, <3>1
    <3> QED
      BY <1>1, <2>2, <3>2
  <2>6. y = e
    <3> DEFINE c == [z \in 1..Len(t[q].scopes) |-> t[q].scopes[z].scope]
    <3>1. y \in 1..Len(t[q].scopes) /\ t[q].scopes[y].scope = t[q].scopes[e].scope
      BY <2>1, <2>2, <2>5 DEF IsPlace
    <3>2. c[y] = c[e] /\ c[e] \in Nat /\ (y < e => c[y] < c[e]) /\ (e < y => c[e] < c[y])
      BY <1>1, <2>3, <2>4, <3>1
    <3> HIDE DEF c
    <3>3. ~(y < e) /\ ~(e < y)
      BY <3>2
    <3> QED
      BY <1>1, <2>2, <3>3
  <2> QED
    BY <2>2, <2>5, <2>6 DEF IsPlace, RecordAt, f, n, t
<1> HIDE DEF t, f, S
<1>8. f \in [1..n -> S]
  BY <1>2, <1>5
<1> HIDE DEF n
<1>9. Lists(f, n, S)
  BY <1>6, <1>7, <1>8 DEF Lists
<1>10. S \subseteq Nat
  BY NaivePositions DEF S
<1>11. Ascending(S) = f
  BY <1>3, <1>9, <1>10, AscendingIs
<1> QED
  BY <1>11 DEF f, t, S

\* So a group is the naive one.
LEMMA TreeIsNaive ==
    ASSUME GrouperInv, next > Len(payload), NEW s \in DOMAIN dest
    PROVE  dest[s].tree = NaiveTree(s)
<1> DEFINE t == dest[s].tree
           rs == Ascending(NonEmptyResources(s))
<1>1. rs = [q \in 1..Len(t) |-> t[q].res]
  BY ResourcesListed
<1>2. ASSUME NEW q \in 1..Len(t)
      PROVE  t[q] = [res |-> rs[q], scopes |-> NaiveScopes(s, rs[q])]
  <2> DEFINE cs == Ascending(NonEmptyScopes(s, t[q].res))
             old == t[q].scopes
  <2>1. t[q] \in ResourceNode /\ rs[q] = t[q].res
    BY <1>1, TreeAscends
  <2>2. old \in Seq(ScopeNode)
    BY <2>1 DEF ResourceNode
  <2>3. cs = [e \in 1..Len(old) |-> old[e].scope]
    BY ScopesListed
  <2>4. ASSUME NEW e \in 1..Len(old)
        PROVE  old[e] = [scope |-> cs[e], recs |-> Ascending(InScope(s, t[q].res, cs[e]))]
    <3>1. Ascending(InScope(s, t[q].res, old[e].scope)) = old[e].recs
      BY RecordsListed
    <3> HIDE DEF old
    <3>2. old[e] \in ScopeNode /\ cs[e] = old[e].scope
      BY <2>2, <2>3
    <3> HIDE DEF cs
    <3> QED
      BY <3>1, <3>2 DEF ScopeNode, old
  <2>5. NaiveScopes(s, t[q].res)
          = [e \in DOMAIN cs |-> [scope |-> cs[e],
                                  recs |-> Ascending(InScope(s, t[q].res, cs[e]))]]
    BY DEF NaiveScopes
  <2> HIDE DEF old
  <2>6. DOMAIN cs = 1..Len(old) /\ old = [e \in 1..Len(old) |-> old[e]]
    BY <2>2, <2>3
  <2> HIDE DEF cs
  <2>7. old = NaiveScopes(s, t[q].res)
    BY <2>4, <2>5, <2>6
  <2> HIDE DEF t, rs
  <2> QED
    BY <2>1, <2>7 DEF ResourceNode, old
<1>3. NaiveTree(s) = [q \in DOMAIN rs |-> [res |-> rs[q], scopes |-> NaiveScopes(s, rs[q])]]
  BY DEF NaiveTree
<1>4. t \in Seq(ResourceNode)
  BY TreeAscends
<1> HIDE DEF t
<1>5. DOMAIN rs = 1..Len(t) /\ t = [q \in 1..Len(t) |-> t[q]]
  BY <1>1, <1>4
<1> HIDE DEF rs
<1>6. t = NaiveTree(s)
  BY <1>2, <1>3, <1>5
<1> QED
  BY <1>6 DEF t

-----------------------------------------------------------------------------
(***************************************************************************)
(* Which groups and errors there are.                                      *)
(***************************************************************************)

\* Errors are kept for the records without a subject the loops have passed, and
\* there is a destination only for a subject seen.
SeenSoFar ==
    /\ errs = {i \in 1..Len(payload) : i < next /\ payload[i].subject = NoSubject}
    /\ \A s \in DOMAIN dest : \E i \in 1..Len(payload) : i < next /\ payload[i].subject = s

LEMMA SeenStep == GrouperInv /\ SeenSoFar /\ [Next]_vars => SeenSoFar'
<1> SUFFICES ASSUME GrouperInv, SeenSoFar, [Next]_vars PROVE SeenSoFar'
  OBVIOUS
<1>1. next \in Nat /\ Len(payload) \in Nat /\ next > 0
  BY DEF GrouperInv
<1>2. CASE UNCHANGED vars
  BY <1>2 DEF vars, SeenSoFar
<1>3. CASE SkipRecord
  <2>1. /\ next \in 1..Len(payload) /\ payload[next].subject = NoSubject
        /\ next' = next + 1 /\ payload' = payload /\ dest' = dest /\ errs' = errs \cup {next}
    BY <1>1, <1>3 DEF SkipRecord
  <2>2. \A i \in 1..Len(payload) : i < next + 1 <=> (i < next \/ i = next)
    BY <1>1
  <2> QED
    BY <2>1, <2>2 DEF SeenSoFar
<1>4. CASE CopyRecord
  <2>1. /\ next \in 1..Len(payload) /\ payload[next].subject # NoSubject
        /\ next' = next + 1 /\ payload' = payload /\ errs' = errs
        /\ DOMAIN dest' = DOMAIN dest \cup {payload[next].subject}
    BY <1>1, <1>4 DEF CopyRecord
  <2>2. \A i \in 1..Len(payload) : i < next + 1 <=> (i < next \/ i = next)
    BY <1>1
  <2> QED
    BY <2>1, <2>2 DEF SeenSoFar
<1> QED
  BY <1>2, <1>3, <1>4 DEF Next

\* Group gives what the tests' naive grouping gives, for payloads of any size and
\* shape: the same groups, with the same tree each, and the same errors.
THEOREM GroupMatchesNaive == Spec => []MatchesNaive
<1>1. Init => SeenSoFar
  <2> SUFFICES ASSUME Init PROVE SeenSoFar
    OBVIOUS
  <2>1. payload \in Seq(Record) /\ next = 1 /\ errs = {} /\ DOMAIN dest = {}
    BY GrouperInit DEF Init, GrouperInv
  <2> QED
    BY <2>1 DEF SeenSoFar
<1>2. GrouperInv /\ SeenSoFar => MatchesNaive
  <2> SUFFICES ASSUME GrouperInv, SeenSoFar, next > Len(payload) PROVE MatchesNaive
    BY DEF MatchesNaive
  <2>1. /\ DOMAIN payload = 1..Len(payload) /\ \A i \in 1..Len(payload) : i < next
        /\ NoSubject \notin DOMAIN dest
    BY GrouperAssumption DEF GrouperInv
  <2>2. errs = RecordsOf(NoSubject)
    BY <2>1 DEF SeenSoFar, RecordsOf
  <2>3. DOMAIN dest = {payload[i].subject : i \in DOMAIN payload} \ {NoSubject}
    BY <2>1 DEF SeenSoFar, GrouperInv
  <2>4. Groups = {[subject |-> s, data |-> NaiveTree(s)] : s \in DOMAIN dest}
    BY TreeIsNaive DEF Groups
  <2> QED
    BY <2>2, <2>3, <2>4 DEF MatchesNaive
<1>3. Spec => [](GrouperInv /\ SeenSoFar)
  BY <1>1, SeenStep, GrouperInit, GrouperStep, PTL DEF Spec
<1> QED
  BY <1>2, <1>3, PTL

=============================================================================
