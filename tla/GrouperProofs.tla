---------------------------- MODULE GrouperProofs ----------------------------
(***************************************************************************)
(* Proofs about Grouper, for any payload over any resources, scopes and    *)
(* subjects: the groups partition the records that have a subject.         *)
(*                                                                         *)
(* Copying a record goes in three steps, each of which leaves the tree of  *)
(* its group as it was but for the last resource, and in that for the last *)
(* scope.  So the tree gains one place, after all it had, and the record   *)
(* in it is later in the payload than all it had.                          *)
(***************************************************************************)
EXTENDS Grouper, TLAPS

-----------------------------------------------------------------------------
(***************************************************************************)
(* Trees.                                                                  *)
(***************************************************************************)

ScopeNode    == [scope : Scopes, recs : Seq(Nat)]
ResourceNode == [res : Resources, scopes : Seq(ScopeNode)]
Dest         == [res : Nat, scope : Nat \X Nat, tree : Seq(ResourceNode)]

\* Record k of scope e of resource q.
IsPlace(t, q, e, k) ==
    /\ q \in 1..Len(t)
    /\ e \in 1..Len(t[q].scopes)
    /\ k \in 1..Len(t[q].scopes[e].recs)

RecordAt(t, q, e, k) == t[q].scopes[e].recs[k]

\* One place comes before another.
Earlier(q, e, k, x, y, z) ==
    q < x \/ (q = x /\ e < y) \/ (q = x /\ e = y /\ k < z)

\* The destination remembers its last resource and scope, or has none yet.
Remembers(d) ==
    LET n == Len(d.tree)
        k == Len(d.tree[n].scopes) IN
    /\ n > 0 /\ d.res = d.tree[n].res
    /\ k > 0 /\ d.scope = <<d.res, d.tree[n].scopes[k].scope>>

WellFormed(d) == d \in Dest /\ (d = EmptyDest \/ Remembers(d))

\* A tree has fewer than n resources, scopes in a resource and records in a scope.
Shorter(t, n) ==
    /\ Len(t) < n
    /\ \A q \in 1..Len(t) :
         /\ Len(t[q].scopes) < n
         /\ \A e \in 1..Len(t[q].scopes) : Len(t[q].scopes[e].recs) < n

-----------------------------------------------------------------------------
(***************************************************************************)
(* The inductive invariant.                                                *)
(***************************************************************************)

\* Record i may be in scope e of resource q of the group of subject s, when the
\* loops have come to record n.
Fits(i, t, q, e, s, n) ==
    /\ i \in 1..Len(payload) /\ i < n
    /\ payload[i].subject = s
    /\ payload[i].res = t[q].res
    /\ payload[i].scope = t[q].scopes[e].scope

OwnRecords(t, s, n) ==
    \A q, e, k \in Nat : IsPlace(t, q, e, k) => Fits(RecordAt(t, q, e, k), t, q, e, s, n)

InOrder(t) ==
    \A q, e, k, x, y, z \in Nat :
        IsPlace(t, q, e, k) /\ IsPlace(t, x, y, z) /\ Earlier(q, e, k, x, y, z) =>
            RecordAt(t, q, e, k) < RecordAt(t, x, y, z)

NoneMissing(t, s, n) ==
    \A i \in 1..Len(payload) : i < n /\ payload[i].subject = s =>
        \E q, e, k \in Nat : IsPlace(t, q, e, k) /\ RecordAt(t, q, e, k) = i

\* Nothing is empty, and no context is copied twice in a row.
NoneEmpty(t) ==
    \A q \in 1..Len(t) :
        /\ Len(t[q].scopes) > 0
        /\ \A e \in 1..Len(t[q].scopes) : Len(t[q].scopes[e].recs) > 0

NeighboursDiffer(t) ==
    /\ \A q \in 1..Len(t) : q > 1 => t[q].res # t[q - 1].res
    /\ \A q \in 1..Len(t) : \A e \in 1..Len(t[q].scopes) :
         e > 1 => t[q].scopes[e].scope # t[q].scopes[e - 1].scope

Apart(t) == NoneEmpty(t) /\ NeighboursDiffer(t)

GroupKept(d, s, n) ==
    /\ WellFormed(d)
    /\ Shorter(d.tree, n)
    /\ OwnRecords(d.tree, s, n)
    /\ InOrder(d.tree)
    /\ NoneMissing(d.tree, s, n)
    /\ Apart(d.tree)

GrouperInv ==
    /\ payload \in Seq(Record) /\ Len(payload) <= MaxRecords /\ InLoopOrder(payload)
    /\ next \in 1..(Len(payload) + 1)
    /\ DOMAIN dest \subseteq Subjects
    /\ \A s \in DOMAIN dest : GroupKept(dest[s], s, next)
    /\ \A i \in 1..Len(payload) :
         i < next => payload[i].subject \in DOMAIN dest \cup {NoSubject}

-----------------------------------------------------------------------------
(***************************************************************************)
(* Sequences.                                                              *)
(***************************************************************************)

\* Appending, and replacing the last element.
LEMMA AppendLast ==
    ASSUME NEW S, NEW s \in Seq(S), NEW x \in S
    PROVE  /\ Append(s, x) \in Seq(S)
           /\ Len(Append(s, x)) = Len(s) + 1
           /\ Append(s, x)[Len(s) + 1] = x
           /\ \A q \in 1..Len(s) : Append(s, x)[q] = s[q]
OBVIOUS

LEMMA ReplaceLast ==
    ASSUME NEW S, NEW s \in Seq(S), Len(s) > 0, NEW x \in S
    PROVE  LET r == [s EXCEPT ![Len(s)] = x] IN
           /\ r \in Seq(S)
           /\ Len(r) = Len(s)
           /\ r[Len(s)] = x
           /\ \A q \in 1..Len(s) : q # Len(s) => r[q] = s[q]
<1> DEFINE r == [s EXCEPT ![Len(s)] = x]
<1>1. /\ Len(s) \in Nat /\ DOMAIN s = 1..Len(s) /\ Len(s) \in 1..Len(s)
      /\ \A q \in 1..Len(s) : s[q] \in S
  OBVIOUS
<1>2. DOMAIN r = 1..Len(s)
  BY <1>1
<1>3. r[Len(s)] = x /\ \A q \in 1..Len(s) : q # Len(s) => r[q] = s[q]
  BY <1>1
<1>4. r \in [1..Len(s) -> S]
  BY <1>1
<1>5. r \in Seq(S)
  BY <1>1, <1>4
<1>6. Len(r) = Len(s)
  BY <1>1, <1>2, <1>5
<1> QED
  BY <1>3, <1>5, <1>6

\* The lengths in a tree are natural numbers.
LEMMA TreeTypes ==
    ASSUME NEW t \in Seq(ResourceNode)
    PROVE  /\ Len(t) \in Nat
           /\ \A q \in 1..Len(t) : /\ t[q] \in ResourceNode
                                   /\ t[q].scopes \in Seq(ScopeNode)
                                   /\ Len(t[q].scopes) \in Nat
           /\ \A q \in 1..Len(t) : \A e \in 1..Len(t[q].scopes) :
                Len(t[q].scopes[e].recs) \in Nat
<1>1. Len(t) \in Nat /\ \A q \in 1..Len(t) : t[q] \in ResourceNode
  OBVIOUS
<1>2. ASSUME NEW q \in 1..Len(t) PROVE t[q].scopes \in Seq(ScopeNode)
  <2>1. t[q] \in ResourceNode
    BY <1>1
  <2> QED
    BY <2>1 DEF ResourceNode
<1>3. ASSUME NEW q \in 1..Len(t)
      PROVE  /\ Len(t[q].scopes) \in Nat
             /\ \A e \in 1..Len(t[q].scopes) : t[q].scopes[e] \in ScopeNode
  <2> DEFINE ss == t[q].scopes
  <2>1. ss \in Seq(ScopeNode)
    BY <1>2
  <2> HIDE DEF ss
  <2>2. Len(ss) \in Nat /\ \A e \in 1..Len(ss) : ss[e] \in ScopeNode
    BY <2>1
  <2> QED
    BY <2>2 DEF ss
<1>4. ASSUME NEW q \in 1..Len(t), NEW e \in 1..Len(t[q].scopes)
      PROVE  Len(t[q].scopes[e].recs) \in Nat
  <2> DEFINE rs == t[q].scopes[e].recs
  <2>1. t[q].scopes[e] \in ScopeNode
    BY <1>3
  <2>2. rs \in Seq(Nat)
    BY <2>1 DEF ScopeNode
  <2> HIDE DEF rs
  <2>3. Len(rs) \in Nat
    BY <2>2
  <2> QED
    BY <2>3 DEF rs
<1> QED
  BY <1>1, <1>2, <1>3, <1>4

-----------------------------------------------------------------------------
(***************************************************************************)
(* The three steps of copying a record.                                    *)
(***************************************************************************)

\* The last resource is the record's own: it was, or it is new and without scopes.
LEMMA AddResource ==
    ASSUME NEW d \in Dest, NEW rec \in Record, d = EmptyDest \/ Remembers(d)
    PROVE  LET u == WithResource(d, rec)
               n == Len(u.tree) IN
           /\ u \in Dest /\ n > 0 /\ u.res = rec.res /\ u.scope = d.scope
           /\ u.tree[n].res = rec.res
           /\ \A q \in 1..n : q # n => u.tree[q] = d.tree[q]
           /\ \/ n = Len(d.tree) /\ u.tree[n] = d.tree[n] /\ u = d /\ Remembers(d)
              \/ /\ n = Len(d.tree) + 1 /\ u.tree[n].scopes = <<>> /\ d.scope[1] # rec.res
                 /\ n > 1 => d.tree[n - 1].res # rec.res
<1> DEFINE node == [res |-> rec.res, scopes |-> <<>>]
<1>1. /\ rec.res \in Resources /\ rec.res \in Nat /\ rec.res # 0
      /\ d.tree \in Seq(ResourceNode) /\ d.res \in Nat /\ d.scope \in Nat \X Nat
  BY GrouperAssumption DEF Record, Dest
<1>2. node \in ResourceNode
  BY <1>1 DEF ResourceNode
<1>3. d.scope[1] = d.res
  BY DEF EmptyDest, Remembers
<1>4. CASE d.res = rec.res
  <2>1. WithResource(d, rec) = d
    BY <1>4 DEF WithResource
  <2>2. Remembers(d)
    BY <1>1, <1>4 DEF EmptyDest
  <2>3. Len(d.tree) > 0 /\ d.tree[Len(d.tree)].res = rec.res
    BY <1>4, <2>2 DEF Remembers
  <2> QED
    BY <1>4, <2>1, <2>2, <2>3
<1>5. CASE d.res # rec.res
  <2> DEFINE u == [d EXCEPT !.res = rec.res, !.tree = Append(@, node)]
  <2>1. WithResource(d, rec) = u
    BY <1>5 DEF WithResource
  <2>2. u.tree = Append(d.tree, node) /\ u.res = rec.res /\ u.scope = d.scope
    BY DEF Dest
  <2>3. /\ u.tree \in Seq(ResourceNode) /\ Len(u.tree) = Len(d.tree) + 1
        /\ u.tree[Len(u.tree)] = node
        /\ \A q \in 1..Len(u.tree) : q # Len(u.tree) => u.tree[q] = d.tree[q]
    <3> HIDE DEF node, u
    <3>1. Len(d.tree) \in Nat
      BY <1>1
    <3> QED
      BY <1>1, <1>2, <2>2, <3>1, AppendLast
  <2>4. u \in Dest
    BY <1>1, <2>3 DEF Dest
  <2>5. Len(u.tree) > 0
    BY <1>1, <2>3
  <2>6. node.res = rec.res /\ node.scopes = <<>>
    OBVIOUS
  <2>7. Len(d.tree) > 0 => d.tree[Len(d.tree)].res # rec.res
    BY <1>5 DEF EmptyDest, Remembers
  <2>8. Len(d.tree) \in Nat
    BY <1>1
  <2> HIDE DEF u, node
  <2>9. Len(u.tree) > 1 => d.tree[Len(u.tree) - 1].res # rec.res
    BY <2>3, <2>7, <2>8
  <2> QED
    BY <1>3, <1>5, <2>1, <2>2, <2>3, <2>4, <2>5, <2>6, <2>9
<1> QED
  BY <1>4, <1>5

\* So is the last scope of the last resource; a new one is without records.
LEMMA AddScope ==
    ASSUME NEW d \in Dest, NEW rec \in Record, Len(d.tree) > 0,
           d.scope = <<rec.res, rec.scope>> => Remembers(d)
    PROVE  LET u == WithScope(d, rec)
               n == Len(d.tree)
               l == Len(u.tree[n].scopes) IN
           /\ u \in Dest /\ Len(u.tree) = n /\ u.res = d.res
           /\ u.scope = <<rec.res, rec.scope>>
           /\ u.tree[n].res = d.tree[n].res
           /\ \A q \in 1..n : q # n => u.tree[q] = d.tree[q]
           /\ l > 0 /\ u.tree[n].scopes[l].scope = rec.scope
           /\ \A e \in 1..l : e # l => u.tree[n].scopes[e] = d.tree[n].scopes[e]
           /\ \/ l = Len(d.tree[n].scopes) /\ u.tree[n].scopes[l] = d.tree[n].scopes[l]
              \/ /\ l = Len(d.tree[n].scopes) + 1 /\ u.tree[n].scopes[l].recs = <<>>
                 /\ d.scope # <<rec.res, rec.scope>>
<1> DEFINE n == Len(d.tree)
           node == [scope |-> rec.scope, recs |-> <<>>]
           old == d.tree[n].scopes
<1>1. /\ rec.res \in Resources /\ rec.scope \in Scopes /\ rec.res \in Nat /\ rec.scope \in Nat
      /\ d.tree \in Seq(ResourceNode) /\ d.res \in Nat /\ d.scope \in Nat \X Nat
      /\ n \in Nat /\ n \in 1..n
  <2>1. /\ rec.res \in Resources /\ rec.scope \in Scopes /\ rec.res \in Nat /\ rec.scope \in Nat
        /\ d.tree \in Seq(ResourceNode) /\ d.res \in Nat /\ d.scope \in Nat \X Nat
    BY GrouperAssumption DEF Record, Dest
  <2> QED
    BY <2>1
<1>2. node \in ScopeNode
  BY <1>1 DEF ScopeNode
<1>3. d.tree[n] \in ResourceNode
  BY <1>1
<1>4. old \in Seq(ScopeNode) /\ Len(old) \in Nat
  BY <1>3 DEF ResourceNode
<1>5. CASE d.scope = <<rec.res, rec.scope>>
  <2>1. WithScope(d, rec) = d /\ Remembers(d)
    BY <1>5 DEF WithScope
  <2>2. Len(old) > 0 /\ d.scope = <<d.res, old[Len(old)].scope>>
    BY <2>1 DEF Remembers
  <2>3. old[Len(old)].scope = rec.scope
    BY <1>5, <2>2
  <2> QED
    BY <1>5, <2>1, <2>2, <2>3
<1>6. CASE d.scope # <<rec.res, rec.scope>>
  <2> DEFINE new == Append(old, node)
             last == [d.tree[n] EXCEPT !.scopes = new]
             tree == [d.tree EXCEPT ![n] = last]
             u == [d EXCEPT !.scope = <<rec.res, rec.scope>>, !.tree = tree]
  <2>1. WithScope(d, rec) = u
    BY <1>6 DEF WithScope
  <2>2. /\ new \in Seq(ScopeNode) /\ Len(new) = Len(old) + 1 /\ new[Len(new)] = node
        /\ \A e \in 1..Len(new) : e # Len(new) => new[e] = old[e]
    <3> HIDE DEF node, old
    <3>1. /\ new \in Seq(ScopeNode) /\ Len(new) = Len(old) + 1 /\ new[Len(old) + 1] = node
          /\ \A e \in 1..Len(old) : new[e] = old[e]
      BY <1>2, <1>4, AppendLast
    <3> HIDE DEF new
    <3> QED
      BY <1>4, <3>1
  <2>3. last \in ResourceNode /\ last.scopes = new /\ last.res = d.tree[n].res
    <3> HIDE DEF new, n
    <3> QED
      BY <1>3, <2>2 DEF ResourceNode
  <2>4. /\ tree \in Seq(ResourceNode) /\ Len(tree) = n /\ tree[n] = last
        /\ \A q \in 1..n : q # n => tree[q] = d.tree[q]
    <3> HIDE DEF last
    <3> QED
      BY <1>1, <2>3, ReplaceLast
  <2>5. u.tree = tree /\ u.res = d.res /\ u.scope = <<rec.res, rec.scope>> /\ u \in Dest
    <3> HIDE DEF tree
    <3> QED
      BY <1>1, <2>4 DEF Dest
  <2>6. node.scope = rec.scope /\ node.recs = <<>>
    OBVIOUS
  <2> HIDE DEF u, tree, last, new, node
  <2>7. Len(new) > 0
    BY <1>4, <2>2
  <2> QED
    BY <1>6, <2>1, <2>2, <2>3, <2>4, <2>5, <2>6, <2>7
<1> QED
  BY <1>5, <1>6

\* From destination d to u: to the j records of the last of l scopes of the last of
\* n resources comes i.
Appends(d, u, i, n, l, j) ==
    /\ u \in Dest /\ u.res = d.res /\ u.scope = d.scope
    /\ Len(u.tree) = n /\ u.tree[n].res = d.tree[n].res
    /\ \A q \in 1..n : q # n => u.tree[q] = d.tree[q]
    /\ Len(u.tree[n].scopes) = l
    /\ u.tree[n].scopes[l].scope = d.tree[n].scopes[l].scope
    /\ \A e \in 1..l : e # l => u.tree[n].scopes[e] = d.tree[n].scopes[e]
    /\ Len(u.tree[n].scopes[l].recs) = j + 1
    /\ u.tree[n].scopes[l].recs[j + 1] = i
    /\ \A k \in 1..j : u.tree[n].scopes[l].recs[k] = d.tree[n].scopes[l].recs[k]

\* The record is then the last of the last scope.
LEMMA AddRecord ==
    ASSUME NEW d \in Dest, NEW i \in Nat, Len(d.tree) > 0,
           Len(d.tree[Len(d.tree)].scopes) > 0
    PROVE  LET n == Len(d.tree)
               l == Len(d.tree[n].scopes)
               j == Len(d.tree[n].scopes[l].recs) IN
           Appends(d, WithRecord(d, i), i, n, l, j)
<1> DEFINE n == Len(d.tree)
           old == d.tree[n].scopes
           l == Len(old)
           recs == old[l].recs
           newRecs == Append(recs, i)
           scope == [old[l] EXCEPT !.recs = newRecs]
           scopes == [old EXCEPT ![l] = scope]
           last == [d.tree[n] EXCEPT !.scopes = scopes]
           tree == [d.tree EXCEPT ![n] = last]
           u == [d EXCEPT !.tree = tree]
<1>1. d.tree \in Seq(ResourceNode) /\ n \in Nat /\ n \in 1..n /\ d.tree[n] \in ResourceNode
  BY DEF Dest
<1>2. old \in Seq(ScopeNode) /\ l \in Nat /\ l \in 1..l /\ l > 0
  BY <1>1 DEF ResourceNode
<1>3. old[l] \in ScopeNode
  BY <1>2
<1>4. recs \in Seq(Nat) /\ Len(recs) \in Nat
  BY <1>3 DEF ScopeNode
<1>5. WithRecord(d, i) = u
  BY DEF WithRecord
<1>6. /\ newRecs \in Seq(Nat) /\ Len(newRecs) = Len(recs) + 1 /\ newRecs[Len(recs) + 1] = i
      /\ \A k \in 1..Len(recs) : newRecs[k] = recs[k]
  <2> HIDE DEF recs
  <2> QED
    BY <1>4, AppendLast
<1>7. scope \in ScopeNode /\ scope.recs = newRecs /\ scope.scope = old[l].scope
  <2> HIDE DEF newRecs, old, l
  <2> QED
    BY <1>3, <1>6 DEF ScopeNode
<1>8. /\ scopes \in Seq(ScopeNode) /\ Len(scopes) = l /\ scopes[l] = scope
      /\ \A e \in 1..l : e # l => scopes[e] = old[e]
  <2> HIDE DEF scope, old
  <2> QED
    BY <1>2, <1>7, ReplaceLast
<1>9. last \in ResourceNode /\ last.scopes = scopes /\ last.res = d.tree[n].res
  <2> HIDE DEF scopes, n
  <2> QED
    BY <1>1, <1>8 DEF ResourceNode
<1>10. /\ tree \in Seq(ResourceNode) /\ Len(tree) = n /\ tree[n] = last
       /\ \A q \in 1..n : q # n => tree[q] = d.tree[q]
  <2> HIDE DEF last
  <2> QED
    BY <1>1, <1>9, ReplaceLast
<1>11. u.tree = tree /\ u.res = d.res /\ u.scope = d.scope /\ u \in Dest
  <2> HIDE DEF tree
  <2> QED
    BY <1>10 DEF Dest
<1> HIDE DEF u, tree, last, scopes, scope, newRecs
<1>12. /\ u.tree[n].res = d.tree[n].res /\ Len(u.tree[n].scopes) = l
       /\ u.tree[n].scopes[l] = scope
       /\ \A e \in 1..l : e # l => u.tree[n].scopes[e] = old[e]
  BY <1>8, <1>9, <1>10, <1>11
<1>13. /\ u.tree[n].scopes[l].scope = old[l].scope
       /\ u.tree[n].scopes[l].recs = newRecs
  BY <1>7, <1>12
<1> QED
  BY <1>5, <1>6, <1>10, <1>11, <1>12, <1>13 DEF Appends

-----------------------------------------------------------------------------
(***************************************************************************)
(* Copying a record.                                                       *)
(***************************************************************************)

\* From tree t to tree u: the last of N resources had the scopes O or is new, and
\* the last of its L scopes had the J records R or is new.
Grows(t, u, O, R, N, L, J) ==
    /\ N = Len(u) /\ N > 0
    /\ L = Len(u[N].scopes) /\ L > 0
    /\ J = Len(R)
    /\ \A q \in 1..N : q # N => u[q] = t[q]
    /\ \/ N = Len(t) /\ O = t[N].scopes
       \/ N = Len(t) + 1 /\ Len(O) = 0
    /\ \A e \in 1..L : e # L => u[N].scopes[e] = O[e]
    /\ \/ L = Len(O) /\ R = O[L].recs
       \/ L = Len(O) + 1 /\ J = 0
    /\ Len(u[N].scopes[L].recs) = J + 1

\* Then u has the places of t and the one after them.
LEMMA OnePlaceMore ==
    ASSUME NEW t, NEW u, NEW O, NEW R, NEW N \in Nat, NEW L \in Nat, NEW J \in Nat,
           Len(t) \in Nat, Len(O) \in Nat, Grows(t, u, O, R, N, L, J),
           NEW q \in Nat, NEW e \in Nat, NEW k \in Nat
    PROVE  /\ IsPlace(u, q, e, k) <=> IsPlace(t, q, e, k) \/ (q = N /\ e = L /\ k = J + 1)
           /\ IsPlace(t, q, e, k) => Earlier(q, e, k, N, L, J + 1)
<1> DEFINE M == Len(t)
           K == Len(O)
<1> USE DEF Grows
<1>1. CASE q < N
  <2>1. q \in 1..M <=> q \in 1..N
    BY <1>1
  <2>2. N = Len(u) /\ (q \in 1..N => u[q] = t[q])
    BY <1>1
  <2> HIDE DEF Grows
  <2>3. IsPlace(u, q, e, k) <=> IsPlace(t, q, e, k)
    BY <2>1, <2>2 DEF IsPlace
  <2>4. Earlier(q, e, k, N, L, J + 1) /\ q # N
    BY <1>1 DEF Earlier
  <2> QED
    BY <2>3, <2>4
<1>2. CASE q > N
  <2>1. q \notin 1..M /\ q \notin 1..N /\ q # N
    BY <1>2
  <2> QED
    BY <2>1 DEF IsPlace
<1>3. CASE q = N /\ e < L
  <2>1. q \in 1..N /\ (e \in 1..L <=> e \in 1..K) /\ e # L
    BY <1>3
  <2>2. e \in 1..L => u[N].scopes[e] = O[e]
    BY <2>1
  <2>3. N = M + 1 => q \notin 1..M /\ e \notin 1..K
    BY <1>3
  <2>4. N = M => q \in 1..M
    BY <1>3
  <2>5. N = Len(u) /\ L = Len(u[N].scopes) /\ ((N = M /\ O = t[N].scopes) \/ N = M + 1)
    OBVIOUS
  <2> HIDE DEF Grows
  <2>6. IsPlace(u, q, e, k) <=> e \in 1..L /\ k \in 1..Len(O[e].recs)
    BY <1>3, <2>1, <2>2, <2>5 DEF IsPlace
  <2>7. IsPlace(t, q, e, k) <=> e \in 1..L /\ k \in 1..Len(O[e].recs)
    BY <1>3, <2>1, <2>3, <2>4, <2>5 DEF IsPlace
  <2>8. Earlier(q, e, k, N, L, J + 1)
    BY <1>3 DEF Earlier
  <2> QED
    BY <2>1, <2>6, <2>7, <2>8
<1>4. CASE q = N /\ e > L
  <2>1. e \notin 1..L /\ e \notin 1..K /\ e # L
    BY <1>4
  <2>2. N = M + 1 => q \notin 1..M
    BY <1>4
  <2> QED
    BY <1>4, <2>1, <2>2 DEF IsPlace
<1>5. CASE q = N /\ e = L
  <2>1. q \in 1..N /\ e \in 1..L
    BY <1>5
  <2>2. IsPlace(u, q, e, k) <=> k \in 1..(J + 1)
    BY <1>5, <2>1 DEF IsPlace
  <2>3. k \in 1..(J + 1) <=> k \in 1..J \/ k = J + 1
    OBVIOUS
  <2>4. CASE N = M /\ O = t[N].scopes /\ L = K /\ R = O[L].recs
    <3>1. q \in 1..M /\ e \in 1..Len(t[q].scopes) /\ J = Len(t[q].scopes[e].recs)
      BY <1>5, <2>1, <2>4
    <3>2. IsPlace(t, q, e, k) <=> k \in 1..J
      BY <3>1 DEF IsPlace
    <3>3. k \in 1..J => k < J + 1
      OBVIOUS
    <3> QED
      BY <1>5, <2>2, <2>3, <3>2, <3>3 DEF Earlier
  <2>5. CASE ~ (N = M /\ O = t[N].scopes /\ L = K /\ R = O[L].recs)
    <3>1. ~ IsPlace(t, q, e, k)
      <4>1. CASE N = M + 1
        <5>1. q \notin 1..M
          BY <1>5, <4>1
        <5> QED
          BY <5>1 DEF IsPlace
      <4>2. CASE N = M /\ O = t[N].scopes /\ L = K + 1
        <5>1. e \notin 1..K
          BY <1>5, <4>2
        <5> QED
          BY <1>5, <4>2, <5>1 DEF IsPlace
      <4> QED
        BY <2>5, <4>1, <4>2
    <3>2. J = 0
      BY <2>5
    <3>3. k \in 1..(J + 1) <=> k = J + 1
      BY <3>2
    <3> QED
      BY <1>5, <2>2, <3>1, <3>3
  <2> QED
    BY <2>4, <2>5
<1> QED
  BY <1>1, <1>2, <1>3, <1>4, <1>5

\* And u has no context twice in a row if t has none and what is new differs from
\* what it comes after.
LEMMA ContextsApart ==
    ASSUME NEW t \in Seq(ResourceNode), NEW u, NEW O, NEW R,
           NEW N \in Nat, NEW L \in Nat, NEW J \in Nat,
           Len(O) \in Nat, Grows(t, u, O, R, N, L, J), Apart(t),
           IF N = Len(t) THEN u[N].res = t[N].res
                         ELSE N > 1 => u[N].res # t[N - 1].res,
           IF L = Len(O) THEN u[N].scopes[L].scope = O[L].scope
                         ELSE L > 1 => u[N].scopes[L].scope # O[L - 1].scope
    PROVE  Apart(u)
<1>1. Len(t) \in Nat
  OBVIOUS
<1>2. ASSUME NEW q \in 1..N, q # N
      PROVE  q \in 1..Len(t) /\ u[q] = t[q]
  BY <1>1, <1>2 DEF Grows
<1>3. /\ N = Len(u) /\ N > 0 /\ L = Len(u[N].scopes) /\ L > 0
      /\ Len(u[N].scopes[L].recs) > 0
  BY DEF Grows
<1>4. ASSUME NEW e \in 1..L, e # L
      PROVE  /\ N = Len(t) /\ N \in 1..Len(t) /\ e \in 1..Len(t[N].scopes)
             /\ O = t[N].scopes /\ u[N].scopes[e] = t[N].scopes[e]
  BY <1>1, <1>4 DEF Grows
<1>5. NoneEmpty(u)
  <2> SUFFICES ASSUME NEW q \in 1..N
               PROVE  /\ Len(u[q].scopes) > 0
                      /\ \A e \in 1..Len(u[q].scopes) : Len(u[q].scopes[e].recs) > 0
    BY <1>3 DEF NoneEmpty
  <2>1. CASE q # N
    BY <1>2, <2>1 DEF Apart, NoneEmpty
  <2>2. CASE q = N
    <3>1. ASSUME NEW e \in 1..L, e # L PROVE Len(u[N].scopes[e].recs) > 0
      BY <1>4, <3>1 DEF Apart, NoneEmpty
    <3> QED
      BY <1>3, <2>2, <3>1
  <2> QED
    BY <2>1, <2>2
<1>6. ASSUME NEW q \in 1..N, q > 1 PROVE u[q].res # u[q - 1].res
  <2>1. q - 1 \in 1..N /\ q - 1 # N /\ q - 1 \in 1..Len(t) /\ u[q - 1] = t[q - 1]
    <3>1. q - 1 \in 1..N /\ q - 1 # N
      BY <1>6
    <3> QED
      BY <1>2, <3>1
  <2>2. CASE q # N
    BY <1>2, <1>6, <2>1, <2>2 DEF Apart, NeighboursDiffer
  <2>3. CASE q = N /\ N = Len(t)
    BY <1>6, <2>1, <2>3 DEF Apart, NeighboursDiffer
  <2>4. CASE q = N /\ N # Len(t)
    BY <1>6, <2>1, <2>4
  <2> QED
    BY <2>2, <2>3, <2>4
<1>7. ASSUME NEW q \in 1..N, NEW e \in 1..Len(u[q].scopes), e > 1
      PROVE  u[q].scopes[e].scope # u[q].scopes[e - 1].scope
  <2>1. CASE q # N
    <3>1. q \in 1..Len(t) /\ u[q] = t[q] /\ e \in 1..Len(t[q].scopes)
      BY <1>2, <2>1
    <3>2. t[q].scopes[e].scope # t[q].scopes[e - 1].scope
      BY <1>7, <3>1 DEF Apart, NeighboursDiffer
    <3> QED
      BY <3>1, <3>2
  <2>2. CASE q = N
    <3>1. e \in 1..L /\ e - 1 \in 1..L /\ e - 1 # L
      BY <1>3, <1>7, <2>2
    <3>2. /\ N = Len(t) /\ N \in 1..Len(t) /\ e - 1 \in 1..Len(t[N].scopes)
          /\ O = t[N].scopes /\ u[N].scopes[e - 1] = t[N].scopes[e - 1]
      BY <1>4, <3>1
    <3>3. CASE e # L
      <4>1. e \in 1..Len(t[N].scopes) /\ u[N].scopes[e] = t[N].scopes[e]
        BY <1>4, <3>1, <3>3
      <4> QED
        BY <1>7, <2>2, <3>2, <4>1 DEF Apart, NeighboursDiffer
    <3>4. CASE e = L /\ L = Len(O)
      BY <1>7, <2>2, <3>1, <3>2, <3>4 DEF Apart, NeighboursDiffer
    <3>5. CASE e = L /\ L # Len(O)
      BY <1>7, <2>2, <3>2, <3>5
    <3> QED
      BY <3>3, <3>4, <3>5
  <2> QED
    BY <2>1, <2>2
<1> QED
  BY <1>3, <1>5, <1>6, <1>7 DEF Apart, NeighboursDiffer

\* From tree t to tree u: there is one place more, after all there were, with the
\* record i under its resource and scope, and the others stay as they were.
Receives(t, u, i, x, y, z) ==
    /\ RecordAt(u, x, y, z) = i
    /\ u[x].res = payload[i].res
    /\ u[x].scopes[y].scope = payload[i].scope
    /\ \A q, e, k \in Nat :
         IsPlace(u, q, e, k) <=> IsPlace(t, q, e, k) \/ (q = x /\ e = y /\ k = z)
    /\ \A q, e, k \in Nat : IsPlace(t, q, e, k) =>
         /\ RecordAt(u, q, e, k) = RecordAt(t, q, e, k)
         /\ u[q].res = t[q].res
         /\ u[q].scopes[e].scope = t[q].scopes[e].scope
         /\ Earlier(q, e, k, x, y, z)

LEMMA CopyGrows ==
    ASSUME NEW d, WellFormed(d), NEW i \in Nat, payload[i] \in Record
    PROVE  /\ WellFormed(Copied(d, i))
           /\ \A n \in Nat : n > 0 /\ Shorter(d.tree, n) => Shorter(Copied(d, i).tree, n + 1)
           /\ \E x, y, z \in Nat : Receives(d.tree, Copied(d, i).tree, i, x, y, z)
           /\ Apart(d.tree) => Apart(Copied(d, i).tree)
<1> DEFINE rec == payload[i]
           d1 == WithResource(d, rec)
           d2 == WithScope(d1, rec)
           d3 == WithRecord(d2, i)
           M == Len(d.tree)
           N == Len(d1.tree)
           O == d1.tree[N].scopes
           K == Len(O)
           L == Len(d2.tree[N].scopes)
           R == d2.tree[N].scopes[L].recs
           J == Len(R)
<1>1. Copied(d, i) = d3 /\ rec \in Record /\ d \in Dest /\ (d = EmptyDest \/ Remembers(d))
  BY DEF Copied, WellFormed
<1>2. /\ d1 \in Dest /\ N > 0 /\ d1.res = rec.res /\ d1.scope = d.scope
      /\ d1.tree[N].res = rec.res
      /\ \A q \in 1..N : q # N => d1.tree[q] = d.tree[q]
      /\ \/ N = M /\ d1.tree[N] = d.tree[N] /\ d1 = d /\ Remembers(d)
         \/ /\ N = M + 1 /\ O = <<>> /\ d.scope[1] # rec.res
            /\ N > 1 => d.tree[N - 1].res # rec.res
  <2> HIDE DEF rec
  <2> QED
    BY <1>1, AddResource
<1>3. d1.scope = <<rec.res, rec.scope>> => Remembers(d1)
  <2>1. d.scope[1] # rec.res => d.scope # <<rec.res, rec.scope>>
    OBVIOUS
  <2> HIDE DEF rec, d1
  <2> QED
    BY <1>2, <2>1
<1>4. /\ d2 \in Dest /\ Len(d2.tree) = N /\ d2.res = d1.res
      /\ d2.scope = <<rec.res, rec.scope>>
      /\ d2.tree[N].res = d1.tree[N].res
      /\ \A q \in 1..N : q # N => d2.tree[q] = d1.tree[q]
      /\ L > 0 /\ d2.tree[N].scopes[L].scope = rec.scope
      /\ \A e \in 1..L : e # L => d2.tree[N].scopes[e] = O[e]
      /\ \/ L = K /\ d2.tree[N].scopes[L] = O[L]
         \/ L = K + 1 /\ R = <<>> /\ d1.scope # <<rec.res, rec.scope>>
  <2> HIDE DEF rec, d1
  <2> QED
    BY <1>1, <1>2, <1>3, AddScope
<1>5. /\ d3 \in Dest /\ d3.res = d2.res /\ d3.scope = d2.scope
      /\ Len(d3.tree) = N /\ d3.tree[N].res = d2.tree[N].res
      /\ \A q \in 1..N : q # N => d3.tree[q] = d2.tree[q]
      /\ Len(d3.tree[N].scopes) = L
      /\ d3.tree[N].scopes[L].scope = d2.tree[N].scopes[L].scope
      /\ \A e \in 1..L : e # L => d3.tree[N].scopes[e] = d2.tree[N].scopes[e]
      /\ Len(d3.tree[N].scopes[L].recs) = J + 1
      /\ d3.tree[N].scopes[L].recs[J + 1] = i
      /\ \A k \in 1..J : d3.tree[N].scopes[L].recs[k] = R[k]
  <2> DEFINE n == Len(d2.tree)
             l == Len(d2.tree[n].scopes)
             j == Len(d2.tree[n].scopes[l].recs)
  <2>1. n = N /\ l = L /\ j = J /\ d2.tree[n].scopes[l].recs = R
    <3> HIDE DEF d2, N
    <3> QED
      BY <1>4
  <2>2. d2 \in Dest /\ n > 0 /\ l > 0
    <3> HIDE DEF d2, N, n, l, L
    <3> QED
      BY <1>2, <1>4, <2>1
  <2>3. Appends(d2, d3, i, n, l, j)
    <3> HIDE DEF d2
    <3> QED
      BY <2>2, AddRecord
  <2> HIDE DEF d3, d2, n, l, j, N, L, R, J
  <2> QED
    BY <2>1, <2>3 DEF Appends
<1>6. M \in Nat /\ N \in Nat /\ K \in Nat /\ L \in Nat /\ J \in Nat
  <2>1. d.tree \in Seq(ResourceNode) /\ d1.tree \in Seq(ResourceNode)
        /\ d2.tree \in Seq(ResourceNode)
    <3> HIDE DEF d1, d2
    <3> QED
      BY <1>1, <1>2, <1>4 DEF Dest
  <2>2. M \in Nat /\ N \in Nat /\ N \in 1..N
    <3>1. N > 0
      BY <1>2
    <3> HIDE DEF d1, d2
    <3>2. M \in Nat /\ N \in Nat
      BY <2>1
    <3> HIDE DEF M, N
    <3> QED
      BY <3>1, <3>2
  <2>3. O \in Seq(ScopeNode) /\ d2.tree[N].scopes \in Seq(ScopeNode)
    <3>1. Len(d1.tree) = N /\ Len(d2.tree) = N
      BY <1>4
    <3> HIDE DEF d1, d2, N
    <3>2. d1.tree[N] \in ResourceNode /\ d2.tree[N] \in ResourceNode
      BY <2>1, <2>2, <3>1
    <3> QED
      BY <3>2 DEF ResourceNode
  <2> HIDE DEF d1, d2
  <2>4. K \in Nat /\ L \in Nat /\ L \in 1..L
    <3> DEFINE ss == d2.tree[N].scopes
    <3>1. L = Len(ss) /\ L > 0 /\ ss \in Seq(ScopeNode)
      BY <1>4, <2>3
    <3> HIDE DEF O, N, ss, L
    <3>2. K \in Nat /\ L \in Nat
      BY <2>3, <3>1
    <3> HIDE DEF K
    <3> QED
      BY <3>1, <3>2
  <2>5. d2.tree[N].scopes[L] \in ScopeNode
    BY <2>3, <2>4
  <2>6. R \in Seq(Nat)
    BY <2>5 DEF ScopeNode
  <2>7. J \in Nat
    <3> HIDE DEF R
    <3> QED
      BY <2>6
  <2> HIDE DEF M, N, K, L, J
  <2> QED
    BY <2>2, <2>4, <2>7
<1> HIDE DEF d3, d2, d1, rec, M, N, O, K, L, R, J
<1>7. /\ \A q \in 1..N : q # N => d3.tree[q] = d.tree[q]
      /\ \A e \in 1..L : e # L => d3.tree[N].scopes[e] = O[e]
      /\ \/ N = M /\ O = d.tree[N].scopes /\ d3.tree[N].res = d.tree[N].res
         \/ N = M + 1 /\ K = 0
      /\ \/ L = K /\ R = O[L].recs /\ d3.tree[N].scopes[L].scope = O[L].scope
         \/ L = K + 1 /\ J = 0
  <2>1. /\ \A q \in 1..N : q # N => d3.tree[q] = d.tree[q]
        /\ \A e \in 1..L : e # L => d3.tree[N].scopes[e] = O[e]
    BY <1>2, <1>4, <1>5
  <2>2. \/ N = M /\ O = d.tree[N].scopes /\ d3.tree[N].res = d.tree[N].res
        \/ N = M + 1 /\ K = 0
    BY <1>2, <1>4, <1>5 DEF O, K
  <2>3. \/ L = K /\ R = O[L].recs /\ d3.tree[N].scopes[L].scope = O[L].scope
        \/ L = K + 1 /\ J = 0
    BY <1>4, <1>5 DEF R, J
  <2> QED
    BY <2>1, <2>2, <2>3
<1>8. \A q, e, k \in Nat :
        /\ IsPlace(d3.tree, q, e, k)
             <=> IsPlace(d.tree, q, e, k) \/ (q = N /\ e = L /\ k = J + 1)
        /\ IsPlace(d.tree, q, e, k) => Earlier(q, e, k, N, L, J + 1)
  <2> SUFFICES ASSUME NEW q \in Nat, NEW e \in Nat, NEW k \in Nat
               PROVE  /\ IsPlace(d3.tree, q, e, k)
                           <=> IsPlace(d.tree, q, e, k) \/ (q = N /\ e = L /\ k = J + 1)
                      /\ IsPlace(d.tree, q, e, k) => Earlier(q, e, k, N, L, J + 1)
    OBVIOUS
  <2>1. N > 0 /\ L > 0 /\ N = Len(d3.tree) /\ L = Len(d3.tree[N].scopes)
    BY <1>2, <1>4, <1>5
  <2>2. Grows(d.tree, d3.tree, O, R, N, L, J)
    BY <1>5, <1>7, <2>1 DEF Grows, M, K, J
  <2>3. Len(d.tree) \in Nat /\ Len(O) \in Nat
    BY <1>6 DEF M, K
  <2> QED
    BY <1>6, <2>2, <2>3, OnePlaceMore
<1>9. ASSUME NEW q \in Nat, NEW e \in Nat, NEW k \in Nat, IsPlace(d.tree, q, e, k)
      PROVE  /\ RecordAt(d3.tree, q, e, k) = RecordAt(d.tree, q, e, k)
             /\ d3.tree[q].res = d.tree[q].res
             /\ d3.tree[q].scopes[e].scope = d.tree[q].scopes[e].scope
  <2>1. q \in 1..M /\ e \in 1..Len(d.tree[q].scopes) /\ k \in 1..Len(d.tree[q].scopes[e].recs)
    BY <1>9 DEF IsPlace, M
  <2>2. CASE q # N
    <3>1. q \in 1..N
      BY <1>6, <1>7, <2>1, <2>2
    <3> QED
      BY <1>7, <2>2, <3>1 DEF RecordAt
  <2>3. CASE q = N
    <3>1. N = M /\ O = d.tree[N].scopes /\ d3.tree[N].res = d.tree[N].res
      BY <1>6, <1>7, <2>1, <2>3
    <3>2. e \in 1..K
      BY <2>1, <2>3, <3>1 DEF K
    <3>3. CASE e # L
      <4>1. e \in 1..L
        BY <1>6, <1>7, <3>2, <3>3
      <4> QED
        BY <1>7, <2>3, <3>1, <3>3, <4>1 DEF RecordAt
    <3>4. CASE e = L
      <4>1. L = K /\ R = O[L].recs /\ d3.tree[N].scopes[L].scope = O[L].scope
        BY <1>6, <1>7, <3>2, <3>4
      <4>2. k \in 1..J
        BY <2>1, <2>3, <3>1, <3>4, <4>1 DEF J
      <4> QED
        BY <1>5, <2>3, <3>1, <3>4, <4>1, <4>2 DEF RecordAt
    <3> QED
      BY <3>3, <3>4
  <2> QED
    BY <2>2, <2>3
<1>10. WellFormed(d3)
  <2>1. d3.res = rec.res /\ d3.scope = <<rec.res, rec.scope>> /\ d3.tree[N].res = rec.res
        /\ d3.tree[N].scopes[L].scope = rec.scope
    BY <1>2, <1>4, <1>5
  <2>2. N = Len(d3.tree) /\ L = Len(d3.tree[N].scopes) /\ N > 0 /\ L > 0 /\ d3 \in Dest
    BY <1>2, <1>4, <1>5
  <2> QED
    BY <2>1, <2>2 DEF WellFormed, Remembers
<1>11. ASSUME NEW n \in Nat, n > 0, Shorter(d.tree, n) PROVE Shorter(d3.tree, n + 1)
  <2>1. M < n /\ N < n + 1
    BY <1>6, <1>7, <1>11 DEF Shorter, M
  <2>2. ASSUME NEW q \in 1..N, q # N
        PROVE  /\ Len(d3.tree[q].scopes) < n + 1
               /\ \A e \in 1..Len(d3.tree[q].scopes) : Len(d3.tree[q].scopes[e].recs) < n + 1
    <3>1. q \in 1..M /\ d3.tree[q] = d.tree[q]
      BY <1>6, <1>7, <2>2
    <3>2. /\ Len(d.tree[q].scopes) < n
          /\ \A e \in 1..Len(d.tree[q].scopes) : Len(d.tree[q].scopes[e].recs) < n
      BY <1>11, <3>1 DEF Shorter, M
    <3>3. /\ Len(d.tree[q].scopes) \in Nat
          /\ \A e \in 1..Len(d.tree[q].scopes) : Len(d.tree[q].scopes[e].recs) \in Nat
      BY <1>1, <3>1, TreeTypes DEF Dest, M
    <3> QED
      BY <3>1, <3>2, <3>3
  <2>3. K < n /\ (N = M => \A e \in 1..K : Len(O[e].recs) < n)
    <3>1. CASE N = M + 1 /\ K = 0
      BY <1>6, <3>1, <1>11
    <3>2. CASE N = M /\ O = d.tree[N].scopes
      <4>1. N \in 1..M
        BY <1>2, <1>6, <3>2
      <4> QED
        BY <1>11, <3>2, <4>1 DEF Shorter, M, K
    <3> QED
      BY <1>7, <3>1, <3>2
  <2>4. L < n + 1 /\ J < n
    <3>1. L < n + 1
      BY <1>6, <1>7, <2>3
    <3>2. CASE L = K /\ R = O[L].recs
      <4>1. N = M /\ L \in 1..K
        BY <1>4, <1>6, <1>7, <3>2
      <4> QED
        BY <2>3, <3>1, <3>2, <4>1 DEF J
    <3>3. CASE L = K + 1 /\ J = 0
      BY <1>11, <3>1, <3>3
    <3> QED
      BY <1>7, <3>2, <3>3
  <2>5. \A e \in 1..L : Len(d3.tree[N].scopes[e].recs) < n + 1
    <3> SUFFICES ASSUME NEW e \in 1..L PROVE Len(d3.tree[N].scopes[e].recs) < n + 1
      OBVIOUS
    <3>1. CASE e = L
      BY <1>5, <1>6, <2>4, <3>1
    <3>2. CASE e # L
      <4>1. N = M /\ e \in 1..K /\ d3.tree[N].scopes[e] = O[e]
        BY <1>6, <1>7, <3>2
      <4>2. Len(O[e].recs) < n
        BY <2>3, <4>1
      <4>3. Len(O[e].recs) \in Nat
        <5>1. N \in 1..N /\ d1.tree \in Seq(ResourceNode)
          BY <1>2, <1>6 DEF Dest
        <5>2. d1.tree[N] \in ResourceNode
          BY <5>1 DEF N
        <5>3. O \in Seq(ScopeNode)
          BY <5>2 DEF ResourceNode, O
        <5>4. O[e] \in ScopeNode
          BY <4>1, <5>3 DEF K
        <5> QED
          BY <5>4 DEF ScopeNode
      <4> QED
        BY <4>1, <4>2, <4>3
    <3> QED
      BY <3>1, <3>2
  <2>6. \A q \in 1..N :
          /\ Len(d3.tree[q].scopes) < n + 1
          /\ \A e \in 1..Len(d3.tree[q].scopes) : Len(d3.tree[q].scopes[e].recs) < n + 1
    BY <1>5, <2>2, <2>4, <2>5
  <2> QED
    BY <1>5, <2>1, <2>6 DEF Shorter
<1>12. /\ RecordAt(d3.tree, N, L, J + 1) = i
       /\ d3.tree[N].res = rec.res /\ d3.tree[N].scopes[L].scope = rec.scope
       /\ N \in Nat /\ L \in Nat /\ J + 1 \in Nat
  BY <1>2, <1>4, <1>5, <1>6 DEF RecordAt
<1>13. Receives(d.tree, d3.tree, i, N, L, J + 1)
  BY <1>8, <1>9, <1>12 DEF Receives, rec
<1>14. ASSUME Apart(d.tree) PROVE Apart(d3.tree)
  <2>1. N > 0 /\ L > 0 /\ N = Len(d3.tree) /\ L = Len(d3.tree[N].scopes)
    BY <1>2, <1>4, <1>5
  <2>2. Grows(d.tree, d3.tree, O, R, N, L, J)
    BY <1>5, <1>7, <2>1 DEF Grows, M, K, J
  <2>3. IF N = M THEN d3.tree[N].res = d.tree[N].res
                 ELSE N > 1 => d3.tree[N].res # d.tree[N - 1].res
    BY <1>2, <1>4, <1>5
  <2>4. IF L = K THEN d3.tree[N].scopes[L].scope = O[L].scope
                 ELSE L > 1 => d3.tree[N].scopes[L].scope # O[L - 1].scope
    <3>1. CASE L = K
      BY <1>4, <1>5, <3>1
    <3>2. CASE L # K /\ L > 1
      <4>1. L = K + 1 /\ d1.scope # <<rec.res, rec.scope>> /\ K > 0
        BY <1>4, <1>6, <3>2
      <4>2. N = M /\ O = d1.tree[M].scopes /\ d1 = d /\ Remembers(d) /\ d.res = rec.res
        BY <1>2, <1>6, <1>7, <4>1 DEF O
      <4>3. d.scope = <<d.res, O[K].scope>>
        BY <4>2 DEF Remembers, K, M
      <4>4. O[L - 1].scope # rec.scope
        BY <1>6, <4>1, <4>2, <4>3
      <4>5. d3.tree[N].scopes[L].scope = rec.scope
        BY <1>4, <1>5
      <4> QED
        BY <3>2, <4>4, <4>5
    <3> QED
      BY <3>1, <3>2
  <2>5. d.tree \in Seq(ResourceNode) /\ Len(O) \in Nat
    BY <1>1, <1>6 DEF Dest, K
  <2> QED
    BY <1>6, <1>14, <2>2, <2>3, <2>4, <2>5, ContextsApart DEF M, K
<1> QED
  BY <1>1, <1>10, <1>11, <1>12, <1>13, <1>14

-----------------------------------------------------------------------------
(***************************************************************************)
(* The invariant is inductive.                                             *)
(***************************************************************************)

LEMMA PayloadType ==
    ASSUME NEW p \in Payloads
    PROVE  p \in Seq(Record) /\ Len(p) <= MaxRecords /\ InLoopOrder(p)
<1> InLoopOrder(p)
  BY DEF Payloads
<1>1. PICK n \in 0..MaxRecords : p \in [1..n -> Record]
  BY DEF Payloads
<1>2. n \in Nat /\ n <= MaxRecords
  BY <1>1, GrouperAssumption
<1> QED
  BY <1>1, <1>2

LEMMA EmptyTree ==
    /\ EmptyDest.tree = <<>>
    /\ \A q, e, k \in Nat : ~ IsPlace(EmptyDest.tree, q, e, k)
    /\ WellFormed(EmptyDest)
    /\ \A n \in Nat : n > 0 => Shorter(EmptyDest.tree, n)
    /\ Apart(EmptyDest.tree)
<1>1. EmptyDest.tree = <<>> /\ Len(<<>>) = 0
  BY DEF EmptyDest
<1>2. EmptyDest \in Dest
  BY DEF EmptyDest, Dest
<1>3. \A q \in Nat : q \notin 1..Len(EmptyDest.tree)
  BY <1>1
<1> QED
  BY <1>1, <1>2, <1>3 DEF WellFormed, IsPlace, Shorter, Apart, NoneEmpty, NeighboursDiffer

\* A subject without a group has had no record yet.
LEMMA DestKept ==
    ASSUME GrouperInv, NEW s \in Subjects
    PROVE  GroupKept(DestOf(s), s, next)
<1>1. CASE s \in DOMAIN dest
  BY <1>1 DEF GrouperInv, DestOf
<1>2. CASE s \notin DOMAIN dest
  <2>1. DestOf(s) = EmptyDest
    BY <1>2 DEF DestOf
  <2>2. \A i \in 1..Len(payload) : ~ (i < next /\ payload[i].subject = s)
    BY <1>2, GrouperAssumption DEF GrouperInv
  <2>3. next \in Nat /\ next > 0
    BY DEF GrouperInv
  <2> QED
    BY <2>1, <2>2, <2>3, EmptyTree DEF GroupKept, OwnRecords, InOrder, NoneMissing
<1> QED
  BY <1>1, <1>2

\* A group stays as it was when the loops pass a record that is not its own.
LEMMA OthersKept ==
    ASSUME NEW d, NEW s, NEW n \in 1..Len(payload), payload \in Seq(Record),
           GroupKept(d, s, n), payload[n].subject # s
    PROVE  GroupKept(d, s, n + 1)
<1>1. \A i \in 1..Len(payload) : (i < n => i < n + 1) /\ (i < n + 1 => i < n \/ i = n)
  OBVIOUS
<1>2. Shorter(d.tree, n + 1)
  <2>1. d.tree \in Seq(ResourceNode) /\ Shorter(d.tree, n)
    BY DEF GroupKept, WellFormed, Dest
  <2>2. \A l \in Nat : l < n => l < n + 1
    OBVIOUS
  <2> QED
    BY <2>1, <2>2, TreeTypes DEF Shorter
<1>3. OwnRecords(d.tree, s, n + 1)
  BY <1>1 DEF GroupKept, OwnRecords, Fits
<1>4. NoneMissing(d.tree, s, n + 1)
  BY <1>1 DEF GroupKept, NoneMissing
<1> QED
  BY <1>2, <1>3, <1>4 DEF GroupKept

\* And it takes in a record of its own.
LEMMA OwnKept ==
    ASSUME NEW d, NEW s, NEW n \in 1..Len(payload), payload \in Seq(Record),
           GroupKept(d, s, n), payload[n].subject = s
    PROVE  GroupKept(Copied(d, n), s, n + 1)
<1> DEFINE u == Copied(d, n).tree
<1>1. /\ WellFormed(d) /\ n \in Nat /\ n > 0 /\ payload[n] \in Record /\ Shorter(d.tree, n)
      /\ \A i \in 1..Len(payload) : (i < n => i < n + 1) /\ (i < n + 1 => i < n \/ i = n)
      /\ n < n + 1 /\ Apart(d.tree)
  BY DEF GroupKept
<1>2. WellFormed(Copied(d, n)) /\ Shorter(u, n + 1) /\ Apart(u)
  BY <1>1, CopyGrows
<1>3. PICK x \in Nat, y \in Nat, z \in Nat : Receives(d.tree, u, n, x, y, z)
  BY <1>1, CopyGrows
<1> HIDE DEF u
<1>4. OwnRecords(u, s, n + 1)
  <2> SUFFICES ASSUME NEW q \in Nat, NEW e \in Nat, NEW k \in Nat, IsPlace(u, q, e, k)
               PROVE  Fits(RecordAt(u, q, e, k), u, q, e, s, n + 1)
    BY DEF OwnRecords
  <2>1. CASE q = x /\ e = y /\ k = z
    BY <1>1, <1>3, <2>1 DEF Receives, Fits
  <2>2. CASE IsPlace(d.tree, q, e, k)
    <3>1. Fits(RecordAt(d.tree, q, e, k), d.tree, q, e, s, n)
      BY <2>2 DEF GroupKept, OwnRecords
    <3>2. /\ RecordAt(u, q, e, k) = RecordAt(d.tree, q, e, k)
          /\ u[q].res = d.tree[q].res
          /\ u[q].scopes[e].scope = d.tree[q].scopes[e].scope
      BY <1>3, <2>2 DEF Receives
    <3> QED
      BY <1>1, <3>1, <3>2 DEF Fits
  <2> QED
    BY <1>3, <2>1, <2>2 DEF Receives
<1>5. InOrder(u)
  <2> SUFFICES ASSUME NEW q \in Nat, NEW e \in Nat, NEW k \in Nat, IsPlace(u, q, e, k),
                      NEW a \in Nat, NEW b \in Nat, NEW c \in Nat, IsPlace(u, a, b, c),
                      Earlier(q, e, k, a, b, c)
               PROVE  RecordAt(u, q, e, k) < RecordAt(u, a, b, c)
    BY DEF InOrder
  <2>1. CASE IsPlace(d.tree, q, e, k) /\ IsPlace(d.tree, a, b, c)
    <3>1. RecordAt(d.tree, q, e, k) < RecordAt(d.tree, a, b, c)
      BY <2>1 DEF GroupKept, InOrder
    <3> QED
      BY <1>3, <2>1, <3>1 DEF Receives
  <2>2. CASE IsPlace(d.tree, q, e, k) /\ a = x /\ b = y /\ c = z
    <3>1. RecordAt(d.tree, q, e, k) < n
      BY <2>2 DEF GroupKept, OwnRecords, Fits
    <3> QED
      BY <1>3, <2>2, <3>1 DEF Receives
  <2>3. CASE q = x /\ e = y /\ k = z
    <3>1. ~ IsPlace(d.tree, a, b, c)
      <4>1. IsPlace(d.tree, a, b, c) => Earlier(a, b, c, x, y, z)
        BY <1>3 DEF Receives
      <4>2. ~ (Earlier(a, b, c, x, y, z) /\ Earlier(x, y, z, a, b, c))
        BY DEF Earlier
      <4> QED
        BY <2>3, <4>1, <4>2
    <3>2. a = x /\ b = y /\ c = z
      BY <1>3, <3>1 DEF Receives
    <3> QED
      BY <2>3, <3>2 DEF Earlier
  <2>4. /\ IsPlace(d.tree, q, e, k) \/ (q = x /\ e = y /\ k = z)
        /\ IsPlace(d.tree, a, b, c) \/ (a = x /\ b = y /\ c = z)
    BY <1>3 DEF Receives
  <2> QED
    BY <2>1, <2>2, <2>3, <2>4
<1>6. NoneMissing(u, s, n + 1)
  <2> SUFFICES ASSUME NEW i \in 1..Len(payload), i < n + 1, payload[i].subject = s
               PROVE  \E q, e, k \in Nat : IsPlace(u, q, e, k) /\ RecordAt(u, q, e, k) = i
    BY DEF NoneMissing
  <2>1. CASE i < n
    <3>1. PICK q \in Nat, e \in Nat, k \in Nat :
             IsPlace(d.tree, q, e, k) /\ RecordAt(d.tree, q, e, k) = i
      BY <2>1 DEF GroupKept, NoneMissing
    <3>2. IsPlace(u, q, e, k) /\ RecordAt(u, q, e, k) = i
      BY <1>3, <3>1 DEF Receives
    <3> QED
      BY <3>2
  <2>2. CASE i = n
    <3>1. IsPlace(u, x, y, z) /\ RecordAt(u, x, y, z) = i
      BY <1>3, <2>2 DEF Receives
    <3> QED
      BY <3>1
  <2> QED
    BY <1>1, <2>1, <2>2
<1> QED
  BY <1>2, <1>4, <1>5, <1>6 DEF GroupKept, u

LEMMA GrouperInit == Init => GrouperInv
<1> SUFFICES ASSUME Init PROVE GrouperInv
  OBVIOUS
<1>1. payload \in Seq(Record) /\ Len(payload) <= MaxRecords /\ InLoopOrder(payload)
  BY PayloadType DEF Init
<1>2. next = 1 /\ next \in 1..(Len(payload) + 1)
  BY <1>1 DEF Init
<1>3. DOMAIN dest = {}
  BY DEF Init
<1>4. \A i \in 1..Len(payload) : ~ (i < next)
  BY <1>1, <1>2
<1> QED
  BY <1>1, <1>2, <1>3, <1>4 DEF GrouperInv

LEMMA GrouperStep == GrouperInv /\ [Next]_vars => GrouperInv'
<1> SUFFICES ASSUME GrouperInv, [Next]_vars PROVE GrouperInv'
  OBVIOUS
<1>1. CASE UNCHANGED vars
  BY <1>1 DEF vars, GrouperInv, GroupKept, OwnRecords, Fits, NoneMissing
<1>2. ASSUME next <= Len(payload), next' = next + 1, payload' = payload,
             DOMAIN dest' \subseteq Subjects,
             DOMAIN dest \subseteq DOMAIN dest',
             payload[next].subject \in DOMAIN dest' \cup {NoSubject},
             \A s \in DOMAIN dest' : GroupKept(dest'[s], s, next + 1)
      PROVE  GrouperInv'
  <2>1. /\ payload \in Seq(Record) /\ Len(payload) \in Nat /\ Len(payload) <= MaxRecords
        /\ InLoopOrder(payload) /\ InLoopOrder(payload')
        /\ next \in Nat /\ next > 0 /\ next \in 1..(Len(payload) + 1)
    BY <1>2 DEF GrouperInv
  <2>2. next' \in 1..(Len(payload) + 1)
    BY <1>2, <2>1
  <2>3. \A i \in 1..Len(payload) : i < next + 1 => i < next \/ i = next
    BY <2>1
  <2>4. \A i \in 1..Len(payload) :
          i < next + 1 => payload[i].subject \in DOMAIN dest' \cup {NoSubject}
    BY <1>2, <2>3 DEF GrouperInv
  <2>5. \A s \in DOMAIN dest' : GroupKept(dest[s], s, next)'
    <3> SUFFICES ASSUME NEW s \in DOMAIN dest' PROVE GroupKept(dest[s], s, next)'
      OBVIOUS
    <3>1. GroupKept(dest'[s], s, next + 1)
      BY <1>2
    <3>2. /\ WellFormed(dest[s])'
          /\ InOrder(dest[s].tree)'
          /\ Shorter(dest[s].tree, next)'
          /\ Apart(dest[s].tree)'
      <4>1. WellFormed(dest[s])'
        BY <3>1 DEF GroupKept, WellFormed, Remembers
      <4>2. InOrder(dest[s].tree)'
        BY <3>1 DEF GroupKept, InOrder, IsPlace, RecordAt
      <4>3. Shorter(dest[s].tree, next)'
        BY <1>2, <3>1 DEF GroupKept, Shorter
      <4>4. Apart(dest[s].tree)'
        BY <3>1 DEF GroupKept, Apart, NoneEmpty, NeighboursDiffer
      <4> QED
        BY <4>1, <4>2, <4>3, <4>4
    <3>3. OwnRecords(dest[s].tree, s, next)'
      <4>1. OwnRecords(dest'[s].tree, s, next + 1)
        BY <3>1 DEF GroupKept
      <4>2. ASSUME NEW q \in Nat, NEW e \in Nat, NEW k \in Nat, IsPlace(dest'[s].tree, q, e, k)
            PROVE  LET i == RecordAt(dest'[s].tree, q, e, k) IN
                   /\ i \in 1..Len(payload') /\ i < next'
                   /\ payload'[i].subject = s
                   /\ payload'[i].res = dest'[s].tree[q].res
                   /\ payload'[i].scope = dest'[s].tree[q].scopes[e].scope
        <5>1. Fits(RecordAt(dest'[s].tree, q, e, k), dest'[s].tree, q, e, s, next + 1)
          BY <4>1, <4>2 DEF OwnRecords
        <5> QED
          BY <1>2, <5>1 DEF Fits
      <4> QED
        BY <4>2 DEF OwnRecords, Fits, IsPlace, RecordAt
    <3>4. NoneMissing(dest[s].tree, s, next)'
      BY <1>2, <3>1 DEF GroupKept, NoneMissing, IsPlace, RecordAt
    <3> QED
      BY <3>2, <3>3, <3>4 DEF GroupKept
  <2> QED
    BY <1>2, <2>1, <2>2, <2>4, <2>5 DEF GrouperInv
<1>3. payload \in Seq(Record) /\ (next <= Len(payload) => next \in 1..Len(payload))
  BY DEF GrouperInv
<1>4. CASE SkipRecord
  <2>1. /\ next <= Len(payload) /\ next' = next + 1 /\ payload' = payload /\ dest' = dest
        /\ payload[next].subject = NoSubject
    BY <1>4 DEF SkipRecord
  <2>2. ASSUME NEW s \in DOMAIN dest PROVE GroupKept(dest[s], s, next + 1)
    BY <1>3, <2>1, <2>2, OthersKept, GrouperAssumption DEF GrouperInv
  <2> QED
    BY <1>2, <2>1, <2>2 DEF GrouperInv
<1>5. CASE CopyRecord
  <2> DEFINE s == payload[next].subject
  <2>1. /\ next <= Len(payload) /\ next' = next + 1 /\ payload' = payload
        /\ s # NoSubject
        /\ dest' = [t \in DOMAIN dest \cup {s} |->
                      IF t = s THEN Copied(DestOf(s), next) ELSE dest[t]]
    BY <1>5 DEF CopyRecord
  <2>2. s \in Subjects
    <3>1. payload[next] \in Record
      BY <1>3, <2>1
    <3> QED
      BY <2>1, <3>1 DEF Record
  <2>3. GroupKept(Copied(DestOf(s), next), s, next + 1)
    BY <1>3, <2>1, <2>2, DestKept, OwnKept
  <2>4. ASSUME NEW t \in DOMAIN dest, t # s PROVE GroupKept(dest[t], t, next + 1)
    BY <1>3, <2>1, <2>4, OthersKept DEF GrouperInv
  <2> HIDE DEF s
  <2>5. DOMAIN dest' = DOMAIN dest \cup {s}
    BY <2>1
  <2>6. \A t \in DOMAIN dest' : GroupKept(dest'[t], t, next + 1)
    BY <2>1, <2>3, <2>4
  <2>7. payload[next].subject \in DOMAIN dest'
    BY <2>5 DEF s
  <2> QED
    BY <1>2, <2>1, <2>2, <2>5, <2>6, <2>7 DEF GrouperInv
<1> QED
  BY <1>1, <1>4, <1>5 DEF Next

LEMMA GrouperAlways == Spec => []GrouperInv
  BY GrouperInit, GrouperStep, PTL DEF Spec

-----------------------------------------------------------------------------
(***************************************************************************)
(* The property.                                                           *)
(***************************************************************************)

\* The places of a group are those of its tree.
LEMMA PlacesOfTree ==
    ASSUME GrouperInv, NEW s \in DOMAIN dest
    PROVE  /\ \A p \in Places(s) :
                /\ p[1] \in Nat /\ p[2] \in Nat /\ p[3] \in Nat
                /\ IsPlace(dest[s].tree, p[1], p[2], p[3])
                /\ At(s, p) = RecordAt(dest[s].tree, p[1], p[2], p[3])
           /\ \A q, e, k \in Nat : IsPlace(dest[s].tree, q, e, k) =>
                <<q, e, k>> \in Places(s) /\ At(s, <<q, e, k>>) = RecordAt(dest[s].tree, q, e, k)
<1> DEFINE t == dest[s].tree
<1>1. /\ GroupKept(dest[s], s, next) /\ next \in Nat /\ next <= Len(payload) + 1
      /\ Len(payload) \in Nat /\ Len(payload) <= MaxRecords /\ MaxRecords \in Nat
  BY GrouperAssumption DEF GrouperInv
<1>2. t \in Seq(ResourceNode) /\ Shorter(t, next)
  BY <1>1 DEF GroupKept, WellFormed, Dest
<1>3. ASSUME NEW q \in Nat, NEW e \in Nat, NEW k \in Nat
      PROVE  IsPlace(t, q, e, k) <=>
               /\ q \in 1..MaxRecords /\ e \in 1..MaxRecords /\ k \in 1..MaxRecords
               /\ q <= Len(t) /\ e <= Len(t[q].scopes) /\ k <= Len(t[q].scopes[e].recs)
  <2>1. Len(t) \in Nat /\ Len(t) <= MaxRecords
    <3> HIDE DEF t
    <3> QED
      BY <1>1, <1>2 DEF Shorter
  <2>2. ASSUME q \in 1..Len(t)
        PROVE  Len(t[q].scopes) \in Nat /\ Len(t[q].scopes) <= MaxRecords
    <3> HIDE DEF t
    <3>1. Len(t[q].scopes) \in Nat /\ Len(t[q].scopes) < next
      BY <1>2, <2>2, TreeTypes DEF Shorter
    <3> QED
      BY <1>1, <3>1
  <2>3. ASSUME q \in 1..Len(t), e \in 1..Len(t[q].scopes)
        PROVE  Len(t[q].scopes[e].recs) \in Nat /\ Len(t[q].scopes[e].recs) <= MaxRecords
    <3> HIDE DEF t
    <3>1. Len(t[q].scopes[e].recs) \in Nat /\ Len(t[q].scopes[e].recs) < next
      BY <1>2, <2>3, TreeTypes DEF Shorter
    <3> QED
      BY <1>1, <3>1
  <2> HIDE DEF t
  <2> QED
    BY <1>1, <2>1, <2>2, <2>3 DEF IsPlace
<1>4. \A p \in Places(s) :
        /\ p[1] \in Nat /\ p[2] \in Nat /\ p[3] \in Nat
        /\ IsPlace(t, p[1], p[2], p[3])
        /\ At(s, p) = RecordAt(t, p[1], p[2], p[3])
  <2> SUFFICES ASSUME NEW p \in Places(s)
               PROVE  /\ p[1] \in Nat /\ p[2] \in Nat /\ p[3] \in Nat
                      /\ IsPlace(t, p[1], p[2], p[3])
                      /\ At(s, p) = RecordAt(t, p[1], p[2], p[3])
    OBVIOUS
  <2>1. /\ p \in (1..MaxRecords) \X (1..MaxRecords) \X (1..MaxRecords)
        /\ p[1] <= Len(t) /\ p[2] <= Len(t[p[1]].scopes)
        /\ p[3] <= Len(t[p[1]].scopes[p[2]].recs)
    BY DEF Places
  <2>2. p[1] \in 1..MaxRecords /\ p[2] \in 1..MaxRecords /\ p[3] \in 1..MaxRecords
    BY <2>1
  <2>3. p[1] \in Nat /\ p[2] \in Nat /\ p[3] \in Nat
    BY <2>2
  <2>4. IsPlace(t, p[1], p[2], p[3])
    BY <1>3, <2>1, <2>2, <2>3
  <2> QED
    BY <2>3, <2>4 DEF At, RecordAt
<1>5. ASSUME NEW q \in Nat, NEW e \in Nat, NEW k \in Nat, IsPlace(t, q, e, k)
      PROVE  <<q, e, k>> \in Places(s) /\ At(s, <<q, e, k>>) = RecordAt(t, q, e, k)
  <2>1. /\ q \in 1..MaxRecords /\ e \in 1..MaxRecords /\ k \in 1..MaxRecords
        /\ q <= Len(t) /\ e <= Len(t[q].scopes) /\ k <= Len(t[q].scopes[e].recs)
    BY <1>3, <1>5
  <2> QED
    BY <2>1 DEF Places, At, RecordAt
<1> QED
  BY <1>4, <1>5

\* The groups partition the records seen so far that have a subject: each record
\* is in the group of its subject, once, under its own resource and scope, and
\* the records of a group keep their order; for payloads of any size and shape.
THEOREM RecordsPartitioned == Spec => []GroupsPartitionRecords
<1>1. GrouperInv => GroupsPartitionRecords
  <2> SUFFICES ASSUME GrouperInv PROVE GroupsPartitionRecords
    OBVIOUS
  <2>1. ASSUME NEW s \in DOMAIN dest, NEW i \in 1..Len(payload), i < next, payload[i].subject = s
        PROVE  \E p \in Places(s) : At(s, p) = i
    <3>1. PICK q \in Nat, e \in Nat, k \in Nat :
             IsPlace(dest[s].tree, q, e, k) /\ RecordAt(dest[s].tree, q, e, k) = i
      BY <2>1 DEF GrouperInv, GroupKept, NoneMissing
    <3> QED
      BY <3>1, PlacesOfTree
  <2>2. ASSUME NEW s \in DOMAIN dest, NEW p \in Places(s)
        PROVE  /\ At(s, p) < next
               /\ payload[At(s, p)].subject = s
               /\ payload[At(s, p)].res = dest[s].tree[p[1]].res
               /\ payload[At(s, p)].scope = dest[s].tree[p[1]].scopes[p[2]].scope
    <3>1. /\ p[1] \in Nat /\ p[2] \in Nat /\ p[3] \in Nat
          /\ IsPlace(dest[s].tree, p[1], p[2], p[3])
          /\ At(s, p) = RecordAt(dest[s].tree, p[1], p[2], p[3])
      BY PlacesOfTree
    <3>2. OwnRecords(dest[s].tree, s, next)
      BY DEF GrouperInv, GroupKept
    <3>3. Fits(RecordAt(dest[s].tree, p[1], p[2], p[3]), dest[s].tree, p[1], p[2], s, next)
      BY <3>1, <3>2 DEF OwnRecords
    <3> QED
      BY <3>1, <3>3 DEF Fits
  <2>3. ASSUME NEW s \in DOMAIN dest, NEW p \in Places(s), NEW o \in Places(s), Before(p, o)
        PROVE  At(s, p) < At(s, o)
    <3>1. /\ p[1] \in Nat /\ p[2] \in Nat /\ p[3] \in Nat
          /\ IsPlace(dest[s].tree, p[1], p[2], p[3])
          /\ At(s, p) = RecordAt(dest[s].tree, p[1], p[2], p[3])
      BY PlacesOfTree
    <3>2. /\ o[1] \in Nat /\ o[2] \in Nat /\ o[3] \in Nat
          /\ IsPlace(dest[s].tree, o[1], o[2], o[3])
          /\ At(s, o) = RecordAt(dest[s].tree, o[1], o[2], o[3])
      BY PlacesOfTree
    <3>3. Earlier(p[1], p[2], p[3], o[1], o[2], o[3])
      BY <2>3 DEF Before, Earlier
    <3>4. InOrder(dest[s].tree)
      BY DEF GrouperInv, GroupKept
    <3>5. RecordAt(dest[s].tree, p[1], p[2], p[3]) < RecordAt(dest[s].tree, o[1], o[2], o[3])
      BY <3>1, <3>2, <3>3, <3>4 DEF InOrder
    <3> QED
      BY <3>1, <3>2, <3>5
  <2> QED
    BY <2>1, <2>2, <2>3 DEF GroupsPartitionRecords, GrouperInv
<1> QED
  BY <1>1, GrouperAlways, PTL

\* The contexts of two places of a group are in the order of the payload.
LEMMA ContextsInOrder ==
    ASSUME GrouperInv, NEW s \in DOMAIN dest,
           NEW q \in Nat, NEW e \in Nat, IsPlace(dest[s].tree, q, e, 1),
           NEW x \in Nat, NEW y \in Nat, IsPlace(dest[s].tree, x, y, 1),
           Earlier(q, e, 1, x, y, 1)
    PROVE  LET t == dest[s].tree IN
           /\ t[q].res \in Nat /\ t[x].res \in Nat
           /\ t[q].scopes[e].scope \in Nat /\ t[x].scopes[y].scope \in Nat
           /\ \/ t[q].res < t[x].res
              \/ t[q].res = t[x].res /\ t[q].scopes[e].scope <= t[x].scopes[y].scope
<1> DEFINE t == dest[s].tree
           i == RecordAt(t, q, e, 1)
           j == RecordAt(t, x, y, 1)
<1>1. OwnRecords(t, s, next) /\ InOrder(t) /\ payload \in Seq(Record) /\ InLoopOrder(payload)
  BY DEF GrouperInv, GroupKept
<1> HIDE DEF t
<1>2. Fits(i, t, q, e, s, next) /\ Fits(j, t, x, y, s, next)
  BY <1>1 DEF OwnRecords, t
<1>3. i < j
  BY <1>1 DEF InOrder, t
<1> HIDE DEF i, j
<1>4. /\ i \in 1..Len(payload) /\ payload[i].res = t[q].res
      /\ payload[i].scope = t[q].scopes[e].scope
      /\ j \in 1..Len(payload) /\ payload[j].res = t[x].res
      /\ payload[j].scope = t[x].scopes[y].scope
  BY <1>2 DEF Fits
<1>5. \/ payload[i].res < payload[j].res
      \/ payload[i].res = payload[j].res /\ payload[i].scope <= payload[j].scope
  BY <1>1, <1>3, <1>4 DEF InLoopOrder
<1>6. payload[i] \in Record /\ payload[j] \in Record
  BY <1>1, <1>4
<1>7. /\ payload[i].res \in Nat /\ payload[i].scope \in Nat
      /\ payload[j].res \in Nat /\ payload[j].scope \in Nat
  BY <1>6, GrouperAssumption DEF Record
<1> QED
  BY <1>4, <1>5, <1>7 DEF t

\* Contexts next to each other differ by the comparisons with the last source, those
\* further apart because the loops visit a context's records together.
LEMMA ContextsAscend == GrouperInv => ContextsCopiedOnce
<1>1. ASSUME GrouperInv, NEW s \in DOMAIN dest
      PROVE  LET t == dest[s].tree IN
             /\ \A q, x \in 1..Len(t) : q < x => t[q].res < t[x].res
             /\ \A q \in 1..Len(t) :
                  /\ Len(t[q].scopes) > 0
                  /\ \A e, y \in 1..Len(t[q].scopes) :
                       e < y => t[q].scopes[e].scope < t[q].scopes[y].scope
                  /\ \A e \in 1..Len(t[q].scopes) : Len(t[q].scopes[e].recs) > 0
  <2> DEFINE t == dest[s].tree
  <2>1. t \in Seq(ResourceNode) /\ NoneEmpty(t) /\ NeighboursDiffer(t)
    BY <1>1 DEF GrouperInv, GroupKept, WellFormed, Dest, Apart
  <2>2. ASSUME NEW q \in Nat, NEW e \in Nat, NEW x \in Nat, NEW y \in Nat,
               IsPlace(t, q, e, 1), IsPlace(t, x, y, 1), Earlier(q, e, 1, x, y, 1)
        PROVE  /\ t[q].res \in Nat /\ t[x].res \in Nat
               /\ t[q].scopes[e].scope \in Nat /\ t[x].scopes[y].scope \in Nat
               /\ \/ t[q].res < t[x].res
                  \/ t[q].res = t[x].res /\ t[q].scopes[e].scope <= t[x].scopes[y].scope
    BY <1>1, <2>2, ContextsInOrder
  <2> HIDE DEF t
  <2>3. /\ Len(t) \in Nat
        /\ \A q \in 1..Len(t) : /\ Len(t[q].scopes) \in Nat /\ Len(t[q].scopes) > 0
                                /\ \A e \in 1..Len(t[q].scopes) :
                                     /\ Len(t[q].scopes[e].recs) \in Nat
                                     /\ Len(t[q].scopes[e].recs) > 0
    BY <2>1, TreeTypes DEF NoneEmpty
  <2>4. \A q \in 1..Len(t) : \A e \in 1..Len(t[q].scopes) :
          q \in Nat /\ e \in Nat /\ IsPlace(t, q, e, 1)
    <3> SUFFICES ASSUME NEW q \in 1..Len(t), NEW e \in 1..Len(t[q].scopes)
                 PROVE  q \in Nat /\ e \in Nat /\ 1 \in 1..Len(t[q].scopes[e].recs)
      BY DEF IsPlace
    <3>1. q \in Nat /\ e \in Nat
      OBVIOUS
    <3> DEFINE l == Len(t[q].scopes[e].recs)
    <3>2. l \in Nat /\ l > 0
      BY <2>3
    <3> HIDE DEF l
    <3>3. 1 \in 1..l
      BY <3>2
    <3> QED
      BY <3>1, <3>3 DEF l
  <2>5. ASSUME NEW q \in 1..Len(t), NEW x \in 1..Len(t), q < x
        PROVE  t[q].res \in Nat /\ t[x].res \in Nat /\ t[q].res <= t[x].res
    <3>1. 1 \in 1..Len(t[q].scopes) /\ 1 \in 1..Len(t[x].scopes)
      BY <2>3
    <3>2. IsPlace(t, q, 1, 1) /\ IsPlace(t, x, 1, 1) /\ q \in Nat /\ x \in Nat
      BY <2>4, <3>1
    <3>3. Earlier(q, 1, 1, x, 1, 1)
      BY <2>5 DEF Earlier
    <3>4. /\ t[q].res \in Nat /\ t[x].res \in Nat
          /\ t[q].res < t[x].res \/ t[q].res = t[x].res
      BY <2>2, <3>2, <3>3, Zenon
    <3> QED
      BY <3>4
  <2>6. ASSUME NEW q \in 1..Len(t), NEW x \in 1..Len(t), q < x
        PROVE  t[q].res < t[x].res
    <3>1. q + 1 \in 1..Len(t) /\ q + 1 > 1 /\ (q + 1) - 1 = q /\ q < q + 1
      BY <2>3, <2>6
    <3>2. t[q + 1].res # t[q].res
      BY <2>1, <3>1 DEF NeighboursDiffer
    <3>3. t[q].res \in Nat /\ t[q + 1].res \in Nat /\ t[q].res < t[q + 1].res
      BY <2>5, <3>1, <3>2
    <3>4. CASE q + 1 = x
      BY <3>3, <3>4
    <3>5. CASE q + 1 < x
      <4>1. t[x].res \in Nat /\ t[q + 1].res <= t[x].res
        BY <2>5, <3>1, <3>5
      <4> QED
        BY <3>3, <4>1
    <3> QED
      BY <2>3, <2>6, <3>4, <3>5
  <2>7. ASSUME NEW q \in 1..Len(t), NEW e \in 1..Len(t[q].scopes),
               NEW y \in 1..Len(t[q].scopes), e < y
        PROVE  /\ t[q].scopes[e].scope \in Nat /\ t[q].scopes[y].scope \in Nat
               /\ t[q].scopes[e].scope <= t[q].scopes[y].scope
    <3>1. /\ IsPlace(t, q, e, 1) /\ IsPlace(t, q, y, 1)
          /\ q \in Nat /\ e \in Nat /\ y \in Nat
      BY <2>4
    <3>2. Earlier(q, e, 1, q, y, 1)
      BY <2>7 DEF Earlier
    <3>3. t[q].res \in Nat
      BY <2>2, <3>1, <3>2
    <3>4. ~ (t[q].res < t[q].res)
      BY <3>3
    <3> QED
      BY <2>2, <3>1, <3>2, <3>4
  <2>8. ASSUME NEW q \in 1..Len(t), NEW e \in 1..Len(t[q].scopes),
               NEW y \in 1..Len(t[q].scopes), e < y
        PROVE  t[q].scopes[e].scope < t[q].scopes[y].scope
    <3> DEFINE l == Len(t[q].scopes)
               c == [z \in 1..l |-> t[q].scopes[z].scope]
    <3>1. /\ \A z \in 1..l : c[z] = t[q].scopes[z].scope
          /\ l \in Nat /\ e \in 1..l /\ y \in 1..l
      BY <2>3
    <3>2. e + 1 \in 1..l /\ e + 1 > 1 /\ (e + 1) - 1 = e /\ e < e + 1
      <4> HIDE DEF l
      <4> QED
        BY <2>8, <3>1
    <3>3. t[q].scopes[e + 1].scope # t[q].scopes[e].scope
      BY <2>1, <3>2 DEF NeighboursDiffer
    <3>4. /\ c[e] \in Nat /\ c[e + 1] \in Nat /\ c[e] <= c[e + 1] /\ c[e] # c[e + 1]
      <4>1. /\ t[q].scopes[e].scope \in Nat /\ t[q].scopes[e + 1].scope \in Nat
            /\ t[q].scopes[e].scope <= t[q].scopes[e + 1].scope
        BY <2>7, <3>2
      <4> QED
        BY <3>1, <3>2, <3>3, <4>1
    <3>5. e + 1 < y => c[y] \in Nat /\ c[e + 1] <= c[y]
      <4>1. ASSUME e + 1 < y
            PROVE  /\ t[q].scopes[y].scope \in Nat
                   /\ t[q].scopes[e + 1].scope <= t[q].scopes[y].scope
        BY <2>7, <3>2, <4>1
      <4> QED
        BY <3>1, <3>2, <4>1
    <3> HIDE DEF c, l
    <3>6. e + 1 = y \/ e + 1 < y
      BY <2>8, <3>1
    <3>7. c[e] < c[y]
      BY <3>4, <3>5, <3>6
    <3> QED
      BY <3>1, <3>7
  <2> QED
    BY <2>3, <2>6, <2>8 DEF t
<1> QED
  BY <1>1 DEF ContextsCopiedOnce

\* A group has a copy of each resource and each scope once, in the order of the
\* payload and never without records; for payloads of any size and shape.
THEOREM ContextsOnce == Spec => []ContextsCopiedOnce
  BY ContextsAscend, GrouperAlways, PTL

=============================================================================
