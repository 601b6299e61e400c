-------------------------- MODULE CaddyRoutesProofs --------------------------
(***************************************************************************)
(* The Caddy adapter, for any number of links, upstreams and routes of     *)
(* others. Types, and the way of a call to its end, hold of every call.    *)
(* The rest is about one attempt at a request and one fault per call       *)
(* (OneFailure), and about a server that no other client has edited during *)
(* a call so far (edits = 0): a Reconcile then leaves a trail of arrays,   *)
(* each made from the one before by the mutation whose undo stands at that *)
(* place of the list, and the server is always at the end of the trail or  *)
(* one step before it, whatever fails.                                     *)
(***************************************************************************)
EXTENDS CaddyRoutes, FunctionTheorems, SequenceTheorems, FiniteSetTheorems,
        WellFoundedInduction, TLAPS

\* Sequences.

\* Every set of naturals has a least element.
LEMMA LeastOf ==
  ASSUME NEW S \in SUBSET Nat, S # {}
  PROVE  Min(S) \in S /\ \A y \in S : Min(S) <= y
<1> DEFINE R == OpToRel(<, Nat)
<1>1. PICK x \in S : \A y \in S : ~ (<<y, x>> \in R)
  <2>1. IsWellFoundedOn(R, Nat)
    BY NatLessThanWellFounded
  <2> HIDE DEF R
  <2>2. QED BY <2>1, WFMin
<1>2. \A y \in S : ~ (y < x)
  BY <1>1 DEF OpToRel
<1>3. \A y \in S : x =< y
  BY <1>2
<1>4. QED BY <1>3 DEF Min

\* Every bounded one has a greatest.
LEMMA GreatestOf ==
  ASSUME NEW n \in Nat, NEW S \in SUBSET (0 .. n), S # {}
  PROVE  Max(S) \in S /\ \A y \in S : Max(S) >= y
<1> DEFINE D == {n - y : y \in S}
<1>1. D \in SUBSET Nat /\ D # {}
  <2>1. \A y \in S : n - y \in Nat
    OBVIOUS
  <2>2. QED BY <2>1
<1>2. PICK d \in D : \A y \in D : d <= y
  BY <1>1, LeastOf
<1>3. PICK x \in S : d = n - x
  OBVIOUS
<1>4. \A y \in S : x >= y
  BY <1>2, <1>3
<1>5. QED BY <1>4 DEF Max

\* An insertion shifts what stands behind it, a deletion closes the gap and a
\* replacement moves nothing.
Inserted(S, s, i, e, t) ==
  /\ t \in Seq(S) /\ Len(t) = Len(s) + 1
  /\ \A j \in 1 .. Len(s) + 1 : t[j] = IF j < i THEN s[j] ELSE IF j = i THEN e ELSE s[j - 1]

Removed(S, s, i, t) ==
  /\ t \in Seq(S) /\ Len(t) = Len(s) - 1
  /\ \A j \in 1 .. Len(s) - 1 : t[j] = IF j < i THEN s[j] ELSE s[j + 1]

Replaced(S, s, i, e, t) ==
  /\ t \in Seq(S) /\ Len(t) = Len(s)
  /\ \A j \in 1 .. Len(s) : t[j] = IF j = i THEN e ELSE s[j]

\* The three operators of the sequences module do so.
LEMMA Inserting ==
  ASSUME NEW S, NEW s \in Seq(S), NEW i \in 1 .. Len(s) + 1, NEW e \in S
  PROVE  Inserted(S, s, i, e, InsertAt(s, i, e))
<1> DEFINE a == SubSeq(s, 1, i - 1)
           b == SubSeq(s, i, Len(s))
<1>1. a \in Seq(S) /\ Len(a) = i - 1 /\ \A k \in 1 .. i - 1 : a[k] = s[k]
  BY SubSeqProperties
<1>2. b \in Seq(S) /\ Len(b) = Len(s) + 1 - i /\ \A k \in 1 .. Len(s) + 1 - i : b[k] = s[k + i - 1]
  BY SubSeqProperties
<1>3. <<e>> \in Seq(S) /\ Len(<<e>>) = 1 /\ <<e>>[1] = e
  OBVIOUS
<1>4. InsertAt(s, i, e) = (a \o <<e>>) \o b
  BY DEF InsertAt
<1> HIDE DEF a, b
<1> DEFINE m == a \o <<e>>
<1>5. m \in Seq(S) /\ Len(m) = i /\ \A k \in 1 .. i : m[k] = IF k < i THEN s[k] ELSE e
  BY <1>1, <1>3, ConcatProperties
<1> HIDE DEF m
<1>6. /\ m \o b \in Seq(S) /\ Len(m \o b) = Len(m) + Len(b)
      /\ \A k \in 1 .. Len(m) + Len(b) : (m \o b)[k] = IF k <= Len(m) THEN m[k] ELSE b[k - Len(m)]
  BY <1>2, <1>5, ConcatProperties
<1>7. InsertAt(s, i, e) = m \o b
  BY <1>4 DEF m
<1> DEFINE t == m \o b
<1> HIDE DEF t
<1>8. Inserted(S, s, i, e, t)
  BY <1>2, <1>5, <1>6 DEF t, Inserted
<1>9. QED BY <1>7, <1>8 DEF t

LEMMA Removing ==
  ASSUME NEW S, NEW s \in Seq(S), NEW i \in 1 .. Len(s)
  PROVE  Removed(S, s, i, RemoveAt(s, i))
<1> DEFINE a == SubSeq(s, 1, i - 1)
           b == SubSeq(s, i + 1, Len(s))
<1>1. a \in Seq(S) /\ Len(a) = i - 1 /\ \A k \in 1 .. i - 1 : a[k] = s[k]
  BY SubSeqProperties
<1>2. b \in Seq(S) /\ Len(b) = Len(s) - i /\ \A k \in 1 .. Len(s) - i : b[k] = s[k + i]
  BY SubSeqProperties
<1>3. RemoveAt(s, i) = a \o b
  BY DEF RemoveAt
<1> HIDE DEF a, b
<1>4. /\ a \o b \in Seq(S) /\ Len(a \o b) = Len(a) + Len(b)
      /\ \A k \in 1 .. Len(a) + Len(b) : (a \o b)[k] = IF k <= Len(a) THEN a[k] ELSE b[k - Len(a)]
  BY <1>1, <1>2, ConcatProperties
<1> DEFINE t == a \o b
<1> HIDE DEF t
<1>5. Removed(S, s, i, t)
  BY <1>1, <1>2, <1>4 DEF t, Removed
<1>6. QED BY <1>3, <1>5 DEF t

LEMMA Replacing ==
  ASSUME NEW S, NEW s \in Seq(S), NEW i \in 1 .. Len(s), NEW e \in S
  PROVE  Replaced(S, s, i, e, ReplaceAt(s, i, e))
<1> DEFINE t == ReplaceAt(s, i, e)
<1>1. /\ t \in Seq(S) /\ Len(t) = Len(s)
      /\ \A j \in 1 .. Len(s) : t[j] = IF j = i THEN e ELSE s[j]
  BY ExceptSeq DEF ReplaceAt
<1> HIDE DEF t
<1>2. Replaced(S, s, i, e, t)
  BY <1>1 DEF Replaced
<1>3. QED BY <1>2 DEF t

\* Each write is undone by another.
LEMMA InsertedRemoved ==
  ASSUME NEW S, NEW s \in Seq(S), NEW i \in 1 .. Len(s) + 1, NEW e \in S
  PROVE  RemoveAt(InsertAt(s, i, e), i) = s
<1> DEFINE t == InsertAt(s, i, e)
<1>1. /\ t \in Seq(S) /\ Len(t) = Len(s) + 1
      /\ \A j \in 1 .. Len(s) + 1 : t[j] = IF j < i THEN s[j] ELSE IF j = i THEN e ELSE s[j - 1]
  <2>1. Inserted(S, s, i, e, t)
    BY Inserting
  <2> HIDE DEF t
  <2>2. QED BY <2>1 DEF Inserted
<1> HIDE DEF t
<1> DEFINE u == RemoveAt(t, i)
<1>2. /\ u \in Seq(S) /\ Len(u) = Len(t) - 1
      /\ \A j \in 1 .. Len(t) - 1 : u[j] = IF j < i THEN t[j] ELSE t[j + 1]
  <2>1. Removed(S, t, i, u)
    BY <1>1, Removing
  <2> HIDE DEF u
  <2>2. QED BY <2>1 DEF Removed
<1> HIDE DEF u
<1>3. Len(u) = Len(s)
  BY <1>1, <1>2
<1>4. ASSUME NEW j \in 1 .. Len(s)
      PROVE  u[j] = s[j]
  <2>1. u[j] = IF j < i THEN t[j] ELSE t[j + 1]
    BY <1>1, <1>2
  <2>2. CASE j < i
    BY <1>1, <2>1, <2>2
  <2>3. CASE j >= i
    <3>1. j + 1 \in 1 .. Len(s) + 1 /\ ~(j + 1 < i) /\ j + 1 # i /\ (j + 1) - 1 = j
      BY <2>3
    <3>2. t[j + 1] = s[j]
      BY <1>1, <3>1
    <3>3. QED BY <2>1, <2>3, <3>2
  <2>4. QED BY <2>2, <2>3
<1>5. u = s
  BY <1>2, <1>3, <1>4, SeqEqual
<1>6. QED BY <1>5 DEF t, u

\* Putting back what was taken out gives the sequence back.
LEMMA RemovedInserted ==
  ASSUME NEW S, NEW s \in Seq(S), NEW i \in 1 .. Len(s)
  PROVE  InsertAt(RemoveAt(s, i), i, s[i]) = s
<1> DEFINE t == RemoveAt(s, i)
<1>1. /\ t \in Seq(S) /\ Len(t) = Len(s) - 1
      /\ \A j \in 1 .. Len(s) - 1 : t[j] = IF j < i THEN s[j] ELSE s[j + 1]
  <2>1. Removed(S, s, i, t)
    BY Removing
  <2> HIDE DEF t
  <2>2. QED BY <2>1 DEF Removed
<1> HIDE DEF t
<1> DEFINE u == InsertAt(t, i, s[i])
<1>2. /\ u \in Seq(S) /\ Len(u) = Len(t) + 1
      /\ \A j \in 1 .. Len(t) + 1 : u[j] = IF j < i THEN t[j] ELSE IF j = i THEN s[i] ELSE t[j - 1]
  <2>1. Inserted(S, t, i, s[i], u)
    BY <1>1, Inserting
  <2> HIDE DEF u
  <2>2. QED BY <2>1 DEF Inserted
<1> HIDE DEF u
<1>3. u = s
  BY <1>1, <1>2, SeqEqual
<1>4. QED BY <1>3 DEF t, u

\* Writing the old element back gives the sequence back.
LEMMA ReplacedBack ==
  ASSUME NEW S, NEW s \in Seq(S), NEW i \in 1 .. Len(s), NEW e \in S
  PROVE  ReplaceAt(ReplaceAt(s, i, e), i, s[i]) = s /\ ReplaceAt(s, i, s[i]) = s
<1> DEFINE t == ReplaceAt(s, i, e)
           x == s[i]
<1>1. /\ t \in Seq(S) /\ Len(t) = Len(s)
      /\ \A j \in 1 .. Len(s) : t[j] = IF j = i THEN e ELSE s[j]
  BY ExceptSeq DEF ReplaceAt
<1>2. x \in S /\ x = s[i]
  BY ElementOfSeq
<1> HIDE DEF t, x
<1> DEFINE u == ReplaceAt(t, i, x)
           v == ReplaceAt(s, i, x)
<1>3. /\ u \in Seq(S) /\ Len(u) = Len(t)
      /\ \A j \in 1 .. Len(t) : u[j] = IF j = i THEN x ELSE t[j]
  BY <1>1, <1>2, ExceptSeq DEF ReplaceAt
<1>4. /\ v \in Seq(S) /\ Len(v) = Len(s)
      /\ \A j \in 1 .. Len(s) : v[j] = IF j = i THEN x ELSE s[j]
  BY <1>1, <1>2, ExceptSeq DEF ReplaceAt
<1> HIDE DEF u, v
<1>5. u = s /\ v = s
  BY <1>1, <1>2, <1>3, <1>4, SeqEqual
<1>6. QED BY <1>5 DEF t, u, v, x

-----------------------------------------------------------------------------
\* Arrays of routes.

\* No identity twice, and every route of Mirage before the fallback.
Distinct(a) == \A i, j \in DOMAIN a : a[i].id = a[j].id => i = j
Ordered(a)  == \A i, j \in DOMAIN a : a[i].id \in Links /\ a[j].id = Fallback => i < j
Sound(a)    == a \in Seq(Route) /\ Distinct(a) /\ Ordered(a)

\* A route of Seq(Route) has an identity and an upstream.
LEMMA RouteFields ==
  ASSUME NEW r \in Route
  PROVE  r.id \in Ids /\ r.up \in Upstreams \union {None}
  BY DEF Route

\* Place finds what is there.
LEMMA Finding ==
  ASSUME NEW a \in Seq(Route), NEW k, Has(a, k)
  PROVE  Place(a, k) \in 1 .. Len(a) /\ a[Place(a, k)].id = k
<1>1. Places(a, k) \in SUBSET Nat /\ Places(a, k) # {}
  BY DEF Places, Has
<1>2. Place(a, k) \in Places(a, k)
  BY <1>1, LeastOf DEF Place
<1>3. QED BY <1>2 DEF Places

\* With distinct identities a place is the place.
LEMMA Found ==
  ASSUME NEW a \in Seq(Route), Distinct(a), NEW i \in 1 .. Len(a)
  PROVE  /\ Has(a, a[i].id) /\ Place(a, a[i].id) = i
         /\ Upstream(a, a[i].id) = a[i].up
<1>1. Has(a, a[i].id)
  BY DEF Has, Places
<1>2. Place(a, a[i].id) = i
  BY <1>1, Finding DEF Distinct
<1>3. QED BY <1>1, <1>2 DEF Upstream

\* What is not there has no upstream.
LEMMA Absent ==
  ASSUME NEW a \in Seq(Route), NEW k
  PROVE  Has(a, k) <=> \E i \in 1 .. Len(a) : a[i].id = k
  BY DEF Has, Places

\* Every route of Mirage in a sound array is before the place of the fallback.
LEMMA FallbackPlace ==
  ASSUME NEW a, Sound(a)
  PROVE  /\ FallbackIndex(a) \in 1 .. Len(a) + 1
         /\ \A i \in 1 .. Len(a) : a[i].id \in Links => i < FallbackIndex(a)
         /\ \A i \in 1 .. Len(a) : a[i].id = Fallback => i = FallbackIndex(a)
<1>1. a \in Seq(Route) /\ Distinct(a) /\ Ordered(a)
  BY DEF Sound
<1>2. CASE Has(a, Fallback)
  BY <1>1, <1>2, Finding DEF FallbackIndex, Ordered, Distinct
<1>3. CASE ~Has(a, Fallback)
  BY <1>1, <1>3, Absent DEF FallbackIndex
<1>4. QED BY <1>2, <1>3

\* Two arrays have the same routes of others when these correspond in order.
LEMMA Corresponding ==
  ASSUME NEW a \in Seq(Route), NEW b \in Seq(Route),
         NEW g \in [Others(a) -> Others(b)],
         \A i, j \in Others(a) : i < j <=> g[i] < g[j],
         \A q \in Others(b) : \E i \in Others(a) : g[i] = q,
         \A i \in Others(a) : b[g[i]] = a[i]
  PROVE  Unowned(b) = Unowned(a)
<1> DEFINE Ra(i) == {j \in Others(a) : j <= i}
           Rb(i) == {j \in Others(b) : j <= i}
<1>1. Others(a) \subseteq 1 .. Len(a) /\ Others(b) \subseteq 1 .. Len(b)
  BY DEF Others
<1>2. ASSUME NEW i \in Others(a)
      PROVE  Cardinality(Rb(g[i])) = Cardinality(Ra(i))
  <2> DEFINE G == [j \in Ra(i) |-> g[j]]
  <2>1. \A j, k \in Others(a) : /\ j \in Nat /\ k \in Nat /\ g[j] \in Nat /\ g[k] \in Nat
                                /\ g[j] = g[k] => j = k
                                /\ j <= k <=> g[j] <= g[k]
    BY <1>1
  <2>2. G \in [Ra(i) -> Rb(g[i])]
    BY <2>1
  <2>3. \A j, k \in Ra(i) : G[j] = G[k] => j = k
    BY <2>1
  <2>4. \A q \in Rb(g[i]) : \E j \in Ra(i) : G[j] = q
    BY <2>1
  <2>5. IsFiniteSet(Ra(i))
    <3>1. IsFiniteSet(1 .. Len(a)) /\ Ra(i) \in SUBSET (1 .. Len(a))
      BY <1>1, FS_Interval
    <3>2. QED BY <3>1, FS_Subset
  <2> HIDE DEF G, Ra, Rb
  <2>6. G \in Bijection(Ra(i), Rb(g[i]))
    BY <2>2, <2>3, <2>4, Fun_IsBij
  <2>7. ExistsBijection(Ra(i), Rb(g[i]))
    BY <2>6 DEF ExistsBijection
  <2>8. QED BY <2>5, <2>7, FS_Bijection
<1>3. Unowned(a) = {<<Cardinality(Ra(i)), a[i]>> : i \in Others(a)}
  BY DEF Unowned
<1>4. Unowned(b) = {<<Cardinality(Rb(i)), b[i]>> : i \in Others(b)}
  BY DEF Unowned
<1> HIDE DEF Ra, Rb
<1>5. \A x : x \in Unowned(a) => x \in Unowned(b)
  BY <1>2, <1>3, <1>4
<1>6. \A x : x \in Unowned(b) => x \in Unowned(a)
  BY <1>2, <1>3, <1>4
<1>7. QED BY <1>5, <1>6

\* A route put in the place of its namesake.
LEMMA PutKeeps ==
  ASSUME NEW a, Sound(a), NEW i \in 1 .. Len(a), NEW r \in Route,
         r.id = a[i].id, r.id \in Links
  PROVE  LET c == ReplaceAt(a, i, r)
         IN  /\ Sound(c) /\ Unowned(c) = Unowned(a)
             /\ \A k : Has(c, k) = Has(a, k) /\ Place(c, k) = Place(a, k)
             /\ \A l \in Links : Upstream(c, l) = IF l = r.id THEN r.up ELSE Upstream(a, l)
<1> DEFINE c == ReplaceAt(a, i, r)
<1>1. a \in Seq(Route) /\ Distinct(a) /\ Ordered(a)
  BY DEF Sound
<1>2. /\ c \in Seq(Route) /\ Len(c) = Len(a)
      /\ \A j \in 1 .. Len(a) : c[j] = IF j = i THEN r ELSE a[j]
  <2>1. Replaced(Route, a, i, r, c)
    BY <1>1, Replacing
  <2> HIDE DEF c
  <2>2. QED BY <2>1 DEF Replaced
<1> HIDE DEF c
<1>3. \A j \in 1 .. Len(a) : c[j].id = a[j].id
  BY <1>2
<1>4. Sound(c)
  BY <1>1, <1>2, <1>3 DEF Sound, Distinct, Ordered
<1>5. \A k : Places(c, k) = Places(a, k)
  BY <1>1, <1>2, <1>3 DEF Places
<1>6. \A k : Has(c, k) = Has(a, k) /\ Place(c, k) = Place(a, k)
  BY <1>5 DEF Has, Place
<1>7. ASSUME NEW l \in Links
      PROVE  Upstream(c, l) = IF l = r.id THEN r.up ELSE Upstream(a, l)
  <2>1. CASE l = r.id
    <3>1. Has(a, l) /\ Place(a, l) = i
      BY <1>1, <2>1, Found
    <3>2. QED BY <1>2, <1>6, <2>1, <3>1 DEF Upstream
  <2>2. CASE l # r.id /\ Has(a, l)
    <3>1. Place(a, l) \in 1 .. Len(a) /\ a[Place(a, l)].id = l
      BY <1>1, <2>2, Finding
    <3>2. QED BY <1>2, <1>6, <2>2, <3>1 DEF Upstream
  <2>3. CASE l # r.id /\ ~Has(a, l)
    BY <1>6, <2>3 DEF Upstream
  <2>4. QED BY <2>1, <2>2, <2>3
<1>8. Unowned(c) = Unowned(a)
  <2>1. Others(c) = Others(a) /\ \A j \in Others(a) : j \in Nat /\ c[j] = a[j]
    BY <1>1, <1>2, <1>3 DEF Others
  <2> DEFINE g == [j \in Others(a) |-> j]
  <2>2. /\ g \in [Others(a) -> Others(c)]
        /\ \A j, k \in Others(a) : j < k <=> g[j] < g[k]
        /\ \A q \in Others(c) : \E j \in Others(a) : g[j] = q
        /\ \A j \in Others(a) : c[g[j]] = a[j]
    BY <2>1
  <2> HIDE DEF g
  <2>3. QED BY <1>1, <1>2, <2>2, Corresponding
<1>9. QED BY <1>4, <1>6, <1>7, <1>8 DEF c

\* A route that is new, inserted before the fallback when it is Mirage's.
LEMMA InsertKeeps ==
  ASSUME NEW a, Sound(a), NEW i \in 1 .. Len(a) + 1, NEW r \in Route,
         ~Has(a, r.id), r.id # Fallback, r.id \in Links => i <= FallbackIndex(a)
  PROVE  LET c == InsertAt(a, i, r)
         IN  /\ Sound(c) /\ (r.id \in Links => Unowned(c) = Unowned(a))
             /\ \A k : Has(c, k) <=> Has(a, k) \/ k = r.id
             /\ \A l \in Links : Upstream(c, l) = IF l = r.id THEN r.up ELSE Upstream(a, l)
<1> DEFINE c == InsertAt(a, i, r)
           to(j) == IF j < i THEN j ELSE j + 1
<1>1. a \in Seq(Route) /\ Distinct(a) /\ Ordered(a) /\ Len(a) \in Nat
  BY DEF Sound
<1>2. /\ c \in Seq(Route) /\ Len(c) = Len(a) + 1
      /\ \A j \in 1 .. Len(a) + 1 : c[j] = IF j < i THEN a[j] ELSE IF j = i THEN r ELSE a[j - 1]
  <2>1. a \in Seq(Route) /\ i \in 1 .. Len(a) + 1 /\ r \in Route
    BY <1>1
  <2>2. Inserted(Route, a, i, r, c)
    BY <2>1, Inserting
  <2> HIDE DEF c
  <2>3. QED BY <2>2 DEF Inserted
<1> HIDE DEF c
<1>3. \A j \in 1 .. Len(a) : to(j) \in 1 .. Len(c) /\ to(j) # i /\ c[to(j)] = a[j]
  BY <1>1, <1>2
<1>4. \A q \in 1 .. Len(c) : q # i => \E j \in 1 .. Len(a) : q = to(j)
  <2>1. ASSUME NEW q \in 1 .. Len(c), q # i
        PROVE  \E j \in 1 .. Len(a) : q = to(j)
    <3>1. CASE q < i
      BY <1>1, <1>2, <3>1
    <3>2. CASE q > i
      <4>1. q - 1 \in 1 .. Len(a) /\ q = to(q - 1)
        BY <1>1, <1>2, <3>2
      <4>2. QED BY <4>1
    <3>3. QED BY <1>2, <2>1, <3>1, <3>2
  <2>2. QED BY <2>1
<1>5. c[i] = r /\ i \in 1 .. Len(c)
  BY <1>1, <1>2
<1>6. \A j, k \in 1 .. Len(a) : (j < k <=> to(j) < to(k)) /\ (j < i <=> to(j) < i)
  BY <1>1
<1>7. \A j \in 1 .. Len(a) : a[j].id # r.id
  BY <1>1, Absent
<1>7a. \A q \in 1 .. Len(c) : q = i \/ \E j \in 1 .. Len(a) : q = to(j) /\ c[q] = a[j]
  BY <1>3, <1>4
<1> HIDE DEF to
<1>8. Distinct(c)
  <2>1. ASSUME NEW p \in 1 .. Len(c), NEW q \in 1 .. Len(c), c[p].id = c[q].id
        PROVE  p = q
    <3>1. CASE p = i
      BY <1>5, <1>7, <1>7a, <2>1, <3>1
    <3>2. CASE q = i
      BY <1>5, <1>7, <1>7a, <2>1, <3>2
    <3>3. CASE p # i /\ q # i
      <4>1. PICK j \in 1 .. Len(a) : p = to(j) /\ c[p] = a[j]
        BY <1>7a, <3>3
      <4>2. PICK k \in 1 .. Len(a) : q = to(k) /\ c[q] = a[k]
        BY <1>7a, <3>3
      <4>3. j = k
        BY <1>1, <2>1, <4>1, <4>2 DEF Distinct
      <4>4. QED BY <4>1, <4>2, <4>3
    <3>4. QED BY <3>1, <3>2, <3>3
  <2>2. QED BY <1>2, <2>1 DEF Distinct
<1>9. Ordered(c)
  <2>1. \A j \in 1 .. Len(a) : a[j].id = Fallback => j = FallbackIndex(a)
    BY FallbackPlace
  <2>2. \A j \in 1 .. Len(a) : a[j].id = Fallback /\ r.id \in Links => i < to(j)
    BY <1>1, <1>3, <2>1 DEF to
  <2>3. ASSUME NEW p \in 1 .. Len(c), NEW q \in 1 .. Len(c), c[p].id \in Links, c[q].id = Fallback
        PROVE  p < q
    <3>1. PICK k \in 1 .. Len(a) : q = to(k) /\ c[q] = a[k]
      BY <1>5, <1>7a, <2>3
    <3>2. CASE p = i
      BY <1>5, <2>2, <2>3, <3>1, <3>2
    <3>3. CASE p # i
      <4>1. PICK j \in 1 .. Len(a) : p = to(j) /\ c[p] = a[j]
        BY <1>7a, <3>3
      <4>2. j < k
        BY <1>1, <2>3, <3>1, <4>1 DEF Ordered
      <4>3. QED BY <1>6, <3>1, <4>1, <4>2
    <3>4. QED BY <3>2, <3>3
  <2>4. QED BY <1>2, <2>3 DEF Ordered
<1>10. \A k : Has(c, k) <=> Has(a, k) \/ k = r.id
  <2>1. ASSUME NEW k, Has(c, k), k # r.id
        PROVE  Has(a, k)
    <3>1. PICK q \in 1 .. Len(c) : c[q].id = k
      BY <1>2, <2>1, Absent
    <3>2. PICK j \in 1 .. Len(a) : c[q] = a[j]
      BY <1>5, <1>7a, <2>1, <3>1
    <3>3. QED BY <1>1, <3>1, <3>2, Absent
  <2>2. ASSUME NEW k, Has(a, k)
        PROVE  Has(c, k)
    <3>1. PICK j \in 1 .. Len(a) : a[j].id = k
      BY <1>1, <2>2, Absent
    <3>2. to(j) \in 1 .. Len(c) /\ c[to(j)].id = k
      BY <1>3, <3>1
    <3>3. QED BY <1>2, <3>2, Absent
  <2>3. Has(c, r.id)
    BY <1>2, <1>5, Absent
  <2>4. QED BY <2>1, <2>2, <2>3
<1>11. ASSUME NEW l \in Links
       PROVE  Upstream(c, l) = IF l = r.id THEN r.up ELSE Upstream(a, l)
  <2>1. CASE l = r.id
    BY <1>2, <1>5, <1>8, <2>1, Found
  <2>2. CASE l # r.id /\ Has(a, l)
    <3>1. PICK p \in 1 .. Len(a) : a[p].id = l
      BY <1>1, <2>2, Absent
    <3>2. Upstream(a, l) = a[p].up
      BY <1>1, <3>1, Found
    <3>3. to(p) \in 1 .. Len(c) /\ c[to(p)] = a[p]
      BY <1>3
    <3>4. Upstream(c, l) = c[to(p)].up
      BY <1>2, <1>8, <3>1, <3>3, Found
    <3>5. QED BY <2>2, <3>2, <3>3, <3>4
  <2>3. CASE l # r.id /\ ~Has(a, l)
    BY <1>10, <2>3 DEF Upstream
  <2>4. QED BY <2>1, <2>2, <2>3
<1>12. ASSUME r.id \in Links
       PROVE  Unowned(c) = Unowned(a)
  <2>1. Others(a) \subseteq 1 .. Len(a)
    BY <1>1 DEF Others
  <2>2. Others(c) = {to(j) : j \in Others(a)}
    <3>1. ASSUME NEW j \in Others(a) PROVE to(j) \in Others(c)
      BY <1>1, <1>2, <1>3 DEF Others
    <3>2. ASSUME NEW q \in Others(c) PROVE \E j \in Others(a) : q = to(j)
      <4>1. q \in 1 .. Len(c) /\ c[q].id \notin Links
        BY <1>2 DEF Others
      <4>2. PICK j \in 1 .. Len(a) : q = to(j) /\ c[q] = a[j]
        BY <1>5, <1>12, <1>7a, <4>1
      <4>3. QED BY <1>1, <4>1, <4>2 DEF Others
    <3>3. QED BY <3>1, <3>2
  <2> DEFINE g == [j \in Others(a) |-> to(j)]
  <2>3. /\ g \in [Others(a) -> Others(c)]
        /\ \A j, k \in Others(a) : j < k <=> g[j] < g[k]
        /\ \A q \in Others(c) : \E j \in Others(a) : g[j] = q
        /\ \A j \in Others(a) : c[g[j]] = a[j]
    BY <1>3, <1>6, <2>1, <2>2
  <2> HIDE DEF g
  <2>4. QED BY <1>1, <1>2, <2>3, Corresponding
<1>13. QED BY <1>2, <1>8, <1>9, <1>10, <1>11, <1>12 DEF c, Sound

\* A route taken out.
LEMMA RemoveKeeps ==
  ASSUME NEW a, Sound(a), NEW i \in 1 .. Len(a)
  PROVE  LET c == RemoveAt(a, i)
         IN  /\ Sound(c) /\ (a[i].id \in Links => Unowned(c) = Unowned(a))
             /\ \A k : Has(c, k) <=> Has(a, k) /\ k # a[i].id
             /\ \A l \in Links : Upstream(c, l) = IF l = a[i].id THEN None ELSE Upstream(a, l)
<1> DEFINE c == RemoveAt(a, i)
           from(j) == IF j < i THEN j ELSE j + 1
<1>1. a \in Seq(Route) /\ Distinct(a) /\ Ordered(a) /\ Len(a) \in Nat
  BY DEF Sound
<1>2. /\ c \in Seq(Route) /\ Len(c) = Len(a) - 1
      /\ \A j \in 1 .. Len(a) - 1 : c[j] = IF j < i THEN a[j] ELSE a[j + 1]
  <2>1. Removed(Route, a, i, c)
    BY <1>1, Removing
  <2> HIDE DEF c
  <2>2. QED BY <2>1 DEF Removed
<1> HIDE DEF c
<1>3. \A j \in 1 .. Len(c) : from(j) \in 1 .. Len(a) /\ from(j) # i /\ c[j] = a[from(j)]
  BY <1>1, <1>2
<1>4. \A q \in 1 .. Len(a) : q # i => \E j \in 1 .. Len(c) : q = from(j)
  <2>1. ASSUME NEW q \in 1 .. Len(a), q # i
        PROVE  \E j \in 1 .. Len(c) : q = from(j)
    <3>1. CASE q < i
      BY <1>1, <1>2, <3>1
    <3>2. CASE q > i
      <4>1. q - 1 \in 1 .. Len(c) /\ q = from(q - 1)
        BY <1>1, <1>2, <3>2
      <4>2. QED BY <4>1
    <3>3. QED BY <1>1, <2>1, <3>1, <3>2
  <2>2. QED BY <2>1
<1>5. \A j, k \in 1 .. Len(c) : j < k <=> from(j) < from(k)
  BY <1>1, <1>2
<1> HIDE DEF from
<1>6. Distinct(c)
  BY <1>1, <1>2, <1>3, <1>5 DEF Distinct
<1>7. Ordered(c)
  BY <1>1, <1>2, <1>3, <1>5 DEF Ordered
<1>8. \A k : Has(c, k) <=> Has(a, k) /\ k # a[i].id
  <2>1. ASSUME NEW k, Has(c, k)
        PROVE  Has(a, k) /\ k # a[i].id
    <3>1. PICK q \in 1 .. Len(c) : c[q].id = k
      BY <1>2, <2>1, Absent
    <3>2. from(q) \in 1 .. Len(a) /\ from(q) # i /\ a[from(q)].id = k
      BY <1>3, <3>1
    <3>3. QED BY <1>1, <3>2, Absent DEF Distinct
  <2>2. ASSUME NEW k, Has(a, k), k # a[i].id
        PROVE  Has(c, k)
    <3>1. PICK j \in 1 .. Len(a) : a[j].id = k
      BY <1>1, <2>2, Absent
    <3>2. PICK q \in 1 .. Len(c) : j = from(q)
      BY <1>4, <2>2, <3>1
    <3>3. c[q].id = k
      BY <1>3, <3>1, <3>2
    <3>4. QED BY <1>2, <3>3, Absent
  <2>3. QED BY <2>1, <2>2
<1>9. ASSUME NEW l \in Links
      PROVE  Upstream(c, l) = IF l = a[i].id THEN None ELSE Upstream(a, l)
  <2>1. CASE ~Has(c, l)
    BY <1>8, <2>1 DEF Upstream
  <2>2. CASE Has(c, l)
    <3>1. PICK p \in 1 .. Len(c) : c[p].id = l
      BY <1>2, <2>2, Absent
    <3>2. Upstream(c, l) = c[p].up
      BY <1>2, <1>6, <3>1, Found
    <3>3. from(p) \in 1 .. Len(a) /\ a[from(p)] = c[p]
      BY <1>3
    <3>4. Upstream(a, l) = a[from(p)].up
      BY <1>1, <3>1, <3>3, Found
    <3>5. QED BY <1>8, <2>2, <3>2, <3>3, <3>4
  <2>3. QED BY <2>1, <2>2
<1>10. ASSUME a[i].id \in Links
       PROVE  Unowned(c) = Unowned(a)
  <2>1. Others(c) \subseteq 1 .. Len(c)
    BY <1>2 DEF Others
  <2>2. Others(a) = {from(j) : j \in Others(c)}
    <3>1. ASSUME NEW j \in Others(c) PROVE from(j) \in Others(a)
      BY <1>1, <1>2, <1>3 DEF Others
    <3>2. ASSUME NEW q \in Others(a) PROVE \E j \in Others(c) : q = from(j)
      <4>1. q \in 1 .. Len(a) /\ a[q].id \notin Links
        BY <1>1 DEF Others
      <4>2. PICK j \in 1 .. Len(c) : q = from(j)
        BY <1>4, <1>10, <4>1
      <4>3. c[j] = a[q]
        BY <1>3, <4>2
      <4>4. QED BY <1>2, <4>1, <4>2, <4>3 DEF Others
    <3>3. QED BY <3>1, <3>2
  <2> DEFINE g == [j \in Others(c) |-> from(j)]
  <2>3. /\ g \in [Others(c) -> Others(a)]
        /\ \A j, k \in Others(c) : j < k <=> g[j] < g[k]
        /\ \A q \in Others(a) : \E j \in Others(c) : g[j] = q
        /\ \A j \in Others(c) : a[g[j]] = c[j]
    BY <1>3, <1>5, <2>1, <2>2
  <2> HIDE DEF g
  <2>4. QED BY <1>1, <1>2, <2>3, Corresponding
<1>11. QED BY <1>2, <1>6, <1>7, <1>8, <1>9, <1>10 DEF c, Sound

-----------------------------------------------------------------------------
\* Types.

\* What each place of a call relies on for its types.
Framed(c) ==
  /\ c \in Call
  /\ c.pc # "idle" => c.kind # "none"
  /\ c.pc # "idle" /\ c.kind # "reconcile" => c.link \in Links
  /\ c.pc \in {"plan", "undo", "unsend"} => c.kind = "reconcile"
  /\ c.pc = "unsend" => c.undos # <<>>
  /\ c.kind = "reconcile" /\ c.pc = "send" /\ c.req.method = "POST" =>
       c.req.at \in 1 .. Len(c.all) + 1

\* Types, with what only the state of the call tells.
TInv == config \in Seq(Route) /\ Framed(call)

\* The catch-all is no link, and no upstream is the missing one.
LEMMA Constants ==
  /\ Attempts \in Nat /\ Attempts > 0 /\ MaxFaults \in Nat
  /\ Fallback \in Ids /\ \A l \in Links : l \in Ids /\ l # Fallback
  /\ \A f \in Foreign : f \in Ids /\ f # Fallback /\ f \notin Links
  /\ Fallback \notin Links /\ None \notin Upstreams
  BY CaddyAssumption DEF Ids

\* A route that Mirage writes is a route.
LEMMA RoutesTyped ==
  /\ \A k \in Ids : Plain(k) \in Route /\ Plain(k).id = k
  /\ \A l \in Links, u \in Upstreams \union {None} :
       Owned(l, u) \in Route /\ Owned(l, u).id = l /\ Owned(l, u).up = u
  /\ NoRequest \in Request
  BY Constants DEF Plain, Owned, Route, Ids, NoRequest, Request

\* The three mutations are requests.
LEMMA RequestsTyped ==
  ASSUME NEW i \in Nat, NEW r \in Route
  PROVE  /\ Put(i, r) \in Request /\ Post(i, r) \in Request /\ Delete(i) \in Request
         /\ Put(i, r).method = "PUT" /\ Put(i, r).at = i /\ Put(i, r).route = r
         /\ Post(i, r).method = "POST" /\ Post(i, r).at = i /\ Post(i, r).route = r
         /\ Delete(i).method = "DELETE" /\ Delete(i).at = i
  BY RoutesTyped, Constants DEF Put, Post, Delete, Request

\* Before the next call nothing is in hand.
LEMMA IdleFramed ==
  /\ Idle \in Call /\ Idle.pc = "idle" /\ Idle.kind = "none"
  /\ Idle.undos = <<>> /\ Idle.dead = FALSE /\ Idle.faults = 0 /\ Idle.tries = 0
  /\ Idle.wanted = [l \in Links |-> None]
<1>1. /\ <<>> \in Seq(Route) /\ <<>> \in Seq(Undo)
      /\ 0 \in 0 .. Attempts - 1 /\ 0 \in 0 .. MaxFaults
  BY Constants
<1>2. [l \in Links |-> None] \in Wanted
  BY DEF Wanted
<1>3. QED BY <1>1, <1>2, RoutesTyped DEF Idle, Call, Calls, PCs, Outcomes

\* A call that returns is typed.
LEMMA ReturnFramed ==
  ASSUME NEW o \in Outcomes, Return(o)
  PROVE  /\ Framed(call') /\ call'.pc = "idle" /\ call'.kind = "none" /\ call'.outcome = o
         /\ call'.dead = FALSE
<1>1. call' = [Idle EXCEPT !.outcome = o]
  BY DEF Return
<1>2. /\ call' \in Call /\ call'.pc = "idle" /\ call'.kind = "none" /\ call'.outcome = o
      /\ call'.dead = FALSE
  BY <1>1, IdleFramed DEF Call
<1>3. QED BY <1>2 DEF Framed

\* A write that the server accepts leaves an array of routes.
LEMMA AppliedTyped ==
  ASSUME NEW a \in Seq(Route), NEW r \in Request, Accepts(a, r)
  PROVE  Applied(a, r) \in Seq(Route)
<1>0. Len(a) \in Nat /\ r.route \in Route
  BY DEF Request
<1>1. CASE r.method = "PUT"
  <2>1. r.at \in 1 .. Len(a)
    BY <1>1 DEF Accepts
  <2>2. Applied(a, r) = ReplaceAt(a, r.at, r.route)
    BY <1>1 DEF Applied
  <2>3. QED BY <1>0, <2>1, <2>2, Replacing DEF Replaced
<1>2. CASE r.method = "POST"
  <2>1. r.at \in 1 .. Len(a) + 1
    BY <1>2 DEF Accepts
  <2>2. Applied(a, r) = InsertAt(a, r.at, r.route)
    BY <1>2 DEF Applied
  <2>3. QED BY <1>0, <2>1, <2>2, Inserting DEF Inserted
<1>3. CASE r.method = "DELETE"
  <2>1. r.at \in 1 .. Len(a)
    BY <1>3 DEF Accepts
  <2>2. Applied(a, r) = RemoveAt(a, r.at)
    BY <1>3 DEF Applied
  <2>3. QED BY <1>0, <2>1, <2>2, Removing DEF Removed
<1>4. r.method \in {"PUT", "POST", "DELETE"}
  BY DEF Request
<1>5. QED BY <1>1, <1>2, <1>3, <1>4

\* The server stays an array under what it accepts.
LEMMA ApplicationsTyped ==
  ASSUME TInv, config' \in Applications
  PROVE  config' \in Seq(Route)
<1>1. call.req \in Request /\ config \in Seq(Route)
  BY DEF TInv, Framed, Call
<1>2. QED BY <1>1, AppliedTyped DEF Applications

-----------------------------------------------------------------------------
\* The parts of the handlers.

\* Starting and continuing a rollback.
LEMMA RollbackFramed ==
  ASSUME TInv, NEW n \in {0, 1}, n = 1 => Charge, call.kind = "reconcile", Rollback(n)
  PROVE  /\ Framed(call') /\ call'.pc = "undo" /\ call'.dead = FALSE
         /\ call'.faults = call.faults + n
         /\ call'.kind = call.kind /\ call'.undos = call.undos /\ call'.snap = call.snap
         /\ call'.wanted = call.wanted
<1>1. call' = [call EXCEPT !.pc = "undo", !.dead = FALSE, !.tries = 0, !.faults = @ + n]
  BY DEF Rollback
<1>2. call \in Call /\ call.faults + n \in 0 .. MaxFaults /\ 0 \in 0 .. Attempts - 1
  BY Constants DEF TInv, Framed, Call, Charge
<1>3. /\ call'.pc = "undo" /\ call'.kind = call.kind /\ call' \in Call
      /\ call'.dead = FALSE /\ call'.faults = call.faults + n
      /\ call'.undos = call.undos /\ call'.snap = call.snap /\ call'.wanted = call.wanted
  BY <1>1, <1>2 DEF Call, PCs
<1>4. QED BY <1>3 DEF Framed

\* An undo that is done with, or has failed, is dropped.
LEMMA DroppedFramed ==
  ASSUME TInv, NEW n \in {0, 1}, n = 1 => Charge, call.kind = "reconcile", call.undos # <<>>,
         Dropped(n)
  PROVE  /\ Framed(call') /\ call'.pc = "undo" /\ call'.dead = call.dead
         /\ call'.faults = call.faults + n
         /\ call'.kind = call.kind /\ call'.undos = Front(call.undos) /\ call'.snap = call.snap
         /\ call'.wanted = call.wanted
<1>1. call' = [call EXCEPT !.pc = "undo", !.undos = Front(call.undos), !.tries = 0, !.faults = call.faults + n]
  BY DEF Dropped
<1>2. /\ call \in Call /\ call.faults + n \in 0 .. MaxFaults /\ 0 \in 0 .. Attempts - 1
      /\ call.undos \in Seq(Undo)
  BY Constants DEF TInv, Framed, Call, Charge
<1>3. Front(call.undos) \in Seq(Undo)
  <2>1. \A i \in 1 .. Len(call.undos) - 1 : call.undos[i] \in Undo
    BY <1>2, ElementOfSeq
  <2>2. QED BY <1>2, <2>1, SubSeqProperties DEF Front
<1>4. /\ call'.pc = "undo" /\ call'.kind = call.kind /\ call' \in Call
      /\ call'.dead = call.dead /\ call'.faults = call.faults + n
      /\ call'.undos = Front(call.undos) /\ call'.snap = call.snap /\ call'.wanted = call.wanted
  BY <1>1, <1>2, <1>3 DEF Call, PCs
<1>5. QED BY <1>4 DEF Framed

\* Another attempt at a request.
LEMMA RetryFramed ==
  ASSUME TInv, Charge, Retry
  PROVE  Framed(call')
<1>1. call' = [call EXCEPT !.tries = call.tries + 1, !.faults = call.faults + 1]
  BY DEF Retry
<1>2. /\ call \in Call /\ call.faults + 1 \in 0 .. MaxFaults /\ call.tries + 1 \in 0 .. Attempts - 1
  BY Constants DEF TInv, Framed, Call, Charge, Retry, MayRetry
<1>3. /\ call' \in Call /\ call'.pc = call.pc /\ call'.kind = call.kind /\ call'.link = call.link
      /\ call'.undos = call.undos /\ call'.req = call.req /\ call'.all = call.all
  BY <1>1, <1>2 DEF Call
<1>4. QED BY <1>3 DEF TInv, Framed

\* A request is under way.
LEMMA AskFramed ==
  ASSUME TInv, call.kind = "reconcile", call.undos # <<>>, NEW r \in Request, Ask(r)
  PROVE  /\ Framed(call') /\ call'.pc = "unsend" /\ call'.dead = call.dead
         /\ call'.faults = call.faults /\ call'.req = r
         /\ call'.kind = call.kind /\ call'.undos = call.undos /\ call'.snap = call.snap
         /\ call'.wanted = call.wanted
<1>1. call' = [call EXCEPT !.pc = "unsend", !.req = r, !.tries = 0]
  BY DEF Ask
<1>2. call \in Call /\ 0 \in 0 .. Attempts - 1
  BY Constants DEF TInv, Framed
<1>3. /\ call'.pc = "unsend" /\ call'.kind = call.kind /\ call' \in Call
      /\ call'.dead = call.dead /\ call'.faults = call.faults /\ call'.req = r
      /\ call'.undos = call.undos /\ call'.snap = call.snap /\ call'.wanted = call.wanted
  BY <1>1, <1>2 DEF Call, PCs
<1>4. QED BY <1>3 DEF Framed

\* A mutation of Reconcile registers its undo first.
LEMMA MutateFramed ==
  ASSUME TInv, call.pc = "plan", NEW u \in Undo, NEW r \in Request,
         r.method = "POST" => r.at \in 1 .. Len(call.all) + 1, Mutate(u, r)
  PROVE  /\ Framed(call') /\ call'.faults = call.faults /\ call'.kind = "reconcile"
         /\ call'.undos = Append(call.undos, u) /\ call'.snap = call.snap
         /\ call'.wanted = call.wanted /\ call'.all = call.all /\ call'.left = call.left
         /\ call'.cursor = call.cursor /\ call'.dead = FALSE
         /\ config' = config
         /\ call.dead => call'.pc = "undo"
         /\ ~call.dead => call'.pc = "send" /\ call'.req = r
<1>1. /\ call \in Call /\ call.kind = "reconcile" /\ call.undos \in Seq(Undo) /\ call.dead \in BOOLEAN
  BY DEF TInv, Framed, Call
<1>2. Append(call.undos, u) \in Seq(Undo)
  BY <1>1, AppendProperties
<1>3. CASE call.dead
  <2>1. call' = [call EXCEPT !.pc = "undo", !.dead = FALSE, !.undos = Append(call.undos, u)]
    BY <1>3 DEF Mutate
  <2>2. /\ call' \in Call /\ call'.pc = "undo" /\ call'.dead = FALSE
        /\ call'.faults = call.faults /\ call'.kind = "reconcile" /\ call'.undos = Append(call.undos, u)
        /\ call'.snap = call.snap /\ call'.wanted = call.wanted /\ call'.all = call.all
        /\ call'.left = call.left /\ call'.cursor = call.cursor
    BY <1>1, <1>2, <2>1 DEF Call, PCs
  <2>3. QED BY <1>3, <2>2 DEF Framed, Mutate
<1>4. CASE ~call.dead
  <2>1. call' = [call EXCEPT !.pc = "send", !.req = r, !.undos = Append(call.undos, u)]
    BY <1>4 DEF Mutate
  <2>2. /\ call' \in Call /\ call'.pc = "send" /\ call'.dead = call.dead /\ call'.req = r
        /\ call'.faults = call.faults /\ call'.kind = "reconcile" /\ call'.undos = Append(call.undos, u)
        /\ call'.snap = call.snap /\ call'.wanted = call.wanted /\ call'.all = call.all
        /\ call'.left = call.left /\ call'.cursor = call.cursor
    BY <1>1, <1>2, <2>1 DEF Call, PCs
  <2>3. QED BY <1>1, <1>4, <2>2 DEF Framed, Mutate
<1>5. QED BY <1>3, <1>4

\* A read that fails.
LEMMA ReadFailsFramed ==
  ASSUME TInv, call.pc \in {"fetch", "undo"}, ReadFails
  PROVE  Framed(call') /\ config' = config
<1>1. config' = config
  BY DEF ReadFails
<1>2. CASE Charge /\ Retry
  BY <1>1, <1>2, RetryFramed
<1>3. ASSUME NEW n \in {0, 1}, n = 1 => Charge, ReadFailed(n)
      PROVE  Framed(call')
  <2>1. CASE call.pc = "fetch"
    <3>1. Return("error")
      BY <1>3, <2>1 DEF ReadFailed, Return, Dropped
    <3>2. QED BY <3>1, ReturnFramed DEF Outcomes
  <2>2. CASE call.pc # "fetch" /\ call.undos = <<>>
    <3>1. Return("indeterminate")
      BY <1>3, <2>2 DEF ReadFailed, Return, Dropped
    <3>2. QED BY <3>1, ReturnFramed DEF Outcomes
  <2>3. CASE call.pc # "fetch" /\ call.undos # <<>>
    <3>1. Dropped(n) /\ call.kind = "reconcile"
      BY <1>3, <2>3 DEF ReadFailed, TInv, Framed, Return, Dropped
    <3>2. QED BY <1>3, <2>3, <3>1, DroppedFramed
  <2>4. QED BY <2>1, <2>2, <2>3
<1>4. QED BY <1>1, <1>2, <1>3 DEF ReadFails

\* Types under each action.
LEMMA BeginFramed ==
  ASSUME TInv, Begin
  PROVE  TInv'
<1>1. config' = config
  BY DEF Begin, BeginAdd, BeginRemove, BeginReconcile
<1>2. ASSUME NEW l \in Links, NEW u \in Upstreams, BeginAdd(l, u)
      PROVE  Framed(call')
  <2>1. call' = [Idle EXCEPT !.kind = "add", !.pc = "fetch", !.link = l,
                             !.wanted = [Idle.wanted EXCEPT ![l] = u]]
    BY <1>2 DEF BeginAdd
  <2>2. [Idle.wanted EXCEPT ![l] = u] \in Wanted
    BY IdleFramed DEF Wanted
  <2>3. call' \in Call /\ call'.kind = "add" /\ call'.pc = "fetch" /\ call'.link = l
    BY <2>1, <2>2, IdleFramed DEF Call, Calls, PCs
  <2>4. QED BY <2>3 DEF Framed
<1>3. ASSUME NEW l \in Links, BeginRemove(l)
      PROVE  Framed(call')
  <2>1. call' = [Idle EXCEPT !.kind = "remove", !.pc = "fetch", !.link = l]
    BY <1>3 DEF BeginRemove
  <2>2. call' \in Call /\ call'.kind = "remove" /\ call'.pc = "fetch" /\ call'.link = l
    BY <2>1, IdleFramed DEF Call, Calls, PCs
  <2>3. QED BY <2>2 DEF Framed
<1>4. ASSUME NEW w \in Wanted, BeginReconcile(w)
      PROVE  Framed(call')
  <2>1. call' = [Idle EXCEPT !.kind = "reconcile", !.pc = "fetch", !.wanted = w]
    BY <1>4 DEF BeginReconcile
  <2>2. call' \in Call /\ call'.kind = "reconcile" /\ call'.pc = "fetch"
    BY <2>1, IdleFramed DEF Call, Calls, PCs
  <2>3. QED BY <2>2 DEF Framed
<1>5. QED BY <1>1, <1>2, <1>3, <1>4 DEF Begin, TInv

LEMMA FetchFramed ==
  ASSUME TInv, Fetch
  PROVE  TInv'
<1>1. /\ call \in Call /\ call.pc = "fetch" /\ config \in Seq(Route) /\ Len(config) \in Nat
      /\ 0 \in 0 .. Attempts - 1 /\ call.wanted \in Wanted
  BY Constants DEF TInv, Framed, Call, Fetch
<1>2. CASE ReadFails
  BY <1>1, <1>2, ReadFailsFramed DEF TInv
<1>3. CASE FetchForAdd /\ config' = config
  <2>1. call.kind = "add" /\ call.link \in Links
    BY <1>1, <1>3 DEF FetchForAdd, TInv, Framed
  <2>2. CASE Return("ok")
    BY <1>1, <1>3, <2>2, ReturnFramed DEF TInv, Outcomes
  <2>3. CASE ~Return("ok")
    <3> DEFINE r == Owned(call.link, call.wanted[call.link])
               read == [call EXCEPT !.snap = config, !.tries = 0]
    <3>1. r \in Route
      BY <1>1, <2>1, RoutesTyped DEF Wanted
    <3>2. Has(config, call.link) => Place(config, call.link) \in Nat
      BY <1>1, Finding
    <3>3. FallbackIndex(config) \in Nat
      BY <1>1, Finding DEF FallbackIndex
    <3> DEFINE q == IF Has(config, call.link) THEN Put(Place(config, call.link), r)
                    ELSE Post(FallbackIndex(config), r)
    <3>4. call' = [read EXCEPT !.pc = "send", !.req = q]
      BY <1>3, <2>3 DEF FetchForAdd
    <3> HIDE DEF r
    <3>5. q \in Request
      BY <3>1, <3>2, <3>3, RequestsTyped
    <3> HIDE DEF q
    <3>6. call' \in Call /\ call'.pc = "send" /\ call'.kind = "add" /\ call'.link = call.link
      <4>1. read \in Call /\ read.kind = "add" /\ read.link = call.link
        BY <1>1, <2>1 DEF Call
      <4> HIDE DEF read
      <4>2. QED BY <3>4, <3>5, <4>1 DEF Call, PCs
    <3>7. QED BY <1>1, <1>3, <2>1, <3>6 DEF TInv, Framed
  <2>4. QED BY <2>2, <2>3
<1>4. CASE FetchForRemove /\ config' = config
  <2>1. call.kind = "remove" /\ call.link \in Links
    BY <1>1, <1>4 DEF FetchForRemove, TInv, Framed
  <2>2. CASE Return("ok")
    BY <1>1, <1>4, <2>2, ReturnFramed DEF TInv, Outcomes
  <2>3. CASE ~Return("ok")
    <3> DEFINE q == Delete(Place(config, call.link))
    <3>1. /\ call' = [call EXCEPT !.snap = config, !.tries = 0, !.pc = "send", !.req = q]
          /\ Has(config, call.link)
      BY <1>4, <2>3 DEF FetchForRemove
    <3>2. q \in Request
      BY <1>1, <3>1, Finding, RequestsTyped, RoutesTyped, Constants
    <3> HIDE DEF q
    <3>3. call' \in Call /\ call'.pc = "send" /\ call'.kind = "remove" /\ call'.link = call.link
      BY <1>1, <2>1, <3>1, <3>2 DEF Call, PCs
    <3>4. QED BY <1>1, <1>4, <2>1, <3>3 DEF TInv, Framed
  <2>4. QED BY <2>2, <2>3
<1>5. CASE FetchForReconcile /\ config' = config
  <2> DEFINE left == {l \in Links : call.wanted[l] # None}
             m == Len(config) + 1
  <2>1. /\ call' = [call EXCEPT !.pc = "plan", !.snap = config, !.all = config, !.tries = 0,
                               !.left = left, !.cursor = m]
        /\ call.kind = "reconcile"
    BY <1>5 DEF FetchForReconcile
  <2>2. left \in SUBSET Links /\ m \in Nat
    BY <1>1
  <2> HIDE DEF left, m
  <2>3. call' \in Call /\ call'.pc = "plan" /\ call'.kind = "reconcile"
    BY <1>1, <2>1, <2>2 DEF Call, PCs
  <2>4. QED BY <1>1, <1>5, <2>3 DEF TInv, Framed
<1>6. QED BY <1>2, <1>3, <1>4, <1>5 DEF Fetch

\* The routes that the three loops of Reconcile pick.
LEMMA ToRepairFacts ==
  ASSUME TInv, call.pc = "plan", ToRepair # {}
  PROVE  LET i == Min(ToRepair)
             l == call.snap[i].id
         IN  /\ i \in 1 .. Len(call.snap) /\ l \in call.left /\ l \in Links /\ Stale(l)
             /\ i = Place(call.snap, l) /\ call.snap[i] \in Route
<1>1. call.snap \in Seq(Route) /\ call.left \subseteq Links
  BY DEF TInv, Framed, Call
<1>2. \A l \in call.left : Stale(l) =>
         Place(call.snap, l) \in 1 .. Len(call.snap) /\ call.snap[Place(call.snap, l)].id = l
  BY <1>1, Finding DEF Stale
<1>3. ToRepair \in SUBSET Nat
  BY <1>1, <1>2 DEF ToRepair
<1>4. Min(ToRepair) \in ToRepair
  BY <1>3, LeastOf
<1>5. PICK l \in call.left : Stale(l) /\ Min(ToRepair) = Place(call.snap, l)
  BY <1>4 DEF ToRepair
<1>6. Place(call.snap, l) \in 1 .. Len(call.snap) /\ call.snap[Place(call.snap, l)].id = l
  BY <1>2, <1>5
<1>7. call.snap[Place(call.snap, l)] \in Route
  BY <1>1, <1>6, ElementOfSeq
<1>8. QED BY <1>1, <1>5, <1>6, <1>7

\* What the third loop deletes.
LEMMA ToPruneFacts ==
  ASSUME TInv, call.pc = "plan", ToPrune # {}
  PROVE  /\ Max(ToPrune) \in ToPrune /\ Max(ToPrune) \in 1 .. Len(call.snap)
         /\ Max(ToPrune) < call.cursor
         /\ call.snap[Max(ToPrune)] \in Route
         /\ \A j \in ToPrune : j <= Max(ToPrune)
<1>1. call.snap \in Seq(Route) /\ Len(call.snap) \in Nat
  BY DEF TInv, Framed, Call
<1>2. ToPrune \subseteq 1 .. Len(call.snap)
  BY <1>1 DEF ToPrune
<1>3. ToPrune \in SUBSET (0 .. Len(call.snap))
  BY <1>1, <1>2
<1>4. Max(ToPrune) \in ToPrune /\ \A y \in ToPrune : Max(ToPrune) >= y
  BY <1>1, <1>3, GreatestOf
<1>5. Max(ToPrune) \in 1 .. Len(call.snap)
  BY <1>2, <1>4
<1>6. call.snap[Max(ToPrune)] \in Route
  BY <1>1, <1>5, ElementOfSeq
<1>7. \A i \in ToPrune : i < call.cursor
  BY DEF ToPrune
<1>8. QED BY <1>1, <1>2, <1>4, <1>5, <1>6, <1>7

\* The undos that the loops register.
LEMMA UndosTyped ==
  /\ \A i \in Nat, r \in Route, k \in {"put", "unadd", "readd"} :
       [kind |-> k, at |-> i, route |-> r] \in Undo
  BY DEF Undo

\* A mutation of Reconcile is about a link that is left to do, or about an
\* index that the third loop has not been at.
Outstanding(r) ==
  /\ r.method = "POST" => r.at \in 1 .. Len(call.all) + 1
  /\ r.method \in {"PUT", "POST"} => r.route.id \in call.left
  /\ r.method = "DELETE" => r.at < call.cursor

\* Each loop registers an undo and asks for a mutation.
LEMMA MutationsAsk ==
  ASSUME TInv, Mutations
  PROVE  \/ Finish
         \/ /\ call.pc = "plan"
            /\ \E u \in Undo, r \in Request : Mutate(u, r) /\ Outstanding(r)
<1>1. /\ call.all \in Seq(Route) /\ call.wanted \in Wanted /\ call.left \subseteq Links
      /\ Len(call.all) \in Nat
  BY DEF TInv, Framed, Call
<1>2. CASE Repair
  <2> DEFINE i == Min(ToRepair)
             l == call.snap[i].id
             u == [kind |-> "put", at |-> i, route |-> call.snap[i]]
             r == Put(i, Owned(l, call.wanted[l]))
  <2>1. call.pc = "plan" /\ ToRepair # {} /\ Mutate(u, r)
    BY <1>2 DEF Repair
  <2>2. i \in Nat /\ l \in Links /\ l \in call.left /\ call.snap[i] \in Route
    BY <2>1, ToRepairFacts
  <2>3. Owned(l, call.wanted[l]) \in Route /\ Owned(l, call.wanted[l]).id = l
    BY <1>1, <2>2, RoutesTyped DEF Wanted
  <2>4. r \in Request /\ r.method = "PUT" /\ r.route = Owned(l, call.wanted[l])
    BY <2>2, <2>3, RequestsTyped
  <2>5. u \in Undo
    BY <2>2, UndosTyped
  <2> HIDE DEF u, r
  <2>6. Outstanding(r)
    BY <2>2, <2>3, <2>4 DEF Outstanding
  <2>7. QED BY <2>1, <2>4, <2>5, <2>6
<1>3. ASSUME NEW l \in Links, Insert(l)
      PROVE  /\ call.pc = "plan"
             /\ \E u \in Undo, r \in Request : Mutate(u, r) /\ Outstanding(r)
  <2> DEFINE i == FallbackIndex(call.all)
             o == Owned(l, call.wanted[l])
             u == [kind |-> "unadd", at |-> i, route |-> o]
             r == Post(i, o)
  <2>1. call.pc = "plan" /\ Mutate(u, r) /\ l \in call.left
    BY <1>3 DEF Insert, ToInsert
  <2>2. i \in 1 .. Len(call.all) + 1
    BY <1>1, Finding DEF FallbackIndex
  <2>3. o \in Route /\ o.id = l
    BY <1>1, RoutesTyped DEF Wanted
  <2> HIDE DEF i, o
  <2>4. i \in Nat
    BY <1>1, <2>2
  <2>5. r \in Request /\ r.at = i /\ r.route = o /\ r.method = "POST"
    BY <2>3, <2>4, RequestsTyped
  <2>6. u \in Undo
    BY <2>3, <2>4, UndosTyped
  <2> HIDE DEF u, r
  <2>7. Outstanding(r)
    BY <2>1, <2>2, <2>3, <2>5 DEF Outstanding
  <2>8. QED BY <2>1, <2>5, <2>6, <2>7
<1>4. CASE Prune
  <2> DEFINE i == Max(ToPrune)
             u == [kind |-> "readd", at |-> i, route |-> call.snap[i]]
             r == Delete(i)
  <2>1. call.pc = "plan" /\ ToPrune # {} /\ Mutate(u, r)
    BY <1>4 DEF Prune
  <2>2. i \in Nat /\ i < call.cursor /\ call.snap[i] \in Route
    BY <2>1, ToPruneFacts
  <2>3. r \in Request /\ r.method = "DELETE" /\ r.at = i
    BY <2>2, RequestsTyped, RoutesTyped, Constants
  <2>4. u \in Undo
    BY <2>2, UndosTyped
  <2> HIDE DEF u, r
  <2>5. Outstanding(r)
    BY <2>2, <2>3 DEF Outstanding
  <2>6. QED BY <2>1, <2>3, <2>4, <2>5
<1>5. QED BY <1>2, <1>3, <1>4 DEF Mutations

\* So the loops keep the types.
LEMMA MutationsFramed ==
  ASSUME TInv, Mutations
  PROVE  TInv'
<1>1. CASE Finish
  <2>1. Return("ok") /\ config' = config
    BY <1>1 DEF Finish
  <2>2. QED BY <2>1, ReturnFramed DEF TInv, Outcomes
<1>2. CASE ~Finish
  <2>1. PICK u \in Undo, r \in Request : call.pc = "plan" /\ Mutate(u, r) /\ Outstanding(r)
    BY <1>2, MutationsAsk
  <2>2. Framed(call') /\ config' = config
    BY <2>1, MutateFramed DEF Outstanding
  <2>3. QED BY <2>2 DEF TInv
<1>3. QED BY <1>1, <1>2

\* The bookkeeping after a mutation.
LEMMA RecordedFramed ==
  ASSUME TInv, call.pc = "send", call.kind = "reconcile"
  PROVE  LET c == Recorded(call.req)
         IN  /\ Framed(c) /\ c.pc = "plan" /\ c.kind = "reconcile" /\ c.undos = call.undos
             /\ c.snap = call.snap /\ c.wanted = call.wanted /\ c.dead = call.dead
             /\ c.faults = call.faults
             /\ c.left = IF call.req.method = "DELETE" THEN call.left
                         ELSE call.left \ {call.req.route.id}
             /\ c.all = IF call.req.method = "POST" THEN InsertAt(call.all, call.req.at, call.req.route)
                        ELSE call.all
             /\ c.cursor = IF call.req.method = "DELETE" THEN call.req.at ELSE call.cursor
<1> DEFINE c == [call EXCEPT !.pc = "plan", !.tries = 0]
           r == call.req
<1>1. /\ call \in Call /\ 0 \in 0 .. Attempts - 1 /\ r \in Request
      /\ r.method = "POST" => r.at \in 1 .. Len(call.all) + 1
  BY Constants DEF TInv, Framed, Call
<1>2. /\ c \in Call /\ c.pc = "plan" /\ c.kind = "reconcile" /\ c.undos = call.undos
      /\ c.snap = call.snap /\ c.wanted = call.wanted /\ c.dead = call.dead
      /\ c.faults = call.faults /\ c.left = call.left /\ c.all = call.all /\ c.cursor = call.cursor
  BY <1>1 DEF Call, PCs
<1>3. r.at \in Nat /\ r.route \in Route /\ r.method \in {"PUT", "POST", "DELETE"}
  BY <1>1 DEF Request
<1>4. call.all \in Seq(Route) /\ call.left \in SUBSET Links
  BY <1>1 DEF Call
<1>5. /\ r.method = "PUT" => Recorded(r) = [c EXCEPT !.left = c.left \ {r.route.id}]
      /\ r.method = "POST" => Recorded(r) = [c EXCEPT !.left = c.left \ {r.route.id},
                                                      !.all = InsertAt(c.all, r.at, r.route)]
      /\ r.method = "DELETE" => Recorded(r) = [c EXCEPT !.cursor = r.at]
  BY DEF Recorded
<1> HIDE DEF c, r
<1>6. CASE r.method = "PUT"
  <2> DEFINE v == c.left \ {r.route.id}
             d == Recorded(r)
  <2>1. v \in SUBSET Links /\ d = [c EXCEPT !.left = v]
    BY <1>2, <1>3, <1>4, <1>5, <1>6
  <2> HIDE DEF v, d
  <2>2. /\ d \in Call /\ d.pc = "plan" /\ d.kind = "reconcile" /\ d.undos = call.undos
        /\ d.snap = call.snap /\ d.wanted = call.wanted /\ d.dead = call.dead
        /\ d.faults = call.faults /\ d.left = v /\ d.all = call.all /\ d.cursor = call.cursor
    BY <1>2, <2>1 DEF Call
  <2>3. Framed(d)
    BY <2>2 DEF Framed
  <2>4. QED BY <1>2, <1>6, <2>2, <2>3 DEF d, v, r
<1>7. CASE r.method = "POST"
  <2>1. InsertAt(c.all, r.at, r.route) \in Seq(Route)
    BY <1>1, <1>2, <1>3, <1>4, <1>7, Inserting DEF Inserted
  <2> DEFINE lft == c.left \ {r.route.id}
             al  == InsertAt(c.all, r.at, r.route)
             d   == Recorded(r)
  <2>2. lft \in SUBSET Links /\ al \in Seq(Route) /\ d = [c EXCEPT !.left = lft, !.all = al]
    BY <1>2, <1>4, <1>5, <1>7, <2>1
  <2> HIDE DEF lft, al, d
  <2>3. /\ d \in Call /\ d.pc = "plan" /\ d.kind = "reconcile" /\ d.undos = call.undos
        /\ d.snap = call.snap /\ d.wanted = call.wanted /\ d.dead = call.dead
        /\ d.faults = call.faults /\ d.left = lft /\ d.all = al /\ d.cursor = call.cursor
    BY <1>2, <2>2 DEF Call
  <2>4. Framed(d)
    BY <2>3 DEF Framed
  <2>5. QED BY <1>2, <1>7, <2>3, <2>4 DEF d, lft, al, r
<1>8. CASE r.method = "DELETE"
  <2> DEFINE v == r.at
             d == Recorded(r)
  <2>1. v \in Nat /\ d = [c EXCEPT !.cursor = v]
    BY <1>2, <1>3, <1>4, <1>5, <1>8
  <2> HIDE DEF v, d
  <2>2. /\ d \in Call /\ d.pc = "plan" /\ d.kind = "reconcile" /\ d.undos = call.undos
        /\ d.snap = call.snap /\ d.wanted = call.wanted /\ d.dead = call.dead
        /\ d.faults = call.faults /\ d.left = call.left /\ d.all = call.all /\ d.cursor = v
    BY <1>2, <2>1 DEF Call
  <2>3. Framed(d)
    BY <2>2 DEF Framed
  <2>4. QED BY <1>2, <1>8, <2>2, <2>3 DEF d, v, r
<1>9. QED BY <1>3, <1>6, <1>7, <1>8

LEMMA SendFramed ==
  ASSUME TInv, Send
  PROVE  TInv'
<1>1. call.pc \in {"send", "unsend"} /\ call \in Call /\ call.req \in Request
  BY DEF Send, TInv, Framed, Call
<1>2. config' \in Seq(Route)
  BY <1>1, AppliedTyped, ApplicationsTyped DEF Send, TInv
<1>3. ASSUME Done
      PROVE  Framed(call')
  <2>1. CASE call.pc = "unsend"
    <3>1. Dropped(0) /\ call.kind = "reconcile" /\ call.undos # <<>>
      BY <1>3, <2>1 DEF Done, TInv, Framed, Return, Dropped
    <3>2. QED BY <3>1, DroppedFramed
  <2>2. CASE call.pc = "send" /\ call.kind = "reconcile"
    <3>1. call' = Recorded(call.req)
      BY <1>3, <2>2 DEF Done, Return, Dropped
    <3>2. QED BY <2>2, <3>1, RecordedFramed
  <2>3. CASE call.pc = "send" /\ call.kind # "reconcile"
    <3>1. Return("ok")
      BY <1>3, <2>3 DEF Done, Return, Dropped
    <3>2. QED BY <3>1, ReturnFramed DEF Outcomes
  <2>4. QED BY <1>1, <2>1, <2>2, <2>3
<1>4. ASSUME NEW n \in {0, 1}, n = 1 => Charge, Failed(n)
      PROVE  Framed(call')
  <2>1. CASE call.pc = "unsend"
    <3>1. Dropped(n) /\ call.kind = "reconcile" /\ call.undos # <<>>
      BY <1>4, <2>1 DEF Failed, TInv, Framed, Return, Dropped, Rollback
    <3>2. QED BY <1>4, <3>1, DroppedFramed
  <2>2. CASE call.pc = "send" /\ call.kind = "reconcile"
    <3>1. Rollback(n)
      BY <1>4, <2>2 DEF Failed, Return, Dropped, Rollback
    <3>2. QED BY <1>4, <2>2, <3>1, RollbackFramed
  <2>3. CASE call.pc = "send" /\ call.kind # "reconcile"
    <3>1. Return("error")
      BY <1>4, <2>3 DEF Failed, Return, Dropped, Rollback
    <3>2. QED BY <3>1, ReturnFramed DEF Outcomes
  <2>4. QED BY <1>1, <2>1, <2>2, <2>3
<1>5. CASE Charge /\ Retry
  BY <1>2, <1>5, RetryFramed DEF TInv
<1>6. QED BY <1>2, <1>3, <1>4, <1>5 DEF Send, TInv

\* An undo in hand is one that was registered.
LEMMA PendingTyped ==
  ASSUME TInv, call.undos # <<>>
  PROVE  /\ Pending \in Undo /\ Pending.at \in Nat /\ Pending.route \in Route
         /\ Pending.kind \in {"put", "unadd", "readd"}
<1>1. call.undos \in Seq(Undo)
  BY DEF TInv, Framed, Call
<1>2. Len(call.undos) \in 1 .. Len(call.undos)
  BY <1>1, EmptySeq
<1>3. Pending \in Undo
  BY <1>1, <1>2, ElementOfSeq DEF Pending, Last
<1>4. QED BY <1>3 DEF Undo

LEMMA UndoFramed ==
  ASSUME TInv, UndoRepair \/ UndoOther
  PROVE  TInv'
<1>1. /\ call.pc = "undo" /\ call.undos # <<>> /\ call.kind = "reconcile"
      /\ config \in Seq(Route)
  BY DEF UndoRepair, UndoOther, TInv, Framed
<1>2. config' = config
  BY DEF UndoRepair, UndoOther, ReadFails
<1>3. /\ Pending.at \in Nat /\ Pending.route \in Route
      /\ Pending.kind \in {"put", "unadd", "readd"}
  BY <1>1, PendingTyped
<1>4. CASE ReadFails
  BY <1>1, <1>2, <1>4, ReadFailsFramed DEF TInv
<1>5. CASE Dropped(0)
  BY <1>1, <1>2, <1>5, DroppedFramed DEF TInv
<1>6. ASSUME NEW r \in Request, Ask(r)
      PROVE  TInv'
  BY <1>1, <1>2, <1>6, AskFramed DEF TInv
<1>7. Put(Pending.at, Pending.route) \in Request /\ Post(Pending.at, Pending.route) \in Request
  BY <1>3, RequestsTyped
<1>8. Has(config, Pending.route.id) => Delete(Place(config, Pending.route.id)) \in Request
  BY <1>1, <1>3, Finding, RequestsTyped
<1>9. QED BY <1>3, <1>4, <1>5, <1>6, <1>7, <1>8 DEF UndoRepair, UndoOther, Undone

LEMMA VerifyFramed ==
  ASSUME TInv, Verify
  PROVE  TInv'
<1>1. call.pc = "undo" /\ config' = config
  BY DEF Verify, ReadFails
<1>2. CASE ReadFails
  BY <1>1, <1>2, ReadFailsFramed DEF TInv
<1>3. CASE ~ReadFails
  <2>1. PICK o \in {"error", "incomplete"} : Return(o)
    BY <1>3 DEF Verify
  <2>2. QED BY <1>1, <2>1, ReturnFramed DEF TInv, Outcomes
<1>4. QED BY <1>2, <1>3

LEMMA CancelFramed ==
  ASSUME TInv, Cancel
  PROVE  /\ TInv' /\ config' = config /\ call'.dead = TRUE /\ call'.faults = call.faults + 1
         /\ \A f \in {"kind", "pc", "link", "wanted", "snap", "all", "left", "cursor", "undos", "req"} :
              call'[f] = call[f]
<1>1. call' = [call EXCEPT !.dead = TRUE, !.faults = call.faults + 1] /\ config' = config
  BY DEF Cancel
<1>2. call \in Call /\ call.faults + 1 \in 0 .. MaxFaults
  BY Constants DEF TInv, Framed, Call, Cancel, Charge
<1>3. /\ call' \in Call /\ call'.pc = call.pc /\ call'.kind = call.kind /\ call'.link = call.link
      /\ call'.undos = call.undos /\ call'.req = call.req /\ call'.all = call.all
      /\ call'.wanted = call.wanted /\ call'.snap = call.snap /\ call'.left = call.left
      /\ call'.cursor = call.cursor /\ call'.dead = TRUE /\ call'.faults = call.faults + 1
  BY <1>1, <1>2 DEF Call
<1>4. QED BY <1>1, <1>3 DEF TInv, Framed

LEMMA CrashFramed ==
  ASSUME TInv, Crash
  PROVE  TInv' /\ call'.pc = "idle" /\ call'.outcome = "error"
<1>1. Return("error") /\ (config' \in Applications \/ config' = config)
  BY DEF Crash
<1>2. config' \in Seq(Route)
  BY <1>1, ApplicationsTyped DEF TInv
<1>3. QED BY <1>1, <1>2, ReturnFramed DEF TInv, Outcomes

LEMMA EditFramed ==
  ASSUME TInv, Edit
  PROVE  TInv'
<1>1. config \in Seq(Route) /\ call' = call
  BY DEF TInv, Edit
<1>2. PICK f \in Foreign :
        \/ \E i \in 1 .. Len(config) + 1 : config' = InsertAt(config, i, Plain(f))
        \/ Has(config, f) /\ config' = RemoveAt(config, Place(config, f))
  BY DEF Edit
<1>3. Plain(f) \in Route
  BY RoutesTyped, Constants
<1>4. CASE \E i \in 1 .. Len(config) + 1 : config' = InsertAt(config, i, Plain(f))
  BY <1>1, <1>3, <1>4, Inserting DEF TInv, Inserted
<1>5. CASE Has(config, f) /\ config' = RemoveAt(config, Place(config, f))
  <2>1. Place(config, f) \in 1 .. Len(config)
    BY <1>1, <1>5, Finding
  <2>2. QED BY <1>1, <1>5, <2>1, Removing DEF TInv, Removed
<1>6. QED BY <1>2, <1>4, <1>5

\* The types hold at first and under every step.
LEMMA InitiallyTyped == Init => TInv
<1> SUFFICES ASSUME Init PROVE TInv
  OBVIOUS
<1>1. \A f \in Foreign \union {Fallback} : Plain(f) \in Route
  BY RoutesTyped, Constants
<1>2. /\ <<>> \in Seq(Route) /\ \A r \in Route : <<r>> \in Seq(Route)
      /\ \A r, q \in Route : <<r, q>> \in Seq(Route)
  OBVIOUS
<1>3. config \in Seq(Route)
  BY <1>1, <1>2 DEF Init
<1>4. QED BY <1>3, IdleFramed DEF Init, TInv, Framed

LEMMA TypeStep == TInv /\ [Next]_vars => TInv'
<1> SUFFICES ASSUME TInv, [Next]_vars PROVE TInv'
  OBVIOUS
<1>1. CASE UNCHANGED vars
  BY <1>1 DEF vars, TInv
<1>2. CASE Next
  BY <1>2, BeginFramed, FetchFramed, MutationsFramed, SendFramed, UndoFramed, VerifyFramed,
     CancelFramed, CrashFramed, EditFramed DEF Next, Steps
<1>3. QED BY <1>1, <1>2

\* Only an edit during a call is counted.
LEMMA EditsCounted ==
  ASSUME edits \in 0 .. MaxEdits, [Next]_vars
  PROVE  /\ edits' \in 0 .. MaxEdits /\ edits' >= edits
         /\ Next => edits' = edits \/ (Edit /\ Busy /\ edits' = edits + 1)
<1>1. edits \in Nat /\ MaxEdits \in Nat
  BY CaddyAssumption
<1>2. CASE UNCHANGED edits
  BY <1>1, <1>2
<1>3. CASE Edit
  <2>1. (Busy => edits < MaxEdits) /\ edits' = IF Busy THEN edits + 1 ELSE edits
    BY <1>3 DEF Edit
  <2>2. CASE Busy
    BY <1>1, <1>3, <2>1, <2>2
  <2>3. CASE ~Busy
    BY <1>1, <2>1, <2>3
  <2>4. QED BY <2>2, <2>3
<1>4. QED BY <1>2, <1>3 DEF Next, vars

\* The fields of a call (caddy.go:192-232, 256-412) stay within their types
\* whatever is configured, whatever fails and whatever others edit: the loops
\* index only arrays that have the place, rollback takes only undos that are
\* there, and no more attempts and faults are counted than there may be.
THEOREM CaddyTypeCorrect == Spec => []TypeOK
<1> DEFINE T == TInv /\ edits \in 0 .. MaxEdits
<1>1. Init => T
  BY InitiallyTyped, CaddyAssumption DEF Init
<1>2. T /\ [Next]_vars => T'
  BY TypeStep, EditsCounted
<1>3. T => TypeOK
  BY DEF TInv, Framed, TypeOK
<1>4. QED BY <1>1, <1>2, <1>3, PTL DEF Spec

-----------------------------------------------------------------------------
\* A call comes nearer to its end with each of its steps.

\* The mutation under way is one that is outstanding.
SentInv == call.pc = "send" /\ call.kind = "reconcile" => Outstanding(call.req)

\* The first component that changes decides.
LEMMA NearerBy ==
  ASSUME \/ Part' < Part
         \/ Part' = Part /\ Rest' < Rest
         \/ Part' = Part /\ Rest' = Rest /\ Unsent' < Unsent
         \/ /\ Part' = Part /\ Rest' = Rest /\ Unsent' = Unsent
            /\ Attempts - call'.tries < Attempts - call.tries
  PROVE  Nearer
<1> DEFINE a == Ahead  b == Ahead'
<1>1. /\ a[1] = Part /\ a[2] = Rest /\ a[3] = Unsent /\ a[4] = Attempts - call.tries
      /\ b[1] = Part' /\ b[2] = Rest' /\ b[3] = Unsent' /\ b[4] = Attempts - call'.tries
  BY DEF Ahead
<1> HIDE DEF a, b
<1>2. \E i \in 1 .. 4 : b[i] < a[i] /\ \A j \in 1 .. i - 1 : b[j] = a[j]
  <2>1. CASE b[1] < a[1]
    BY <2>1
  <2>2. CASE b[1] = a[1] /\ b[2] < a[2]
    <3>1. \A j \in 1 .. 2 - 1 : j = 1
      OBVIOUS
    <3>2. QED BY <2>2, <3>1
  <2>3. CASE b[1] = a[1] /\ b[2] = a[2] /\ b[3] < a[3]
    <3>1. \A j \in 1 .. 3 - 1 : j \in {1, 2}
      OBVIOUS
    <3>2. QED BY <2>3, <3>1
  <2>4. CASE b[1] = a[1] /\ b[2] = a[2] /\ b[3] = a[3] /\ b[4] < a[4]
    <3>1. \A j \in 1 .. 4 - 1 : j \in {1, 2, 3}
      OBVIOUS
    <3>2. QED BY <2>4, <3>1
  <2>5. QED BY <1>1, <2>1, <2>2, <2>3, <2>4
<1>3. QED BY <1>2 DEF Nearer, a, b

\* The place of a call gives its part.
LEMMA PartValues ==
  /\ call.pc = "fetch" => Part = 3 /\ Unsent = 0
  /\ call.pc = "plan" => Part = 2 /\ Unsent = 1
  /\ call.pc = "send" => Part = 2 /\ Unsent = 0
  /\ call.pc = "undo" => Part = 1 /\ Unsent = 1
  /\ call.pc = "unsend" => Part = 1 /\ Unsent = 0
  /\ call'.pc = "plan" => Part' = 2 /\ Unsent' = 1
  /\ call'.pc = "send" => Part' = 2 /\ Unsent' = 0
  /\ call'.pc = "undo" => Part' = 1 /\ Unsent' = 1
  /\ call'.pc = "unsend" => Part' = 1 /\ Unsent' = 0
BY DEF Part, Unsent

\* Another attempt is one attempt less.
LEMMA RetryAdvances ==
  ASSUME TInv, SentInv, Retry
  PROVE  Nearer /\ SentInv'
<1>1. call' = [call EXCEPT !.tries = call.tries + 1, !.faults = call.faults + 1]
  BY DEF Retry
<1>2. call \in Call /\ call.tries \in Nat /\ Attempts \in Nat
  BY Constants DEF TInv, Framed, Call
<1>3. /\ call'.pc = call.pc /\ call'.kind = call.kind /\ call'.req = call.req
      /\ call'.left = call.left /\ call'.cursor = call.cursor /\ call'.all = call.all
      /\ call'.undos = call.undos /\ call'.tries = call.tries + 1
  BY <1>1, <1>2 DEF Call
<1>4. Part' = Part /\ Rest' = Rest /\ Unsent' = Unsent
  BY <1>3 DEF Part, Rest, Unsent
<1>5. Attempts - call'.tries < Attempts - call.tries
  BY <1>2, <1>3
<1>6. SentInv'
  BY <1>3 DEF SentInv, Outstanding
<1>7. QED BY <1>4, <1>5, <1>6, NearerBy

\* An undo less.
LEMMA DroppedAdvances ==
  ASSUME TInv, call.pc \in {"undo", "unsend"}, call.undos # <<>>, NEW n, Dropped(n)
  PROVE  Nearer /\ SentInv'
<1>1. call' = [call EXCEPT !.pc = "undo", !.undos = Front(call.undos), !.tries = 0,
                           !.faults = call.faults + n]
  BY DEF Dropped
<1>2. call'.pc = "undo" /\ call'.undos = Front(call.undos)
  BY <1>1 DEF TInv, Framed, Call
<1>3. Len(Front(call.undos)) < Len(call.undos)
  <2>1. call.undos \in Seq(Undo) /\ Len(call.undos) \in Nat
    BY DEF TInv, Framed, Call
  <2>2. Len(call.undos) > 0
    BY <2>1, EmptySeq
  <2>3. \A i \in 1 .. Len(call.undos) - 1 : call.undos[i] \in Undo
    BY <2>1, ElementOfSeq
  <2>4. Len(Front(call.undos)) = Len(call.undos) - 1
    BY <2>1, <2>2, <2>3, SubSeqProperties DEF Front
  <2>5. QED BY <2>1, <2>4
<1>4. Part' = Part /\ Rest' < Rest
  <2>1. Part = 1 /\ Part' = 1
    BY <1>2, PartValues
  <2>2. Rest = Len(call.undos) /\ Rest' = Len(call'.undos)
    BY <2>1 DEF Rest
  <2>3. QED BY <1>2, <1>3, <2>1, <2>2
<1>5. QED BY <1>2, <1>4, NearerBy DEF SentInv

\* A read that fails is tried again, or the next undo has its turn.
LEMMA ReadFailsAdvances ==
  ASSUME TInv, SentInv, call.pc \in {"fetch", "undo"}, ReadFails, call'.pc # "idle"
  PROVE  Nearer /\ SentInv'
<1>1. \A o : ~Return(o)
  BY DEF Return, Idle
<1>2. \/ Retry
      \/ \E n : call.pc = "undo" /\ call.undos # <<>> /\ Dropped(n)
  <2>1. CASE Retry
    BY <2>1
  <2>2. ASSUME NEW n, ReadFailed(n)
        PROVE  call.pc = "undo" /\ call.undos # <<>> /\ Dropped(n)
    BY <1>1, <2>2 DEF ReadFailed
  <2>3. QED BY <2>1, <2>2 DEF ReadFails
<1>3. QED BY <1>2, RetryAdvances, DroppedAdvances

\* After the read come the writes.
LEMMA FetchAdvances ==
  ASSUME TInv, SentInv, Fetch, call'.pc # "idle"
  PROVE  Nearer /\ SentInv'
<1>0. call.pc = "fetch" /\ call \in Call
  BY DEF Fetch, TInv, Framed
<1>1. \A o : ~Return(o)
  BY DEF Return, Idle
<1>2. CASE ReadFails
  BY <1>0, <1>2, ReadFailsAdvances
<1>3. CASE FetchForAdd \/ FetchForRemove
  <2>1. call.kind # "reconcile" /\ call'.pc = "send" /\ call'.kind = call.kind
    <3>1. CASE FetchForAdd
      <4> DEFINE read == [call EXCEPT !.snap = config, !.tries = 0]
      <4>1. call.kind = "add" /\ \E q : call' = [read EXCEPT !.pc = "send", !.req = q]
        BY <1>1, <3>1 DEF FetchForAdd
      <4>2. read.kind = call.kind /\ {"kind", "pc", "req"} \subseteq DOMAIN read
        BY <1>0 DEF Call
      <4> HIDE DEF read
      <4>3. QED BY <4>1, <4>2
    <3>2. CASE FetchForRemove
      <4>1. call.kind = "remove" /\ \E q : call' = [call EXCEPT !.snap = config, !.tries = 0,
                                                            !.pc = "send", !.req = q]
        BY <1>1, <3>2 DEF FetchForRemove
      <4>2. PICK q : call' = [call EXCEPT !.snap = config, !.tries = 0, !.pc = "send", !.req = q]
        BY <4>1
      <4>3. call'.pc = "send" /\ call'.kind = call.kind
        BY <1>0, <4>2 DEF Call
      <4>4. QED BY <4>1, <4>3
    <3>3. QED BY <1>3, <3>1, <3>2
  <2>2. Part' < Part
    BY <1>0, <2>1, PartValues
  <2>3. QED BY <2>1, <2>2, NearerBy DEF SentInv
<1>4. CASE FetchForReconcile
  <2>1. call'.pc = "plan"
    <3>1. \E left, m : call' = [call EXCEPT !.pc = "plan", !.snap = config, !.all = config,
                                            !.tries = 0, !.left = left, !.cursor = m]
      BY <1>4 DEF FetchForReconcile
    <3>2. QED BY <1>0, <3>1 DEF Call
  <2>2. Part' < Part
    BY <1>0, <2>1, PartValues
  <2>3. QED BY <2>1, <2>2, NearerBy DEF SentInv
<1>5. QED BY <1>2, <1>3, <1>4 DEF Fetch

\* A loop prepares a request, or the rollback begins.
LEMMA MutationsAdvance ==
  ASSUME TInv, Mutations, call'.pc # "idle"
  PROVE  Nearer /\ SentInv'
<1>1. ~Finish
  BY DEF Finish, Return, Idle
<1>2. PICK u \in Undo, r \in Request : call.pc = "plan" /\ Mutate(u, r) /\ Outstanding(r)
  BY <1>1, MutationsAsk
<1>3. /\ call'.left = call.left /\ call'.cursor = call.cursor /\ call'.all = call.all
      /\ call.dead => call'.pc = "undo"
      /\ ~call.dead => call'.pc = "send" /\ call'.req = r
  BY <1>2, MutateFramed DEF Outstanding
<1>4. CASE call.dead
  BY <1>2, <1>3, <1>4, NearerBy, PartValues DEF SentInv
<1>5. CASE ~call.dead
  <2>1. Part' = Part /\ Unsent' < Unsent /\ Part = 2
    BY <1>2, <1>3, <1>5, PartValues
  <2>2. Rest' = Rest
    BY <1>3, <2>1 DEF Rest
  <2>3. SentInv'
    BY <1>2, <1>3, <1>5 DEF SentInv, Outstanding
  <2>4. QED BY <2>1, <2>2, <2>3, NearerBy
<1>6. QED BY <1>4, <1>5

\* A mutation that went through is ticked off.
LEMMA RecordedAdvances ==
  ASSUME IsFiniteSet(Links), TInv, SentInv, call.pc = "send", call.kind = "reconcile",
         call' = Recorded(call.req)
  PROVE  Nearer /\ SentInv'
<1> DEFINE r == call.req
<1>1. /\ call'.pc = "plan"
      /\ call'.left = IF r.method = "DELETE" THEN call.left ELSE call.left \ {r.route.id}
      /\ call'.cursor = IF r.method = "DELETE" THEN r.at ELSE call.cursor
  BY RecordedFramed
<1>2. /\ call.left \in SUBSET Links /\ call.cursor \in Nat /\ r.at \in Nat
      /\ r.method \in {"PUT", "POST", "DELETE"}
      /\ r.method \in {"PUT", "POST"} => r.route.id \in call.left
      /\ r.method = "DELETE" => r.at < call.cursor
  BY DEF TInv, Framed, Call, Request, SentInv, Outstanding
<1> HIDE DEF r
<1>3. IsFiniteSet(call.left) /\ Cardinality(call.left) \in Nat
  BY <1>2, FS_Subset, FS_CardinalityType
<1>4. Part = 2 /\ Part' = 2
  BY <1>1, PartValues
<1>5. Rest = Cardinality(call.left) + call.cursor /\ Rest' = Cardinality(call'.left) + call'.cursor
  BY <1>4 DEF Rest
<1>6. Rest' < Rest
  <2>1. CASE r.method = "DELETE"
    BY <1>1, <1>2, <1>3, <1>5, <2>1
  <2>2. CASE r.method \in {"PUT", "POST"}
    <3>1. \A x \in call.left : Cardinality(call.left \ {x}) = Cardinality(call.left) - 1
      BY <1>3, FS_RemoveElement
    <3>2. r.route.id \in call.left /\ call'.left = call.left \ {r.route.id}
          /\ call'.cursor = call.cursor
      BY <1>1, <1>2, <2>2
    <3>3. Cardinality(call'.left) = Cardinality(call.left) - 1
      BY <3>1, <3>2
    <3>4. QED BY <1>2, <1>3, <1>5, <3>2, <3>3
  <2>3. QED BY <1>2, <2>1, <2>2
<1>7. QED BY <1>1, <1>4, <1>6, NearerBy DEF SentInv

\* An answer to a write, or none.
LEMMA SendAdvances ==
  ASSUME IsFiniteSet(Links), TInv, SentInv, Send, call'.pc # "idle"
  PROVE  Nearer /\ SentInv'
<1>0. /\ call.pc \in {"send", "unsend"} /\ call \in Call
      /\ call.pc = "unsend" => call.undos # <<>>
  BY DEF Send, TInv, Framed
<1>1. \A o : ~Return(o)
  BY DEF Return, Idle
<1>2. ASSUME NEW n, Rollback(n), call.pc = "send"
      PROVE  Nearer /\ SentInv'
  <2>1. call'.pc = "undo"
    BY <1>0, <1>2 DEF Rollback, Call
  <2>2. QED BY <1>2, <2>1, NearerBy, PartValues DEF SentInv
<1>3. CASE Done
  <2>1. CASE call.pc = "unsend"
    <3>1. Dropped(0)
      BY <1>3, <2>1 DEF Done
    <3>2. QED BY <1>0, <2>1, <3>1, DroppedAdvances
  <2>2. CASE call.pc = "send"
    <3>1. call.kind = "reconcile" /\ call' = Recorded(call.req)
      BY <1>1, <1>3, <2>2 DEF Done
    <3>2. QED BY <2>2, <3>1, RecordedAdvances
  <2>3. QED BY <1>0, <2>1, <2>2
<1>4. ASSUME NEW n, Failed(n)
      PROVE  Nearer /\ SentInv'
  <2>1. CASE call.pc = "unsend"
    <3>1. Dropped(n)
      BY <1>4, <2>1 DEF Failed
    <3>2. QED BY <1>0, <2>1, <3>1, DroppedAdvances
  <2>2. CASE call.pc = "send"
    <3>1. Rollback(n)
      BY <1>1, <1>4, <2>2 DEF Failed
    <3>2. QED BY <1>2, <2>2, <3>1
  <2>3. QED BY <1>0, <2>1, <2>2
<1>5. CASE Retry
  BY <1>5, RetryAdvances
<1>6. Done \/ Failed(0) \/ Failed(1) \/ Retry
  BY DEF Send
<1>7. QED BY <1>3, <1>4, <1>5, <1>6

\* The rollback takes its undos one by one.
LEMMA UndoAdvances ==
  ASSUME TInv, SentInv, UndoRepair \/ UndoOther \/ Verify, call'.pc # "idle"
  PROVE  Nearer /\ SentInv'
<1>0. call.pc = "undo" /\ call \in Call
  BY DEF UndoRepair, UndoOther, Verify, TInv, Framed
<1>1. \A o : ~Return(o)
  BY DEF Return, Idle
<1>2. ASSUME NEW r, Ask(r)
      PROVE  Nearer /\ SentInv'
  <2>1. call' = [call EXCEPT !.pc = "unsend", !.req = r, !.tries = 0]
    BY <1>2 DEF Ask
  <2>2. call'.pc = "unsend" /\ call'.undos = call.undos
    BY <1>0, <2>1 DEF Call
  <2>3. Part = 1 /\ Part' = 1 /\ Unsent' < Unsent
    BY <1>0, <2>2, PartValues
  <2>4. Rest' = Rest
    BY <2>2, <2>3 DEF Rest
  <2>5. QED BY <2>2, <2>3, <2>4, NearerBy DEF SentInv
<1>3. CASE ReadFails
  BY <1>0, <1>3, ReadFailsAdvances
<1>4. CASE call.undos # <<>> /\ Dropped(0)
  BY <1>0, <1>4, DroppedAdvances
<1>5. \/ ReadFails
      \/ call.undos # <<>> /\ Dropped(0)
      \/ \E r : Ask(r)
  <2>1. CASE UndoRepair
    BY <2>1 DEF UndoRepair
  <2>2. CASE UndoOther
    <3>1. call.undos # <<>> /\ (Undone \/ ReadFails)
      BY <2>2 DEF UndoOther
    <3>2. Pending.kind \in {"put", "unadd", "readd"} /\ Pending.kind # "put"
      BY <2>2, <3>1, PendingTyped DEF UndoOther
    <3>3. Undone => Dropped(0) \/ \E r : Ask(r)
      BY <3>2 DEF Undone
    <3>4. QED BY <3>1, <3>3
  <2>3. CASE Verify
    BY <1>1, <2>3 DEF Verify
  <2>4. QED BY <2>1, <2>2, <2>3
<1>6. QED BY <1>2, <1>3, <1>4, <1>5

\* Where a call begins or ends, and what others do meanwhile.
LEMMA ElsewhereWaits ==
  ASSUME TInv, SentInv, Next, ~Steps \/ call'.pc = "idle"
  PROVE  /\ Busy /\ Busy' => UNCHANGED Ahead
         /\ SentInv'
<1>1. CASE call'.pc = "idle"
  BY <1>1 DEF Busy, SentInv
<1>2. CASE Begin
  <2>1. call'.pc = "fetch"
    <3>1. Idle.wanted = [l \in Links |-> None] /\ {"kind", "pc", "link", "wanted"} \subseteq DOMAIN Idle
      BY DEF Idle
    <3>2. QED BY <1>2, <3>1 DEF Begin, BeginAdd, BeginRemove, BeginReconcile
  <2>2. ~Busy
    BY <1>2 DEF Begin, BeginAdd, BeginRemove, BeginReconcile
  <2>3. QED BY <2>1, <2>2 DEF SentInv
<1>3. CASE Cancel
  <2>1. call' = [call EXCEPT !.dead = TRUE, !.faults = call.faults + 1] /\ call \in Call
    BY <1>3 DEF Cancel, TInv, Framed
  <2>2. /\ call'.pc = call.pc /\ call'.kind = call.kind /\ call'.req = call.req
        /\ call'.left = call.left /\ call'.cursor = call.cursor /\ call'.all = call.all
        /\ call'.undos = call.undos /\ call'.tries = call.tries
    BY <2>1 DEF Call
  <2>3. QED BY <2>2 DEF SentInv, Outstanding, Ahead, Part, Rest, Unsent
<1>4. CASE Edit
  <2>1. call' = call
    BY <1>4 DEF Edit
  <2>2. QED BY <2>1 DEF SentInv, Outstanding, Ahead, Part, Rest, Unsent
<1>5. CASE Crash
  <2>1. call'.pc = "idle"
    BY <1>5, CrashFramed
  <2>2. QED BY <1>1, <2>1
<1>6. QED BY <1>1, <1>2, <1>3, <1>4, <1>5 DEF Next, Steps

\* Add, Remove and Reconcile end (caddy.go:192-232, 256-412), whatever the
\* requests answer, for any number of attempts and faults and with other
\* clients editing the array: every step of a call is a step towards its end.
THEOREM CallAdvancesAlways ==
  ASSUME IsFiniteSet(Links)
  PROVE  Spec => CallAdvances
<1> DEFINE A == Busy /\ Busy' => IF Steps THEN Nearer ELSE UNCHANGED Ahead
<1>1. Init => TInv /\ SentInv
  BY InitiallyTyped, IdleFramed DEF Init, SentInv
<1>2. ASSUME TInv /\ SentInv, [Next]_vars
      PROVE  (TInv /\ SentInv)' /\ [A]_vars
  <2>1. TInv'
    BY <1>2, TypeStep
  <2>2. CASE UNCHANGED vars
    BY <1>2, <2>1, <2>2 DEF vars, SentInv, Outstanding
  <2>3. CASE Next /\ (~Steps \/ call'.pc = "idle")
    BY <1>2, <2>1, <2>3, ElsewhereWaits DEF Busy
  <2>4. CASE Steps /\ call'.pc # "idle"
    <3>1. Nearer /\ SentInv'
      BY <1>2, <2>4, FetchAdvances, MutationsAdvance, SendAdvances, UndoAdvances DEF Steps
    <3>2. QED BY <2>1, <2>4, <3>1
  <2>5. QED BY <1>2, <2>2, <2>3, <2>4
<1>3. QED BY <1>1, <1>2, PTL DEF Spec, CallAdvances

-----------------------------------------------------------------------------
\* The loops of Reconcile.

\* Undo u takes the array b back to a.
Undoes(u, a, b) ==
  /\ u.route.id \in Links
  /\ \/ /\ u.kind = "put" /\ u.at \in 1 .. Len(a) /\ a[u.at] = u.route
        /\ \E q \in Route : q.id = u.route.id /\ b = ReplaceAt(a, u.at, q)
     \/ /\ u.kind = "unadd" /\ u.at \in 1 .. FallbackIndex(a) /\ ~Has(a, u.route.id)
        /\ b = InsertAt(a, u.at, u.route)
     \/ /\ u.kind = "readd" /\ u.at \in 1 .. Len(a) /\ a[u.at] = u.route
        /\ b = RemoveAt(a, u.at)

\* Each entry is the old one or the wanted one.
Halfway(a, c) == \A l \in Links : Upstream(a, l) \in {Upstream(c.snap, l), c.wanted[l]}

\* h are the arrays from the one that Reconcile found on, each made from the
\* one before by the mutation that the undo of that place takes back.
Trail(h, c) ==
  /\ h \in Seq(Seq(Route)) /\ Len(h) = Len(c.undos) + 1 /\ h[1] = c.snap
  /\ \A k \in 1 .. Len(h) : Sound(h[k]) /\ Halfway(h[k], c)
  /\ \A k \in 1 .. Len(c.undos) : Undoes(c.undos[k], h[k], h[k + 1])

\* Where the server is on the trail.
Located(h, a, c) ==
  LET n == Len(c.undos) IN
  /\ c.pc = "plan" => a = h[n + 1]
  /\ c.pc = "send" => /\ n > 0 /\ a = h[n]
                      /\ Accepts(h[n], c.req) /\ Applied(h[n], c.req) = h[n + 1]
  /\ c.pc = "undo" => a = h[n + 1] \/ (n > 0 /\ a = h[n])
  /\ c.pc = "unsend" => /\ n > 0 /\ (a = h[n] \/ a = h[n + 1])
                        /\ Accepts(a, c.req) /\ Applied(a, c.req) = h[n]

\* What the loops of Reconcile know of the array a: s is the one found, al the
\* one they keep by insertions, lf the links still to repair or insert, cu the
\* place of the last deletion and w what is wanted.
Settled(s, lf, w) == \A l \in lf : Has(s, l) /\ Upstream(s, l) = w[l]

\* Insertions land behind what they found before its fallback (at f), and
\* leave no orphan there.
Carried(s, al, f, w) ==
  /\ Len(al) >= Len(s)
  /\ \A i \in 1 .. f - 1 : al[i] = s[i]
  /\ \A i \in f .. Len(al) : al[i].id \in Links => w[al[i].id] # None

\* While nothing is deleted the array has the identities that al has.
Aligned(a, al) == Len(a) = Len(al) /\ \A i \in 1 .. Len(a) : a[i].id = al[i].id

\* What is still to be repaired or deleted is as it was found.
AsFound(a, s, f, lf, cu, w) ==
  \A i \in 1 .. f - 1 : i < cu =>
    /\ i <= Len(a) /\ a[i].id = s[i].id
    /\ s[i].id \in lf \/ (s[i].id \in Links /\ w[s[i].id] = None) => a[i] = s[i]

\* Links that are through have what is wanted, the others what was found, and
\* an orphan is only where the deletions have still to come.
Answered(a, s, lf, cu, w) ==
  \A l \in Links :
    /\ w[l] = None => (Has(a, l) => Has(s, l) /\ Place(s, l) < cu)
    /\ l \in lf => Upstream(a, l) = Upstream(s, l) /\ Has(a, l) = Has(s, l)
    /\ w[l] # None /\ l \notin lf => Upstream(a, l) = w[l]

\* What holds between two mutations.
Planned(a, s, al, lf, cu, w) ==
  /\ lf \subseteq {l \in Links : w[l] # None} /\ cu \in 1 .. Len(s) + 1
  /\ Carried(s, al, FallbackIndex(s), w)
  /\ IF cu = Len(s) + 1 THEN Aligned(a, al) ELSE Settled(s, lf, w)
  /\ AsFound(a, s, FallbackIndex(s), lf, cu, w)
  /\ Answered(a, s, lf, cu, w)

\* The links left once l is through.
Without(lf, l) == lf \ {l}

\* The loops of the call c, between two mutations.
PlannedNow(a, c) == Planned(a, c.snap, c.all, c.left, c.cursor, c.wanted)

\* The same once the mutation under way is recorded.
PlannedNext(a, c) ==
  Planned(a, c.snap,
          IF c.req.method = "POST" THEN InsertAt(c.all, c.req.at, c.req.route) ELSE c.all,
          IF c.req.method = "DELETE" THEN c.left ELSE Without(c.left, c.req.route.id),
          IF c.req.method = "DELETE" THEN c.req.at ELSE c.cursor,
          c.wanted)

\* Before the first mutation.
LEMMA LoopBase ==
  ASSUME NEW a, Sound(a), NEW w \in Wanted
  PROVE  Planned(a, a, a, {l \in Links : w[l] # None}, Len(a) + 1, w)
<1> DEFINE lf == {l \in Links : w[l] # None}
           f == FallbackIndex(a)
<1>1. a \in Seq(Route) /\ Len(a) \in Nat
  BY DEF Sound
<1>2. /\ f \in 1 .. Len(a) + 1
      /\ \A i \in 1 .. Len(a) : a[i].id \in Links => i < f
  BY FallbackPlace
<1>3. \A l \in Links : Has(a, l) => Place(a, l) \in 1 .. Len(a)
  BY <1>1, Finding
<1>4. lf \subseteq {l \in Links : w[l] # None} /\ \A l \in Links : w[l] # None => l \in lf
  OBVIOUS
<1> HIDE DEF lf, f
<1>5. Carried(a, a, f, w) /\ Aligned(a, a)
  BY <1>1, <1>2 DEF Carried, Aligned
<1>6. AsFound(a, a, f, lf, Len(a) + 1, w)
  BY <1>1, <1>2 DEF AsFound
<1>7. Answered(a, a, lf, Len(a) + 1, w)
  BY <1>1, <1>3, <1>4 DEF Answered
<1>8. Planned(a, a, a, lf, Len(a) + 1, w)
  BY <1>1, <1>4, <1>5, <1>6, <1>7 DEF Planned, f
<1>9. QED BY <1>8 DEF lf

\* A repair that is due.
LEMMA LoopRepair ==
  ASSUME NEW s, NEW al \in Seq(Route), NEW lf, NEW cu \in Nat, NEW w \in Wanted, NEW a,
         Sound(s), Sound(a), Planned(a, s, al, lf, cu, w),
         NEW l \in lf, Has(s, l), Upstream(s, l) # w[l]
  PROVE  /\ l \in Links /\ Place(s, l) \in 1 .. Len(a)
         /\ a[Place(s, l)] = s[Place(s, l)] /\ a[Place(s, l)].id = l
         /\ Planned(ReplaceAt(a, Place(s, l), Owned(l, w[l])), s, al, Without(lf, l), cu, w)
<1> DEFINE f == FallbackIndex(s)
           i == Place(s, l)
           r == Owned(l, w[l])
           b == ReplaceAt(a, i, r)
<1>1. /\ s \in Seq(Route) /\ Distinct(s) /\ a \in Seq(Route) /\ Len(s) \in Nat /\ Len(a) \in Nat
      /\ Distinct(a) /\ Len(al) \in Nat
  BY DEF Sound
<1>2. /\ lf \subseteq {k \in Links : w[k] # None} /\ cu \in 1 .. Len(s) + 1
      /\ Carried(s, al, f, w) /\ AsFound(a, s, f, lf, cu, w) /\ Answered(a, s, lf, cu, w)
      /\ IF cu = Len(s) + 1 THEN Aligned(a, al) ELSE Settled(s, lf, w)
  BY DEF Planned
<1>3. l \in Links /\ w[l] # None
  BY <1>2
<1>4. i \in 1 .. Len(s) /\ s[i].id = l
  BY <1>1, Finding
<1>5. i < f /\ f \in 1 .. Len(s) + 1
  BY <1>1, <1>3, <1>4, FallbackPlace
<1>6. cu = Len(s) + 1 /\ Aligned(a, al)
  BY <1>2 DEF Settled
<1>7. r \in Route /\ r.id = l /\ r.up = w[l]
  BY <1>3, RoutesTyped DEF Wanted
<1> HIDE DEF r, i, f
<1>8. i \in 1 .. Len(a) /\ a[i].id = l /\ a[i] = s[i]
  BY <1>1, <1>2, <1>4, <1>5, <1>6 DEF AsFound
<1>9. /\ b \in Seq(Route) /\ Len(b) = Len(a)
      /\ \A j \in 1 .. Len(a) : b[j] = IF j = i THEN r ELSE a[j]
  <2>1. a \in Seq(Route) /\ i \in 1 .. Len(a) /\ r \in Route
    BY <1>1, <1>7, <1>8
  <2>2. Replaced(Route, a, i, r, b)
    BY <2>1, Replacing
  <2> HIDE DEF b
  <2>3. QED BY <2>2 DEF Replaced
<1>10. /\ \A k : Has(b, k) = Has(a, k)
       /\ \A k \in Links : Upstream(b, k) = IF k = l THEN w[l] ELSE Upstream(a, k)
  BY <1>1, <1>3, <1>4, <1>7, <1>8, PutKeeps
<1> HIDE DEF b
<1>11. AsFound(b, s, f, lf \ {l}, cu, w)
  BY <1>1, <1>2, <1>3, <1>4, <1>5, <1>6, <1>7, <1>8, <1>9 DEF AsFound, Distinct
<1>12. Answered(b, s, lf \ {l}, cu, w)
  BY <1>2, <1>3, <1>10 DEF Answered
<1>13. Aligned(b, al)
  BY <1>1, <1>6, <1>7, <1>8, <1>9 DEF Aligned
<1>14. Planned(b, s, al, lf \ {l}, cu, w)
  BY <1>2, <1>6, <1>11, <1>12, <1>13 DEF Planned, f
<1>15. QED BY <1>1, <1>3, <1>4, <1>8, <1>14 DEF b, i, r, Without

\* An insertion that is due.
LEMMA LoopInsert ==
  ASSUME NEW s, NEW al \in Seq(Route), NEW lf, NEW cu \in Nat, NEW w \in Wanted, NEW a,
         Sound(s), Sound(a), Planned(a, s, al, lf, cu, w),
         NEW l \in lf, ~Has(s, l)
  PROVE  /\ l \in Links /\ ~Has(a, l) /\ FallbackIndex(al) = FallbackIndex(a)
         /\ FallbackIndex(al) \in 1 .. Len(a) + 1
         /\ Planned(InsertAt(a, FallbackIndex(al), Owned(l, w[l])), s,
                    InsertAt(al, FallbackIndex(al), Owned(l, w[l])), Without(lf, l), cu, w)
<1> DEFINE f == FallbackIndex(s)
           i == FallbackIndex(al)
           r == Owned(l, w[l])
           b == InsertAt(a, i, r)
           bl == InsertAt(al, i, r)
<1>1. /\ s \in Seq(Route) /\ a \in Seq(Route) /\ Len(s) \in Nat /\ Len(a) \in Nat
      /\ Len(al) \in Nat
  BY DEF Sound
<1>2. /\ lf \subseteq {k \in Links : w[k] # None} /\ cu \in 1 .. Len(s) + 1
      /\ Carried(s, al, f, w) /\ AsFound(a, s, f, lf, cu, w) /\ Answered(a, s, lf, cu, w)
      /\ IF cu = Len(s) + 1 THEN Aligned(a, al) ELSE Settled(s, lf, w)
  BY DEF Planned
<1>3. l \in Links /\ w[l] # None
  BY <1>2
<1>4. cu = Len(s) + 1 /\ Len(a) = Len(al) /\ \A j \in 1 .. Len(a) : a[j].id = al[j].id
  BY <1>2 DEF Settled, Aligned
<1>5. i = FallbackIndex(a)
  <2>1. Places(a, Fallback) = Places(al, Fallback)
    BY <1>1, <1>4 DEF Places
  <2>2. QED BY <1>4, <2>1 DEF FallbackIndex, Has, Place
<1>6. i \in 1 .. Len(a) + 1
  BY <1>5, FallbackPlace
<1>7. /\ f \in 1 .. Len(s) + 1
      /\ \A j \in 1 .. Len(s) : s[j].id = Fallback => j = f
  BY FallbackPlace
<1>8. i >= f
  <2>1. CASE Has(al, Fallback)
    <3>1. i \in 1 .. Len(al) /\ al[i].id = Fallback
      BY <2>1, Finding DEF FallbackIndex
    <3>2. i < f => al[i] = s[i]
      BY <1>2, <1>7, <3>1 DEF Carried
    <3>3. QED BY <1>1, <1>7, <3>1, <3>2
  <2>2. CASE ~Has(al, Fallback)
    BY <1>1, <1>2, <1>7, <2>2 DEF FallbackIndex, Carried
  <2>3. QED BY <2>1, <2>2
<1>9. r \in Route /\ r.id = l /\ r.up = w[l]
  BY <1>3, RoutesTyped DEF Wanted
<1>10. ~Has(a, l)
  BY <1>2, <1>3 DEF Answered
<1> HIDE DEF r, i, f
<1>11. /\ b \in Seq(Route) /\ Len(b) = Len(a) + 1
       /\ \A j \in 1 .. Len(a) + 1 : b[j] = IF j < i THEN a[j] ELSE IF j = i THEN r ELSE a[j - 1]
  <2>1. a \in Seq(Route) /\ i \in 1 .. Len(a) + 1 /\ r \in Route
    BY <1>1, <1>6, <1>9
  <2>2. Inserted(Route, a, i, r, b)
    BY <2>1, Inserting
  <2> HIDE DEF b
  <2>3. QED BY <2>2 DEF Inserted
<1>12. /\ bl \in Seq(Route) /\ Len(bl) = Len(al) + 1
       /\ \A j \in 1 .. Len(al) + 1 : bl[j] = IF j < i THEN al[j] ELSE IF j = i THEN r ELSE al[j - 1]
  <2>1. al \in Seq(Route) /\ i \in 1 .. Len(al) + 1 /\ r \in Route
    BY <1>4, <1>6, <1>9
  <2>2. Inserted(Route, al, i, r, bl)
    BY <2>1, Inserting
  <2> HIDE DEF bl
  <2>3. QED BY <2>2 DEF Inserted
<1>13. /\ \A k : Has(b, k) <=> Has(a, k) \/ k = l
       /\ \A k \in Links : Upstream(b, k) = IF k = l THEN w[l] ELSE Upstream(a, k)
  <2>1. r.id # Fallback /\ i <= FallbackIndex(a) /\ ~Has(a, r.id)
    BY <1>1, <1>3, <1>5, <1>6, <1>9, <1>10, Constants
  <2>2. /\ \A k : Has(b, k) <=> Has(a, k) \/ k = r.id
        /\ \A k \in Links : Upstream(b, k) = IF k = r.id THEN r.up ELSE Upstream(a, k)
    BY <1>6, <1>9, <2>1, InsertKeeps
  <2>3. QED BY <1>9, <2>2
<1> HIDE DEF b, bl
<1>14. Carried(s, bl, f, w)
  <2>1. Len(bl) >= Len(s)
    BY <1>1, <1>2, <1>12 DEF Carried
  <2>2. \A j \in 1 .. f - 1 : bl[j] = s[j]
    BY <1>1, <1>2, <1>4, <1>6, <1>7, <1>8, <1>12 DEF Carried
  <2>3. ASSUME NEW j \in f .. Len(bl), bl[j].id \in Links
        PROVE  w[bl[j].id] # None
    <3>1. j \in Nat /\ j \in 1 .. Len(al) + 1 /\ i \in Nat /\ f \in Nat
      BY <1>1, <1>4, <1>6, <1>7, <1>12
    <3>2. CASE j < i
      <4>1. j \in f .. Len(al) /\ bl[j] = al[j]
        BY <1>1, <1>4, <1>6, <1>12, <3>1, <3>2
      <4>2. QED BY <1>2, <2>3, <4>1 DEF Carried
    <3>3. CASE j = i
      BY <1>3, <1>9, <1>12, <3>1, <3>3
    <3>4. CASE j > i
      <4>1. j - 1 \in f .. Len(al) /\ bl[j] = al[j - 1]
        BY <1>1, <1>8, <1>12, <3>1, <3>4
      <4>2. QED BY <1>2, <2>3, <4>1 DEF Carried
    <3>5. QED BY <3>1, <3>2, <3>3, <3>4
  <2>4. QED BY <2>1, <2>2, <2>3 DEF Carried
<1>15. Aligned(b, bl)
  <2>1. ASSUME NEW j \in 1 .. Len(b)
        PROVE  b[j].id = bl[j].id
    <3>1. j \in Nat /\ j \in 1 .. Len(a) + 1 /\ i \in Nat /\ Len(b) = Len(bl)
      BY <1>1, <1>4, <1>6, <1>11, <1>12
    <3>2. CASE j < i
      <4>1. b[j] = a[j] /\ bl[j] = al[j] /\ j \in 1 .. Len(a)
        BY <1>1, <1>4, <1>6, <1>11, <1>12, <3>1, <3>2
      <4>2. QED BY <1>4, <4>1
    <3>3. CASE j = i
      BY <1>4, <1>11, <1>12, <3>1, <3>3
    <3>4. CASE j > i
      <4>1. b[j] = a[j - 1] /\ bl[j] = al[j - 1] /\ j - 1 \in 1 .. Len(a)
        BY <1>1, <1>4, <1>6, <1>11, <1>12, <3>1, <3>4
      <4>2. QED BY <1>4, <4>1
    <3>5. QED BY <3>1, <3>2, <3>3, <3>4
  <2>2. QED BY <1>4, <1>11, <1>12, <2>1 DEF Aligned
<1>16. AsFound(b, s, f, lf \ {l}, cu, w)
  <2>1. \A j \in 1 .. f - 1 : j < i /\ j \in 1 .. Len(a) + 1
    BY <1>1, <1>6, <1>7, <1>8
  <2>2. \A j \in 1 .. f - 1 : b[j] = a[j]
    BY <1>11, <2>1
  <2>3. \A j \in 1 .. f - 1 : j <= Len(a) => j <= Len(b)
    BY <1>1, <1>7, <1>11
  <2>4. QED BY <1>2, <2>2, <2>3 DEF AsFound
<1>17. Answered(b, s, lf \ {l}, cu, w)
  <2> SUFFICES ASSUME NEW k \in Links
               PROVE  /\ w[k] = None => (Has(b, k) => Has(s, k) /\ Place(s, k) < cu)
                      /\ k \in lf \ {l} => Upstream(b, k) = Upstream(s, k) /\ Has(b, k) = Has(s, k)
                      /\ w[k] # None /\ k \notin lf \ {l} => Upstream(b, k) = w[k]
    BY DEF Answered
  <2>1. /\ w[k] = None => (Has(a, k) => Has(s, k) /\ Place(s, k) < cu)
        /\ k \in lf => Upstream(a, k) = Upstream(s, k) /\ Has(a, k) = Has(s, k)
        /\ w[k] # None /\ k \notin lf => Upstream(a, k) = w[k]
    BY <1>2 DEF Answered
  <2>2. CASE k = l
    BY <1>3, <1>13, <2>2
  <2>3. CASE k # l
    <3>1. Upstream(b, k) = Upstream(a, k) /\ (Has(b, k) <=> Has(a, k))
      BY <1>13, <2>3
    <3>2. Has(b, k) = Has(a, k)
      BY <3>1 DEF Has
    <3>3. QED BY <2>1, <2>3, <3>1, <3>2
  <2>4. QED BY <2>2, <2>3
<1>18. Planned(b, s, bl, lf \ {l}, cu, w)
  BY <1>2, <1>4, <1>14, <1>15, <1>16, <1>17 DEF Planned, f
<1>19. QED BY <1>3, <1>5, <1>6, <1>10, <1>18 DEF b, bl, i, r, Without

\* A deletion that is due.
LEMMA LoopPrune ==
  ASSUME NEW s, NEW al \in Seq(Route), NEW lf, NEW cu \in Nat, NEW w \in Wanted, NEW a,
         Sound(s), Sound(a), Planned(a, s, al, lf, cu, w), Settled(s, lf, w),
         NEW i \in 1 .. Len(s), i < cu, al[i].id \in Links, w[al[i].id] = None,
         \A j \in 1 .. Len(s) : j < cu /\ al[j].id \in Links /\ w[al[j].id] = None => j <= i
  PROVE  /\ i \in 1 .. Len(a) /\ a[i] = s[i] /\ s[i].id \in Links /\ w[s[i].id] = None
         /\ Planned(RemoveAt(a, i), s, al, lf, i, w)
<1> DEFINE f == FallbackIndex(s)
           b == RemoveAt(a, i)
<1>1. /\ s \in Seq(Route) /\ Distinct(s) /\ a \in Seq(Route) /\ Len(s) \in Nat /\ Len(a) \in Nat
      /\ Len(al) \in Nat
  BY DEF Sound
<1>2. /\ lf \subseteq {k \in Links : w[k] # None} /\ cu \in 1 .. Len(s) + 1
      /\ Carried(s, al, f, w) /\ AsFound(a, s, f, lf, cu, w) /\ Answered(a, s, lf, cu, w)
  BY DEF Planned
<1>3. /\ f \in 1 .. Len(s) + 1
      /\ \A j \in 1 .. Len(s) : s[j].id \in Links => j < f
  BY FallbackPlace
<1> HIDE DEF f
<1>4. i < f
  BY <1>1, <1>2, <1>3 DEF Carried
<1>5. al[i] = s[i]
  BY <1>2, <1>3, <1>4 DEF Carried
<1>6. i <= Len(a) /\ a[i] = s[i]
  BY <1>1, <1>2, <1>3, <1>4, <1>5 DEF AsFound
<1>7. /\ b \in Seq(Route) /\ Len(b) = Len(a) - 1
      /\ \A j \in 1 .. Len(a) - 1 : b[j] = IF j < i THEN a[j] ELSE a[j + 1]
  <2>1. a \in Seq(Route) /\ i \in 1 .. Len(a)
    BY <1>1, <1>6
  <2>2. Removed(Route, a, i, b)
    BY <2>1, Removing
  <2> HIDE DEF b
  <2>3. QED BY <2>2 DEF Removed
<1>8. /\ \A k : Has(b, k) <=> Has(a, k) /\ k # s[i].id
      /\ \A k \in Links : Upstream(b, k) = IF k = s[i].id THEN None ELSE Upstream(a, k)
  BY <1>1, <1>6, RemoveKeeps
<1> HIDE DEF b
<1>9. s[i].id \in Links /\ w[s[i].id] = None /\ s[i].id \notin lf
  BY <1>2, <1>5
<1>10. AsFound(b, s, f, lf, i, w)
  <2>1. \A j \in 1 .. f - 1 : j < i => j < cu /\ j <= Len(b) /\ j \in 1 .. Len(a) - 1
    BY <1>1, <1>2, <1>3, <1>6, <1>7
  <2>2. \A j \in 1 .. f - 1 : j < i => b[j] = a[j]
    BY <1>7, <2>1
  <2>3. QED BY <1>2, <2>1, <2>2 DEF AsFound
<1>11. Answered(b, s, lf, i, w)
  <2>1. ASSUME NEW k \in Links, w[k] = None, Has(b, k)
        PROVE  Has(s, k) /\ Place(s, k) < i
    <3>1. Has(s, k) /\ Place(s, k) < cu /\ k # s[i].id
      BY <1>2, <1>8, <2>1 DEF Answered
    <3>2. Place(s, k) \in 1 .. Len(s) /\ s[Place(s, k)].id = k
      BY <1>1, <3>1, Finding
    <3>3. Place(s, k) < f
      BY <1>3, <3>2
    <3>4. al[Place(s, k)] = s[Place(s, k)]
      BY <1>2, <1>3, <3>2, <3>3 DEF Carried
    <3>5. Place(s, k) <= i /\ Place(s, k) # i
      BY <2>1, <3>1, <3>2, <3>4
    <3>6. QED BY <3>1, <3>2, <3>5
  <2>2. ASSUME NEW k \in Links
        PROVE  /\ k \in lf => Upstream(b, k) = Upstream(s, k) /\ Has(b, k) = Has(s, k)
               /\ w[k] # None /\ k \notin lf => Upstream(b, k) = w[k]
    <3>1. /\ k \in lf => Upstream(a, k) = Upstream(s, k) /\ Has(a, k) = Has(s, k)
          /\ w[k] # None /\ k \notin lf => Upstream(a, k) = w[k]
      BY <1>2 DEF Answered
    <3>2. CASE k = s[i].id
      BY <1>9, <3>2
    <3>3. CASE k # s[i].id
      <4>1. Upstream(b, k) = Upstream(a, k) /\ (Has(b, k) <=> Has(a, k))
        BY <1>8, <3>3
      <4>2. Has(b, k) = Has(a, k)
        BY <4>1 DEF Has
      <4>3. QED BY <3>1, <4>1, <4>2
    <3>4. QED BY <3>2, <3>3
  <2>3. QED BY <2>1, <2>2 DEF Answered
<1>12. Planned(b, s, al, lf, i, w)
  BY <1>1, <1>2, <1>10, <1>11 DEF Planned, f
<1>13. QED BY <1>1, <1>6, <1>9, <1>12 DEF b

\* Nothing is due.
LEMMA LoopDone ==
  ASSUME NEW s, NEW al \in Seq(Route), NEW lf, NEW cu \in Nat, NEW w \in Wanted, NEW a,
         Sound(s), Sound(a), Planned(a, s, al, lf, cu, w), Settled(s, lf, w),
         \A j \in 1 .. Len(s) : j < cu => ~(al[j].id \in Links /\ w[al[j].id] = None),
         NEW l \in Links
  PROVE  Upstream(a, l) = w[l]
<1>1. /\ s \in Seq(Route) /\ Len(s) \in Nat
      /\ Carried(s, al, FallbackIndex(s), w) /\ Answered(a, s, lf, cu, w)
  BY DEF Sound, Planned
<1>2. CASE w[l] # None
  BY <1>1, <1>2 DEF Answered, Settled
<1>3. CASE w[l] = None /\ Has(a, l)
  <2>1. Has(s, l) /\ Place(s, l) < cu
    BY <1>1, <1>3 DEF Answered
  <2>2. Place(s, l) \in 1 .. Len(s) /\ s[Place(s, l)].id = l
    BY <1>1, <2>1, Finding
  <2>3. FallbackIndex(s) \in Nat /\ Place(s, l) < FallbackIndex(s)
    BY <1>1, <2>2, FallbackPlace
  <2>4. al[Place(s, l)].id = l
    BY <1>1, <2>2, <2>3 DEF Carried
  <2>5. QED BY <1>3, <2>1, <2>2, <2>4
<1>4. CASE w[l] = None /\ ~Has(a, l)
  BY <1>4 DEF Upstream
<1>5. QED BY <1>2, <1>3, <1>4

-----------------------------------------------------------------------------
\* The invariant.

\* One attempt at a request, as production has it, and one fault per call.
OneFailure == Attempts = 1 /\ MaxFaults <= 1

\* A rollback has a fault behind it, and outlives no context.
Faulty(c) ==
  /\ c.dead => c.faults > 0
  /\ c.pc \in {"undo", "unsend"} => c.dead = FALSE /\ c.faults > 0
  /\ c.pc = "fetch" => c.undos = <<>>
  /\ c.kind = "remove" => c.wanted[c.link] = None

\* The request of AddRoute and RemoveRoute is fitted to the array that is there.
SingleWrite(a, c) ==
  c.kind \in {"add", "remove"} /\ c.pc = "send" =>
    /\ a = c.snap /\ Accepts(a, c.req)
    /\ Sound(Applied(a, c.req)) /\ Unowned(Applied(a, c.req)) = Unowned(a)
    /\ \A l \in Links : Upstream(Applied(a, c.req), l) =
                          IF l = c.link THEN c.wanted[l] ELSE Upstream(a, l)

\* Where Reconcile has a trail.
Working == {"plan", "send", "undo", "unsend"}

\* h is a trail of the call c and leads to the array a.
Follows(h, a, c) ==
  /\ Trail(h, c) /\ Located(h, a, c)
  /\ c.pc = "plan" => PlannedNow(a, c)
  /\ c.pc = "send" => PlannedNext(Applied(a, c.req), c)

\* Reconcile has a trail from what it found to what is there.
Reconciling(a, c) == c.kind = "reconcile" /\ c.pc \in Working => \E h : Follows(h, a, c)

\* The invariant, until another client edits the array during a call.
IInv == /\ Framed(call) /\ Sound(config) /\ Faulty(call)
        /\ SingleWrite(config, call) /\ Reconciling(config, call)

\* What a step of a call does to the table of upstreams.
Near == \A l \in Links : Upstream(config', l) \in {Upstream(config, l), OldTable[l], Target[l]}

\* The call goes on with what it was asked,
Moves == call'.pc # "idle" /\ OldTable' = OldTable /\ Target' = Target

\* or it is over, with what it was asked in place if it says so.
Ends == call'.pc = "idle" /\ (call'.outcome = "ok" => \A l \in Links : Upstream(config', l) = Target[l])

\* Both with the invariant kept and the routes of others left alone.
StepOK == IInv' /\ Unowned(config') = Unowned(config) /\ Near /\ (Moves \/ Ends)

\* A call that returns.
LEMMA Ended ==
  ASSUME NEW o \in Outcomes, Return(o), Sound(config'), Unowned(config') = Unowned(config),
         Near, o = "ok" => \A l \in Links : Upstream(config', l) = Target[l]
  PROVE  StepOK
<1>1. /\ Framed(call') /\ call'.pc = "idle" /\ call'.kind = "none" /\ call'.outcome = o
      /\ call'.dead = FALSE
  BY ReturnFramed
<1>2. Faulty(call') /\ SingleWrite(config', call') /\ Reconciling(config', call')
  BY <1>1 DEF Faulty, SingleWrite, Reconciling, Working
<1>3. Ends
  BY <1>1 DEF Ends
<1>4. QED BY <1>1, <1>2, <1>3 DEF StepOK, IInv

\* Nothing was written: the old table is the one that is there.
LEMMA Unwritten ==
  ASSUME config' = config
  PROVE  Unowned(config') = Unowned(config) /\ Near
  BY DEF Near

\* What a trail consists of.
LEMMA TrailTyped ==
  ASSUME NEW h, NEW c \in Call, Trail(h, c)
  PROVE  /\ Len(c.undos) \in Nat /\ Len(h) = Len(c.undos) + 1 /\ h \in Seq(Seq(Route))
         /\ \A k \in 1 .. Len(c.undos) + 1 : Sound(h[k]) /\ Halfway(h[k], c) /\ h[k] \in Seq(Route)
         /\ \A k \in 1 .. Len(c.undos) : c.undos[k] \in Undo /\ Undoes(c.undos[k], h[k], h[k + 1])
<1>1. c.undos \in Seq(Undo)
  BY DEF Call
<1>2. Len(c.undos) \in Nat /\ \A k \in 1 .. Len(c.undos) : c.undos[k] \in Undo
  BY <1>1, ElementOfSeq
<1>3. QED BY <1>2 DEF Trail, Sound

\* A trail depends on the undos, on what was found and on what is wanted.
LEMMA TrailStays ==
  ASSUME NEW h, NEW c, NEW d, Trail(h, c),
         d.undos = c.undos, d.snap = c.snap, d.wanted = c.wanted
  PROVE  Trail(h, d)
  BY DEF Trail, Halfway

\* A mutation adds an array to the trail, an undo takes the last one away.
LEMMA TrailGrows ==
  ASSUME NEW h, NEW c \in Call, NEW d, Trail(h, c), NEW u \in Undo, NEW b,
         Sound(b), Halfway(b, c), Undoes(u, h[Len(c.undos) + 1], b),
         d.undos = Append(c.undos, u), d.snap = c.snap, d.wanted = c.wanted
  PROVE  /\ Len(d.undos) \in Nat /\ Len(d.undos) > 0
         /\ \E g : Trail(g, d) /\ g[Len(d.undos)] = h[Len(c.undos) + 1] /\ g[Len(d.undos) + 1] = b
<1> DEFINE g == Append(h, b)
           m == Len(c.undos)
<1>1. c.undos \in Seq(Undo) /\ m \in Nat /\ b \in Seq(Route)
  BY DEF Call, Sound
<1>2. /\ h \in Seq(Seq(Route)) /\ Len(h) = m + 1
      /\ \A k \in 1 .. m + 1 : Sound(h[k]) /\ Halfway(h[k], c)
      /\ \A k \in 1 .. m : Undoes(c.undos[k], h[k], h[k + 1])
      /\ h[1] = c.snap
  BY DEF Trail
<1>3. /\ g \in Seq(Seq(Route)) /\ Len(g) = m + 2 /\ g[m + 2] = b
      /\ \A k \in 1 .. m + 1 : g[k] = h[k]
  BY <1>1, <1>2, AppendProperties
<1>4. /\ Len(d.undos) = m + 1 /\ d.undos[m + 1] = u
      /\ \A k \in 1 .. m : d.undos[k] = c.undos[k]
  BY <1>1, AppendProperties
<1> HIDE DEF g, m
<1>5. \A k \in 1 .. m + 2 : Sound(g[k]) /\ Halfway(g[k], d)
  <2>1. \A k \in 1 .. m + 1 : Sound(g[k]) /\ Halfway(g[k], d)
    BY <1>2, <1>3 DEF Halfway
  <2>2. Sound(g[m + 2]) /\ Halfway(g[m + 2], d)
    BY <1>3 DEF Halfway
  <2>3. \A k \in 1 .. m + 2 : k \in 1 .. m + 1 \/ k = m + 2
    BY <1>1
  <2>4. QED BY <2>1, <2>2, <2>3
<1>6. \A k \in 1 .. m + 1 : Undoes(d.undos[k], g[k], g[k + 1])
  <2>1. \A k \in 1 .. m : Undoes(d.undos[k], g[k], g[k + 1])
    <3>1. \A k \in 1 .. m : k \in 1 .. m + 1 /\ k + 1 \in 1 .. m + 1
      BY <1>1
    <3>2. QED BY <1>2, <1>3, <1>4, <3>1
  <2>2. Undoes(d.undos[m + 1], g[m + 1], g[m + 2])
    <3>1. m + 1 \in 1 .. m + 1
      BY <1>1
    <3>2. QED BY <1>3, <1>4, <3>1 DEF m
  <2>3. \A k \in 1 .. m + 1 : k \in 1 .. m \/ (k = m + 1 /\ k + 1 = m + 2)
    BY <1>1
  <2>4. QED BY <2>1, <2>2, <2>3
<1>7. g[1] = d.snap /\ Len(g) = Len(d.undos) + 1
  BY <1>1, <1>2, <1>3, <1>4
<1>8. Trail(g, d)
  BY <1>1, <1>3, <1>4, <1>5, <1>6, <1>7 DEF Trail
<1>9. /\ Len(d.undos) \in Nat /\ Len(d.undos) > 0
      /\ g[Len(d.undos)] = h[m + 1] /\ g[Len(d.undos) + 1] = b
  BY <1>1, <1>3, <1>4
<1>10. QED BY <1>8, <1>9 DEF m

LEMMA TrailShrinks ==
  ASSUME NEW h, NEW c \in Call, NEW d, Trail(h, c), c.undos # <<>>,
         d.undos = Front(c.undos), d.snap = c.snap, d.wanted = c.wanted
  PROVE  /\ Trail(Front(h), d)
         /\ Len(d.undos) = Len(c.undos) - 1
         /\ Front(h)[Len(d.undos) + 1] = h[Len(c.undos)]
<1> DEFINE g == Front(h)
           m == Len(c.undos)
<1>1. c.undos \in Seq(Undo) /\ m \in Nat /\ m > 0
  BY EmptySeq DEF Call
<1>2. /\ h \in Seq(Seq(Route)) /\ Len(h) = m + 1
      /\ \A k \in 1 .. m + 1 : Sound(h[k]) /\ Halfway(h[k], c)
      /\ \A k \in 1 .. m : Undoes(c.undos[k], h[k], h[k + 1])
      /\ h[1] = c.snap
  BY DEF Trail
<1>3. /\ g \in Seq(Seq(Route)) /\ Len(g) = m /\ \A k \in 1 .. m : g[k] = h[k]
  <2>1. \A k \in 1 .. m : h[k] \in Seq(Route)
    BY <1>1, <1>2, ElementOfSeq
  <2>2. g = SubSeq(h, 1, m)
    BY <1>1, <1>2 DEF Front
  <2>3. QED BY <1>1, <1>2, <2>1, <2>2, SubSeqProperties
<1>4. Len(d.undos) = m - 1 /\ \A k \in 1 .. m - 1 : d.undos[k] = c.undos[k]
  <2>1. \A k \in 1 .. m - 1 : c.undos[k] \in Undo
    BY <1>1, ElementOfSeq
  <2>2. d.undos = SubSeq(c.undos, 1, m - 1)
    BY <1>1 DEF Front
  <2>3. QED BY <1>1, <2>1, <2>2, SubSeqProperties
<1> HIDE DEF g, m
<1>5. \A k \in 1 .. m : Sound(g[k]) /\ Halfway(g[k], d)
  BY <1>1, <1>2, <1>3 DEF Halfway
<1>6. \A k \in 1 .. m - 1 : Undoes(d.undos[k], g[k], g[k + 1])
  <2>1. \A k \in 1 .. m - 1 : k \in 1 .. m /\ k + 1 \in 1 .. m
    BY <1>1
  <2>2. QED BY <1>2, <1>3, <1>4, <2>1
<1>7. Trail(g, d)
  BY <1>1, <1>2, <1>3, <1>4, <1>5, <1>6 DEF Trail
<1>8. QED BY <1>1, <1>3, <1>4, <1>7 DEF g, m

\* Every array of a trail holds the routes of others as the first one does.
LEMMA UndoesKeeps ==
  ASSUME NEW u \in Undo, NEW a, NEW b, Sound(a), Undoes(u, a, b)
  PROVE  Unowned(b) = Unowned(a)
<1>1. u.route \in Route /\ u.route.id \in Links /\ u.route.id # Fallback
  BY Constants DEF Undo, Undoes
<1>2. CASE u.kind = "put"
  <2>1. PICK q \in Route : q.id = u.route.id /\ b = ReplaceAt(a, u.at, q)
    BY <1>2 DEF Undoes
  <2>2. u.at \in 1 .. Len(a) /\ a[u.at].id = q.id
    BY <1>2, <2>1 DEF Undoes
  <2>3. QED BY <1>1, <2>1, <2>2, PutKeeps
<1>3. CASE u.kind = "unadd"
  <2>1. /\ u.at \in 1 .. FallbackIndex(a) /\ ~Has(a, u.route.id)
        /\ b = InsertAt(a, u.at, u.route)
    BY <1>3 DEF Undoes
  <2>2. u.at \in 1 .. Len(a) + 1 /\ u.at <= FallbackIndex(a)
    <3>1. a \in Seq(Route)
      BY DEF Sound
    <3>2. QED BY <2>1, <3>1, FallbackPlace
  <2>3. QED BY <1>1, <2>1, <2>2, InsertKeeps
<1>4. CASE u.kind = "readd"
  BY <1>1, <1>4, RemoveKeeps DEF Undoes
<1>5. QED BY <1>2, <1>3, <1>4 DEF Undoes

\* Where the server may be: at the end of the trail or one step before it.
LEMMA Here ==
  ASSUME IInv, NEW h, Follows(h, config, call), call.pc \in Working
  PROVE  LET n == Len(call.undos)
         IN  /\ n \in Nat /\ call.undos \in Seq(Undo) /\ (config = h[n + 1] \/ (n > 0 /\ config = h[n]))
             /\ Halfway(config, call)
             /\ \A k \in 1 .. n + 1 : Sound(h[k]) /\ Halfway(h[k], call)
             /\ n > 0 => /\ call.undos[n] \in Undo /\ Undoes(call.undos[n], h[n], h[n + 1])
                         /\ Unowned(h[n + 1]) = Unowned(h[n]) /\ call.undos # <<>>
<1> DEFINE n == Len(call.undos)
<1>1. call \in Call /\ Trail(h, call) /\ Located(h, config, call)
  BY DEF IInv, Framed, Follows
<1>2. /\ n \in Nat
      /\ \A k \in 1 .. n + 1 : Sound(h[k]) /\ Halfway(h[k], call)
      /\ \A k \in 1 .. n : call.undos[k] \in Undo /\ Undoes(call.undos[k], h[k], h[k + 1])
  BY <1>1, TrailTyped
<1>3. call.undos \in Seq(Undo)
  BY <1>1 DEF Call
<1>4. config = h[n + 1] \/ (n > 0 /\ config = h[n])
  BY <1>1 DEF Located, Working
<1> HIDE DEF n
<1>5. Halfway(config, call)
  BY <1>2, <1>4
<1>6. ASSUME n > 0
      PROVE  /\ call.undos[n] \in Undo /\ Undoes(call.undos[n], h[n], h[n + 1])
             /\ Unowned(h[n + 1]) = Unowned(h[n])
  <2>1. n \in 1 .. n /\ n \in 1 .. n + 1
    BY <1>2, <1>6
  <2>2. call.undos[n] \in Undo /\ Undoes(call.undos[n], h[n], h[n + 1]) /\ Sound(h[n])
    BY <1>2, <2>1
  <2>3. QED BY <2>2, UndoesKeeps
<1>7. n > 0 => call.undos # <<>>
  BY <1>2 DEF n
<1>8. QED BY <1>2, <1>3, <1>4, <1>5, <1>6, <1>7 DEF n

\* A step of Reconcile that stays on the trail.
LEMMA OnTrail ==
  ASSUME IInv, call.kind = "reconcile", call.pc \in Working,
         Framed(call'), Faulty(call'), call'.kind = "reconcile", call'.pc \in Working,
         call'.snap = call.snap, call'.wanted = call.wanted,
         NEW h, Follows(h, config', call'), Sound(config'), Halfway(config', call),
         Unowned(config') = Unowned(config)
  PROVE  StepOK
<1>1. SingleWrite(config', call') /\ Reconciling(config', call')
  BY DEF SingleWrite, Reconciling
<1>2. /\ call.pc # "fetch" /\ call'.pc # "fetch" /\ call'.pc # "idle"
  BY DEF Working
<1>3. OldTable' = OldTable /\ Target' = Target
  BY <1>2 DEF OldTable, Target
<1>4. \A l \in Links : OldTable[l] = Upstream(call.snap, l) /\ Target[l] = call.wanted[l]
  BY <1>2 DEF OldTable, Target
<1>5. Near
  BY <1>4 DEF Near, Halfway
<1>6. QED BY <1>1, <1>2, <1>3, <1>5 DEF StepOK, Moves, IInv

\* The array is read, and a single write is planned or the loops begin.
LEMMA FetchStep ==
  ASSUME OneFailure, IInv, Fetch
  PROVE  StepOK
<1>1. /\ call \in Call /\ call.pc = "fetch" /\ config \in Seq(Route) /\ Len(config) \in Nat
      /\ 0 \in 0 .. Attempts - 1 /\ call.wanted \in Wanted /\ call.undos = <<>>
      /\ Sound(config) /\ Faulty(call) /\ TInv
  BY Constants DEF IInv, Framed, Call, Fetch, Faulty, Sound, TInv
<1>2. config' = config /\ Sound(config')
  BY <1>1 DEF Fetch, ReadFails
<1>3. Unowned(config') = Unowned(config) /\ Near
  BY <1>2, Unwritten
<1>4. /\ \A l \in Links : OldTable[l] = Upstream(config, l)
      /\ Target = IF call.kind = "reconcile" THEN call.wanted
                  ELSE [OldTable EXCEPT ![call.link] = call.wanted[call.link]]
      /\ OldTable = [l \in Links |-> Upstream(config, l)]
  BY <1>1 DEF OldTable, Target
<1>5. ASSUME call.kind # "reconcile"
      PROVE  \A l \in Links : Target[l] = IF l = call.link THEN call.wanted[l] ELSE Upstream(config, l)
  BY <1>4, <1>5
<1>6. Framed(call')
  BY <1>1, FetchFramed DEF TInv
<1>7. ASSUME call'.pc # "idle", call'.pc # "fetch", call'.kind = call.kind,
             call'.link = call.link, call'.wanted = call.wanted, call'.snap = config
      PROVE  Moves
  BY <1>1, <1>7 DEF Moves, OldTable, Target
<1>8. CASE ReadFails
  <2>1. ~Retry
    BY DEF Retry, MayRetry, OneFailure, IInv, Framed, Call
  <2>2. Return("error")
    BY <1>1, <1>8, <2>1 DEF ReadFails, ReadFailed, Return, Dropped
  <2>3. QED BY <1>2, <1>3, <2>2, Ended DEF Outcomes
<1>9. CASE FetchForAdd /\ ~call.dead
  <2>1. call.kind = "add" /\ call.link \in Links
    BY <1>1, <1>9 DEF FetchForAdd, IInv, Framed
  <2> DEFINE l == call.link
             u == call.wanted[l]
             r == Owned(l, u)
             read == [call EXCEPT !.snap = config, !.tries = 0]
             q == IF Has(config, l) THEN Put(Place(config, l), r)
                                    ELSE Post(FallbackIndex(config), r)
  <2>2. r \in Route /\ r.id = l /\ r.up = u /\ r.id # Fallback /\ r.id \in Links
    BY <1>1, <2>1, RoutesTyped, Constants DEF Wanted
  <2> HIDE DEF r
  <2>3. CASE Has(config, l) /\ Upstream(config, l) = r.up
    <3>1. Return("ok")
      BY <1>9, <2>3 DEF FetchForAdd, r
    <3>2. \A k \in Links : Upstream(config', k) = Target[k]
      BY <1>2, <1>5, <2>1, <2>2, <2>3
    <3>3. QED BY <1>2, <1>3, <3>1, <3>2, Ended DEF Outcomes
  <2>4. CASE ~(Has(config, l) /\ Upstream(config, l) = r.up)
    <3>1. call' = [read EXCEPT !.pc = "send", !.req = q]
      BY <1>9, <2>4 DEF FetchForAdd, r
    <3>2. /\ Has(config, l) => Place(config, l) \in 1 .. Len(config) /\ config[Place(config, l)].id = l
          /\ FallbackIndex(config) \in 1 .. Len(config) + 1
      BY <1>1, Finding, FallbackPlace
    <3> DEFINE b == Applied(config, q)
    <3>3. /\ Accepts(config, q) /\ Sound(b) /\ Unowned(b) = Unowned(config) /\ q \in Request
          /\ \A k \in Links : Upstream(b, k) = IF k = l THEN u ELSE Upstream(config, k)
      <4>1. CASE Has(config, l)
        <5>1. /\ q \in Request /\ q.method = "PUT" /\ q.at = Place(config, l) /\ q.route = r
          BY <2>2, <3>2, <4>1, RequestsTyped
        <5> HIDE DEF q
        <5>2. Accepts(config, q) /\ b = ReplaceAt(config, Place(config, l), r)
          BY <3>2, <4>1, <5>1 DEF Accepts, Applied
        <5>3. /\ Sound(b) /\ Unowned(b) = Unowned(config)
              /\ \A k \in Links : Upstream(b, k) = IF k = r.id THEN r.up ELSE Upstream(config, k)
          BY <1>1, <2>2, <3>2, <4>1, <5>2, PutKeeps
        <5>4. QED BY <2>2, <5>1, <5>2, <5>3
      <4>2. CASE ~Has(config, l)
        <5>1. /\ q \in Request /\ q.method = "POST" /\ q.at = FallbackIndex(config) /\ q.route = r
          BY <2>2, <3>2, <4>2, RequestsTyped
        <5> HIDE DEF q
        <5>2. Accepts(config, q) /\ b = InsertAt(config, FallbackIndex(config), r)
          BY <3>2, <5>1 DEF Accepts, Applied
        <5>3. /\ Sound(b) /\ Unowned(b) = Unowned(config)
              /\ \A k \in Links : Upstream(b, k) = IF k = r.id THEN r.up ELSE Upstream(config, k)
          BY <1>1, <2>2, <3>2, <4>2, <5>2, InsertKeeps
        <5>4. QED BY <2>2, <5>1, <5>2, <5>3
      <4>3. QED BY <4>1, <4>2
    <3> HIDE DEF q, b
    <3>4. /\ call'.pc = "send" /\ call'.kind = "add" /\ call'.link = l /\ call'.wanted = call.wanted
          /\ call'.snap = config /\ call'.req = q /\ call'.dead = call.dead /\ call'.faults = call.faults
      <4>1. /\ read \in Call /\ read.kind = "add" /\ read.link = l /\ read.wanted = call.wanted
            /\ read.snap = config /\ read.dead = call.dead /\ read.faults = call.faults
        BY <1>1, <2>1 DEF Call
      <4> HIDE DEF read
      <4>2. QED BY <3>1, <3>3, <4>1 DEF Call
    <3>5. SingleWrite(config', call')
      BY <1>2, <3>3, <3>4 DEF SingleWrite, b
    <3>6. Faulty(call') /\ Reconciling(config', call')
      BY <1>1, <3>4 DEF Faulty, Reconciling
    <3>7. Moves
      BY <1>7, <2>1, <3>4
    <3>8. QED BY <1>2, <1>3, <1>6, <3>5, <3>6, <3>7 DEF StepOK, IInv
  <2>5. QED BY <2>3, <2>4
<1>10. CASE FetchForRemove /\ ~call.dead
  <2>1. call.kind = "remove" /\ call.link \in Links
    BY <1>1, <1>10 DEF FetchForRemove, IInv, Framed
  <2> DEFINE l == call.link
             q == Delete(Place(config, l))
  <2>2. CASE ~Has(config, l)
    <3>1. Return("ok")
      BY <1>10, <2>2 DEF FetchForRemove
    <3>2. Upstream(config, l) = None /\ call.wanted[l] = None
      BY <1>1, <2>1, <2>2 DEF Upstream, Faulty
    <3>3. \A k \in Links : Upstream(config', k) = Target[k]
      BY <1>2, <1>5, <2>1, <3>2
    <3>4. QED BY <1>2, <1>3, <3>1, <3>3, Ended DEF Outcomes
  <2>3. CASE Has(config, l)
    <3>1. call' = [call EXCEPT !.snap = config, !.tries = 0, !.pc = "send", !.req = q]
      BY <1>10, <2>3 DEF FetchForRemove
    <3>2. Place(config, l) \in 1 .. Len(config) /\ config[Place(config, l)].id = l
      BY <1>1, <2>3, Finding
    <3> DEFINE b == Applied(config, q)
    <3>3. /\ Accepts(config, q) /\ Sound(b) /\ Unowned(b) = Unowned(config) /\ q \in Request
          /\ \A k \in Links : Upstream(b, k) = IF k = l THEN None ELSE Upstream(config, k)
      <4>1. q \in Request /\ q.method = "DELETE" /\ q.at = Place(config, l)
        BY <1>1, <3>2, RequestsTyped, RoutesTyped, Constants
      <4> HIDE DEF q
      <4>2. Accepts(config, q) /\ b = RemoveAt(config, Place(config, l))
        BY <3>2, <4>1 DEF Accepts, Applied
      <4>3. /\ Sound(b) /\ Unowned(b) = Unowned(config)
            /\ \A k \in Links : Upstream(b, k) = IF k = l THEN None ELSE Upstream(config, k)
        BY <1>1, <2>1, <3>2, <4>2, RemoveKeeps
      <4>4. QED BY <4>1, <4>2, <4>3
    <3> HIDE DEF q, b
    <3>4. /\ call'.pc = "send" /\ call'.kind = "remove" /\ call'.link = l /\ call'.wanted = call.wanted
          /\ call'.snap = config /\ call'.req = q /\ call'.dead = call.dead /\ call'.faults = call.faults
      BY <1>1, <2>1, <3>1, <3>3 DEF Call
    <3>5. call.wanted[l] = None
      BY <1>1, <2>1 DEF Faulty
    <3>6. SingleWrite(config', call')
      BY <1>2, <3>3, <3>4, <3>5 DEF SingleWrite, b
    <3>7. Faulty(call') /\ Reconciling(config', call')
      BY <1>1, <3>4, <3>5 DEF Faulty, Reconciling
    <3>8. Moves
      BY <1>7, <2>1, <3>4
    <3>9. QED BY <1>2, <1>3, <1>6, <3>6, <3>7, <3>8 DEF StepOK, IInv
  <2>4. QED BY <2>2, <2>3
<1>11. CASE FetchForReconcile /\ ~call.dead
  <2> DEFINE left == {l \in Links : call.wanted[l] # None}
             m == Len(config) + 1
             h == <<config>>
  <2>1. /\ call' = [call EXCEPT !.pc = "plan", !.snap = config, !.all = config, !.tries = 0,
                               !.left = left, !.cursor = m]
        /\ call.kind = "reconcile"
    BY <1>11 DEF FetchForReconcile
  <2>2. left \in SUBSET Links /\ m \in Nat /\ Planned(config, config, config, left, m, call.wanted)
    BY <1>1, LoopBase
  <2> HIDE DEF left, m
  <2>3. /\ call'.pc = "plan" /\ call'.kind = "reconcile" /\ call'.snap = config /\ call'.all = config
        /\ call'.left = left /\ call'.cursor = m /\ call'.wanted = call.wanted /\ call'.link = call.link
        /\ call'.undos = <<>> /\ call'.dead = call.dead /\ call'.faults = call.faults
    BY <1>1, <2>1, <2>2 DEF Call
  <2>4. Follows(h, config', call')
    <3>1. h \in Seq(Seq(Route)) /\ Len(h) = 1 /\ h[1] = config
      BY <1>1
    <3> HIDE DEF h
    <3>2. Halfway(config, call')
      BY <2>3 DEF Halfway
    <3>3. Len(call'.undos) = 0
      BY <2>3
    <3>4. Trail(h, call')
      BY <1>1, <2>3, <3>1, <3>2, <3>3 DEF Trail
    <3>5. Located(h, config', call')
      BY <1>2, <2>3, <3>1, <3>3 DEF Located
    <3>6. PlannedNow(config', call')
      BY <1>2, <2>2, <2>3 DEF PlannedNow
    <3>7. QED BY <2>3, <3>4, <3>5, <3>6 DEF Follows
  <2>5. Faulty(call') /\ SingleWrite(config', call') /\ Reconciling(config', call')
    BY <1>1, <2>3, <2>4 DEF Faulty, SingleWrite, Reconciling
  <2>6. Moves
    BY <1>7, <2>1, <2>3
  <2>7. QED BY <1>2, <1>3, <1>6, <2>5, <2>6 DEF StepOK, IInv
<1>12. QED BY <1>8, <1>9, <1>10, <1>11 DEF Fetch

\* A mutation r of the array a, with its undo u, that fits the call c.
Fits(u, r, a, c) ==
  /\ Accepts(a, r) /\ Undoes(u, a, Applied(a, r))
  /\ Sound(Applied(a, r)) /\ Halfway(Applied(a, r), c)

\* A mutation that Reconcile asks for lengthens the trail.
LEMMA MutateStep ==
  ASSUME IInv, call.pc = "plan", NEW u \in Undo, NEW r \in Request,
         r.method = "POST" => r.at \in 1 .. Len(call.all) + 1, Mutate(u, r),
         Fits(u, r, config, call),
         Planned(Applied(config, r), call.snap,
                 IF r.method = "POST" THEN InsertAt(call.all, r.at, r.route) ELSE call.all,
                 IF r.method = "DELETE" THEN call.left ELSE Without(call.left, r.route.id),
                 IF r.method = "DELETE" THEN r.at ELSE call.cursor,
                 call.wanted)
  PROVE  StepOK
<1> DEFINE b == Applied(config, r)
           n == Len(call.undos)
           m == Len(call'.undos)
<1>1. TInv /\ call \in Call /\ call.kind = "reconcile" /\ call.pc \in Working /\ Sound(config) /\ Faulty(call)
  BY DEF IInv, TInv, Framed, Sound, Working
<1>2. PICK h : Follows(h, config, call)
  BY <1>1 DEF IInv, Reconciling
<1>3. Trail(h, call) /\ config = h[n + 1] /\ Halfway(config, call)
  BY <1>1, <1>2, Here DEF Follows, Located
<1>4. /\ Framed(call') /\ call'.faults = call.faults /\ call'.kind = "reconcile"
      /\ call'.undos = Append(call.undos, u) /\ call'.snap = call.snap
      /\ call'.wanted = call.wanted /\ call'.all = call.all /\ call'.left = call.left
      /\ call'.cursor = call.cursor /\ call'.dead = FALSE
      /\ config' = config
      /\ call.dead => call'.pc = "undo"
      /\ ~call.dead => call'.pc = "send" /\ call'.req = r
  BY <1>1, MutateFramed
<1>5. /\ m \in Nat /\ m > 0
      /\ \E g : Trail(g, call') /\ g[m] = config /\ g[m + 1] = b
  <2>1. /\ Sound(b) /\ Halfway(b, call) /\ Undoes(u, h[Len(call.undos) + 1], b)
        /\ call \in Call /\ Trail(h, call) /\ call'.undos = Append(call.undos, u)
        /\ call'.snap = call.snap /\ call'.wanted = call.wanted
    BY <1>1, <1>3, <1>4 DEF Fits
  <2> HIDE DEF b
  <2>2. Len(call'.undos) \in Nat /\ Len(call'.undos) > 0
    BY <2>1, TrailGrows
  <2>3. \E g : /\ Trail(g, call') /\ g[Len(call'.undos)] = h[Len(call.undos) + 1]
              /\ g[Len(call'.undos) + 1] = b
    BY <2>1, TrailGrows
  <2>4. QED BY <1>3, <2>2, <2>3
<1>5a. PICK g : Trail(g, call') /\ g[m] = config /\ g[m + 1] = b
  BY <1>5
<1> HIDE DEF b, m
<1>6. CASE call.dead
  <2>1. Located(g, config', call') /\ call'.pc = "undo"
    BY <1>4, <1>5, <1>5a, <1>6 DEF Located, m
  <2>2. Follows(g, config', call') /\ Faulty(call') /\ call'.pc \in Working
    BY <1>1, <1>4, <1>5a, <1>6, <2>1 DEF Follows, Faulty, Working
  <2>3. QED BY <1>1, <1>3, <1>4, <2>2, OnTrail
<1>7. CASE ~call.dead
  <2>1. Located(g, config', call') /\ call'.pc = "send"
    BY <1>4, <1>5, <1>5a, <1>7 DEF Located, m, b, Fits
  <2>2. PlannedNext(Applied(config', call'.req), call')
    BY <1>4, <1>7 DEF PlannedNext
  <2>3. Follows(g, config', call') /\ Faulty(call') /\ call'.pc \in Working
    BY <1>1, <1>4, <1>5a, <1>7, <2>1, <2>2 DEF Follows, Faulty, Working
  <2>4. QED BY <1>1, <1>3, <1>4, <2>3, OnTrail
<1>8. QED BY <1>6, <1>7

\* What the loops start from.
LEMMA PlanFacts ==
  ASSUME IInv, call.pc = "plan"
  PROVE  /\ TInv /\ call.kind = "reconcile" /\ Sound(config) /\ Sound(call.snap)
         /\ call.all \in Seq(Route) /\ call.cursor \in Nat /\ call.wanted \in Wanted
         /\ call.left \subseteq Links /\ Halfway(config, call)
         /\ Planned(config, call.snap, call.all, call.left, call.cursor, call.wanted)
         /\ \A l \in Links : Target[l] = call.wanted[l]
<1>1. /\ TInv /\ call \in Call /\ call.kind = "reconcile" /\ call.pc \in Working /\ Sound(config)
  BY DEF IInv, TInv, Framed, Sound, Working
<1>2. PICK h : Follows(h, config, call)
  BY <1>1 DEF IInv, Reconciling
<1>3. Halfway(config, call) /\ Sound(h[1]) /\ h[1] = call.snap
  <2>1. 1 \in 1 .. Len(call.undos) + 1
    BY <1>1, <1>2, Here
  <2>2. QED BY <1>1, <1>2, <2>1, Here DEF Follows, Trail
<1>4. Planned(config, call.snap, call.all, call.left, call.cursor, call.wanted)
  BY <1>2 DEF Follows, PlannedNow
<1>5. QED BY <1>1, <1>3, <1>4 DEF Call, Target

\* The three loops, and their end.
LEMMA RepairStep ==
  ASSUME IInv, Repair
  PROVE  StepOK
<1> DEFINE i == Min(ToRepair)
           l == call.snap[i].id
           o == Owned(l, call.wanted[l])
           u == [kind |-> "put", at |-> i, route |-> call.snap[i]]
           r == Put(i, o)
           b == Applied(config, r)
<1>1. call.pc = "plan" /\ ToRepair # {} /\ Mutate(u, r)
  BY DEF Repair
<1>2. /\ TInv /\ Sound(config) /\ Sound(call.snap)
      /\ call.all \in Seq(Route) /\ call.cursor \in Nat /\ call.wanted \in Wanted
      /\ call.left \subseteq Links /\ Halfway(config, call)
      /\ Planned(config, call.snap, call.all, call.left, call.cursor, call.wanted)
  BY <1>1, PlanFacts
<1>3. /\ l \in call.left /\ l \in Links /\ Stale(l) /\ i \in Nat
      /\ i = Place(call.snap, l) /\ call.snap[i] \in Route
  BY <1>1, <1>2, ToRepairFacts
<1> HIDE DEF i
<1>4. o \in Route /\ o.id = l /\ o.up = call.wanted[l]
  BY <1>2, <1>3, RoutesTyped DEF Wanted
<1>5. /\ i \in 1 .. Len(config) /\ config[i] = call.snap[i] /\ config[i].id = l
      /\ Planned(ReplaceAt(config, i, o), call.snap, call.all, Without(call.left, l), call.cursor, call.wanted)
  <2>1. Has(call.snap, l) /\ Upstream(call.snap, l) # call.wanted[l]
    BY <1>3 DEF Stale
  <2> DEFINE s == call.snap
             al == call.all
             lf == call.left
             cu == call.cursor
             w == call.wanted
  <2>2. /\ Sound(config) /\ Sound(s) /\ al \in Seq(Route) /\ cu \in Nat /\ w \in Wanted
        /\ Planned(config, s, al, lf, cu, w) /\ l \in lf /\ Has(s, l) /\ Upstream(s, l) # w[l]
        /\ i = Place(s, l)
    BY <1>2, <1>3, <2>1
  <2> HIDE DEF l, s, al, lf, cu, w
  <2>3. /\ i \in 1 .. Len(config) /\ config[i] = s[i] /\ config[i].id = l
        /\ Planned(ReplaceAt(config, i, Owned(l, w[l])), s, al, Without(lf, l), cu, w)
    BY <2>2, LoopRepair
  <2>4. QED BY <2>3 DEF s, al, lf, cu, w
<1> HIDE DEF l, o
<1>6. /\ r \in Request /\ r.method = "PUT" /\ r.at = i /\ r.route = o
  BY <1>3, <1>4, RequestsTyped
<1>6a. u \in Undo
  BY <1>3, UndosTyped
<1>7. b = ReplaceAt(config, i, o) /\ Accepts(config, r)
  BY <1>5, <1>6 DEF Applied, Accepts
<1>8. /\ Sound(b)
      /\ \A k \in Links : Upstream(b, k) = IF k = l THEN call.wanted[l] ELSE Upstream(config, k)
  BY <1>2, <1>3, <1>4, <1>5, <1>7, PutKeeps
<1>9. Halfway(b, call)
  BY <1>2, <1>8 DEF Halfway
<1>10. Undoes(u, config, b)
  <2>1. u.kind = "put" /\ u.at = i /\ u.route = call.snap[i] /\ u.route.id = l
    BY <1>5
  <2> HIDE DEF u
  <2>2. QED BY <1>3, <1>4, <1>5, <1>7, <2>1 DEF Undoes
<1> HIDE DEF u, r
<1>11. Planned(b, call.snap, call.all, Without(call.left, r.route.id), call.cursor, call.wanted)
  BY <1>4, <1>5, <1>6, <1>7
<1> HIDE DEF b
<1>12. Fits(u, r, config, call)
  BY <1>7, <1>8, <1>9, <1>10 DEF b, Fits
<1>13. Planned(Applied(config, r), call.snap,
                 IF r.method = "POST" THEN InsertAt(call.all, r.at, r.route) ELSE call.all,
                 IF r.method = "DELETE" THEN call.left ELSE Without(call.left, r.route.id),
                 IF r.method = "DELETE" THEN r.at ELSE call.cursor,
                 call.wanted)
  BY <1>6, <1>11 DEF b
<1>14. Mutate(u, r)
  BY <1>1 DEF u, r, o, l, i
<1>15. QED BY <1>1, <1>6, <1>6a, <1>12, <1>13, <1>14, MutateStep

LEMMA InsertStep ==
  ASSUME IInv, NEW l \in Links, Insert(l)
  PROVE  StepOK
<1> DEFINE i == FallbackIndex(call.all)
           o == Owned(l, call.wanted[l])
           u == [kind |-> "unadd", at |-> i, route |-> o]
           r == Post(i, o)
           b == Applied(config, r)
<1>1. call.pc = "plan" /\ l \in call.left /\ ~Has(call.snap, l) /\ Mutate(u, r)
  BY DEF Insert, ToInsert
<1>2. /\ TInv /\ Sound(config) /\ Sound(call.snap)
      /\ call.all \in Seq(Route) /\ call.cursor \in Nat /\ call.wanted \in Wanted
      /\ call.left \subseteq Links /\ Halfway(config, call)
      /\ Planned(config, call.snap, call.all, call.left, call.cursor, call.wanted)
  BY <1>1, PlanFacts
<1>3. o \in Route /\ o.id = l /\ o.up = call.wanted[l] /\ o.id # Fallback
  BY <1>2, RoutesTyped, Constants DEF Wanted
<1>4. /\ i = FallbackIndex(config) /\ i \in 1 .. Len(config) + 1 /\ ~Has(config, l)
      /\ Planned(InsertAt(config, i, o), call.snap, InsertAt(call.all, i, o), Without(call.left, l),
                 call.cursor, call.wanted)
  <2> DEFINE s == call.snap
             al == call.all
             lf == call.left
             cu == call.cursor
             w == call.wanted
  <2>1. /\ Sound(config) /\ Sound(s) /\ al \in Seq(Route) /\ cu \in Nat /\ w \in Wanted
        /\ Planned(config, s, al, lf, cu, w) /\ l \in lf /\ ~Has(s, l)
    BY <1>1, <1>2
  <2> HIDE DEF s, al, lf, cu, w
  <2>2. /\ FallbackIndex(al) = FallbackIndex(config) /\ FallbackIndex(al) \in 1 .. Len(config) + 1
        /\ ~Has(config, l)
        /\ Planned(InsertAt(config, FallbackIndex(al), Owned(l, w[l])), s,
                   InsertAt(al, FallbackIndex(al), Owned(l, w[l])), Without(lf, l), cu, w)
    BY <2>1, LoopInsert
  <2>3. QED BY <2>2 DEF s, al, lf, cu, w
<1>5. i \in 1 .. Len(call.all) + 1
  BY <1>2, Finding DEF FallbackIndex
<1>6. i \in Nat
  BY <1>2, <1>5
<1> HIDE DEF i, o
<1>7. /\ r \in Request /\ r.method = "POST" /\ r.at = i /\ r.route = o
  BY <1>3, <1>6, RequestsTyped
<1>7a. u \in Undo
  BY <1>3, <1>6, UndosTyped
<1>8. u.kind = "unadd" /\ u.at = i /\ u.route = o
  OBVIOUS
<1>9. Mutate(u, r)
  BY <1>1 DEF i, o
<1> HIDE DEF u, r
<1>10. b = InsertAt(config, i, o) /\ Accepts(config, r)
  BY <1>4, <1>7 DEF Applied, Accepts
<1>11. /\ Sound(b)
       /\ \A k \in Links : Upstream(b, k) = IF k = l THEN call.wanted[l] ELSE Upstream(config, k)
  <2>1. i <= FallbackIndex(config)
    BY <1>4, <1>6
  <2>2. QED BY <1>2, <1>3, <1>4, <1>10, <2>1, InsertKeeps
<1>12. Halfway(b, call)
  BY <1>2, <1>11 DEF Halfway
<1>13. Undoes(u, config, b)
  <2>1. i \in 1 .. FallbackIndex(config)
    BY <1>4, <1>6
  <2>2. QED BY <1>3, <1>4, <1>8, <1>10, <2>1 DEF Undoes
<1>14. Planned(b, call.snap, InsertAt(call.all, r.at, r.route), Without(call.left, r.route.id),
               call.cursor, call.wanted)
  BY <1>3, <1>4, <1>7, <1>10
<1>15. Planned(Applied(config, r), call.snap,
                 IF r.method = "POST" THEN InsertAt(call.all, r.at, r.route) ELSE call.all,
                 IF r.method = "DELETE" THEN call.left ELSE Without(call.left, r.route.id),
                 IF r.method = "DELETE" THEN r.at ELSE call.cursor,
                 call.wanted)
  BY <1>7, <1>14
<1>16. Fits(u, r, config, call)
  BY <1>10, <1>11, <1>12, <1>13 DEF Fits
<1>17. QED BY <1>1, <1>5, <1>7, <1>7a, <1>9, <1>15, <1>16, MutateStep

\* Once the first two loops are through, each link left is there as wanted.
LEMMA LoopsSettled ==
  ASSUME IInv, call.pc = "plan", ToRepair = {}, ToInsert = {}
  PROVE  Settled(call.snap, call.left, call.wanted)
<1> SUFFICES ASSUME NEW l \in call.left
             PROVE  Has(call.snap, l) /\ Upstream(call.snap, l) = call.wanted[l]
  BY DEF Settled
<1>1. Has(call.snap, l)
  BY DEF ToInsert
<1>2. ~Stale(l)
  BY DEF ToRepair
<1>3. QED BY <1>1, <1>2 DEF Stale

LEMMA PruneStep ==
  ASSUME IInv, Prune
  PROVE  StepOK
<1> DEFINE i == Max(ToPrune)
           s == call.snap
           u == [kind |-> "readd", at |-> i, route |-> s[i]]
           r == Delete(i)
           b == Applied(config, r)
<1>1. call.pc = "plan" /\ ToRepair = {} /\ ToInsert = {} /\ ToPrune # {} /\ Mutate(u, r)
  BY DEF Prune
<1>2. /\ TInv /\ Sound(config) /\ Sound(s)
      /\ call.all \in Seq(Route) /\ call.cursor \in Nat /\ call.wanted \in Wanted
      /\ call.left \subseteq Links /\ Halfway(config, call)
      /\ Planned(config, s, call.all, call.left, call.cursor, call.wanted)
  BY <1>1, PlanFacts
<1>3. /\ i \in ToPrune /\ i \in 1 .. Len(s) /\ s[i] \in Route /\ \A j \in ToPrune : j <= i
  BY <1>1, <1>2, ToPruneFacts
<1> HIDE DEF i
<1>4. i < call.cursor /\ call.all[i].id \in Links /\ call.wanted[call.all[i].id] = None
  BY <1>3 DEF ToPrune, Orphan
<1>5. \A j \in 1 .. Len(s) : j < call.cursor /\ call.all[j].id \in Links /\ call.wanted[call.all[j].id] = None
         => j <= i
  <2>1. DOMAIN s = 1 .. Len(s)
    BY <1>2 DEF Sound
  <2>2. QED BY <1>3, <2>1 DEF ToPrune, Orphan
<1>6. Settled(s, call.left, call.wanted)
  BY <1>1, LoopsSettled
<1>7. /\ i \in 1 .. Len(config) /\ config[i] = s[i] /\ s[i].id \in Links /\ call.wanted[s[i].id] = None
      /\ Planned(RemoveAt(config, i), s, call.all, call.left, i, call.wanted)
  <2> HIDE DEF s
  <2>1. QED BY <1>2, <1>3, <1>4, <1>5, <1>6, LoopPrune
<1>8. i \in Nat
  BY <1>3
<1>9. r \in Request /\ r.method = "DELETE" /\ r.at = i /\ u \in Undo
  BY <1>3, <1>8, RequestsTyped, RoutesTyped, Constants, UndosTyped
<1>10. u.kind = "readd" /\ u.at = i /\ u.route = s[i]
  OBVIOUS
<1>11. Mutate(u, r)
  BY <1>1 DEF i
<1> HIDE DEF u, r
<1>12. b = RemoveAt(config, i) /\ Accepts(config, r)
  BY <1>7, <1>9 DEF Applied, Accepts
<1>13. /\ Sound(b)
       /\ \A k \in Links : Upstream(b, k) = IF k = s[i].id THEN None ELSE Upstream(config, k)
  BY <1>2, <1>7, <1>12, RemoveKeeps
<1>14. Halfway(b, call)
  BY <1>2, <1>7, <1>13 DEF Halfway
<1>15. Undoes(u, config, b)
  BY <1>7, <1>10, <1>12 DEF Undoes
<1>16. Planned(Applied(config, r), s,
                 IF r.method = "POST" THEN InsertAt(call.all, r.at, r.route) ELSE call.all,
                 IF r.method = "DELETE" THEN call.left ELSE Without(call.left, r.route.id),
                 IF r.method = "DELETE" THEN r.at ELSE call.cursor,
                 call.wanted)
  BY <1>7, <1>9, <1>12
<1>17. Fits(u, r, config, call)
  BY <1>12, <1>13, <1>14, <1>15 DEF Fits
<1>18. QED BY <1>1, <1>9, <1>11, <1>16, <1>17, MutateStep

LEMMA FinishStep ==
  ASSUME IInv, Finish
  PROVE  StepOK
<1>1. /\ call.pc = "plan" /\ ToRepair = {} /\ ToInsert = {} /\ ToPrune = {}
      /\ Return("ok") /\ config' = config
  BY DEF Finish
<1> DEFINE s == call.snap
<1>2. /\ TInv /\ Sound(config) /\ Sound(s)
      /\ call.all \in Seq(Route) /\ call.cursor \in Nat /\ call.wanted \in Wanted
      /\ Planned(config, s, call.all, call.left, call.cursor, call.wanted)
      /\ \A l \in Links : Target[l] = call.wanted[l]
  BY <1>1, PlanFacts
<1>3. Settled(s, call.left, call.wanted)
  BY <1>1, LoopsSettled
<1>4. \A j \in 1 .. Len(s) : j < call.cursor => ~(call.all[j].id \in Links /\ call.wanted[call.all[j].id] = None)
  <2>1. DOMAIN s = 1 .. Len(s)
    BY <1>2 DEF Sound
  <2>2. QED BY <1>1, <2>1 DEF ToPrune, Orphan
<1> HIDE DEF s
<1>5. \A l \in Links : Upstream(config, l) = call.wanted[l]
  BY <1>2, <1>3, <1>4, LoopDone
<1>6. Near /\ Unowned(config') = Unowned(config) /\ Sound(config')
  BY <1>1, <1>2, Unwritten
<1>7. \A l \in Links : Upstream(config', l) = Target[l]
  BY <1>1, <1>2, <1>5
<1>8. QED BY <1>1, <1>6, <1>7, Ended DEF Outcomes

-----------------------------------------------------------------------------
\* Requests that change the array.

\* A rollback has used up the call's fault, and there is no second attempt.
LEMMA Spent ==
  ASSUME OneFailure, IInv
  PROVE  ~Retry /\ (call.faults > 0 => ~Charge)
<1>1. call.tries \in 0 .. Attempts - 1 /\ call.faults \in 0 .. MaxFaults /\ MaxFaults \in Nat
  BY Constants DEF IInv, Framed, Call
<1>2. QED BY <1>1 DEF OneFailure, Retry, MayRetry, Charge

\* The request of AddRoute or RemoveRoute reaches the server or fails.
LEMMA SendSingle ==
  ASSUME OneFailure, IInv, Send, call.kind # "reconcile"
  PROVE  StepOK
<1> DEFINE b == Applied(config, call.req)
<1>1. call.pc = "send" /\ call.kind \in {"add", "remove"} /\ call \in Call /\ Sound(config)
  BY DEF Send, IInv, Framed, Call, Calls
<1>2. /\ config = call.snap /\ Accepts(config, call.req) /\ Sound(b) /\ Unowned(b) = Unowned(config)
      /\ \A l \in Links : Upstream(b, l) = IF l = call.link THEN call.wanted[l] ELSE Upstream(config, l)
  BY <1>1 DEF IInv, SingleWrite
<1>3. \A l \in Links : /\ OldTable[l] = Upstream(config, l)
                       /\ Target[l] = Upstream(b, l)
  BY <1>1, <1>2 DEF OldTable, Target
<1>4. config' \in {config, b}
  BY <1>2 DEF Send, Applications
<1> HIDE DEF b
<1>5. Sound(config') /\ Unowned(config') = Unowned(config)
  BY <1>1, <1>2, <1>4
<1>6. Near
  BY <1>3, <1>4 DEF Near
<1>7. ~Retry
  BY Spent
<1>8. CASE Done /\ config' = b
  <2>1. Return("ok")
    BY <1>1, <1>8 DEF Done, Return, Dropped
  <2>2. QED BY <1>3, <1>5, <1>6, <1>8, <2>1, Ended DEF Outcomes
<1>9. ASSUME NEW n \in {0, 1}, Failed(n)
      PROVE  StepOK
  <2>1. Return("error")
    BY <1>1, <1>9 DEF Failed, Return, Dropped, Rollback
  <2>2. QED BY <1>5, <1>6, <2>1, Ended DEF Outcomes
<1>10. QED BY <1>7, <1>8, <1>9 DEF Send, b

\* A mutation of Reconcile reaches the server, fails, or fails after it did.
LEMMA SendMutation ==
  ASSUME OneFailure, IInv, Send, call.kind = "reconcile", call.pc = "send"
  PROVE  StepOK
<1> DEFINE b == Applied(config, call.req)
           n == Len(call.undos)
<1>1. TInv /\ call \in Call /\ call.pc \in Working /\ Sound(config) /\ Faulty(call)
  BY DEF IInv, TInv, Framed, Sound, Working
<1>2. PICK h : Follows(h, config, call)
  BY <1>1 DEF IInv, Reconciling
<1>3. /\ Trail(h, call) /\ n > 0 /\ n \in Nat /\ config = h[n] /\ Accepts(config, call.req) /\ b = h[n + 1]
  BY <1>1, <1>2, Here DEF Follows, Located
<1>4. /\ Sound(b) /\ Halfway(b, call) /\ Halfway(config, call) /\ Unowned(b) = Unowned(config)
  <2>1. n + 1 \in 1 .. n + 1
    BY <1>3
  <2>2. /\ Sound(h[n + 1]) /\ Halfway(h[n + 1], call) /\ Halfway(config, call)
        /\ Unowned(h[n + 1]) = Unowned(h[n])
    BY <1>1, <1>2, <1>3, <2>1, Here
  <2>3. QED BY <1>3, <2>2
<1>5. config' \in {config, b}
  BY <1>3 DEF Send, Applications
<1>6. PlannedNext(b, call)
  BY <1>2 DEF Follows
<1> HIDE DEF b
<1>7. Sound(config') /\ Halfway(config', call) /\ Unowned(config') = Unowned(config)
  BY <1>1, <1>4, <1>5
<1>8. ~Retry
  BY Spent
<1>9. CASE Done /\ config' = b
  <2> DEFINE d == Recorded(call.req)
  <2>1. call' = d
    BY <1>9 DEF Done, Return, Dropped
  <2>2. /\ Framed(d) /\ d.pc = "plan" /\ d.kind = "reconcile" /\ d.undos = call.undos
        /\ d.snap = call.snap /\ d.wanted = call.wanted /\ d.dead = call.dead
        /\ d.faults = call.faults
        /\ d.left = IF call.req.method = "DELETE" THEN call.left
                    ELSE Without(call.left, call.req.route.id)
        /\ d.all = IF call.req.method = "POST" THEN InsertAt(call.all, call.req.at, call.req.route)
                   ELSE call.all
        /\ d.cursor = IF call.req.method = "DELETE" THEN call.req.at ELSE call.cursor
    BY <1>1, RecordedFramed DEF Without
  <2> HIDE DEF d
  <2>3. PlannedNow(b, d)
    BY <1>6, <2>2 DEF PlannedNow, PlannedNext
  <2>4. Trail(h, d)
    BY <1>3, <2>2, TrailStays
  <2>5. Located(h, b, d)
    BY <1>3, <2>2 DEF Located
  <2>6. Follows(h, config', call')
    BY <1>9, <2>1, <2>2, <2>3, <2>4, <2>5 DEF Follows
  <2>7. Faulty(call') /\ call'.pc \in Working
    BY <1>1, <2>1, <2>2 DEF Faulty, Working
  <2>8. QED BY <1>1, <1>7, <2>1, <2>2, <2>6, <2>7, OnTrail
<1>10. ASSUME NEW k \in {0, 1}, k = 1 => Charge, k = 0 => call.dead, Failed(k)
       PROVE  StepOK
  <2>1. Rollback(k)
    BY <1>10 DEF Failed, Return, Dropped, Rollback
  <2>2. /\ Framed(call') /\ call'.pc = "undo" /\ call'.dead = FALSE
        /\ call'.faults = call.faults + k
        /\ call'.kind = call.kind /\ call'.undos = call.undos /\ call'.snap = call.snap
        /\ call'.wanted = call.wanted
    BY <1>1, <1>10, <2>1, RollbackFramed
  <2>3. Faulty(call') /\ call'.pc \in Working
    <3>1. call.faults \in Nat /\ (k = 0 => call.faults > 0)
      BY <1>1, <1>10, Constants DEF Call, Faulty
    <3>2. call'.faults > 0
      BY <2>2, <3>1
    <3>3. QED BY <2>2, <3>2 DEF Faulty, Working
  <2>4. Trail(h, call')
    BY <1>3, <2>2, TrailStays
  <2>5. Located(h, config', call')
    BY <1>3, <1>5, <2>2 DEF Located
  <2>6. Follows(h, config', call')
    BY <2>2, <2>4, <2>5 DEF Follows
  <2>7. QED BY <1>1, <1>7, <2>2, <2>3, <2>6, OnTrail
<1>11. QED BY <1>3, <1>8, <1>9, <1>10 DEF Send, b

\* An undo is done with: the trail ends one place earlier.
LEMMA DropStep ==
  ASSUME IInv, call.kind = "reconcile", call.pc \in {"undo", "unsend"}, call.undos # <<>>,
         Dropped(0), NEW h, Follows(h, config, call), config' = h[Len(call.undos)]
  PROVE  StepOK
<1> DEFINE n == Len(call.undos)
<1>1. /\ TInv /\ call \in Call /\ call.pc \in Working /\ Sound(config) /\ Faulty(call)
      /\ Trail(h, call)
  BY DEF IInv, TInv, Framed, Sound, Working, Follows
<1>2. call.undos \in Seq(Undo) /\ n \in Nat /\ n > 0
  <2>1. call.undos \in Seq(Undo)
    BY <1>1 DEF Call
  <2>2. QED BY <2>1, EmptySeq
<1>3. /\ config = h[n + 1] \/ config = h[n]
      /\ Sound(h[n]) /\ Halfway(h[n], call) /\ Unowned(h[n + 1]) = Unowned(h[n])
  <2>1. n \in 1 .. n + 1
    BY <1>2
  <2>2. /\ config = h[n + 1] \/ (n > 0 /\ config = h[n])
        /\ Sound(h[n]) /\ Halfway(h[n], call)
        /\ n > 0 => Unowned(h[n + 1]) = Unowned(h[n])
    BY <1>1, <2>1, Here
  <2>3. QED BY <1>2, <2>2
<1>4. /\ Framed(call') /\ call'.pc = "undo" /\ call'.dead = call.dead
      /\ call'.faults = call.faults + 0
      /\ call'.kind = call.kind /\ call'.undos = Front(call.undos) /\ call'.snap = call.snap
      /\ call'.wanted = call.wanted
  BY <1>1, DroppedFramed
<1>5. Faulty(call') /\ call'.pc \in Working
  <2>1. call.faults \in Nat
    BY <1>1, Constants DEF Call
  <2>2. QED BY <1>1, <1>4, <2>1 DEF Faulty, Working
<1>6. PICK g : Trail(g, call') /\ g[Len(call'.undos) + 1] = h[n]
  BY <1>1, <1>4, TrailShrinks
<1>7. Follows(g, config', call')
  BY <1>4, <1>6 DEF Follows, Located
<1>8. Sound(config') /\ Halfway(config', call) /\ Unowned(config') = Unowned(config)
  BY <1>3
<1>9. QED BY <1>1, <1>4, <1>5, <1>7, <1>8, OnTrail

\* An undo reaches the server.
LEMMA SendUndo ==
  ASSUME OneFailure, IInv, Send, call.pc = "unsend"
  PROVE  StepOK
<1>1. /\ call.kind = "reconcile" /\ call.undos # <<>> /\ call.pc \in Working
      /\ call.dead = FALSE /\ call.faults > 0
  BY DEF IInv, Framed, Faulty, Working
<1>2. PICK h : Follows(h, config, call)
  BY <1>1 DEF IInv, Reconciling
<1>3. Accepts(config, call.req) /\ Applied(config, call.req) = h[Len(call.undos)]
  BY <1>2 DEF Follows, Located
<1>4. ~Charge
  BY <1>1, Spent
<1>5. config' = Applied(config, call.req) /\ Done
  BY <1>1, <1>3, <1>4 DEF Send
<1>6. Dropped(0)
  BY <1>5 DEF Done, Return, Dropped
<1>7. QED BY <1>1, <1>2, <1>3, <1>5, <1>6, DropStep

\* So with every request.
LEMMA SendStep ==
  ASSUME OneFailure, IInv, Send
  PROVE  StepOK
<1>1. call.pc \in {"send", "unsend"} /\ (call.pc = "unsend" => call.kind = "reconcile")
  BY DEF Send, IInv, Framed
<1>2. QED BY <1>1, SendSingle, SendMutation, SendUndo

-----------------------------------------------------------------------------
\* Rollback.

\* The undo of a step from a to b, asked of an array that is one of the two.
LEMMA Restoring ==
  ASSUME NEW u \in Undo, NEW a, NEW b, Sound(a), Sound(b), Undoes(u, a, b), NEW c \in {a, b}
  PROVE  /\ u.kind = "put" =>
              Accepts(c, Put(u.at, u.route)) /\ Applied(c, Put(u.at, u.route)) = a
         /\ u.kind = "unadd" =>
              IF Has(c, u.route.id)
                THEN /\ Accepts(c, Delete(Place(c, u.route.id)))
                     /\ Applied(c, Delete(Place(c, u.route.id))) = a
                ELSE c = a
         /\ u.kind = "readd" =>
              IF u.route \in ToSet(c) THEN c = a
              ELSE Accepts(c, Post(u.at, u.route)) /\ Applied(c, Post(u.at, u.route)) = a
<1>1. /\ a \in Seq(Route) /\ b \in Seq(Route) /\ Distinct(a) /\ Distinct(b)
      /\ u.at \in Nat /\ u.route \in Route /\ u.route.id \in Links
      /\ Len(a) \in Nat /\ Len(b) \in Nat
  BY DEF Sound, Undo, Undoes
<1>2. ASSUME u.kind = "put"
      PROVE  Accepts(c, Put(u.at, u.route)) /\ Applied(c, Put(u.at, u.route)) = a
  <2>1. u.at \in 1 .. Len(a) /\ a[u.at] = u.route
    BY <1>2 DEF Undoes
  <2>2. PICK q \in Route : b = ReplaceAt(a, u.at, q)
    BY <1>2 DEF Undoes
  <2>3. Len(b) = Len(a) /\ ReplaceAt(b, u.at, u.route) = a /\ ReplaceAt(a, u.at, u.route) = a
    <3>1. ReplaceAt(ReplaceAt(a, u.at, q), u.at, a[u.at]) = a /\ ReplaceAt(a, u.at, a[u.at]) = a
      BY <1>1, <2>1, <2>2, ReplacedBack
    <3>2. Len(ReplaceAt(a, u.at, q)) = Len(a)
      BY <1>1, <2>1, <2>2, Replacing DEF Replaced
    <3>3. QED BY <2>1, <2>2, <3>1, <3>2
  <2>4. Put(u.at, u.route).method = "PUT" /\ Put(u.at, u.route).at = u.at /\ Put(u.at, u.route).route = u.route
    BY DEF Put
  <2>5. u.at \in 1 .. Len(c) /\ ReplaceAt(c, u.at, u.route) = a
    BY <2>1, <2>3
  <2>6. QED BY <2>4, <2>5 DEF Accepts, Applied
<1>3. ASSUME u.kind = "unadd"
      PROVE  IF Has(c, u.route.id)
                THEN /\ Accepts(c, Delete(Place(c, u.route.id)))
                     /\ Applied(c, Delete(Place(c, u.route.id))) = a
                ELSE c = a
  <2>1. u.at \in 1 .. FallbackIndex(a) /\ ~Has(a, u.route.id) /\ b = InsertAt(a, u.at, u.route)
    BY <1>3 DEF Undoes
  <2>2. u.at \in 1 .. Len(a) + 1
    BY <1>1, <2>1, FallbackPlace
  <2>3. Len(b) = Len(a) + 1 /\ b[u.at] = u.route
    BY <1>1, <2>1, <2>2, Inserting DEF Inserted
  <2>4. u.at \in 1 .. Len(b)
    BY <1>1, <2>2, <2>3
  <2>5. Has(b, u.route.id) /\ Place(b, u.route.id) = u.at
    BY <1>1, <2>3, <2>4, Found
  <2>6. RemoveAt(b, u.at) = a
    BY <1>1, <2>1, <2>2, InsertedRemoved
  <2>7. Delete(u.at).method = "DELETE" /\ Delete(u.at).at = u.at
    BY DEF Delete
  <2>8. Accepts(b, Delete(u.at)) /\ Applied(b, Delete(u.at)) = a
    BY <2>4, <2>6, <2>7 DEF Accepts, Applied
  <2>9. QED BY <2>1, <2>5, <2>8
<1>4. ASSUME u.kind = "readd"
      PROVE  IF u.route \in ToSet(c) THEN c = a
             ELSE Accepts(c, Post(u.at, u.route)) /\ Applied(c, Post(u.at, u.route)) = a
  <2>1. u.at \in 1 .. Len(a) /\ a[u.at] = u.route /\ b = RemoveAt(a, u.at)
    BY <1>4 DEF Undoes
  <2>2. u.route \in ToSet(a)
    BY <1>1, <2>1 DEF ToSet
  <2>3. ~Has(b, u.route.id)
    BY <1>1, <2>1, RemoveKeeps
  <2>4. u.route \notin ToSet(b)
    BY <1>1, <2>3, Absent DEF ToSet
  <2>5. Len(b) = Len(a) - 1 /\ InsertAt(b, u.at, u.route) = a
    BY <1>1, <2>1, Removing, RemovedInserted DEF Removed
  <2>6. Post(u.at, u.route).method = "POST" /\ Post(u.at, u.route).at = u.at /\ Post(u.at, u.route).route = u.route
    BY DEF Post
  <2>7. Accepts(b, Post(u.at, u.route)) /\ Applied(b, Post(u.at, u.route)) = a
    BY <1>1, <2>1, <2>5, <2>6 DEF Accepts, Applied
  <2>8. QED BY <2>2, <2>4, <2>7
<1>5. QED BY <1>2, <1>3, <1>4

\* The undo is asked of the server.
LEMMA AskStep ==
  ASSUME IInv, call.pc = "undo", call.undos # <<>>, NEW h, Follows(h, config, call),
         NEW r \in Request, Ask(r), config' = config,
         Accepts(config, r), Applied(config, r) = h[Len(call.undos)]
  PROVE  StepOK
<1> DEFINE n == Len(call.undos)
<1>1. /\ TInv /\ call \in Call /\ call.kind = "reconcile" /\ call.pc \in Working
      /\ Sound(config) /\ Faulty(call) /\ Trail(h, call)
  BY DEF IInv, TInv, Framed, Sound, Working, Follows
<1>2. n \in Nat /\ n > 0 /\ (config = h[n + 1] \/ config = h[n]) /\ Halfway(config, call)
  <2>1. call.undos \in Seq(Undo)
    BY <1>1 DEF Call
  <2>2. QED BY <1>1, <2>1, EmptySeq, Here
<1>3. /\ Framed(call') /\ call'.pc = "unsend" /\ call'.dead = call.dead
      /\ call'.faults = call.faults /\ call'.req = r
      /\ call'.kind = call.kind /\ call'.undos = call.undos /\ call'.snap = call.snap
      /\ call'.wanted = call.wanted
  BY <1>1, AskFramed
<1>4. Faulty(call') /\ call'.pc \in Working
  BY <1>1, <1>3 DEF Faulty, Working
<1>5. Trail(h, call')
  BY <1>1, <1>3, TrailStays
<1>6. Located(h, config', call')
  BY <1>2, <1>3 DEF Located
<1>7. Follows(h, config', call')
  BY <1>3, <1>5, <1>6 DEF Follows
<1>8. QED BY <1>1, <1>2, <1>3, <1>4, <1>7, OnTrail

\* The last undo is asked for, or is dropped where there is nothing to do.
LEMMA UndoStep ==
  ASSUME OneFailure, IInv, UndoRepair \/ UndoOther
  PROVE  StepOK
<1> DEFINE n == Len(call.undos)
           u == Pending
<1>1. /\ call.pc = "undo" /\ call.undos # <<>> /\ config' = config /\ TInv /\ call \in Call
      /\ call.kind = "reconcile" /\ call.pc \in Working /\ call.dead = FALSE /\ call.faults > 0
  BY DEF UndoRepair, UndoOther, ReadFails, IInv, TInv, Framed, Faulty, Working, Sound
<1>2. ~ReadFails
  BY <1>1, Spent DEF ReadFails
<1>3. PICK h : Follows(h, config, call)
  BY <1>1 DEF IInv, Reconciling
<1>4. n \in Nat /\ n > 0
  <2>1. call.undos \in Seq(Undo)
    BY <1>1 DEF Call
  <2>2. QED BY <1>1, <2>1, EmptySeq
<1>5. /\ u \in Undo /\ Undoes(u, h[n], h[n + 1]) /\ Sound(h[n]) /\ Sound(h[n + 1])
      /\ config \in {h[n], h[n + 1]}
  <2>1. n \in 1 .. n + 1 /\ n + 1 \in 1 .. n + 1
    BY <1>4
  <2>2. u = call.undos[n]
    BY DEF Pending, Last
  <2>3. QED BY <1>1, <1>3, <1>4, <2>1, <2>2, Here
<1>6. u.at \in Nat /\ u.route \in Route /\ u.kind \in {"put", "unadd", "readd"}
  BY <1>5 DEF Undo
<1> HIDE DEF u
<1>7. CASE u.kind = "put"
  <2>1. Ask(Put(u.at, u.route))
    BY <1>1, <1>7 DEF UndoRepair, UndoOther, u
  <2>2. Accepts(config, Put(u.at, u.route)) /\ Applied(config, Put(u.at, u.route)) = h[n]
    BY <1>5, <1>7, Restoring
  <2>3. Put(u.at, u.route) \in Request
    BY <1>6, RequestsTyped
  <2>4. QED BY <1>1, <1>3, <2>1, <2>2, <2>3, AskStep
<1>8. CASE u.kind = "unadd"
  <2> DEFINE r == Delete(Place(config, u.route.id))
  <2>1. IF Has(config, u.route.id) THEN Ask(r) ELSE Dropped(0)
    BY <1>1, <1>2, <1>8 DEF UndoRepair, UndoOther, Undone, u, Ask, Dropped
  <2>2. IF Has(config, u.route.id) THEN Accepts(config, r) /\ Applied(config, r) = h[n]
        ELSE config = h[n]
    BY <1>5, <1>8, Restoring
  <2>3. CASE Has(config, u.route.id)
    <3>1. Place(config, u.route.id) \in Nat
      <4>1. config \in Seq(Route)
        BY <1>1 DEF TInv
      <4>2. QED BY <2>3, <4>1, Finding
    <3>2. r \in Request
      BY <1>6, <3>1, RequestsTyped
    <3> HIDE DEF r
    <3>3. QED BY <1>1, <1>3, <2>1, <2>2, <2>3, <3>2, AskStep
  <2>4. CASE ~Has(config, u.route.id)
    BY <1>1, <1>3, <2>1, <2>2, <2>4, DropStep
  <2>5. QED BY <2>3, <2>4
<1>9. CASE u.kind = "readd"
  <2> DEFINE r == Post(u.at, u.route)
  <2>1. IF u.route \in ToSet(config) THEN Dropped(0) ELSE Ask(r)
    BY <1>1, <1>2, <1>9 DEF UndoRepair, UndoOther, Undone, u, Ask, Dropped
  <2>2. IF u.route \in ToSet(config) THEN config = h[n]
        ELSE Accepts(config, r) /\ Applied(config, r) = h[n]
    BY <1>5, <1>9, Restoring
  <2>3. r \in Request
    BY <1>6, RequestsTyped
  <2> HIDE DEF r
  <2>4. QED BY <1>1, <1>3, <2>1, <2>2, <2>3, AskStep, DropStep
<1>10. QED BY <1>6, <1>7, <1>8, <1>9

\* With no undo left the server is where Reconcile found it.
LEMMA VerifyFacts ==
  ASSUME OneFailure, IInv, Verify
  PROVE  /\ config = call.snap /\ config' = config /\ Return("error") /\ Sound(config)
<1>1. /\ call.pc = "undo" /\ call.undos = <<>> /\ config' = config /\ Sound(config)
      /\ call.kind = "reconcile" /\ call.pc \in Working /\ call.dead = FALSE /\ call.faults > 0
  BY DEF Verify, ReadFails, IInv, Framed, Faulty, Working
<1>2. ~ReadFails
  BY <1>1, Spent DEF ReadFails
<1>3. PICK h : Follows(h, config, call)
  BY <1>1 DEF IInv, Reconciling
<1>4. config = h[1] /\ h[1] = call.snap
  <2>1. Len(call.undos) = 0
    BY <1>1
  <2>2. QED BY <1>1, <1>3, <2>1 DEF Follows, Trail, Located
<1>5. Return("error")
  BY <1>1, <1>2, <1>4 DEF Verify, Return
<1>6. QED BY <1>1, <1>4, <1>5

\* So the comparison after the rollback ends the call with an error.
LEMMA VerifyStep ==
  ASSUME OneFailure, IInv, Verify
  PROVE  StepOK
<1>1. config' = config /\ Return("error") /\ Sound(config')
  BY VerifyFacts
<1>2. QED BY <1>1, Unwritten, Ended DEF Outcomes

\* The end of a context is no step of the trail.
LEMMA CancelStep ==
  ASSUME OneFailure, IInv, Cancel
  PROVE  StepOK
<1>1. /\ TInv /\ Sound(config) /\ Faulty(call) /\ call \in Call /\ Framed(call)
      /\ SingleWrite(config, call) /\ Reconciling(config, call)
      /\ call.pc # "idle" /\ call.faults \in Nat
  BY Constants DEF IInv, TInv, Framed, Sound, Call, Cancel, Busy
<1>2. /\ Framed(call') /\ config' = config /\ call'.dead = TRUE /\ call'.faults = call.faults + 1
      /\ call'.kind = call.kind /\ call'.pc = call.pc /\ call'.link = call.link
      /\ call'.wanted = call.wanted /\ call'.snap = call.snap /\ call'.all = call.all
      /\ call'.left = call.left /\ call'.cursor = call.cursor /\ call'.undos = call.undos
      /\ call'.req = call.req
  BY <1>1, CancelFramed DEF TInv
<1>3. call.pc \notin {"undo", "unsend"}
  BY <1>1, Spent DEF Cancel, Faulty
<1>4. Faulty(call') /\ call'.faults > 0
  BY <1>1, <1>2, <1>3 DEF Faulty
<1>5. SingleWrite(config', call')
  BY <1>1, <1>2 DEF SingleWrite
<1>6. Reconciling(config', call')
  <2> SUFFICES ASSUME call'.kind = "reconcile", call'.pc \in Working
               PROVE  \E h : Follows(h, config', call')
    BY DEF Reconciling
  <2>1. PICK h : Follows(h, config, call)
    BY <1>1, <1>2 DEF Reconciling
  <2>2. Trail(h, call')
    BY <1>2, <2>1, TrailStays DEF Follows
  <2>3. Located(h, config', call')
    BY <1>2, <2>1 DEF Follows, Located
  <2>4. call'.pc = "plan" => PlannedNow(config', call')
    BY <1>2, <2>1 DEF Follows, PlannedNow
  <2>5. call'.pc = "send" => PlannedNext(Applied(config', call'.req), call')
    BY <1>2, <2>1 DEF Follows, PlannedNext
  <2>6. QED BY <2>2, <2>3, <2>4, <2>5 DEF Follows
<1>7. Moves
  BY <1>1, <1>2 DEF Moves, OldTable, Target
<1>8. QED BY <1>1, <1>2, <1>4, <1>5, <1>6, <1>7, Unwritten DEF StepOK, IInv

\* The daemon dies with a request under way, which the server may answer.
LEMMA CrashStep ==
  ASSUME OneFailure, IInv, Crash
  PROVE  StepOK
<1>1. Return("error") /\ config' \in IF call.pc \in {"send", "unsend"} THEN Applications ELSE {config}
  BY DEF Crash
<1>2. TInv /\ Sound(config) /\ call \in Call
  BY DEF IInv, TInv, Framed, Sound
<1>3. CASE call.pc \notin {"send", "unsend"}
  <2>1. config' = config
    BY <1>1, <1>3
  <2>2. QED BY <1>1, <1>2, <2>1, Unwritten, Ended DEF Outcomes
<1>4. CASE call.kind # "reconcile" /\ call.pc \in {"send", "unsend"}
  <2> DEFINE b == Applied(config, call.req)
  <2>1. call.pc = "send" /\ call.kind \in {"add", "remove"}
    BY <1>2, <1>4 DEF IInv, Framed, Call, Calls
  <2>2. /\ config = call.snap /\ Accepts(config, call.req) /\ Sound(b) /\ Unowned(b) = Unowned(config)
        /\ \A l \in Links : Upstream(b, l) = IF l = call.link THEN call.wanted[l] ELSE Upstream(config, l)
    BY <2>1 DEF IInv, SingleWrite
  <2>3. \A l \in Links : Target[l] = Upstream(b, l)
    BY <2>1, <2>2 DEF OldTable, Target
  <2>4. config' \in {config, b}
    BY <1>1, <1>4, <2>2 DEF Applications
  <2> HIDE DEF b
  <2>5. Sound(config') /\ Unowned(config') = Unowned(config)
    BY <1>2, <2>2, <2>4
  <2>6. Near
    BY <2>3, <2>4 DEF Near
  <2>7. QED BY <1>1, <2>5, <2>6, Ended DEF Outcomes
<1>5. CASE call.kind = "reconcile" /\ call.pc \in {"send", "unsend"}
  <2> DEFINE n == Len(call.undos)
  <2>1. PICK h : Follows(h, config, call)
    BY <1>5 DEF IInv, Reconciling, Working
  <2>2. n \in Nat /\ n > 0 /\ config \in {h[n], h[n + 1]} /\ config' \in {h[n], h[n + 1]}
    <3>1. n \in Nat
      BY <1>5, <2>1, Here DEF Working
    <3>2. QED BY <1>1, <1>5, <2>1, <3>1 DEF Follows, Located, Applications
  <2>3. n \in 1 .. n + 1 /\ n + 1 \in 1 .. n + 1
    BY <2>2
  <2>4. /\ Sound(h[n]) /\ Halfway(h[n], call) /\ Sound(h[n + 1]) /\ Halfway(h[n + 1], call)
        /\ Unowned(h[n + 1]) = Unowned(h[n])
    BY <1>5, <2>1, <2>2, <2>3, Here DEF Working
  <2>5. Sound(config') /\ Halfway(config', call) /\ Unowned(config') = Unowned(config)
    BY <2>2, <2>4
  <2>6. \A l \in Links : OldTable[l] = Upstream(call.snap, l) /\ Target[l] = call.wanted[l]
    BY <1>5 DEF OldTable, Target
  <2>7. Near
    BY <2>5, <2>6 DEF Near, Halfway
  <2>8. QED BY <1>1, <2>5, <2>7, Ended DEF Outcomes
<1>6. QED BY <1>3, <1>4, <1>5

\* Every step of a call.
LEMMA CallStep ==
  ASSUME OneFailure, IInv, Fetch \/ Mutations \/ Send \/ UndoRepair \/ UndoOther \/ Verify \/ Cancel \/ Crash
  PROVE  StepOK /\ Busy
<1>1. StepOK
  BY FetchStep, RepairStep, InsertStep, PruneStep, FinishStep, SendStep, UndoStep, VerifyStep,
     CancelStep, CrashStep DEF Mutations
<1>2. Busy
  BY DEF Busy, Fetch, Mutations, Repair, Insert, Prune, Finish, Send, UndoRepair, UndoOther, Verify,
         Cancel, Crash
<1>3. QED BY <1>1, <1>2

\* A call begins with nothing read and nothing written.
LEMMA BeginStep ==
  ASSUME IInv, Begin
  PROVE  /\ IInv' /\ config' = config /\ call'.pc = "fetch" /\ ~Busy
         /\ call'.kind = "reconcile" \/ (call'.kind \in {"add", "remove"} /\ call'.link \in Links)
<1>1. TInv /\ Sound(config)
  BY DEF IInv, TInv, Sound
<1>2. Framed(call') /\ config' = config /\ ~Busy
  BY <1>1, BeginFramed DEF TInv, Begin, BeginAdd, BeginRemove, BeginReconcile
<1>3. /\ call'.pc = "fetch" /\ call'.undos = <<>> /\ call'.dead = FALSE /\ call'.faults = 0
      /\ call'.kind = "remove" => call'.wanted[call'.link] = None
      /\ call'.kind \in {"add", "remove", "reconcile"}
  <2>1. ASSUME NEW l \in Links, NEW u \in Upstreams, BeginAdd(l, u)
        PROVE  /\ call'.pc = "fetch" /\ call'.undos = <<>> /\ call'.dead = FALSE /\ call'.faults = 0
               /\ call'.kind = "add"
    <3>1. call' = [Idle EXCEPT !.kind = "add", !.pc = "fetch", !.link = l,
                               !.wanted = [Idle.wanted EXCEPT ![l] = u]]
      BY <2>1 DEF BeginAdd
    <3>2. QED BY <3>1, IdleFramed DEF Call
  <2>2. ASSUME NEW l \in Links, BeginRemove(l)
        PROVE  /\ call'.pc = "fetch" /\ call'.undos = <<>> /\ call'.dead = FALSE /\ call'.faults = 0
               /\ call'.kind = "remove" /\ call'.wanted[call'.link] = None
    <3>1. call' = [Idle EXCEPT !.kind = "remove", !.pc = "fetch", !.link = l]
      BY <2>2 DEF BeginRemove
    <3>2. call'.link = l /\ call'.wanted = [k \in Links |-> None]
      BY <3>1, IdleFramed DEF Call
    <3>3. QED BY <3>1, <3>2, IdleFramed DEF Call
  <2>3. ASSUME NEW w \in Wanted, BeginReconcile(w)
        PROVE  /\ call'.pc = "fetch" /\ call'.undos = <<>> /\ call'.dead = FALSE /\ call'.faults = 0
               /\ call'.kind = "reconcile"
    <3>1. call' = [Idle EXCEPT !.kind = "reconcile", !.pc = "fetch", !.wanted = w]
      BY <2>3 DEF BeginReconcile
    <3>2. QED BY <3>1, IdleFramed DEF Call
  <2>4. QED BY <2>1, <2>2, <2>3 DEF Begin
<1>4. Faulty(call') /\ SingleWrite(config', call') /\ Reconciling(config', call')
  BY <1>3 DEF Faulty, SingleWrite, Reconciling, Working
<1>5. call'.kind # "reconcile" => call'.link \in Links
  BY <1>2, <1>3 DEF Framed
<1>6. QED BY <1>1, <1>2, <1>3, <1>4, <1>5 DEF IInv

\* An edit by another client between two calls moves nothing of Mirage's.
LEMMA EditStep ==
  ASSUME IInv, Edit, ~Busy
  PROVE  /\ IInv' /\ call' = call
         /\ \A l \in Links : Upstream(config', l) = Upstream(config, l)
<1>1. Sound(config) /\ config \in Seq(Route) /\ call' = call
  BY DEF IInv, Sound, Edit
<1>2. PICK f \in Foreign :
        \/ ~Has(config, f) /\ \E i \in 1 .. Len(config) + 1 : config' = InsertAt(config, i, Plain(f))
        \/ Has(config, f) /\ config' = RemoveAt(config, Place(config, f))
  BY DEF Edit
<1>3. Plain(f) \in Route /\ Plain(f).id = f /\ f # Fallback /\ f \notin Links
  BY RoutesTyped, Constants
<1>4. Sound(config') /\ \A l \in Links : Upstream(config', l) = Upstream(config, l)
  <2>1. CASE ~Has(config, f)
    <3>1. PICK i \in 1 .. Len(config) + 1 : config' = InsertAt(config, i, Plain(f))
      BY <1>2, <2>1
    <3>2. /\ Sound(InsertAt(config, i, Plain(f)))
          /\ \A l \in Links : Upstream(InsertAt(config, i, Plain(f)), l) =
                                IF l = Plain(f).id THEN Plain(f).up ELSE Upstream(config, l)
      BY <1>1, <1>3, <2>1, InsertKeeps
    <3>3. QED BY <1>3, <3>1, <3>2
  <2>2. CASE Has(config, f)
    <3>1. Place(config, f) \in 1 .. Len(config) /\ config[Place(config, f)].id = f
      BY <1>1, <2>2, Finding
    <3>2. /\ Sound(RemoveAt(config, Place(config, f)))
          /\ \A l \in Links : Upstream(RemoveAt(config, Place(config, f)), l) =
                                IF l = config[Place(config, f)].id THEN None ELSE Upstream(config, l)
      BY <1>1, <3>1, RemoveKeeps
    <3>3. QED BY <1>2, <1>3, <2>2, <3>1, <3>2
  <2>3. QED BY <2>1, <2>2
<1>5. SingleWrite(config', call') /\ Reconciling(config', call')
  BY <1>1 DEF SingleWrite, Reconciling, Working, Busy
<1>6. QED BY <1>1, <1>4, <1>5 DEF IInv

\* The invariant holds at first and under every step.
LEMMA Initially == Init => IInv
<1> SUFFICES ASSUME Init PROVE IInv
  OBVIOUS
<1>1. TInv /\ call = Idle
  BY InitiallyTyped DEF Init
<1>2. Distinct(config) /\ Ordered(config)
  <2>1. \/ config = <<>> \/ config = <<Plain(Fallback)>> \/ \E f \in Foreign : config = <<Plain(f)>>
        \/ \E f \in Foreign : config = <<Plain(f), Plain(Fallback)>>
    BY DEF Init
  <2>2. Plain(Fallback).id = Fallback /\ \A f \in Foreign : Plain(f).id = f
    BY DEF Plain
  <2>3. Fallback \notin Links /\ \A f \in Foreign : f # Fallback /\ f \notin Links
    BY Constants
  <2>4. CASE config = <<>>
    BY <2>4 DEF Distinct, Ordered
  <2>5. CASE config = <<Plain(Fallback)>>
    BY <2>2, <2>3, <2>5 DEF Distinct, Ordered
  <2>6. ASSUME NEW f \in Foreign, config = <<Plain(f)>>
        PROVE  Distinct(config) /\ Ordered(config)
    BY <2>2, <2>3, <2>6 DEF Distinct, Ordered
  <2>7. ASSUME NEW f \in Foreign, config = <<Plain(f), Plain(Fallback)>>
        PROVE  Distinct(config) /\ Ordered(config)
    BY <2>2, <2>3, <2>7 DEF Distinct, Ordered
  <2>8. QED BY <2>1, <2>4, <2>5, <2>6, <2>7
<1>3. Faulty(call) /\ SingleWrite(config, call) /\ Reconciling(config, call)
  BY <1>1, IdleFramed DEF Faulty, SingleWrite, Reconciling, Working
<1>4. QED BY <1>1, <1>2, <1>3 DEF IInv, TInv, Sound

\* The inductive invariant.
GInv == edits \in 0 .. MaxEdits /\ (edits = 0 => IInv)

\* A step before the first such edit.
LEMMA Step ==
  ASSUME OneFailure, GInv, [Next]_vars, edits' = 0
  PROVE  /\ edits = 0 /\ IInv /\ IInv'
         /\ [call' # call => Unowned(config') = Unowned(config)]_vars
         /\ Edit => ~Busy
<1>1. edits = 0 /\ IInv
  <2>1. edits' >= edits /\ edits \in Nat
    BY EditsCounted, CaddyAssumption DEF GInv
  <2>2. QED BY <2>1 DEF GInv
<1>2. Edit => ~Busy
  BY <1>1 DEF Edit
<1>3. CASE UNCHANGED vars
  BY <1>1, <1>2, <1>3 DEF vars, IInv
<1>4. CASE Begin
  BY <1>1, <1>2, <1>4, BeginStep
<1>5. CASE Edit
  BY <1>1, <1>2, <1>5, EditStep
<1>6. CASE Steps \/ Cancel \/ Crash
  BY <1>1, <1>2, <1>6, CallStep DEF Steps, StepOK
<1>7. QED BY <1>3, <1>4, <1>5, <1>6 DEF Next

LEMMA Invariant ==
  ASSUME OneFailure
  PROVE  Spec => []GInv
<1>1. Init => GInv
  BY Initially, CaddyAssumption DEF Init, GInv
<1>2. GInv /\ [Next]_vars => GInv'
  BY Step, EditsCounted DEF GInv
<1>3. QED BY <1>1, <1>2, PTL DEF Spec

\* With one attempt at a request and one fault per call, and until another
\* client edits the array during a call, every route of Mirage comes before the
\* fallback (caddy.go:211-212).
THEOREM CaddyOrdered ==
  ASSUME OneFailure
  PROVE  Spec => []OwnedBeforeFallback
<1>1. GInv => OwnedBeforeFallback
  BY DEF GInv, IInv, Sound, Ordered, OwnedBeforeFallback
<1>2. QED BY <1>1, Invariant, PTL

\* With one attempt at a request and one fault per call, and until another
\* client edits the array during a call, every step of a call leaves the routes
\* of other clients as they are and in their order: no write by index hits one
\* of them (caddy.go:201-231, 329-395).
THEOREM CaddyOwnWrites ==
  ASSUME OneFailure
  PROVE  Spec => OwnWritesUntilEdited
<1>1. ASSUME GInv, [Next]_vars
      PROVE  [edits = 0 /\ call' # call => Unowned(config') = Unowned(config)]_vars
  <2> SUFFICES ASSUME Next, edits = 0, call' # call
               PROVE  Unowned(config') = Unowned(config)
    BY <1>1
  <2>1. edits' = 0
    BY <1>1, EditsCounted DEF GInv, Edit
  <2>2. QED BY <1>1, <2>1, Step DEF vars
<1>2. QED BY <1>1, Invariant, PTL DEF Spec, OwnWritesUntilEdited

\* With one attempt at a request and one fault per call, and until another
\* client edits the array during a call, a Reconcile that fails, but neither
\* reports that the outcome is unknown nor was cut off, has left the array as it
\* found it (caddy.go:252-255, 282-304).
THEOREM CaddyRestores ==
  ASSUME OneFailure
  PROVE  Spec => RollbackRestores
<1>1. ASSUME GInv, [Next]_vars
      PROVE  [Verify /\ edits = 0 => call'.outcome = "error" /\ config' = call.snap]_vars
  <2>1. ASSUME Verify, edits = 0
        PROVE  call'.outcome = "error" /\ config' = call.snap
    <3>1. config = call.snap /\ config' = config /\ Return("error")
      BY <1>1, <2>1, VerifyFacts DEF GInv
    <3>2. QED BY <3>1, ReturnFramed DEF Outcomes
  <2>2. QED BY <2>1
<1>2. QED BY <1>1, Invariant, PTL DEF Spec, RollbackRestores

-----------------------------------------------------------------------------
\* The contract of ports.Proxy.

\* The refinement mapping of CaddyRoutes.
Table == [l \in Links |-> Upstream(config, l)]
Asked == [busy   |-> Busy,
          ok     |-> Busy \/ call.outcome = "ok",
          old    |-> IF Busy THEN OldTable ELSE [l \in Links |-> None],
          target |-> IF Busy THEN Target ELSE [l \in Links |-> None]]

\* The mapping is of the types of the contract.
LEMMA UpstreamTyped ==
  ASSUME NEW a \in Seq(Route), NEW l \in Links
  PROVE  Upstream(a, l) \in Upstreams \union {None}
<1>1. CASE Has(a, l)
  <2>1. Place(a, l) \in 1 .. Len(a)
    BY <1>1, Finding
  <2>2. a[Place(a, l)] \in Route
    BY <2>1, ElementOfSeq
  <2>3. QED BY <1>1, <2>2, RouteFields DEF Upstream
<1>2. CASE ~Has(a, l)
  BY <1>2 DEF Upstream
<1>3. QED BY <1>1, <1>2

LEMMA TableTyped ==
  ASSUME config \in Seq(Route)
  PROVE  Table \in Contract!Table
  BY UpstreamTyped DEF Table, Contract!Table

\* A step of a call is a move of the contract or its end.
LEMMA CallKeeps ==
  ASSUME OneFailure, IInv, StepOK, Busy
  PROVE  Contract!Next
<1>1. /\ config' \in Seq(Route) /\ \A l \in Links : Upstream(config', l) \in Upstreams \union {None}
  <2>1. config' \in Seq(Route)
    BY DEF StepOK, IInv, Sound
  <2>2. QED BY <2>1, UpstreamTyped
<1>2. Asked.busy = TRUE /\ Asked.old = OldTable /\ Asked.target = Target
  BY DEF Asked
<1>3. /\ Table' \in Contract!Table
      /\ \A l \in Links : Table'[l] \in {Table[l], Asked.old[l], Asked.target[l]}
  <2>1. Table' = [l \in Links |-> Upstream(config', l)] /\ Table = [l \in Links |-> Upstream(config, l)]
    BY DEF Table
  <2>2. Table' \in Contract!Table
    BY <1>1, <2>1 DEF Contract!Table
  <2>3. QED BY <1>2, <2>1, <2>2 DEF StepOK, Near
<1>4. Contract!Between
  BY <1>3 DEF Contract!Between, Table, Asked
<1>5. CASE Moves
  <2>1. Asked' = Asked
    BY <1>5 DEF Moves, Asked, Busy
  <2>2. Contract!Move
    BY <1>2, <1>4, <2>1 DEF Contract!Move, Asked
  <2>3. QED BY <2>2 DEF Contract!Next
<1>6. CASE Ends /\ call'.outcome # "ok"
  <2>1. Asked' = [busy |-> FALSE, ok |-> FALSE, old |-> [l \in Links |-> None], target |-> [l \in Links |-> None]]
    BY <1>6 DEF Ends, Asked, Busy
  <2>2. Contract!Fail
    BY <1>2, <1>4, <2>1 DEF Contract!Fail, Contract!Free, Asked
  <2>3. QED BY <2>2 DEF Contract!Next
<1>7. CASE Ends /\ call'.outcome = "ok"
  <2>1. Asked' = [busy |-> FALSE, ok |-> TRUE, old |-> [l \in Links |-> None], target |-> [l \in Links |-> None]]
    BY <1>7 DEF Ends, Asked, Busy
  <2>2. Table' = Target
    <3>1. Target = [l \in Links |-> Target[l]]
      BY DEF Target, OldTable, IInv, Framed, Call, Wanted
    <3>2. QED BY <1>7, <3>1 DEF Ends, Table
  <2>3. Contract!Succeed
    BY <1>2, <2>1, <2>2 DEF Contract!Succeed, Contract!Free, Asked, Table
  <2>4. QED BY <2>3 DEF Contract!Next
<1>8. QED BY <1>5, <1>6, <1>7 DEF StepOK

\* The begin of a call is one of the contract.
LEMMA BeginKeeps ==
  ASSUME IInv, Begin
  PROVE  Contract!Next
<1>1. /\ IInv' /\ config' = config /\ call'.pc = "fetch" /\ ~Busy
      /\ call'.kind = "reconcile" \/ (call'.kind \in {"add", "remove"} /\ call'.link \in Links)
  BY BeginStep
<1>2. config \in Seq(Route) /\ \A l \in Links : Upstream(config, l) \in Upstreams \union {None}
  <2>1. config \in Seq(Route)
    BY DEF IInv, Sound
  <2>2. QED BY <2>1, UpstreamTyped
<1>3. Table' = Table /\ OldTable' = Table
  BY <1>1 DEF Table, OldTable
<1>4. Target' \in Contract!Table
  <2>1. call'.wanted \in [Links -> Upstreams \union {None}]
    BY <1>1 DEF IInv, Framed, Call, Wanted
  <2>2. OldTable' \in [Links -> Upstreams \union {None}]
    BY <1>2, <1>3 DEF Table
  <2>3. Target' = IF call'.kind = "reconcile" THEN call'.wanted
                  ELSE [OldTable' EXCEPT ![call'.link] = call'.wanted[call'.link]]
    BY DEF Target
  <2>4. QED BY <1>1, <2>1, <2>2, <2>3 DEF Contract!Table
<1>5. Asked' = [busy |-> TRUE, ok |-> TRUE, old |-> Table, target |-> Target'] /\ Asked.busy = FALSE
  BY <1>1, <1>3 DEF Asked, Busy
<1>6. Contract!Accept(Target')
  BY <1>3, <1>5 DEF Contract!Accept, Asked, Table
<1>7. QED BY <1>4, <1>6 DEF Contract!Next

\* Another client's edit changes nothing of what the contract sees.
LEMMA EditKeeps ==
  ASSUME IInv, Edit, ~Busy
  PROVE  Table' = Table /\ Asked' = Asked
<1>1. call' = call /\ ~Busy /\ \A l \in Links : Upstream(config', l) = Upstream(config, l)
  BY EditStep
<1>2. Table' = Table
  BY <1>1 DEF Table
<1>3. Asked' = Asked
  BY <1>1 DEF Asked, Busy
<1>4. QED BY <1>2, <1>3

\* With one attempt at a request and one fault per call the adapter keeps the
\* contract of ports.Proxy (ports.go:75) until another client edits the array
\* during a call: while a call runs each link has the upstream it had, the old
\* one or the one asked for, and a call that reports success has put the table
\* asked for.
THEOREM CaddyKeepsContract ==
  ASSUME OneFailure
  PROVE  Spec => ProxyKept
<1>1. Init => Contract!Init
  <2> SUFFICES ASSUME Init PROVE Contract!Init
    OBVIOUS
  <2>1. config \in Seq(Route) /\ call = Idle
    BY InitiallyTyped DEF TInv, Init
  <2>2. Table \in Contract!Table
    BY <2>1, TableTyped
  <2>3. call.pc = "idle" /\ call.outcome = "ok"
    BY <2>1, IdleFramed DEF Idle
  <2>4. Asked = [busy |-> FALSE, ok |-> TRUE, old |-> [l \in Links |-> None],
                 target |-> [l \in Links |-> None]]
    BY <2>3 DEF Asked, Busy
  <2>5. QED BY <2>2, <2>4 DEF Contract!Init, Contract!Free, Table, Asked
<1>2. GInv /\ [Next]_vars => [edits' = 0 => [Contract!Next]_(Contract!vars)]_vars
  <2> SUFFICES ASSUME GInv, [Next]_vars, edits' = 0
               PROVE  Contract!Next \/ (Table' = Table /\ Asked' = Asked)
    BY DEF Contract!vars, Table, Asked
  <2>1. CASE UNCHANGED vars
    BY <2>1 DEF vars, Table, Asked, Busy, OldTable, Target
  <2>2. IInv /\ (Edit => ~Busy)
    BY Step
  <2>3. CASE Next
    BY <2>2, <2>3, CallStep, CallKeeps, BeginKeeps, EditKeeps DEF Next, Steps
  <2>4. QED BY <2>1, <2>3
<1>3. QED BY <1>1, <1>2, Invariant, PTL DEF Spec, ProxyKept
=============================================================================
