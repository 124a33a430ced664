-------------------------- MODULE DashboardProofs --------------------------
(***************************************************************************)
(* Theorems of Dashboard for any number of pods, sources, events, requests *)
(* and faults, and any length of channels and of the feed.                 *)
(***************************************************************************)
EXTENDS Dashboard, FiniteSetTheorems, WellFoundedInduction, TLAPS

-----------------------------------------------------------------------------
\* Streams are opened one at a time, the first one after the first answer, and
\* another one after each failure.  While one is open the engine of one pod
\* has its subscription.
StreamInv ==
  /\ \A p \in Pods : targets[p] \subseteq subscribers[p]
  /\ \A p \in Pods : targets[p] # {} => version[p] > 0
  /\ \A p, q \in Pods : subscribers[p] \cap subscribers[q] # {} => p = q
  /\ stream = "none" => opened = 0
  /\ stream = "asked" => opened <= faults
  /\ opened <= faults + 1
  /\ stream = "open" => \E p \in Pods : opened \in subscribers[p]
  /\ stream # "open" => buffer = <<>>

\* Of the newest stream nothing is carried that its pod has not emitted.
CarriedInv ==
  \A x \in carried :
    /\ x.stream <= opened
    /\ \A p \in Pods : x.stream = opened /\ opened \in subscribers[p] => x.event <= version[p]

\* The newest events are in the channel, older ones in the feed, and the event
\* under way is in neither of them until it has been offered.
FlowInv ==
  /\ CarriedInv
  /\ \A i, j \in 1..Len(buffer) : i < j => Later(buffer[j], buffer[i])
  /\ \A i \in 1..Len(buffer) : buffer[i] \in carried
  /\ \A i \in 1..Len(feed) : feed[i] \in carried
  /\ \A i \in 1..Len(feed), j \in 1..Len(buffer) : Later(buffer[j], feed[i])
  /\ \A x \in Due : /\ x \in carried <=> stream = "open"
                    /\ \A i \in 1..Len(buffer) : Later(x, buffer[i])
                    /\ \A i \in 1..Len(feed) : Later(x, feed[i])

\* The latest first, and one location update of a source at most.
Descending(f) == \A i, j \in 1..Len(f) : i < j => Later(f[i], f[j])
OneEach(f) == \A i, j \in 1..Len(f) : SameTrail(f[i].event, f[j].event) => i = j

Full(f) == Len(f) = FeedLength
Kept(x) ==
  \/ x \in Members(feed)
  \/ \E y \in Received : Later(y, x) /\ SameTrail(y.event, x.event)
  \/ Full(feed) /\ \A i \in 1..Len(feed) : Later(feed[i], x)

FeedInv ==
  /\ Descending(feed) /\ OneEach(feed)
  /\ \A x \in Received : Kept(x)

\* Arrival is a strict order.
LEMMA LaterOrder ==
  ASSUME NEW x \in Entries, NEW y \in Entries, NEW z \in Entries
  PROVE  /\ ~Later(x, x)
         /\ Later(x, y) /\ Later(y, z) => Later(x, z)
<1>1. \A e \in Entries : e.stream \in Nat /\ e.event \in Nat
  BY DashboardAssumption DEF Entries, Events, Subscriptions
<1> QED BY <1>1 DEF Later

\* A source has one trail.
LEMMA OneTrail ==
  ASSUME NEW k, NEW m, NEW n, SameTrail(k, m), SameTrail(k, n)
  PROVE  SameTrail(m, n)
<1>1. PICK s \in Trails : k \in s /\ m \in s
  BY DEF SameTrail
<1>2. PICK t \in Trails : k \in t /\ n \in t
  BY DEF SameTrail
<1>3. s = t
  BY <1>1, <1>2, DashboardAssumption
<1> QED BY <1>1, <1>2, <1>3 DEF SameTrail

-----------------------------------------------------------------------------
(***************************************************************************)
(* The filter of the feed.                                                 *)
(***************************************************************************)

LEMMA LeastNumber ==
  ASSUME NEW T, T \subseteq Nat, T # {}
  PROVE  \E n \in T : \A m \in T : n <= m
<1>1. PICK n \in T : \A m \in T : ~(<<m, n>> \in OpToRel(<, Nat))
  BY NatLessThanWellFounded, WFMin, Zenon
<1>2. \A m \in T : ~(m < n)
  BY <1>1 DEF OpToRel
<1> QED BY <1>2

\* What the filter makes of the first i elements, for i up to n.
Keeps(F, e, f, n) ==
  F = [i \in 0..n |-> IF i = 0 THEN <<>>
                      ELSE IF SameTrail(e, f[i].event) THEN F[i - 1]
                      ELSE Append(F[i - 1], f[i])]

LEMMA KeepsExists == ASSUME NEW e, NEW f, NEW n \in Nat PROVE \E F : Keeps(F, e, f, n)
<1> DEFINE T == {m \in Nat : ~\E F : Keeps(F, e, f, m)}
<1> SUFFICES ASSUME T # {} PROVE FALSE
  OBVIOUS
<1>1. PICK m \in T : \A k \in T : m <= k
  <2> HIDE DEF T
  <2>1. T \subseteq Nat
    BY DEF T
  <2> QED BY <2>1, LeastNumber
<1>2. CASE m = 0
  <2> DEFINE G == [i \in 0..0 |-> <<>>]
  <2>1. Keeps(G, e, f, 0)
    BY DEF Keeps
  <2> QED BY <1>1, <1>2, <2>1
<1>3. CASE m # 0
  <2>1. m - 1 \in Nat /\ ~(m <= m - 1)
    BY <1>3
  <2>2. PICK F : Keeps(F, e, f, m - 1)
    BY <1>1, <2>1
  <2> DEFINE G == [i \in 0..m |-> IF i = m
                                  THEN IF SameTrail(e, f[m].event) THEN F[m - 1]
                                       ELSE Append(F[m - 1], f[m])
                                  ELSE F[i]]
  <2>3. \A i \in 0..(m - 1) : G[i] = F[i]
    BY <2>1
  <2>4. ASSUME NEW i \in 0..m
        PROVE  G[i] = IF i = 0 THEN <<>>
                      ELSE IF SameTrail(e, f[i].event) THEN G[i - 1]
                      ELSE Append(G[i - 1], f[i])
    <3>1. CASE i = m
      BY <1>3, <2>1, <2>3, <3>1
    <3>2. CASE i # m
      <4>1. i \in 0..(m - 1)
        BY <2>1, <3>2
      <4>2. F[i] = IF i = 0 THEN <<>>
                   ELSE IF SameTrail(e, f[i].event) THEN F[i - 1]
                   ELSE Append(F[i - 1], f[i])
        BY <2>2, <4>1 DEF Keeps
      <4>3. i # 0 => i - 1 \in 0..(m - 1)
        BY <4>1
      <4> QED BY <2>3, <4>1, <4>2, <4>3
    <3> QED BY <3>1, <3>2
  <2>5. Keeps(G, e, f, m)
    BY <2>4 DEF Keeps
  <2> QED BY <2>5
<1> QED BY <1>2, <1>3

LEMMA WithoutKeeps ==
  ASSUME NEW e, NEW f \in Seq(Entries)
  PROVE  \E F : Keeps(F, e, f, Len(f)) /\ Without(e, f) = F[Len(f)]
<1> DEFINE G == CHOOSE F : Keeps(F, e, f, Len(f))
<1>1. Without(e, f) = G[Len(f)]
  BY DEF Without, Keeps
<1>2. Keeps(G, e, f, Len(f))
  BY KeepsExists
<1> QED BY <1>1, <1>2

\* Sequence g is what the filter for event e is to make of the first n
\* elements of f.
Filtered(g, e, f, n) ==
  /\ g \in Seq(Entries) /\ Descending(g)
  /\ \A i \in 1..Len(g) : \E k \in 1..n : g[i] = f[k] /\ ~SameTrail(e, f[k].event)
  /\ \A k \in 1..n : ~SameTrail(e, f[k].event) => \E i \in 1..Len(g) : g[i] = f[k]
  /\ n - 1 <= Len(g) /\ Len(g) <= n
  /\ (\A k \in 1..n : ~SameTrail(e, f[k].event)) => Len(g) = n

LEMMA FilteredNext ==
  ASSUME NEW e, NEW f \in Seq(Entries), Descending(f), OneEach(f), NEW n \in Nat, n + 1 <= Len(f),
         NEW g, Filtered(g, e, f, n)
  PROVE  Filtered(IF SameTrail(e, f[n + 1].event) THEN g ELSE Append(g, f[n + 1]), e, f, n + 1)
<1>1. g \in Seq(Entries) /\ Len(g) \in Nat /\ n + 1 \in 1..Len(f) /\ f[n + 1] \in Entries
  BY DEF Filtered
<1>2. CASE SameTrail(e, f[n + 1].event)
  <2>1. ASSUME NEW k \in 1..n, SameTrail(e, f[k].event) PROVE FALSE
    <3>1. SameTrail(f[k].event, f[n + 1].event)
      BY <1>2, <2>1, OneTrail
    <3>2. k \in 1..Len(f) /\ k # n + 1
      BY <1>1
    <3> QED BY <1>1, <3>1, <3>2 DEF OneEach
  <2>2. n \in 0..n /\ \A k \in 1..n : k \in 1..(n + 1)
    OBVIOUS
  <2>3. \A i \in 1..Len(g) : \E k \in 1..(n + 1) : g[i] = f[k] /\ ~SameTrail(e, f[k].event)
    BY <2>2 DEF Filtered
  <2>4. \A k \in 1..(n + 1) : ~SameTrail(e, f[k].event) => \E i \in 1..Len(g) : g[i] = f[k]
    BY <1>2 DEF Filtered
  <2>5. Len(g) = n /\ n + 1 \in 1..(n + 1)
    BY <2>1 DEF Filtered
  <2>6. /\ n + 1 - 1 <= Len(g) /\ Len(g) <= n + 1
        /\ (\A k \in 1..(n + 1) : ~SameTrail(e, f[k].event)) => Len(g) = n + 1
    BY <1>2, <2>5
  <2>7. Descending(g)
    BY DEF Filtered
  <2>8. Filtered(g, e, f, n + 1)
    BY <1>1, <2>3, <2>4, <2>6, <2>7 DEF Filtered
  <2> QED BY <1>2, <2>8
<1>3. CASE ~SameTrail(e, f[n + 1].event)
  <2> DEFINE h == Append(g, f[n + 1])
  <2>1. /\ h \in Seq(Entries) /\ Len(h) = Len(g) + 1 /\ h[Len(g) + 1] = f[n + 1]
        /\ \A i \in 1..Len(g) : h[i] = g[i]
    BY <1>1
  <2> HIDE DEF h
  <2>2. Descending(h)
    <3> SUFFICES ASSUME NEW i \in 1..Len(h), NEW j \in 1..Len(h), i < j PROVE Later(h[i], h[j])
      BY DEF Descending
    <3>1. i \in 1..Len(g) /\ h[i] = g[i]
      BY <1>1, <2>1
    <3>2. CASE j \in 1..Len(g)
      BY <2>1, <3>1, <3>2 DEF Filtered, Descending
    <3>3. CASE j = Len(g) + 1
      <4>1. PICK k \in 1..n : g[i] = f[k]
        BY <3>1 DEF Filtered
      <4>2. Later(f[k], f[n + 1])
        BY <1>1 DEF Descending
      <4> QED BY <2>1, <3>1, <3>3, <4>1, <4>2
    <3> QED BY <1>1, <2>1, <3>2, <3>3
  <2>3. ASSUME NEW i \in 1..Len(h)
        PROVE  \E k \in 1..(n + 1) : h[i] = f[k] /\ ~SameTrail(e, f[k].event)
    <3>1. CASE i \in 1..Len(g)
      <4>1. PICK k \in 1..n : g[i] = f[k] /\ ~SameTrail(e, f[k].event)
        BY <3>1 DEF Filtered
      <4>2. k \in 1..(n + 1)
        OBVIOUS
      <4> QED BY <2>1, <3>1, <4>1, <4>2
    <3>2. CASE i = Len(g) + 1
      BY <1>3, <2>1, <3>2
    <3> QED BY <1>1, <2>1, <3>1, <3>2
  <2>4. ASSUME NEW k \in 1..(n + 1), ~SameTrail(e, f[k].event)
        PROVE  \E i \in 1..Len(h) : h[i] = f[k]
    <3>1. CASE k \in 1..n
      <4>1. PICK i \in 1..Len(g) : g[i] = f[k]
        BY <2>4, <3>1 DEF Filtered
      <4> QED BY <1>1, <2>1, <4>1
    <3>2. CASE k = n + 1
      BY <1>1, <2>1, <3>2
    <3> QED BY <3>1, <3>2
  <2>5. /\ n + 1 - 1 <= Len(h) /\ Len(h) <= n + 1
        /\ (\A k \in 1..(n + 1) : ~SameTrail(e, f[k].event)) => Len(h) = n + 1
    BY <1>1, <2>1 DEF Filtered
  <2>6. Filtered(h, e, f, n + 1)
    BY <2>1, <2>2, <2>3, <2>4, <2>5 DEF Filtered
  <2> QED BY <1>3, <2>6 DEF h
<1> QED BY <1>2, <1>3

LEMMA WithoutFilters ==
  ASSUME NEW e, NEW f \in Seq(Entries), Descending(f), OneEach(f)
  PROVE  Filtered(Without(e, f), e, f, Len(f))
<1>1. PICK F : Keeps(F, e, f, Len(f)) /\ Without(e, f) = F[Len(f)]
  BY WithoutKeeps
<1> DEFINE T == {m \in Nat : m <= Len(f) /\ ~Filtered(F[m], e, f, m)}
<1>2. Len(f) \in Nat
  OBVIOUS
<1> SUFFICES ASSUME T # {} PROVE FALSE
  BY <1>1, <1>2
<1>3. PICK m \in T : \A k \in T : m <= k
  <2>1. T \subseteq Nat
    OBVIOUS
  <2> HIDE DEF T
  <2> QED BY <2>1, LeastNumber
<1>4. m \in 0..Len(f) /\ F[m] = IF m = 0 THEN <<>>
                                ELSE IF SameTrail(e, f[m].event) THEN F[m - 1]
                                ELSE Append(F[m - 1], f[m])
  <2>1. m \in 0..Len(f)
    BY <1>2, <1>3
  <2> QED BY <1>1, <2>1 DEF Keeps
<1>5. CASE m = 0
  <2>1. F[m] = <<>> /\ Len(F[m]) = 0 /\ F[m] \in Seq(Entries)
    BY <1>4, <1>5
  <2>2. Filtered(F[m], e, f, m)
    BY <1>5, <2>1 DEF Filtered, Descending
  <2> QED BY <1>3, <2>2
<1>6. CASE m # 0
  <2>1. PICK n \in Nat : n = m - 1
    BY <1>4, <1>6
  <2>2. n + 1 = m /\ n <= Len(f) /\ ~(m <= n)
    BY <1>2, <1>4, <2>1
  <2>3. Filtered(F[n], e, f, n)
    BY <1>3, <2>2
  <2>4. Filtered(F[m], e, f, m)
    BY <1>4, <1>6, <2>1, <2>2, <2>3, FilteredNext
  <2> QED BY <2>4
<1> QED BY <1>5, <1>6

\* The feed before it is cut off: the entry in front of the others that are no
\* location updates of its source.
Longer(f, x) == <<x>> \o Without(x.event, f)

LEMMA LongerFeed ==
  ASSUME NEW f \in Seq(Entries), Descending(f), OneEach(f), NEW x \in Entries,
         \A i \in 1..Len(f) : Later(x, f[i])
  PROVE  LET s == Longer(f, x) IN
         /\ s \in Seq(Entries) /\ Descending(s) /\ OneEach(s)
         /\ Len(f) <= Len(s) /\ 1 \in 1..Len(s) /\ s[1] = x
         /\ \A i \in 1..Len(s) : i = 1 \/ \E k \in 1..Len(f) : s[i] = f[k]
         /\ \A k \in 1..Len(f) :
              ~SameTrail(x.event, f[k].event) => \E i \in 1..Len(s) : s[i] = f[k]
<1> DEFINE g == Without(x.event, f)
           s == <<x>> \o g
<1>1. Filtered(g, x.event, f, Len(f))
  BY WithoutFilters
<1>3. s = Longer(f, x)
  BY DEF Longer
<1> HIDE DEF g
<1>2. /\ g \in Seq(Entries) /\ Descending(g) /\ Len(f) - 1 <= Len(g)
      /\ \A i \in 1..Len(g) : \E k \in 1..Len(f) : g[i] = f[k]
      /\ \A k \in 1..Len(f) :
           ~SameTrail(x.event, f[k].event) => \E i \in 1..Len(g) : g[i] = f[k]
      /\ \A i \in 1..Len(g) : ~SameTrail(x.event, g[i].event)
  BY <1>1 DEF Filtered
<1>4. /\ s \in Seq(Entries) /\ Len(s) = Len(g) + 1 /\ Len(g) \in Nat /\ Len(f) \in Nat /\ s[1] = x
      /\ \A i \in 1..Len(s) : i # 1 => i - 1 \in 1..Len(g) /\ s[i] = g[i - 1]
      /\ \A i \in 1..Len(g) : i + 1 \in 1..Len(s) /\ s[i + 1] = g[i]
  BY <1>2
<1> HIDE DEF s
<1>5. Descending(s)
  <2> SUFFICES ASSUME NEW i \in 1..Len(s), NEW j \in 1..Len(s), i < j PROVE Later(s[i], s[j])
    BY DEF Descending
  <2>1. j - 1 \in 1..Len(g) /\ s[j] = g[j - 1]
    BY <1>4
  <2>2. CASE i = 1
    <3>1. PICK k \in 1..Len(f) : g[j - 1] = f[k]
      BY <1>2, <2>1
    <3> QED BY <1>4, <2>1, <2>2, <3>1
  <2>3. CASE i # 1
    <3>1. i - 1 \in 1..Len(g) /\ s[i] = g[i - 1] /\ i - 1 < j - 1
      BY <1>4, <2>1, <2>3
    <3>2. Later(g[i - 1], g[j - 1])
      BY <1>2, <2>1, <3>1 DEF Descending
    <3> QED BY <2>1, <3>1, <3>2
  <2> QED BY <2>2, <2>3
<1>6. \A i \in 1..Len(s) : i = 1 \/ \E k \in 1..Len(f) : s[i] = f[k]
  <2> SUFFICES ASSUME NEW i \in 1..Len(s), i # 1 PROVE \E k \in 1..Len(f) : s[i] = f[k]
    OBVIOUS
  <2>1. i - 1 \in 1..Len(g) /\ s[i] = g[i - 1]
    BY <1>4
  <2>2. PICK k \in 1..Len(f) : g[i - 1] = f[k]
    BY <1>2, <2>1
  <2> QED BY <2>1, <2>2
<1>7. ASSUME NEW k \in 1..Len(f), ~SameTrail(x.event, f[k].event)
      PROVE  \E i \in 1..Len(s) : s[i] = f[k]
  <2>1. PICK i \in 1..Len(g) : g[i] = f[k]
    BY <1>2, <1>7
  <2> QED BY <1>4, <2>1
<1>8. OneEach(s)
  <2> SUFFICES ASSUME NEW i \in 1..Len(s), NEW j \in 1..Len(s), SameTrail(s[i].event, s[j].event),
                      i < j
               PROVE  FALSE
    BY <1>4 DEF OneEach, SameTrail
  <2>1. j - 1 \in 1..Len(g) /\ s[j] = g[j - 1]
    BY <1>4
  <2>2. CASE i = 1
    BY <1>2, <1>4, <2>1, <2>2
  <2>3. CASE i # 1
    <3>1. PICK k \in 1..Len(f) : s[i] = f[k]
      BY <1>6, <2>3
    <3>2. PICK m \in 1..Len(f) : s[j] = f[m]
      BY <1>6
    <3>3. k = m
      BY <3>1, <3>2 DEF OneEach
    <3>4. Later(s[i], s[j]) /\ s[i] = s[j] /\ s[i] \in Entries
      BY <1>4, <1>5, <3>1, <3>2, <3>3 DEF Descending
    <3> QED BY <3>4, LaterOrder
  <2> QED BY <2>2, <2>3
<1> QED BY <1>2, <1>3, <1>4, <1>5, <1>6, <1>7, <1>8

LEMMA ListedFacts ==
  ASSUME NEW s \in Seq(Entries)
  PROVE  LET l == Listed(s) IN
         /\ l \in Seq(Entries) /\ Len(l) <= FeedLength /\ Len(l) <= Len(s)
         /\ \A i \in 1..Len(l) : l[i] = s[i]
         /\ 1 \in 1..Len(s) => 1 \in 1..Len(l)
         /\ l = s \/ Full(l)
         /\ FeedLength <= Len(s) => Full(l)
<1>1. Len(s) \in Nat /\ FeedLength \in Nat \ {0}
  BY DashboardAssumption
<1>2. CASE Len(s) > FeedLength
  <2>1. \A i \in 1..FeedLength : i \in 1..Len(s) /\ s[i] \in Entries
    BY <1>1, <1>2
  <2>2. Listed(s) = SubSeq(s, 1, FeedLength)
    BY <1>2 DEF Listed
  <2>3. SubSeq(s, 1, FeedLength) = [i \in 1..FeedLength |-> s[i]]
    BY <1>1, <1>2
  <2>4. Listed(s) \in Seq(Entries) /\ Len(Listed(s)) = FeedLength
    BY <1>1, <2>1, <2>2, <2>3
  <2>5. \A i \in 1..FeedLength : Listed(s)[i] = s[i]
    BY <2>2, <2>3
  <2> QED BY <1>1, <1>2, <2>4, <2>5 DEF Full
<1>3. CASE ~(Len(s) > FeedLength)
  BY <1>1, <1>3 DEF Listed, Full
<1> QED BY <1>2, <1>3

\* The feed with one more entry: what it lists, and what has become of the
\* entries it listed.
LEMMA FeedWithFacts ==
  ASSUME feed \in Seq(Entries), Descending(feed), OneEach(feed), NEW x \in Entries,
         \A i \in 1..Len(feed) : Later(x, feed[i])
  PROVE  LET l == FeedWith(x) IN
         /\ l \in Seq(Entries) /\ Len(l) <= FeedLength
         /\ Descending(l) /\ OneEach(l)
         /\ 1 \in 1..Len(l) /\ l[1] = x
         /\ \A i \in 1..Len(l) : l[i] = x \/ \E k \in 1..Len(feed) : l[i] = feed[k]
         /\ FeedLength <= Len(feed) => Full(l)
         /\ \A k \in 1..Len(feed) :
              \/ \E i \in 1..Len(l) : l[i] = feed[k]
              \/ SameTrail(x.event, feed[k].event)
              \/ Full(l) /\ \A i \in 1..Len(l) : Later(l[i], feed[k])
<1> DEFINE s == Longer(feed, x)
           l == Listed(s)
<1>1. FeedWith(x) = l
  BY DEF FeedWith, Longer
<1>2. /\ s \in Seq(Entries) /\ Descending(s) /\ OneEach(s)
      /\ Len(feed) <= Len(s) /\ 1 \in 1..Len(s) /\ s[1] = x
      /\ \A i \in 1..Len(s) : i = 1 \/ \E k \in 1..Len(feed) : s[i] = feed[k]
      /\ \A k \in 1..Len(feed) :
           ~SameTrail(x.event, feed[k].event) => \E i \in 1..Len(s) : s[i] = feed[k]
  BY LongerFeed
<1> HIDE DEF s
<1>3. /\ l \in Seq(Entries) /\ Len(l) <= FeedLength /\ Len(l) <= Len(s)
      /\ \A i \in 1..Len(l) : l[i] = s[i]
      /\ 1 \in 1..Len(l)
      /\ l = s \/ Full(l)
      /\ FeedLength <= Len(s) => Full(l)
  BY <1>2, ListedFacts
<1> HIDE DEF l
<1>4. Len(l) \in Nat /\ Len(s) \in Nat /\ Len(feed) \in Nat /\ FeedLength \in Nat
  BY <1>2, <1>3, DashboardAssumption
<1>5. \A i \in 1..Len(l) : i \in 1..Len(s)
  BY <1>3, <1>4
<1>6. Descending(l)
  BY <1>2, <1>3, <1>5 DEF Descending
<1>7. OneEach(l)
  BY <1>2, <1>3, <1>5 DEF OneEach
<1>8. l[1] = x
  BY <1>2, <1>3
<1>9. \A i \in 1..Len(l) : l[i] = x \/ \E k \in 1..Len(feed) : l[i] = feed[k]
  BY <1>2, <1>3, <1>5
<1>10. FeedLength <= Len(feed) => Full(l)
  BY <1>2, <1>3, <1>4
<1>11. ASSUME NEW k \in 1..Len(feed), ~SameTrail(x.event, feed[k].event),
              ~\E i \in 1..Len(l) : l[i] = feed[k]
       PROVE  Full(l) /\ \A i \in 1..Len(l) : Later(l[i], feed[k])
  <2>1. PICK j \in 1..Len(s) : s[j] = feed[k]
    BY <1>2, <1>11
  <2>2. j \notin 1..Len(l) /\ l # s
    BY <1>3, <1>11, <2>1
  <2>3. \A i \in 1..Len(l) : i < j
    BY <1>4, <2>2
  <2>4. \A i \in 1..Len(l) : Later(l[i], feed[k])
    BY <1>2, <1>3, <1>5, <2>1, <2>3 DEF Descending
  <2> QED BY <1>3, <2>2, <2>4
<1> QED BY <1>1, <1>3, <1>6, <1>7, <1>8, <1>9, <1>10, <1>11

-----------------------------------------------------------------------------
USE DEF engineVars

Inv == TypeOK /\ StreamInv /\ FlowInv /\ FeedInv

\* The answers on their way are counted.
LEMMA AnswersFinite ==
  ASSUME TypeOK
  PROVE  IsFiniteSet(answers) /\ Cardinality(answers) \in Nat
<1>1. IsFiniteSet(0..MaxEvents) /\ answers \in SUBSET (0..MaxEvents)
  BY DashboardAssumption, FS_Interval DEF TypeOK
<1>2. IsFiniteSet(answers)
  BY <1>1, FS_Subset
<1> QED BY <1>2, FS_CardinalityType

LEMMA InitTypes == Init => TypeOK /\ StreamInv
<1> SUFFICES ASSUME Init PROVE TypeOK /\ StreamInv
  OBVIOUS
<1>1. Cardinality({}) = 0
  BY FS_EmptySet
<1>2. <<>> \in Seq(Entries) /\ Len(<<>>) = 0
  OBVIOUS
<1>3. TypeOK
  <2>1. asked = 1 /\ answers = {} /\ asked + Cardinality(answers) <= MaxRequests
    BY <1>1, DashboardAssumption DEF Init
  <2>2. buffer = <<>> /\ feed = <<>> /\ Len(buffer) <= Buffer /\ Len(feed) <= FeedLength
    BY <1>2, DashboardAssumption DEF Init
  <2>3. /\ version \in [Pods -> 0..MaxEvents] /\ opened \in 0..(MaxFaults + 1)
        /\ shown \in 0..MaxEvents /\ faults \in 0..MaxFaults
    BY DashboardAssumption DEF Init
  <2>4. buffer \in Seq(Entries) /\ feed \in Seq(Entries)
    BY <1>2, <2>2
  <2>5. /\ subscribers \in [Pods -> SUBSET (1..opened)] /\ targets \in [Pods -> SUBSET (1..opened)]
        /\ answers \subseteq 0..MaxEvents /\ carried \subseteq Entries
        /\ stream \in {"none", "asked", "open", "dead"}
        /\ connection \in {"connecting", "live", "offline"} /\ refreshTimer \in BOOLEAN
    BY DEF Init
  <2> QED BY <2>1, <2>2, <2>3, <2>4, <2>5 DEF TypeOK
<1>4. StreamInv
  BY DashboardAssumption DEF Init, StreamInv
<1> QED BY <1>3, <1>4

\* The part of the state the requests are in.
Requests == asked \in Nat /\ asked + Cardinality(answers) <= MaxRequests /\ answers \subseteq 0..MaxEvents

LEMMA RequestsStep == TypeOK /\ [Next]_vars => Requests'
<1> SUFFICES ASSUME TypeOK, [Next]_vars PROVE Requests'
  OBVIOUS
<1> USE DEF Requests
<1>1. IsFiniteSet(answers) /\ Cardinality(answers) \in Nat
  BY AnswersFinite
<1>2. Requests /\ MaxRequests \in Nat /\ \A p \in Pods : version[p] \in 0..MaxEvents
  BY DashboardAssumption DEF TypeOK
<1>3. \A n \in answers : Cardinality(answers \ {n}) = Cardinality(answers) - 1
  BY <1>1, FS_RemoveElement
<1>4. ASSUME NEW p \in Pods, Answer(p) PROVE Requests'
  <2>1. Cardinality(answers \cup {version[p]}) <= Cardinality(answers) + 1
        /\ Cardinality(answers \cup {version[p]}) \in Nat
    BY <1>1, FS_AddElement
  <2>2. asked > 0 /\ asked' = asked - 1 /\ answers' = answers \cup {version[p]}
    BY <1>4 DEF Answer
  <2>3. asked' \in Nat /\ answers' \subseteq 0..MaxEvents
    <3>1. answers \subseteq 0..MaxEvents /\ version[p] \in 0..MaxEvents
      BY <1>2
    <3>2. answers' \subseteq 0..MaxEvents
      BY <2>2, <3>1
    <3>3. asked' \in Nat
      BY <1>2, <2>2
    <3> QED BY <3>2, <3>3
  <2>4. asked' + Cardinality(answers') <= MaxRequests
    BY <1>1, <1>2, <2>1, <2>2
  <2> QED BY <2>3, <2>4
<1>5. CASE Send /\ UNCHANGED answers
  BY <1>1, <1>2, <1>5 DEF Send
<1>6. ASSUME NEW n \in answers, answers' = answers \ {n}, asked' = asked PROVE Requests'
  BY <1>1, <1>2, <1>3, <1>6
<1>7. CASE asked > 0 /\ asked' = asked - 1 /\ UNCHANGED answers
  BY <1>1, <1>2, <1>7
<1>8. CASE UNCHANGED <<asked, answers>>
  BY <1>2, <1>8
<1>9. ASSUME NEW p \in Pods, Event(p) \/ Open(p) PROVE Requests'
  BY <1>8, <1>9 DEF Event, Open
<1>10. ASSUME NEW p \in Pods, NEW s \in Subscriptions, Offer(p, s) \/ Unsubscribe(p, s)
       PROVE  Requests'
  BY <1>8, <1>10 DEF Offer, Unsubscribe
<1>11. CASE StreamBreaks \/ Receive \/ UNCHANGED vars
  BY <1>8, <1>11 DEF StreamBreaks, Receive, vars
<1>12. CASE TimerFires \/ Poll \/ Command
  BY <1>5, <1>12 DEF TimerFires, Poll, Command
<1>13. ASSUME NEW n \in 0..MaxEvents, Arrive(n) PROVE Requests'
  BY <1>6, <1>13 DEF Arrive
<1>14. CASE FetchFails
  BY <1>6, <1>7, <1>14 DEF FetchFails
<1> QED BY <1>4, <1>9, <1>10, <1>11, <1>12, <1>13, <1>14 DEF Next

\* What an engine does when it emits keeps its part of the types.
LEMMA EmitTypes ==
  ASSUME TypeOK, StreamInv, NEW p \in Pods, Emit(p), UNCHANGED <<stream, faults>>
  PROVE  /\ version' \in [Pods -> 0..MaxEvents] /\ targets' \in [Pods -> SUBSET (1..opened)]
         /\ carried' \subseteq Entries /\ StreamInv'
         /\ UNCHANGED <<subscribers, opened, buffer>>
<1>1. /\ version' = [version EXCEPT ![p] = version[p] + 1]
      /\ targets' = [targets EXCEPT ![p] = subscribers[p]]
      /\ UNCHANGED <<subscribers, opened, buffer>>
  BY DEF Emit
<1>2. version[p] \in Nat /\ version[p] + 1 \in Events
  BY DashboardAssumption DEF TypeOK, Emit, Events
<1>3. version' \in [Pods -> 0..MaxEvents] /\ targets' \in [Pods -> SUBSET (1..opened)]
  BY <1>1, <1>2 DEF TypeOK, Events
<1>4. \A s \in subscribers[p] : s \in Subscriptions
  BY DashboardAssumption DEF TypeOK, Subscriptions
<1>5. carried' \subseteq Entries
  <2>1. \A s \in subscribers[p] : Entry(version[p] + 1, s) \in Entries
    BY <1>2, <1>4 DEF Entry, Entries
  <2> QED BY <2>1 DEF Emit, TypeOK
<1>6. \A q \in Pods : /\ targets'[q] = IF q = p THEN subscribers[p] ELSE targets[q]
                      /\ version'[q] = IF q = p THEN version[p] + 1 ELSE version[q]
  BY <1>1 DEF TypeOK
<1>7. StreamInv'
  BY <1>1, <1>2, <1>6 DEF StreamInv
<1> QED BY <1>1, <1>3, <1>5, <1>7

LEMMA OfferTypes ==
  ASSUME TypeOK, StreamInv, NEW p \in Pods, NEW s \in Subscriptions, Offer(p, s)
  PROVE  /\ targets' \in [Pods -> SUBSET (1..opened)]
         /\ \A q \in Pods : targets'[q] = IF q = p THEN targets[p] \ {s} ELSE targets[q]
         /\ Entry(version[p], s) \in Entries
         /\ buffer' \in Seq(Entries) /\ Len(buffer') <= Buffer
         /\ carried' \subseteq Entries
         /\ StreamInv'
<1>1. /\ s \in targets[p] /\ targets' = [targets EXCEPT ![p] = targets[p] \ {s}]
      /\ UNCHANGED <<version, subscribers, opened, stream, faults>>
  BY DEF Offer
<1>2. targets' \in [Pods -> SUBSET (1..opened)]
      /\ \A q \in Pods : targets'[q] = IF q = p THEN targets[p] \ {s} ELSE targets[q]
  BY <1>1 DEF TypeOK
<1>3. version[p] \in Events
  BY <1>1, DashboardAssumption DEF TypeOK, StreamInv, Events
<1>4. Entry(version[p], s) \in Entries
  BY <1>3 DEF Entry, Entries
<1>5. carried' \subseteq Entries
  BY <1>4 DEF Offer, TypeOK
<1>6. buffer' \in Seq(Entries) /\ Len(buffer') <= Buffer /\ (stream' # "open" => buffer' = <<>>)
  <2>1. CASE UNCHANGED buffer
    BY <1>1, <2>1 DEF TypeOK, StreamInv
  <2>2. CASE Live(s) /\ Len(buffer) < Buffer /\ buffer' = Append(buffer, Entry(version[p], s))
    <3>1. buffer \in Seq(Entries) /\ Len(buffer) \in Nat /\ stream = "open" /\ Buffer \in Nat
      BY <2>2, DashboardAssumption DEF TypeOK, Live
    <3>2. buffer' \in Seq(Entries) /\ Len(buffer') = Len(buffer) + 1
      BY <1>4, <2>2, <3>1
    <3> QED BY <1>1, <2>2, <3>1, <3>2
  <2> QED BY <2>1, <2>2 DEF Offer
<1>7. StreamInv'
  BY <1>1, <1>2, <1>6 DEF StreamInv
<1> QED BY <1>2, <1>4, <1>5, <1>6, <1>7

LEMMA TypeStep == Inv /\ [Next]_vars => TypeOK' /\ StreamInv'
<1> SUFFICES ASSUME Inv, [Next]_vars PROVE TypeOK' /\ StreamInv'
  OBVIOUS
<1> USE DEF Inv
<1>1. Requests'
  BY RequestsStep
<1>2. MaxEvents \in Nat /\ MaxFaults \in Nat /\ Buffer \in Nat
  BY DashboardAssumption
<1> USE DEF Requests
<1>3. ASSUME NEW p \in Pods, Event(p) PROVE TypeOK' /\ StreamInv'
  <2>1. Emit(p) /\ UNCHANGED <<stream, faults, shown, feed, refreshTimer, connection>>
    BY <1>3 DEF Event
  <2> QED BY <1>1, <2>1, EmitTypes DEF TypeOK
<1>4. CASE (\E p \in Pods : Answer(p)) \/ TimerFires \/ Poll \/ Command
  <2>1. UNCHANGED <<engineVars, stream, shown, feed, connection, faults>>
        /\ refreshTimer' \in BOOLEAN
    BY <1>4 DEF Answer, TimerFires, Poll, Command, TypeOK
  <2> QED BY <1>1, <2>1 DEF TypeOK, StreamInv
<1>5. ASSUME NEW p \in Pods, Open(p) PROVE TypeOK' /\ StreamInv'
  <2>1. /\ opened' = opened + 1 /\ subscribers' = [subscribers EXCEPT ![p] = @ \cup {opened + 1}]
        /\ stream = "asked" /\ stream' = "open" /\ connection' = "live"
        /\ UNCHANGED <<version, targets, buffer, carried, asked, answers, shown, feed,
                       refreshTimer, faults>>
    BY <1>5 DEF Open
  <2>2. opened \in Nat /\ opened' \in 0..(MaxFaults + 1) /\ opened' <= faults' + 1
    BY <1>2, <2>1 DEF TypeOK, StreamInv
  <2>3. \A q \in Pods : /\ subscribers[q] \subseteq 1..opened /\ targets[q] \subseteq 1..opened
                        /\ subscribers'[q] = IF q = p THEN subscribers[p] \cup {opened + 1}
                                             ELSE subscribers[q]
    BY <2>1 DEF TypeOK
  <2>4. subscribers' \in [Pods -> SUBSET (1..opened')] /\ targets' \in [Pods -> SUBSET (1..opened')]
    <3>1. 1..opened \subseteq 1..opened' /\ opened + 1 \in 1..opened'
      BY <2>1, <2>2
    <3> QED BY <2>1, <2>3, <3>1 DEF TypeOK
  <2>5. TypeOK'
    BY <1>1, <2>1, <2>2, <2>4 DEF TypeOK
  <2>6. \A q, r \in Pods : subscribers'[q] \cap subscribers'[r] # {} => q = r
    <3>1. \A q \in Pods : opened + 1 \notin subscribers[q]
      BY <2>2, <2>3
    <3> QED BY <2>3, <3>1 DEF StreamInv
  <2>7. \A q \in Pods : targets'[q] \subseteq subscribers'[q]
    BY <2>1, <2>3 DEF StreamInv
  <2>8. opened' \in subscribers'[p]
    BY <2>1, <2>3
  <2>9. StreamInv'
    BY <2>1, <2>2, <2>6, <2>7, <2>8 DEF StreamInv
  <2> QED BY <2>5, <2>9
<1>6. ASSUME NEW p \in Pods, NEW s \in Subscriptions, Offer(p, s) PROVE TypeOK' /\ StreamInv'
  <2>1. UNCHANGED <<version, subscribers, opened, stream, asked, answers, shown, feed, refreshTimer,
                    connection, faults>>
    BY <1>6 DEF Offer
  <2> QED BY <1>1, <1>6, <2>1, OfferTypes DEF TypeOK
<1>7. ASSUME NEW p \in Pods, NEW s \in Subscriptions, Unsubscribe(p, s)
      PROVE  TypeOK' /\ StreamInv'
  <2>1. /\ ~Live(s) /\ targets[p] = {} /\ subscribers' = [subscribers EXCEPT ![p] = @ \ {s}]
        /\ UNCHANGED <<version, targets, opened, buffer, carried, stream, asked, answers, shown,
                       feed, refreshTimer, connection, faults>>
    BY <1>7 DEF Unsubscribe, Unlocked
  <2>2. \A q \in Pods : subscribers'[q] = IF q = p THEN subscribers[p] \ {s} ELSE subscribers[q]
    BY <2>1 DEF TypeOK
  <2>3. TypeOK'
    <3>1. subscribers' \in [Pods -> SUBSET (1..opened)]
      BY <2>1 DEF TypeOK
    <3> QED BY <1>1, <2>1, <3>1 DEF TypeOK
  <2>4. stream' = "open" => \E q \in Pods : opened \in subscribers'[q]
    BY <2>1, <2>2 DEF Live, StreamInv
  <2>5. StreamInv'
    BY <2>1, <2>2, <2>4 DEF StreamInv
  <2> QED BY <2>3, <2>5
<1>8. ASSUME NEW n \in 0..MaxEvents, Arrive(n) PROVE TypeOK' /\ StreamInv'
  <2>1. /\ UNCHANGED <<engineVars, asked, feed, refreshTimer, faults>> /\ shown' = n
        /\ IF stream = "none" THEN stream' = "asked" /\ connection' = "connecting"
           ELSE UNCHANGED <<stream, connection>>
    BY <1>8 DEF Arrive, Connect
  <2> QED BY <1>1, <1>2, <2>1 DEF TypeOK, StreamInv
<1>9. CASE FetchFails
  <2>1. /\ UNCHANGED <<engineVars, shown, feed, refreshTimer>>
        /\ IF stream = "none" THEN stream' = "asked" /\ connection' = "connecting"
           ELSE connection' = "offline" /\ UNCHANGED stream
    BY <1>9 DEF FetchFails, Connect
  <2>2. faults' \in 0..MaxFaults /\ faults' = faults + 1
    BY <1>2, <1>9 DEF FetchFails, Fault, TypeOK
  <2> QED BY <1>1, <1>2, <2>1, <2>2 DEF TypeOK, StreamInv
<1>10. CASE StreamBreaks
  <2>1. faults' \in 0..MaxFaults /\ faults' = faults + 1 /\ opened <= faults' /\ opened \in Nat
    BY <1>2, <1>10 DEF StreamBreaks, Fault, TypeOK, StreamInv
  <2>2. carried' \subseteq Entries
    BY <1>10 DEF StreamBreaks, Received, TypeOK
  <2>3. buffer' = <<>> /\ <<>> \in Seq(Entries) /\ Len(<<>>) = 0
    BY <1>10 DEF StreamBreaks
  <2>4. stream' \in {"asked", "dead"} /\ connection' = "offline"
        /\ UNCHANGED <<version, subscribers, targets, opened, asked, answers, shown, feed,
                       refreshTimer>>
    BY <1>10 DEF StreamBreaks
  <2>5. TypeOK'
    BY <1>1, <1>2, <2>1, <2>2, <2>3, <2>4 DEF TypeOK
  <2>6. StreamInv'
    BY <2>1, <2>3, <2>4 DEF StreamInv
  <2> QED BY <2>5, <2>6
<1>11. CASE Receive
  <2>1. buffer \in Seq(Entries) /\ buffer # <<>> /\ buffer' = Tail(buffer)
    BY <1>11 DEF Receive, TypeOK
  <2>2. buffer' \in Seq(Entries) /\ Len(buffer') = Len(buffer) - 1 /\ Len(buffer') <= Buffer
    BY <1>2, <2>1 DEF TypeOK
  <2>3. Head(buffer) \in Entries /\ Head(buffer) = buffer[1] /\ 1 \in 1..Len(buffer)
    BY <2>1
  <2>4. \A i \in 1..Len(feed) : Later(Head(buffer), feed[i])
    BY <2>3 DEF FlowInv
  <2>5. FeedWith(Head(buffer)) \in Seq(Entries) /\ Len(FeedWith(Head(buffer))) <= FeedLength
    BY <2>3, <2>4, FeedWithFacts DEF TypeOK, FeedInv
  <2>6. feed' \in Seq(Entries) /\ Len(feed') <= FeedLength
    BY <1>11, <2>5 DEF Receive
  <2>7. UNCHANGED <<version, subscribers, targets, opened, carried, stream, asked, answers, shown,
                    connection, faults>> /\ stream = "open" /\ refreshTimer' = TRUE
    BY <1>11 DEF Receive
  <2> QED BY <1>1, <2>2, <2>6, <2>7 DEF TypeOK, StreamInv
<1>12. CASE UNCHANGED vars
  BY <1>12 DEF vars, TypeOK, StreamInv
<1> QED BY <1>3, <1>4, <1>5, <1>6, <1>7, <1>8, <1>9, <1>10, <1>11, <1>12 DEF Next

-----------------------------------------------------------------------------
(***************************************************************************)
(* Where the events are.                                                   *)
(***************************************************************************)

\* Only the pod that serves the newest subscription can have it to do.
LEMMA DueIs ==
  ASSUME NEW v, NEW o, NEW t, NEW s, NEW p \in Pods,
         \A q \in Pods : t[q] \subseteq s[q],
         \A q, r \in Pods : s[q] \cap s[r] # {} => q = r,
         o \in s[p]
  PROVE  {Entry(v[q], o) : q \in {r \in Pods : o \in t[r]}}
           = IF o \in t[p] THEN {Entry(v[p], o)} ELSE {}
<1>1. ASSUME NEW q \in Pods, o \in t[q] PROVE q = p
  <2>1. o \in s[q] \cap s[p]
    BY <1>1
  <2> QED BY <2>1
<1>2. {r \in Pods : o \in t[r]} = IF o \in t[p] THEN {p} ELSE {}
  BY <1>1
<1> QED BY <1>2

\* The types a proof about the flow needs.
LEMMA FlowTypes ==
  ASSUME Inv
  PROVE  /\ opened \in Nat /\ Len(buffer) \in Nat /\ Len(feed) \in Nat
         /\ \A p \in Pods : version[p] \in Nat
         /\ buffer \in Seq(Entries) /\ feed \in Seq(Entries) /\ carried \subseteq Entries
         /\ \A i \in 1..Len(buffer) : buffer[i] \in Entries
         /\ \A i \in 1..Len(feed) : feed[i] \in Entries
         /\ \A x \in Entries : x.stream \in Nat /\ x.event \in Nat
<1>1. MaxEvents \in Nat /\ MaxFaults \in Nat
  BY DashboardAssumption
<1>2. \A x \in Entries : x.stream \in Nat /\ x.event \in Nat
  BY <1>1 DEF Entries, Events, Subscriptions
<1>3. opened \in Nat /\ \A p \in Pods : version[p] \in Nat
  BY <1>1 DEF Inv, TypeOK
<1>4. buffer \in Seq(Entries) /\ feed \in Seq(Entries) /\ carried \subseteq Entries
  BY DEF Inv, TypeOK
<1> QED BY <1>2, <1>3, <1>4

\* A step of the requests, or of a handler that removes its subscription.
LEMMA FlowFrame ==
  ASSUME UNCHANGED <<version, targets, opened, buffer, feed, carried>>,
         stream' = "open" <=> stream = "open",
         \A p \in Pods : subscribers'[p] \subseteq subscribers[p]
  PROVE  (FlowInv => FlowInv') /\ (FeedInv => FeedInv')
<1>1. Due' = Due
  BY DEF Due
<1>2. Received' = Received
  BY <1>1 DEF Received
<1>3. CarriedInv => CarriedInv'
  BY DEF CarriedInv
<1>4. FlowInv => FlowInv'
  BY <1>1, <1>3 DEF FlowInv
<1>5. FeedInv => FeedInv'
  BY <1>2 DEF FeedInv, Kept, Full, Members, Descending, OneEach
<1> QED BY <1>4, <1>5

LEMMA InitFlow == Init => FlowInv /\ FeedInv
<1> SUFFICES ASSUME Init PROVE FlowInv /\ FeedInv
  OBVIOUS
<1>1. carried = {} /\ \A p \in Pods : targets[p] = {}
  BY DEF Init
<1>2. Due = {} /\ Received = {}
  BY <1>1 DEF Due, Received
<1>3. buffer = <<>> /\ feed = <<>>
  BY DEF Init
<1>4. Len(buffer) = 0 /\ Len(feed) = 0
  BY <1>3
<1>5. FlowInv
  BY <1>1, <1>2, <1>4 DEF FlowInv, CarriedInv
<1>6. FeedInv
  BY <1>2, <1>4 DEF FeedInv, Descending, OneEach
<1> QED BY <1>5, <1>6

\* A step that leaves the feed, and what has been received, as they are.
LEMMA FeedFrame ==
  ASSUME FeedInv, UNCHANGED feed, Received' = Received
  PROVE  FeedInv'
BY DEF FeedInv, Kept, Full, Members, Descending, OneEach

\* What an emission adds to the newest stream.
LEMMA EmitDue ==
  ASSUME Inv, NEW p \in Pods, Emit(p), UNCHANGED stream
  PROVE  LET e == Entry(version[p] + 1, opened) IN
         \/ opened \notin subscribers[p] /\ Due' = Due /\ carried' = carried
         \/ /\ opened \in subscribers[p] /\ Due = {} /\ Due' = {e}
            /\ carried' = IF stream = "open" THEN carried \cup {e} ELSE carried
<1> DEFINE e == Entry(version[p] + 1, opened)
<1>1. /\ targets[p] = {} /\ UNCHANGED <<subscribers, opened, buffer>>
      /\ \A q \in Pods : /\ targets'[q] = IF q = p THEN subscribers[p] ELSE targets[q]
                         /\ version'[q] = IF q = p THEN version[p] + 1 ELSE version[q]
  BY DEF Emit, Unlocked, Inv, TypeOK
<1>2. carried' = carried \cup {Entry(version[p] + 1, s) : s \in {t \in subscribers[p] : Live(t)}}
  BY DEF Emit
<1>3. CASE opened \notin subscribers[p]
  <2>1. {t \in subscribers[p] : Live(t)} = {}
    BY <1>3 DEF Live
  <2>2. carried' = carried
    BY <1>2, <2>1
  <2>3. {q \in Pods : opened' \in targets'[q]} = {q \in Pods : opened \in targets[q]}
    BY <1>1, <1>3
  <2>4. \A q \in {r \in Pods : opened \in targets[r]} : version'[q] = version[q]
    BY <1>1
  <2>5. Due' = Due
    BY <1>1, <2>3, <2>4 DEF Due
  <2> QED BY <1>3, <2>2, <2>5
<1>4. CASE opened \in subscribers[p]
  <2>1. {t \in subscribers[p] : Live(t)} = IF stream = "open" THEN {opened} ELSE {}
    BY <1>4 DEF Live
  <2>2. carried' = IF stream = "open" THEN carried \cup {e} ELSE carried
    BY <1>2, <2>1
  <2>3. /\ \A q \in Pods : targets[q] \subseteq subscribers[q]
        /\ \A q \in Pods : targets'[q] \subseteq subscribers[q]
        /\ \A q, r \in Pods : subscribers[q] \cap subscribers[r] # {} => q = r
    BY <1>1 DEF Inv, StreamInv
  <2>4. Due = {}
    BY <1>1, <1>4, <2>3, DueIs DEF Due
  <2>5. Due' = {Entry(version'[p], opened)}
    BY <1>1, <1>4, <2>3, DueIs DEF Due
  <2> QED BY <1>1, <1>4, <2>2, <2>4, <2>5
<1> QED BY <1>3, <1>4

\* It comes after all the newest stream has carried.
LEMMA EmitLater ==
  ASSUME Inv, NEW p \in Pods, Emit(p), opened \in subscribers[p]
  PROVE  LET e == Entry(version[p] + 1, opened) IN
         e \in Entries /\ e \notin carried /\ \A x \in carried : Later(e, x)
<1> DEFINE e == Entry(version[p] + 1, opened)
<1>1. version[p] \in Nat /\ version[p] + 1 \in Events
  BY DashboardAssumption DEF Emit, Inv, TypeOK, Events
<1>2. opened \in Subscriptions
  BY DashboardAssumption DEF Inv, TypeOK, Subscriptions
<1>3. e \in Entries /\ e.event = version[p] + 1 /\ e.stream = opened
  BY <1>1, <1>2 DEF Entry, Entries
<1>4. ASSUME NEW x \in carried PROVE Later(e, x)
  <2>1. x.stream <= opened /\ (x.stream = opened => x.event <= version[p])
    BY DEF Inv, FlowInv, CarriedInv
  <2>2. x.stream \in Nat /\ x.event \in Nat /\ opened \in Nat
    BY FlowTypes
  <2> HIDE DEF e
  <2> QED BY <1>1, <1>3, <2>1, <2>2 DEF Later
<1>5. e \notin carried
  BY <1>3, <1>4, LaterOrder
<1> QED BY <1>3, <1>4, <1>5

LEMMA EmitFlow ==
  ASSUME Inv, NEW p \in Pods, Emit(p), UNCHANGED <<stream, feed>>
  PROVE  FlowInv'
<1>1. /\ UNCHANGED <<subscribers, opened, buffer, stream, feed>>
      /\ \A q \in Pods : version'[q] = IF q = p THEN version[p] + 1 ELSE version[q]
  BY DEF Emit, Inv, TypeOK
<1>2. \A q \in Pods : version[q] \in Nat
  BY FlowTypes
<1>3. \A x \in Entries : x.stream \in Nat /\ x.event \in Nat
  BY FlowTypes
<1>4. carried \subseteq Entries
  BY FlowTypes
<1>5. CASE opened \notin subscribers[p] /\ Due' = Due /\ carried' = carried
  <2>1. CarriedInv'
    <3> SUFFICES ASSUME NEW x \in carried, NEW q \in Pods, x.stream = opened, opened \in subscribers[q]
                 PROVE  x.event <= version'[q]
      BY <1>1, <1>5 DEF Inv, FlowInv, CarriedInv
    <3>1. x.event <= version[q]
      BY DEF Inv, FlowInv, CarriedInv
    <3> QED BY <1>1, <1>5, <3>1
  <2> QED BY <1>1, <1>5, <2>1 DEF Inv, FlowInv
<1>6. ASSUME NEW e, e = Entry(version[p] + 1, opened), opened \in subscribers[p], Due' = {e},
             carried' = IF stream = "open" THEN carried \cup {e} ELSE carried
      PROVE  FlowInv'
  <2>1. e \notin carried /\ \A x \in carried : Later(e, x)
    BY <1>6, EmitLater
  <2>2. e.event = version[p] + 1 /\ e.stream = opened
    BY <1>6 DEF Entry
  <2>3. \A q \in Pods : opened \in subscribers[q] => q = p
    BY <1>6 DEF Inv, StreamInv
  <2>4. \A x \in carried' : x \in carried \/ x = e
    BY <1>6
  <2>5. CarriedInv'
    <3> SUFFICES ASSUME NEW x \in carried'
                 PROVE  /\ x.stream <= opened
                        /\ x.stream = opened => x.event <= version'[p]
      BY <1>1, <2>3 DEF CarriedInv
    <3>1. CASE x \in carried
      <4>1. x.stream <= opened /\ (x.stream = opened => x.event <= version[p])
        BY <1>6, <3>1 DEF Inv, FlowInv, CarriedInv
      <4>2. x.event \in Nat
        BY <1>3, <1>4, <3>1
      <4> QED BY <1>1, <1>2, <4>1, <4>2
    <3>2. CASE x = e
      <4>1. opened \in Nat /\ version'[p] = version[p] + 1
        BY <1>1, FlowTypes
      <4> QED BY <1>2, <2>2, <3>2, <4>1
    <3> QED BY <2>4, <3>1, <3>2
  <2>6. /\ \A i \in 1..Len(buffer) : buffer[i] \in carried
        /\ \A i \in 1..Len(feed) : feed[i] \in carried
    BY DEF Inv, FlowInv
  <2>7. /\ e \in carried' <=> stream = "open"
        /\ \A i \in 1..Len(buffer) : Later(e, buffer[i])
        /\ \A i \in 1..Len(feed) : Later(e, feed[i])
    BY <1>6, <2>1, <2>6
  <2> QED BY <1>1, <1>6, <2>5, <2>6, <2>7 DEF Inv, FlowInv
<1> QED BY <1>5, <1>6, EmitDue

LEMMA EmitFeed ==
  ASSUME Inv, NEW p \in Pods, Emit(p), UNCHANGED <<stream, feed>>
  PROVE  FeedInv'
<1>1. UNCHANGED buffer
  BY DEF Emit
<1>2. CASE Due' = Due /\ carried' = carried
  BY <1>1, <1>2, FeedFrame DEF Received, Inv
<1>3. ASSUME NEW e, e = Entry(version[p] + 1, opened), opened \in subscribers[p], Due = {}, Due' = {e},
             carried' = IF stream = "open" THEN carried \cup {e} ELSE carried
      PROVE  FeedInv'
  <2>1. e \notin carried
    BY <1>3, EmitLater
  <2>2. Received' = Received
    BY <1>1, <1>3, <2>1 DEF Received
  <2> QED BY <2>2, FeedFrame DEF Inv
<1> QED BY <1>2, <1>3, EmitDue

\* What an offer leaves to be done.
LEMMA OfferDue ==
  ASSUME Inv, NEW p \in Pods, NEW s, s \in targets[p],
         \A q \in Pods : targets'[q] = IF q = p THEN targets[p] \ {s} ELSE targets[q],
         UNCHANGED <<version, subscribers, opened>>
  PROVE  IF s = opened THEN Due = {Entry(version[p], s)} /\ Due' = {} ELSE Due' = Due
<1>1. /\ \A q \in Pods : targets[q] \subseteq subscribers[q]
      /\ \A q \in Pods : targets'[q] \subseteq subscribers[q]
      /\ \A q, r \in Pods : subscribers[q] \cap subscribers[r] # {} => q = r
  BY DEF Inv, StreamInv
<1>2. CASE s = opened
  <2>1. opened \in subscribers[p] /\ opened \notin targets'[p]
    BY <1>1, <1>2
  <2>2. Due = {Entry(version[p], s)}
    BY <1>1, <1>2, <2>1, DueIs DEF Due
  <2>3. Due' = {}
    BY <1>1, <2>1, DueIs DEF Due
  <2> QED BY <1>2, <2>2, <2>3
<1>3. CASE s # opened
  <2>1. {q \in Pods : opened' \in targets'[q]} = {q \in Pods : opened \in targets[q]}
    BY <1>3
  <2> QED BY <1>3, <2>1 DEF Due
<1> QED BY <1>2, <1>3

LEMMA OfferFlow ==
  ASSUME Inv, NEW p \in Pods, NEW s \in Subscriptions, Offer(p, s)
  PROVE  FlowInv'
<1> DEFINE e == Entry(version[p], s)
<1>1. s \in targets[p] /\ UNCHANGED <<version, subscribers, opened, stream, feed>>
  BY DEF Offer
<1>2. IF s = opened THEN Due = {e} /\ Due' = {} ELSE Due' = Due
  BY <1>1, OfferTypes, OfferDue DEF Inv
<1>3. e \in Entries
  BY OfferTypes DEF Inv
<1>4. CASE UNCHANGED <<buffer, carried>>
  <2>1. Due' \subseteq Due
    BY <1>2
  <2>2. CarriedInv'
    BY <1>1, <1>4 DEF Inv, FlowInv, CarriedInv
  <2> QED BY <1>1, <1>4, <2>1, <2>2 DEF Inv, FlowInv
<1>5. CASE Live(s) /\ carried' = carried \ {e} /\ UNCHANGED buffer
  <2>1. e \in Due /\ Due' = {}
    BY <1>2, <1>5 DEF Live
  <2>2. \A i \in 1..Len(buffer) : buffer[i] # e
    <3>1. \A i \in 1..Len(buffer) : Later(e, buffer[i])
      BY <2>1 DEF Inv, FlowInv
    <3> QED BY <1>3, <3>1, LaterOrder
  <2>3. \A i \in 1..Len(feed) : feed[i] # e
    <3>1. \A i \in 1..Len(feed) : Later(e, feed[i])
      BY <2>1 DEF Inv, FlowInv
    <3> QED BY <1>3, <3>1, LaterOrder
  <2>4. CarriedInv'
    BY <1>1, <1>5 DEF Inv, FlowInv, CarriedInv
  <2> HIDE DEF e
  <2> QED BY <1>1, <1>5, <2>1, <2>2, <2>3, <2>4 DEF Inv, FlowInv
<1>6. CASE Live(s) /\ buffer' = Append(buffer, e) /\ UNCHANGED carried
  <2>1. e \in Due /\ Due' = {} /\ stream = "open"
    BY <1>2, <1>6 DEF Live
  <2>2. /\ e \in carried
        /\ \A i \in 1..Len(buffer) : Later(e, buffer[i])
        /\ \A i \in 1..Len(feed) : Later(e, feed[i])
    BY <2>1 DEF Inv, FlowInv
  <2> HIDE DEF e
  <2>3. /\ Len(buffer) \in Nat /\ Len(buffer') = Len(buffer) + 1
        /\ buffer'[Len(buffer) + 1] = e
        /\ \A i \in 1..Len(buffer) : buffer'[i] = buffer[i]
    BY <1>3, <1>6, FlowTypes
  <2>4. \A i \in 1..Len(buffer') : i \in 1..Len(buffer) \/ i = Len(buffer) + 1
    BY <2>3
  <2>5. \A i, j \in 1..Len(buffer') : i < j => Later(buffer'[j], buffer'[i])
    <3> SUFFICES ASSUME NEW i \in 1..Len(buffer'), NEW j \in 1..Len(buffer'), i < j
                 PROVE  Later(buffer'[j], buffer'[i])
      OBVIOUS
    <3>1. i \in 1..Len(buffer) /\ buffer'[i] = buffer[i]
      BY <2>3
    <3>2. CASE j \in 1..Len(buffer)
      BY <2>3, <3>1, <3>2 DEF Inv, FlowInv
    <3>3. CASE j = Len(buffer) + 1
      BY <2>2, <2>3, <3>1, <3>3
    <3> QED BY <2>4, <3>2, <3>3
  <2>6. \A i \in 1..Len(buffer') : buffer'[i] \in carried'
    BY <1>6, <2>2, <2>3, <2>4 DEF Inv, FlowInv
  <2>7. \A i \in 1..Len(feed'), j \in 1..Len(buffer') : Later(buffer'[j], feed'[i])
    BY <1>1, <2>2, <2>3, <2>4 DEF Inv, FlowInv
  <2>8. CarriedInv'
    BY <1>1, <1>6 DEF Inv, FlowInv, CarriedInv
  <2> QED BY <1>1, <1>6, <2>1, <2>5, <2>6, <2>7, <2>8 DEF Inv, FlowInv
<1> QED BY <1>4, <1>5, <1>6 DEF Offer

LEMMA OfferFeed ==
  ASSUME Inv, NEW p \in Pods, NEW s \in Subscriptions, Offer(p, s)
  PROVE  FeedInv'
<1> DEFINE e == Entry(version[p], s)
<1>1. s \in targets[p] /\ UNCHANGED <<version, subscribers, opened, stream, feed>>
  BY DEF Offer
<1>2. IF s = opened THEN Due = {e} /\ Due' = {} ELSE Due' = Due
  BY <1>1, OfferTypes, OfferDue DEF Inv
<1> HIDE DEF e
<1>3. CASE ~Live(s) /\ UNCHANGED <<buffer, carried>>
  <2>1. ASSUME s # opened PROVE Received' = Received
    BY <1>2, <1>3, <2>1 DEF Received
  <2>2. ASSUME s = opened PROVE Received' = Received
    <3>1. Due = {e} /\ Due' = {} /\ e \notin carried
      BY <1>2, <1>3, <2>2 DEF Live, Inv, FlowInv
    <3> QED BY <1>3, <3>1 DEF Received
  <2>3. Received' = Received
    BY <2>1, <2>2
  <2> QED BY <1>1, <2>3, FeedFrame DEF Inv
<1>4. CASE Live(s) /\ carried' = carried \ {e} /\ UNCHANGED buffer
  <2>1. Due = {e} /\ Due' = {}
    BY <1>2, <1>4 DEF Live
  <2>2. Received' = Received
    BY <1>4, <2>1 DEF Received
  <2> QED BY <1>1, <2>2, FeedFrame DEF Inv
<1>5. CASE Live(s) /\ buffer' = Append(buffer, e) /\ UNCHANGED carried
  <2>1. Due = {e} /\ Due' = {}
    BY <1>2, <1>5 DEF Live
  <2>2. Members(buffer)' = Members(buffer) \cup {e}
    <3>1. e \in Entries
      BY OfferTypes DEF Inv, e
    <3>2. /\ Len(buffer) \in Nat /\ Len(buffer') = Len(buffer) + 1
          /\ buffer'[Len(buffer) + 1] = e
          /\ \A i \in 1..Len(buffer) : buffer'[i] = buffer[i]
      BY <1>5, <3>1, FlowTypes
    <3>3. 1..Len(buffer') = 1..Len(buffer) \cup {Len(buffer) + 1}
      BY <3>2
    <3> QED BY <3>2, <3>3 DEF Members
  <2>3. Received' = Received
    BY <1>5, <2>1, <2>2 DEF Received
  <2> QED BY <1>1, <2>3, FeedFrame DEF Inv
<1> QED BY <1>3, <1>4, <1>5 DEF Offer, e

\* What a stream that ends had still to bring is no longer counted.
LEMMA BreakFlow ==
  ASSUME Inv, StreamBreaks
  PROVE  FlowInv' /\ FeedInv'
<1>1. /\ carried' = Received /\ buffer' = <<>> /\ stream' # "open"
      /\ UNCHANGED <<version, subscribers, targets, opened, feed>>
  BY DEF StreamBreaks
<1>2. Due' = Due /\ Members(buffer)' = {} /\ Len(buffer') = 0
  BY <1>1 DEF Due, Members
<1>3. carried' \subseteq carried /\ carried' \cap Due = {}
  BY <1>1 DEF Received
<1>4. Received' = Received
  BY <1>1, <1>2 DEF Received
<1>5. ASSUME NEW i \in 1..Len(feed) PROVE feed[i] \in carried'
  <2>1. feed[i] \in carried /\ feed[i] \in Entries
    BY FlowTypes DEF Inv, FlowInv
  <2>2. feed[i] \notin Members(buffer)
    <3> SUFFICES ASSUME NEW j \in 1..Len(buffer), buffer[j] = feed[i] PROVE FALSE
      BY DEF Members
    <3>1. Later(buffer[j], feed[i])
      BY DEF Inv, FlowInv
    <3> QED BY <2>1, <3>1, LaterOrder
  <2>3. feed[i] \notin Due
    <3> SUFFICES ASSUME feed[i] \in Due PROVE FALSE
      OBVIOUS
    <3>1. Later(feed[i], feed[i])
      BY DEF Inv, FlowInv
    <3> QED BY <2>1, <3>1, LaterOrder
  <2> QED BY <1>1, <2>1, <2>2, <2>3 DEF Received
<1>6. CarriedInv'
  BY <1>1, <1>3 DEF Inv, FlowInv, CarriedInv
<1>7. \A x \in Due : x \notin carried' /\ \A i \in 1..Len(feed) : Later(x, feed[i])
  BY <1>3 DEF Inv, FlowInv
<1>8. FlowInv'
  BY <1>1, <1>2, <1>5, <1>6, <1>7 DEF FlowInv
<1>9. FeedInv'
  BY <1>1, <1>4, FeedFrame DEF Inv
<1> QED BY <1>8, <1>9

\* A new stream has carried nothing yet, and is later than all there were.
LEMMA OpenFlow ==
  ASSUME Inv, NEW p \in Pods, Open(p)
  PROVE  FlowInv' /\ FeedInv'
<1>1. /\ opened' = opened + 1 /\ stream = "asked"
      /\ UNCHANGED <<version, targets, buffer, feed, carried>>
  BY DEF Open
<1>2. opened \in Nat /\ \A q \in Pods : targets[q] \subseteq 1..opened
  BY FlowTypes DEF Inv, TypeOK
<1>3. \A q \in Pods : opened' \notin targets'[q]
  BY <1>1, <1>2
<1>4. Due' = {}
  BY <1>3 DEF Due
<1>5. buffer = <<>> /\ Due \cap carried = {}
  BY <1>1 DEF Inv, StreamInv, FlowInv
<1>6. Members(buffer) = {} /\ Len(buffer) = 0
  BY <1>5 DEF Members
<1>7. Received = carried /\ Received' = carried
  BY <1>1, <1>4, <1>5, <1>6 DEF Received, Members
<1>8. CarriedInv'
  <2> SUFFICES ASSUME NEW x \in carried PROVE x.stream <= opened' /\ x.stream # opened'
    BY <1>1 DEF CarriedInv
  <2>1. x.stream <= opened /\ x.stream \in Nat
    BY FlowTypes DEF Inv, FlowInv, CarriedInv
  <2> QED BY <1>1, <1>2, <2>1
<1>9. FlowInv'
  BY <1>1, <1>4, <1>6, <1>8 DEF Inv, FlowInv
<1> QED BY <1>1, <1>7, <1>9, FeedFrame DEF Inv

\* The entry that is received, and the channel it leaves.
LEMMA ReceivedEntry ==
  ASSUME Inv, Receive
  PROVE  LET h == Head(buffer) IN
         /\ h \in Entries /\ h = buffer[1] /\ 1 \in 1..Len(buffer)
         /\ Len(buffer') \in Nat
         /\ \A i \in 1..Len(buffer') : i + 1 \in 1..Len(buffer) /\ buffer'[i] = buffer[i + 1]
         /\ \A i \in 1..Len(buffer) : i # 1 => i - 1 \in 1..Len(buffer') /\ buffer'[i - 1] = buffer[i]
         /\ feed' = FeedWith(h)
         /\ UNCHANGED <<version, subscribers, targets, opened, carried, stream>>
<1>1. buffer \in Seq(Entries) /\ buffer # <<>> /\ buffer' = Tail(buffer)
  BY DEF Receive, Inv, TypeOK
<1>2. Len(buffer) \in Nat /\ Len(buffer) > 0 /\ Len(buffer') = Len(buffer) - 1
      /\ Head(buffer) = buffer[1] /\ buffer[1] \in Entries
  BY <1>1
<1>3. \A i \in 1..Len(buffer') : buffer'[i] = buffer[i + 1]
  BY <1>1, <1>2
<1>4. \A i \in 1..Len(buffer) : i # 1 => i - 1 \in 1..Len(buffer') /\ (i - 1) + 1 = i
  BY <1>2
<1>5. \A i \in 1..Len(buffer) : i # 1 => buffer'[i - 1] = buffer[i]
  BY <1>3, <1>4
<1>6. \A i \in 1..Len(buffer') : i + 1 \in 1..Len(buffer)
  BY <1>2
<1>7. Len(buffer') \in Nat /\ 1 \in 1..Len(buffer)
  BY <1>2
<1>8. feed' = FeedWith(Head(buffer))
      /\ UNCHANGED <<version, subscribers, targets, opened, carried, stream>>
  BY DEF Receive
<1> QED BY <1>2, <1>3, <1>4, <1>5, <1>6, <1>7, <1>8

\* What the feed lists after it.
LEMMA ReceivedFeed ==
  ASSUME Inv, Receive
  PROVE  LET h == Head(buffer) IN
         /\ feed' \in Seq(Entries) /\ Descending(feed') /\ OneEach(feed')
         /\ 1 \in 1..Len(feed') /\ feed'[1] = h
         /\ \A i \in 1..Len(feed') : feed'[i] = h \/ \E k \in 1..Len(feed) : feed'[i] = feed[k]
         /\ FeedLength <= Len(feed) => Full(feed')
         /\ \A k \in 1..Len(feed) :
              \/ \E i \in 1..Len(feed') : feed'[i] = feed[k]
              \/ SameTrail(h.event, feed[k].event)
              \/ Full(feed') /\ \A i \in 1..Len(feed') : Later(feed'[i], feed[k])
<1>1. /\ Head(buffer) \in Entries /\ Head(buffer) = buffer[1] /\ 1 \in 1..Len(buffer)
      /\ feed' = FeedWith(Head(buffer))
  BY ReceivedEntry
<1>2. \A i \in 1..Len(feed) : Later(Head(buffer), feed[i])
  BY <1>1 DEF Inv, FlowInv
<1>3. feed \in Seq(Entries) /\ Descending(feed) /\ OneEach(feed)
  BY FlowTypes DEF Inv, FeedInv
<1> QED BY <1>1, <1>2, <1>3, FeedWithFacts

LEMMA ReceiveFlow ==
  ASSUME Inv, Receive
  PROVE  FlowInv'
<1> DEFINE h == Head(buffer)
<1>1. /\ h \in Entries /\ h = buffer[1] /\ 1 \in 1..Len(buffer)
      /\ Len(buffer') \in Nat /\ Len(buffer) \in Nat
      /\ \A i \in 1..Len(buffer') : i + 1 \in 1..Len(buffer) /\ buffer'[i] = buffer[i + 1]
      /\ UNCHANGED <<version, subscribers, targets, opened, carried, stream>>
  BY ReceivedEntry, FlowTypes
<1>2. \A i \in 1..Len(feed') : feed'[i] = h \/ \E k \in 1..Len(feed) : feed'[i] = feed[k]
  BY ReceivedFeed
<1> HIDE DEF h
<1>3. Due' = Due /\ (CarriedInv => CarriedInv')
  BY <1>1 DEF Due, CarriedInv
<1> USE DEF Inv, FlowInv
<1>4. \A i, j \in 1..Len(buffer') : i < j => Later(buffer'[j], buffer'[i])
  <2> SUFFICES ASSUME NEW i \in 1..Len(buffer'), NEW j \in 1..Len(buffer'), i < j
               PROVE  Later(buffer'[j], buffer'[i])
    OBVIOUS
  <2>1. i + 1 \in 1..Len(buffer) /\ j + 1 \in 1..Len(buffer) /\ i + 1 < j + 1
    BY <1>1
  <2> QED BY <1>1, <2>1
<1>5. \A i \in 1..Len(buffer') : buffer'[i] \in carried'
  BY <1>1
<1>6. \A i \in 1..Len(feed') : feed'[i] \in carried'
  BY <1>1, <1>2
<1>7. \A i \in 1..Len(feed'), j \in 1..Len(buffer') : Later(buffer'[j], feed'[i])
  <2> SUFFICES ASSUME NEW i \in 1..Len(feed'), NEW j \in 1..Len(buffer')
               PROVE  Later(buffer'[j], feed'[i])
    OBVIOUS
  <2>1. j + 1 \in 1..Len(buffer) /\ 1 < j + 1 /\ buffer'[j] = buffer[j + 1]
    BY <1>1
  <2>2. Later(buffer'[j], h) /\ \A k \in 1..Len(feed) : Later(buffer'[j], feed[k])
    BY <1>1, <2>1
  <2> QED BY <1>2, <2>2
<1>8. \A x \in Due' : /\ x \in carried' <=> stream' = "open"
                      /\ \A i \in 1..Len(buffer') : Later(x, buffer'[i])
                      /\ \A i \in 1..Len(feed') : Later(x, feed'[i])
  BY <1>1, <1>2, <1>3
<1> QED BY <1>3, <1>4, <1>5, <1>6, <1>7, <1>8

LEMMA ReceiveFeed ==
  ASSUME Inv, Receive
  PROVE  FeedInv'
<1>0. PICK h \in Entries : h = Head(buffer)
  BY ReceivedEntry
<1>1. /\ h = buffer[1] /\ 1 \in 1..Len(buffer)
      /\ Len(buffer') \in Nat /\ Len(buffer) \in Nat
      /\ \A i \in 1..Len(buffer') : i + 1 \in 1..Len(buffer) /\ buffer'[i] = buffer[i + 1]
      /\ \A i \in 1..Len(buffer) : i # 1 => i - 1 \in 1..Len(buffer') /\ buffer'[i - 1] = buffer[i]
      /\ UNCHANGED <<version, subscribers, targets, opened, carried, stream>>
  BY <1>0, ReceivedEntry, FlowTypes
<1>2. /\ feed' \in Seq(Entries) /\ Descending(feed') /\ OneEach(feed')
      /\ 1 \in 1..Len(feed') /\ feed'[1] = h
      /\ \A i \in 1..Len(feed') : feed'[i] = h \/ \E k \in 1..Len(feed) : feed'[i] = feed[k]
      /\ FeedLength <= Len(feed) => Full(feed')
      /\ \A k \in 1..Len(feed) :
           \/ \E i \in 1..Len(feed') : feed'[i] = feed[k]
           \/ SameTrail(h.event, feed[k].event)
           \/ Full(feed') /\ \A i \in 1..Len(feed') : Later(feed'[i], feed[k])
  BY <1>0, ReceivedFeed
<1>3. Due' = Due /\ carried' = carried
  BY <1>1 DEF Due
<1>4. \A i \in 1..Len(feed) : Later(h, feed[i]) /\ feed[i] \in Entries
  BY <1>1, FlowTypes DEF Inv, FlowInv
<1>5. h \in carried /\ h \notin Due
  <2>1. h \in carried
    BY <1>1 DEF Inv, FlowInv
  <2>2. h \in Due => Later(h, h)
    BY <1>1 DEF Inv, FlowInv
  <2> QED BY <2>1, <2>2, LaterOrder
<1>6. h \notin Members(buffer')
  <2> SUFFICES ASSUME NEW i \in 1..Len(buffer'), buffer'[i] = h PROVE FALSE
    BY DEF Members
  <2>1. i + 1 \in 1..Len(buffer) /\ buffer[i + 1] = h /\ 1 < i + 1
    BY <1>1
  <2>2. Later(buffer[i + 1], buffer[1])
    BY <1>1, <2>1 DEF Inv, FlowInv
  <2> QED BY <1>1, <2>1, <2>2, LaterOrder
<1>7. Members(buffer) = Members(buffer') \cup {h}
  <2>1. ASSUME NEW j \in 1..Len(buffer') PROVE buffer'[j] \in Members(buffer)
    BY <1>1 DEF Members
  <2>2. ASSUME NEW j \in 1..Len(buffer) PROVE buffer[j] \in Members(buffer') \cup {h}
    <3>1. CASE j = 1
      BY <1>1, <3>1
    <3>2. CASE j # 1
      <4>1. j - 1 \in 1..Len(buffer') /\ buffer'[j - 1] = buffer[j]
        BY <1>1, <3>2
      <4> QED BY <4>1 DEF Members
    <3> QED BY <3>1, <3>2
  <2>3. h \in Members(buffer)
    BY <1>1 DEF Members
  <2> QED BY <2>1, <2>2, <2>3 DEF Members
<1>8. Received' = Received \cup {h}
  BY <1>3, <1>5, <1>6, <1>7 DEF Received, Members
<1>9. h \in Members(feed')
  BY <1>2 DEF Members
<1>10. Received \subseteq Entries
  BY FlowTypes DEF Received
<1>11. ASSUME NEW x \in Received PROVE Kept(x)'
  <2>1. Kept(x) /\ x \in Entries
    BY <1>10 DEF Inv, FeedInv
  <2>2. CASE x \in Members(feed)
    <3>1. PICK k \in 1..Len(feed) : feed[k] = x
      BY <2>2 DEF Members
    <3>2. CASE \E i \in 1..Len(feed') : feed'[i] = feed[k]
      BY <3>1, <3>2 DEF Kept, Members
    <3>3. CASE SameTrail(h.event, feed[k].event)
      BY <1>4, <1>8, <3>1, <3>3 DEF Kept
    <3>4. CASE Full(feed') /\ \A i \in 1..Len(feed') : Later(feed'[i], feed[k])
      BY <3>1, <3>4 DEF Kept, Full
    <3> QED BY <1>2, <3>2, <3>3, <3>4
  <2>3. CASE \E y \in Received : Later(y, x) /\ SameTrail(y.event, x.event)
    BY <1>8, <2>3 DEF Kept
  <2>4. CASE Full(feed) /\ \A i \in 1..Len(feed) : Later(feed[i], x)
    <3>1. FeedLength \in Nat \ {0}
      BY DashboardAssumption
    <3>2. Full(feed') /\ 1 \in 1..Len(feed)
      BY <1>2, <2>4, <3>1 DEF Full
    <3>3. Later(h, x)
      <4>1. Later(h, feed[1]) /\ Later(feed[1], x) /\ feed[1] \in Entries
        BY <1>4, <2>4, <3>2
      <4> QED BY <2>1, <4>1, LaterOrder
    <3>4. \A i \in 1..Len(feed') : Later(feed'[i], x)
      BY <1>2, <2>4, <3>3
    <3> QED BY <3>2, <3>4 DEF Kept, Full
  <2> QED BY <2>1, <2>2, <2>3, <2>4 DEF Kept
<1>12. Kept(h)'
  BY <1>9 DEF Kept, Members
<1>13. \A x \in Received' : Kept(x)'
  BY <1>8, <1>11, <1>12
<1> QED BY <1>2, <1>13 DEF FeedInv, Descending, OneEach

LEMMA FlowStep == Inv /\ [Next]_vars => FlowInv' /\ FeedInv'
<1> SUFFICES ASSUME Inv, [Next]_vars PROVE FlowInv' /\ FeedInv'
  OBVIOUS
<1>1. ASSUME UNCHANGED <<version, targets, opened, buffer, feed, carried>>,
             stream' = "open" <=> stream = "open",
             \A p \in Pods : subscribers'[p] \subseteq subscribers[p]
      PROVE  FlowInv' /\ FeedInv'
  BY <1>1, FlowFrame DEF Inv
<1>2. ASSUME NEW p \in Pods, Event(p) PROVE FlowInv' /\ FeedInv'
  BY <1>2, EmitFlow, EmitFeed DEF Event
<1>3. CASE (\E p \in Pods : Answer(p)) \/ FetchFails \/ TimerFires \/ Poll \/ Command
  BY <1>1, <1>3 DEF Answer, FetchFails, Connect, TimerFires, Poll, Command
<1>4. ASSUME NEW p \in Pods, Open(p) PROVE FlowInv' /\ FeedInv'
  BY <1>4, OpenFlow
<1>5. ASSUME NEW p \in Pods, NEW s \in Subscriptions, Offer(p, s) PROVE FlowInv' /\ FeedInv'
  BY <1>5, OfferFlow, OfferFeed
<1>6. ASSUME NEW p \in Pods, NEW s \in Subscriptions, Unsubscribe(p, s) PROVE FlowInv' /\ FeedInv'
  <2>1. \A q \in Pods : subscribers'[q] \subseteq subscribers[q]
    BY <1>6 DEF Unsubscribe, Inv, TypeOK
  <2>2. UNCHANGED <<version, targets, opened, buffer, feed, carried, stream>>
    BY <1>6 DEF Unsubscribe
  <2> QED BY <1>1, <2>1, <2>2
<1>7. ASSUME NEW n \in 0..MaxEvents, Arrive(n) PROVE FlowInv' /\ FeedInv'
  BY <1>1, <1>7 DEF Arrive, Connect
<1>8. CASE StreamBreaks
  BY <1>8, BreakFlow
<1>9. CASE Receive
  BY <1>9, ReceiveFlow, ReceiveFeed
<1>10. CASE UNCHANGED vars
  BY <1>1, <1>10 DEF vars
<1> QED BY <1>2, <1>3, <1>4, <1>5, <1>6, <1>7, <1>8, <1>9, <1>10 DEF Next

\* The state of the page, the stream and the engines, from the first step on.
LEMMA Always == Spec => []Inv
<1>1. Init => Inv
  BY InitTypes, InitFlow DEF Inv
<1>2. Inv /\ [Next]_vars => Inv'
  BY TypeStep, FlowStep DEF Inv
<1> QED BY <1>1, <1>2, PTL DEF Spec

-----------------------------------------------------------------------------
(***************************************************************************)
(* Theorems.                                                               *)
(***************************************************************************)

LEMMA OneAtMost ==
  ASSUME NEW S, \A x, y \in S : x = y
  PROVE  Cardinality(S) <= 1
<1>1. CASE S = {}
  <2>1. Cardinality(S) = 0
    BY <1>1, FS_EmptySet
  <2> QED BY <2>1
<1>2. CASE S # {}
  <2>1. PICK x \in S : TRUE
    BY <1>2
  <2>2. S = {x}
    BY <2>1
  <2>3. Cardinality(S) = 1
    BY <2>2, FS_Singleton
  <2> QED BY <2>3
<1> QED BY <1>1, <1>2

\* A feed without repetitions lists as many entries as it is long.
LEMMA FeedCounts ==
  ASSUME NEW f \in Seq(Entries), Descending(f)
  PROVE  Cardinality(Members(f)) = Len(f)
<1>1. Len(f) \in Nat /\ IsFiniteSet(1..Len(f)) /\ Cardinality(1..Len(f)) = Len(f)
  <2>1. Len(f) \in Nat /\ 1 \in Int /\ Len(f) \in Int
    OBVIOUS
  <2> QED BY <2>1, FS_Interval
<1> DEFINE g == [i \in 1..Len(f) |-> f[i]]
<1>2. \A i \in 1..Len(f) : f[i] \in Entries
  OBVIOUS
<1>3. \A i, j \in 1..Len(f) : g[i] = g[j] => i = j
  <2> SUFFICES ASSUME NEW i \in 1..Len(f), NEW j \in 1..Len(f), i # j, f[i] = f[j] PROVE FALSE
    OBVIOUS
  <2>1. i < j \/ j < i
    OBVIOUS
  <2>2. Later(f[i], f[i])
    BY <2>1 DEF Descending
  <2> QED BY <1>2, <2>2, LaterOrder
<1>4. g \in [1..Len(f) -> Members(f)] /\ \A x \in Members(f) : \E i \in 1..Len(f) : g[i] = x
  BY DEF Members
<1>5. g \in Bijection(1..Len(f), Members(f))
  BY <1>3, <1>4 DEF Bijection, Injection, Surjection, IsInjective
<1>6. ExistsBijection(1..Len(f), Members(f))
  BY <1>5 DEF ExistsBijection
<1> QED BY <1>1, <1>6, FS_Bijection

\* What the page, the streams, the requests and the engines keep is of its
\* type: no more requests are under way than are counted, a channel holds no
\* more events than its size, and the feed no more than it is cut off to,
\* through any order of answers, failures and reconnections.
THEOREM TypeCorrect == Spec => []TypeOK
BY Always, PTL DEF Inv

\* The feed shows what came last first, nothing of one stream twice and one
\* location update of a source at most: onmessage prepends, filters and cuts
\* off, and whichever pods the streams came from, whatever a channel dropped or
\* a broken stream lost.  An event that two streams carried may be there twice.
THEOREM FeedInOrderHolds == Spec => []FeedInOrder
<1>1. Inv => FeedInOrder
  <2> SUFFICES ASSUME Inv PROVE FeedInOrder
    OBVIOUS
  <2>1. ASSUME NEW trail \in Trails
        PROVE  Cardinality({x \in Members(feed) : x.event \in trail}) <= 1
    <3>1. ASSUME NEW x \in Members(feed), NEW y \in Members(feed), x.event \in trail, y.event \in trail
          PROVE  x = y
      <4>1. SameTrail(x.event, y.event)
        BY <3>1 DEF SameTrail
      <4> QED BY <4>1 DEF Inv, FeedInv, OneEach, Members
    <3> QED BY <3>1, OneAtMost
  <2> QED BY <2>1 DEF FeedInOrder, Inv, FeedInv, Descending
<1> QED BY <1>1, Always, PTL

\* What the page has received it lists, unless a later entry of the same
\* source has replaced it or the feed is full of later ones: nothing else
\* removes an entry.
THEOREM FeedCompleteHolds == Spec => []FeedComplete
<1>1. Inv => FeedComplete
  <2> SUFFICES ASSUME Inv, NEW x \in Received
               PROVE  \/ x \in Members(feed)
                      \/ \E y \in Received : Later(y, x) /\ SameTrail(y.event, x.event)
                      \/ Cardinality({y \in Members(feed) : Later(y, x)}) = FeedLength
    BY DEF FeedComplete
  <2>1. Kept(x)
    BY DEF Inv, FeedInv
  <2>2. CASE Full(feed) /\ \A i \in 1..Len(feed) : Later(feed[i], x)
    <3>1. {y \in Members(feed) : Later(y, x)} = Members(feed)
      BY <2>2 DEF Members
    <3>2. Cardinality(Members(feed)) = FeedLength
      BY <2>2, FeedCounts DEF Full, Inv, FeedInv, TypeOK
    <3> QED BY <3>1, <3>2
  <2> QED BY <2>1, <2>2 DEF Kept
<1> QED BY <1>1, Always, PTL

\* Whatever streams break and are opened while an engine offers an event, it
\* never sends on the channel of a subscription that has been removed: what is
\* removed is removed between two events.
THEOREM SendsMeetOpenChannelsHolds == Spec => []SendsMeetOpenChannels
<1>1. Inv => SendsMeetOpenChannels
  BY DEF Inv, StreamInv, SendsMeetOpenChannels
<1> QED BY <1>1, Always, PTL
=============================================================================
