------------------------ MODULE EventDeliveryProofs ------------------------
(***************************************************************************)
(* Proofs about EventDelivery: for any publishers, subscribers, filters    *)
(* and capacities, the replay and the live events of a session meet        *)
(* exactly, and a dashboard never paints an event twice.                   *)
(*                                                                         *)
(* Neither property is inductive.  Both rest on where an event can be on   *)
(* its way to a subscriber: with a publisher that still has to push it, in *)
(* the subscriber's queue, on the wire, with the client.  An event is in   *)
(* one of these places at a time, and the broadcaster never hands out an   *)
(* id twice in one server run.                                             *)
(***************************************************************************)
EXTENDS EventDelivery, FiniteSetTheorems, NaturalsInduction, SequenceTheorems, TLAPS

-----------------------------------------------------------------------------
(* The inductive invariant.                                                *)

\* No subscriber is listed twice; no event is twice in a sequence.
Once(q) == \A i, j \in 1..Len(q) : q[i] = q[j] => i = j
OnceIds(q) == \A i, j \in 1..Len(q) : q[i].id = q[j].id => i = j

\* The ids handed out in this server run.
Published == 1..(nextId - 1)

Fan == [at : {"idle", "entered", "fanning"}, event : Event, targets : Seq(Sub)]

\* The ring holds events of this run; publish() and stop() have their types.
BusInv ==
  /\ nextId \in 1..(MaxId + 1)
  /\ ring \in Seq(Event) /\ Len(ring) <= RingCapacity
  /\ Ids(ring) \subseteq Published /\ OnceIds(ring)
  /\ subs \in Seq(Sub) /\ Once(subs) /\ dropped \subseteq Sub
  /\ stopped \in BOOLEAN /\ sweep \in Sweep
  /\ closed \in [Sub -> BOOLEAN]

\* Two publishers never fan out the same event, and each pushes it to a subscriber once.
FanInv ==
  /\ fan \in [Publisher -> Fan]
  /\ \A p \in Publisher :
       /\ Once(fan[p].targets)
       /\ fan[p].at # "fanning" => fan[p].targets = <<>>
       /\ fan[p].at = "fanning" => fan[p].targets # <<>> /\ fan[p].event.id \in Published
  /\ \A p, q \in Publisher :
       fan[p].at = "fanning" /\ fan[q].at = "fanning" /\ fan[p].event.id = fan[q].event.id => p = q

\* Publisher p has yet to come to subscriber s.
Holds(s, p) == s \in ToSet(fan[p].targets)

\* The events on their way to s with a publisher.
Fanned(s) == {fan[p].event.id : p \in {q \in Publisher : Holds(s, q)}}

ClientType ==
  /\ link \in [Sub -> BOOLEAN] /\ handler \in [Sub -> HandlerAt]
  /\ queue \in [Sub -> Seq(Event)] /\ wire \in [Sub -> Seq(Event)]
  /\ cursor \in [Sub -> 0..MaxId]
  /\ seen \in [Sub -> SUBSET ((1..run) \X (1..MaxId))]
  /\ again \subseteq Sub /\ owed \in [Sub -> SUBSET (1..MaxId)]
  /\ run \in 1..(MaxRestarts + 1)
  /\ sessions \in [Sub -> Nat] /\ \A s \in Sub : sessions[s] <= MaxSessions[s]

\* Queue and wire hold different events of this run, and none that a publisher still
\* has to push.  A client without a registered handler has nothing on its way.
PathInv(s) ==
  /\ Len(queue[s]) <= SubCapacity
  /\ OnceIds(queue[s]) /\ Ids(queue[s]) \subseteq Published
  /\ OnceIds(wire[s]) /\ Ids(wire[s]) \subseteq Published
  /\ Ids(queue[s]) \cap Ids(wire[s]) = {}
  /\ Fanned(s) \cap (Ids(queue[s]) \cup Ids(wire[s])) = {}
  /\ handler[s] \in {"none", "entered"} => queue[s] = <<>> /\ s \notin ToSet(subs) /\ Fanned(s) = {}
  /\ handler[s] \in {"entered", "drain"} => wire[s] = <<>>
  /\ ~link[s] /\ ~stopped => wire[s] = <<>>

\* What s has read of this server run.
Now(s) == {i \in 1..MaxId : <<run, i>> \in seen[s]}

\* What a dashboard has read is behind its cursor and no longer on its way.
SeenInv(s) ==
  s \in Dashboard =>
    /\ Now(s) \subseteq Published
    /\ \A i \in Now(s) : i <= cursor[s]
    /\ Now(s) \cap (Fanned(s) \cup Ids(queue[s]) \cup Ids(wire[s])) = {}

\* Where nothing was dropped, what the session is owed is what is on its way.
ExactInv(s) ==
  handler[s] \in {"drain", "live"} /\ s \notin dropped /\ ~closed[s]
    => owed[s] = Ids(queue[s]) \cup Coming(s)

DeliveryInv ==
  /\ BusInv /\ FanInv /\ ClientType
  /\ \A s \in Sub : PathInv(s) /\ SeenInv(s) /\ ExactInv(s)
  /\ again \subseteq Gate

-----------------------------------------------------------------------------
(* Numbers.                                                                *)

\* A set of numbers has a least element; what follows by induction is proved with it.
LEMMA LeastNumber ==
  ASSUME NEW S, S \subseteq Nat, S # {}
  PROVE  \E n \in S : \A m \in S : n <= m
<1> DEFINE R == {ss \in Nat \X Nat : ss[1] < ss[2]}
<1>1. IsWellFoundedOn(R, Nat)
  BY NatLessThanWellFounded, Zenon DEF OpToRel
<1>2. ASSUME NEW x \in Nat, NEW y \in Nat, x < y
      PROVE  <<x, y>> \in R
  BY <1>2
<1> HIDE DEF R
<1>3. \E x \in S : \A y \in S : ~(<<y, x>> \in R)
  BY <1>1, WFMin, Zenon
<1>4. PICK x \in S : \A y \in S : ~(<<y, x>> \in R)
  BY <1>3
<1>5. \A y \in S : ~(y < x)
  BY <1>2, <1>4
<1>6. QED
  BY <1>5

-----------------------------------------------------------------------------
(* Sequences of events and of subscribers.                                 *)

\* The ids of a sequence, by position.
LEMMA IdsIs ==
  ASSUME NEW q
  PROVE  \A n : n \in Ids(q) <=> \E i \in 1..Len(q) : q[i].id = n
BY DEF Ids

\* The empty sequence.
LEMMA EmptyIds ==
  Ids(<<>>) = {} /\ OnceIds(<<>>) /\ <<>> \in Seq(Event) /\ Len(<<>>) = 0
BY DEF Ids, OnceIds

\* Taking the oldest event (next, pop_front).
LEMMA TailIds ==
  ASSUME NEW q \in Seq(Event), q # <<>>
  PROVE  /\ Head(q) \in Event /\ Head(q).id \in Ids(q)
         /\ Tail(q) \in Seq(Event) /\ Len(Tail(q)) = Len(q) - 1
         /\ Ids(q) = Ids(Tail(q)) \cup {Head(q).id}
         /\ OnceIds(q) => OnceIds(Tail(q)) /\ Head(q).id \notin Ids(Tail(q))
<1> DEFINE t == Tail(q)
<1>1. /\ Len(q) \in Nat \ {0} /\ Head(q) = q[1] /\ q[1] \in Event
      /\ t \in Seq(Event) /\ Len(t) = Len(q) - 1
      /\ \A i \in 1..Len(t) : t[i] = q[i + 1]
  BY HeadTailProperties, ElementOfSeq, EmptySeq, LenProperties
<1> HIDE DEF t
<1>2. ASSUME NEW n
      PROVE  n \in Ids(q) <=> n \in Ids(t) \/ n = q[1].id
  <2>1. ASSUME NEW i \in 1..Len(q), q[i].id = n, i # 1
        PROVE  n \in Ids(t)
    <3>1. i - 1 \in 1..Len(t) /\ t[i - 1].id = n
      BY <1>1, <2>1
    <3>2. QED
      BY <3>1, IdsIs
  <2>2. ASSUME NEW i \in 1..Len(t), t[i].id = n
        PROVE  n \in Ids(q)
    <3>1. i + 1 \in 1..Len(q) /\ q[i + 1].id = n
      BY <1>1, <2>2
    <3>2. QED
      BY <3>1, IdsIs
  <2>3. 1 \in 1..Len(q)
    BY <1>1
  <2>4. QED
    BY <2>1, <2>2, <2>3, IdsIs
<1>3. ASSUME OnceIds(q)
      PROVE  OnceIds(t) /\ q[1].id \notin Ids(t)
  <2>1. ASSUME NEW i \in 1..Len(t), NEW j \in 1..Len(t), t[i].id = t[j].id
        PROVE  i = j
    <3>1. i + 1 \in 1..Len(q) /\ j + 1 \in 1..Len(q) /\ q[i + 1].id = q[j + 1].id
      BY <1>1, <2>1
    <3>2. i + 1 = j + 1
      BY <1>3, <3>1 DEF OnceIds
    <3>3. QED
      BY <1>1, <3>2
  <2>2. ASSUME NEW i \in 1..Len(t), t[i].id = q[1].id
        PROVE  FALSE
    <3>1. i + 1 \in 1..Len(q) /\ 1 \in 1..Len(q) /\ q[i + 1].id = q[1].id
      BY <1>1, <2>2
    <3>2. i + 1 = 1
      BY <1>3, <3>1 DEF OnceIds
    <3>3. QED
      BY <1>1, <3>2
  <2>3. QED
    BY <2>1, <2>2, IdsIs DEF OnceIds
<1>4. q[1].id \in Ids(q)
  BY <1>2
<1>5. Ids(q) = Ids(t) \cup {q[1].id}
  BY <1>2
<1>6. QED
  BY <1>1, <1>3, <1>4, <1>5 DEF t

\* Appending an event (push_back, Write).
LEMMA AppendIds ==
  ASSUME NEW q \in Seq(Event), NEW e \in Event
  PROVE  /\ Append(q, e) \in Seq(Event) /\ Len(Append(q, e)) = Len(q) + 1
         /\ Ids(Append(q, e)) = Ids(q) \cup {e.id}
         /\ OnceIds(q) /\ e.id \notin Ids(q) => OnceIds(Append(q, e))
<1> DEFINE a == Append(q, e)
<1>1. /\ Len(q) \in Nat /\ a \in Seq(Event) /\ Len(a) = Len(q) + 1
      /\ \A i \in 1..Len(q) : a[i] = q[i]
      /\ a[Len(q) + 1] = e
  BY AppendProperties, LenProperties
<1> HIDE DEF a
<1>2. ASSUME NEW n
      PROVE  n \in Ids(a) <=> n \in Ids(q) \/ n = e.id
  <2>1. ASSUME NEW i \in 1..Len(a), a[i].id = n, i # Len(q) + 1
        PROVE  n \in Ids(q)
    <3>1. i \in 1..Len(q) /\ q[i].id = n
      BY <1>1, <2>1
    <3>2. QED
      BY <3>1, IdsIs
  <2>2. ASSUME NEW i \in 1..Len(q), q[i].id = n
        PROVE  n \in Ids(a)
    <3>1. i \in 1..Len(a) /\ a[i].id = n
      BY <1>1, <2>2
    <3>2. QED
      BY <3>1, IdsIs
  <2>3. Len(q) + 1 \in 1..Len(a) /\ a[Len(q) + 1].id = e.id
    BY <1>1
  <2>4. QED
    BY <1>1, <2>1, <2>2, <2>3, IdsIs
<1>3. ASSUME OnceIds(q), e.id \notin Ids(q)
      PROVE  OnceIds(a)
  <2>1. ASSUME NEW i \in 1..Len(a), NEW j \in 1..Len(a), a[i].id = a[j].id
        PROVE  i = j
    <3>1. CASE i \in 1..Len(q) /\ j \in 1..Len(q)
      BY <1>1, <1>3, <2>1, <3>1 DEF OnceIds
    <3>2. CASE i = Len(q) + 1 /\ j \in 1..Len(q)
      <4>1. q[j].id = e.id
        BY <1>1, <2>1, <3>2
      <4>2. QED
        BY <1>3, <3>2, <4>1, IdsIs
    <3>3. CASE j = Len(q) + 1 /\ i \in 1..Len(q)
      <4>1. q[i].id = e.id
        BY <1>1, <2>1, <3>3
      <4>2. QED
        BY <1>3, <3>3, <4>1, IdsIs
    <3>4. QED
      BY <1>1, <3>1, <3>2, <3>3
  <2>2. QED
    BY <2>1 DEF OnceIds
<1>4. Ids(a) = Ids(q) \cup {e.id}
  BY <1>2
<1>5. QED
  BY <1>1, <1>3, <1>4 DEF a

\* push_locked() keeps the capacity; what it drops is the oldest event, and only of a
\* full queue.
LEMMA PushIds ==
  ASSUME NEW q \in Seq(Event), NEW e \in Event, Len(q) <= SubCapacity
  PROVE  /\ Push(q, e) \in Seq(Event) /\ Len(Push(q, e)) <= SubCapacity
         /\ Ids(Push(q, e)) \subseteq Ids(q) \cup {e.id}
         /\ ~Overflows(q) => Ids(Push(q, e)) = Ids(q) \cup {e.id}
         /\ OnceIds(q) /\ e.id \notin Ids(q) => OnceIds(Push(q, e))
<1>1. SubCapacity \in Nat \ {0} /\ Len(q) \in Nat
  BY BroadcasterAssumption, LenProperties
<1>2. CASE Overflows(q)
  <2>1. q # <<>> /\ Push(q, e) = Append(Tail(q), e)
    BY <1>1, <1>2, EmptyIds DEF Overflows, Push
  <2>2. /\ Tail(q) \in Seq(Event) /\ Len(Tail(q)) = Len(q) - 1
        /\ Ids(q) = Ids(Tail(q)) \cup {Head(q).id}
        /\ OnceIds(q) => OnceIds(Tail(q))
    BY <2>1, TailIds
  <2> DEFINE t == Tail(q)
  <2> HIDE DEF t
  <2>3. /\ Append(t, e) \in Seq(Event) /\ Len(Append(t, e)) = Len(t) + 1
        /\ Ids(Append(t, e)) = Ids(t) \cup {e.id}
        /\ OnceIds(t) /\ e.id \notin Ids(t) => OnceIds(Append(t, e))
    BY <2>2, AppendIds DEF t
  <2>4. QED
    BY <1>1, <1>2, <2>1, <2>2, <2>3 DEF t
<1>3. CASE ~Overflows(q)
  <2>1. Push(q, e) = Append(q, e) /\ Len(q) < SubCapacity
    BY <1>1, <1>3 DEF Overflows, Push
  <2>2. QED
    BY <1>1, <2>1, AppendIds
<1>4. QED
  BY <1>2, <1>3

\* As many ids as events.
LEMMA IdsCount ==
  ASSUME NEW q \in Seq(Event), OnceIds(q)
  PROVE  Cardinality(Ids(q)) = Len(q)
<1> DEFINE n == Len(q)
           f == [i \in 1..n |-> q[i].id]
<1>1. n \in Nat
  BY LenProperties
<1>2. f \in Bijection(1..n, Ids(q))
  <2>1. f \in [1..n -> Ids(q)]
    BY IdsIs
  <2>2. \A i, j \in 1..n : f[i] = f[j] => i = j
    BY DEF OnceIds
  <2>3. \A x \in Ids(q) : \E i \in 1..n : f[i] = x
    BY IdsIs
  <2> HIDE DEF f, n
  <2>4. QED
    BY <2>1, <2>2, <2>3 DEF Bijection, Injection, Surjection, IsInjective
<1> HIDE DEF f, n
<1>3. ExistsBijection(1..n, Ids(q))
  BY <1>2 DEF ExistsBijection
<1>4. IsFiniteSet(1..n) /\ Cardinality(1..n) = n
  <2>1. 1 - 1 <= n
    BY <1>1
  <2>2. IsFiniteSet(1..n) /\ Cardinality(1..n) = (IF 1 > n THEN 0 ELSE n - 1 + 1)
    BY <1>1, FS_Interval
  <2>3. QED
    BY <1>1, <2>2
<1>5. Cardinality(Ids(q)) = n
  BY <1>3, <1>4, FS_Bijection
<1>6. QED
  BY <1>5 DEF n

\* The subscribers of a list without its head (the fan-out goes on).
LEMMA TailSubs ==
  ASSUME NEW t \in Seq(Sub), t # <<>>, Once(t)
  PROVE  /\ Head(t) \in Sub /\ Head(t) \in ToSet(t)
         /\ Tail(t) \in Seq(Sub) /\ Once(Tail(t))
         /\ ToSet(Tail(t)) = ToSet(t) \ {Head(t)}
<1> DEFINE u == Tail(t)
<1>1. /\ Len(t) \in Nat \ {0} /\ Head(t) = t[1] /\ t[1] \in Sub
      /\ u \in Seq(Sub) /\ Len(u) = Len(t) - 1
      /\ \A i \in 1..Len(u) : u[i] = t[i + 1]
      /\ DOMAIN t = 1..Len(t) /\ DOMAIN u = 1..Len(u)
  BY HeadTailProperties, ElementOfSeq, EmptySeq, LenProperties
<1> HIDE DEF u
<1>2. ASSUME NEW i \in 1..Len(u), NEW j \in 1..Len(u), u[i] = u[j]
      PROVE  i = j
  <2>1. i + 1 \in 1..Len(t) /\ j + 1 \in 1..Len(t) /\ t[i + 1] = t[j + 1]
    BY <1>1, <1>2
  <2>2. i + 1 = j + 1
    BY <2>1 DEF Once
  <2>3. QED
    BY <1>1, <2>2
<1>3. ASSUME NEW i \in 1..Len(u)
      PROVE  u[i] \in ToSet(t) /\ u[i] # t[1]
  <2>1. i + 1 \in 1..Len(t) /\ 1 \in 1..Len(t) /\ u[i] = t[i + 1] /\ i + 1 # 1
    BY <1>1
  <2>2. QED
    BY <1>1, <2>1 DEF Once, ToSet
<1>4. ASSUME NEW i \in 1..Len(t), t[i] # t[1]
      PROVE  t[i] \in ToSet(u)
  <2>1. i - 1 \in 1..Len(u) /\ u[i - 1] = t[i]
    BY <1>1, <1>4
  <2>2. QED
    BY <1>1, <2>1 DEF ToSet
<1>5. ToSet(u) = ToSet(t) \ {t[1]}
  BY <1>1, <1>3, <1>4 DEF ToSet
<1>6. t[1] \in ToSet(t)
  BY <1>1 DEF ToSet
<1>7. QED
  BY <1>1, <1>2, <1>5, <1>6 DEF Once, u

\* A list with one more subscriber (subscribe).
LEMMA AppendSubs ==
  ASSUME NEW t \in Seq(Sub), NEW s \in Sub, Once(t), s \notin ToSet(t)
  PROVE  /\ Append(t, s) \in Seq(Sub) /\ Once(Append(t, s))
         /\ ToSet(Append(t, s)) = ToSet(t) \cup {s}
<1> DEFINE u == Append(t, s)
<1>1. /\ Len(t) \in Nat /\ u \in Seq(Sub) /\ Len(u) = Len(t) + 1
      /\ \A i \in 1..Len(t) : u[i] = t[i]
      /\ u[Len(t) + 1] = s
      /\ DOMAIN t = 1..Len(t) /\ DOMAIN u = 1..Len(u)
  BY AppendProperties, LenProperties
<1> HIDE DEF u
<1>2. \A i \in 1..Len(t) : t[i] # s
  BY <1>1 DEF ToSet
<1>3. Once(u)
  BY <1>1, <1>2 DEF Once
<1>4. \A x : x \in ToSet(u) <=> x \in ToSet(t) \/ x = s
  <2>1. \A i \in 1..Len(u) : i \in 1..Len(t) \/ i = Len(t) + 1
    BY <1>1
  <2>2. \A i \in 1..Len(t) : i \in 1..Len(u)
    BY <1>1
  <2>3. Len(t) + 1 \in 1..Len(u)
    BY <1>1
  <2>4. QED
    BY <1>1, <2>1, <2>2, <2>3 DEF ToSet
<1>5. QED
  BY <1>1, <1>3, <1>4 DEF u

\* A list without a subscriber that is gone (the weak_ptr has expired).
LEMMA RemoveSubs ==
  ASSUME NEW t \in Seq(Sub), NEW s \in Sub, Once(t)
  PROVE  /\ RemoveFirst(t, s) \in Seq(Sub) /\ Once(RemoveFirst(t, s))
         /\ ToSet(RemoveFirst(t, s)) = ToSet(t) \ {s}
<1> DEFINE n == Len(t)
<1>1. n \in Nat /\ DOMAIN t = 1..n /\ \A i \in 1..n : t[i] \in Sub
  BY LenProperties, ElementOfSeq
<1>2. CASE \E i \in 1..n : t[i] = s
  <2> DEFINE I == {i \in 1..n : t[i] = s}
             k == Min(I)
             u == RemoveAt(t, k)
  <2>1. RemoveFirst(t, s) = u
    BY <1>2 DEF RemoveFirst, SelectInSeq
  <2>2. k \in 1..n /\ t[k] = s
    <3>1. I # {} /\ I \subseteq Nat
      BY <1>1, <1>2
    <3> HIDE DEF I
    <3>2. \E i \in I : \A j \in I : i <= j
      BY <3>1, LeastNumber
    <3>3. k \in I
      BY <3>2 DEF Min
    <3>4. QED
      BY <3>3 DEF I
  <2> HIDE DEF k
  <2>3. /\ u \in Seq(Sub) /\ Len(u) = n - 1 /\ DOMAIN u = 1..(n - 1)
        /\ \A i \in 1..(n - 1) : u[i] = IF i < k THEN t[i] ELSE t[i + 1]
    <3> DEFINE a == SubSeq(t, 1, k - 1)
               b == SubSeq(t, k + 1, n)
    <3>1. /\ a \in Seq(Sub) /\ Len(a) = k - 1
          /\ \A i \in 1..(k - 1) : a[i] = t[i]
      BY <1>1, <2>2
    <3>2. /\ b \in Seq(Sub) /\ Len(b) = n - k
          /\ \A i \in 1..(n - k) : b[i] = t[k + i]
      <4>1. /\ \A i \in (k + 1)..n : t[i] \in Sub
            /\ k + 1 \in Int /\ n \in Int /\ k + 1 <= n + 1 /\ n - (k + 1) + 1 = n - k
            /\ 1 <= k + 1 /\ n - k \in Nat /\ k \in Nat /\ n \in Nat /\ k <= n
        BY <1>1, <2>2
      <4>2. /\ b \in Seq(Sub)
            /\ Len(b) = (IF k + 1 <= n THEN n - (k + 1) + 1 ELSE 0)
            /\ \A i \in 1..(n - (k + 1) + 1) : b[i] = t[(k + 1) + i - 1]
        BY <1>1, <2>2, <4>1, SubSeqProperties
      <4>3. \A i \in 1..(n - k) : (k + 1) + i - 1 = k + i
        BY <1>1, <2>2
      <4> HIDE DEF b
      <4>4. Len(b) = n - k
        <5>1. CASE k + 1 <= n
          BY <4>1, <4>2, <5>1
        <5>2. CASE ~(k + 1 <= n)
          <6> HIDE DEF n
          <6>1. k \in Nat /\ n \in Nat /\ k <= n
            BY <4>1
          <6>2. n = k
            BY <5>2, <6>1
          <6>3. n - k = 0
            BY <6>1, <6>2
          <6>4. QED
            BY <4>2, <5>2, <6>3
        <5>3. QED
          BY <5>1, <5>2
      <4>5. \A i \in 1..(n - k) : b[i] = t[k + i]
        BY <4>1, <4>2, <4>3
      <4>6. QED
        BY <4>2, <4>4, <4>5
    <3>3. u = a \o b
      BY DEF RemoveAt
    <3> HIDE DEF a, b, u
    <3>4. /\ a \o b \in Seq(Sub) /\ Len(a \o b) = n - 1
          /\ \A i \in 1..(n - 1) : (a \o b)[i] = IF i <= k - 1 THEN a[i] ELSE b[i - (k - 1)]
      <4>1. /\ a \o b \in Seq(Sub) /\ Len(a \o b) = Len(a) + Len(b)
            /\ \A i \in 1..(Len(a) + Len(b)) :
                 (a \o b)[i] = IF i <= Len(a) THEN a[i] ELSE b[i - Len(a)]
        BY <3>1, <3>2, ConcatProperties
      <4>2. Len(a) + Len(b) = n - 1 /\ Len(a) = k - 1
        BY <1>1, <2>2, <3>1, <3>2
      <4>3. QED
        BY <4>1, <4>2
    <3>5. DOMAIN u = 1..(n - 1)
      BY <3>3, <3>4, LenProperties
    <3>6. ASSUME NEW i \in 1..(n - 1)
          PROVE  u[i] = IF i < k THEN t[i] ELSE t[i + 1]
      <4>1. CASE i < k
        BY <1>1, <2>2, <3>1, <3>3, <3>4, <4>1
      <4>2. CASE ~(i < k)
        <5>1. i - (k - 1) \in 1..(n - k) /\ k + (i - (k - 1)) = i + 1
          BY <1>1, <2>2, <4>2
        <5>2. u[i] = b[i - (k - 1)]
          BY <1>1, <2>2, <3>3, <3>4, <4>2
        <5>3. QED
          BY <3>2, <4>2, <5>1, <5>2
      <4>3. QED
        BY <4>1, <4>2
    <3>7. QED
      BY <3>3, <3>4, <3>5, <3>6
  <2> HIDE DEF u
  <2>4. Once(u)
    BY <1>1, <2>2, <2>3 DEF Once
  <2>5. ASSUME NEW i \in 1..(n - 1)
        PROVE  u[i] \in ToSet(t) /\ u[i] # s
    <3>1. PICK j \in 1..n : u[i] = t[j] /\ j # k
      BY <1>1, <2>2, <2>3
    <3>2. QED
      BY <1>1, <2>2, <3>1 DEF Once, ToSet
  <2>6. ASSUME NEW i \in 1..n, t[i] # s
        PROVE  t[i] \in ToSet(u)
    <3>1. CASE i < k
      BY <1>1, <2>2, <2>3, <3>1 DEF ToSet
    <3>2. CASE i > k
      <4>1. i - 1 \in 1..(n - 1) /\ u[i - 1] = t[i]
        BY <1>1, <2>2, <2>3, <3>2
      <4>2. QED
        BY <2>3, <4>1 DEF ToSet
    <3>3. QED
      BY <1>1, <2>2, <2>6, <3>1, <3>2
  <2>7. ToSet(u) = ToSet(t) \ {s}
    BY <1>1, <2>3, <2>5, <2>6 DEF ToSet
  <2>8. QED
    BY <2>1, <2>3, <2>4, <2>7
<1>3. CASE ~ \E i \in 1..n : t[i] = s
  <2>1. RemoveFirst(t, s) = t
    BY <1>3 DEF RemoveFirst
  <2>2. s \notin ToSet(t)
    BY <1>1, <1>3 DEF ToSet
  <2>3. QED
    BY <2>1, <2>2
<1>4. QED
  BY <1>2, <1>3

-----------------------------------------------------------------------------
(* The replay of subscribe(), one event of the ring after the other.       *)

Fresh == [queue |-> <<>>, dropped |-> FALSE]

Subscription == [queue : Seq(Event), dropped : BOOLEAN]

\* The body of the loop.
Took(s, since, r, e) ==
  IF Wanted(s, since, e)
  THEN [queue |-> Push(r.queue, e), dropped |-> r.dropped \/ Overflows(r.queue)]
  ELSE r

\* The ids among the first n events that s is to get.
Due(s, since, n) == {ring[i].id : i \in {j \in 1..n : Wanted(s, since, ring[j])}}

\* A queue that holds what is due, all of it unless something was dropped.
Replayed(s, since, n, r) ==
  /\ r \in Subscription /\ Len(r.queue) <= SubCapacity /\ OnceIds(r.queue)
  /\ Ids(r.queue) \subseteq Due(s, since, n)
  /\ ~r.dropped => Ids(r.queue) = Due(s, since, n)

\* The loop ends with all that is due.
LEMMA ReplayIs ==
  ASSUME NEW s, NEW since, ring \in Seq(Event), OnceIds(ring)
  PROVE  Replayed(s, since, Len(ring), Replay(s, since))
<1> DEFINE L == Len(ring)
<1>1. L \in Nat /\ \A i \in 1..L : ring[i] \in Event
  BY LenProperties, ElementOfSeq
<1>2. Fresh \in Subscription /\ Fresh.queue = <<>> /\ ~Fresh.dropped
  <2>1. \E b \in BOOLEAN : b = FALSE
    BY Zenon
  <2>2. PICK b \in BOOLEAN : b = FALSE
    BY <2>1
  <2>3. [queue |-> <<>>, dropped |-> b] \in Subscription
    BY DEF Subscription
  <2>4. Fresh \in Subscription
    BY <2>2, <2>3, Zenon DEF Fresh
  <2>5. QED
    BY <2>4 DEF Fresh
<1>3. ASSUME NEW r \in Subscription, NEW i \in 1..L
      PROVE  Took(s, since, r, ring[i]) \in Subscription
  <2>1. r.queue = <<>> \/ (r.queue \in Seq(Event) /\ Tail(r.queue) \in Seq(Event))
    BY TailIds DEF Subscription
  <2>2. Push(r.queue, ring[i]) \in Seq(Event)
    <3>1. r.queue \in Seq(Event) /\ ring[i] \in Event
      BY <1>1 DEF Subscription
    <3>2. CASE Overflows(r.queue)
      <4>1. r.queue # <<>>
        BY <3>2, EmptyIds, BroadcasterAssumption DEF Overflows
      <4>2. Tail(r.queue) \in Seq(Event)
        BY <2>1, <4>1
      <4>3. QED
        BY <3>1, <3>2, <4>2, AppendIds DEF Push, Overflows
    <3>3. CASE ~Overflows(r.queue)
      BY <3>1, <3>3, AppendIds DEF Push, Overflows
    <3>4. QED
      BY <3>2, <3>3
  <2>3. (r.dropped \/ Overflows(r.queue)) \in BOOLEAN
    BY Zenon
  <2> DEFINE v == r.dropped \/ Overflows(r.queue)
             u == Push(r.queue, ring[i])
  <2> HIDE DEF v, u
  <2>4. [queue |-> u, dropped |-> v] \in Subscription
    BY <2>2, <2>3 DEF Subscription, u, v
  <2>5. QED
    BY <2>4 DEF Took, u, v
<1> HIDE DEF L
<1> DEFINE Run(n, g) == /\ g \in [0..n -> Subscription] /\ g[0] = Fresh
                        /\ \A i \in 1..n : g[i] = Took(s, since, g[i - 1], ring[i])
           Bad == {k \in 0..L : ~ \E g : Run(k, g)}
<1> HIDE DEF Run
<1>4. ASSUME Bad # {}
      PROVE  FALSE
  <2>1. PICK k \in Bad : \A m \in Bad : k <= m
    <3>1. Bad \subseteq Nat
      BY <1>1
    <3> HIDE DEF Bad
    <3>2. QED
      BY <1>4, <3>1, LeastNumber
  <2>2. CASE k = 0
    <3>1. Run(0, [i \in 0..0 |-> Fresh])
      BY <1>2 DEF Run
    <3>2. QED
      BY <2>1, <2>2, <3>1
  <2>3. CASE k # 0
    <3>1. k - 1 \in 0..L /\ k - 1 \notin Bad /\ k \in 1..L /\ k \in Nat
      BY <1>1, <2>1, <2>3
    <3>2. PICK g : Run(k - 1, g)
      BY <3>1
    <3> DEFINE last == Took(s, since, g[k - 1], ring[k])
               f == [i \in 0..k |-> IF i = k THEN last ELSE g[i]]
    <3>3. last \in Subscription
      BY <1>3, <3>1, <3>2 DEF Run
    <3> HIDE DEF last
    <3>4. f \in [0..k -> Subscription] /\ f[0] = Fresh
      BY <3>1, <3>2, <3>3 DEF Run
    <3>5. ASSUME NEW i \in 1..k
          PROVE  f[i] = Took(s, since, f[i - 1], ring[i])
      <4>1. CASE i = k
        BY <3>1, <4>1 DEF last
      <4>2. CASE i # k
        <5>1. i \in 1..(k - 1) /\ f[i] = g[i] /\ f[i - 1] = g[i - 1]
          BY <3>1, <4>2
        <5>2. QED
          BY <3>2, <5>1 DEF Run
      <4>3. QED
        BY <4>1, <4>2
    <3> HIDE DEF f
    <3>6. Run(k, f)
      BY <3>4, <3>5 DEF Run
    <3>7. QED
      BY <2>1, <3>6
  <2>4. QED
    BY <2>2, <2>3
<1>5. PICK g : Run(L, g)
  <2>1. L \in 0..L
    BY <1>1
  <2>2. L \notin Bad
    BY <1>4
  <2>3. QED
    BY <2>1, <2>2
<1> DEFINE after[n \in 0..L] == IF n = 0 THEN Fresh ELSE Took(s, since, after[n - 1], ring[n])
<1>6. g = [n \in 0..L |-> IF n = 0 THEN Fresh ELSE Took(s, since, g[n - 1], ring[n])]
  BY <1>1, <1>5 DEF Run
<1>7. after = [n \in 0..L |-> IF n = 0 THEN Fresh ELSE Took(s, since, after[n - 1], ring[n])]
  BY <1>6
<1>8. Replay(s, since) = after[L]
  BY DEF Replay, L, Fresh, Took
<1> HIDE DEF after
<1> DEFINE Odd == {n \in 0..L : ~Replayed(s, since, n, after[n])}
<1>9. ASSUME Odd # {}
      PROVE  FALSE
  <2>1. PICK k \in Odd : \A m \in Odd : k <= m
    <3>1. Odd \subseteq Nat
      BY <1>1
    <3> HIDE DEF Odd
    <3>2. QED
      BY <1>9, <3>1, LeastNumber
  <2>2. CASE k = 0
    <3>1. after[k] = Fresh
      BY <1>1, <1>7, <2>2
    <3>2. Due(s, since, 0) = {}
      BY DEF Due
    <3>3. SubCapacity \in Nat
      BY BroadcasterAssumption
    <3>4. Replayed(s, since, 0, Fresh)
      <4>1. Len(Fresh.queue) <= SubCapacity
        BY <1>2, <3>3
      <4>2. Ids(Fresh.queue) = {} /\ OnceIds(Fresh.queue)
        BY <1>2, EmptyIds
      <4>3. QED
        BY <1>2, <3>2, <4>1, <4>2 DEF Replayed
    <3>5. QED
      BY <2>1, <2>2, <3>1, <3>4
  <2>3. CASE k # 0
    <3>1. k - 1 \in 0..L /\ k - 1 \notin Odd /\ k \in 1..L
      BY <1>1, <2>1, <2>3
    <3> DEFINE r == after[k - 1]
               e == ring[k]
    <3>2. Replayed(s, since, k - 1, r) /\ after[k] = Took(s, since, r, e) /\ e \in Event
      BY <1>1, <1>7, <2>3, <3>1
    <3>3. /\ Wanted(s, since, e) => Due(s, since, k) = Due(s, since, k - 1) \cup {e.id}
          /\ ~Wanted(s, since, e) => Due(s, since, k) = Due(s, since, k - 1)
      <4>1. \A i : i \in 1..k <=> i \in 1..(k - 1) \/ i = k
        BY <1>1, <3>1
      <4>2. QED
        BY <4>1 DEF Due
    <3>4. e.id \notin Due(s, since, k - 1)
      <4>1. ASSUME NEW i \in 1..(k - 1), ring[i].id = ring[k].id
            PROVE  FALSE
        BY <1>1, <3>1, <4>1 DEF OnceIds, L
      <4>2. QED
        BY <4>1 DEF Due
    <3>5. after[k] \in Subscription
      BY <1>3, <3>1, <3>2 DEF Replayed
    <3> HIDE DEF r, e
    <3>6. CASE ~Wanted(s, since, e)
      BY <2>1, <3>2, <3>3, <3>6 DEF Took, Replayed
    <3>7. CASE Wanted(s, since, e)
      <4>1. /\ after[k].queue = Push(r.queue, e)
            /\ after[k].dropped <=> r.dropped \/ Overflows(r.queue)
        <5> DEFINE v == r.dropped \/ Overflows(r.queue)
                   new == Push(r.queue, e)
        <5>1. after[k] = [queue |-> new, dropped |-> v]
          BY <3>2, <3>7 DEF Took
        <5> HIDE DEF v, new
        <5>2. after[k].queue = new /\ after[k].dropped = v
          BY <5>1
        <5>3. QED
          BY <5>2 DEF v, new
      <4>2. r.queue \in Seq(Event) /\ Len(r.queue) <= SubCapacity /\ OnceIds(r.queue)
        BY <3>2 DEF Replayed, Subscription
      <4>3. Ids(r.queue) \subseteq Due(s, since, k - 1) /\ (~r.dropped => Ids(r.queue) = Due(s, since, k - 1))
        BY <3>2 DEF Replayed
      <4> DEFINE u == Push(r.queue, e)
      <4>4. /\ Len(u) <= SubCapacity
            /\ Ids(u) \subseteq Ids(r.queue) \cup {e.id}
            /\ ~Overflows(r.queue) => Ids(u) = Ids(r.queue) \cup {e.id}
            /\ OnceIds(r.queue) /\ e.id \notin Ids(r.queue) => OnceIds(u)
        BY <3>2, <4>2, PushIds
      <4> HIDE DEF u
      <4>5. /\ Len(u) <= SubCapacity /\ OnceIds(u)
            /\ Ids(u) \subseteq Due(s, since, k)
            /\ ~(r.dropped \/ Overflows(r.queue)) => Ids(u) = Due(s, since, k)
        BY <3>3, <3>4, <3>7, <4>2, <4>3, <4>4
      <4>6. Replayed(s, since, k, after[k])
        BY <3>5, <4>1, <4>5 DEF Replayed, u
      <4>7. QED
        BY <2>1, <4>6
    <3>8. QED
      BY <3>6, <3>7
  <2>4. QED
    BY <2>2, <2>3
<1>10. Replayed(s, since, L, after[L])
  BY <1>1, <1>9
<1>11. QED
  BY <1>8, <1>10 DEF L

-----------------------------------------------------------------------------
(* The fan-outs.                                                           *)

\* What is on its way to s with a publisher.
LEMMA FannedIs ==
  ASSUME NEW s
  PROVE  /\ \A n : n \in Fanned(s) <=> \E p \in Publisher : Holds(s, p) /\ fan[p].event.id = n
         /\ \A n : n \in Coming(s) <=> \E p \in Publisher : /\ Holds(s, p) /\ fan[p].event.id = n
                                                            /\ Matches(s, fan[p].event)
         /\ \A n : n \in Fanned(s)' <=> \E p \in Publisher : Holds(s, p)' /\ fan'[p].event.id = n
         /\ \A n : n \in Coming(s)' <=> \E p \in Publisher : /\ Holds(s, p)' /\ fan'[p].event.id = n
                                                             /\ Matches(s, fan'[p].event)
BY DEF Fanned, Coming, Holds, Matches

\* Publishers that keep s in their lists still bring it the same events.
LEMMA FannedSame ==
  ASSUME NEW s,
         \A p \in Publisher : /\ Holds(s, p)' <=> Holds(s, p)
                              /\ Holds(s, p) => fan'[p].event = fan[p].event
  PROVE  Fanned(s)' = Fanned(s) /\ Coming(s)' = Coming(s)
<1>1. \A n : n \in Fanned(s)' <=> n \in Fanned(s)
  BY FannedIs
<1>2. \A n : n \in Coming(s)' <=> n \in Coming(s)
  BY FannedIs
<1>3. QED
  BY <1>1, <1>2

\* A publisher with someone on its list is fanning out.
LEMMA HoldsFans ==
  ASSUME FanInv, NEW s, NEW p \in Publisher, Holds(s, p)
  PROVE  fan[p].at = "fanning" /\ fan[p].event.id \in Published
<1>1. fan[p] \in Fan
  BY DEF FanInv
<1>2. ToSet(<<>>) = {}
  BY DEF ToSet
<1>3. fan[p].targets # <<>>
  BY <1>2 DEF Holds
<1>4. QED
  BY <1>3 DEF FanInv

\* An idle publisher holds nobody.
LEMMA IdleFan ==
  /\ Idle \in Fan /\ Idle.targets = <<>> /\ Idle.at = "idle" /\ Idle.event.id = 0
  /\ Once(<<>>) /\ ToSet(<<>>) = {}
<1>1. [id |-> 0, body |-> NoPayload] \in Event
  BY BroadcasterAssumption DEF Event
<1>2. QED
  BY <1>1 DEF Idle, Fan, Once, ToSet

\* publish() enters: nobody is on its list yet.
LEMMA FanEnters ==
  ASSUME FanInv, NEW p \in Publisher, BeginPublish(p)
  PROVE  FanInv' /\ \A s \in Sub : Fanned(s)' = Fanned(s) /\ Coming(s)' = Coming(s)
<1>1. fan[p] \in Fan /\ fan[p].at = "idle" /\ fan[p].targets = <<>> /\ fan \in [Publisher -> Fan]
  BY DEF FanInv, BeginPublish
<1> DEFINE f == [fan[p] EXCEPT !.at = "entered"]
<1>2. f \in Fan /\ f.at = "entered" /\ f.targets = <<>> /\ f.event = fan[p].event
  BY <1>1 DEF Fan
<1>3. fan' = [fan EXCEPT ![p] = f] /\ nextId' = nextId
  BY DEF BeginPublish
<1> HIDE DEF f
<1>4. fan'[p] = f /\ \A q \in Publisher : q # p => fan'[q] = fan[q]
  BY <1>1, <1>3
<1>5. FanInv'
  <2>1. fan' \in [Publisher -> Fan]
    BY <1>1, <1>2, <1>3
  <2>2. Published' = Published
    BY <1>3 DEF Published
  <2>3. ASSUME NEW q \in Publisher
        PROVE  /\ Once(fan'[q].targets)
               /\ fan'[q].at # "fanning" => fan'[q].targets = <<>>
               /\ fan'[q].at = "fanning" => /\ fan'[q].targets # <<>>
                                            /\ fan'[q].event.id \in Published'
    BY <1>2, <1>4, <2>2, IdleFan DEF FanInv
  <2>4. ASSUME NEW q \in Publisher, NEW r \in Publisher,
               fan'[q].at = "fanning", fan'[r].at = "fanning",
               fan'[q].event.id = fan'[r].event.id
        PROVE  q = r
    BY <1>2, <1>4, <2>4 DEF FanInv
  <2>5. QED
    BY <2>1, <2>3, <2>4 DEF FanInv
<1>6. ASSUME NEW s \in Sub
      PROVE  Fanned(s)' = Fanned(s) /\ Coming(s)' = Coming(s)
  <2>1. \A q \in Publisher : fan'[q].targets = fan[q].targets /\ fan'[q].event = fan[q].event
    BY <1>1, <1>2, <1>4
  <2>2. \A q \in Publisher : Holds(s, q)' <=> Holds(s, q)
    BY <2>1 DEF Holds
  <2>3. QED
    BY <2>1, <2>2, FannedSame
<1>7. QED
  BY <1>5, <1>6

\* publish() under the mutex: the new event is on its way to everyone registered.
LEMMA FanStarts ==
  ASSUME FanInv, BusInv, NEW p \in Publisher, NEW x \in Payload, Publish(p, x)
  PROVE  /\ FanInv'
         /\ \A s \in Sub :
              /\ Fanned(s)' = IF s \in ToSet(subs) THEN Fanned(s) \cup {nextId} ELSE Fanned(s)
              /\ Coming(s)' = IF s \in ToSet(subs) /\ FilterMatches(Filter[s], x)
                              THEN Coming(s) \cup {nextId} ELSE Coming(s)
<1> DEFINE e == [id |-> nextId, body |-> x]
           f == IF subs = <<>> THEN Idle ELSE [at |-> "fanning", event |-> e, targets |-> subs]
<1>1. /\ fan[p] \in Fan /\ fan[p].at = "entered" /\ fan[p].targets = <<>>
      /\ fan \in [Publisher -> Fan]
  BY DEF FanInv, Publish
<1>2. nextId \in Nat /\ nextId \in 1..MaxId /\ MaxId \in Nat /\ nextId' = nextId + 1
  BY BroadcasterAssumption DEF BusInv, Publish
<1>3. e \in Event /\ e.id = nextId /\ e.body = x
  BY <1>2 DEF Event
<1>4. fan' = [fan EXCEPT ![p] = f]
  BY DEF Publish
<1>5. /\ f \in Fan /\ f.targets = subs /\ Once(f.targets)
      /\ f.at = (IF subs = <<>> THEN "idle" ELSE "fanning")
      /\ subs # <<>> => f.event = e
  <2>1. subs \in Seq(Sub) /\ Once(subs)
    BY DEF BusInv
  <2>2. CASE subs = <<>>
    BY <2>1, <2>2, IdleFan
  <2>3. CASE subs # <<>>
    <3> HIDE DEF e
    <3>1. [at |-> "fanning", event |-> e, targets |-> subs] \in Fan
      BY <1>3, <2>1 DEF Fan
    <3>2. QED
      BY <2>1, <2>3, <3>1
  <2>4. QED
    BY <2>2, <2>3
<1> HIDE DEF e, f
<1>6. fan'[p] = f /\ \A q \in Publisher : q # p => fan'[q] = fan[q]
  BY <1>1, <1>4
<1>7. nextId \notin Published /\ nextId \in Published' /\ Published \subseteq Published'
  BY <1>2 DEF Published
<1>8. FanInv'
  <2>1. fan' \in [Publisher -> Fan]
    BY <1>1, <1>4, <1>5
  <2>2. ASSUME NEW q \in Publisher
        PROVE  /\ Once(fan'[q].targets)
               /\ fan'[q].at # "fanning" => fan'[q].targets = <<>>
               /\ fan'[q].at = "fanning" => /\ fan'[q].targets # <<>>
                                            /\ fan'[q].event.id \in Published'
    <3>1. CASE q = p
      BY <1>3, <1>5, <1>6, <1>7, <3>1
    <3>2. CASE q # p
      BY <1>6, <1>7, <3>2 DEF FanInv
    <3>3. QED
      BY <3>1, <3>2
  <2>3. ASSUME NEW q \in Publisher, NEW r \in Publisher,
               fan'[q].at = "fanning", fan'[r].at = "fanning",
               fan'[q].event.id = fan'[r].event.id
        PROVE  q = r
    <3>1. f.at = "fanning" => f.event.id = nextId
      BY <1>3, <1>5
    <3>2. \A u \in Publisher : fan[u].at = "fanning" => fan[u].event.id # nextId
      BY <1>7 DEF FanInv
    <3>3. q = p /\ r # p => FALSE
      BY <1>6, <2>3, <3>1, <3>2
    <3>4. r = p /\ q # p => FALSE
      BY <1>6, <2>3, <3>1, <3>2
    <3>5. q # p /\ r # p => q = r
      BY <1>6, <2>3 DEF FanInv
    <3>6. QED
      BY <3>3, <3>4, <3>5
  <2>4. QED
    BY <2>1, <2>2, <2>3 DEF FanInv
<1>9. ASSUME NEW s \in Sub
      PROVE  /\ Fanned(s)' = IF s \in ToSet(subs) THEN Fanned(s) \cup {nextId} ELSE Fanned(s)
             /\ Coming(s)' = IF s \in ToSet(subs) /\ FilterMatches(Filter[s], x)
                             THEN Coming(s) \cup {nextId} ELSE Coming(s)
  <2>1. ~Holds(s, p) /\ (Holds(s, p)' <=> s \in ToSet(subs))
    BY <1>1, <1>5, <1>6, IdleFan DEF Holds
  <2>2. \A q \in Publisher : q # p => /\ Holds(s, q)' <=> Holds(s, q)
                                      /\ fan'[q].event = fan[q].event
    BY <1>6 DEF Holds
  <2>3. Holds(s, p)' => /\ fan'[p].event.id = nextId
                        /\ Matches(s, fan'[p].event) <=> FilterMatches(Filter[s], x)
    <3>1. Holds(s, p)' => subs # <<>>
      BY <2>1, IdleFan
    <3>2. QED
      BY <1>3, <1>5, <1>6, <3>1 DEF Matches
  <2>4. \A n : n \in Fanned(s)' <=> n \in Fanned(s) \/ (s \in ToSet(subs) /\ n = nextId)
    BY <2>1, <2>2, <2>3, FannedIs
  <2>5. \A n : n \in Coming(s)' <=>
                 n \in Coming(s) \/ (s \in ToSet(subs) /\ FilterMatches(Filter[s], x) /\ n = nextId)
    BY <2>1, <2>2, <2>3, FannedIs
  <2>6. QED
    BY <2>4, <2>5
<1>10. QED
  BY <1>8, <1>9

\* A list that lost one subscriber, in every fan-out of a set of publishers.
LEMMA FanShrinks ==
  ASSUME FanInv, nextId' = nextId, NEW s \in Sub, NEW P \in SUBSET Publisher,
         fan' \in [Publisher -> Fan],
         \A q \in Publisher \ P : fan'[q] = fan[q],
         \A q \in P : /\ Once(fan'[q].targets)
                      /\ ToSet(fan'[q].targets) = ToSet(fan[q].targets) \ {s}
                      /\ fan'[q].targets # <<>> => /\ fan'[q].event = fan[q].event
                                                   /\ fan'[q].at = fan[q].at
                      /\ fan'[q].at = "fanning" => fan'[q].targets # <<>>
  PROVE  /\ FanInv'
         /\ \A t \in Sub : t # s => Fanned(t)' = Fanned(t) /\ Coming(t)' = Coming(t)
<1>1. Published' = Published
  BY DEF Published
<1>2. ASSUME NEW q \in P, fan'[q].targets # <<>>
      PROVE  fan[q].at = "fanning" /\ fan[q].targets # <<>>
  <2>1. fan'[q] \in Fan
    OBVIOUS
  <2>2. fan'[q].targets \in Seq(Sub)
    BY <2>1 DEF Fan
  <2>3. \E t : t \in ToSet(fan'[q].targets)
    <3>1. Len(fan'[q].targets) \in Nat /\ Len(fan'[q].targets) # 0
      BY <1>2, <2>2, EmptySeq, LenProperties
    <3>2. 1 \in DOMAIN fan'[q].targets
      BY <2>2, <3>1, LenProperties
    <3>3. fan'[q].targets[1] \in ToSet(fan'[q].targets)
      BY <3>2 DEF ToSet
    <3>4. QED
      BY <3>3
  <2>4. PICK t : t \in ToSet(fan'[q].targets)
    BY <2>3
  <2>5. Holds(t, q)
    BY <2>4 DEF Holds
  <2>6. QED
    BY <2>5, HoldsFans DEF FanInv
<1>3. FanInv'
  <2>1. ASSUME NEW q \in Publisher
        PROVE  /\ Once(fan'[q].targets)
               /\ fan'[q].at # "fanning" => fan'[q].targets = <<>>
               /\ fan'[q].at = "fanning" => /\ fan'[q].targets # <<>>
                                            /\ fan'[q].event.id \in Published'
    <3>1. CASE q \in P
      <4>1. fan'[q].targets # <<>> => fan'[q].at = "fanning" /\ fan'[q].event = fan[q].event
        BY <1>2, <3>1
      <4>2. fan'[q].targets # <<>> => fan[q].event.id \in Published
        BY <1>2, <3>1 DEF FanInv
      <4>3. QED
        BY <1>1, <3>1, <4>1, <4>2
    <3>2. CASE q \notin P
      BY <1>1, <3>2 DEF FanInv
    <3>3. QED
      BY <3>1, <3>2
  <2>2. ASSUME NEW q \in Publisher, fan'[q].at = "fanning"
        PROVE  fan[q].at = "fanning" /\ fan'[q].event = fan[q].event
    <3>1. CASE q \in P
      BY <1>2, <2>2, <3>1
    <3>2. CASE q \notin P
      BY <2>2, <3>2
    <3>3. QED
      BY <3>1, <3>2
  <2>3. ASSUME NEW q \in Publisher, NEW r \in Publisher,
               fan'[q].at = "fanning", fan'[r].at = "fanning",
               fan'[q].event.id = fan'[r].event.id
        PROVE  q = r
    <3>1. fan[q].at = "fanning" /\ fan[r].at = "fanning" /\ fan[q].event.id = fan[r].event.id
      BY <2>2, <2>3
    <3>2. QED
      BY <3>1 DEF FanInv
  <2>4. QED
    BY <2>1, <2>3 DEF FanInv
<1>4. ASSUME NEW t \in Sub, t # s
      PROVE  Fanned(t)' = Fanned(t) /\ Coming(t)' = Coming(t)
  <2>1. ASSUME NEW q \in Publisher
        PROVE  /\ Holds(t, q)' <=> Holds(t, q)
               /\ Holds(t, q) => fan'[q].event = fan[q].event
    <3>1. CASE q \in P
      <4>1. Holds(t, q)' <=> Holds(t, q)
        BY <1>4, <3>1 DEF Holds
      <4>2. Holds(t, q)' => fan'[q].targets # <<>>
        BY IdleFan DEF Holds
      <4>3. QED
        BY <3>1, <4>1, <4>2
    <3>2. CASE q \notin P
      BY <3>2 DEF Holds
    <3>3. QED
      BY <3>1, <3>2
  <2>2. QED
    BY <2>1, FannedSame
<1>5. QED
  BY <1>3, <1>4

\* The fan-out comes to the next subscriber: the event is no longer on its way to it.
LEMMA FanGoes ==
  ASSUME FanInv, NEW p \in Publisher, FanOut(p),
         NEW s, s = Head(fan[p].targets), NEW e, e = fan[p].event
  PROVE  /\ s \in Sub /\ e \in Event /\ e.id \in Published /\ e.id \in Fanned(s)
         /\ FanInv'
         /\ \A t \in Sub : t # s => Fanned(t)' = Fanned(t) /\ Coming(t)' = Coming(t)
         /\ Fanned(s)' = Fanned(s) \ {e.id}
         /\ Coming(s)' = Coming(s) \ {e.id}
         /\ Matches(s, e) => e.id \in Coming(s)
         /\ ~Matches(s, e) => e.id \notin Coming(s)
<1> DEFINE rest == Tail(fan[p].targets)
           f == IF rest = <<>> THEN Idle ELSE [fan[p] EXCEPT !.targets = rest]
<1>1. /\ fan[p] \in Fan /\ fan[p].at = "fanning" /\ fan[p].targets # <<>>
      /\ fan[p].targets \in Seq(Sub) /\ Once(fan[p].targets)
      /\ fan \in [Publisher -> Fan] /\ e \in Event /\ e.id \in Published
  BY DEF FanInv, FanOut, Fan
<1>2. /\ s \in Sub /\ s \in ToSet(fan[p].targets)
      /\ rest \in Seq(Sub) /\ Once(rest) /\ ToSet(rest) = ToSet(fan[p].targets) \ {s}
  BY <1>1, TailSubs
<1>3. fan' = [fan EXCEPT ![p] = f] /\ nextId' = nextId
  BY DEF FanOut
<1> HIDE DEF rest
<1>4. /\ f \in Fan /\ f.targets = rest
      /\ rest # <<>> => f.event = fan[p].event /\ f.at = fan[p].at
      /\ f.at = "fanning" => rest # <<>>
  BY <1>1, <1>2, IdleFan DEF Fan
<1> HIDE DEF f
<1>5. fan'[p] = f /\ \A q \in Publisher : q # p => fan'[q] = fan[q]
  BY <1>1, <1>3
<1>6. /\ FanInv'
      /\ \A t \in Sub : t # s => Fanned(t)' = Fanned(t) /\ Coming(t)' = Coming(t)
  <2>1. fan' \in [Publisher -> Fan]
    BY <1>1, <1>3, <1>4
  <2>2. \A q \in Publisher \ {p} : fan'[q] = fan[q]
    BY <1>5
  <2>3. \A q \in {p} : /\ Once(fan'[q].targets)
                       /\ ToSet(fan'[q].targets) = ToSet(fan[q].targets) \ {s}
                       /\ fan'[q].targets # <<>> => /\ fan'[q].event = fan[q].event
                                                    /\ fan'[q].at = fan[q].at
                       /\ fan'[q].at = "fanning" => fan'[q].targets # <<>>
    BY <1>2, <1>4, <1>5
  <2>4. {p} \in SUBSET Publisher
    OBVIOUS
  <2>5. QED
    BY <1>2, <1>3, <2>1, <2>2, <2>3, <2>4, FanShrinks
<1>7. Holds(s, p) /\ ~Holds(s, p)'
  BY <1>2, <1>4, <1>5 DEF Holds
<1>8. \A q \in Publisher : q # p => /\ Holds(s, q)' <=> Holds(s, q)
                                    /\ fan'[q].event = fan[q].event
  BY <1>5 DEF Holds
<1>9. \A q \in Publisher : q # p /\ Holds(s, q) => fan[q].event.id # e.id
  <2>1. ASSUME NEW q \in Publisher, q # p, Holds(s, q)
        PROVE  fan[q].event.id # e.id
    <3>1. fan[q].at = "fanning"
      BY <2>1, HoldsFans
    <3>2. QED
      BY <1>1, <2>1, <3>1 DEF FanInv
  <2>2. QED
    BY <2>1
<1>10. \A n : n \in Fanned(s)' <=> n \in Fanned(s) /\ n # e.id
  BY <1>7, <1>8, <1>9, FannedIs
<1>11. \A n : n \in Coming(s)' <=> n \in Coming(s) /\ n # e.id
  BY <1>7, <1>8, <1>9, FannedIs
<1>12. e.id \in Fanned(s) /\ (Matches(s, e) => e.id \in Coming(s))
  BY <1>7, FannedIs
<1>13. ~Matches(s, e) => e.id \notin Coming(s)
  BY <1>7, <1>9, FannedIs
<1>14. QED
  BY <1>1, <1>2, <1>6, <1>10, <1>11, <1>12, <1>13

\* A subscription is destroyed: no publisher brings it anything any more.
LEMMA FanLeaves ==
  ASSUME FanInv, NEW s \in Sub, Unsubscribe(s)
  PROVE  /\ FanInv'
         /\ \A t \in Sub : t # s => Fanned(t)' = Fanned(t) /\ Coming(t)' = Coming(t)
         /\ Fanned(s)' = {}
<1> DEFINE rest(q) == RemoveFirst(fan[q].targets, s)
           f(q) == IF fan[q].at = "fanning" /\ rest(q) = <<>> THEN Idle
                   ELSE [fan[q] EXCEPT !.targets = rest(q)]
<1>1. fan' = [q \in Publisher |-> f(q)] /\ nextId' = nextId
  BY DEF Unsubscribe
<1>2. ASSUME NEW q \in Publisher
      PROVE  /\ f(q) \in Fan /\ Once(f(q).targets)
             /\ ToSet(f(q).targets) = ToSet(fan[q].targets) \ {s}
             /\ f(q).targets # <<>> => f(q).event = fan[q].event /\ f(q).at = fan[q].at
             /\ f(q).at = "fanning" => f(q).targets # <<>>
  <2>1. fan[q] \in Fan /\ fan[q].targets \in Seq(Sub) /\ Once(fan[q].targets)
    BY DEF FanInv, Fan
  <2>2. /\ rest(q) \in Seq(Sub) /\ Once(rest(q))
        /\ ToSet(rest(q)) = ToSet(fan[q].targets) \ {s}
    BY <2>1, RemoveSubs
  <2> DEFINE u == rest(q)
             g == [fan[q] EXCEPT !.targets = u]
  <2> HIDE DEF u
  <2>3. g \in Fan /\ g.targets = u /\ g.event = fan[q].event /\ g.at = fan[q].at
    BY <2>1, <2>2 DEF Fan, u
  <2>4. f(q) = IF fan[q].at = "fanning" /\ u = <<>> THEN Idle ELSE g
    BY DEF u
  <2>5. Once(u) /\ ToSet(u) = ToSet(fan[q].targets) \ {s}
    BY <2>2 DEF u
  <2> HIDE DEF f, g, rest
  <2>6. CASE fan[q].at = "fanning" /\ u = <<>>
    BY <2>4, <2>5, <2>6, IdleFan
  <2>7. CASE ~(fan[q].at = "fanning" /\ u = <<>>)
    BY <2>3, <2>4, <2>5, <2>7
  <2>8. QED
    BY <2>6, <2>7
<1> HIDE DEF f, rest
<1>3. \A q \in Publisher : fan'[q] = f(q)
  BY <1>1
<1>4. fan' \in [Publisher -> Fan]
  BY <1>1, <1>2
<1>5. /\ FanInv'
      /\ \A t \in Sub : t # s => Fanned(t)' = Fanned(t) /\ Coming(t)' = Coming(t)
  <2>1. \A q \in Publisher : /\ Once(fan'[q].targets)
                             /\ ToSet(fan'[q].targets) = ToSet(fan[q].targets) \ {s}
                             /\ fan'[q].targets # <<>> => /\ fan'[q].event = fan[q].event
                                                          /\ fan'[q].at = fan[q].at
                             /\ fan'[q].at = "fanning" => fan'[q].targets # <<>>
    BY <1>2, <1>3
  <2>2. Publisher \in SUBSET Publisher /\ \A q \in Publisher \ Publisher : fan'[q] = fan[q]
    OBVIOUS
  <2>3. QED
    BY <1>1, <1>4, <2>1, <2>2, FanShrinks
<1>6. \A q \in Publisher : ~Holds(s, q)'
  BY <1>2, <1>3 DEF Holds
<1>7. \A n : n \notin Fanned(s)'
  BY <1>6, FannedIs
<1>8. QED
  BY <1>5, <1>7

\* A server that starts has no fan-out in progress.
LEMMA FanEmpty ==
  /\ fan = [p \in Publisher |-> Idle] => FanInv /\ \A s : Fanned(s) = {} /\ Coming(s) = {}
  /\ fan' = [p \in Publisher |-> Idle] => FanInv' /\ \A s : Fanned(s)' = {} /\ Coming(s)' = {}
<1>1. ASSUME fan = [p \in Publisher |-> Idle]
      PROVE  FanInv /\ \A s : Fanned(s) = {} /\ Coming(s) = {}
  <2>1. \A p \in Publisher : fan[p] = Idle
    BY <1>1
  <2>2. FanInv
    BY <1>1, <2>1, IdleFan DEF FanInv
  <2>3. \A s : \A p \in Publisher : ~Holds(s, p)
    BY <2>1, IdleFan DEF Holds
  <2>4. \A s : \A n : n \notin Fanned(s) /\ n \notin Coming(s)
    BY <2>3, FannedIs
  <2>5. QED
    BY <2>2, <2>4
<1>2. ASSUME fan' = [p \in Publisher |-> Idle]
      PROVE  FanInv' /\ \A s : Fanned(s)' = {} /\ Coming(s)' = {}
  <2>1. \A p \in Publisher : fan'[p] = Idle
    BY <1>2
  <2>2. FanInv'
    BY <1>2, <2>1, IdleFan DEF FanInv
  <2>3. \A s : \A p \in Publisher : ~Holds(s, p)'
    BY <2>1, IdleFan DEF Holds
  <2>4. \A s : \A n : n \notin Fanned(s)' /\ n \notin Coming(s)'
    BY <2>3, FannedIs
  <2>5. QED
    BY <2>2, <2>4
<1>3. QED
  BY <1>1, <1>2

-----------------------------------------------------------------------------
(* Every step keeps the invariant.                                         *)

Client(s) == PathInv(s) /\ SeenInv(s) /\ ExactInv(s)

\* A step that does not touch what is on its way to s, or its session.
LEMMA Untouched ==
  ASSUME DeliveryInv, NEW s \in Sub,
         nextId' = nextId, run' = run, stopped => stopped',
         queue'[s] = queue[s], wire'[s] = wire[s], handler'[s] = handler[s], link'[s] = link[s],
         seen'[s] = seen[s], cursor'[s] = cursor[s], owed'[s] = owed[s],
         s \in ToSet(subs') => s \in ToSet(subs),
         s \in dropped => s \in dropped', closed[s] => closed'[s],
         Fanned(s)' = Fanned(s), Coming(s)' = Coming(s)
  PROVE  Client(s)'
<1>1. PathInv(s) /\ SeenInv(s) /\ ExactInv(s)
  BY DEF DeliveryInv
<1>2. Published' = Published
  BY DEF Published
<1>3. Now(s)' = Now(s)
  BY DEF Now
<1>4. PathInv(s)'
  BY <1>1, <1>2 DEF PathInv
<1>5. SeenInv(s)'
  BY <1>1, <1>2, <1>3 DEF SeenInv
<1>6. ExactInv(s)'
  BY <1>1 DEF ExactInv
<1>7. QED
  BY <1>4, <1>5, <1>6 DEF Client

\* A step that leaves the publishers alone.
LEMMA SameFans ==
  ASSUME DeliveryInv, fan' = fan, nextId' = nextId
  PROVE  FanInv' /\ \A s \in Sub : Fanned(s)' = Fanned(s) /\ Coming(s)' = Coming(s)
<1>1. FanInv' <=> FanInv
  BY DEF FanInv, Published
<1>2. \A s \in Sub : Fanned(s)' = Fanned(s) /\ Coming(s)' = Coming(s)
  BY DEF Fanned, Coming, Holds, Matches
<1>3. QED
  BY <1>1, <1>2 DEF DeliveryInv

\* Entering publish() changes nothing for anybody.
LEMMA EnterStep ==
  ASSUME DeliveryInv, NEW p \in Publisher, Enter(p)
  PROVE  DeliveryInv'
<1>1. BeginPublish(p) /\ UNCHANGED <<clientVars, owed, handler, run, sessions>>
  BY DEF Enter
<1>2. FanInv' /\ \A s \in Sub : Fanned(s)' = Fanned(s) /\ Coming(s)' = Coming(s)
  BY <1>1, FanEnters DEF DeliveryInv
<1>3. /\ UNCHANGED <<nextId, ring, subs, queue, closed, dropped, stopped, sweep>>
      /\ UNCHANGED <<link, wire, cursor, seen, again, owed, handler, run, sessions>>
  BY <1>1 DEF BeginPublish, clientVars, stopVars
<1>4. BusInv' /\ ClientType' /\ again' \subseteq Gate
  BY <1>3 DEF DeliveryInv, BusInv, ClientType, Published
<1>5. \A s \in Sub : Client(s)'
  BY <1>2, <1>3, Untouched
<1>6. QED
  BY <1>2, <1>4, <1>5 DEF DeliveryInv, Client

\* The ring keeps the newest events, each once.
LEMMA RingKeeps ==
  ASSUME BusInv, NEW x \in Payload, nextId \in 1..MaxId,
         NEW e, e = [id |-> nextId, body |-> x]
  PROVE  /\ e \in Event /\ RingWith(e) \in Seq(Event) /\ Len(RingWith(e)) <= RingCapacity
         /\ Ids(RingWith(e)) \subseteq Published \cup {nextId} /\ OnceIds(RingWith(e))
<1>1. e \in Event /\ e.id = nextId
  BY BroadcasterAssumption DEF Event
<1>2. /\ ring \in Seq(Event) /\ Len(ring) \in Nat /\ Len(ring) <= RingCapacity /\ OnceIds(ring)
      /\ Ids(ring) \subseteq Published /\ RingCapacity \in Nat \ {0}
  BY BroadcasterAssumption, LenProperties DEF BusInv
<1>3. nextId \notin Published
  BY DEF Published
<1> DEFINE q == IF Len(ring) = RingCapacity THEN Tail(ring) ELSE ring
<1>4. /\ q \in Seq(Event) /\ Len(q) < RingCapacity /\ OnceIds(q) /\ Ids(q) \subseteq Published
      /\ Len(q) \in Nat
  <2>1. CASE Len(ring) = RingCapacity
    <3>1. ring # <<>>
      BY <1>2, <2>1, EmptyIds
    <3>2. /\ Tail(ring) \in Seq(Event) /\ Len(Tail(ring)) = Len(ring) - 1
          /\ Ids(Tail(ring)) \subseteq Ids(ring) /\ OnceIds(Tail(ring))
      BY <1>2, <3>1, TailIds
    <3>3. QED
      BY <1>2, <2>1, <3>2
  <2>2. CASE Len(ring) # RingCapacity
    BY <1>2, <2>2
  <2>3. QED
    BY <2>1, <2>2
<1>5. RingWith(e) = Append(q, e)
  BY DEF RingWith
<1> HIDE DEF q
<1>6. /\ Append(q, e) \in Seq(Event) /\ Len(Append(q, e)) = Len(q) + 1
      /\ Ids(Append(q, e)) = Ids(q) \cup {e.id}
      /\ OnceIds(q) /\ e.id \notin Ids(q) => OnceIds(Append(q, e))
  BY <1>1, <1>4, AppendIds
<1>7. OnceIds(Append(q, e)) /\ Ids(Append(q, e)) \subseteq Published \cup {nextId}
  BY <1>1, <1>3, <1>4, <1>6
<1>8. Len(Append(q, e)) <= RingCapacity
  BY <1>2, <1>4, <1>6
<1>9. QED
  BY <1>1, <1>5, <1>6, <1>7, <1>8

\* publish() under the mutex: a new id, which nobody has seen.
LEMMA PublishStep ==
  ASSUME DeliveryInv, NEW p \in Publisher, PublishEvent(p)
  PROVE  DeliveryInv'
<1>1. PICK x \in Payload :
        /\ Publish(p, x)
        /\ owed' = [s \in Sub |-> IF s \in ToSet(subs) /\ FilterMatches(Filter[s], x)
                                  THEN owed[s] \cup {nextId} ELSE owed[s]]
  BY DEF PublishEvent
<1>2. BusInv /\ FanInv /\ ClientType /\ again \subseteq Gate
  BY DEF DeliveryInv
<1>3. /\ UNCHANGED <<subs, queue, closed, dropped, stopped, sweep>>
      /\ UNCHANGED <<link, wire, cursor, seen, again, handler, run, sessions>>
      /\ nextId' = nextId + 1 /\ nextId <= MaxId
  BY <1>1 DEF PublishEvent, Publish, clientVars, stopVars
<1>4. /\ FanInv'
      /\ \A s \in Sub :
           /\ Fanned(s)' = IF s \in ToSet(subs) THEN Fanned(s) \cup {nextId} ELSE Fanned(s)
           /\ Coming(s)' = IF s \in ToSet(subs) /\ FilterMatches(Filter[s], x)
                           THEN Coming(s) \cup {nextId} ELSE Coming(s)
  BY <1>1, <1>2, FanStarts
<1>5. /\ nextId \in 1..MaxId /\ nextId' \in 1..(MaxId + 1)
      /\ Published' = Published \cup {nextId} /\ nextId \notin Published
  <2>1. nextId \in 1..(MaxId + 1) /\ MaxId \in Nat
    BY <1>2, BroadcasterAssumption DEF BusInv
  <2>2. QED
    BY <1>3, <2>1 DEF Published
<1>6. BusInv'
  <2>1. PICK e : e = [id |-> nextId, body |-> x]
    OBVIOUS
  <2>2. ring' = RingWith(e)
    BY <1>1, <2>1 DEF Publish
  <2>3. /\ RingWith(e) \in Seq(Event) /\ Len(RingWith(e)) <= RingCapacity
        /\ Ids(RingWith(e)) \subseteq Published \cup {nextId} /\ OnceIds(RingWith(e))
    BY <1>2, <1>5, <2>1, RingKeeps
  <2>4. QED
    BY <1>2, <1>3, <1>5, <2>2, <2>3 DEF BusInv
<1>7. ClientType'
  <2>1. owed' \in [Sub -> SUBSET (1..MaxId)]
    BY <1>1, <1>2, <1>5 DEF ClientType
  <2>2. QED
    BY <1>2, <1>3, <2>1 DEF ClientType
<1>8. ASSUME NEW s \in Sub
      PROVE  Client(s)'
  <2>1. PathInv(s) /\ SeenInv(s) /\ ExactInv(s)
    BY DEF DeliveryInv
  <2>2. /\ queue'[s] = queue[s] /\ wire'[s] = wire[s] /\ handler'[s] = handler[s]
        /\ link'[s] = link[s] /\ cursor'[s] = cursor[s] /\ closed'[s] = closed[s]
    BY <1>3
  <2>3. owed'[s] = IF s \in ToSet(subs) /\ FilterMatches(Filter[s], x)
                   THEN owed[s] \cup {nextId} ELSE owed[s]
    BY <1>1
  <2>4. Now(s)' = Now(s)
    BY <1>3 DEF Now
  <2>5. PathInv(s)'
    BY <1>3, <1>4, <1>5, <2>1, <2>2 DEF PathInv
  <2>6. SeenInv(s)'
    BY <1>4, <1>5, <2>1, <2>2, <2>4 DEF SeenInv
  <2>7. ExactInv(s)'
    BY <1>3, <1>4, <2>1, <2>2, <2>3 DEF ExactInv
  <2>8. QED
    BY <2>5, <2>6, <2>7 DEF Client
<1>9. QED
  BY <1>2, <1>3, <1>4, <1>6, <1>7, <1>8 DEF DeliveryInv, Client

\* A push moves the event from the publisher to the queue; what a full queue drops is
\* recorded.
LEMMA FanOutStep ==
  ASSUME DeliveryInv, NEW p \in Publisher, FanOutEvent(p)
  PROVE  DeliveryInv'
<1>1. FanOut(p) /\ UNCHANGED <<clientVars, owed, handler, run, sessions>>
  BY DEF FanOutEvent
<1>2. BusInv /\ FanInv /\ ClientType /\ again \subseteq Gate
  BY DEF DeliveryInv
<1>3. PICK s : s = Head(fan[p].targets)
  OBVIOUS
<1>4. PICK e : e = fan[p].event
  OBVIOUS
<1>5. /\ s \in Sub /\ e \in Event /\ e.id \in Published /\ e.id \in Fanned(s)
      /\ FanInv'
      /\ \A t \in Sub : t # s => Fanned(t)' = Fanned(t) /\ Coming(t)' = Coming(t)
      /\ Fanned(s)' = Fanned(s) \ {e.id}
      /\ Coming(s)' = Coming(s) \ {e.id}
      /\ Matches(s, e) => e.id \in Coming(s)
      /\ ~Matches(s, e) => e.id \notin Coming(s)
  BY <1>1, <1>2, <1>3, <1>4, FanGoes
<1> DEFINE takes == ~closed[s] /\ Matches(s, e)
<1>6. /\ queue' = IF takes THEN [queue EXCEPT ![s] = Push(@, e)] ELSE queue
      /\ dropped' = IF takes /\ Overflows(queue[s]) THEN dropped \cup {s} ELSE dropped
      /\ UNCHANGED <<nextId, ring, subs, closed, stopped, sweep>>
      /\ UNCHANGED <<link, wire, cursor, seen, again, owed, handler, run, sessions>>
  BY <1>1, <1>3, <1>4 DEF FanOut, clientVars, stopVars
<1>7. PathInv(s) /\ SeenInv(s) /\ ExactInv(s)
  BY <1>5 DEF DeliveryInv
<1>8. queue \in [Sub -> Seq(Event)] /\ queue[s] \in Seq(Event) /\ Len(queue[s]) <= SubCapacity
  BY <1>2, <1>5, <1>7 DEF ClientType, PathInv
<1> DEFINE u == Push(queue[s], e)
<1>9. /\ u \in Seq(Event) /\ Len(u) <= SubCapacity
      /\ Ids(u) \subseteq Ids(queue[s]) \cup {e.id}
      /\ ~Overflows(queue[s]) => Ids(u) = Ids(queue[s]) \cup {e.id}
      /\ OnceIds(queue[s]) /\ e.id \notin Ids(queue[s]) => OnceIds(u)
  BY <1>5, <1>8, PushIds
<1>10. /\ queue' \in [Sub -> Seq(Event)]
       /\ queue'[s] = IF takes THEN u ELSE queue[s]
       /\ \A t \in Sub : t # s => queue'[t] = queue[t]
  BY <1>5, <1>6, <1>8, <1>9
<1> HIDE DEF u
<1>11. BusInv' /\ ClientType' /\ again' \subseteq Gate
  BY <1>2, <1>5, <1>6, <1>10 DEF BusInv, ClientType, Published
<1>12. ASSUME NEW t \in Sub, t # s
       PROVE  Client(t)'
  <2>1. queue'[t] = queue[t] /\ Fanned(t)' = Fanned(t) /\ Coming(t)' = Coming(t)
    BY <1>5, <1>10, <1>12
  <2>2. t \in dropped => t \in dropped'
    BY <1>6
  <2>3. QED
    BY <1>6, <2>1, <2>2, Untouched
<1>13. Client(s)'
  <2>1. Published' = Published /\ Now(s)' = Now(s)
    BY <1>6 DEF Published, Now
  <2>2. e.id \notin Ids(queue[s]) /\ e.id \notin Ids(wire[s])
    BY <1>5, <1>7 DEF PathInv
  <2>3. handler[s] \notin {"none", "entered"}
    BY <1>5, <1>7 DEF PathInv
  <2>4. /\ Len(queue'[s]) <= SubCapacity /\ OnceIds(queue'[s])
        /\ Ids(queue'[s]) \subseteq Ids(queue[s]) \cup {e.id}
    BY <1>7, <1>9, <1>10, <2>2 DEF PathInv
  <2>5. PathInv(s)'
    BY <1>5, <1>6, <1>7, <2>1, <2>2, <2>3, <2>4 DEF PathInv
  <2>6. SeenInv(s)'
    BY <1>5, <1>6, <1>7, <2>1, <2>4 DEF SeenInv
  <2>7. ExactInv(s)'
    <3>1. CASE takes
      <4>1. s \notin dropped' => s \notin dropped /\ Ids(queue'[s]) = Ids(queue[s]) \cup {e.id}
        BY <1>6, <1>9, <1>10, <3>1
      <4>2. QED
        BY <1>5, <1>6, <1>7, <3>1, <4>1 DEF ExactInv
    <3>2. CASE ~takes
      BY <1>5, <1>6, <1>7, <1>10, <3>2 DEF ExactInv
    <3>3. QED
      BY <3>1, <3>2
  <2>8. QED
    BY <2>5, <2>6, <2>7 DEF Client
<1>14. QED
  BY <1>5, <1>11, <1>12, <1>13 DEF DeliveryInv, Client

\* A client opens a stream: nothing of an earlier session is left on it.
LEMMA ConnectStep ==
  ASSUME DeliveryInv, NEW s \in Sub, Connect(s)
  PROVE  DeliveryInv'
<1>1. BusInv /\ FanInv /\ ClientType /\ again \subseteq Gate /\ PathInv(s) /\ SeenInv(s)
  BY DEF DeliveryInv
<1>2. /\ ~link[s] /\ handler[s] = "none" /\ ~stopped /\ sessions[s] < MaxSessions[s]
      /\ link' = [link EXCEPT ![s] = TRUE]
      /\ handler' = [handler EXCEPT ![s] = "entered"]
      /\ sessions' = [sessions EXCEPT ![s] = @ + 1]
      /\ UNCHANGED <<nextId, ring, subs, queue, closed, dropped, stopped, sweep, fan>>
      /\ UNCHANGED <<wire, cursor, seen, again, owed, run>>
  BY DEF Connect, busVars, stopVars
<1>3. FanInv' /\ \A t \in Sub : Fanned(t)' = Fanned(t) /\ Coming(t)' = Coming(t)
  BY <1>2, SameFans
<1>4. BusInv' /\ ClientType'
  <2>1. BusInv'
    BY <1>1, <1>2 DEF BusInv, Published
  <2>2. link' \in [Sub -> BOOLEAN] /\ handler' \in [Sub -> HandlerAt]
    BY <1>1, <1>2 DEF ClientType, HandlerAt
  <2>3. sessions' \in [Sub -> Nat] /\ \A t \in Sub : sessions'[t] <= MaxSessions[t]
    <3>1. sessions \in [Sub -> Nat] /\ \A t \in Sub : sessions[t] <= MaxSessions[t]
      BY <1>1 DEF ClientType
    <3>2. sessions'[s] = sessions[s] + 1 /\ \A t \in Sub : t # s => sessions'[t] = sessions[t]
      BY <1>2, <3>1
    <3>3. sessions[s] + 1 <= MaxSessions[s]
      BY <1>2, <3>1, DeliveryAssumption
    <3>4. sessions' \in [Sub -> Nat]
      BY <1>2, <3>1
    <3>5. QED
      BY <3>1, <3>2, <3>3, <3>4
  <2>4. QED
    BY <1>1, <1>2, <2>1, <2>2, <2>3 DEF ClientType
<1>5. ASSUME NEW t \in Sub, t # s
      PROVE  Client(t)'
  <2>1. link'[t] = link[t] /\ handler'[t] = handler[t]
    BY <1>1, <1>2, <1>5 DEF ClientType
  <2>2. QED
    BY <1>2, <1>3, <2>1, Untouched
<1>6. Client(s)'
  <2>1. handler'[s] = "entered" /\ link'[s]
    BY <1>1, <1>2 DEF ClientType
  <2>2. Published' = Published /\ Now(s)' = Now(s)
    BY <1>2 DEF Published, Now
  <2>3. queue[s] = <<>> /\ s \notin ToSet(subs) /\ Fanned(s) = {} /\ wire[s] = <<>>
    BY <1>1, <1>2 DEF PathInv
  <2>4. PathInv(s)'
    BY <1>1, <1>2, <1>3, <2>1, <2>2, <2>3 DEF PathInv
  <2>5. SeenInv(s)'
    BY <1>1, <1>2, <1>3, <2>2 DEF SeenInv
  <2>6. ExactInv(s)'
    BY <2>1 DEF ExactInv
  <2>7. QED
    BY <2>4, <2>5, <2>6 DEF Client
<1>7. QED
  BY <1>1, <1>2, <1>3, <1>4, <1>5, <1>6 DEF DeliveryInv, Client

\* subscribe(): the replay is newer than what a dashboard has read, and what is
\* published from now on is newer than the replay.
LEMMA RegisterStep ==
  ASSUME DeliveryInv, NEW s \in Sub, Register(s)
  PROVE  DeliveryInv'
<1>1. BusInv /\ FanInv /\ ClientType /\ again \subseteq Gate /\ PathInv(s) /\ SeenInv(s)
  BY DEF DeliveryInv
<1>2. PICK since : since = Since(s)
  OBVIOUS
<1>3. PICK r : r = Replay(s, since)
  OBVIOUS
<1>4. /\ handler[s] = "entered"
      /\ queue' = [queue EXCEPT ![s] = r.queue]
      /\ dropped' = IF r.dropped THEN dropped \cup {s} ELSE dropped \ {s}
      /\ closed' = [closed EXCEPT ![s] = FALSE]
      /\ subs' = Append(subs, s)
      /\ handler' = [handler EXCEPT ![s] = IF s \in Gate THEN "live" ELSE "drain"]
      /\ owed' = [owed EXCEPT ![s] = {e.id : e \in {x \in ToSet(ring) : x.id > since /\ Matches(s, x)}}]
      /\ UNCHANGED <<nextId, ring, stopped, sweep, fan>>
      /\ UNCHANGED <<link, wire, cursor, seen, again, run, sessions>>
  BY <1>2, <1>3 DEF Register, Subscribe, clientVars, stopVars
<1> DEFINE due == Due(s, since, Len(ring))
<1>5. /\ r.queue \in Seq(Event) /\ Len(r.queue) <= SubCapacity /\ OnceIds(r.queue)
      /\ Ids(r.queue) \subseteq due /\ (~r.dropped => Ids(r.queue) = due)
  <2>1. Replayed(s, since, Len(ring), r)
    BY <1>1, <1>3, ReplayIs DEF BusInv
  <2>2. QED
    BY <2>1 DEF Replayed, Subscription
<1>6. ring \in Seq(Event) /\ DOMAIN ring = 1..Len(ring) /\ Ids(ring) \subseteq Published
  BY <1>1, LenProperties DEF BusInv
<1>7. {e.id : e \in {x \in ToSet(ring) : x.id > since /\ Matches(s, x)}} = due
  BY <1>6 DEF Due, Wanted, ToSet
<1>8. due \subseteq Published /\ \A i \in due : i > since
  BY <1>6 DEF Due, Wanted, Ids
<1> HIDE DEF due
<1>9. /\ s \notin ToSet(subs) /\ Fanned(s) = {} /\ wire[s] = <<>>
      /\ Ids(wire[s]) = {}
  BY <1>1, <1>4, EmptyIds DEF PathInv
<1>10. Coming(s) = {}
  BY <1>9, FannedIs
<1>11. FanInv' /\ \A t \in Sub : Fanned(t)' = Fanned(t) /\ Coming(t)' = Coming(t)
  BY <1>4, SameFans
<1>12. /\ subs' \in Seq(Sub) /\ Once(subs') /\ ToSet(subs') = ToSet(subs) \cup {s}
  BY <1>1, <1>4, <1>9, AppendSubs DEF BusInv
<1>13. Published' = Published /\ Now(s)' = Now(s) /\ Published \subseteq 1..MaxId
  BY <1>1, <1>4, BroadcasterAssumption DEF Published, Now, BusInv
<1>14. BusInv'
  <2>1. closed' \in [Sub -> BOOLEAN] /\ dropped' \subseteq Sub
    BY <1>1, <1>4 DEF BusInv
  <2>2. QED
    BY <1>1, <1>4, <1>12, <1>13, <2>1 DEF BusInv
<1>15. ClientType'
  <2>1. queue' \in [Sub -> Seq(Event)]
    BY <1>1, <1>4, <1>5 DEF ClientType
  <2>2. handler' \in [Sub -> HandlerAt]
    BY <1>1, <1>4 DEF ClientType, HandlerAt
  <2>3. owed' \in [Sub -> SUBSET (1..MaxId)]
    BY <1>1, <1>4, <1>7, <1>8, <1>13 DEF ClientType
  <2>4. QED
    BY <1>1, <1>4, <2>1, <2>2, <2>3 DEF ClientType
<1>16. ASSUME NEW t \in Sub, t # s
       PROVE  Client(t)'
  <2>1. /\ queue'[t] = queue[t] /\ handler'[t] = handler[t] /\ owed'[t] = owed[t]
        /\ closed'[t] = closed[t]
    BY <1>1, <1>4, <1>16 DEF ClientType, BusInv
  <2>2. /\ t \in ToSet(subs') => t \in ToSet(subs)
        /\ t \in dropped => t \in dropped'
    BY <1>4, <1>12, <1>16
  <2>3. QED
    BY <1>4, <1>11, <2>1, <2>2, Untouched
<1>17. Client(s)'
  <2>1. /\ queue'[s] = r.queue /\ ~closed'[s] /\ owed'[s] = due
        /\ handler'[s] = IF s \in Gate THEN "live" ELSE "drain"
    BY <1>1, <1>4, <1>7 DEF ClientType, BusInv
  <2>2. Ids(queue'[s]) \subseteq Published
    BY <1>5, <1>8, <2>1
  <2>3. PathInv(s)'
    BY <1>1, <1>4, <1>5, <1>9, <1>11, <1>13, <2>1, <2>2 DEF PathInv
  <2>4. SeenInv(s)'
    <3>1. SUFFICES ASSUME s \in Dashboard PROVE SeenInv(s)'
      BY DEF SeenInv
    <3>2. since = cursor[s] /\ cursor[s] \in Nat
      BY <1>1, <1>2, <3>1, BroadcasterAssumption DEF Since, Dashboard, ClientType
    <3>3. ASSUME NEW i \in Now(s), i \in due
          PROVE  FALSE
      <4>1. i \in Nat /\ i <= cursor[s] /\ i > since
        BY <1>1, <1>8, <3>1, <3>3, BroadcasterAssumption DEF SeenInv, Now
      <4>2. QED
        BY <3>2, <4>1
    <3>4. Now(s) \cap Ids(queue'[s]) = {}
      BY <1>5, <2>1, <3>3
    <3>5. QED
      BY <1>1, <1>4, <1>9, <1>11, <1>13, <3>4 DEF SeenInv
  <2>5. ExactInv(s)'
    BY <1>4, <1>5, <1>10, <1>11, <2>1 DEF ExactInv
  <2>6. QED
    BY <2>3, <2>4, <2>5 DEF Client
<1>18. QED
  BY <1>1, <1>4, <1>11, <1>14, <1>15, <1>16, <1>17 DEF DeliveryInv, Client

\* drain_now() and next() move events from the queue to the wire.
LEMMA ServeStep ==
  ASSUME DeliveryInv, NEW s \in Sub, Drain(s) \/ Forward(s)
  PROVE  DeliveryInv'
<1>1. /\ BusInv /\ FanInv /\ ClientType /\ again \subseteq Gate
      /\ PathInv(s) /\ SeenInv(s) /\ ExactInv(s)
  BY DEF DeliveryInv
<1>2. /\ UNCHANGED <<nextId, ring, subs, closed, dropped, stopped, sweep, fan>>
      /\ UNCHANGED <<link, cursor, seen, again, run, sessions>>
  BY DEF Drain, Forward, DrainNow, Next1, stopVars
<1>3. FanInv' /\ \A t \in Sub : Fanned(t)' = Fanned(t) /\ Coming(t)' = Coming(t)
  BY <1>2, SameFans
<1>4. queue[s] \in Seq(Event) /\ wire[s] \in Seq(Event) /\ owed[s] \in SUBSET (1..MaxId)
  BY <1>1 DEF ClientType
<1>5. /\ queue \in [Sub -> Seq(Event)] /\ wire \in [Sub -> Seq(Event)]
      /\ handler \in [Sub -> HandlerAt] /\ owed \in [Sub -> SUBSET (1..MaxId)]
  BY <1>1 DEF ClientType
<1>6. Published' = Published /\ Now(s)' = Now(s) /\ BusInv'
  BY <1>1, <1>2 DEF Published, Now, BusInv
<1>7. ASSUME NEW q \in Seq(Event), NEW w \in Seq(Event), NEW gone \in SUBSET Nat,
             queue' = [queue EXCEPT ![s] = q], wire' = [wire EXCEPT ![s] = w],
             owed' = [owed EXCEPT ![s] = @ \ gone], handler' = [handler EXCEPT ![s] = "live"],
             handler[s] \in {"drain", "live"},
             Len(q) <= SubCapacity, OnceIds(q), OnceIds(w),
             Ids(q) \cup gone = Ids(queue[s]), Ids(q) \cap gone = {},
             Ids(w) \subseteq Ids(wire[s]) \cup gone, ~link[s] /\ ~stopped => w = <<>>
      PROVE  DeliveryInv'
  <2>1. ClientType'
    <3>1. owed' \in [Sub -> SUBSET (1..MaxId)]
      BY <1>5, <1>7
    <3>2. queue' \in [Sub -> Seq(Event)] /\ wire' \in [Sub -> Seq(Event)]
      BY <1>5, <1>7
    <3>3. handler' \in [Sub -> HandlerAt]
      BY <1>5, <1>7 DEF HandlerAt
    <3>4. QED
      BY <1>1, <1>2, <3>1, <3>2, <3>3 DEF ClientType
  <2>2. ASSUME NEW t \in Sub, t # s
        PROVE  Client(t)'
    <3>1. /\ queue'[t] = queue[t] /\ handler'[t] = handler[t] /\ owed'[t] = owed[t]
          /\ wire'[t] = wire[t]
      BY <1>5, <1>7, <2>2
    <3>2. QED
      BY <1>2, <1>3, <3>1, Untouched
  <2>3. /\ queue'[s] = q /\ wire'[s] = w /\ owed'[s] = owed[s] \ gone /\ handler'[s] = "live"
    BY <1>5, <1>7
  <2>4. PathInv(s)'
    <3>1. Ids(q) \cap Ids(w) = {}
      BY <1>1, <1>7 DEF PathInv
    <3>2. Ids(q) \cup Ids(w) \subseteq Ids(queue[s]) \cup Ids(wire[s])
      BY <1>7
    <3>3. QED
      BY <1>1, <1>2, <1>3, <1>6, <1>7, <2>3, <3>1, <3>2 DEF PathInv
  <2>5. SeenInv(s)'
    BY <1>1, <1>2, <1>3, <1>6, <1>7, <2>3 DEF SeenInv
  <2>6. ExactInv(s)'
    <3>1. gone \cap Coming(s) = {}
      <4>1. \A n : n \in Coming(s) => n \in Fanned(s)
        BY FannedIs
      <4>2. gone \subseteq Ids(queue[s])
        BY <1>7
      <4>3. QED
        BY <1>1, <4>1, <4>2 DEF PathInv
    <3>2. QED
      BY <1>1, <1>2, <1>3, <1>7, <2>3, <3>1 DEF ExactInv
  <2>7. QED
    BY <1>1, <1>2, <1>3, <1>6, <2>1, <2>2, <2>4, <2>5, <2>6 DEF DeliveryInv, Client
<1>8. CASE Drain(s)
  <2> DEFINE w == IF link[s] THEN queue[s] ELSE <<>>
  <2>1. /\ handler[s] = "drain"
        /\ queue' = [queue EXCEPT ![s] = <<>>] /\ wire' = [wire EXCEPT ![s] = w]
        /\ owed' = [owed EXCEPT ![s] = @ \ Ids(queue[s])]
        /\ handler' = [handler EXCEPT ![s] = "live"]
    BY <1>8 DEF Drain, DrainNow
  <2>2. /\ w \in Seq(Event) /\ OnceIds(w) /\ Ids(w) \subseteq Ids(queue[s]) /\ (~link[s] => w = <<>>)
    BY <1>1, <1>4, EmptyIds DEF PathInv
  <2>3. Ids(queue[s]) \in SUBSET Nat
    BY <1>1 DEF PathInv, Published
  <2> HIDE DEF w
  <2>4. SubCapacity \in Nat
    BY BroadcasterAssumption
  <2>5. PICK q \in Seq(Event) : q = <<>>
    BY EmptyIds
  <2>6. /\ Len(q) <= SubCapacity /\ OnceIds(q) /\ Ids(q) = {}
    BY <2>4, <2>5, EmptyIds
  <2>7. /\ queue' = [queue EXCEPT ![s] = q]
        /\ Ids(q) \cup Ids(queue[s]) = Ids(queue[s]) /\ Ids(q) \cap Ids(queue[s]) = {}
        /\ Ids(w) \subseteq Ids(wire[s]) \cup Ids(queue[s])
        /\ ~link[s] /\ ~stopped => w = <<>>
    BY <2>1, <2>2, <2>5, <2>6
  <2>8. QED
    BY <1>7, <2>1, <2>2, <2>3, <2>6, <2>7
<1>9. CASE Forward(s)
  <2>1. PICK e : e = Head(queue[s])
    OBVIOUS
  <2> DEFINE w == IF s \in Gate /\ e.body.kind # "command" THEN wire[s] ELSE Append(wire[s], e)
             q == Tail(queue[s])
  <2>2. /\ handler[s] = "live" /\ link[s] /\ queue[s] # <<>>
        /\ queue' = [queue EXCEPT ![s] = q]
        /\ wire' = [wire EXCEPT ![s] = w]
        /\ owed' = [owed EXCEPT ![s] = @ \ {e.id}]
        /\ handler' = [handler EXCEPT ![s] = "live"]
    BY <1>5, <1>9, <2>1 DEF Forward, Next1
  <2>3. /\ e \in Event /\ q \in Seq(Event) /\ Len(q) = Len(queue[s]) - 1
        /\ Ids(queue[s]) = Ids(q) \cup {e.id}
        /\ OnceIds(queue[s]) => OnceIds(q) /\ e.id \notin Ids(q)
    BY <1>4, <2>1, <2>2, TailIds
  <2>4. OnceIds(q) /\ e.id \notin Ids(q) /\ e.id \notin Ids(wire[s]) /\ OnceIds(wire[s])
    BY <1>1, <2>3 DEF PathInv
  <2>5. w \in Seq(Event) /\ OnceIds(w) /\ Ids(w) \subseteq Ids(wire[s]) \cup {e.id}
    BY <1>4, <2>3, <2>4, AppendIds
  <2>6. {e.id} \in SUBSET Nat
    BY <2>3 DEF Event
  <2>7. Len(q) <= SubCapacity
    BY <1>1, <1>4, <2>3, LenProperties, BroadcasterAssumption DEF PathInv
  <2> HIDE DEF w, q
  <2>8. /\ Ids(q) \cup {e.id} = Ids(queue[s]) /\ Ids(q) \cap {e.id} = {}
        /\ ~link[s] /\ ~stopped => w = <<>>
    BY <2>2, <2>3, <2>4
  <2>9. q \in Seq(Event) /\ w \in Seq(Event) /\ handler[s] \in {"drain", "live"}
    BY <2>2, <2>3, <2>5
  <2>10. QED
    BY <1>7, <2>2, <2>4, <2>5, <2>6, <2>7, <2>8, <2>9
<1>10. QED
  BY <1>8, <1>9

\* The writer thread of Control ends; its handler reads on.
LEMMA WriterStep ==
  ASSUME DeliveryInv, NEW s \in Sub, WriterEnds(s)
  PROVE  DeliveryInv'
<1>1. BusInv /\ FanInv /\ ClientType /\ again \subseteq Gate /\ PathInv(s) /\ SeenInv(s)
  BY DEF DeliveryInv
<1>2. /\ handler[s] = "live" /\ handler' = [handler EXCEPT ![s] = "reading"]
      /\ UNCHANGED <<nextId, ring, subs, queue, closed, dropped, stopped, sweep, fan>>
      /\ UNCHANGED <<link, wire, cursor, seen, again, owed, run, sessions>>
  BY DEF WriterEnds, busVars, stopVars, clientVars
<1>3. FanInv' /\ \A t \in Sub : Fanned(t)' = Fanned(t) /\ Coming(t)' = Coming(t)
  BY <1>2, SameFans
<1>4. BusInv' /\ ClientType'
  <2>1. handler' \in [Sub -> HandlerAt]
    BY <1>1, <1>2 DEF ClientType, HandlerAt
  <2>2. QED
    BY <1>1, <1>2, <2>1 DEF BusInv, ClientType, Published
<1>5. ASSUME NEW t \in Sub, t # s
      PROVE  Client(t)'
  <2>1. handler'[t] = handler[t]
    BY <1>1, <1>2, <1>5 DEF ClientType
  <2>2. QED
    BY <1>2, <1>3, <2>1, Untouched
<1>6. Client(s)'
  <2>1. handler'[s] = "reading"
    BY <1>1, <1>2 DEF ClientType
  <2>2. Published' = Published /\ Now(s)' = Now(s)
    BY <1>2 DEF Published, Now
  <2>3. PathInv(s)'
    BY <1>1, <1>2, <1>3, <2>1, <2>2 DEF PathInv
  <2>4. SeenInv(s)'
    BY <1>1, <1>2, <1>3, <2>2 DEF SeenInv
  <2>5. ExactInv(s)'
    BY <2>1 DEF ExactInv
  <2>6. QED
    BY <2>3, <2>4, <2>5 DEF Client
<1>7. QED
  BY <1>1, <1>2, <1>3, <1>4, <1>5, <1>6 DEF DeliveryInv, Client

\* A handler returns: its subscription is gone, what it wrote can still be read.
LEMMA ReturnStep ==
  ASSUME DeliveryInv, NEW s \in Sub, HandlerReturns(s)
  PROVE  DeliveryInv'
<1>1. BusInv /\ FanInv /\ ClientType /\ again \subseteq Gate /\ PathInv(s) /\ SeenInv(s)
  BY DEF DeliveryInv
<1>2. /\ Done(s) /\ Unsubscribe(s)
      /\ handler' = [handler EXCEPT ![s] = "none"] /\ link' = [link EXCEPT ![s] = FALSE]
      /\ owed' = [owed EXCEPT ![s] = {}]
      /\ closed' = [closed EXCEPT ![s] = TRUE]
      /\ queue' = [queue EXCEPT ![s] = <<>>] /\ dropped' = dropped \ {s}
      /\ subs' = RemoveFirst(subs, s)
      /\ UNCHANGED <<nextId, ring, stopped, sweep>>
      /\ UNCHANGED <<wire, cursor, seen, again, run, sessions>>
  BY DEF HandlerReturns, Unsubscribe, stopVars
<1>3. /\ FanInv'
      /\ \A t \in Sub : t # s => Fanned(t)' = Fanned(t) /\ Coming(t)' = Coming(t)
      /\ Fanned(s)' = {}
  BY <1>1, <1>2, FanLeaves
<1>4. subs' \in Seq(Sub) /\ Once(subs') /\ ToSet(subs') = ToSet(subs) \ {s}
  BY <1>1, <1>2, RemoveSubs DEF BusInv
<1>5. BusInv'
  <2>1. closed' \in [Sub -> BOOLEAN] /\ dropped' \subseteq Sub
    BY <1>1, <1>2 DEF BusInv
  <2>2. QED
    BY <1>1, <1>2, <1>4, <2>1 DEF BusInv, Published
<1>6. ClientType'
  <2>1. handler' \in [Sub -> HandlerAt] /\ link' \in [Sub -> BOOLEAN]
    BY <1>1, <1>2 DEF ClientType, HandlerAt
  <2>2. queue' \in [Sub -> Seq(Event)]
    BY <1>1, <1>2, EmptyIds DEF ClientType
  <2>3. owed' \in [Sub -> SUBSET (1..MaxId)]
    BY <1>1, <1>2 DEF ClientType
  <2>4. QED
    BY <1>1, <1>2, <2>1, <2>2, <2>3 DEF ClientType
<1>7. ASSUME NEW t \in Sub, t # s
      PROVE  Client(t)'
  <2>1. /\ queue'[t] = queue[t] /\ handler'[t] = handler[t] /\ owed'[t] = owed[t]
        /\ link'[t] = link[t]
    BY <1>1, <1>2, <1>7 DEF ClientType
  <2>2. closed'[t] = closed[t] /\ (t \in dropped => t \in dropped')
    BY <1>1, <1>2, <1>7 DEF BusInv
  <2>3. t \in ToSet(subs') => t \in ToSet(subs)
    BY <1>4
  <2>4. Fanned(t)' = Fanned(t) /\ Coming(t)' = Coming(t)
    BY <1>3, <1>7
  <2>5. QED
    BY <1>2, <2>1, <2>2, <2>3, <2>4, Untouched
<1>8. Client(s)'
  <2>1. queue'[s] = <<>> /\ handler'[s] = "none" /\ ~link'[s]
    BY <1>1, <1>2 DEF ClientType
  <2>2. Published' = Published /\ Now(s)' = Now(s)
    BY <1>2 DEF Published, Now
  <2>3. Ids(queue'[s]) = {} /\ OnceIds(queue'[s]) /\ Len(queue'[s]) <= SubCapacity
    BY <2>1, EmptyIds, BroadcasterAssumption
  <2>4. ~stopped' => wire'[s] = <<>>
    BY <1>1, <1>2 DEF PathInv, Done
  <2>5. PathInv(s)'
    BY <1>1, <1>2, <1>3, <1>4, <2>1, <2>2, <2>3, <2>4 DEF PathInv
  <2>6. SeenInv(s)'
    BY <1>1, <1>2, <1>3, <2>2, <2>3 DEF SeenInv
  <2>7. ExactInv(s)'
    BY <2>1 DEF ExactInv
  <2>8. QED
    BY <2>5, <2>6, <2>7 DEF Client
<1>9. QED
  BY <1>1, <1>2, <1>3, <1>5, <1>6, <1>7, <1>8 DEF DeliveryInv, Client

\* A client reads an event: a dashboard has not read it before.
LEMMA ReadStep ==
  ASSUME DeliveryInv, NEW s \in Sub, Read(s)
  PROVE  DeliveryInv'
<1>1. BusInv /\ FanInv /\ ClientType /\ again \subseteq Gate /\ PathInv(s) /\ SeenInv(s) /\ ExactInv(s)
  BY DEF DeliveryInv
<1>2. PICK e : e = Head(wire[s])
  OBVIOUS
<1>3. /\ wire[s] # <<>>
      /\ seen' = [seen EXCEPT ![s] = @ \cup {<<run, e.id>>}]
      /\ again' = IF <<run, e.id>> \in seen[s] THEN again \cup {s} ELSE again
      /\ cursor' = [cursor EXCEPT ![s] = CursorAfter(s, e.id)]
      /\ wire' = [wire EXCEPT ![s] = Tail(@)]
      /\ UNCHANGED <<nextId, ring, subs, queue, closed, dropped, stopped, sweep, fan>>
      /\ UNCHANGED <<link, owed, handler, run, sessions>>
  BY <1>2 DEF Read, busVars, stopVars
<1>4. FanInv' /\ \A t \in Sub : Fanned(t)' = Fanned(t) /\ Coming(t)' = Coming(t)
  BY <1>3, SameFans
<1>5. wire \in [Sub -> Seq(Event)] /\ wire[s] \in Seq(Event) /\ cursor \in [Sub -> 0..MaxId]
  BY <1>1 DEF ClientType
<1>6. /\ Tail(wire[s]) \in Seq(Event) /\ e.id \in Ids(wire[s])
      /\ Ids(wire[s]) = Ids(Tail(wire[s])) \cup {e.id}
      /\ OnceIds(Tail(wire[s])) /\ e.id \notin Ids(Tail(wire[s]))
  BY <1>1, <1>2, <1>3, <1>5, TailIds DEF PathInv
<1>7. e.id \in Published /\ e.id \in 1..MaxId /\ MaxId \in Nat /\ run \in 1..run
  <2>1. e.id \in Published
    BY <1>1, <1>6 DEF PathInv
  <2>2. QED
    BY <1>1, <2>1, BroadcasterAssumption DEF Published, BusInv, ClientType
<1>8. cursor'[s] = CursorAfter(s, e.id) /\ CursorAfter(s, e.id) \in 0..MaxId
  BY <1>3, <1>5, <1>7 DEF CursorAfter
<1>9. e.id <= cursor'[s] /\ cursor[s] <= cursor'[s]
  BY <1>5, <1>7, <1>8 DEF CursorAfter
<1>10. BusInv' /\ ClientType'
  <2>1. BusInv'
    BY <1>1, <1>3 DEF BusInv, Published
  <2>2. seen' \in [Sub -> SUBSET ((1..run) \X (1..MaxId))]
    <3>1. seen \in [Sub -> SUBSET ((1..run) \X (1..MaxId))]
      BY <1>1 DEF ClientType
    <3>2. <<run, e.id>> \in (1..run) \X (1..MaxId)
      BY <1>7
    <3>3. QED
      BY <1>3, <3>1, <3>2
  <2>3. wire' \in [Sub -> Seq(Event)] /\ cursor' \in [Sub -> 0..MaxId] /\ again' \subseteq Sub
    BY <1>1, <1>3, <1>5, <1>6, <1>8 DEF ClientType
  <2>4. QED
    BY <1>1, <1>3, <2>1, <2>2, <2>3 DEF ClientType
<1>11. again' \subseteq Gate
  <2>1. s \in Dashboard => e.id \notin Now(s)
    BY <1>1, <1>6 DEF SeenInv
  <2>2. s \in Dashboard => <<run, e.id>> \notin seen[s]
    BY <1>7, <2>1 DEF Now
  <2>3. QED
    BY <1>1, <1>3, <2>2 DEF Dashboard
<1>12. ASSUME NEW t \in Sub, t # s
       PROVE  Client(t)'
  <2>1. wire'[t] = wire[t] /\ seen'[t] = seen[t] /\ cursor'[t] = cursor[t]
    BY <1>1, <1>3, <1>12 DEF ClientType
  <2>2. QED
    BY <1>3, <1>4, <2>1, Untouched
<1>13. Client(s)'
  <2>1. wire'[s] = Tail(wire[s]) /\ seen'[s] = seen[s] \cup {<<run, e.id>>}
    BY <1>1, <1>3 DEF ClientType
  <2>2. Published' = Published
    BY <1>3 DEF Published
  <2>3. Now(s)' = Now(s) \cup {e.id}
    BY <1>3, <1>7, <2>1 DEF Now
  <2> DEFINE w == Tail(wire[s])
  <2> HIDE DEF w
  <2>4. /\ wire'[s] = w /\ Ids(w) \subseteq Ids(wire[s]) /\ OnceIds(w) /\ e.id \notin Ids(w)
        /\ wire[s] # <<>>
    BY <1>3, <1>6, <2>1 DEF w
  <2>5. PathInv(s)'
    BY <1>1, <1>3, <1>4, <2>2, <2>4 DEF PathInv
  <2>6. SeenInv(s)'
    <3>1. SUFFICES ASSUME s \in Dashboard PROVE SeenInv(s)'
      BY DEF SeenInv
    <3>2. Now(s)' \subseteq Published'
      BY <1>1, <1>7, <2>2, <2>3, <3>1 DEF SeenInv
    <3>3. ASSUME NEW i \in Now(s)'
          PROVE  i <= cursor'[s]
      <4>1. CASE i = e.id
        BY <1>9, <4>1
      <4>2. CASE i \in Now(s)
        <5>1. i <= cursor[s] /\ i \in 1..MaxId
          BY <1>1, <3>1, <4>2 DEF SeenInv, Now
        <5>2. cursor[s] \in 0..MaxId
          BY <1>5
        <5>3. QED
          BY <1>7, <1>8, <1>9, <5>1, <5>2
      <4>3. QED
        BY <2>3, <4>1, <4>2
    <3>4. e.id \notin Fanned(s) /\ e.id \notin Ids(queue[s])
      BY <1>1, <1>6 DEF PathInv
    <3>5. Now(s)' \cap (Fanned(s)' \cup Ids(queue'[s]) \cup Ids(wire'[s])) = {}
      BY <1>1, <1>3, <1>4, <2>3, <2>4, <3>1, <3>4 DEF SeenInv
    <3>6. QED
      BY <3>2, <3>3, <3>5 DEF SeenInv
  <2>7. ExactInv(s)'
    BY <1>1, <1>3, <1>4 DEF ExactInv
  <2>8. QED
    BY <2>5, <2>6, <2>7 DEF Client
<1>14. QED
  BY <1>4, <1>10, <1>11, <1>12, <1>13 DEF DeliveryInv, Client

\* A connection breaks: what was on its way is lost, nothing comes twice.
LEMMA DisconnectStep ==
  ASSUME DeliveryInv, NEW s \in Sub, Disconnect(s)
  PROVE  DeliveryInv'
<1>1. BusInv /\ FanInv /\ ClientType /\ again \subseteq Gate /\ PathInv(s) /\ SeenInv(s) /\ ExactInv(s)
  BY DEF DeliveryInv
<1>2. /\ link' = [link EXCEPT ![s] = FALSE] /\ wire' = [wire EXCEPT ![s] = <<>>]
      /\ UNCHANGED <<nextId, ring, subs, queue, closed, dropped, stopped, sweep, fan>>
      /\ UNCHANGED <<cursor, seen, again, owed, handler, run, sessions>>
  BY DEF Disconnect, busVars, stopVars
<1>3. FanInv' /\ \A t \in Sub : Fanned(t)' = Fanned(t) /\ Coming(t)' = Coming(t)
  BY <1>2, SameFans
<1>4. BusInv' /\ ClientType'
  <2>1. link' \in [Sub -> BOOLEAN] /\ wire' \in [Sub -> Seq(Event)]
    BY <1>1, <1>2, EmptyIds DEF ClientType
  <2>2. QED
    BY <1>1, <1>2, <2>1 DEF BusInv, ClientType, Published
<1>5. ASSUME NEW t \in Sub, t # s
      PROVE  Client(t)'
  <2>1. link'[t] = link[t] /\ wire'[t] = wire[t]
    BY <1>1, <1>2, <1>5 DEF ClientType
  <2>2. QED
    BY <1>2, <1>3, <2>1, Untouched
<1>6. Client(s)'
  <2>1. wire'[s] = <<>> /\ Ids(wire'[s]) = {} /\ OnceIds(wire'[s])
    BY <1>1, <1>2, EmptyIds DEF ClientType
  <2>2. Published' = Published /\ Now(s)' = Now(s)
    BY <1>2 DEF Published, Now
  <2>3. PathInv(s)'
    BY <1>1, <1>2, <1>3, <2>1, <2>2 DEF PathInv
  <2>4. SeenInv(s)'
    BY <1>1, <1>2, <1>3, <2>1, <2>2 DEF SeenInv
  <2>5. ExactInv(s)'
    BY <1>1, <1>2, <1>3 DEF ExactInv
  <2>6. QED
    BY <2>3, <2>4, <2>5 DEF Client
<1>7. QED
  BY <1>1, <1>2, <1>3, <1>4, <1>5, <1>6 DEF DeliveryInv, Client

\* stop(), in its three steps, closes subscriptions and pushes nothing.
LEMMA StopStep ==
  ASSUME DeliveryInv, StopBus
  PROVE  DeliveryInv'
<1>1. BusInv /\ FanInv /\ ClientType /\ again \subseteq Gate
  BY DEF DeliveryInv
<1>2. /\ UNCHANGED <<nextId, ring, queue, dropped, fan>>
      /\ UNCHANGED <<link, wire, cursor, seen, again, owed, handler, run, sessions>>
  BY DEF StopBus, StopFlag, StopCollect, StopClose, clientVars
<1>3. FanInv' /\ \A t \in Sub : Fanned(t)' = Fanned(t) /\ Coming(t)' = Coming(t)
  BY <1>2, SameFans
<1>4. /\ stopped' \in BOOLEAN /\ sweep' \in Sweep /\ (stopped => stopped')
      /\ subs' \in Seq(Sub) /\ Once(subs') /\ ToSet(subs') \subseteq ToSet(subs)
      /\ closed' \in [Sub -> BOOLEAN] /\ \A s \in Sub : closed[s] => closed'[s]
  <2>1. /\ stopped \in BOOLEAN /\ sweep \in Sweep /\ subs \in Seq(Sub) /\ Once(subs)
        /\ closed \in [Sub -> BOOLEAN]
    BY <1>1 DEF BusInv
  <2>2. CASE StopFlag
    BY <2>1, <2>2 DEF StopFlag, Sweep
  <2>3. CASE StopCollect
    <3>1. ToSet(subs) \subseteq Sub
      BY <2>1, ElementOfSeq, LenProperties DEF ToSet
    <3>2. <<>> \in Seq(Sub) /\ Once(<<>>) /\ ToSet(<<>>) = {}
      BY IdleFan
    <3>3. QED
      BY <2>1, <2>3, <3>1, <3>2 DEF StopCollect, Sweep
  <2>4. CASE StopClose
    <3>1. PICK s \in sweep.alive : /\ closed' = [closed EXCEPT ![s] = TRUE]
                                   /\ sweep' = [sweep EXCEPT !.alive = @ \ {s}]
      BY <2>4 DEF StopClose
    <3>2. sweep' \in Sweep
      BY <2>1, <3>1 DEF Sweep
    <3>3. closed' \in [Sub -> BOOLEAN] /\ \A t \in Sub : closed[t] => closed'[t]
      BY <2>1, <3>1
    <3>4. QED
      BY <2>1, <2>4, <3>2, <3>3 DEF StopClose
  <2>5. QED
    BY <2>2, <2>3, <2>4 DEF StopBus
<1>5. BusInv' /\ ClientType'
  BY <1>1, <1>2, <1>4 DEF BusInv, ClientType, Published
<1>6. ASSUME NEW t \in Sub
      PROVE  Client(t)'
  <2>1. t \in ToSet(subs') => t \in ToSet(subs)
    BY <1>4
  <2>2. QED
    BY <1>2, <1>3, <1>4, <2>1, Untouched
<1>7. QED
  BY <1>1, <1>2, <1>3, <1>5, <1>6 DEF DeliveryInv, Client

\* Nothing is on its way when a server starts.
LEMMA NothingYet ==
  ASSUME nextId = 1, ring = <<>>, subs = <<>>, stopped = FALSE,
         sweep = [at |-> "none", alive |-> {}], queue = [s \in Sub |-> <<>>],
         closed = [s \in Sub |-> TRUE], dropped = {}, fan = [p \in Publisher |-> Idle],
         wire = [s \in Sub |-> <<>>], handler = [s \in Sub |-> "none"],
         \A s \in Sub : Now(s) = {}
  PROVE  BusInv /\ FanInv /\ \A s \in Sub : PathInv(s) /\ SeenInv(s) /\ ExactInv(s)
<1>1. BusInv
  <2>1. MaxId \in Nat /\ RingCapacity \in Nat
    BY BroadcasterAssumption
  <2>2. sweep \in Sweep
    BY DEF Sweep
  <2>3. <<>> \in Seq(Sub) /\ Once(<<>>)
    BY IdleFan
  <2>4. closed \in [Sub -> BOOLEAN] /\ stopped \in BOOLEAN
    BY Zenon
  <2>5. QED
    BY <2>1, <2>2, <2>3, <2>4, EmptyIds DEF BusInv
<1>2. FanInv /\ \A s \in Sub : Fanned(s) = {} /\ Coming(s) = {}
  BY FanEmpty
<1>3. ASSUME NEW s \in Sub
      PROVE  PathInv(s) /\ SeenInv(s) /\ ExactInv(s)
  <2>1. queue[s] = <<>> /\ wire[s] = <<>> /\ handler[s] = "none" /\ Now(s) = {}
    OBVIOUS
  <2>2. PathInv(s)
    BY <1>2, <2>1, EmptyIds, IdleFan, BroadcasterAssumption DEF PathInv
  <2>3. SeenInv(s)
    BY <2>1 DEF SeenInv
  <2>4. ExactInv(s)
    BY <2>1 DEF ExactInv
  <2>5. QED
    BY <2>2, <2>3, <2>4
<1>4. QED
  BY <1>1, <1>2, <1>3

\* The first server run.
LEMMA DeliveryInit == Init => DeliveryInv
<1> SUFFICES ASSUME Init PROVE DeliveryInv
  OBVIOUS
<1>1. \A s \in Sub : Now(s) = {}
  BY DEF Init, Now
<1>2. BusInv /\ FanInv /\ \A s \in Sub : PathInv(s) /\ SeenInv(s) /\ ExactInv(s)
  BY <1>1, NothingYet DEF Init, BusInit
<1>3. ClientType /\ again \subseteq Gate
  <2>1. MaxId \in Nat /\ MaxRestarts \in Nat /\ MaxSessions \in [Sub -> Nat]
    BY BroadcasterAssumption, DeliveryAssumption
  <2>2. link \in [Sub -> BOOLEAN] /\ handler \in [Sub -> HandlerAt]
    BY DEF Init, HandlerAt
  <2>3. queue \in [Sub -> Seq(Event)] /\ wire \in [Sub -> Seq(Event)]
    BY EmptyIds DEF Init, BusInit
  <2>4. QED
    BY <2>1, <2>2, <2>3 DEF Init, ClientType
<1>4. QED
  BY <1>2, <1>3 DEF DeliveryInv

\* A new server counts from 1 again; nobody has read anything of its run.
LEMMA RestartStep ==
  ASSUME DeliveryInv, ServerRestart
  PROVE  DeliveryInv'
<1>1. ClientType /\ again \subseteq Gate
  BY DEF DeliveryInv
<1>2. /\ run <= MaxRestarts /\ BusRestart /\ run' = run + 1
      /\ link' = [s \in Sub |-> FALSE] /\ wire' = [s \in Sub |-> <<>>]
      /\ handler' = [s \in Sub |-> "none"] /\ owed' = [s \in Sub |-> {}]
      /\ UNCHANGED <<cursor, seen, again, sessions>>
  BY DEF ServerRestart
<1>3. run \in Nat /\ run' \in 1..(MaxRestarts + 1) /\ MaxId \in Nat
  BY <1>1, <1>2, DeliveryAssumption, BroadcasterAssumption DEF ClientType
<1>4. \A s \in Sub : Now(s)' = {}
  <2>1. \A s \in Sub : seen'[s] \subseteq (1..run) \X (1..MaxId)
    BY <1>1, <1>2 DEF ClientType
  <2>2. run' \notin 1..run
    BY <1>2, <1>3
  <2>3. QED
    BY <2>1, <2>2 DEF Now
<1>5. BusInv' /\ FanInv' /\ \A s \in Sub : PathInv(s)' /\ SeenInv(s)' /\ ExactInv(s)'
  <2>1. nextId' = 1 /\ MaxId \in Nat /\ RingCapacity \in Nat
    BY <1>2, BroadcasterAssumption DEF BusRestart
  <2>2. FanInv' /\ \A s \in Sub : Fanned(s)' = {} /\ Coming(s)' = {}
    BY <1>2, FanEmpty DEF BusRestart
  <2>3. BusInv'
    <3>1. sweep' \in Sweep
      BY <1>2 DEF BusRestart, Sweep
    <3>2. <<>> \in Seq(Sub) /\ Once(<<>>)
      BY IdleFan
    <3>3. closed' \in [Sub -> BOOLEAN] /\ stopped' \in BOOLEAN
      BY <1>2, Zenon DEF BusRestart
    <3>4. QED
      BY <1>2, <2>1, <3>1, <3>2, <3>3, EmptyIds DEF BusInv, BusRestart
  <2>4. ASSUME NEW s \in Sub
        PROVE  PathInv(s)' /\ SeenInv(s)' /\ ExactInv(s)'
    <3>1. queue'[s] = <<>> /\ wire'[s] = <<>> /\ handler'[s] = "none" /\ Now(s)' = {} /\ subs' = <<>>
      BY <1>2, <1>4 DEF BusRestart
    <3>2. PathInv(s)'
      BY <2>2, <3>1, EmptyIds, IdleFan, BroadcasterAssumption DEF PathInv
    <3>3. SeenInv(s)'
      BY <3>1 DEF SeenInv
    <3>4. ExactInv(s)'
      BY <3>1 DEF ExactInv
    <3>5. QED
      BY <3>2, <3>3, <3>4
  <2>5. QED
    BY <2>2, <2>3, <2>4
<1>6. ClientType'
  <2>1. link' \in [Sub -> BOOLEAN] /\ handler' \in [Sub -> HandlerAt]
    BY <1>2 DEF HandlerAt
  <2>2. queue' \in [Sub -> Seq(Event)] /\ wire' \in [Sub -> Seq(Event)]
    BY <1>2, EmptyIds DEF BusRestart
  <2>3. seen' \in [Sub -> SUBSET ((1..run') \X (1..MaxId))]
    <3>1. (1..run) \X (1..MaxId) \subseteq (1..run') \X (1..MaxId)
      BY <1>2, <1>3
    <3>2. QED
      BY <1>1, <1>2, <3>1 DEF ClientType
  <2>4. owed' \in [Sub -> SUBSET (1..MaxId)]
    BY <1>2
  <2>5. QED
    BY <1>1, <1>2, <1>3, <2>1, <2>2, <2>3, <2>4 DEF ClientType
<1>7. QED
  BY <1>1, <1>2, <1>5, <1>6 DEF DeliveryInv

\* No step leaves the invariant.
LEMMA DeliveryStep == DeliveryInv /\ [Next]_vars => DeliveryInv'
<1> SUFFICES ASSUME DeliveryInv, [Next]_vars PROVE DeliveryInv'
  OBVIOUS
<1>1. ASSUME NEW p \in Publisher, Enter(p) \/ Publishing(p)
      PROVE  DeliveryInv'
  BY <1>1, EnterStep, PublishStep, FanOutStep DEF Publishing
<1>2. ASSUME NEW s \in Sub, Connect(s) \/ Handling(s) \/ Read(s) \/ Disconnect(s)
      PROVE  DeliveryInv'
  BY <1>2, ConnectStep, RegisterStep, ServeStep, WriterStep, ReturnStep, ReadStep, DisconnectStep
     DEF Handling
<1>3. CASE StopBus \/ ServerRestart
  BY <1>3, StopStep, RestartStep
<1>4. CASE UNCHANGED vars
  <2>1. /\ UNCHANGED <<nextId, ring, subs, queue, closed, dropped, stopped, sweep, fan>>
        /\ UNCHANGED <<link, wire, cursor, seen, again, owed, handler, run, sessions>>
    BY <1>4 DEF vars, busVars, clientVars, stopVars
  <2>2. FanInv' /\ \A t \in Sub : Fanned(t)' = Fanned(t) /\ Coming(t)' = Coming(t)
    BY <2>1, SameFans
  <2>3. BusInv' /\ ClientType' /\ again' \subseteq Gate
    BY <2>1 DEF DeliveryInv, BusInv, ClientType, Published
  <2>4. \A s \in Sub : Client(s)'
    BY <2>1, <2>2, Untouched
  <2>5. QED
    BY <2>2, <2>3, <2>4 DEF DeliveryInv, Client
<1>5. QED
  BY <1>1, <1>2, <1>3, <1>4 DEF Next

\* The invariant holds in every reachable state.
LEMMA DeliveryHolds == Spec => []DeliveryInv
BY DeliveryInit, DeliveryStep, PTL DEF Spec

-----------------------------------------------------------------------------
(* The theorems.                                                           *)

\* Every variable keeps its type, and the ring and the queues their capacity, for any
\* capacities and any number of publishers and subscribers (push_locked, publish).
THEOREM DeliveryTyped == Spec => []TypeOK
<1>1. DeliveryInv => TypeOK
  <2> SUFFICES ASSUME DeliveryInv PROVE TypeOK
    OBVIOUS
  <2>1. BusInv /\ FanInv /\ ClientType /\ \A s \in Sub : PathInv(s)
    BY DEF DeliveryInv
  <2>2. \A s \in Sub : Len(queue[s]) <= SubCapacity
    BY <2>1 DEF PathInv
  <2>3. \A p \in Publisher : fan[p] \in Fan
    BY <2>1 DEF FanInv
  <2>4. seen \in [Sub -> SUBSET ((1..(MaxRestarts + 1)) \X (1..MaxId))]
    <3>1. run \in 1..(MaxRestarts + 1) /\ seen \in [Sub -> SUBSET ((1..run) \X (1..MaxId))]
      BY <2>1 DEF ClientType
    <3>2. 1..run \subseteq 1..(MaxRestarts + 1)
      BY <3>1, DeliveryAssumption
    <3>3. (1..run) \X (1..MaxId) \subseteq (1..(MaxRestarts + 1)) \X (1..MaxId)
      BY <3>2
    <3>4. QED
      BY <3>1, <3>3
  <2>5. \A s \in Sub : sessions[s] \in 0..MaxSessions[s]
    BY <2>1, DeliveryAssumption DEF ClientType
  <2>6. QED
    BY <2>1, <2>2, <2>3, <2>4, <2>5 DEF BusInv, ClientType, TypeOK, Fan
<1>2. QED
  BY <1>1, DeliveryHolds, PTL

\* However publish(), subscribe() and stop() interleave, replay and live delivery meet
\* without a gap and without a duplicate, in every session that dropped nothing.
THEOREM SessionsExact == Spec => []SessionExact
<1>1. DeliveryInv => SessionExact
  <2> SUFFICES ASSUME DeliveryInv, NEW s \in Sub,
                      handler[s] \in {"drain", "live"}, s \notin dropped, ~closed[s]
               PROVE  /\ owed[s] = Ids(queue[s]) \cup Coming(s)
                      /\ Ids(queue[s]) \cap Coming(s) = {}
                      /\ Cardinality(Ids(queue[s])) = Len(queue[s])
    BY DEF SessionExact
  <2>1. ClientType /\ PathInv(s) /\ ExactInv(s)
    BY DEF DeliveryInv
  <2>2. owed[s] = Ids(queue[s]) \cup Coming(s)
    BY <2>1 DEF ExactInv
  <2>3. Ids(queue[s]) \cap Coming(s) = {}
    <3>1. \A n : n \in Coming(s) => n \in Fanned(s)
      BY FannedIs
    <3>2. QED
      BY <2>1, <3>1 DEF PathInv
  <2>4. Cardinality(Ids(queue[s])) = Len(queue[s])
    BY <2>1, IdsCount DEF PathInv, ClientType
  <2>5. QED
    BY <2>2, <2>3, <2>4
<1>2. QED
  BY <1>1, DeliveryHolds, PTL

\* A dashboard never paints an event twice, over any number of sessions, restarts and
\* broken streams: the cursor of the cache and the ids of a run are enough (event_stream.hpp).
THEOREM NothingReplayed == Spec => []NoReplay
<1>1. DeliveryInv => NoReplay
  BY DEF DeliveryInv, NoReplay
<1>2. QED
  BY <1>1, DeliveryHolds, PTL

=============================================================================
