-------------------------- MODULE AskSchedulerProofs --------------------------
(***************************************************************************)
(* What holds of the asks of a run for every script, every set of actors,  *)
(* every bound and every number of lives.                                  *)
(*                                                                         *)
(* The actions apply synchronous code to Now, the record of the engine's   *)
(* state, so the argument is about that code: each part of it takes a good *)
(* state (Good: a type, and where an ask may be, what waits, what is       *)
(* numbered, what the user's control and the turns at the driver say of    *)
(* it) to a good one.  pumpAll and drainAdmission are recursive functions  *)
(* over the actors and over the rounds; what they keep is shown by         *)
(* induction on the length, from the least element of a set of numbers.    *)
(***************************************************************************)
EXTENDS AskScheduler, FiniteSetTheorems, SequenceTheorems, TLAPS


\* Every nonempty set of numbers has a least one.
LEMMA Least ==
    ASSUME NEW T, T \subseteq Nat, T # {}
    PROVE  \E x \in T : \A y \in T : x <= y
  <1> DEFINE W == {0..n : n \in T}
  <1>1. W \subseteq FiniteSubsetsOf(Nat)
    <2> SUFFICES ASSUME NEW n \in T PROVE 0..n \in FiniteSubsetsOf(Nat)
      OBVIOUS
    <2> QED
      BY FS_Interval DEF FiniteSubsetsOf
  <1>2. W # {}
    OBVIOUS
  <1>3. IsWellFoundedOn(StrictSubsetOrdering(Nat), FiniteSubsetsOf(Nat))
    BY FS_StrictSubsetOrderingWellFounded
  <1>4. PICK X \in W : \A Y \in W : ~(<<Y, X>> \in StrictSubsetOrdering(Nat))
    <2> HIDE DEF W
    <2> QED
      BY <1>1, <1>2, <1>3, WFMin
  <1>5. PICK x \in T : X = 0..x
    OBVIOUS
  <1>6. ASSUME NEW y \in T PROVE x <= y
    <2>1. ~(<<0..y, 0..x>> \in StrictSubsetOrdering(Nat))
      BY <1>4, <1>5
    <2> QED
      BY <1>1, <2>1 DEF StrictSubsetOrdering
  <1> QED
    BY <1>6

\* So a set of numbers with 0 and the successors of its members has them all.
LEMMA Induct ==
    ASSUME NEW T, T \subseteq Nat, 0 \in T, \A n \in T : n + 1 \in T
    PROVE  T = Nat
  <1> SUFFICES ASSUME T # Nat PROVE FALSE
    OBVIOUS
  <1> DEFINE U == Nat \ T
  <1>1. PICK x \in U : \A y \in U : x <= y
    <2> HIDE DEF U
    <2>1. U \subseteq Nat /\ U # {}
      BY DEF U
    <2> QED
      BY <2>1, Least
  <1>2. x - 1 \in Nat /\ x - 1 \in T
    BY <1>1
  <1> QED
    BY <1>2

\* The rounds of pumpAll, and that its recursion has a solution.
PumpRound(s) ==
    LET Pumped[i \in 0..Len(Actors)] ==
            IF i = 0 THEN {s} ELSE {Pump(t, Actors[i]) : t \in Pumped[i - 1]}
    IN  Pumped

LEMMA PumpRounds ==
    ASSUME NEW s
    PROVE  \E f : /\ f = [i \in 0..Len(Actors) |->
                             IF i = 0 THEN {s} ELSE {Pump(t, Actors[i]) : t \in f[i - 1]}]
                  /\ PumpAll(s) = CHOOSE t \in f[Len(Actors)] : TRUE
  <1> DEFINE Rec(f, n) == f = [i \in 0..n |-> IF i = 0 THEN {s} ELSE {Pump(t, Actors[i]) : t \in f[i - 1]}]
             T == {n \in Nat : \E f : Rec(f, n)}
  <1>1. 0 \in T
    <2> DEFINE g == [i \in 0..0 |-> {s}]
    <2>1. Rec(g, 0)
      OBVIOUS
    <2> HIDE DEF g, Rec
    <2> QED
      BY <2>1
  <1>2. ASSUME NEW n \in T PROVE n + 1 \in T
    <2>1. PICK f : Rec(f, n)
      OBVIOUS
    <2> DEFINE g == [i \in 0..(n + 1) |-> IF i = n + 1 THEN {Pump(t, Actors[n + 1]) : t \in f[n]} ELSE f[i]]
    <2>2. ASSUME NEW i \in 0..(n+1)
          PROVE  g[i] = IF i = 0 THEN {s} ELSE {Pump(t, Actors[i]) : t \in g[i - 1]}
      <3>1. CASE i = n + 1
        <4>1. g[n] = f[n] /\ i - 1 = n
          BY <3>1
        <4> QED
          BY <3>1, <4>1
      <3>2. CASE i \in 0..n
        <4>1. g[i] = f[i] /\ (i # 0 => g[i - 1] = f[i - 1])
          BY <3>2
        <4> HIDE DEF g
        <4> QED
          BY <2>1, <3>2, <4>1
      <3> QED
        BY <3>1, <3>2
    <2>3. g = [i \in 0..(n + 1) |-> g[i]]
      OBVIOUS
    <2>4. Rec(g, n + 1)
      <3> HIDE DEF g
      <3> QED
        BY <2>2, <2>3
    <2> HIDE DEF g, Rec
    <2> QED
      BY <2>4
  <1>3. T = Nat
    <2> HIDE DEF T
    <2>1. T \subseteq Nat BY DEF T
    <2> QED BY <1>1, <1>2, <2>1, Induct
  <1>4. Len(Actors) \in Nat
    BY SchedulerAssumption
  <1>5. \E f : Rec(f, Len(Actors))
    <2> HIDE DEF Rec
    <2> QED
      BY <1>3, <1>4
  <1>6. Rec(PumpRound(s), Len(Actors))
    BY <1>5, Zenon DEF PumpRound
  <1>7. PumpAll(s) = CHOOSE t \in PumpRound(s)[Len(Actors)] : TRUE
    BY DEF PumpAll, PumpRound
  <1> QED
    BY <1>6, <1>7
\* A sequence without repetition that gets a new element, at the end or in front.
LEMMA AppendFacts ==
    ASSUME NEW S, NEW q \in Seq(S), NEW e \in S
    PROVE  /\ Append(q, e) \in Seq(S) /\ Range(Append(q, e)) = Range(q) \cup {e}
           /\ IsInjective(q) /\ e \notin Range(q) => IsInjective(Append(q, e))
  <1> DEFINE t == Append(q, e)
  <1>1. /\ t \in Seq(S) /\ Len(t) = Len(q) + 1 /\ Len(q) \in Nat
        /\ \A i \in 1..Len(q) : t[i] = q[i]
        /\ t[Len(q) + 1] = e
        /\ DOMAIN q = 1..Len(q) /\ DOMAIN t = 1..(Len(q) + 1)
    BY AppendProperties, LenProperties
  <1> HIDE DEF t
  <1>2. ASSUME NEW i \in DOMAIN t
        PROVE  (i \in DOMAIN q /\ t[i] = q[i]) \/ (i = Len(q) + 1 /\ t[i] = e)
    <2>1. i \in 1..Len(q) \/ i = Len(q) + 1
      BY <1>1
    <2> QED
      BY <1>1, <2>1
  <1>3. Range(t) = Range(q) \cup {e}
    <2>1. Range(t) \subseteq Range(q) \cup {e}
      BY <1>2 DEF Range
    <2>2. e \in Range(t)
      <3>1. Len(q) + 1 \in DOMAIN t
        BY <1>1
      <3> QED
        BY <1>1, <3>1 DEF Range
    <2>3. Range(q) \subseteq Range(t)
      <3>1. \A i \in DOMAIN q : i \in DOMAIN t /\ t[i] = q[i]
        BY <1>1
      <3> QED
        BY <3>1 DEF Range
    <2> QED
      BY <2>1, <2>2, <2>3
  <1>4. ASSUME IsInjective(q), e \notin Range(q) PROVE IsInjective(t)
    <2> SUFFICES ASSUME NEW i \in DOMAIN t, NEW j \in DOMAIN t, t[i] = t[j] PROVE i = j
      BY DEF IsInjective
    <2>1. \A n \in DOMAIN q : q[n] # e
      BY <1>4 DEF Range
    <2>2. \A m, n \in DOMAIN q : q[m] = q[n] => m = n
      BY <1>4 DEF IsInjective
    <2> QED
      BY <1>2, <2>1, <2>2
  <1> QED
    BY <1>1, <1>3, <1>4 DEF t

\* Two sequences without a common element, one after the other.
LEMMA ConcatFacts ==
    ASSUME NEW S, NEW p \in Seq(S), NEW q \in Seq(S)
    PROVE  /\ p \o q \in Seq(S) /\ Range(p \o q) = Range(p) \cup Range(q)
           /\ IsInjective(p) /\ IsInjective(q) /\ Range(p) \cap Range(q) = {}
                 => IsInjective(p \o q)
  <1> DEFINE t == p \o q
  <1>1. /\ t \in Seq(S) /\ Len(t) = Len(p) + Len(q) /\ Len(p) \in Nat /\ Len(q) \in Nat
        /\ DOMAIN t = 1..(Len(p) + Len(q)) /\ DOMAIN p = 1..Len(p) /\ DOMAIN q = 1..Len(q)
        /\ \A i \in 1..(Len(p) + Len(q)) : t[i] = IF i <= Len(p) THEN p[i] ELSE q[i - Len(p)]
    BY ConcatProperties, LenProperties
  <1> HIDE DEF t
  <1>2. \A i \in DOMAIN t :
            \/ i \in DOMAIN p /\ t[i] = p[i]
            \/ i \notin DOMAIN p /\ i - Len(p) \in DOMAIN q /\ t[i] = q[i - Len(p)]
    BY <1>1
  <1>3. /\ \A i \in DOMAIN p : i \in DOMAIN t /\ t[i] = p[i]
        /\ \A i \in DOMAIN q : i + Len(p) \in DOMAIN t /\ t[i + Len(p)] = q[i]
    <2>1. \A i \in DOMAIN q : i + Len(p) \in DOMAIN t /\ ~(i + Len(p) <= Len(p))
                               /\ (i + Len(p)) - Len(p) = i
      BY <1>1
    <2> QED
      BY <1>1, <2>1
  <1>4. Range(t) = Range(p) \cup Range(q)
    <2>1. Range(t) \subseteq Range(p) \cup Range(q)
      BY <1>2 DEF Range
    <2>2. Range(p) \subseteq Range(t) /\ Range(q) \subseteq Range(t)
      BY <1>3 DEF Range
    <2> QED
      BY <2>1, <2>2
  <1>5. ASSUME IsInjective(p), IsInjective(q), Range(p) \cap Range(q) = {} PROVE IsInjective(t)
    <2> SUFFICES ASSUME NEW i \in DOMAIN t, NEW j \in DOMAIN t, t[i] = t[j] PROVE i = j
      BY DEF IsInjective
    <2>1. \A m \in DOMAIN p, n \in DOMAIN q : p[m] # q[n]
      BY <1>5 DEF Range
    <2>2. \A m, n \in DOMAIN p : p[m] = p[n] => m = n
      BY <1>5 DEF IsInjective
    <2>3. \A m, n \in DOMAIN q : q[m] = q[n] => m = n
      BY <1>5 DEF IsInjective
    <2>4. i \in Nat /\ j \in Nat
      BY <1>1
    <2>5. CASE i \in DOMAIN p
      BY <1>2, <2>1, <2>2, <2>5
    <2>6. CASE i \notin DOMAIN p
      <3>1. j \notin DOMAIN p
        BY <1>2, <2>1, <2>6
      <3>2. i - Len(p) = j - Len(p)
        BY <1>2, <2>3, <2>6, <3>1
      <3> QED
        BY <1>1, <2>4, <3>2
    <2> QED
      BY <2>5, <2>6
  <1> QED
    BY <1>1, <1>4, <1>5 DEF t

\* Taking the first.
LEMMA TailFacts ==
    ASSUME NEW S, NEW q \in Seq(S), q # <<>>
    PROVE  /\ Tail(q) \in Seq(S) /\ Head(q) \in S
           /\ Range(q) = Range(Tail(q)) \cup {Head(q)}
           /\ IsInjective(q) => IsInjective(Tail(q)) /\ Head(q) \notin Range(Tail(q))
  <1> DEFINE t == Tail(q)
  <1>1. /\ t \in Seq(S) /\ Head(q) \in S /\ Head(q) = q[1] /\ Len(t) = Len(q) - 1 /\ Len(q) \in Nat /\ Len(q) > 0
        /\ DOMAIN q = 1..Len(q) /\ DOMAIN t = 1..(Len(q) - 1)
        /\ \A i \in 1..(Len(q) - 1) : t[i] = q[i + 1]
    BY HeadTailProperties, LenProperties, EmptySeq
  <1> HIDE DEF t
  <1>2. /\ \A i \in DOMAIN t : i + 1 \in DOMAIN q /\ i + 1 # 1 /\ t[i] = q[i + 1]
        /\ \A i \in DOMAIN q : i = 1 \/ (i - 1 \in DOMAIN t /\ q[i] = t[i - 1])
        /\ 1 \in DOMAIN q
    BY <1>1
  <1>3. Range(q) = Range(t) \cup {q[1]}
    <2>1. Range(q) \subseteq Range(t) \cup {q[1]}
      BY <1>2 DEF Range
    <2>2. Range(t) \cup {q[1]} \subseteq Range(q)
      BY <1>2 DEF Range
    <2> QED
      BY <2>1, <2>2
  <1>4. ASSUME IsInjective(q) PROVE IsInjective(t) /\ q[1] \notin Range(t)
    <2>1. \A m, n \in DOMAIN q : q[m] = q[n] => m = n
      BY <1>4 DEF IsInjective
    <2>2. q[1] \notin Range(t)
      BY <1>2, <2>1 DEF Range
    <2>3. ASSUME NEW i \in DOMAIN t, NEW j \in DOMAIN t, t[i] = t[j] PROVE i = j
      <3>1. i + 1 = j + 1
        BY <1>2, <2>1, <2>3
      <3> QED
        BY <1>1, <3>1
    <2> QED
      BY <2>2, <2>3 DEF IsInjective
  <1> QED
    BY <1>1, <1>3, <1>4 DEF t

\* The n-th element of s that is in T, for each n up to their number.
LEMMA Ranks ==
    ASSUME NEW m \in Nat, NEW at, at \subseteq 1..m, NEW n \in 1..Cardinality(at)
    PROVE  \E i \in at : Cardinality({j \in at : j <= i}) = n
  <1> DEFINE upto(k) == {j \in at : j <= k}
             C(k) == Cardinality(upto(k))
             K == {k \in Nat : C(k) \in Nat /\ \A r \in 1..C(k) : \E i \in upto(k) : C(i) = r}
  <1>0. \A j \in at : j \in Nat /\ 1 <= j /\ j <= m
    OBVIOUS
  <1>1. \A k \in Nat : IsFiniteSet(upto(k)) /\ C(k) \in Nat
    <2> TAKE k \in Nat
    <2>1. upto(k) \subseteq 1..m
      OBVIOUS
    <2>2. IsFiniteSet(1..m)
      BY FS_Interval
    <2> HIDE DEF upto
    <2> QED
      BY <2>1, <2>2, FS_Subset, FS_CardinalityType
  <1>2. 0 \in K
    <2>1. \A j \in at : ~(j <= 0)
      BY <1>0
    <2>3. upto(0) = {}
      BY <2>1
    <2>2. C(0) = 0
      BY <2>3, FS_EmptySet
    <2> HIDE DEF C
    <2> QED
      BY <2>2
  <1>3. ASSUME NEW k \in K PROVE k + 1 \in K
    <2>1. CASE k + 1 \in at
      <3>1. upto(k + 1) = upto(k) \cup {k + 1} /\ k + 1 \notin upto(k)
        <4>1. \A j \in at : j <= k + 1 <=> (j <= k \/ j = k + 1)
          BY <1>0
        <4>2. ~(k + 1 <= k)
          OBVIOUS
        <4> QED
          BY <2>1, <4>1, <4>2
      <3>2. C(k + 1) = C(k) + 1
        <4> HIDE DEF upto
        <4> QED
          BY <1>1, <3>1, FS_AddElement
      <3>3. \A i \in upto(k) : i \in upto(k + 1)
        OBVIOUS
      <3>4. k + 1 \in upto(k + 1)
        BY <2>1
      <3> HIDE DEF C, upto
      <3> QED
        BY <1>1, <3>2, <3>3, <3>4
    <2>2. CASE k + 1 \notin at
      <3>1. upto(k + 1) = upto(k)
        <4>1. \A j \in at : j <= k + 1 <=> j <= k
          BY <1>0, <2>2
        <4> QED
          BY <4>1
      <3> HIDE DEF upto
      <3>2. C(k + 1) = C(k)
        BY <3>1
      <3> HIDE DEF C
      <3> QED
        BY <1>1, <3>1, <3>2
    <2> QED
      BY <2>1, <2>2
  <1>4. m \in K
    <2> HIDE DEF K
    <2>1. K \subseteq Nat
      BY DEF K
    <2>2. K = Nat
      BY <1>2, <1>3, <2>1, Induct
    <2> QED
      BY <2>2
  <1>5. upto(m) = at
    BY <1>0
  <1>6. \A r \in 1..C(m) : \E i \in upto(m) : C(i) = r
    <2> HIDE DEF C, upto
    <2> QED
      BY <1>4
  <1> QED
    BY <1>5, <1>6

\* The elements that are in T, each once if each was there once.
LEMMA AmongFacts ==
    ASSUME NEW S, NEW s \in Seq(S), IsInjective(s), NEW T
    PROVE  /\ Among(s, T) \in Seq(S) /\ IsInjective(Among(s, T))
           /\ Range(Among(s, T)) = Range(s) \cap T
  <1> DEFINE at == {i \in DOMAIN s : s[i] \in T}
             rank(i) == Cardinality({j \in at : j <= i})
             pick(n) == CHOOSE i \in at : rank(i) = n
             t == [n \in 1..Cardinality(at) |-> s[pick(n)]]
  <1>1. Among(s, T) = t
    BY DEF Among
  <1>2. DOMAIN s = 1..Len(s) /\ Len(s) \in Nat /\ \A i \in DOMAIN s : s[i] \in S
    BY LenProperties
  <1>3. at \subseteq 1..Len(s)
    BY <1>2
  <1>4. IsFiniteSet(at) /\ Cardinality(at) \in Nat
    <2>1. IsFiniteSet(1..Len(s))
      BY <1>2, FS_Interval
    <2> HIDE DEF at
    <2> QED
      BY <1>3, <2>1, FS_Subset, FS_CardinalityType
  <1>5. \A n \in 1..Cardinality(at) : pick(n) \in at /\ rank(pick(n)) = n
    <2> TAKE n \in 1..Cardinality(at)
    <2>1. \E i \in at : rank(i) = n
      <3> HIDE DEF at
      <3> QED
        BY <1>2, <1>3, Ranks, ZenonT(30)
    <2> HIDE DEF at, rank
    <2> QED
      BY <2>1
  <1>6. \A i \in at : rank(i) \in 1..Cardinality(at)
    <2> TAKE i \in at
    <2>1. {j \in at : j <= i} \in SUBSET at /\ i \in {j \in at : j <= i}
      BY <1>3
    <2> DEFINE u == {j \in at : j <= i}
    <2> HIDE DEF u, at
    <2>2. Cardinality(u) \in Nat /\ Cardinality(u) <= Cardinality(at) /\ Cardinality(u) # 0
      BY <1>4, <2>1, FS_Subset, FS_CardinalityType, FS_EmptySet DEF u
    <2> QED
      BY <1>4, <2>2 DEF u
  <1>7. ASSUME NEW i \in at, NEW j \in at, i < j PROVE rank(i) # rank(j)
    <2> DEFINE u == {k \in at : k <= i}
               v == {k \in at : k <= j}
    <2>1. u \in SUBSET v /\ j \in v /\ j \notin u /\ v \in SUBSET at
      BY <1>3, <1>7
    <2> HIDE DEF u, v, at
    <2>2. IsFiniteSet(v) /\ u # v
      BY <1>4, <2>1, FS_Subset
    <2> QED
      BY <2>1, <2>2, FS_Subset DEF u, v
  <1>8. \A i, j \in at : rank(i) = rank(j) => i = j
    <2> SUFFICES ASSUME NEW i \in at, NEW j \in at, i # j PROVE rank(i) # rank(j)
      OBVIOUS
    <2>1. i < j \/ j < i
      BY <1>3
    <2> HIDE DEF at, rank
    <2> QED
      BY <1>7, <2>1
  <1> HIDE DEF rank
  <1>9. \A i \in at : pick(rank(i)) = i
    <2> HIDE DEF at, pick
    <2> QED
      BY <1>5, <1>6, <1>8
  <1>10. t \in Seq(S)
    <2>1. \A n \in 1..Cardinality(at) : s[pick(n)] \in S
      BY <1>2, <1>5
    <2> HIDE DEF at, pick
    <2> QED
      BY <1>4, <2>1
  <1>11. IsInjective(t)
    <2> SUFFICES ASSUME NEW m \in 1..Cardinality(at), NEW n \in 1..Cardinality(at),
                        s[pick(m)] = s[pick(n)]
                 PROVE  m = n
      BY DEF IsInjective
    <2>1. pick(m) \in DOMAIN s /\ pick(n) \in DOMAIN s
      BY <1>5
    <2>2. pick(m) = pick(n)
      <3> HIDE DEF pick
      <3> QED
        BY <2>1 DEF IsInjective
    <2> HIDE DEF pick, at
    <2> QED
      BY <1>5, <2>2
  <1>12. Range(t) = Range(s) \cap T
    <2>1. Range(t) = {s[pick(n)] : n \in 1..Cardinality(at)}
      <3> HIDE DEF at, pick
      <3> QED
        BY DEF Range
    <2>2. Range(s) \cap T = {s[i] : i \in at}
      BY DEF Range
    <2>3. \A n \in 1..Cardinality(at) : s[pick(n)] \in {s[i] : i \in at}
      <3> HIDE DEF at, pick
      <3> QED
        BY <1>5
    <2>4. \A i \in at : s[i] \in {s[pick(n)] : n \in 1..Cardinality(at)}
      <3> HIDE DEF at, pick
      <3> QED
        BY <1>6, <1>9
    <2> HIDE DEF at, pick, t
    <2> QED
      BY <2>1, <2>2, <2>3, <2>4
  <1> QED
    BY <1>1, <1>10, <1>11, <1>12
\* The synchronous code is reasoned about on the record of its state.
Engine ==
    [actors : [ActorSet -> Actor], nodes : [Calls -> Opt(Node)], active : 0..MaxConcurrency,
     inst : [Calls -> 0..Cardinality(Calls)], journal : [Instances -> Opt(Row)],
     outcome : [Calls -> Opt(Answers)], ready : Seq(Calls)]

Runs(s, c) == s.nodes[c] # None /\ ~s.nodes[c].paused

\* An ask that is not stopped is the current one of its actor or once in the queue,
\* and a stopped one is neither; the slots taken are the current asks.
Placed(s) ==
    /\ \A a \in ActorSet :
          /\ s.actors[a].cur # None => ActorOf[s.actors[a].cur] = a /\ Runs(s, s.actors[a].cur)
          /\ IsInjective(s.actors[a].queue)
          /\ \A d \in Range(s.actors[a].queue) :
                ActorOf[d] = a /\ Runs(s, d) /\ d # s.actors[a].cur
    /\ \A c \in Calls : Runs(s, c) =>
          c = s.actors[ActorOf[c]].cur \/ c \in Range(s.actors[ActorOf[c]].queue)
    /\ s.active = Cardinality({a \in ActorSet : s.actors[a].cur # None})

\* The call was made, is not live, and was not answered.
Between(s, c) == s.inst[c] # 0 /\ s.nodes[c] = None /\ s.outcome[c] = None

\* A call waits once for its admission: a fresh one without a row, a recorded one
\* with a row.
Pending(s) ==
    \A a \in ActorSet :
        /\ IsInjective(s.actors[a].fresh)
        /\ \A c \in Range(s.actors[a].fresh) :
              ActorOf[c] = a /\ Between(s, c) /\ s.journal[InstanceIn(s, c)] = None
        /\ \A h \in s.actors[a].held :
              /\ ActorOf[h[2]] = a /\ Between(s, h[2]) /\ s.journal[InstanceIn(s, h[2])] # None
              /\ \A g \in s.actors[a].held : g[2] = h[2] => g = h

\* A live call has a row, which is running, and no answer; no answer comes before
\* the call, and no call before the answers it waits for.
Served(s) ==
    /\ \A c \in Calls : s.nodes[c] # None =>
          /\ s.inst[c] # 0 /\ s.outcome[c] = None
          /\ s.journal[InstanceIn(s, c)] # None
          /\ s.journal[InstanceIn(s, c)].status = "running"
    /\ \A c \in Calls : s.outcome[c] # None => s.inst[c] # 0
    /\ \A c \in Calls : s.inst[c] # 0 \/ c \in Range(s.ready) =>
          \A p \in After[c] : s.outcome[p] # None
    /\ IsInjective(s.ready) /\ \A c \in Range(s.ready) : s.inst[c] = 0

\* Calls of one site have ordinals of their own.
Numbered(ord) ==
    \A c \in Calls : ord[c] # 0 =>
        /\ ord[c] <= Cardinality({d \in Calls : SiteOf[d] = SiteOf[c] /\ ord[d] # 0})
        /\ \A d \in Calls : SiteOf[d] = SiteOf[c] /\ ord[d] = ord[c] => d = c

\* What the user did last to an ask is known of its row: a stopped one is not settled,
\* and a settled one was settled on the attempt the user left it.
Obeyed(rows, ctl) ==
    \A i \in Instances : ctl[i] # None =>
        /\ rows[i] # None
        /\ ctl[i].paused => rows[i].status = "running"
        /\ rows[i].status # "running" => rows[i].attempt = ctl[i].attempt

\* It is known of its node too.
Steered(s, ctl) ==
    \A c \in Calls : s.nodes[c] # None /\ ctl[InstanceIn(s, c)] # None =>
        /\ ctl[InstanceIn(s, c)].attempt = s.nodes[c].attempt
        /\ ctl[InstanceIn(s, c)].paused = s.nodes[c].paused

\* A turn is of an attempt begun, and the call's last attempt runs for its actor:
\* no report of it finds the ask in the queue.
Turning(s, sent) ==
    \A t \in sent :
        /\ t \in Calls \X Attempts /\ s.inst[t[1]] # 0
        /\ \A a \in ActorSet : t[1] \notin Range(s.actors[a].fresh)
                              /\ \A h \in s.actors[a].held : h[2] # t[1]
        /\ s.nodes[t[1]] # None =>
              /\ t[2] <= s.nodes[t[1]].attempt
              /\ t[2] = s.nodes[t[1]].attempt /\ ~s.nodes[t[1]].paused =>
                    s.actors[ActorOf[t[1]]].cur = t[1]

\* A good state of the engine, under the user's control ctl, with the turns sent at
\* the driver.
Good(s, ctl, sent) ==
    /\ s \in Engine
    /\ Placed(s) /\ Pending(s) /\ Served(s) /\ Numbered(s.inst)
    /\ Obeyed(s.journal, ctl) /\ Steered(s, ctl) /\ Turning(s, sent)

\* Nobody could start.
Pumped(s) == \A a \in ActorSet : ~(Idle(s, a) /\ Room(s) > 0)

\* The variables around the engine.
Around ==
    /\ run \in Statuses
    /\ session \in [ActorSet -> {"none", "opening", "open", "failed"}]
    /\ control \in [Instances -> Opt(Control)]
    /\ turns \subseteq Calls \X Attempts
    /\ lives \in 1..MaxLives

\* Between two handlers the engine of a running run is good, and nobody could start;
\* of a run that is over the journal and the control are left.
Inv ==
    /\ Around /\ Now \in Engine /\ Obeyed(journal, control)
    /\ run = "running" => Good(Now, control, turns) /\ Pumped(Now)
-----------------------------------------------------------------------------
(* What the synchronous code does, field by field. *)

\* The constants, and the fields of the engine's state.
LEMMA CallsAre ==
    \A c \in Calls : ActorOf[c] \in ActorSet /\ SiteOf[c] \in Sites /\ TextOf[c] \in Range(TextOf)
  BY SchedulerAssumption DEF ActorSet, Sites, Range

LEMMA ConstantsAre ==
    /\ RepairAttempts \in Nat /\ NudgeAttempts \in Nat /\ Cardinality(Calls) \in Nat
    /\ MaxConcurrency \in Nat /\ MaxConcurrency > 0 /\ MaxAttempt \in Nat /\ 1 \in Attempts
    /\ None \notin Calls /\ None \notin Node /\ None \notin Row
    /\ None \notin Control /\ None \notin Answers
  <1>1. Cardinality(Calls) \in Nat
    BY ScriptAssumption, FS_CardinalityType
  <1>2. {MaxConcurrency, RepairAttempts, NudgeAttempts, MaxAttempt, MaxLives} \subseteq Nat \ {0}
    BY SchedulerAssumption
  <1> QED
    BY <1>1, <1>2, ScriptAssumption, RecordAssumption DEF Attempts

LEMMA FieldsAre ==
    ASSUME NEW s \in Engine
    PROVE  /\ s.actors \in [ActorSet -> Actor] /\ s.nodes \in [Calls -> Opt(Node)]
           /\ s.active \in 0..MaxConcurrency /\ s.inst \in [Calls -> 0..Cardinality(Calls)]
           /\ s.journal \in [Instances -> Opt(Row)] /\ s.outcome \in [Calls -> Opt(Answers)]
           /\ s.ready \in Seq(Calls)
           /\ \A c \in Calls : s.inst[c] # 0 => InstanceIn(s, c) \in Instances
  <1>1. /\ s.actors \in [ActorSet -> Actor] /\ s.nodes \in [Calls -> Opt(Node)]
        /\ s.active \in 0..MaxConcurrency /\ s.inst \in [Calls -> 0..Cardinality(Calls)]
        /\ s.journal \in [Instances -> Opt(Row)] /\ s.outcome \in [Calls -> Opt(Answers)]
        /\ s.ready \in Seq(Calls)
    BY DEF Engine
  <1> QED
    BY <1>1, CallsAre, ConstantsAre DEF InstanceIn, Instances

\* The node and the row that admission writes.
NodeOf(seq, k, p) ==
    [seq |-> seq, attempt |-> k, paused |-> p, repairs |-> RepairAttempts, nudges |-> NudgeAttempts]

RowOf(c, seq, k) ==
    [actor |-> ActorOf[c], seq |-> seq, text |-> TextOf[c], status |-> "running",
     by |-> c, attempt |-> k]

\* Admission writes the row and the node, and queues the ask unless it is stopped.
Admitted(s, c, seq, k, p, t) ==
    /\ t \in Engine /\ InstanceIn(s, c) \in Instances
    /\ NodeOf(seq, k, p) \in Node /\ RowOf(c, seq, k) \in Row
    /\ t.nodes = [s.nodes EXCEPT ![c] = NodeOf(seq, k, p)]
    /\ t.journal = [s.journal EXCEPT ![InstanceIn(s, c)] = RowOf(c, seq, k)]
    /\ t.active = s.active /\ t.inst = s.inst /\ t.outcome = s.outcome /\ t.ready = s.ready
    /\ \A b \in ActorSet \ {ActorOf[c]} : t.actors[b] = s.actors[b]
    /\ t.actors[ActorOf[c]].cur = s.actors[ActorOf[c]].cur
    /\ t.actors[ActorOf[c]].held = s.actors[ActorOf[c]].held
    /\ t.actors[ActorOf[c]].fresh = s.actors[ActorOf[c]].fresh
    /\ t.actors[ActorOf[c]].queue =
          IF p THEN s.actors[ActorOf[c]].queue ELSE Append(s.actors[ActorOf[c]].queue, c)

LEMMA AdmitLiveIs ==
    ASSUME NEW s \in Engine, NEW c \in Calls, NEW seq \in Nat, NEW k \in Attempts, NEW p \in BOOLEAN,
           s.inst[c] # 0
    PROVE  Admitted(s, c, seq, k, p, AdmitLive(s, c, seq, k, p))
  <1> DEFINE t == AdmitLive(s, c, seq, k, p)
             a == ActorOf[c]
             i == InstanceIn(s, c)
             node == NodeOf(seq, k, p)
             row == RowOf(c, seq, k)
             r == s.actors[a]
             act == IF p THEN [r EXCEPT !.paused = c] ELSE Queued(r, c)
  <1>1. i \in Instances /\ a \in ActorSet
    BY FieldsAre, CallsAre
  <1>2. node \in Node /\ row \in Row
    BY CallsAre, ConstantsAre DEF Node, Row, NodeOf, RowOf
  <1>3. /\ act \in Actor /\ act.cur = r.cur /\ act.held = r.held /\ act.fresh = r.fresh
        /\ act.queue = IF p THEN r.queue ELSE Append(r.queue, c)
    <2>1. r \in Actor
      BY CallsAre, FieldsAre
    <2> HIDE DEF r
    <2>2. Append(r.queue, c) \in Seq(Calls)
      BY <2>1 DEF Actor
    <2> QED
      BY <2>1, <2>2 DEF Actor, Opt, Queued
  <1>4. t = [s EXCEPT !.nodes = [s.nodes EXCEPT ![c] = node],
                      !.journal = [s.journal EXCEPT ![i] = row],
                      !.actors = [s.actors EXCEPT ![a] = act]]
    BY DEF AdmitLive, NodeOf, RowOf
  <1> HIDE DEF t, node, row, act, i, a, r
  <1>5. /\ t.nodes = [s.nodes EXCEPT ![c] = node] /\ t.journal = [s.journal EXCEPT ![i] = row]
        /\ t.actors = [s.actors EXCEPT ![a] = act]
        /\ t.active = s.active /\ t.inst = s.inst /\ t.outcome = s.outcome /\ t.ready = s.ready
    BY <1>4 DEF Engine
  <1>6. /\ [s.nodes EXCEPT ![c] = node] \in [Calls -> Opt(Node)]
        /\ [s.journal EXCEPT ![i] = row] \in [Instances -> Opt(Row)]
        /\ [s.actors EXCEPT ![a] = act] \in [ActorSet -> Actor]
    BY <1>2, <1>3, FieldsAre DEF Opt
  <1>7. t \in Engine
    BY <1>4, <1>6 DEF Engine
  <1>8. t.actors[a] = act /\ \A b \in ActorSet \ {a} : t.actors[b] = s.actors[b]
    BY <1>1, <1>5, FieldsAre
  <1> QED
    BY <1>1, <1>2, <1>3, <1>5, <1>7, <1>8 DEF a, i, node, row, r, t, Admitted

\* The head of the queue becomes the current ask.
LEMMA StartIs ==
    ASSUME NEW s \in Engine, NEW a \in ActorSet, s.actors[a].queue # <<>>, Room(s) > 0
    PROVE  LET t == Start(s, a)
           IN  /\ t \in Engine /\ t.nodes = s.nodes /\ t.journal = s.journal
               /\ t.active = s.active + 1
               /\ t.inst = s.inst /\ t.outcome = s.outcome /\ t.ready = s.ready
               /\ \A b \in ActorSet \ {a} : t.actors[b] = s.actors[b]
               /\ t.actors[a].cur = Head(s.actors[a].queue) /\ t.actors[a].cur \in Calls
               /\ t.actors[a].queue = Tail(s.actors[a].queue)
               /\ t.actors[a].held = s.actors[a].held /\ t.actors[a].fresh = s.actors[a].fresh
  <1> DEFINE t == Start(s, a)
             r == s.actors[a]
             act == Started(r)
  <1>1. r \in Actor
    BY FieldsAre
  <1>2. Head(r.queue) \in Calls /\ Tail(r.queue) \in Seq(Calls)
    BY <1>1 DEF Actor
  <1> HIDE DEF r
  <1>3. /\ act \in Actor /\ act.cur = Head(r.queue) /\ act.queue = Tail(r.queue)
        /\ act.held = r.held /\ act.fresh = r.fresh
    BY <1>1, <1>2 DEF Started, Actor, Opt
  <1>4. t = [s EXCEPT !.actors = [s.actors EXCEPT ![a] = act], !.active = s.active + 1]
    BY DEF Start, r
  <1> HIDE DEF t, act
  <1>5. /\ t.actors = [s.actors EXCEPT ![a] = act] /\ t.active = s.active + 1
        /\ t.nodes = s.nodes /\ t.journal = s.journal
        /\ t.inst = s.inst /\ t.outcome = s.outcome /\ t.ready = s.ready
    BY <1>4 DEF Engine
  <1>6. [s.actors EXCEPT ![a] = act] \in [ActorSet -> Actor]
    BY <1>3, FieldsAre
  <1>7. s.active + 1 \in 0..MaxConcurrency
    BY FieldsAre, ConstantsAre DEF Room
  <1>8. t \in Engine
    BY <1>4, <1>6, <1>7 DEF Engine
  <1>9. t.actors[a] = act /\ \A b \in ActorSet \ {a} : t.actors[b] = s.actors[b]
    BY <1>5, FieldsAre
  <1> QED
    BY <1>2, <1>3, <1>5, <1>8, <1>9 DEF t, r

\* The calls that waited for the answer of c and for no other.
Woken(s, c) ==
    {d \in Calls : c \in After[d] /\ \A p \in After[d] : p = c \/ s.outcome[p] # None}

LEMMA DeliverIs ==
    ASSUME NEW s \in Engine, NEW c \in Calls, NEW answer \in Answers
    PROVE  LET t == Deliver(s, c, answer)
               new == Among(Script, Woken(s, c))
           IN  /\ t \in Engine /\ t.nodes = s.nodes /\ t.journal = s.journal /\ t.actors = s.actors
               /\ t.active = s.active /\ t.inst = s.inst
               /\ t.outcome = [s.outcome EXCEPT ![c] = answer]
               /\ t.ready = s.ready \o new /\ new \in Seq(Calls) /\ IsInjective(new)
               /\ Range(new) = Woken(s, c)
  <1> DEFINE t == Deliver(s, c, answer)
             o == [s.outcome EXCEPT ![c] = answer]
             woken == {d \in Calls : c \in After[d] /\ \A p \in After[d] : o[p] # None}
             new == Among(Script, woken)
  <1>1. o \in [Calls -> Opt(Answers)] /\ \A p \in Calls : o[p] # None <=> p = c \/ s.outcome[p] # None
    BY FieldsAre, ConstantsAre DEF Opt
  <1>2. \A d \in Calls : After[d] \subseteq Calls
    BY ScriptAssumption
  <1>3. woken = Woken(s, c)
    <2> HIDE DEF o
    <2> QED
      BY <1>1, <1>2 DEF Woken
  <1>4. new \in Seq(Calls) /\ IsInjective(new) /\ Range(new) = Calls \cap woken
    <2> HIDE DEF woken
    <2> QED
      BY AmongFacts, SchedulerAssumption
  <1>5. t = [s EXCEPT !.outcome = o, !.ready = s.ready \o new]
    BY DEF Deliver
  <1> HIDE DEF new, o
  <1>6. s.ready \o new \in Seq(Calls)
    BY <1>4, FieldsAre
  <1>7. /\ t \in Engine /\ t.nodes = s.nodes /\ t.journal = s.journal /\ t.actors = s.actors
        /\ t.active = s.active /\ t.inst = s.inst /\ t.outcome = o /\ t.ready = s.ready \o new
    <2> HIDE DEF t, woken
    <2> QED
      BY <1>1, <1>5, <1>6 DEF Engine
  <1>8. new = Among(Script, Woken(s, c)) /\ Range(new) = Woken(s, c)
    BY <1>3, <1>4 DEF new, Woken
  <1> HIDE DEF t, woken
  <1> QED
    BY <1>4, <1>7, <1>8 DEF t, o
-----------------------------------------------------------------------------
(* Each part of the synchronous code keeps the engine good. *)

\* The actors that take a slot.
Taking(s) == {a \in ActorSet : s.actors[a].cur # None}

LEMMA ActorsAreFinite == IsFiniteSet(ActorSet)
  <1>1. Actors \in Seq(ActorSet)
    BY SchedulerAssumption DEF ActorSet
  <1>2. /\ Len(Actors) \in Nat /\ DOMAIN Actors = 1..Len(Actors)
        /\ \A i \in 1..Len(Actors) : Actors[i] \in ActorSet
    BY <1>1, LenProperties
  <1>3. IsFiniteSet(1..Len(Actors))
    BY <1>2, FS_Interval
  <1>4. Actors \in Surjection(1..Len(Actors), ActorSet)
    BY <1>1, <1>2, LenProperties DEF Surjection, ActorSet, Range
  <1> QED
    BY <1>3, <1>4, FS_Surjection

LEMMA TakingIs ==
    ASSUME NEW s
    PROVE  IsFiniteSet(Taking(s)) /\ Cardinality(Taking(s)) \in Nat
  BY ActorsAreFinite, FS_Subset, FS_CardinalityType DEF Taking

\* An actor starts the head of its queue.
LEMMA StartKeeps ==
    ASSUME NEW ctl, NEW sent, NEW s, Good(s, ctl, sent), NEW a \in ActorSet, Idle(s, a), Room(s) > 0
    PROVE  Good(Start(s, a), ctl, sent)
  <1> DEFINE t == Start(s, a)
             q == s.actors[a].queue
  <1>0. s \in Engine /\ q # <<>> /\ s.actors[a].cur = None
    BY DEF Good, Idle
  <1>1. /\ t \in Engine /\ t.nodes = s.nodes /\ t.journal = s.journal
        /\ t.active = s.active + 1
        /\ t.inst = s.inst /\ t.outcome = s.outcome /\ t.ready = s.ready
        /\ \A b \in ActorSet \ {a} : t.actors[b] = s.actors[b]
        /\ t.actors[a].cur = Head(q) /\ t.actors[a].cur \in Calls
        /\ t.actors[a].queue = Tail(q)
        /\ t.actors[a].held = s.actors[a].held /\ t.actors[a].fresh = s.actors[a].fresh
    BY <1>0, StartIs
  <1>2. q \in Seq(Calls) /\ IsInjective(q)
    BY <1>0, FieldsAre DEF Good, Placed, Actor
  <1>3. /\ Range(q) = Range(Tail(q)) \cup {Head(q)} /\ IsInjective(Tail(q))
        /\ Head(q) \notin Range(Tail(q))
    BY <1>0, <1>2, TailFacts
  <1> HIDE DEF t, q
  <1>4. t.active = Cardinality(Taking(t))
    <2>1. Taking(t) = Taking(s) \cup {a} /\ a \notin Taking(s)
      BY <1>0, <1>1, ConstantsAre DEF Taking
    <2>2. Cardinality(Taking(t)) = Cardinality(Taking(s)) + 1
      BY <2>1, TakingIs, FS_AddElement
    <2>3. s.active = Cardinality(Taking(s))
      BY DEF Good, Placed, Taking
    <2> QED
      BY <1>1, <2>2, <2>3
  <1>5. Placed(t)
    <2>1. ASSUME NEW b \in ActorSet
          PROVE  /\ t.actors[b].cur # None =>
                      ActorOf[t.actors[b].cur] = b /\ Runs(t, t.actors[b].cur)
                 /\ IsInjective(t.actors[b].queue)
                 /\ \A d \in Range(t.actors[b].queue) :
                      ActorOf[d] = b /\ Runs(t, d) /\ d # t.actors[b].cur
      <3>1. /\ s.actors[b].cur # None =>
                 ActorOf[s.actors[b].cur] = b /\ Runs(s, s.actors[b].cur)
            /\ IsInjective(s.actors[b].queue)
            /\ \A d \in Range(s.actors[b].queue) :
                 ActorOf[d] = b /\ Runs(s, d) /\ d # s.actors[b].cur
        BY DEF Good, Placed
      <3>2. \A c \in Calls : Runs(t, c) = Runs(s, c)
        BY <1>1 DEF Runs
      <3>3. CASE b = a
        BY <1>1, <1>3, <3>1, <3>3 DEF q, Runs
      <3>4. CASE b # a
        BY <1>1, <3>1, <3>4 DEF Runs
      <3> QED
        BY <3>3, <3>4
    <2>2. ASSUME NEW c \in Calls, Runs(t, c)
          PROVE  c = t.actors[ActorOf[c]].cur \/ c \in Range(t.actors[ActorOf[c]].queue)
      <3>1. c = s.actors[ActorOf[c]].cur \/ c \in Range(s.actors[ActorOf[c]].queue)
        BY <1>1, <2>2 DEF Good, Placed, Runs
      <3>2. ActorOf[c] \in ActorSet
        BY CallsAre
      <3>3. CASE ActorOf[c] = a
        BY <1>0, <1>1, <1>3, <3>1, <3>3, ConstantsAre DEF q
      <3>4. CASE ActorOf[c] # a
        BY <1>1, <3>1, <3>2, <3>4
      <3> QED
        BY <3>3, <3>4
    <2> QED
      BY <1>4, <2>1, <2>2 DEF Placed, Taking
  <1>6. \A b \in ActorSet : t.actors[b].fresh = s.actors[b].fresh /\ t.actors[b].held = s.actors[b].held
    BY <1>1
  <1>7. Pending(t)
    <2>1. \A c : Between(t, c) = Between(s, c) /\ InstanceIn(t, c) = InstanceIn(s, c)
      BY <1>1 DEF Between, InstanceIn
    <2> QED
      BY <1>1, <1>6, <2>1 DEF Good, Pending
  <1>8. Served(t) /\ Numbered(t.inst)
    <2>1. Served(t)
      BY <1>1, ZenonT(30) DEF Good, Served, InstanceIn
    <2>2. Numbered(t.inst)
      BY <1>1 DEF Good
    <2> QED
      BY <2>1, <2>2
  <1>9. Obeyed(t.journal, ctl) /\ Steered(t, ctl)
    BY <1>1 DEF Good, Steered, InstanceIn
  <1>10. Turning(t, sent)
    <2> SUFFICES ASSUME NEW u \in sent, t.nodes[u[1]] # None,
                        u[2] = t.nodes[u[1]].attempt, ~t.nodes[u[1]].paused
                 PROVE  t.actors[ActorOf[u[1]]].cur = u[1]
      BY <1>1, <1>6 DEF Good, Turning
    <2>1. s.actors[ActorOf[u[1]]].cur = u[1]
      BY <1>1 DEF Good, Turning
    <2>2. u[1] \in Calls
      BY DEF Good, Turning
    <2>3. ActorOf[u[1]] # a /\ ActorOf[u[1]] \in ActorSet
      BY <1>0, <2>1, <2>2, CallsAre, ConstantsAre
    <2> QED
      BY <1>1, <2>1, <2>3
  <1> QED
    BY <1>1, <1>5, <1>7, <1>8, <1>9, <1>10 DEF Good, t

\* Afterwards the actor could not start, and nobody could who could not before.
LEMMA PumpKeeps ==
    ASSUME NEW ctl, NEW sent, NEW s, Good(s, ctl, sent), NEW a \in ActorSet
    PROVE  LET t == Pump(s, a)
           IN  /\ Good(t, ctl, sent) /\ t.nodes = s.nodes /\ t.inst = s.inst /\ t.outcome = s.outcome
               /\ \A b \in ActorSet : /\ t.actors[b].held = s.actors[b].held
                                      /\ t.actors[b].fresh = s.actors[b].fresh
               /\ ~(Idle(t, a) /\ Room(t) > 0)
               /\ \A b \in ActorSet : Idle(t, b) /\ Room(t) > 0 => Idle(s, b) /\ Room(s) > 0
  <1> DEFINE t == Start(s, a)
  <1>1. CASE Idle(s, a) /\ Room(s) > 0
    <2>1. Good(t, ctl, sent)
      BY <1>1, StartKeeps
    <2>2. /\ t.nodes = s.nodes /\ t.active = s.active + 1 /\ t.inst = s.inst /\ t.outcome = s.outcome
          /\ \A b \in ActorSet \ {a} : t.actors[b] = s.actors[b]
          /\ t.actors[a].cur \in Calls
          /\ t.actors[a].held = s.actors[a].held /\ t.actors[a].fresh = s.actors[a].fresh
      BY <1>1, StartIs DEF Idle, Good
    <2>3. Pump(s, a) = t
      BY <1>1 DEF Pump
    <2> HIDE DEF t
    <2>4. ~Idle(t, a)
      BY <2>2, ConstantsAre DEF Idle
    <2>5. \A b \in ActorSet : Idle(t, b) /\ Room(t) > 0 => Idle(s, b) /\ Room(s) > 0
      BY <1>1, <2>2, <2>4 DEF Idle
    <2> QED
      BY <2>1, <2>2, <2>3, <2>4, <2>5
  <1>2. CASE ~(Idle(s, a) /\ Room(s) > 0)
    BY <1>2 DEF Pump
  <1> QED
    BY <1>1, <1>2

\* Each actor in turn: afterwards nobody could start.
LEMMA PumpAllKeeps ==
    ASSUME NEW ctl, NEW sent, NEW s, Good(s, ctl, sent)
    PROVE  LET t == PumpAll(s)
           IN  /\ Good(t, ctl, sent) /\ t.nodes = s.nodes /\ t.inst = s.inst /\ t.outcome = s.outcome
               /\ \A b \in ActorSet : /\ t.actors[b].held = s.actors[b].held
                                      /\ t.actors[b].fresh = s.actors[b].fresh
               /\ Pumped(t)
  <1> DEFINE N == Len(Actors)
             After1(n, t) ==
                /\ Good(t, ctl, sent) /\ t.nodes = s.nodes /\ t.inst = s.inst /\ t.outcome = s.outcome
                /\ \A b \in ActorSet : /\ t.actors[b].held = s.actors[b].held
                                       /\ t.actors[b].fresh = s.actors[b].fresh
                /\ \A i \in 1..n : ~(Idle(t, Actors[i]) /\ Room(t) > 0)
  <1>1. PICK f : /\ f = [i \in 0..N |-> IF i = 0 THEN {s} ELSE {Pump(t, Actors[i]) : t \in f[i - 1]}]
                 /\ PumpAll(s) = CHOOSE t \in f[N] : TRUE
    BY PumpRounds
  <1>2. N \in Nat /\ \A i \in 1..N : Actors[i] \in ActorSet
    BY SchedulerAssumption, LenProperties DEF ActorSet
  <1> HIDE DEF N
  <1> DEFINE K == {n \in Nat : n <= N => \E t : f[n] = {t} /\ After1(n, t)}
  <1>3. 0 \in K
    <2>1. f[0] = {s}
      BY <1>1, <1>2
    <2>2. After1(0, s)
      OBVIOUS
    <2> HIDE DEF After1
    <2> QED
      BY <2>1, <2>2
  <1>4. ASSUME NEW n \in K PROVE n + 1 \in K
    <2> SUFFICES ASSUME n + 1 <= N PROVE \E t : f[n + 1] = {t} /\ After1(n + 1, t)
      OBVIOUS
    <2>1. n <= N /\ n \in Nat
      BY <1>2
    <2>2. PICK t : f[n] = {t} /\ After1(n, t)
      BY <2>1
    <2> DEFINE a == Actors[n + 1]
               u == Pump(t, a)
    <2>3. f[n + 1] = {u}
      <3>1. n + 1 \in 0..N /\ n + 1 # 0 /\ (n + 1) - 1 = n
        BY <1>2, <2>1
      <3>2. f[n + 1] = {Pump(v, Actors[n + 1]) : v \in f[n]}
        BY <1>1, <3>1
      <3> QED
        BY <2>2, <3>2
    <2>4. a \in ActorSet
      BY <1>2, <2>1
    <2>5. /\ Good(u, ctl, sent) /\ u.nodes = t.nodes /\ u.inst = t.inst /\ u.outcome = t.outcome
          /\ \A b \in ActorSet : /\ u.actors[b].held = t.actors[b].held
                                 /\ u.actors[b].fresh = t.actors[b].fresh
          /\ ~(Idle(u, a) /\ Room(u) > 0)
          /\ \A b \in ActorSet : Idle(u, b) /\ Room(u) > 0 => Idle(t, b) /\ Room(t) > 0
      <3> HIDE DEF a
      <3> QED
        BY <2>2, <2>4, PumpKeeps
    <2> HIDE DEF u
    <2>6. ASSUME NEW i \in 1..(n + 1) PROVE ~(Idle(u, Actors[i]) /\ Room(u) > 0)
      <3>1. CASE i = n + 1
        BY <2>5, <3>1
      <3>2. CASE i # n + 1
        <4>1. i \in 1..n /\ i \in 1..N
          BY <1>2, <2>1, <3>2
        <4> QED
          BY <1>2, <2>2, <2>5, <4>1
      <3> QED
        BY <3>1, <3>2
    <2>7. After1(n + 1, u)
      BY <2>2, <2>5, <2>6
    <2> HIDE DEF After1
    <2> QED
      BY <2>3, <2>7
  <1>5. N \in K
    <2> HIDE DEF K
    <2>1. K \subseteq Nat
      BY DEF K
    <2>2. K = Nat
      BY <1>3, <1>4, <2>1, Induct
    <2> QED
      BY <1>2, <2>2
  <1>6. PICK t : f[N] = {t} /\ After1(N, t)
    BY <1>2, <1>5
  <1>7. PumpAll(s) = t
    BY <1>1, <1>6
  <1>8. \A a \in ActorSet : \E i \in 1..N : Actors[i] = a
    BY SchedulerAssumption, LenProperties DEF ActorSet, Range, N
  <1>9. Pumped(t)
    BY <1>6, <1>8 DEF Pumped
  <1> QED
    BY <1>6, <1>7, <1>9

\* The call is not waiting for its admission, or no more.
Limbo(s, c) ==
    /\ c \in Calls /\ Between(s, c)
    /\ \A a \in ActorSet :
          c \notin Range(s.actors[a].fresh) /\ \A h \in s.actors[a].held : h[2] # c

\* Two calls have two instances.
LEMMA Apart ==
    ASSUME NEW s, Numbered(s.inst), NEW c \in Calls, NEW d \in Calls, c # d,
           s.inst[c] # 0, s.inst[d] # 0
    PROVE  InstanceIn(s, c) # InstanceIn(s, d)
  <1> SUFFICES ASSUME SiteOf[c] = SiteOf[d], s.inst[c] = s.inst[d] PROVE FALSE
    BY DEF InstanceIn
  <1> QED
    BY DEF Numbered

\* The calls that wait for their admission are calls.
LEMMA PendingAre ==
    ASSUME NEW s \in Engine, NEW a \in ActorSet
    PROVE  /\ s.actors[a] \in Actor /\ s.actors[a].fresh \in Seq(Calls)
           /\ s.actors[a].queue \in Seq(Calls)
           /\ Range(s.actors[a].fresh) \subseteq Calls /\ Range(s.actors[a].queue) \subseteq Calls
           /\ \A h \in s.actors[a].held : h[2] \in Calls
           /\ s.actors[a].cur \in Calls \cup {None}
  <1>1. s.actors[a] \in Actor
    BY FieldsAre
  <1>2. s.actors[a].fresh \in Seq(Calls) /\ s.actors[a].queue \in Seq(Calls)
    BY <1>1 DEF Actor
  <1>3. Range(s.actors[a].fresh) \subseteq Calls /\ Range(s.actors[a].queue) \subseteq Calls
    BY <1>2, RangeOfSeq
  <1>4. (\A h \in s.actors[a].held : h[2] \in Calls) /\ s.actors[a].cur \in Calls \cup {None}
    BY <1>1 DEF Actor, Opt
  <1> QED
    BY <1>1, <1>2, <1>3, <1>4

\* Admission: the row, the node and the place in the queue go together.
LEMMA AdmitLiveKeeps ==
    ASSUME NEW ctl, NEW sent, NEW s, Good(s, ctl, sent), NEW c, Limbo(s, c),
           NEW seq \in Nat, NEW k \in Attempts, NEW p \in BOOLEAN,
           \A u \in sent : u[1] # c,
           ctl[InstanceIn(s, c)] # None =>
              ctl[InstanceIn(s, c)].attempt = k /\ ctl[InstanceIn(s, c)].paused = p
    PROVE  LET t == AdmitLive(s, c, seq, k, p)
           IN  /\ Good(t, ctl, sent) /\ t.active = s.active
               /\ \A b \in ActorSet \ {ActorOf[c]} : t.actors[b] = s.actors[b]
               /\ t.inst = s.inst
  <1> DEFINE t == AdmitLive(s, c, seq, k, p)
             a == ActorOf[c]
             i == InstanceIn(s, c)
             q == s.actors[a].queue
             node == NodeOf(seq, k, p)
             row == RowOf(c, seq, k)
  <1>0. s \in Engine /\ c \in Calls /\ Between(s, c) /\ s.inst[c] # 0 /\ a \in ActorSet
    BY CallsAre DEF Good, Limbo, Between
  <1>1. /\ t \in Engine /\ i \in Instances /\ node \in Node /\ row \in Row
        /\ t.nodes = [s.nodes EXCEPT ![c] = node]
        /\ t.journal = [s.journal EXCEPT ![i] = row]
        /\ t.active = s.active /\ t.inst = s.inst /\ t.outcome = s.outcome /\ t.ready = s.ready
        /\ \A b \in ActorSet \ {a} : t.actors[b] = s.actors[b]
        /\ t.actors[a].cur = s.actors[a].cur /\ t.actors[a].held = s.actors[a].held
        /\ t.actors[a].fresh = s.actors[a].fresh
        /\ t.actors[a].queue = IF p THEN q ELSE Append(q, c)
    <2>1. Admitted(s, c, seq, k, p, t)
      BY <1>0, AdmitLiveIs
    <2> HIDE DEF t
    <2> QED
      BY <1>0, <2>1 DEF Admitted
  <1>2. node # None /\ node.attempt = k /\ node.paused = p /\ row # None /\ row.status = "running"
    BY <1>1, ConstantsAre DEF NodeOf, RowOf
  <1> HIDE DEF t, node, row, i, q
  <1>3. t.nodes[c] = node /\ \A d \in Calls : d # c => t.nodes[d] = s.nodes[d]
    BY <1>0, <1>1, FieldsAre
  <1>4. t.journal[i] = row /\ \A j \in Instances : j # i => t.journal[j] = s.journal[j]
    BY <1>0, <1>1, FieldsAre
  <1>5. \A d : InstanceIn(t, d) = InstanceIn(s, d)
    BY <1>1 DEF InstanceIn
  <1>6. \A d \in Calls : d # c /\ s.inst[d] # 0 =>
            t.journal[InstanceIn(s, d)] = s.journal[InstanceIn(s, d)]
    <2> TAKE d \in Calls
    <2> HAVE d # c /\ s.inst[d] # 0
    <2>1. InstanceIn(s, d) # i
      BY <1>0, Apart DEF Good, i
    <2>2. InstanceIn(s, d) \in Instances
      BY <1>0, FieldsAre
    <2> QED
      BY <1>4, <2>1, <2>2
  <1>7. /\ ~Runs(s, c) /\ \A d \in Calls : d # c => Runs(t, d) = Runs(s, d)
        /\ Runs(t, c) = ~p
    BY <1>0, <1>2, <1>3 DEF Runs, Between
  <1>8. \A b \in ActorSet : /\ t.actors[b].fresh = s.actors[b].fresh
                            /\ t.actors[b].held = s.actors[b].held /\ t.actors[b].cur = s.actors[b].cur
    BY <1>1
  <1>9. \A b \in ActorSet : /\ c # s.actors[b].cur /\ c \notin Range(s.actors[b].queue)
                            /\ c \notin Range(s.actors[b].fresh)
                            /\ \A h \in s.actors[b].held : h[2] # c
    <2> TAKE b \in ActorSet
    <2>1. c # s.actors[b].cur /\ c \notin Range(s.actors[b].queue)
      BY <1>0, <1>7, ConstantsAre DEF Good, Placed
    <2> QED
      BY <2>1 DEF Limbo
  <1>10. /\ q \in Seq(Calls) /\ IsInjective(q)
         /\ Range(Append(q, c)) = Range(q) \cup {c} /\ IsInjective(Append(q, c))
    <2>1. q \in Seq(Calls) /\ IsInjective(q)
      BY <1>0, PendingAre DEF Good, Placed, q
    <2> QED
      BY <1>0, <1>9, <2>1, AppendFacts DEF q
  <1>11. Placed(t)
    <2>1. ASSUME NEW b \in ActorSet
          PROVE  /\ t.actors[b].cur # None =>
                      ActorOf[t.actors[b].cur] = b /\ Runs(t, t.actors[b].cur)
                 /\ IsInjective(t.actors[b].queue)
                 /\ \A d \in Range(t.actors[b].queue) :
                      ActorOf[d] = b /\ Runs(t, d) /\ d # t.actors[b].cur
      <3>1. /\ s.actors[b].cur # None =>
                 ActorOf[s.actors[b].cur] = b /\ Runs(s, s.actors[b].cur)
            /\ IsInjective(s.actors[b].queue)
            /\ \A d \in Range(s.actors[b].queue) :
                 ActorOf[d] = b /\ Runs(s, d) /\ d # s.actors[b].cur
        BY DEF Good, Placed
      <3>2. s.actors[b].cur \in Calls \cup {None} /\ Range(s.actors[b].queue) \subseteq Calls
        BY <1>0, PendingAre
      <3>3. t.actors[b].cur # None =>
                 ActorOf[t.actors[b].cur] = b /\ Runs(t, t.actors[b].cur)
        BY <1>7, <1>8, <1>9, <3>1, <3>2
      <3>4. \A d \in Range(s.actors[b].queue) :
                 ActorOf[d] = b /\ Runs(t, d) /\ d # t.actors[b].cur
        BY <1>7, <1>8, <1>9, <3>1, <3>2
      <3>5. CASE b = a /\ ~p
        <4>1. t.actors[b].queue = Append(q, c)
          BY <1>1, <3>5
        <4>2. \A d \in Range(Append(q, c)) : d \in Range(s.actors[b].queue) \/ d = c
          BY <1>10, <3>5 DEF q
        <4>3. Runs(t, c) /\ c # t.actors[b].cur /\ ActorOf[c] = b
          BY <1>7, <1>8, <1>9, <3>5
        <4> QED
          BY <1>10, <3>3, <3>4, <4>1, <4>2, <4>3
      <3>6. CASE b # a \/ p
        <4>1. t.actors[b].queue = s.actors[b].queue
          BY <1>1, <3>6 DEF q
        <4> QED
          BY <3>1, <3>3, <3>4, <4>1
      <3> QED
        BY <3>5, <3>6
    <2>2. ASSUME NEW d \in Calls, Runs(t, d)
          PROVE  d = t.actors[ActorOf[d]].cur \/ d \in Range(t.actors[ActorOf[d]].queue)
      <3>1. CASE d = c
        BY <1>1, <1>7, <1>10, <2>2, <3>1
      <3>2. CASE d # c
        <4>1. /\ d = s.actors[ActorOf[d]].cur \/ d \in Range(s.actors[ActorOf[d]].queue)
              /\ ActorOf[d] \in ActorSet
          BY <1>7, <2>2, <3>2, CallsAre DEF Good, Placed
        <4>2. Range(s.actors[ActorOf[d]].queue) \subseteq Range(t.actors[ActorOf[d]].queue)
          BY <1>1, <1>10, <4>1 DEF q
        <4> QED
          BY <1>8, <4>1, <4>2
      <3> QED
        BY <3>1, <3>2
    <2>3. t.active = Cardinality({b \in ActorSet : t.actors[b].cur # None})
      <3>1. {b \in ActorSet : t.actors[b].cur # None} = {b \in ActorSet : s.actors[b].cur # None}
        BY <1>8
      <3> QED
        BY <1>1, <3>1 DEF Good, Placed
    <2> QED
      BY <2>1, <2>2, <2>3 DEF Placed
  <1>12. Pending(t)
    <2>1. \A d \in Calls : d # c => Between(t, d) = Between(s, d)
      BY <1>1, <1>3 DEF Between
    <2> SUFFICES ASSUME NEW b \in ActorSet
                 PROVE  /\ IsInjective(t.actors[b].fresh)
                        /\ \A d \in Range(t.actors[b].fresh) :
                              ActorOf[d] = b /\ Between(t, d) /\ t.journal[InstanceIn(t, d)] = None
                        /\ \A h \in t.actors[b].held :
                              /\ ActorOf[h[2]] = b /\ Between(t, h[2])
                              /\ t.journal[InstanceIn(t, h[2])] # None
                              /\ \A g \in t.actors[b].held : g[2] = h[2] => g = h
      BY DEF Pending
    <2>2. /\ IsInjective(s.actors[b].fresh)
          /\ \A d \in Range(s.actors[b].fresh) :
                ActorOf[d] = b /\ Between(s, d) /\ s.journal[InstanceIn(s, d)] = None
          /\ \A h \in s.actors[b].held :
                /\ ActorOf[h[2]] = b /\ Between(s, h[2])
                /\ s.journal[InstanceIn(s, h[2])] # None
                /\ \A g \in s.actors[b].held : g[2] = h[2] => g = h
      BY DEF Good, Pending
    <2>3. /\ Range(s.actors[b].fresh) \subseteq Calls /\ \A h \in s.actors[b].held : h[2] \in Calls
      BY <1>0, PendingAre
    <2>4. \A d \in Range(s.actors[b].fresh) :
                ActorOf[d] = b /\ Between(t, d) /\ t.journal[InstanceIn(t, d)] = None
      BY <1>5, <1>6, <1>9, <2>1, <2>2, <2>3 DEF Between
    <2>5. \A h \in s.actors[b].held :
                ActorOf[h[2]] = b /\ Between(t, h[2]) /\ t.journal[InstanceIn(t, h[2])] # None
      BY <1>5, <1>6, <1>9, <2>1, <2>2, <2>3 DEF Between
    <2> QED
      BY <1>8, <2>2, <2>4, <2>5
  <1>13. Served(t)
    <2>1. ASSUME NEW d \in Calls, t.nodes[d] # None
          PROVE  /\ t.inst[d] # 0 /\ t.outcome[d] = None
                 /\ t.journal[InstanceIn(t, d)] # None
                 /\ t.journal[InstanceIn(t, d)].status = "running"
      <3>1. CASE d = c
        BY <1>0, <1>1, <1>2, <1>4, <1>5, <3>1 DEF Between, i
      <3>2. CASE d # c
        BY <1>1, <1>3, <1>5, <1>6, <2>1, <3>2 DEF Good, Served
      <3> QED
        BY <3>1, <3>2
    <2> QED
      BY <1>1, <2>1 DEF Good, Served
  <1>14. Obeyed(t.journal, ctl)
    <2> SUFFICES ASSUME NEW j \in Instances, ctl[j] # None
                 PROVE  /\ t.journal[j] # None
                        /\ ctl[j].paused => t.journal[j].status = "running"
                        /\ t.journal[j].status # "running" => t.journal[j].attempt = ctl[j].attempt
      BY DEF Obeyed
    <2>1. CASE j = i
      BY <1>2, <1>4, <2>1
    <2>2. CASE j # i
      BY <1>4, <2>2 DEF Good, Obeyed
    <2> QED
      BY <2>1, <2>2
  <1>15. Steered(t, ctl)
    <2> SUFFICES ASSUME NEW d \in Calls, t.nodes[d] # None, ctl[InstanceIn(t, d)] # None
                 PROVE  /\ ctl[InstanceIn(t, d)].attempt = t.nodes[d].attempt
                        /\ ctl[InstanceIn(t, d)].paused = t.nodes[d].paused
      BY DEF Steered
    <2>1. CASE d = c
      BY <1>2, <1>3, <1>5, <2>1
    <2>2. CASE d # c
      BY <1>3, <1>5, <2>2 DEF Good, Steered
    <2> QED
      BY <2>1, <2>2
  <1>16. Turning(t, sent)
    <2> SUFFICES ASSUME NEW u \in sent
                 PROVE  /\ u \in Calls \X Attempts /\ t.inst[u[1]] # 0
                        /\ \A b \in ActorSet : u[1] \notin Range(t.actors[b].fresh)
                                              /\ \A h \in t.actors[b].held : h[2] # u[1]
                        /\ t.nodes[u[1]] # None =>
                              /\ u[2] <= t.nodes[u[1]].attempt
                              /\ u[2] = t.nodes[u[1]].attempt /\ ~t.nodes[u[1]].paused =>
                                    t.actors[ActorOf[u[1]]].cur = u[1]
      BY DEF Turning
    <2>1. u \in Calls \X Attempts /\ u[1] \in Calls /\ u[1] # c
      BY DEF Good, Turning
    <2>2. t.nodes[u[1]] = s.nodes[u[1]] /\ ActorOf[u[1]] \in ActorSet
      BY <1>3, <2>1, CallsAre
    <2> QED
      BY <1>1, <1>8, <2>1, <2>2 DEF Good, Turning
  <1> QED
    BY <1>1, <1>11, <1>12, <1>13, <1>14, <1>15, <1>16 DEF Good, t, a

\* An answer: the calls that waited for nothing else are asked for.
LEMMA DeliverKeeps ==
    ASSUME NEW ctl, NEW sent, NEW s, Good(s, ctl, sent), NEW c, Limbo(s, c), NEW answer \in Answers
    PROVE  LET t == Deliver(s, c, answer)
           IN  /\ Good(t, ctl, sent) /\ t.active = s.active
               /\ t.actors = s.actors /\ t.inst = s.inst
  <1> DEFINE t == Deliver(s, c, answer)
             new == Among(Script, Woken(s, c))
  <1>0. s \in Engine /\ c \in Calls /\ s.inst[c] # 0 /\ s.nodes[c] = None /\ s.outcome[c] = None
    BY DEF Good, Limbo, Between
  <1>1. /\ t \in Engine /\ t.nodes = s.nodes /\ t.journal = s.journal /\ t.actors = s.actors
        /\ t.active = s.active /\ t.inst = s.inst
        /\ t.outcome = [s.outcome EXCEPT ![c] = answer]
        /\ t.ready = s.ready \o new /\ new \in Seq(Calls) /\ IsInjective(new)
        /\ Range(new) = Woken(s, c)
    BY <1>0, DeliverIs
  <1> HIDE DEF t, new
  <1>2. t.outcome[c] # None /\ \A d \in Calls : d # c => t.outcome[d] = s.outcome[d]
    BY <1>0, <1>1, FieldsAre, ConstantsAre
  <1>3. \A d : InstanceIn(t, d) = InstanceIn(s, d)
    BY <1>1 DEF InstanceIn
  <1>4. Placed(t)
    BY <1>1 DEF Good, Placed, Runs
  <1>5. Pending(t)
    <2>1. \A d \in Calls : d # c => Between(t, d) = Between(s, d)
      BY <1>1, <1>2 DEF Between
    <2>2. ASSUME NEW b \in ActorSet
          PROVE  /\ \A d \in Range(s.actors[b].fresh) : d \in Calls /\ d # c
                 /\ \A h \in s.actors[b].held : h[2] \in Calls /\ h[2] # c
      BY <1>0, PendingAre DEF Limbo
    <2> QED
      BY <1>1, <1>3, <2>1, <2>2 DEF Good, Pending
  <1>6. Served(t)
    <2>1. \A d \in Calls : t.nodes[d] # None =>
            /\ t.inst[d] # 0 /\ t.outcome[d] = None
            /\ t.journal[InstanceIn(t, d)] # None
            /\ t.journal[InstanceIn(t, d)].status = "running"
      BY <1>0, <1>1, <1>2, <1>3 DEF Good, Served
    <2>2. \A d \in Calls : t.outcome[d] # None => t.inst[d] # 0
      BY <1>0, <1>1, <1>2 DEF Good, Served
    <2>3. s.ready \in Seq(Calls) /\ IsInjective(s.ready) /\ \A d \in Range(s.ready) : s.inst[d] = 0
      BY <1>0, FieldsAre DEF Good, Served
    <2>4. \A d \in Calls : After[d] \subseteq Calls
      BY ScriptAssumption
    <2>5. \A d \in Woken(s, c) : /\ d \in Calls /\ d \notin Range(s.ready) /\ s.inst[d] = 0
                                /\ \A p \in After[d] : t.outcome[p] # None
      <3>1. \A d \in Woken(s, c) : d \in Calls /\ c \in After[d]
                                  /\ \A p \in After[d] : p = c \/ s.outcome[p] # None
        BY DEF Woken
      <3> QED
        BY <1>0, <1>2, <2>4, <3>1 DEF Good, Served
    <2>6. Range(t.ready) = Range(s.ready) \cup Woken(s, c) /\ IsInjective(t.ready)
      <3>1. Range(s.ready) \cap Range(new) = {}
        BY <1>1, <2>5
      <3> QED
        BY <1>1, <2>3, <3>1, ConcatFacts
    <2>7. \A d \in Calls : t.inst[d] # 0 \/ d \in Range(t.ready) =>
              \A p \in After[d] : t.outcome[p] # None
      BY <1>1, <1>2, <2>4, <2>5, <2>6 DEF Good, Served
    <2> QED
      BY <1>1, <2>1, <2>2, <2>3, <2>5, <2>6, <2>7 DEF Served
  <1>7. Numbered(t.inst) /\ Obeyed(t.journal, ctl)
    BY <1>1 DEF Good
  <1>8. Steered(t, ctl)
    BY <1>1, <1>3 DEF Good, Steered
  <1>9. Turning(t, sent)
    BY <1>1 DEF Good, Turning
  <1> QED
    BY <1>1, <1>4, <1>5, <1>6, <1>7, <1>8, <1>9 DEF Good, t

\* What an actor holds back is finite: a call waits once.
LEMMA HeldIsFinite ==
    ASSUME NEW s \in Engine, Pending(s), NEW a \in ActorSet
    PROVE  Cardinality(s.actors[a].held) + Len(s.actors[a].fresh) \in Nat
  <1> DEFINE H == s.actors[a].held
             f == [h \in H |-> h[2]]
  <1>1. \A h \in H : h[2] \in Calls
    BY PendingAre
  <1>2. \A g, h \in H : g[2] = h[2] => g = h
    BY DEF Pending
  <1> HIDE DEF H
  <1>3. f \in Injection(H, Calls)
    BY <1>1, <1>2 DEF Injection, IsInjective
  <1>4. Cardinality(H) \in Nat
    <2>1. IsFiniteSet(H)
      <3> HIDE DEF f
      <3> QED
        BY <1>3, ScriptAssumption, FS_Injection
    <2> QED
      BY <2>1, FS_CardinalityType
  <1>5. Len(s.actors[a].fresh) \in Nat
    BY PendingAre, LenProperties
  <1> QED
    BY <1>4, <1>5 DEF H

\* The call c is no longer among those that wait for their admission at actor a.
Leaves(s, a, c, u) ==
    /\ u \in Engine
    /\ u.nodes = s.nodes /\ u.active = s.active /\ u.inst = s.inst /\ u.journal = s.journal
    /\ u.outcome = s.outcome /\ u.ready = s.ready
    /\ \A b \in ActorSet \ {a} : u.actors[b] = s.actors[b]
    /\ u.actors[a].cur = s.actors[a].cur /\ u.actors[a].queue = s.actors[a].queue
    /\ \/ /\ u.actors[a].fresh = s.actors[a].fresh
          /\ \E h \in s.actors[a].held : h[2] = c /\ u.actors[a].held = s.actors[a].held \ {h}
       \/ /\ u.actors[a].held = s.actors[a].held
          /\ s.actors[a].fresh # <<>> /\ c = Head(s.actors[a].fresh)
          /\ u.actors[a].fresh = Tail(s.actors[a].fresh)

LEMMA LeavesKeeps ==
    ASSUME NEW ctl, NEW sent, NEW s, Good(s, ctl, sent), NEW a \in ActorSet, NEW c, NEW u,
           Leaves(s, a, c, u)
    PROVE  /\ Good(u, ctl, sent) /\ Limbo(u, c) /\ ActorOf[c] = a
           /\ \A x \in sent : x[1] # c
  <1> DEFINE r == s.actors[a]
             v == u.actors[a]
  <1>1. /\ u \in Engine /\ s \in Engine
        /\ u.nodes = s.nodes /\ u.active = s.active /\ u.inst = s.inst /\ u.journal = s.journal
        /\ u.outcome = s.outcome /\ u.ready = s.ready
        /\ \A b \in ActorSet \ {a} : u.actors[b] = s.actors[b]
        /\ v.cur = r.cur /\ v.queue = r.queue
    BY DEF Good, Leaves
  <1>2. /\ \A b : Runs(u, b) = Runs(s, b) /\ Between(u, b) = Between(s, b)
                  /\ InstanceIn(u, b) = InstanceIn(s, b)
    BY <1>1 DEF Runs, Between, InstanceIn
  <1>3. \A b \in ActorSet :
           /\ IsInjective(s.actors[b].fresh)
           /\ \A d \in Range(s.actors[b].fresh) :
                 ActorOf[d] = b /\ Between(s, d) /\ s.journal[InstanceIn(s, d)] = None
           /\ \A h \in s.actors[b].held :
                 /\ ActorOf[h[2]] = b /\ Between(s, h[2]) /\ s.journal[InstanceIn(s, h[2])] # None
                 /\ \A g \in s.actors[b].held : g[2] = h[2] => g = h
    BY DEF Good, Pending
  <1>4. r.fresh \in Seq(Calls)
    BY <1>1, PendingAre
  <1> HIDE DEF r, v
  <1>5. /\ v.held \subseteq r.held /\ Range(v.fresh) \subseteq Range(r.fresh) /\ IsInjective(v.fresh)
        /\ c \in Calls /\ ActorOf[c] = a /\ Between(s, c)
        /\ c \notin Range(v.fresh) /\ \A h \in v.held : h[2] # c
        /\ c \in Range(r.fresh) \/ \E h \in r.held : h[2] = c
    <2>1. /\ IsInjective(r.fresh)
          /\ \A d \in Range(r.fresh) :
                d \in Calls /\ ActorOf[d] = a /\ Between(s, d) /\ s.journal[InstanceIn(s, d)] = None
          /\ \A h \in r.held :
                /\ h[2] \in Calls
                /\ ActorOf[h[2]] = a /\ Between(s, h[2]) /\ s.journal[InstanceIn(s, h[2])] # None
                /\ \A g \in r.held : g[2] = h[2] => g = h
      BY <1>1, <1>3, PendingAre DEF r
    <2>2. CASE v.fresh = r.fresh /\ \E h \in r.held : h[2] = c /\ v.held = r.held \ {h}
      <3>1. PICK h \in r.held : h[2] = c /\ v.held = r.held \ {h}
        BY <2>2
      <3>2. c \notin Range(r.fresh)
        BY <2>1, <3>1
      <3>3. \A g \in v.held : g[2] # c
        BY <2>1, <3>1
      <3> QED
        BY <2>1, <2>2, <3>1, <3>2, <3>3
    <2>3. CASE v.held = r.held /\ r.fresh # <<>> /\ c = Head(r.fresh) /\ v.fresh = Tail(r.fresh)
      <3>1. /\ Range(r.fresh) = Range(v.fresh) \cup {c} /\ IsInjective(v.fresh)
            /\ c \notin Range(v.fresh)
        BY <1>4, <2>1, <2>3, TailFacts
      <3>2. \A h \in r.held : h[2] # c
        BY <2>1, <3>1
      <3> QED
        BY <2>1, <2>3, <3>1, <3>2
    <2> QED
      BY <2>2, <2>3 DEF Leaves, r, v
  <1>6. \A b \in ActorSet \ {a} : c \notin Range(u.actors[b].fresh)
                                  /\ \A h \in u.actors[b].held : h[2] # c
    BY <1>1, <1>3, <1>5
  <1>7. Limbo(u, c)
    BY <1>2, <1>5, <1>6 DEF Limbo, v
  <1>8. Placed(u)
    <2>1. \A b \in ActorSet : u.actors[b].cur = s.actors[b].cur /\ u.actors[b].queue = s.actors[b].queue
      BY <1>1 DEF r, v
    <2>2. \A b : Runs(u, b) = Runs(s, b)
      BY <1>2
    <2>3. {b \in ActorSet : u.actors[b].cur # None} = {b \in ActorSet : s.actors[b].cur # None}
      BY <2>1
    <2>4. Placed(s) /\ u.active = s.active
      BY <1>1 DEF Good
    <2>5. u.active = Cardinality({b \in ActorSet : u.actors[b].cur # None})
      BY <2>3, <2>4 DEF Placed
    <2>6. \A d \in Calls : Runs(u, d) =>
             d = u.actors[ActorOf[d]].cur \/ d \in Range(u.actors[ActorOf[d]].queue)
      BY <2>1, <2>2, <2>4, CallsAre DEF Placed
    <2>7. ASSUME NEW b \in ActorSet
          PROVE  /\ u.actors[b].cur # None =>
                      ActorOf[u.actors[b].cur] = b /\ Runs(u, u.actors[b].cur)
                 /\ IsInjective(u.actors[b].queue)
                 /\ \A d \in Range(u.actors[b].queue) :
                      ActorOf[d] = b /\ Runs(u, d) /\ d # u.actors[b].cur
      BY <2>1, <2>2, <2>4 DEF Placed
    <2> QED
      BY <2>5, <2>6, <2>7 DEF Placed
  <1>9. \A b \in ActorSet : /\ u.actors[b].held \subseteq s.actors[b].held
                            /\ Range(u.actors[b].fresh) \subseteq Range(s.actors[b].fresh)
                            /\ IsInjective(u.actors[b].fresh)
    BY <1>1, <1>3, <1>5 DEF r, v
  <1>10. Pending(u)
    BY <1>1, <1>2, <1>3, <1>9 DEF Pending
  <1>11. Served(u) /\ Steered(u, ctl)
    BY <1>1, <1>2 DEF Good, Served, Steered
  <1>12. Turning(u, sent)
    <2>1. \A x \in sent : ActorOf[x[1]] \in ActorSet
      BY CallsAre DEF Good, Turning
    <2>2. \A b \in ActorSet : u.actors[b].cur = s.actors[b].cur
      BY <1>1 DEF r, v
    <2> QED
      BY <1>1, <1>9, <2>1, <2>2 DEF Good, Turning
  <1>13. \A x \in sent : x[1] # c
    BY <1>5 DEF Good, Turning, r
  <1> QED
    BY <1>1, <1>5, <1>7, <1>8, <1>10, <1>11, <1>12, <1>13 DEF Good

\* A recorded call that comes to its turn is told again or run again.
LEMMA ReleaseKeeps ==
    ASSUME NEW sent, NEW s, Good(s, control, sent), control \in [Instances -> Opt(Control)],
           NEW c, Limbo(s, c), \A x \in sent : x[1] # c,
           s.journal[InstanceIn(s, c)] # None
    PROVE  LET t == Release(s, c)
           IN  /\ Good(t, control, sent) /\ t.active = s.active
               /\ \A b \in ActorSet \ {ActorOf[c]} : t.actors[b] = s.actors[b]
               /\ t.inst = s.inst
  <1> DEFINE row == s.journal[InstanceIn(s, c)]
             saved == control[InstanceIn(s, c)]
             k == IF saved = None THEN 1 ELSE saved.attempt
             p == saved # None /\ saved.paused
             answer == [by |-> row.by, ok |-> row.status = "completed"]
             t == Release(s, c)
  <1>1. s \in Engine /\ c \in Calls /\ s.inst[c] # 0 /\ InstanceIn(s, c) \in Instances
    BY FieldsAre DEF Good, Limbo, Between
  <1>2. row \in Row
    BY <1>1, FieldsAre DEF Opt
  <1>3. saved \in Opt(Control)
    BY <1>1
  <1>4. k \in Attempts /\ p \in BOOLEAN /\ (saved # None => saved.attempt = k /\ saved.paused = p)
    <2> HIDE DEF saved
    <2> QED
      BY <1>3, ConstantsAre DEF Opt, Control
  <1>5. row.seq \in Nat /\ row.by \in Calls
    <2> HIDE DEF row
    <2> QED
      BY <1>2 DEF Row
  <1>6. answer \in Answers
    BY <1>5 DEF Answers
  <1>7. CASE row.status = "running"
    <2>1. t = AdmitLive(s, c, row.seq, k, p)
      BY <1>7 DEF Release
    <2> HIDE DEF row, k, p
    <2>2. LET u == AdmitLive(s, c, row.seq, k, p)
          IN  /\ Good(u, control, sent) /\ u.active = s.active
              /\ \A b \in ActorSet \ {ActorOf[c]} : u.actors[b] = s.actors[b]
              /\ u.inst = s.inst
      BY <1>4, <1>5, AdmitLiveKeeps
    <2> QED
      BY <2>1, <2>2
  <1>8. CASE row.status # "running"
    <2>1. t = Deliver(s, c, answer)
      BY <1>8 DEF Release
    <2> HIDE DEF answer
    <2> QED
      BY <1>6, <2>1, DeliverKeeps
  <1> QED
    BY <1>7, <1>8

\* One round admits a call of the actor and touches no other actor.
LEMMA AdmitNextKeeps ==
    ASSUME NEW sent, NEW s, Good(s, control, sent), control \in [Instances -> Opt(Control)],
           NEW a \in ActorSet
    PROVE  LET t == AdmitNext(s, a)
           IN  /\ Good(t, control, sent) /\ t.active = s.active
               /\ \A b \in ActorSet \ {a} : t.actors[b] = s.actors[b]
               /\ t.inst = s.inst
  <1> DEFINE r == s.actors[a]
             due == {c \in Calls : <<r.next, c>> \in r.held}
             r1 == [r EXCEPT !.next = r.next + 1]
             t == [s EXCEPT !.actors = [s.actors EXCEPT ![a] = r1]]
  <1>1. s \in Engine /\ r \in Actor
    BY FieldsAre DEF Good
  <1>2. /\ r1 \in Actor /\ r1.held = r.held /\ r1.fresh = r.fresh /\ r1.cur = r.cur
        /\ r1.queue = r.queue
    <2> HIDE DEF r
    <2> QED
      BY <1>1 DEF Actor
  <1>3. /\ t \in Engine /\ t.actors = [s.actors EXCEPT ![a] = r1] /\ t.actors[a] = r1
        /\ \A b \in ActorSet \ {a} : t.actors[b] = s.actors[b]
        /\ t.nodes = s.nodes /\ t.active = s.active /\ t.inst = s.inst /\ t.journal = s.journal
        /\ t.outcome = s.outcome /\ t.ready = s.ready
    <2> HIDE DEF r1
    <2>1. [s.actors EXCEPT ![a] = r1] \in [ActorSet -> Actor]
      BY <1>1, <1>2, FieldsAre
    <2> QED
      BY <1>1, <2>1, FieldsAre DEF Engine
  <1>4. [s EXCEPT !.actors[a].next = @ + 1] = t
    OBVIOUS
  <1>5. CASE due # {}
    <2> DEFINE c == CHOOSE x \in due : TRUE
               h == <<r.next, c>>
               r2 == [r1 EXCEPT !.held = r1.held \ {h}]
               u == [t EXCEPT !.actors = [t.actors EXCEPT ![a] = r2]]
    <2>1. c \in Calls /\ h \in r.held /\ h[2] = c
      BY <1>5
    <2>2. AdmitNext(s, a) = Release(u, c)
      <3>1. AdmitNext(s, a) = Release([[s EXCEPT !.actors[a].next = @ + 1] EXCEPT !.actors[a].held = @ \ {h}], c)
        BY <1>5 DEF AdmitNext
      <3>2. u = [t EXCEPT !.actors[a].held = @ \ {h}]
        <4> HIDE DEF t, h
        <4> QED
          BY <1>3
      <3> QED
        BY <1>4, <3>1, <3>2
    <2> HIDE DEF t, r1, c, h
    <2>3. r2 \in Actor /\ r2.held = r.held \ {h} /\ r2.fresh = r.fresh /\ r2.cur = r.cur /\ r2.queue = r.queue
      <3> HIDE DEF r
      <3> QED
        BY <1>2 DEF Actor
    <2>4. Leaves(s, a, c, u)
      <3> HIDE DEF r2
      <3>1. [t.actors EXCEPT ![a] = r2] \in [ActorSet -> Actor]
        BY <1>3, <2>3, FieldsAre
      <3>2. /\ u \in Engine /\ u.actors = [t.actors EXCEPT ![a] = r2]
            /\ u.nodes = s.nodes /\ u.active = s.active /\ u.inst = s.inst /\ u.journal = s.journal
            /\ u.outcome = s.outcome /\ u.ready = s.ready
        BY <1>3, <3>1 DEF Engine
      <3>3. u.actors[a] = r2 /\ \A b \in ActorSet \ {a} : u.actors[b] = s.actors[b]
        BY <1>3, <3>2, FieldsAre
      <3> HIDE DEF u
      <3> QED
        BY <2>1, <2>3, <3>2, <3>3 DEF Leaves
    <2>5. u.active = s.active /\ u.inst = s.inst /\ u.journal = s.journal
          /\ \A b \in ActorSet \ {a} : u.actors[b] = s.actors[b]
      BY <2>4 DEF Leaves
    <2> HIDE DEF u
    <2>6. /\ Good(u, control, sent) /\ Limbo(u, c) /\ ActorOf[c] = a
          /\ \A x \in sent : x[1] # c
      BY <2>4, LeavesKeeps
    <2>7. u.journal[InstanceIn(u, c)] # None
      BY <2>1, <2>5 DEF Good, Pending, InstanceIn
    <2> QED
      BY <2>2, <2>5, <2>6, <2>7, ReleaseKeeps
  <1>6. CASE due = {} /\ r.next >= r.recorded /\ r.fresh # <<>>
    <2> DEFINE c == Head(r.fresh)
               r2 == [r1 EXCEPT !.fresh = Tail(r1.fresh)]
               u == [t EXCEPT !.actors = [t.actors EXCEPT ![a] = r2]]
    <2>1. AdmitNext(s, a) = AdmitLive(u, c, r.next, 1, FALSE)
      <3>1. AdmitNext(s, a) = AdmitLive([[s EXCEPT !.actors[a].next = @ + 1] EXCEPT !.actors[a].fresh = Tail(@)],
                                        c, r.next, 1, FALSE)
        BY <1>6 DEF AdmitNext
      <3>2. u = [t EXCEPT !.actors[a].fresh = Tail(@)]
        <4> HIDE DEF t
        <4> QED
          BY <1>3
      <3> QED
        BY <1>4, <3>1, <3>2
    <2>2. r.fresh \in Seq(Calls)
      BY <1>1, PendingAre
    <2>3. /\ Tail(r.fresh) \in Seq(Calls) /\ c \in Calls /\ c \in Range(r.fresh)
      BY <1>6, <2>2, TailFacts
    <2> HIDE DEF t, r1, c
    <2>4. r2 \in Actor /\ r2.fresh = Tail(r.fresh) /\ r2.held = r.held /\ r2.cur = r.cur
          /\ r2.queue = r.queue
      <3> HIDE DEF r
      <3> QED
        BY <1>2, <2>3 DEF Actor
    <2>5. Leaves(s, a, c, u)
      <3> HIDE DEF r2
      <3>1. [t.actors EXCEPT ![a] = r2] \in [ActorSet -> Actor]
        BY <1>3, <2>4, FieldsAre
      <3>2. /\ u \in Engine /\ u.actors = [t.actors EXCEPT ![a] = r2]
            /\ u.nodes = s.nodes /\ u.active = s.active /\ u.inst = s.inst /\ u.journal = s.journal
            /\ u.outcome = s.outcome /\ u.ready = s.ready
        BY <1>3, <3>1 DEF Engine
      <3>3. u.actors[a] = r2 /\ \A b \in ActorSet \ {a} : u.actors[b] = s.actors[b]
        BY <1>3, <3>2, FieldsAre
      <3> HIDE DEF u
      <3> QED
        BY <1>6, <2>4, <3>2, <3>3 DEF Leaves, c
    <2>6. u.active = s.active /\ u.inst = s.inst /\ u.journal = s.journal /\ u \in Engine
          /\ \A b \in ActorSet \ {a} : u.actors[b] = s.actors[b]
      BY <2>5 DEF Leaves
    <2> HIDE DEF u
    <2>7. /\ Good(u, control, sent) /\ Limbo(u, c) /\ ActorOf[c] = a
          /\ \A x \in sent : x[1] # c
      BY <2>5, LeavesKeeps
    <2>8. control[InstanceIn(u, c)] = None
      <3>1. u.journal[InstanceIn(u, c)] = None
        BY <2>3, <2>6 DEF Good, Pending, InstanceIn
      <3>2. InstanceIn(u, c) \in Instances
        BY <2>3, <2>6, <2>7, FieldsAre DEF Limbo, Between
      <3> QED
        BY <2>7, <3>1, <3>2 DEF Good, Obeyed
    <2>9. r.next \in Nat /\ 1 \in Attempts /\ FALSE \in BOOLEAN
      <3> HIDE DEF r
      <3> QED
        BY <1>1, ConstantsAre DEF Actor
    <2> DEFINE p == FALSE
    <2>10. AdmitNext(s, a) = AdmitLive(u, c, r.next, 1, p) /\ p \in BOOLEAN
      BY <2>1
    <2> HIDE DEF r, p
    <2> QED
      BY <2>6, <2>7, <2>8, <2>9, <2>10, AdmitLiveKeeps
  <1>7. CASE due = {} /\ ~(r.next >= r.recorded /\ r.fresh # <<>>)
    <2>1. AdmitNext(s, a) = s
      BY <1>7 DEF AdmitNext
    <2> QED
      BY <2>1
  <1> QED
    BY <1>5, <1>6, <1>7

\* The rounds of drainAdmission, and that its recursion has a solution.
DrainRound(s, a, most) ==
    LET Rounds[i \in 0..most] ==
            IF i = 0 THEN {s} ELSE {AdmitNext(t, a) : t \in Rounds[i - 1]}
    IN  Rounds

LEMMA DrainRounds ==
    ASSUME NEW s, NEW a, NEW most \in Nat
    PROVE  \E f : /\ f = [i \in 0..most |->
                             IF i = 0 THEN {s} ELSE {AdmitNext(t, a) : t \in f[i - 1]}]
                  /\ most = Cardinality(s.actors[a].held) + Len(s.actors[a].fresh) =>
                       DrainAdmission(s, a) = Pump(CHOOSE t \in f[most] : TRUE, a)
  <1> DEFINE Rec(f, n) == f = [i \in 0..n |-> IF i = 0 THEN {s} ELSE {AdmitNext(t, a) : t \in f[i - 1]}]
             T == {n \in Nat : \E f : Rec(f, n)}
  <1>1. 0 \in T
    <2> DEFINE g == [i \in 0..0 |-> {s}]
    <2>1. Rec(g, 0)
      OBVIOUS
    <2> HIDE DEF g, Rec
    <2> QED
      BY <2>1
  <1>2. ASSUME NEW n \in T PROVE n + 1 \in T
    <2>1. PICK f : Rec(f, n)
      OBVIOUS
    <2> DEFINE g == [i \in 0..(n + 1) |-> IF i = n + 1 THEN {AdmitNext(t, a) : t \in f[n]} ELSE f[i]]
    <2>2. ASSUME NEW i \in 0..(n+1)
          PROVE  g[i] = IF i = 0 THEN {s} ELSE {AdmitNext(t, a) : t \in g[i - 1]}
      <3>1. CASE i = n + 1
        <4>1. g[n] = f[n] /\ i - 1 = n
          BY <3>1
        <4> QED
          BY <3>1, <4>1
      <3>2. CASE i \in 0..n
        <4>1. g[i] = f[i] /\ (i # 0 => g[i - 1] = f[i - 1])
          BY <3>2
        <4> HIDE DEF g
        <4> QED
          BY <2>1, <3>2, <4>1
      <3> QED
        BY <3>1, <3>2
    <2>3. g = [i \in 0..(n + 1) |-> g[i]]
      OBVIOUS
    <2>4. Rec(g, n + 1)
      <3> HIDE DEF g
      <3> QED
        BY <2>2, <2>3
    <2> HIDE DEF g, Rec
    <2> QED
      BY <2>4
  <1>3. T = Nat
    <2> HIDE DEF T
    <2>1. T \subseteq Nat BY DEF T
    <2> QED BY <1>1, <1>2, <2>1, Induct
  <1>5. \E f : Rec(f, most)
    <2> HIDE DEF Rec
    <2> QED
      BY <1>3
  <1>6. Rec(DrainRound(s, a, most), most)
    BY <1>5, Zenon DEF DrainRound
  <1>7. most = Cardinality(s.actors[a].held) + Len(s.actors[a].fresh) =>
           DrainAdmission(s, a) = Pump(CHOOSE t \in DrainRound(s, a, most)[most] : TRUE, a)
    BY DEF DrainAdmission, DrainRound
  <1> QED
    BY <1>6, <1>7

\* Everybody but actor a is pumped.
PumpedBut(s, a) == \A b \in ActorSet \ {a} : ~(Idle(s, b) /\ Room(s) > 0)

\* The calls whose turn it is are admitted, and the actor pumped.
LEMMA DrainKeeps ==
    ASSUME NEW sent, NEW s, Good(s, control, sent), control \in [Instances -> Opt(Control)],
           NEW a \in ActorSet, PumpedBut(s, a)
    PROVE  LET t == DrainAdmission(s, a)
           IN  Good(t, control, sent) /\ Pumped(t) /\ t.inst = s.inst
  <1> DEFINE N == Cardinality(s.actors[a].held) + Len(s.actors[a].fresh)
             Same(t) ==
                /\ Good(t, control, sent) /\ t.active = s.active
                /\ \A b \in ActorSet \ {a} : t.actors[b] = s.actors[b]
                /\ t.inst = s.inst
  <1>0. N \in Nat
    BY HeldIsFinite DEF Good
  <1>1. PICK f : /\ f = [i \in 0..N |-> IF i = 0 THEN {s} ELSE {AdmitNext(t, a) : t \in f[i - 1]}]
                 /\ DrainAdmission(s, a) = Pump(CHOOSE t \in f[N] : TRUE, a)
    BY <1>0, DrainRounds, ZenonT(30)
  <1> HIDE DEF N
  <1> DEFINE K == {n \in Nat : n <= N => \E t : f[n] = {t} /\ Same(t)}
  <1>3. 0 \in K
    <2>1. f[0] = {s}
      BY <1>0, <1>1
    <2>2. Same(s)
      OBVIOUS
    <2> HIDE DEF Same
    <2> QED
      BY <2>1, <2>2
  <1>4. ASSUME NEW n \in K PROVE n + 1 \in K
    <2> SUFFICES ASSUME n + 1 <= N PROVE \E t : f[n + 1] = {t} /\ Same(t)
      OBVIOUS
    <2>1. n <= N /\ n \in Nat
      BY <1>0
    <2>2. PICK t : f[n] = {t} /\ Same(t)
      BY <2>1
    <2> DEFINE u == AdmitNext(t, a)
    <2>3. f[n + 1] = {u}
      <3>1. n + 1 \in 0..N /\ n + 1 # 0 /\ (n + 1) - 1 = n
        BY <1>0, <2>1
      <3>2. f[n + 1] = {AdmitNext(v, a) : v \in f[n]}
        BY <1>1, <3>1
      <3> QED
        BY <2>2, <3>2
    <2>4. /\ Good(u, control, sent) /\ u.active = t.active
          /\ \A b \in ActorSet \ {a} : u.actors[b] = t.actors[b]
          /\ u.inst = t.inst
      BY <2>2, AdmitNextKeeps
    <2> HIDE DEF u
    <2>5. Same(u)
      BY <2>2, <2>4
    <2> HIDE DEF Same
    <2> QED
      BY <2>3, <2>5
  <1>5. N \in K
    <2> HIDE DEF K
    <2>1. K \subseteq Nat
      BY DEF K
    <2>2. K = Nat
      BY <1>3, <1>4, <2>1, Induct
    <2> QED
      BY <1>0, <2>2
  <1>6. PICK t : f[N] = {t} /\ Same(t)
    BY <1>0, <1>5
  <1> DEFINE u == Pump(t, a)
  <1>7. DrainAdmission(s, a) = u
    BY <1>1, <1>6
  <1>8. /\ Good(u, control, sent) /\ u.inst = t.inst
        /\ ~(Idle(u, a) /\ Room(u) > 0)
        /\ \A b \in ActorSet : Idle(u, b) /\ Room(u) > 0 => Idle(t, b) /\ Room(t) > 0
    BY <1>6, PumpKeeps
  <1>9. \A b \in ActorSet \ {a} : Idle(t, b) = Idle(s, b) /\ Room(t) = Room(s)
    BY <1>6 DEF Idle, Room
  <1> HIDE DEF u
  <1>10. Pumped(u)
    BY <1>8, <1>9 DEF Pumped, PumpedBut
  <1> QED
    BY <1>6, <1>7, <1>8, <1>10

\* The current ask of an actor is settled on its attempt k: the node, the slot and
\* the row.
Freed(s, c, k, good) ==
    [s EXCEPT !.journal[InstanceIn(s, c)] = Ended(@, k, good), !.nodes[c] = None,
              !.actors[ActorOf[c]].cur = IF @ = c THEN None ELSE @,
              !.active = IF s.actors[ActorOf[c]].cur = c THEN @ - 1 ELSE @]

IsFreed(s, c, k, u) ==
    LET a == ActorOf[c]
        i == InstanceIn(s, c)
    IN  /\ u \in Engine /\ i \in Instances /\ a \in ActorSet
        /\ u.nodes = [s.nodes EXCEPT ![c] = None]
        /\ \A j \in Instances : j # i => u.journal[j] = s.journal[j]
        /\ u.journal[i] # None /\ u.journal[i].attempt = k /\ u.journal[i].status # "running"
        /\ u.active = s.active - 1
        /\ u.inst = s.inst /\ u.outcome = s.outcome /\ u.ready = s.ready
        /\ \A b \in ActorSet \ {a} : u.actors[b] = s.actors[b]
        /\ u.actors[a].cur = None /\ u.actors[a].queue = s.actors[a].queue
        /\ u.actors[a].held = s.actors[a].held /\ u.actors[a].fresh = s.actors[a].fresh

LEMMA FreedIs ==
    ASSUME NEW s \in Engine, NEW c \in Calls, NEW k \in Attempts, NEW good \in BOOLEAN,
           s.inst[c] # 0, s.journal[InstanceIn(s, c)] # None, s.actors[ActorOf[c]].cur = c,
           s.active > 0
    PROVE  IsFreed(s, c, k, Freed(s, c, k, good))
  <1> DEFINE u == Freed(s, c, k, good)
             a == ActorOf[c]
             i == InstanceIn(s, c)
             r == s.actors[a]
             act == [r EXCEPT !.cur = None]
             row == Ended(s.journal[i], k, good)
  <1>1. i \in Instances /\ a \in ActorSet /\ r \in Actor
    BY FieldsAre, CallsAre
  <1>2. row \in Row /\ row # None /\ row.attempt = k /\ row.status # "running"
    <2>1. s.journal[i] \in Row
      BY <1>1, FieldsAre DEF Opt
    <2> DEFINE old == s.journal[i]
    <2> HIDE DEF old
    <2>2. Ended(old, k, good) \in Row /\ Ended(old, k, good).attempt = k
          /\ Ended(old, k, good).status # "running"
      BY <2>1 DEF Ended, Row, old
    <2> QED
      BY <2>2, ConstantsAre DEF old
  <1>3. /\ act \in Actor /\ act.cur = None /\ act.queue = r.queue /\ act.held = r.held
        /\ act.fresh = r.fresh
    <2> HIDE DEF r
    <2> QED
      BY <1>1 DEF Actor, Opt
  <1>4. u = [s EXCEPT !.journal = [s.journal EXCEPT ![i] = row],
                      !.nodes = [s.nodes EXCEPT ![c] = None],
                      !.actors = [s.actors EXCEPT ![a] = act],
                      !.active = s.active - 1]
    BY DEF Freed
  <1> HIDE DEF u, act, row, i, a, r
  <1>5. /\ [s.nodes EXCEPT ![c] = None] \in [Calls -> Opt(Node)]
        /\ [s.journal EXCEPT ![i] = row] \in [Instances -> Opt(Row)]
        /\ [s.actors EXCEPT ![a] = act] \in [ActorSet -> Actor]
        /\ s.active - 1 \in 0..MaxConcurrency
    BY <1>1, <1>2, <1>3, FieldsAre, ConstantsAre DEF Opt
  <1>6. /\ u \in Engine /\ u.nodes = [s.nodes EXCEPT ![c] = None]
        /\ u.journal = [s.journal EXCEPT ![i] = row] /\ u.actors = [s.actors EXCEPT ![a] = act]
        /\ u.active = s.active - 1 /\ u.inst = s.inst /\ u.outcome = s.outcome /\ u.ready = s.ready
    BY <1>4, <1>5 DEF Engine
  <1>7. u.journal[i] = row /\ \A j \in Instances : j # i => u.journal[j] = s.journal[j]
    BY <1>1, <1>6, FieldsAre
  <1>8. u.actors[a] = act /\ \A b \in ActorSet \ {a} : u.actors[b] = s.actors[b]
    BY <1>1, <1>6, FieldsAre
  <1> QED
    BY <1>1, <1>2, <1>3, <1>6, <1>7, <1>8 DEF u, a, i, r, IsFreed

\* A live ask is not waiting for its admission.
LEMMA LiveIsAdmitted ==
    ASSUME NEW ctl, NEW sent, NEW s, Good(s, ctl, sent), NEW c \in Calls, s.nodes[c] # None
    PROVE  /\ s.inst[c] # 0 /\ InstanceIn(s, c) \in Instances /\ s.outcome[c] = None
           /\ s.journal[InstanceIn(s, c)] # None /\ s.journal[InstanceIn(s, c)].status = "running"
           /\ s.nodes[c] \in Node
           /\ \A a \in ActorSet :
                c \notin Range(s.actors[a].fresh) /\ \A h \in s.actors[a].held : h[2] # c
           /\ \A d \in Calls : d # c /\ s.inst[d] # 0 => InstanceIn(s, d) # InstanceIn(s, c)
  <1>1. /\ s.inst[c] # 0 /\ s.outcome[c] = None
        /\ s.journal[InstanceIn(s, c)] # None /\ s.journal[InstanceIn(s, c)].status = "running"
    BY DEF Good, Served
  <1>2. InstanceIn(s, c) \in Instances /\ s.nodes[c] \in Node
    BY <1>1, FieldsAre DEF Good, Opt
  <1>3. \A a \in ActorSet :
                c \notin Range(s.actors[a].fresh) /\ \A h \in s.actors[a].held : h[2] # c
    BY DEF Good, Pending, Between
  <1>4. \A d \in Calls : d # c /\ s.inst[d] # 0 => InstanceIn(s, d) # InstanceIn(s, c)
    BY <1>1, Apart DEF Good
  <1> QED
    BY <1>1, <1>2, <1>3, <1>4

\* The call that is settled is nowhere any more.
LEMMA FreedKeeps ==
    ASSUME NEW ctl, NEW sent, NEW s, Good(s, ctl, sent), NEW c \in Calls, NEW good \in BOOLEAN,
           s.nodes[c] # None, ~s.nodes[c].paused, s.actors[ActorOf[c]].cur = c
    PROVE  LET u == Freed(s, c, s.nodes[c].attempt, good)
           IN  Good(u, ctl, sent) /\ Limbo(u, c)
  <1> DEFINE k == s.nodes[c].attempt
             u == Freed(s, c, k, good)
             a == ActorOf[c]
             i == InstanceIn(s, c)
  <1>0. /\ s \in Engine /\ s.inst[c] # 0 /\ s.outcome[c] = None
        /\ s.journal[InstanceIn(s, c)] # None
        /\ \A b \in ActorSet :
                c \notin Range(s.actors[b].fresh) /\ \A h \in s.actors[b].held : h[2] # c
        /\ \A d \in Calls : d # c /\ s.inst[d] # 0 => InstanceIn(s, d) # InstanceIn(s, c)
        /\ k \in Attempts /\ a \in ActorSet
    BY LiveIsAdmitted, CallsAre DEF Good, Node
  <1>1. s.active = Cardinality(Taking(s)) /\ a \in Taking(s) /\ s.active > 0
    <2>1. s.active = Cardinality(Taking(s)) /\ a \in Taking(s)
      BY <1>0, ConstantsAre DEF Good, Placed, Taking
    <2>2. Cardinality(Taking(s)) # 0
      BY <2>1, TakingIs, FS_EmptySet
    <2> QED
      BY <2>1, <2>2, TakingIs
  <1> HIDE DEF k
  <1>2. /\ u \in Engine /\ i \in Instances
        /\ u.nodes = [s.nodes EXCEPT ![c] = None]
        /\ \A j \in Instances : j # i => u.journal[j] = s.journal[j]
        /\ u.journal[i] # None /\ u.journal[i].attempt = k /\ u.journal[i].status # "running"
        /\ u.active = s.active - 1
        /\ u.inst = s.inst /\ u.outcome = s.outcome /\ u.ready = s.ready
        /\ \A b \in ActorSet \ {a} : u.actors[b] = s.actors[b]
        /\ u.actors[a].cur = None /\ u.actors[a].queue = s.actors[a].queue
        /\ u.actors[a].held = s.actors[a].held /\ u.actors[a].fresh = s.actors[a].fresh
    <2>1. IsFreed(s, c, k, u)
      <3> HIDE DEF a
      <3> QED
        BY <1>0, <1>1, FreedIs DEF a
    <2> HIDE DEF u
    <2> QED
      BY <2>1 DEF IsFreed
  <1> HIDE DEF u, i
  <1>3. u.nodes[c] = None /\ \A d \in Calls : d # c => u.nodes[d] = s.nodes[d]
    BY <1>0, <1>2, FieldsAre
  <1>4. \A d : InstanceIn(u, d) = InstanceIn(s, d)
    BY <1>2 DEF InstanceIn
  <1>5. \A d \in Calls : d # c /\ s.inst[d] # 0 =>
            u.journal[InstanceIn(s, d)] = s.journal[InstanceIn(s, d)]
    BY <1>0, <1>2, FieldsAre DEF i
  <1>6. \A d \in Calls : d # c => Runs(u, d) = Runs(s, d) /\ Between(u, d) = Between(s, d)
    BY <1>2, <1>3 DEF Runs, Between
  <1>7. ~Runs(u, c)
    BY <1>3 DEF Runs
  <1>8. \A b \in ActorSet : /\ u.actors[b].fresh = s.actors[b].fresh
                            /\ u.actors[b].held = s.actors[b].held
                            /\ u.actors[b].queue = s.actors[b].queue
                            /\ b # a => u.actors[b].cur = s.actors[b].cur
    BY <1>2
  <1>9. Limbo(u, c)
    BY <1>0, <1>2, <1>3, <1>8 DEF Limbo, Between
  <1>10. Placed(u)
    <2>1. \A b \in ActorSet :
            /\ s.actors[b].cur # None =>
                 ActorOf[s.actors[b].cur] = b /\ Runs(s, s.actors[b].cur)
            /\ IsInjective(s.actors[b].queue)
            /\ s.actors[b].cur \in Calls \cup {None}
            /\ \A d \in Range(s.actors[b].queue) :
                 d \in Calls /\ ActorOf[d] = b /\ Runs(s, d) /\ d # s.actors[b].cur
      BY <1>0, PendingAre DEF Good, Placed
    <2>2. ASSUME NEW b \in ActorSet
          PROVE  /\ u.actors[b].cur # None =>
                      ActorOf[u.actors[b].cur] = b /\ Runs(u, u.actors[b].cur)
                 /\ IsInjective(u.actors[b].queue)
                 /\ \A d \in Range(u.actors[b].queue) :
                      ActorOf[d] = b /\ Runs(u, d) /\ d # u.actors[b].cur
      <3>1. CASE b = a
        <4>1. u.actors[b].cur = None /\ u.actors[b].queue = s.actors[b].queue
          BY <1>2, <3>1
        <4>2. \A d \in Range(s.actors[b].queue) : d # c
          BY <2>1, <3>1
        <4> QED
          BY <1>6, <2>1, <4>1, <4>2, ConstantsAre
      <3>2. CASE b # a
        <4>1. u.actors[b] = s.actors[b]
          BY <1>2, <3>2
        <4>2. s.actors[b].cur # c /\ \A d \in Range(s.actors[b].queue) : d # c
          BY <2>1, <3>2, ConstantsAre
        <4> QED
          BY <1>6, <2>1, <4>1, <4>2
      <3> QED
        BY <3>1, <3>2
    <2>3. ASSUME NEW d \in Calls, Runs(u, d)
          PROVE  d = u.actors[ActorOf[d]].cur \/ d \in Range(u.actors[ActorOf[d]].queue)
      <3>1. d # c /\ Runs(s, d)
        BY <1>6, <1>7, <2>3
      <3>2. d = s.actors[ActorOf[d]].cur \/ d \in Range(s.actors[ActorOf[d]].queue)
        BY <3>1 DEF Good, Placed
      <3> QED
        BY <1>8, <3>1, <3>2, CallsAre
    <2>4. u.active = Cardinality(Taking(u))
      <3>1. Taking(u) = Taking(s) \ {a}
        BY <1>2, <1>8 DEF Taking
      <3>2. Cardinality(Taking(u)) = Cardinality(Taking(s)) - 1
        BY <1>1, <3>1, TakingIs, FS_RemoveElement
      <3> QED
        BY <1>1, <1>2, <3>2
    <2> QED
      BY <2>2, <2>3, <2>4 DEF Placed, Taking
  <1>11. Pending(u)
    <2>1. ASSUME NEW b \in ActorSet
          PROVE  /\ \A d \in Range(s.actors[b].fresh) : d \in Calls /\ d # c
                 /\ \A h \in s.actors[b].held : h[2] \in Calls /\ h[2] # c
      BY <1>0, PendingAre
    <2> SUFFICES ASSUME NEW b \in ActorSet
                 PROVE  /\ IsInjective(s.actors[b].fresh)
                        /\ \A d \in Range(s.actors[b].fresh) :
                              ActorOf[d] = b /\ Between(u, d) /\ u.journal[InstanceIn(s, d)] = None
                        /\ \A h \in s.actors[b].held :
                              /\ ActorOf[h[2]] = b /\ Between(u, h[2])
                              /\ u.journal[InstanceIn(s, h[2])] # None
                              /\ \A g \in s.actors[b].held : g[2] = h[2] => g = h
      BY <1>4, <1>8 DEF Pending
    <2>2. /\ IsInjective(s.actors[b].fresh)
          /\ \A d \in Range(s.actors[b].fresh) :
                ActorOf[d] = b /\ Between(s, d) /\ s.journal[InstanceIn(s, d)] = None
          /\ \A h \in s.actors[b].held :
                /\ ActorOf[h[2]] = b /\ Between(s, h[2])
                /\ s.journal[InstanceIn(s, h[2])] # None
                /\ \A g \in s.actors[b].held : g[2] = h[2] => g = h
      BY DEF Good, Pending
    <2>3. \A d \in Calls : Between(s, d) => s.inst[d] # 0
      BY DEF Between
    <2> QED
      BY <1>5, <1>6, <2>1, <2>2, <2>3
  <1>12. Served(u)
    <2>1. ASSUME NEW d \in Calls, u.nodes[d] # None
          PROVE  /\ u.inst[d] # 0 /\ u.outcome[d] = None
                 /\ u.journal[InstanceIn(u, d)] # None
                 /\ u.journal[InstanceIn(u, d)].status = "running"
      <3>1. d # c /\ s.nodes[d] # None
        BY <1>3, <2>1
      <3>2. /\ s.inst[d] # 0 /\ s.outcome[d] = None
            /\ s.journal[InstanceIn(s, d)] # None
            /\ s.journal[InstanceIn(s, d)].status = "running"
        BY <3>1 DEF Good, Served
      <3> QED
        BY <1>2, <1>4, <1>5, <3>1, <3>2
    <2> QED
      BY <1>2, <2>1 DEF Good, Served
  <1>13. Steered(s, ctl) /\ Obeyed(s.journal, ctl)
    BY DEF Good
  <1>14. Obeyed(u.journal, ctl)
    <2> SUFFICES ASSUME NEW j \in Instances, ctl[j] # None
                 PROVE  /\ u.journal[j] # None
                        /\ ctl[j].paused => u.journal[j].status = "running"
                        /\ u.journal[j].status # "running" => u.journal[j].attempt = ctl[j].attempt
      BY DEF Obeyed
    <2>1. CASE j = i
      <3>1. ctl[j].attempt = k /\ ~ctl[j].paused
        BY <1>13, <2>1 DEF Steered, i, k
      <3> QED
        BY <1>2, <2>1, <3>1
    <2>2. CASE j # i
      BY <1>2, <1>13, <2>2 DEF Obeyed
    <2> QED
      BY <2>1, <2>2
  <1>15. Steered(u, ctl)
    BY <1>3, <1>4, <1>13 DEF Steered
  <1>16. Turning(u, sent)
    <2> SUFFICES ASSUME NEW x \in sent, u.nodes[x[1]] # None
                 PROVE  /\ x[2] <= u.nodes[x[1]].attempt
                        /\ x[2] = u.nodes[x[1]].attempt /\ ~u.nodes[x[1]].paused =>
                              u.actors[ActorOf[x[1]]].cur = x[1]
      BY <1>2, <1>8 DEF Good, Turning
    <2>1. x[1] \in Calls /\ x[1] # c /\ u.nodes[x[1]] = s.nodes[x[1]] /\ ActorOf[x[1]] \in ActorSet
      BY <1>3, CallsAre DEF Good, Turning
    <2>2. /\ x[2] <= s.nodes[x[1]].attempt
          /\ x[2] = s.nodes[x[1]].attempt /\ ~s.nodes[x[1]].paused =>
                s.actors[ActorOf[x[1]]].cur = x[1]
      BY <2>1 DEF Good, Turning
    <2> QED
      BY <1>8, <2>1, <2>2
  <1> QED
    BY <1>2, <1>9, <1>10, <1>11, <1>12, <1>14, <1>15, <1>16 DEF Good, u, k

\* An ask is settled: the slot goes to whoever is next, then the promise settles.
LEMMA SettledKeeps ==
    ASSUME NEW ctl, NEW sent, NEW s, Good(s, ctl, sent), NEW c \in Calls, NEW good \in BOOLEAN,
           s.nodes[c] # None, ~s.nodes[c].paused, s.actors[ActorOf[c]].cur = c
    PROVE  LET t == Settled(s, c, s.nodes[c].attempt, good)
           IN  Good(t, ctl, sent) /\ Pumped(t)
  <1> DEFINE u == Freed(s, c, s.nodes[c].attempt, good)
             v == PumpAll(u)
             answer == [by |-> c, ok |-> good]
             t == Deliver(v, c, answer)
  <1>1. Good(u, ctl, sent) /\ Limbo(u, c)
    BY FreedKeeps
  <1>2. Settled(s, c, s.nodes[c].attempt, good) = t
    BY DEF Settled, Freed
  <1>3. answer \in Answers
    BY DEF Answers
  <1> HIDE DEF u, answer
  <1>4. /\ Good(v, ctl, sent) /\ v.nodes = u.nodes /\ v.inst = u.inst /\ v.outcome = u.outcome
        /\ \A b \in ActorSet : /\ v.actors[b].held = u.actors[b].held
                               /\ v.actors[b].fresh = u.actors[b].fresh
        /\ Pumped(v)
    BY <1>1, PumpAllKeeps
  <1> HIDE DEF v
  <1>5. Limbo(v, c)
    BY <1>1, <1>4 DEF Limbo, Between
  <1>6. Good(t, ctl, sent) /\ t.active = v.active /\ t.actors = v.actors
    BY <1>3, <1>4, <1>5, DeliverKeeps
  <1> HIDE DEF t
  <1>7. Pumped(t)
    BY <1>4, <1>6 DEF Pumped, Idle, Room
  <1> QED
    BY <1>2, <1>6, <1>7

\* A live ask is stopped: the node, its place and, if it has one, the slot.
Stopped(s, c) ==
    [s EXCEPT !.nodes[c].paused = TRUE,
              !.active = IF s.actors[ActorOf[c]].cur = c THEN @ - 1 ELSE @,
              !.actors[ActorOf[c]] = StoppedAt(@, c)]

\* What the user's control says afterwards.
MarkStopped(ctl, i, k) == [ctl EXCEPT ![i] = [attempt |-> k, paused |-> TRUE]]

MarkRetried(ctl, i, k) == [ctl EXCEPT ![i] = [attempt |-> k, paused |-> FALSE]]

LEMMA StoppedKeeps ==
    ASSUME NEW ctl \in [Instances -> Opt(Control)], NEW sent, NEW s, Good(s, ctl, sent),
           NEW c \in Calls, s.nodes[c] # None, ~s.nodes[c].paused
    PROVE  LET u == Stopped(s, c)
           IN  /\ Good(u, MarkStopped(ctl, InstanceIn(s, c), s.nodes[c].attempt), sent)
               /\ u.nodes[c] # None /\ u.nodes[c].paused /\ u.nodes[c].attempt = s.nodes[c].attempt
               /\ u.inst = s.inst
  <1> DEFINE u == Stopped(s, c)
             a == ActorOf[c]
             i == InstanceIn(s, c)
             n == s.nodes[c]
             r == s.actors[a]
             node == [n EXCEPT !.paused = TRUE]
             act == StoppedAt(r, c)
             cost == IF r.cur = c THEN 1 ELSE 0
             ctl2 == MarkStopped(ctl, i, n.attempt)
  <1>0. /\ s \in Engine /\ s.inst[c] # 0 /\ s.outcome[c] = None
        /\ s.journal[i] # None /\ s.journal[i].status = "running" /\ i \in Instances
        /\ \A b \in ActorSet :
                c \notin Range(s.actors[b].fresh) /\ \A h \in s.actors[b].held : h[2] # c
        /\ \A d \in Calls : d # c /\ s.inst[d] # 0 => InstanceIn(s, d) # i
        /\ n \in Node /\ a \in ActorSet /\ r \in Actor
    BY LiveIsAdmitted, CallsAre, FieldsAre DEF Good
  <1>1. \A b \in ActorSet :
            /\ s.actors[b].cur # None =>
                 ActorOf[s.actors[b].cur] = b /\ Runs(s, s.actors[b].cur)
            /\ IsInjective(s.actors[b].queue) /\ s.actors[b].queue \in Seq(Calls)
            /\ s.actors[b].cur \in Calls \cup {None}
            /\ \A d \in Range(s.actors[b].queue) :
                 d \in Calls /\ ActorOf[d] = b /\ Runs(s, d) /\ d # s.actors[b].cur
    BY <1>0, PendingAre DEF Good, Placed
  <1>2. node \in Node /\ node.paused /\ node.attempt = n.attempt /\ node # None
    <2> HIDE DEF n
    <2>1. node \in Node /\ node.paused /\ node.attempt = n.attempt
      BY <1>0 DEF Node
    <2> QED
      BY <2>1, ConstantsAre
  <1>3. /\ act \in Actor /\ act.cur = (IF r.cur = c THEN None ELSE r.cur)
        /\ act.held = r.held /\ act.fresh = r.fresh
        /\ Range(act.queue) = Range(r.queue) \ {c} /\ IsInjective(act.queue)
    <2> DEFINE q == Among(r.queue, Calls \ {c})
    <2>1. q \in Seq(Calls) /\ IsInjective(q) /\ Range(q) = Range(r.queue) \cap (Calls \ {c})
      BY <1>0, <1>1, AmongFacts
    <2>2. Range(q) = Range(r.queue) \ {c}
      BY <1>0, <1>1, <2>1
    <2>3. act = [r EXCEPT !.cur = IF r.cur = c THEN None ELSE r.cur, !.queue = q, !.paused = c]
      BY DEF StoppedAt
    <2> HIDE DEF act, q, r
    <2> QED
      BY <1>0, <2>1, <2>2, <2>3 DEF Actor, Opt
  <1>4. s.active = Cardinality(Taking(s)) /\ (r.cur = c => a \in Taking(s) /\ s.active > 0)
    <2>1. s.active = Cardinality(Taking(s)) /\ (r.cur = c => a \in Taking(s))
      BY <1>0, ConstantsAre DEF Good, Placed, Taking
    <2>2. r.cur = c => Cardinality(Taking(s)) # 0
      BY <2>1, TakingIs, FS_EmptySet
    <2> QED
      BY <2>1, <2>2, TakingIs
  <1>5. u = [s EXCEPT !.nodes = [s.nodes EXCEPT ![c] = node],
                      !.active = s.active - cost,
                      !.actors = [s.actors EXCEPT ![a] = act]]
    <2>1. s.active - 0 = s.active
      BY <1>0, FieldsAre, ConstantsAre
    <2>2. s.active - cost = IF r.cur = c THEN s.active - 1 ELSE s.active
      BY <2>1
    <2> HIDE DEF cost
    <2> QED
      BY <2>2 DEF Stopped
  <1> HIDE DEF u, act, node, i, a, r, n
  <1>6. /\ [s.nodes EXCEPT ![c] = node] \in [Calls -> Opt(Node)]
        /\ [s.actors EXCEPT ![a] = act] \in [ActorSet -> Actor]
        /\ s.active - cost \in 0..MaxConcurrency
    BY <1>0, <1>2, <1>3, <1>4, FieldsAre, ConstantsAre DEF Opt
  <1>7. /\ u \in Engine /\ u.nodes = [s.nodes EXCEPT ![c] = node]
        /\ u.actors = [s.actors EXCEPT ![a] = act]
        /\ u.active = s.active - cost /\ u.inst = s.inst /\ u.journal = s.journal
        /\ u.outcome = s.outcome /\ u.ready = s.ready
    <2> HIDE DEF cost
    <2> QED
      BY <1>0, <1>5, <1>6 DEF Engine
  <1>8. u.nodes[c] = node /\ \A d \in Calls : d # c => u.nodes[d] = s.nodes[d]
    BY <1>0, <1>7, FieldsAre
  <1>9. u.actors[a] = act /\ \A b \in ActorSet \ {a} : u.actors[b] = s.actors[b]
    BY <1>0, <1>7, FieldsAre
  <1>10. \A d : InstanceIn(u, d) = InstanceIn(s, d)
    BY <1>7 DEF InstanceIn
  <1>11. \A d \in Calls : d # c => Runs(u, d) = Runs(s, d)
    BY <1>8 DEF Runs
  <1>12. ~Runs(u, c) /\ \A d \in Calls : Between(u, d) <=> Between(s, d)
    <2>1. ~Runs(u, c)
      BY <1>2, <1>8 DEF Runs
    <2>2. ~Between(u, c) /\ ~Between(s, c)
      BY <1>2, <1>8 DEF Between
    <2>3. \A d \in Calls : d # c => (Between(u, d) <=> Between(s, d))
      BY <1>7, <1>8 DEF Between
    <2> QED
      BY <2>1, <2>2, <2>3
  <1>13. \A b \in ActorSet : /\ u.actors[b].fresh = s.actors[b].fresh
                             /\ u.actors[b].held = s.actors[b].held
    BY <1>3, <1>9 DEF r
  <1>14. \A b \in ActorSet :
            /\ u.actors[b].cur = IF s.actors[b].cur = c THEN None ELSE s.actors[b].cur
            /\ Range(u.actors[b].queue) = Range(s.actors[b].queue) \ {c}
            /\ IsInjective(u.actors[b].queue)
    <2> TAKE b \in ActorSet
    <2>1. CASE b = a
      BY <1>3, <1>9, <2>1 DEF r
    <2>2. CASE b # a
      <3>1. s.actors[b].cur # c /\ c \notin Range(s.actors[b].queue)
        BY <1>1, <2>2, ConstantsAre DEF a
      <3> QED
        BY <1>1, <1>9, <2>2, <3>1
    <2> QED
      BY <2>1, <2>2
  <1>15. Placed(u)
    <2>2. ASSUME NEW b \in ActorSet
          PROVE  /\ u.actors[b].cur # None =>
                      ActorOf[u.actors[b].cur] = b /\ Runs(u, u.actors[b].cur)
                 /\ IsInjective(u.actors[b].queue)
                 /\ \A d \in Range(u.actors[b].queue) :
                      ActorOf[d] = b /\ Runs(u, d) /\ d # u.actors[b].cur
      <3>1. u.actors[b].cur # None =>
                      ActorOf[u.actors[b].cur] = b /\ Runs(u, u.actors[b].cur)
        BY <1>1, <1>11, <1>14
      <3>2. \A d \in Range(u.actors[b].queue) :
                      ActorOf[d] = b /\ Runs(u, d) /\ d # u.actors[b].cur
        <4>1. \A d \in Range(u.actors[b].queue) : d \in Range(s.actors[b].queue) /\ d # c
          BY <1>14
        <4>2. \A d \in Range(u.actors[b].queue) : d # u.actors[b].cur
          BY <1>1, <1>14, <4>1, ConstantsAre
        <4> QED
          BY <1>1, <1>11, <4>1, <4>2
      <3> QED
        BY <1>14, <3>1, <3>2
    <2>3. ASSUME NEW d \in Calls, Runs(u, d)
          PROVE  d = u.actors[ActorOf[d]].cur \/ d \in Range(u.actors[ActorOf[d]].queue)
      <3>1. d # c /\ Runs(s, d)
        BY <1>11, <1>12, <2>3
      <3>2. d = s.actors[ActorOf[d]].cur \/ d \in Range(s.actors[ActorOf[d]].queue)
        BY <3>1 DEF Good, Placed
      <3> QED
        BY <1>14, <3>1, <3>2, CallsAre
    <2>4. u.active = Cardinality(Taking(u))
      <3>1. CASE r.cur = c
        <4>1. Taking(u) = Taking(s) \ {a}
          <5>1. \A b \in ActorSet : s.actors[b].cur = c => b = a
            BY <1>1, ConstantsAre DEF a
          <5>2. s.actors[a].cur = c
            BY <3>1 DEF r
          <5> QED
            BY <1>0, <1>14, <5>1, <5>2 DEF Taking
        <4>2. Cardinality(Taking(u)) = Cardinality(Taking(s)) - 1
          BY <1>4, <3>1, <4>1, TakingIs, FS_RemoveElement
        <4> QED
          BY <1>4, <1>7, <3>1, <4>2
      <3>2. CASE r.cur # c
        <4>1. Taking(u) = Taking(s)
          <5>1. \A b \in ActorSet : s.actors[b].cur # c
            BY <1>1, <3>2, ConstantsAre DEF a, r
          <5> QED
            BY <1>14, <5>1 DEF Taking
        <4>2. s.active - 0 = s.active
          BY <1>0, FieldsAre, ConstantsAre
        <4> QED
          BY <1>4, <1>7, <3>2, <4>1, <4>2
      <3> QED
        BY <3>1, <3>2
    <2> QED
      BY <2>2, <2>3, <2>4 DEF Placed, Taking
  <1>16. Pending(u)
    <2>1. ASSUME NEW b \in ActorSet
          PROVE  /\ \A d \in Range(s.actors[b].fresh) : d \in Calls
                 /\ \A h \in s.actors[b].held : h[2] \in Calls
      BY <1>0, PendingAre
    <2> QED
      BY <1>7, <1>10, <1>12, <1>13, <2>1 DEF Good, Pending
  <1>17. Served(u)
    <2>1. \A d \in Calls : u.nodes[d] # None => s.nodes[d] # None
      BY <1>8 DEF n
    <2> QED
      BY <1>7, <1>10, <2>1 DEF Good, Served
  <1>18. /\ ctl2[i] # None /\ ctl2[i].attempt = n.attempt /\ ctl2[i].paused
         /\ \A j \in Instances : j # i => ctl2[j] = ctl[j]
    <2>1. [attempt |-> n.attempt, paused |-> TRUE] \in Control
      BY <1>0 DEF Control, Node
    <2> QED
      BY <1>0, <2>1, ConstantsAre DEF MarkStopped
  <1> HIDE DEF ctl2
  <1>19. Steered(s, ctl) /\ Obeyed(s.journal, ctl)
    BY DEF Good
  <1>20. Obeyed(u.journal, ctl2)
    BY <1>0, <1>7, <1>18, <1>19 DEF Obeyed
  <1>21. Steered(u, ctl2)
    <2> SUFFICES ASSUME NEW d \in Calls, u.nodes[d] # None, ctl2[InstanceIn(s, d)] # None
                 PROVE  /\ ctl2[InstanceIn(s, d)].attempt = u.nodes[d].attempt
                        /\ ctl2[InstanceIn(s, d)].paused = u.nodes[d].paused
      BY <1>10 DEF Steered
    <2>1. CASE d = c
      BY <1>2, <1>8, <1>18, <2>1 DEF i, Node
    <2>2. CASE d # c
      <3>1. s.nodes[d] # None /\ u.nodes[d] = s.nodes[d]
        BY <1>8, <2>2
      <3>2. s.inst[d] # 0 /\ InstanceIn(s, d) \in Instances
        BY <3>1, LiveIsAdmitted
      <3>3. InstanceIn(s, d) # i
        BY <1>0, <2>2, <3>2
      <3> QED
        BY <1>18, <1>19, <3>1, <3>2, <3>3 DEF Steered
    <2> QED
      BY <2>1, <2>2
  <1>22. Turning(u, sent)
    <2> SUFFICES ASSUME NEW x \in sent, u.nodes[x[1]] # None
                 PROVE  /\ x[2] <= u.nodes[x[1]].attempt
                        /\ x[2] = u.nodes[x[1]].attempt /\ ~u.nodes[x[1]].paused =>
                              u.actors[ActorOf[x[1]]].cur = x[1]
      BY <1>7, <1>13 DEF Good, Turning
    <2>1. x[1] \in Calls /\ ActorOf[x[1]] \in ActorSet /\ s.nodes[x[1]] # None
      BY <1>8, CallsAre DEF Good, Turning, n
    <2>2. /\ x[2] <= s.nodes[x[1]].attempt
          /\ x[2] = s.nodes[x[1]].attempt /\ ~s.nodes[x[1]].paused =>
                s.actors[ActorOf[x[1]]].cur = x[1]
      BY <2>1 DEF Good, Turning
    <2>3. CASE x[1] = c
      BY <1>2, <1>8, <2>2, <2>3 DEF n
    <2>4. CASE x[1] # c
      BY <1>8, <1>14, <2>1, <2>2, <2>4
    <2> QED
      BY <2>3, <2>4
  <1>23. Good(u, ctl2, sent)
    BY <1>7, <1>15, <1>16, <1>17, <1>20, <1>21, <1>22 DEF Good
  <1> QED
    BY <1>2, <1>7, <1>8, <1>23 DEF u, ctl2, i, n

\* Stopping an ask: the slot goes to whoever is next.
LEMMA PausedKeeps ==
    ASSUME NEW ctl \in [Instances -> Opt(Control)], NEW sent, NEW s, Good(s, ctl, sent),
           NEW c \in Calls, s.nodes[c] # None, ~s.nodes[c].paused
    PROVE  LET t == Paused(s, c)
           IN  /\ Good(t, MarkStopped(ctl, InstanceIn(s, c), s.nodes[c].attempt), sent)
               /\ Pumped(t)
               /\ t.nodes[c] # None /\ t.nodes[c].paused /\ t.nodes[c].attempt = s.nodes[c].attempt
               /\ t.inst = s.inst
  <1> DEFINE u == Stopped(s, c)
             ctl2 == MarkStopped(ctl, InstanceIn(s, c), s.nodes[c].attempt)
  <1>1. /\ Good(u, ctl2, sent)
        /\ u.nodes[c] # None /\ u.nodes[c].paused /\ u.nodes[c].attempt = s.nodes[c].attempt
        /\ u.inst = s.inst
    BY StoppedKeeps
  <1>2. Paused(s, c) = PumpAll(u)
    BY DEF Paused, Stopped
  <1> HIDE DEF u, ctl2
  <1>3. LET t == PumpAll(u)
        IN  /\ Good(t, ctl2, sent) /\ t.nodes = u.nodes /\ t.inst = u.inst
            /\ Pumped(t)
    BY <1>1, PumpAllKeeps
  <1> QED
    BY <1>1, <1>2, <1>3 DEF ctl2

\* A stopped ask goes to the head of the queue, on another attempt.
Requeued(s, c) ==
    [s EXCEPT !.nodes[c] = Again(@), !.actors[ActorOf[c]] = QueuedFirst(@, c)]

LEMMA RequeuedKeeps ==
    ASSUME NEW ctl \in [Instances -> Opt(Control)], NEW sent, NEW s, Good(s, ctl, sent),
           NEW c \in Calls, s.nodes[c] # None, s.nodes[c].paused, s.nodes[c].attempt < MaxAttempt
    PROVE  LET u == Requeued(s, c)
           IN  /\ Good(u, MarkRetried(ctl, InstanceIn(s, c), s.nodes[c].attempt + 1), sent)
               /\ u.active = s.active
               /\ \A b \in ActorSet \ {ActorOf[c]} : u.actors[b] = s.actors[b]
  <1> DEFINE u == Requeued(s, c)
             a == ActorOf[c]
             i == InstanceIn(s, c)
             n == s.nodes[c]
             r == s.actors[a]
             node == Again(n)
             act == QueuedFirst(r, c)
             ctl2 == MarkRetried(ctl, i, n.attempt + 1)
  <1>0. /\ s \in Engine /\ s.inst[c] # 0 /\ s.outcome[c] = None
        /\ s.journal[i] # None /\ s.journal[i].status = "running" /\ i \in Instances
        /\ \A b \in ActorSet :
                c \notin Range(s.actors[b].fresh) /\ \A h \in s.actors[b].held : h[2] # c
        /\ \A d \in Calls : d # c /\ s.inst[d] # 0 => InstanceIn(s, d) # i
        /\ n \in Node /\ a \in ActorSet /\ r \in Actor
    BY LiveIsAdmitted, CallsAre, FieldsAre DEF Good
  <1>1. \A b \in ActorSet :
            /\ s.actors[b].cur # None =>
                 ActorOf[s.actors[b].cur] = b /\ Runs(s, s.actors[b].cur)
            /\ IsInjective(s.actors[b].queue) /\ s.actors[b].queue \in Seq(Calls)
            /\ s.actors[b].cur \in Calls \cup {None}
            /\ \A d \in Range(s.actors[b].queue) :
                 d \in Calls /\ ActorOf[d] = b /\ Runs(s, d) /\ d # s.actors[b].cur
    BY <1>0, PendingAre, SMTT(30) DEF Good, Placed
  <1>a. n.attempt \in Attempts /\ n.attempt + 1 \in Attempts
    <2>1. n.attempt \in Attempts
      BY <1>0 DEF Node
    <2> QED
      BY <2>1, ConstantsAre DEF Attempts
  <1>2. node \in Node /\ ~node.paused /\ node.attempt = n.attempt + 1 /\ node # None
    <2> DEFINE k == n.attempt + 1
    <2>2. RepairAttempts \in 0..RepairAttempts /\ NudgeAttempts \in 0..NudgeAttempts
      BY ConstantsAre
    <2>3. node = [n EXCEPT !.attempt = k, !.paused = FALSE,
                          !.repairs = RepairAttempts, !.nudges = NudgeAttempts]
      BY DEF Again
    <2>4. k \in Attempts /\ n \in Node
      BY <1>0, <1>a
    <2> HIDE DEF n, k, node
    <2>1. node \in Node /\ node.paused = FALSE /\ node.attempt = k
      BY <2>2, <2>3, <2>4 DEF Node
    <2> USE DEF k
    <2> QED
      BY <2>1, ConstantsAre
  <1>b. ~Runs(s, c) /\ \A b \in ActorSet : s.actors[b].cur # c /\ c \notin Range(s.actors[b].queue)
    BY <1>1, ConstantsAre DEF Runs
  <1>3. /\ act \in Actor /\ act.cur = r.cur
        /\ act.held = r.held /\ act.fresh = r.fresh
        /\ Range(act.queue) = Range(r.queue) \cup {c} /\ IsInjective(act.queue)
    <2> DEFINE p == <<c>>
               q == p \o r.queue
    <2>1. q \in Seq(Calls) /\ IsInjective(q) /\ Range(q) = Range(r.queue) \cup {c}
      <3>1. p \in Seq(Calls) /\ IsInjective(p) /\ Range(p) = {c}
        BY DEF IsInjective, Range
      <3>2. r.queue \in Seq(Calls) /\ IsInjective(r.queue) /\ c \notin Range(r.queue)
        BY <1>0, <1>1, <1>b
      <3> HIDE DEF p, r
      <3> QED
        BY <3>1, <3>2, ConcatFacts
    <2>3. act = [r EXCEPT !.queue = q, !.paused = None]
      BY DEF QueuedFirst
    <2> HIDE DEF act, q, r
    <2> QED
      BY <1>0, <2>1, <2>3 DEF Actor, Opt
  <1>5. u = [s EXCEPT !.nodes = [s.nodes EXCEPT ![c] = node],
                      !.actors = [s.actors EXCEPT ![a] = act]]
    BY DEF Requeued
  <1> HIDE DEF u, act, node, i, a, r, n
  <1>6. /\ [s.nodes EXCEPT ![c] = node] \in [Calls -> Opt(Node)]
        /\ [s.actors EXCEPT ![a] = act] \in [ActorSet -> Actor]
    BY <1>0, <1>2, <1>3, FieldsAre DEF Opt
  <1>7. /\ u \in Engine /\ u.nodes = [s.nodes EXCEPT ![c] = node]
        /\ u.actors = [s.actors EXCEPT ![a] = act]
        /\ u.active = s.active /\ u.inst = s.inst /\ u.journal = s.journal
        /\ u.outcome = s.outcome /\ u.ready = s.ready
    BY <1>0, <1>5, <1>6 DEF Engine
  <1>8. u.nodes[c] = node /\ \A d \in Calls : d # c => u.nodes[d] = s.nodes[d]
    BY <1>0, <1>7, FieldsAre
  <1>9. u.actors[a] = act /\ \A b \in ActorSet \ {a} : u.actors[b] = s.actors[b]
    BY <1>0, <1>7, FieldsAre
  <1>10. \A d : InstanceIn(u, d) = InstanceIn(s, d)
    BY <1>7 DEF InstanceIn
  <1>11. Runs(u, c) /\ \A d \in Calls : d # c => (Runs(u, d) <=> Runs(s, d))
    <2>1. Runs(u, c)
      BY <1>2, <1>8 DEF Runs
    <2>2. \A d \in Calls : d # c => (Runs(u, d) <=> Runs(s, d))
      BY <1>8 DEF Runs
    <2> QED
      BY <2>1, <2>2
  <1>12. \A d \in Calls : Between(u, d) <=> Between(s, d)
    <2>2. ~Between(u, c) /\ ~Between(s, c)
      BY <1>2, <1>8 DEF Between
    <2>3. \A d \in Calls : d # c => (Between(u, d) <=> Between(s, d))
      BY <1>7, <1>8 DEF Between
    <2> QED
      BY <2>2, <2>3
  <1>13. \A b \in ActorSet : /\ u.actors[b].fresh = s.actors[b].fresh
                             /\ u.actors[b].held = s.actors[b].held
                             /\ u.actors[b].cur = s.actors[b].cur
    BY <1>3, <1>9 DEF r
  <1>14. \A b \in ActorSet :
            /\ Range(u.actors[b].queue) = IF b = a THEN Range(s.actors[b].queue) \cup {c}
                                                   ELSE Range(s.actors[b].queue)
            /\ IsInjective(u.actors[b].queue)
    BY <1>1, <1>3, <1>9 DEF r
  <1>15. Placed(u)
    <2>2. ASSUME NEW b \in ActorSet
          PROVE  /\ u.actors[b].cur # None =>
                      ActorOf[u.actors[b].cur] = b /\ Runs(u, u.actors[b].cur)
                 /\ IsInjective(u.actors[b].queue)
                 /\ \A d \in Range(u.actors[b].queue) :
                      ActorOf[d] = b /\ Runs(u, d) /\ d # u.actors[b].cur
      <3>1. u.actors[b].cur # None =>
                      ActorOf[u.actors[b].cur] = b /\ Runs(u, u.actors[b].cur)
        BY <1>1, <1>11, <1>13
      <3>2. \A d \in Range(u.actors[b].queue) : d \in Range(s.actors[b].queue) \/ (d = c /\ b = a)
        BY <1>14
      <3>3. \A d \in Range(u.actors[b].queue) :
                      ActorOf[d] = b /\ Runs(u, d) /\ d # u.actors[b].cur
        BY <1>1, <1>b, <1>11, <1>13, <3>2 DEF a
      <3> QED
        BY <1>14, <3>1, <3>3
    <2>3. ASSUME NEW d \in Calls, Runs(u, d)
          PROVE  d = u.actors[ActorOf[d]].cur \/ d \in Range(u.actors[ActorOf[d]].queue)
      <3>1. CASE d = c
        BY <1>0, <1>14, <3>1 DEF a
      <3>2. CASE d # c
        <4>1. d = s.actors[ActorOf[d]].cur \/ d \in Range(s.actors[ActorOf[d]].queue)
          BY <1>11, <2>3, <3>2 DEF Good, Placed
        <4> QED
          BY <1>13, <1>14, <4>1, CallsAre
      <3> QED
        BY <3>1, <3>2
    <2>4. u.active = Cardinality({b \in ActorSet : u.actors[b].cur # None})
      <3>1. {b \in ActorSet : u.actors[b].cur # None} = {b \in ActorSet : s.actors[b].cur # None}
        BY <1>13
      <3> QED
        BY <1>7, <3>1 DEF Good, Placed
    <2> QED
      BY <2>2, <2>3, <2>4 DEF Placed
  <1>16. Pending(u)
    <2>1. ASSUME NEW b \in ActorSet
          PROVE  /\ \A d \in Range(s.actors[b].fresh) : d \in Calls
                 /\ \A h \in s.actors[b].held : h[2] \in Calls
      BY <1>0, PendingAre
    <2> QED
      BY <1>7, <1>10, <1>12, <1>13, <2>1 DEF Good, Pending
  <1>17. Served(u)
    <2>1. \A d \in Calls : u.nodes[d] # None => s.nodes[d] # None
      BY <1>8 DEF n
    <2> QED
      BY <1>7, <1>10, <2>1 DEF Good, Served
  <1>18. /\ ctl2[i] # None /\ ctl2[i].attempt = n.attempt + 1 /\ ctl2[i].paused = FALSE
         /\ \A j \in Instances : j # i => ctl2[j] = ctl[j]
    <2>1. [attempt |-> n.attempt + 1, paused |-> FALSE] \in Control
      BY <1>a DEF Control
    <2> QED
      BY <1>0, <2>1, ConstantsAre DEF MarkRetried
  <1> HIDE DEF ctl2
  <1>19. Steered(s, ctl) /\ Obeyed(s.journal, ctl)
    BY DEF Good
  <1>20. Obeyed(u.journal, ctl2)
    BY <1>0, <1>7, <1>18, <1>19 DEF Obeyed
  <1>21. Steered(u, ctl2)
    <2> SUFFICES ASSUME NEW d \in Calls, u.nodes[d] # None, ctl2[InstanceIn(s, d)] # None
                 PROVE  /\ ctl2[InstanceIn(s, d)].attempt = u.nodes[d].attempt
                        /\ ctl2[InstanceIn(s, d)].paused = u.nodes[d].paused
      BY <1>10 DEF Steered
    <2>1. CASE d = c
      BY <1>2, <1>8, <1>18, <2>1 DEF i, Node
    <2>2. CASE d # c
      <3>1. s.nodes[d] # None /\ u.nodes[d] = s.nodes[d]
        BY <1>8, <2>2
      <3>2. s.inst[d] # 0 /\ InstanceIn(s, d) \in Instances
        BY <3>1, LiveIsAdmitted
      <3>3. InstanceIn(s, d) # i
        BY <1>0, <2>2, <3>2
      <3> QED
        BY <1>18, <1>19, <3>1, <3>2, <3>3 DEF Steered
    <2> QED
      BY <2>1, <2>2
  <1>22. Turning(u, sent)
    <2> SUFFICES ASSUME NEW x \in sent, u.nodes[x[1]] # None
                 PROVE  /\ x[2] <= u.nodes[x[1]].attempt
                        /\ x[2] = u.nodes[x[1]].attempt /\ ~u.nodes[x[1]].paused =>
                              u.actors[ActorOf[x[1]]].cur = x[1]
      BY <1>7, <1>13 DEF Good, Turning
    <2>1. /\ x[1] \in Calls /\ ActorOf[x[1]] \in ActorSet /\ s.nodes[x[1]] # None
          /\ x[2] \in Attempts
      BY <1>8, CallsAre DEF Good, Turning, n
    <2>2. /\ x[2] <= s.nodes[x[1]].attempt
          /\ x[2] = s.nodes[x[1]].attempt /\ ~s.nodes[x[1]].paused =>
                s.actors[ActorOf[x[1]]].cur = x[1]
      BY <2>1 DEF Good, Turning
    <2>3. CASE x[1] = c
      <3>1. x[2] <= n.attempt /\ x[2] \in Nat /\ n.attempt \in Nat
        BY <1>a, <2>1, <2>2, <2>3, ConstantsAre DEF n, Attempts
      <3>2. x[2] <= n.attempt + 1 /\ x[2] # n.attempt + 1
        BY <3>1
      <3> QED
        BY <1>2, <1>8, <2>3, <3>2
    <2>4. CASE x[1] # c
      BY <1>8, <1>13, <2>1, <2>2, <2>4
    <2> QED
      BY <2>3, <2>4
  <1>23. Good(u, ctl2, sent)
    BY <1>7, <1>15, <1>16, <1>17, <1>20, <1>21, <1>22 DEF Good
  <1> QED
    BY <1>7, <1>9, <1>23 DEF u, ctl2, i, n, a

\* Retrying an ask: if nobody else could start before, nobody can after.
LEMMA RetriedKeeps ==
    ASSUME NEW ctl \in [Instances -> Opt(Control)], NEW sent, NEW s, Good(s, ctl, sent), Pumped(s),
           NEW c \in Calls, s.nodes[c] # None, s.nodes[c].paused, s.nodes[c].attempt < MaxAttempt
    PROVE  LET t == Retried(s, c)
           IN  /\ Good(t, MarkRetried(ctl, InstanceIn(s, c), s.nodes[c].attempt + 1), sent)
               /\ Pumped(t)
  <1> DEFINE u == Requeued(s, c)
             a == ActorOf[c]
             ctl2 == MarkRetried(ctl, InstanceIn(s, c), s.nodes[c].attempt + 1)
             t == Pump(u, a)
  <1>1. /\ Good(u, ctl2, sent) /\ u.active = s.active
        /\ \A b \in ActorSet \ {a} : u.actors[b] = s.actors[b]
    BY RequeuedKeeps
  <1>2. Retried(s, c) = t /\ a \in ActorSet
    BY CallsAre DEF Retried, Requeued
  <1> HIDE DEF u, ctl2, a
  <1>3. /\ Good(t, ctl2, sent)
        /\ ~(Idle(t, a) /\ Room(t) > 0)
        /\ \A b \in ActorSet : Idle(t, b) /\ Room(t) > 0 => Idle(u, b) /\ Room(u) > 0
    BY <1>1, <1>2, PumpKeeps
  <1>4. \A b \in ActorSet \ {a} : ~(Idle(u, b) /\ Room(u) > 0)
    BY <1>1 DEF Pumped, Idle, Room
  <1> HIDE DEF t
  <1>5. Pumped(t)
    BY <1>3, <1>4 DEF Pumped
  <1> QED
    BY <1>2, <1>3, <1>5 DEF ctl2

\* The calls of site x that were numbered.
Met(ord, x) == {d \in Calls : SiteOf[d] = x /\ ord[d] # 0}

\* The next ordinal of a site is nobody's, and there is room for it.
LEMMA NextOrdinal ==
    ASSUME NEW ord \in [Calls -> 0..Cardinality(Calls)], Numbered(ord), NEW c \in Calls, ord[c] = 0
    PROVE  LET n == 1 + Cardinality(Met(ord, SiteOf[c]))
           IN  /\ n \in 1..Cardinality(Calls)
               /\ Numbered([ord EXCEPT ![c] = n])
               /\ [ord EXCEPT ![c] = n] \in [Calls -> 0..Cardinality(Calls)]
  <1> DEFINE x == SiteOf[c]
             m == Met(ord, x)
             n == 1 + Cardinality(m)
             new == [ord EXCEPT ![c] = n]
  <1>1. IsFiniteSet(Calls) /\ Cardinality(Calls) \in Nat
    BY ScriptAssumption, FS_CardinalityType
  <1>2. \A y : Met(ord, y) \subseteq Calls /\ IsFiniteSet(Met(ord, y)) /\ Cardinality(Met(ord, y)) \in Nat
    BY <1>1, FS_Subset, FS_CardinalityType DEF Met
  <1>3. c \notin m /\ m \cup {c} \subseteq Calls
    BY DEF Met
  <1>4. n \in 1..Cardinality(Calls)
    <2>1. Cardinality(m \cup {c}) = Cardinality(m) + 1
      BY <1>2, <1>3, FS_AddElement
    <2>2. Cardinality(m \cup {c}) <= Cardinality(Calls)
      BY <1>1, <1>3, FS_Subset
    <2> QED
      BY <1>1, <1>2, <2>1, <2>2
  <1> HIDE DEF n
  <1>5. new[c] = n /\ n # 0 /\ \A d \in Calls : d # c => new[d] = ord[d]
    BY <1>1, <1>4
  <1>6. new \in [Calls -> 0..Cardinality(Calls)]
    BY <1>1, <1>4
  <1> HIDE DEF new
  <1>7. \A y : Met(new, y) = IF y = x THEN m \cup {c} ELSE Met(ord, y)
    BY <1>5 DEF Met
  <1>8. Cardinality(m \cup {c}) = n /\ n = Cardinality(m) + 1
    <2>1. Cardinality(m \cup {c}) = Cardinality(m) + 1
      BY <1>2, <1>3, FS_AddElement
    <2>2. Cardinality(m) \in Nat
      BY <1>2
    <2> HIDE DEF m
    <2>3. n = Cardinality(m) + 1
      BY <2>2 DEF n
    <2> QED
      BY <2>1, <2>3
  <1>9. \A y : Cardinality(Met(ord, y)) <= Cardinality(Met(new, y)) /\ Cardinality(Met(new, y)) \in Nat
    BY <1>2, <1>7, <1>8
  <1>10. \A d \in Calls : d # c /\ new[d] # 0 =>
            /\ ord[d] <= Cardinality(Met(ord, SiteOf[d]))
            /\ \A e \in Calls : SiteOf[e] = SiteOf[d] /\ ord[e] = ord[d] => e = d
    BY <1>5 DEF Numbered, Met
  <1>11. ASSUME NEW d \in Calls, d # c, SiteOf[d] = x, new[d] = n PROVE FALSE
    <2>1. ord[d] = n
      BY <1>5, <1>11
    <2>2. n <= Cardinality(m)
      BY <1>5, <1>10, <1>11, <2>1
    <2> QED
      BY <1>2, <1>8, <2>2
  <1>12. ASSUME NEW d \in Calls, new[d] # 0
         PROVE  /\ new[d] <= Cardinality(Met(new, SiteOf[d]))
                /\ \A e \in Calls : SiteOf[e] = SiteOf[d] /\ new[e] = new[d] => e = d
    <2>1. CASE d = c
      <3>1. new[d] = n /\ Cardinality(Met(new, SiteOf[d])) = n
        BY <1>5, <1>7, <1>8, <2>1
      <3>2. n <= n
        BY <1>1, <1>4
      <3> QED
        BY <1>11, <2>1, <3>1, <3>2
    <2>2. CASE d # c
      <3>1. new[d] = ord[d] /\ ord[d] \in Nat
        BY <1>1, <1>5, <2>2
      <3>2. /\ ord[d] <= Cardinality(Met(ord, SiteOf[d]))
            /\ Cardinality(Met(ord, SiteOf[d])) <= Cardinality(Met(new, SiteOf[d]))
            /\ Cardinality(Met(ord, SiteOf[d])) \in Nat /\ Cardinality(Met(new, SiteOf[d])) \in Nat
        BY <1>2, <1>9, <1>10, <1>12, <2>2
      <3>3. ord[d] <= Cardinality(Met(new, SiteOf[d]))
        BY <3>1, <3>2
      <3>4. \A e \in Calls : SiteOf[e] = SiteOf[d] /\ new[e] = new[d] => e = d
        <4> SUFFICES ASSUME NEW e \in Calls, SiteOf[e] = SiteOf[d], new[e] = new[d] PROVE e = d
          OBVIOUS
        <4>1. CASE e = c
          BY <1>5, <1>11, <2>2, <4>1
        <4>2. CASE e # c
          BY <1>5, <1>10, <1>12, <2>2, <4>2
        <4> QED
          BY <4>1, <4>2
      <3> QED
        BY <3>1, <3>3, <3>4
    <2> QED
      BY <2>1, <2>2
  <1>13. Numbered(new)
    BY <1>12 DEF Numbered, Met
  <1> QED
    BY <1>4, <1>6, <1>13 DEF new, n

\* The request of call c is taken, the call gets the next ordinal n of its site and
\* waits for its admission.
Enqueued(s, c, n, t) ==
    LET a == ActorOf[c]
        row == s.journal[<<SiteOf[c], n>>]
    IN  /\ t \in Engine
        /\ t.nodes = s.nodes /\ t.active = s.active /\ t.journal = s.journal
        /\ t.outcome = s.outcome
        /\ t.inst = [s.inst EXCEPT ![c] = n] /\ t.ready = Tail(s.ready)
        /\ \A b \in ActorSet \ {a} : t.actors[b] = s.actors[b]
        /\ t.actors[a].cur = s.actors[a].cur /\ t.actors[a].queue = s.actors[a].queue
        /\ \/ /\ row = None
              /\ t.actors[a].held = s.actors[a].held
              /\ t.actors[a].fresh = Append(s.actors[a].fresh, c)
           \/ /\ row # None
              /\ t.actors[a].fresh = s.actors[a].fresh
              /\ t.actors[a].held = {h \in s.actors[a].held : h[1] # row.seq} \cup {<<row.seq, c>>}

LEMMA EnqueuedKeeps ==
    ASSUME NEW ctl, NEW sent, NEW s, Good(s, ctl, sent), s.ready # <<>>,
           NEW c, c = Head(s.ready), NEW n, n = 1 + Cardinality(Met(s.inst, SiteOf[c])),
           NEW t, Enqueued(s, c, n, t)
    PROVE  Good(t, ctl, sent) /\ t.active = s.active
           /\ \A b \in ActorSet \ {ActorOf[c]} : t.actors[b] = s.actors[b]
  <1> DEFINE a == ActorOf[c]
             i == <<SiteOf[c], n>>
             row == s.journal[i]
  <1>1. s \in Engine /\ s.ready \in Seq(Calls) /\ IsInjective(s.ready)
        /\ s.inst \in [Calls -> 0..Cardinality(Calls)] /\ Numbered(s.inst)
    BY FieldsAre DEF Good, Served
  <1>2. /\ c \in Calls /\ Tail(s.ready) \in Seq(Calls) /\ IsInjective(Tail(s.ready))
        /\ Range(s.ready) = Range(Tail(s.ready)) \cup {c} /\ c \notin Range(Tail(s.ready))
    BY <1>1, TailFacts
  <1>3. s.inst[c] = 0 /\ s.nodes[c] = None /\ s.outcome[c] = None
        /\ \A p \in After[c] : s.outcome[p] # None
    <2>1. s.inst[c] = 0 /\ \A p \in After[c] : s.outcome[p] # None
      BY <1>2 DEF Good, Served
    <2> QED
      BY <1>2, <2>1 DEF Good, Served
  <1>4. n \in 1..Cardinality(Calls) /\ Numbered([s.inst EXCEPT ![c] = n]) /\ n # 0
    <2>1. n \in 1..Cardinality(Calls) /\ Numbered([s.inst EXCEPT ![c] = n])
      BY <1>1, <1>2, <1>3, NextOrdinal
    <2> QED
      BY <2>1, ConstantsAre
  <1>5. a \in ActorSet
    BY <1>2, CallsAre
  <1>6. /\ t \in Engine
        /\ t.nodes = s.nodes /\ t.active = s.active /\ t.journal = s.journal
        /\ t.outcome = s.outcome
        /\ t.inst = [s.inst EXCEPT ![c] = n] /\ t.ready = Tail(s.ready)
        /\ \A b \in ActorSet \ {a} : t.actors[b] = s.actors[b]
        /\ t.actors[a].cur = s.actors[a].cur /\ t.actors[a].queue = s.actors[a].queue
        /\ \/ /\ row = None
              /\ t.actors[a].held = s.actors[a].held
              /\ t.actors[a].fresh = Append(s.actors[a].fresh, c)
           \/ /\ row # None
              /\ t.actors[a].fresh = s.actors[a].fresh
              /\ t.actors[a].held = {h \in s.actors[a].held : h[1] # row.seq} \cup {<<row.seq, c>>}
    BY DEF Enqueued
  <1> HIDE DEF row, a
  <1>7. t.inst[c] = n /\ \A d \in Calls : d # c => t.inst[d] = s.inst[d]
    BY <1>1, <1>2, <1>6
  <1>8. \A d \in Calls : d # c => InstanceIn(t, d) = InstanceIn(s, d)
    BY <1>7 DEF InstanceIn
  <1>9. InstanceIn(t, c) = i
    BY <1>7 DEF InstanceIn
  <1>10. \A d : Runs(t, d) = Runs(s, d)
    BY <1>6 DEF Runs
  <1>11. Between(t, c) /\ \A d \in Calls : d # c => (Between(t, d) <=> Between(s, d))
    BY <1>3, <1>4, <1>6, <1>7 DEF Between
  <1>12. \A b \in ActorSet : t.actors[b].cur = s.actors[b].cur /\ t.actors[b].queue = s.actors[b].queue
    BY <1>6
  <1>13. \A b \in ActorSet :
            /\ IsInjective(s.actors[b].fresh) /\ s.actors[b].fresh \in Seq(Calls)
            /\ \A d \in Range(s.actors[b].fresh) :
                  d \in Calls /\ d # c /\ ActorOf[d] = b /\ Between(s, d)
                  /\ s.journal[InstanceIn(s, d)] = None
            /\ \A h \in s.actors[b].held :
                  /\ h[2] \in Calls /\ h[2] # c /\ ActorOf[h[2]] = b /\ Between(s, h[2])
                  /\ s.journal[InstanceIn(s, h[2])] # None
                  /\ \A g \in s.actors[b].held : g[2] = h[2] => g = h
    <2> TAKE b \in ActorSet
    <2>1. /\ IsInjective(s.actors[b].fresh)
          /\ \A d \in Range(s.actors[b].fresh) :
                ActorOf[d] = b /\ Between(s, d) /\ s.journal[InstanceIn(s, d)] = None
          /\ \A h \in s.actors[b].held :
                /\ ActorOf[h[2]] = b /\ Between(s, h[2])
                /\ s.journal[InstanceIn(s, h[2])] # None
                /\ \A g \in s.actors[b].held : g[2] = h[2] => g = h
      BY DEF Good, Pending
    <2>2. ~Between(s, c)
      BY <1>3 DEF Between
    <2>3. /\ s.actors[b].fresh \in Seq(Calls) /\ Range(s.actors[b].fresh) \subseteq Calls
          /\ \A h \in s.actors[b].held : h[2] \in Calls
      BY <1>1, PendingAre
    <2> QED
      BY <2>1, <2>2, <2>3
  <1>14. /\ Range(Append(s.actors[a].fresh, c)) = Range(s.actors[a].fresh) \cup {c}
         /\ IsInjective(Append(s.actors[a].fresh, c))
    <2>1. /\ s.actors[a].fresh \in Seq(Calls) /\ IsInjective(s.actors[a].fresh)
          /\ c \notin Range(s.actors[a].fresh)
      BY <1>5, <1>13
    <2> QED
      BY <1>2, <2>1, AppendFacts
  <1>15. Placed(t)
    <2>1. {b \in ActorSet : t.actors[b].cur # None} = {b \in ActorSet : s.actors[b].cur # None}
      BY <1>12
    <2>2. Placed(s)
      BY DEF Good
    <2>3. t.active = Cardinality({b \in ActorSet : t.actors[b].cur # None})
      BY <1>6, <2>1, <2>2 DEF Placed
    <2>4. \A d \in Calls : Runs(t, d) =>
             d = t.actors[ActorOf[d]].cur \/ d \in Range(t.actors[ActorOf[d]].queue)
      BY <1>10, <1>12, <2>2, CallsAre DEF Placed
    <2>5. ASSUME NEW b \in ActorSet
          PROVE  /\ t.actors[b].cur # None =>
                      ActorOf[t.actors[b].cur] = b /\ Runs(t, t.actors[b].cur)
                 /\ IsInjective(t.actors[b].queue)
                 /\ \A d \in Range(t.actors[b].queue) :
                      ActorOf[d] = b /\ Runs(t, d) /\ d # t.actors[b].cur
      BY <1>10, <1>12, <2>2 DEF Placed
    <2> QED
      BY <2>3, <2>4, <2>5 DEF Placed
  <1>16. \A b \in ActorSet :
            /\ IsInjective(t.actors[b].fresh)
            /\ \A d \in Range(t.actors[b].fresh) :
                  d \in Range(s.actors[b].fresh) \/ (d = c /\ b = a /\ row = None)
            /\ \A h \in t.actors[b].held :
                  h \in s.actors[b].held \/ (h = <<row.seq, c>> /\ b = a /\ row # None)
    <2> TAKE b \in ActorSet
    <2>1. CASE b # a
      <3>1. t.actors[b] = s.actors[b]
        BY <1>6, <2>1
      <3> QED
        BY <1>13, <3>1
    <2>2. CASE b = a /\ row = None
      BY <1>6, <1>13, <1>14, <2>2
    <2>3. CASE b = a /\ row # None
      BY <1>6, <1>13, <2>3
    <2> QED
      BY <2>1, <2>2, <2>3
  <1>17. Pending(t)
    <2> SUFFICES ASSUME NEW b \in ActorSet
                 PROVE  /\ \A d \in Range(t.actors[b].fresh) :
                              ActorOf[d] = b /\ Between(t, d) /\ t.journal[InstanceIn(t, d)] = None
                        /\ \A h \in t.actors[b].held :
                              /\ ActorOf[h[2]] = b /\ Between(t, h[2])
                              /\ t.journal[InstanceIn(t, h[2])] # None
                              /\ \A g \in t.actors[b].held : g[2] = h[2] => g = h
      BY <1>16 DEF Pending
    <2>1. ASSUME NEW d \in Range(t.actors[b].fresh)
          PROVE  ActorOf[d] = b /\ Between(t, d) /\ t.journal[InstanceIn(t, d)] = None
      <3>1. CASE d \in Range(s.actors[b].fresh)
        BY <1>6, <1>8, <1>11, <1>13, <3>1, SMTT(30)
      <3>2. CASE d = c /\ b = a /\ row = None
        BY <1>6, <1>9, <1>11, <3>2 DEF a, row
      <3> QED
        BY <1>16, <3>1, <3>2
    <2>2. ASSUME NEW h \in t.actors[b].held
          PROVE  /\ ActorOf[h[2]] = b /\ Between(t, h[2]) /\ t.journal[InstanceIn(t, h[2])] # None
      <3>1. CASE h \in s.actors[b].held
        BY <1>6, <1>8, <1>11, <1>13, <3>1, SMTT(30)
      <3>2. CASE h = <<row.seq, c>> /\ b = a /\ row # None
        BY <1>6, <1>9, <1>11, <3>2 DEF a, row
      <3> QED
        BY <1>16, <3>1, <3>2
    <2>3. ASSUME NEW h \in t.actors[b].held, NEW g \in t.actors[b].held, g[2] = h[2] PROVE g = h
      <3>1. \A f \in s.actors[b].held : f[2] # c
        BY <1>13
      <3>2. h \in s.actors[b].held \/ (h = <<row.seq, c>>)
        BY <1>16
      <3>3. g \in s.actors[b].held \/ (g = <<row.seq, c>>)
        BY <1>16
      <3> QED
        BY <1>13, <2>3, <3>1, <3>2, <3>3
    <2> QED
      BY <2>1, <2>2, <2>3
  <1>18. Served(t)
    <2>1. \A d \in Calls : t.nodes[d] # None =>
            /\ t.inst[d] # 0 /\ t.outcome[d] = None
            /\ t.journal[InstanceIn(t, d)] # None
            /\ t.journal[InstanceIn(t, d)].status = "running"
      <3>1. \A d \in Calls : t.nodes[d] # None => d # c /\ s.nodes[d] # None
        BY <1>3, <1>6
      <3> QED
        BY <1>6, <1>7, <1>8, <3>1, SMTT(30) DEF Good, Served
    <2>2. \A d \in Calls : t.outcome[d] # None => t.inst[d] # 0
      BY <1>3, <1>6, <1>7, SMTT(30) DEF Good, Served
    <2>3. \A d \in Calls : t.inst[d] # 0 \/ d \in Range(t.ready) =>
              \A p \in After[d] : t.outcome[p] # None
      BY <1>2, <1>3, <1>6, <1>7, SMTT(30) DEF Good, Served
    <2>4. IsInjective(t.ready) /\ \A d \in Range(t.ready) : t.inst[d] = 0
      <3>1. Range(s.ready) \subseteq Calls
        BY <1>1, RangeOfSeq
      <3> QED
        BY <1>2, <1>6, <1>7, <3>1 DEF Good, Served
    <2> QED
      BY <2>1, <2>2, <2>3, <2>4 DEF Served
  <1>19. Steered(t, ctl)
    <2>1. \A d \in Calls : t.nodes[d] # None => d # c /\ s.nodes[d] # None
      BY <1>3, <1>6
    <2> QED
      BY <1>6, <1>8, <2>1 DEF Good, Steered
  <1>20. Turning(t, sent)
    <2> SUFFICES ASSUME NEW x \in sent
                 PROVE  /\ x \in Calls \X Attempts /\ t.inst[x[1]] # 0
                        /\ \A b \in ActorSet : x[1] \notin Range(t.actors[b].fresh)
                                              /\ \A h \in t.actors[b].held : h[2] # x[1]
                        /\ t.nodes[x[1]] # None =>
                              /\ x[2] <= t.nodes[x[1]].attempt
                              /\ x[2] = t.nodes[x[1]].attempt /\ ~t.nodes[x[1]].paused =>
                                    t.actors[ActorOf[x[1]]].cur = x[1]
      BY DEF Turning
    <2>1. /\ x \in Calls \X Attempts /\ s.inst[x[1]] # 0
          /\ \A b \in ActorSet : x[1] \notin Range(s.actors[b].fresh)
                                /\ \A h \in s.actors[b].held : h[2] # x[1]
          /\ s.nodes[x[1]] # None =>
                /\ x[2] <= s.nodes[x[1]].attempt
                /\ x[2] = s.nodes[x[1]].attempt /\ ~s.nodes[x[1]].paused =>
                      s.actors[ActorOf[x[1]]].cur = x[1]
      BY DEF Good, Turning
    <2>2. x[1] \in Calls /\ x[1] # c /\ t.inst[x[1]] # 0 /\ ActorOf[x[1]] \in ActorSet
      BY <1>3, <1>7, <2>1, CallsAre
    <2>3. \A b \in ActorSet : x[1] \notin Range(t.actors[b].fresh)
                             /\ \A h \in t.actors[b].held : h[2] # x[1]
      <3> TAKE b \in ActorSet
      <3>1. x[1] \notin Range(t.actors[b].fresh)
        BY <1>16, <2>1, <2>2
      <3>2. \A h \in t.actors[b].held : h \in s.actors[b].held \/ h = <<row.seq, c>>
        BY <1>16
      <3>3. <<row.seq, c>>[2] # x[1] /\ \A h \in s.actors[b].held : h[2] # x[1]
        BY <2>1, <2>2
      <3> QED
        BY <3>1, <3>2, <3>3
    <2> QED
      BY <1>6, <1>12, <2>1, <2>2, <2>3
  <1> QED
    BY <1>4, <1>6, <1>15, <1>17, <1>18, <1>19, <1>20 DEF Good, a
-----------------------------------------------------------------------------
(* The invariant and the actions. *)

\* Fewer turns may be at the driver, and those of the current asks.
LEMMA TurnsKeep ==
    ASSUME NEW ctl, NEW sent, NEW s, Good(s, ctl, sent), NEW more,
           \A x \in more : x \in sent \/
              \E a \in ActorSet : s.actors[a].cur # None
                                  /\ x = <<s.actors[a].cur, s.nodes[s.actors[a].cur].attempt>>
    PROVE  Good(s, ctl, more)
  <1> SUFFICES ASSUME NEW x \in more
               PROVE  /\ x \in Calls \X Attempts /\ s.inst[x[1]] # 0
                      /\ \A a \in ActorSet : x[1] \notin Range(s.actors[a].fresh)
                                            /\ \A h \in s.actors[a].held : h[2] # x[1]
                      /\ s.nodes[x[1]] # None =>
                            /\ x[2] <= s.nodes[x[1]].attempt
                            /\ x[2] = s.nodes[x[1]].attempt /\ ~s.nodes[x[1]].paused =>
                                  s.actors[ActorOf[x[1]]].cur = x[1]
    BY DEF Good, Turning
  <1>1. CASE x \in sent
    BY <1>1 DEF Good, Turning
  <1>2. CASE x \notin sent
    <2>1. PICK a \in ActorSet : s.actors[a].cur # None
                                /\ x = <<s.actors[a].cur, s.nodes[s.actors[a].cur].attempt>>
      BY <1>2
    <2> DEFINE c == s.actors[a].cur
    <2>2. /\ s \in Engine /\ c \in Calls /\ ActorOf[c] = a /\ s.nodes[c] # None
      BY <2>1, PendingAre DEF Good, Placed, Runs
    <2>3. /\ s.inst[c] # 0 /\ s.nodes[c] \in Node
          /\ \A b \in ActorSet :
                c \notin Range(s.actors[b].fresh) /\ \A h \in s.actors[b].held : h[2] # c
      BY <2>2, LiveIsAdmitted
    <2>4. s.nodes[c].attempt \in Attempts /\ s.nodes[c].attempt <= s.nodes[c].attempt
      <3>1. s.nodes[c].attempt \in Attempts
        BY <2>3 DEF Node
      <3> QED
        BY <3>1, ConstantsAre DEF Attempts
    <2>5. x[1] = c /\ x[2] = s.nodes[c].attempt
      BY <2>1
    <2> HIDE DEF c
    <2>6. x \in Calls \X Attempts
      BY <2>1, <2>2, <2>4 DEF c
    <2>7. s.actors[ActorOf[c]].cur = c
      BY <2>2 DEF c
    <2> QED
      BY <2>2, <2>3, <2>4, <2>5, <2>6, <2>7
  <1> QED
    BY <1>1, <1>2

\* The assignments of an action make the state that was computed.
LEMMA BecomeIs ==
    ASSUME NEW s, s \in Engine, NEW more, Become(s, more)
    PROVE  Now' = s /\ turns' = more \cup Sent(s) /\ session' = Opened(s)
  BY DEF Become, Now, Engine

\* What an action has to show of the state t its handler ends in.
LEMMA BecomeKeeps ==
    ASSUME Inv, run = "running", NEW t, NEW more, Good(t, control', more), Pumped(t),
           Become(t, more), run' = run, lives' = lives, control' \in [Instances -> Opt(Control)]
    PROVE  Inv'
  <1>1. t \in Engine
    BY DEF Good
  <1>2. Now' = t /\ turns' = more \cup Sent(t) /\ session' = Opened(t)
    BY <1>1, BecomeIs
  <1>3. Good(t, control', turns')
    <2>1. \A x \in turns' : x \in more \/
              \E a \in ActorSet : t.actors[a].cur # None
                                  /\ x = <<t.actors[a].cur, t.nodes[t.actors[a].cur].attempt>>
      BY <1>2 DEF Sent
    <2> QED
      BY <2>1, TurnsKeep
  <1>4. turns' \subseteq Calls \X Attempts
    BY <1>3 DEF Good, Turning
  <1>5. session' \in [ActorSet -> {"none", "opening", "open", "failed"}]
    BY <1>2 DEF Inv, Around, Opened
  <1>6. Around'
    BY <1>4, <1>5 DEF Inv, Around
  <1>7. Obeyed(t.journal, control')
    BY <1>3 DEF Good
  <1>8. journal' = t.journal
    BY <1>2 DEF Now
  <1> QED
    BY <1>1, <1>2, <1>3, <1>6, <1>7, <1>8 DEF Inv

LEMMA NowIs ==
    /\ Now.actors = actors /\ Now.nodes = nodes /\ Now.active = active /\ Now.inst = inst
    /\ Now.journal = journal /\ Now.outcome = outcome /\ Now.ready = ready
  BY DEF Now

LEMMA SettleKeeps ==
    ASSUME Inv, run = "running", NEW c \in Calls, NEW good \in BOOLEAN,
           nodes[c] # None, ~nodes[c].paused, actors[ActorOf[c]].cur = c,
           Settle(c, nodes[c].attempt, good)
    PROVE  Inv'
  <1> DEFINE k == nodes[c].attempt
             t == Settled(Now, c, k, good)
             more == turns \ {<<c, k>>}
  <1>1. Good(Now, control, turns)
    BY DEF Inv
  <1>2. Good(t, control, turns) /\ Pumped(t)
    BY <1>1, NowIs, SettledKeeps
  <1>3. Become(t, more) /\ run' = run /\ control' = control /\ lives' = lives
    BY DEF Settle
  <1> HIDE DEF t
  <1>4. Good(t, control, more)
    BY <1>2, TurnsKeep
  <1>5. control' \in [Instances -> Opt(Control)] /\ Good(t, control', more)
    BY <1>3, <1>4 DEF Inv, Around
  <1> HIDE DEF more
  <1> QED
    BY <1>2, <1>3, <1>5, BecomeKeeps

\* A report that is not dropped is of the current ask of its actor.
LEMMA ReportsCurrent ==
    ASSUME Inv, run = "running", NEW c, NEW k, <<c, k>> \in turns, Live(c, k)
    PROVE  /\ c \in Calls /\ nodes[c] # None /\ ~nodes[c].paused /\ k = nodes[c].attempt
           /\ actors[ActorOf[c]].cur = c
  <1>1. nodes[c] # None /\ ~nodes[c].paused /\ k = nodes[c].attempt
    BY DEF Live, CurrentAttempt
  <1>2. Turning(Now, turns)
    BY DEF Inv, Good
  <1> DEFINE x == <<c, k>>
  <1>3. x \in turns /\ x[1] = c /\ x[2] = k
    OBVIOUS
  <1> HIDE DEF x
  <1>4. c \in Calls /\ actors[ActorOf[c]].cur = c
    BY <1>1, <1>2, <1>3, NowIs DEF Turning
  <1> QED
    BY <1>1, <1>4

LEMMA AcceptKeeps ==
    ASSUME Inv, run = "running", NEW c, NEW k, <<c, k>> \in turns, Accept(c, k)
    PROVE  Inv'
  <1> DEFINE good == TRUE
  <1>1. Live(c, k) /\ Settle(c, k, good) /\ good \in BOOLEAN
    BY DEF Accept
  <1> HIDE DEF good
  <1> QED
    BY <1>1, ReportsCurrent, SettleKeeps

LEMMA FailKeeps ==
    ASSUME Inv, run = "running", NEW c, NEW k, <<c, k>> \in turns, Fail(c, k)
    PROVE  Inv'
  <1> DEFINE good == FALSE
  <1>1. Live(c, k) /\ Settle(c, k, good) /\ good \in BOOLEAN
    BY DEF Fail
  <1> HIDE DEF good
  <1> QED
    BY <1>1, ReportsCurrent, SettleKeeps

LEMMA FailDispatchKeeps ==
    ASSUME Inv, NEW a \in ActorSet, FailDispatch(a)
    PROVE  Inv'
  <1> DEFINE good == FALSE
             c == actors[a].cur
  <1>1. run = "running" /\ c # None /\ Settle(c, nodes[c].attempt, good) /\ good \in BOOLEAN
    BY DEF FailDispatch
  <1>2. Good(Now, control, turns)
    BY <1>1 DEF Inv
  <1>3. Now.actors[a].cur \in Calls \cup {None}
    BY <1>2, PendingAre DEF Good
  <1>4. c \in Calls /\ ActorOf[c] = a /\ nodes[c] # None /\ ~nodes[c].paused
    BY <1>1, <1>2, <1>3, NowIs DEF Good, Placed, Runs
  <1>5. actors[ActorOf[c]].cur = c
    BY <1>4
  <1> HIDE DEF good, c
  <1> QED
    BY <1>1, <1>4, <1>5, SettleKeeps

\* The budgets of a node are all that changes.
LEMMA SendBackKeeps ==
    ASSUME Inv, run = "running", NEW c, NEW k, <<c, k>> \in turns, SendBack(c, k)
    PROVE  Inv'
  <1>0. Good(Now, control, turns) /\ Pumped(Now)
    BY DEF Inv
  <1>1. c \in Calls /\ nodes[c] # None
    BY ReportsCurrent DEF SendBack
  <1>2. nodes \in [Calls -> Opt(Node)]
    BY <1>0, FieldsAre, NowIs DEF Good
  <1>3. nodes[c] \in Node
    BY <1>1, <1>2 DEF Opt
  <1>4. PICK new \in Node : /\ nodes' = [nodes EXCEPT ![c] = new]
                            /\ new.attempt = nodes[c].attempt /\ new.paused = nodes[c].paused
    <2> DEFINE n == nodes[c]
               n1 == [n EXCEPT !.repairs = n.repairs - 1]
               n2 == [n EXCEPT !.nudges = n.nudges - 1]
    <2>1. CASE n.repairs > 0 /\ nodes' = [nodes EXCEPT ![c].repairs = @ - 1]
      <3>1. nodes' = [nodes EXCEPT ![c] = n1]
        BY <2>1
      <3> HIDE DEF n
      <3>2. n1 \in Node /\ n1.attempt = n.attempt /\ n1.paused = n.paused
        <4>1. n \in Node
          BY <1>3 DEF n
        <4>2. n.repairs - 1 \in 0..RepairAttempts
          BY <2>1, <4>1, ConstantsAre DEF Node
        <4> QED
          BY <4>1, <4>2 DEF Node
      <3> HIDE DEF n1
      <3> QED
        BY <3>1, <3>2 DEF n
    <2>2. CASE n.nudges > 0 /\ nodes' = [nodes EXCEPT ![c].nudges = @ - 1]
      <3>1. nodes' = [nodes EXCEPT ![c] = n2]
        BY <2>2
      <3> HIDE DEF n
      <3>2. n2 \in Node /\ n2.attempt = n.attempt /\ n2.paused = n.paused
        <4>1. n \in Node
          BY <1>3 DEF n
        <4>2. n.nudges - 1 \in 0..NudgeAttempts
          BY <2>2, <4>1, ConstantsAre DEF Node
        <4> QED
          BY <4>1, <4>2 DEF Node
      <3> HIDE DEF n2
      <3> QED
        BY <3>1, <3>2 DEF n
    <2> QED
      BY <2>1, <2>2 DEF SendBack
  <1> DEFINE t == Now'
  <1>5. /\ t.nodes = [nodes EXCEPT ![c] = new]
        /\ t.actors = actors /\ t.active = active /\ t.inst = inst /\ t.journal = journal
        /\ t.outcome = outcome /\ t.ready = ready
    BY <1>4 DEF Now, SendBack
  <1>6. t \in Engine
    <2>1. [nodes EXCEPT ![c] = new] \in [Calls -> Opt(Node)]
      BY <1>2, <1>4 DEF Opt
    <2>2. Now \in Engine
      BY <1>0 DEF Good
    <2> QED
      BY <1>4, <2>1, <2>2 DEF Engine, Now, SendBack
  <1> HIDE DEF t
  <1>7. t.nodes[c] = new /\ \A d \in Calls : d # c => t.nodes[d] = nodes[d]
    BY <1>1, <1>2, <1>5
  <1>8. new # None
    BY <1>4, ConstantsAre
  <1>9. \A d \in Calls : /\ (t.nodes[d] = None) <=> (nodes[d] = None)
                         /\ t.nodes[d].attempt = nodes[d].attempt
                         /\ t.nodes[d].paused = nodes[d].paused
    BY <1>1, <1>4, <1>7, <1>8
  <1>10. \A d \in Calls : /\ (Runs(t, d) <=> Runs(Now, d)) /\ (Between(t, d) <=> Between(Now, d))
    BY <1>5, <1>9, NowIs DEF Runs, Between
  <1>11. \A d : InstanceIn(t, d) = InstanceIn(Now, d)
    BY <1>5, NowIs DEF InstanceIn
  <1>12. \A b \in ActorSet : /\ Range(actors[b].fresh) \subseteq Calls
                             /\ Range(actors[b].queue) \subseteq Calls
                             /\ \A h \in actors[b].held : h[2] \in Calls
                             /\ actors[b].cur \in Calls \cup {None}
    BY <1>0, PendingAre, NowIs DEF Good
  <1>13. Placed(t)
    <2>1. Placed(Now)
      BY <1>0 DEF Good
    <2>2. \A d \in Calls : Runs(t, d) =>
             d = t.actors[ActorOf[d]].cur \/ d \in Range(t.actors[ActorOf[d]].queue)
      BY <1>5, <1>10, <2>1, NowIs DEF Placed
    <2>3. t.active = Cardinality({b \in ActorSet : t.actors[b].cur # None})
      BY <1>5, <2>1, NowIs DEF Placed
    <2>4. ASSUME NEW b \in ActorSet
          PROVE  /\ t.actors[b].cur # None =>
                      ActorOf[t.actors[b].cur] = b /\ Runs(t, t.actors[b].cur)
                 /\ IsInjective(t.actors[b].queue)
                 /\ \A d \in Range(t.actors[b].queue) :
                      ActorOf[d] = b /\ Runs(t, d) /\ d # t.actors[b].cur
      BY <1>5, <1>10, <1>12, <2>1, NowIs DEF Placed
    <2> QED
      BY <2>2, <2>3, <2>4 DEF Placed
  <1>14. Pending(t)
    BY <1>0, <1>5, <1>10, <1>11, <1>12, NowIs DEF Good, Pending
  <1>15. Served(t)
    BY <1>0, <1>5, <1>9, <1>11, NowIs DEF Good, Served
  <1>16. Steered(t, control) /\ Obeyed(t.journal, control) /\ Numbered(t.inst)
    BY <1>0, <1>5, <1>9, <1>11, NowIs DEF Good, Steered
  <1>17. Turning(t, turns)
    <2>1. \A x \in turns : x[1] \in Calls
      BY <1>0 DEF Good, Turning
    <2> QED
      BY <1>0, <1>5, <1>9, <2>1, NowIs DEF Good, Turning
  <1>18. Good(t, control, turns)
    BY <1>6, <1>13, <1>14, <1>15, <1>16, <1>17 DEF Good
  <1>19. Pumped(t)
    BY <1>0, <1>5, NowIs DEF Pumped, Idle, Room
  <1>20. control' = control /\ turns' = turns /\ journal' = t.journal /\ Around'
    BY <1>5 DEF SendBack, Inv, Around
  <1>21. Good(Now', control', turns') /\ Pumped(Now')
    BY <1>18, <1>19, <1>20 DEF t
  <1>22. Obeyed(journal', control')
    BY <1>16, <1>20
  <1> QED
    BY <1>6, <1>20, <1>21, <1>22 DEF Inv, t

\* Steps that leave the engine's state alone.
LEMMA SameEngine ==
    ASSUME Inv, run = "running", run' = run, Now' = Now, control' = control, Around',
           \A x \in turns' : x \in turns \/
              \E a \in ActorSet : actors[a].cur # None
                                  /\ x = <<actors[a].cur, nodes[actors[a].cur].attempt>>
    PROVE  Inv'
  <1>1. Good(Now, control, turns) /\ Pumped(Now)
    BY DEF Inv
  <1>2. Good(Now, control, turns')
    BY <1>1, NowIs, TurnsKeep
  <1>3. journal' = journal
    BY DEF Now
  <1>4. Good(Now', control', turns') /\ Pumped(Now') /\ Now' \in Engine
    BY <1>1, <1>2 DEF Good
  <1>5. Obeyed(journal', control')
    BY <1>3 DEF Inv
  <1> QED
    BY <1>4, <1>5 DEF Inv

LEMMA DropKeeps ==
    ASSUME Inv, run = "running", NEW c, NEW k, Drop(c, k)
    PROVE  Inv'
  <1>1. Now' = Now /\ control' = control /\ Around' /\ run' = run /\ turns' \subseteq turns
    BY DEF Drop, Now, Inv, Around
  <1> QED
    BY <1>1, SameEngine

LEMMA SessionKeeps ==
    ASSUME Inv, NEW a \in ActorSet, OpenSession(a) \/ FailSession(a)
    PROVE  Inv'
  <1>0. run = "running" /\ Good(Now, control, turns)
    BY DEF Inv, OpenSession, FailSession
  <1>1. Now' = Now /\ control' = control /\ run' = run /\ lives' = lives
        /\ session' \in [ActorSet -> {"none", "opening", "open", "failed"}]
    BY DEF OpenSession, FailSession, Now, Inv, Around
  <1>2. \A x \in turns' : x \in turns \/
              \E b \in ActorSet : actors[b].cur # None
                                  /\ x = <<actors[b].cur, nodes[actors[b].cur].attempt>>
    BY DEF OpenSession, FailSession
  <1>3. turns' \subseteq Calls \X Attempts
    <2>1. Good(Now, control, turns')
      BY <1>0, <1>2, NowIs, TurnsKeep
    <2> QED
      BY <2>1 DEF Good, Turning
  <1>4. Around'
    BY <1>1, <1>3 DEF Inv, Around
  <1> QED
    BY <1>0, <1>1, <1>2, <1>4, SameEngine

LEMMA ControlIs ==
    ASSUME NEW ctl \in [Instances -> Opt(Control)], NEW i \in Instances, NEW k \in Attempts
    PROVE  /\ MarkStopped(ctl, i, k) \in [Instances -> Opt(Control)]
           /\ MarkRetried(ctl, i, k) \in [Instances -> Opt(Control)]
  BY DEF MarkStopped, MarkRetried, Control, Opt

LEMMA PauseKeeps ==
    ASSUME Inv, NEW c \in Calls, Pause(c)
    PROVE  Inv'
  <1> DEFINE t == Paused(Now, c)
             k == nodes[c].attempt
             i == InstanceIn(Now, c)
  <1>1. /\ run = "running" /\ nodes[c] # None /\ ~nodes[c].paused
        /\ Become(t, turns) /\ run' = run /\ lives' = lives
        /\ control' = MarkStopped(control, i, k)
    BY DEF Pause, Stoppable, Marked, MarkStopped
  <1>2. Good(Now, control, turns) /\ control \in [Instances -> Opt(Control)]
    BY <1>1 DEF Inv, Around
  <1>3. i \in Instances /\ k \in Attempts
    BY <1>1, <1>2, LiveIsAdmitted, NowIs DEF Node
  <1>4. Good(t, MarkStopped(control, i, k), turns) /\ Pumped(t)
    BY <1>1, <1>2, PausedKeeps, NowIs
  <1> HIDE DEF t, i, k
  <1>5. control' \in [Instances -> Opt(Control)] /\ Good(t, control', turns)
    BY <1>1, <1>2, <1>3, <1>4, ControlIs
  <1> QED
    BY <1>1, <1>4, <1>5, BecomeKeeps

LEMMA RetryKeeps ==
    ASSUME Inv, NEW c \in Calls, Retry(c)
    PROVE  Inv'
  <1> DEFINE s == IF nodes[c].paused THEN Now ELSE Paused(Now, c)
             t == Retried(s, c)
             k == nodes[c].attempt
             i == InstanceIn(Now, c)
             new == MarkRetried(control, i, k + 1)
  <1>1. /\ run = "running" /\ nodes[c] # None /\ k < MaxAttempt
        /\ Become(t, turns) /\ run' = run /\ lives' = lives
        /\ control' = new
    BY DEF Retry, Stoppable, Marked, MarkRetried
  <1>2. Good(Now, control, turns) /\ control \in [Instances -> Opt(Control)] /\ Pumped(Now)
    BY <1>1 DEF Inv, Around
  <1>3. i \in Instances /\ k \in Attempts /\ k + 1 \in Attempts
    <2>1. i \in Instances /\ k \in Attempts
      BY <1>1, <1>2, LiveIsAdmitted, NowIs DEF Node
    <2> HIDE DEF k
    <2> QED
      BY <1>1, <2>1, ConstantsAre DEF Attempts
  <1>4. PICK ctl \in [Instances -> Opt(Control)] :
            /\ Good(s, ctl, turns) /\ Pumped(s)
            /\ s.nodes[c] # None /\ s.nodes[c].paused /\ s.nodes[c].attempt = k
            /\ InstanceIn(s, c) = i /\ MarkRetried(ctl, i, k + 1) = new
    <2>1. CASE nodes[c].paused
      BY <1>1, <1>2, <2>1, NowIs
    <2>2. CASE ~nodes[c].paused
      <3> DEFINE u == Paused(Now, c)
                 mid == MarkStopped(control, i, k)
      <3>1. /\ Good(u, mid, turns) /\ Pumped(u)
            /\ u.nodes[c] # None /\ u.nodes[c].paused /\ u.nodes[c].attempt = k
            /\ u.inst = Now.inst
        BY <1>1, <1>2, <2>2, PausedKeeps, NowIs
      <3>2. s = u
        BY <2>2
      <3>3. InstanceIn(u, c) = i
        BY <3>1 DEF InstanceIn
      <3>4. mid \in [Instances -> Opt(Control)]
        <4> HIDE DEF i, k
        <4> QED
          BY <1>2, <1>3, ControlIs
      <3>5. MarkRetried(mid, i, k + 1) = new
        <4> HIDE DEF i, k
        <4> QED
          BY <1>2, <1>3 DEF MarkRetried, MarkStopped
      <3> HIDE DEF s, u, mid, new
      <3> QED
        BY <3>1, <3>2, <3>3, <3>4, <3>5
    <2> QED
      BY <2>1, <2>2
  <1> HIDE DEF s, i, k, new
  <1>5. Good(t, new, turns) /\ Pumped(t)
    <2>1. s.nodes[c].attempt < MaxAttempt
      BY <1>1, <1>4
    <2> QED
      BY <1>4, <2>1, RetriedKeeps
  <1> HIDE DEF t
  <1>6. control' \in [Instances -> Opt(Control)] /\ Good(t, control', turns)
    BY <1>1, <1>2, <1>3, <1>5, ControlIs DEF new
  <1> QED
    BY <1>1, <1>5, <1>6, BecomeKeeps

\* The first request of the pipe.
LEMMA RequestIs ==
    ASSUME Inv, run = "running", ready # <<>>, NEW c, c = Head(ready)
    PROVE  /\ c \in Calls /\ ActorOf[c] \in ActorSet
           /\ NextInstance(c) = <<SiteOf[c], 1 + Cardinality(Met(inst, SiteOf[c]))>>
           /\ 1 + Cardinality(Met(inst, SiteOf[c])) \in 1..Cardinality(Calls)
           /\ NextInstance(c) \in Instances
           /\ Taken(c, NextInstance(c)) \in Engine
           /\ LET t == Taken(c, NextInstance(c))
              IN  /\ t.actors = actors /\ t.nodes = nodes /\ t.active = active /\ t.journal = journal
                  /\ t.outcome = outcome /\ t.ready = Tail(ready)
                  /\ t.inst = [inst EXCEPT ![c] = 1 + Cardinality(Met(inst, SiteOf[c]))]
  <1> DEFINE n == 1 + Cardinality(Met(inst, SiteOf[c]))
             i == NextInstance(c)
             t == Taken(c, i)
  <1>1. Good(Now, control, turns) /\ Now \in Engine
    BY DEF Inv, Good
  <1>2. ready \in Seq(Calls) /\ inst \in [Calls -> 0..Cardinality(Calls)]
    BY <1>1, FieldsAre, NowIs
  <1>3. c \in Calls /\ Tail(ready) \in Seq(Calls) /\ c \in Range(ready)
    BY <1>2, TailFacts
  <1>4. Numbered(inst) /\ inst[c] = 0
    BY <1>1, <1>3, NowIs DEF Good, Served
  <1>5. n \in 1..Cardinality(Calls) /\ [inst EXCEPT ![c] = n] \in [Calls -> 0..Cardinality(Calls)]
    BY <1>2, <1>3, <1>4, NextOrdinal
  <1>6. i = <<SiteOf[c], n>> /\ i[2] = n
    BY DEF NextInstance, Met
  <1>7. i \in Instances
    BY <1>3, <1>5, <1>6, CallsAre DEF Instances
  <1> HIDE DEF n, i
  <1>8. t = [Now EXCEPT !.inst = [Now.inst EXCEPT ![c] = n], !.ready = Tail(Now.ready)]
    BY <1>6 DEF Taken
  <1> HIDE DEF t
  <1>9. /\ t \in Engine /\ t.actors = Now.actors /\ t.nodes = Now.nodes /\ t.active = Now.active
        /\ t.journal = Now.journal /\ t.outcome = Now.outcome /\ t.ready = Tail(Now.ready)
        /\ t.inst = [Now.inst EXCEPT ![c] = n]
    <2> DEFINE s == Now
    <2>1. s \in Engine /\ t = [s EXCEPT !.inst = [s.inst EXCEPT ![c] = n], !.ready = Tail(s.ready)]
          /\ [s.inst EXCEPT ![c] = n] \in [Calls -> 0..Cardinality(Calls)]
          /\ Tail(s.ready) \in Seq(Calls)
      BY <1>1, <1>3, <1>5, <1>8, NowIs
    <2> HIDE DEF s
    <2>2. /\ t \in Engine /\ t.actors = s.actors /\ t.nodes = s.nodes /\ t.active = s.active
          /\ t.journal = s.journal /\ t.outcome = s.outcome /\ t.ready = Tail(s.ready)
          /\ t.inst = [s.inst EXCEPT ![c] = n]
      BY <2>1 DEF Engine
    <2> QED
      BY <2>2 DEF s
  <1>10. ActorOf[c] \in ActorSet
    BY <1>3, CallsAre
  <1> QED
    BY <1>3, <1>5, <1>6, <1>7, <1>9, <1>10, NowIs DEF n, i, t

\* What the engine holds of the call is one more than before, at its actor.
LEMMA AtActor ==
    ASSUME NEW s \in Engine, NEW a \in ActorSet, NEW act \in Actor
    PROVE  LET t == [s EXCEPT !.actors = [s.actors EXCEPT ![a] = act]]
           IN  /\ t \in Engine /\ t.actors[a] = act
               /\ \A b \in ActorSet \ {a} : t.actors[b] = s.actors[b]
               /\ t.nodes = s.nodes /\ t.active = s.active /\ t.inst = s.inst
               /\ t.journal = s.journal /\ t.outcome = s.outcome /\ t.ready = s.ready
  <1> DEFINE t == [s EXCEPT !.actors = [s.actors EXCEPT ![a] = act]]
  <1>1. [s.actors EXCEPT ![a] = act] \in [ActorSet -> Actor]
    BY FieldsAre
  <1>2. /\ t \in Engine /\ t.actors = [s.actors EXCEPT ![a] = act]
        /\ t.nodes = s.nodes /\ t.active = s.active /\ t.inst = s.inst
        /\ t.journal = s.journal /\ t.outcome = s.outcome /\ t.ready = s.ready
    BY <1>1 DEF Engine
  <1> HIDE DEF t
  <1>3. t.actors[a] = act /\ \A b \in ActorSet \ {a} : t.actors[b] = s.actors[b]
    BY <1>2, FieldsAre
  <1> QED
    BY <1>2, <1>3 DEF t

LEMMA AskFreshKeeps ==
    ASSUME Inv, run = "running", ready # <<>>, NEW c, c = Head(ready), AskFresh(c)
    PROVE  Inv'
  <1> DEFINE a == ActorOf[c]
             i == NextInstance(c)
             n == 1 + Cardinality(Met(inst, SiteOf[c]))
             s == Taken(c, i)
             act == [s.actors[a] EXCEPT !.fresh = Append(s.actors[a].fresh, c)]
             t == [s EXCEPT !.actors = [s.actors EXCEPT ![a] = act]]
             u == DrainAdmission(t, a)
             v == PumpAll(u)
  <1>1. Good(Now, control, turns) /\ Pumped(Now) /\ control \in [Instances -> Opt(Control)]
    BY DEF Inv, Around
  <1>2. /\ c \in Calls /\ a \in ActorSet /\ i = <<SiteOf[c], n>> /\ s \in Engine
        /\ s.actors = actors /\ s.nodes = nodes /\ s.active = active /\ s.journal = journal
        /\ s.outcome = outcome /\ s.ready = Tail(ready) /\ s.inst = [inst EXCEPT ![c] = n]
    BY RequestIs
  <1>3. journal[i] = None /\ Become(v, turns) /\ run' = run /\ control' = control /\ lives' = lives
    <2>1. t = [s EXCEPT !.actors[a].fresh = Append(@, c)]
      OBVIOUS
    <2> HIDE DEF t
    <2> QED
      BY <2>1 DEF AskFresh
  <1> HIDE DEF s, i, n, a
  <1>4. s.actors[a] \in Actor /\ s.actors[a].fresh \in Seq(Calls)
    BY <1>2, PendingAre
  <1>5. /\ act \in Actor /\ act.cur = s.actors[a].cur /\ act.queue = s.actors[a].queue
        /\ act.held = s.actors[a].held /\ act.fresh = Append(s.actors[a].fresh, c)
    <2> DEFINE r == s.actors[a]
    <2> HIDE DEF r
    <2>1. r \in Actor /\ Append(r.fresh, c) \in Seq(Calls)
      BY <1>2, <1>4 DEF r
    <2>2. LET x == [r EXCEPT !.fresh = Append(r.fresh, c)]
          IN  /\ x \in Actor /\ x.cur = r.cur /\ x.queue = r.queue
              /\ x.held = r.held /\ x.fresh = Append(r.fresh, c)
      BY <2>1 DEF Actor
    <2> QED
      BY <2>2 DEF r
  <1> HIDE DEF act
  <1>6. /\ t \in Engine /\ t.actors[a] = act
        /\ \A b \in ActorSet \ {a} : t.actors[b] = s.actors[b]
        /\ t.nodes = s.nodes /\ t.active = s.active /\ t.inst = s.inst
        /\ t.journal = s.journal /\ t.outcome = s.outcome /\ t.ready = s.ready
    <2>1. s \in Engine /\ a \in ActorSet /\ act \in Actor
      BY <1>2, <1>5
    <2> QED
      BY <2>1, AtActor
  <1> HIDE DEF t
  <1>7. Enqueued(Now, c, n, t)
    <2>1. /\ t \in Engine
          /\ t.nodes = Now.nodes /\ t.active = Now.active /\ t.journal = Now.journal
          /\ t.outcome = Now.outcome
          /\ t.inst = [Now.inst EXCEPT ![c] = n] /\ t.ready = Tail(Now.ready)
          /\ \A b \in ActorSet \ {a} : t.actors[b] = Now.actors[b]
          /\ t.actors[a].cur = Now.actors[a].cur /\ t.actors[a].queue = Now.actors[a].queue
          /\ t.actors[a].held = Now.actors[a].held
          /\ t.actors[a].fresh = Append(Now.actors[a].fresh, c)
      BY <1>2, <1>5, <1>6, NowIs
    <2>2. Now.journal[<<SiteOf[c], n>>] = None
      BY <1>2, <1>3, NowIs
    <2> QED
      BY <2>1, <2>2 DEF Enqueued, a
  <1>8. /\ Good(t, control, turns) /\ t.active = Now.active
        /\ \A b \in ActorSet \ {a} : t.actors[b] = Now.actors[b]
    BY <1>1, <1>7, EnqueuedKeeps, NowIs DEF a, n
  <1>9. PumpedBut(t, a)
    BY <1>1, <1>8 DEF Pumped, PumpedBut, Idle, Room
  <1>10. Good(u, control, turns)
    BY <1>1, <1>2, <1>8, <1>9, DrainKeeps
  <1> HIDE DEF u
  <1>11. Good(v, control, turns) /\ Pumped(v)
    BY <1>10, PumpAllKeeps
  <1> HIDE DEF v
  <1> QED
    BY <1>1, <1>3, <1>11, BecomeKeeps

LEMMA AskRecordedKeeps ==
    ASSUME Inv, run = "running", ready # <<>>, NEW c, c = Head(ready), AskRecorded(c)
    PROVE  Inv'
  <1> DEFINE a == ActorOf[c]
             i == NextInstance(c)
             n == 1 + Cardinality(Met(inst, SiteOf[c]))
             row == journal[i]
             s == Taken(c, i)
             hold == {h \in s.actors[a].held : h[1] # row.seq} \cup {<<row.seq, c>>}
             act == [s.actors[a] EXCEPT !.held = hold]
             t == [s EXCEPT !.actors = [s.actors EXCEPT ![a] = act]]
             u == DrainAdmission(t, a)
  <1>1. Good(Now, control, turns) /\ Pumped(Now) /\ control \in [Instances -> Opt(Control)]
    BY DEF Inv, Around
  <1>2. /\ c \in Calls /\ a \in ActorSet /\ i = <<SiteOf[c], n>> /\ s \in Engine /\ i \in Instances
        /\ s.actors = actors /\ s.nodes = nodes /\ s.active = active /\ s.journal = journal
        /\ s.outcome = outcome /\ s.ready = Tail(ready) /\ s.inst = [inst EXCEPT ![c] = n]
    BY RequestIs
  <1>3. row # None /\ Become(u, turns) /\ run' = run /\ control' = control /\ lives' = lives
    <2>1. t = [s EXCEPT !.actors[a].held = {h \in @ : h[1] # row.seq} \cup {<<row.seq, c>>}]
      OBVIOUS
    <2> HIDE DEF t
    <2> QED
      BY <2>1 DEF AskRecorded
  <1> HIDE DEF s, i, n, a
  <1>4. s.actors[a] \in Actor /\ row \in Row
    <2>1. journal \in [Instances -> Opt(Row)]
      BY <1>1, FieldsAre, NowIs DEF Good
    <2> QED
      BY <1>2, <1>3, <2>1, PendingAre DEF Opt
  <1> HIDE DEF row
  <1>5. /\ act \in Actor /\ act.cur = s.actors[a].cur /\ act.queue = s.actors[a].queue
        /\ act.held = hold /\ act.fresh = s.actors[a].fresh
    <2> DEFINE r == s.actors[a]
    <2>1. row.seq \in Nat
      BY <1>4 DEF Row
    <2>2. r \in Actor /\ hold \in SUBSET (Nat \X Calls)
      BY <1>2, <1>4, <2>1 DEF Actor
    <2>3. act = [r EXCEPT !.held = hold]
      OBVIOUS
    <2> HIDE DEF r, hold, act
    <2>4. /\ act \in Actor /\ act.cur = r.cur /\ act.queue = r.queue
          /\ act.held = hold /\ act.fresh = r.fresh
      BY <2>2, <2>3 DEF Actor
    <2> QED
      BY <2>4 DEF r
  <1> HIDE DEF act
  <1>6. /\ t \in Engine /\ t.actors[a] = act
        /\ \A b \in ActorSet \ {a} : t.actors[b] = s.actors[b]
        /\ t.nodes = s.nodes /\ t.active = s.active /\ t.inst = s.inst
        /\ t.journal = s.journal /\ t.outcome = s.outcome /\ t.ready = s.ready
    BY <1>2, <1>5, AtActor
  <1> HIDE DEF t
  <1>7. Enqueued(Now, c, n, t)
    <2>2. row = Now.journal[<<SiteOf[c], n>>]
      BY <1>2, NowIs DEF row
    <2>1. hold = {h \in Now.actors[ActorOf[c]].held : h[1] # Now.journal[<<SiteOf[c], n>>].seq}
                   \cup {<<Now.journal[<<SiteOf[c], n>>].seq, c>>}
      BY <1>2, <2>2, NowIs DEF a
    <2> HIDE DEF hold
    <2>3. /\ t \in Engine
          /\ t.nodes = Now.nodes /\ t.active = Now.active /\ t.journal = Now.journal
          /\ t.outcome = Now.outcome
          /\ t.inst = [Now.inst EXCEPT ![c] = n] /\ t.ready = Tail(Now.ready)
          /\ \A b \in ActorSet \ {a} : t.actors[b] = Now.actors[b]
          /\ t.actors[a].cur = Now.actors[a].cur /\ t.actors[a].queue = Now.actors[a].queue
          /\ t.actors[a].fresh = Now.actors[a].fresh /\ t.actors[a].held = hold
      BY <1>2, <1>5, <1>6, NowIs
    <2> QED
      BY <1>3, <2>1, <2>2, <2>3 DEF Enqueued, a
  <1>8. /\ Good(t, control, turns) /\ t.active = Now.active
        /\ \A b \in ActorSet \ {a} : t.actors[b] = Now.actors[b]
    BY <1>1, <1>7, EnqueuedKeeps, NowIs DEF a, n
  <1>9. PumpedBut(t, a)
    BY <1>1, <1>8 DEF Pumped, PumpedBut, Idle, Room
  <1>10. Good(u, control, turns) /\ Pumped(u)
    BY <1>1, <1>2, <1>8, <1>9, DrainKeeps
  <1> HIDE DEF u
  <1> QED
    BY <1>1, <1>3, <1>10, BecomeKeeps

\* The run is over: the journal stays.
LEMMA CloseKeeps ==
    ASSUME Inv, NEW status \in Statuses \ {"running"}, Close(status)
    PROVE  Inv'
  <1>1. Now \in Engine /\ journal' = journal /\ control' = control
    BY DEF Inv, Close
  <1>2. actors \in [ActorSet -> Actor] /\ MaxConcurrency \in Nat
    BY <1>1, FieldsAre, NowIs, ConstantsAre
  <1>3. \A a \in ActorSet : [actors[a] EXCEPT !.paused = None] \in Actor
    <2> TAKE a \in ActorSet
    <2> DEFINE r == actors[a]
    <2>1. r \in Actor
      BY <1>2
    <2> HIDE DEF r
    <2>2. [r EXCEPT !.paused = None] \in Actor
      BY <2>1 DEF Actor, Opt
    <2> QED
      BY <2>2 DEF r
  <1>4. actors' \in [ActorSet -> Actor] /\ nodes' \in [Calls -> Opt(Node)] /\ active' \in 0..MaxConcurrency
    BY <1>2, <1>3 DEF Close, Nothing, Opt
  <1>5. /\ inst' \in [Calls -> 0..Cardinality(Calls)]
        /\ journal' \in [Instances -> Opt(Row)] /\ outcome' \in [Calls -> Opt(Answers)]
        /\ ready' \in Seq(Calls)
    BY <1>1, FieldsAre, NowIs DEF Close
  <1>6. Now' \in Engine
    BY <1>4, <1>5 DEF Now, Engine
  <1>7. Around' /\ run' # "running"
    BY DEF Close, Inv, Around
  <1>8. Obeyed(journal', control')
    BY <1>1 DEF Inv
  <1> QED
    BY <1>6, <1>7, <1>8 DEF Inv

\* A life of the run begins on the rows there are.
LEMMA FirstCallsAre ==
    /\ FirstCalls \in Seq(Calls) /\ IsInjective(FirstCalls)
    /\ \A c \in Range(FirstCalls) : c \in Calls /\ After[c] = {}
  <1>1. /\ FirstCalls \in Seq(Calls) /\ IsInjective(FirstCalls)
        /\ Range(FirstCalls) = Range(Script) \cap {c \in Calls : After[c] = {}}
    BY AmongFacts, SchedulerAssumption DEF FirstCalls
  <1> QED
    BY <1>1

LEMMA InstancesAreFinite == IsFiniteSet(Instances)
  <1>1. IsFiniteSet(Sites)
    <2> DEFINE f == [c \in Calls |-> SiteOf[c]]
    <2>1. \A x \in Sites : \E c \in Calls : SiteOf[c] = x
      BY SchedulerAssumption DEF Sites, Range
    <2>2. f \in [Calls -> Sites]
      BY CallsAre
    <2>3. f \in Surjection(Calls, Sites)
      BY <2>1, <2>2 DEF Surjection
    <2> HIDE DEF f
    <2> QED
      BY <2>3, ScriptAssumption, FS_Surjection
  <1>2. IsFiniteSet(1..Cardinality(Calls))
    BY ConstantsAre, FS_Interval
  <1> QED
    BY <1>1, <1>2, FS_Product DEF Instances

LEMMA NewActorIs ==
    ASSUME NEW rows, NEW a
    PROVE  /\ NewActor(rows, a) \in Actor
           /\ NewActor(rows, a).held = {} /\ NewActor(rows, a).fresh = <<>>
           /\ NewActor(rows, a).queue = <<>> /\ NewActor(rows, a).cur = None
  <1> DEFINE n == Cardinality(RowsOf(rows, a))
  <1>1. n \in Nat
    BY InstancesAreFinite, FS_Subset, FS_CardinalityType DEF RowsOf
  <1> HIDE DEF n
  <1> QED
    BY <1>1 DEF NewActor, Actor, Opt, n

\* The state of the engine that begins on some rows.
Fresh(rows) ==
    [actors |-> [a \in ActorSet |-> NewActor(rows, a)], nodes |-> Nothing, active |-> 0,
     inst |-> [c \in Calls |-> 0], journal |-> rows, outcome |-> Nothing, ready |-> FirstCalls]

LEMMA FreshIsGood ==
    ASSUME NEW rows \in [Instances -> Opt(Row)], NEW ctl, Obeyed(rows, ctl)
    PROVE  Good(Fresh(rows), ctl, {}) /\ Pumped(Fresh(rows))
  <1> DEFINE s == Fresh(rows)
  <1>1. /\ s.actors = [a \in ActorSet |-> NewActor(rows, a)] /\ s.nodes = Nothing /\ s.active = 0
        /\ s.inst = [c \in Calls |-> 0] /\ s.journal = rows /\ s.outcome = Nothing
        /\ s.ready = FirstCalls
    BY DEF Fresh
  <1>2. s.actors \in [ActorSet -> Actor]
    BY <1>1, NewActorIs
  <1>3. s \in Engine
    <2>1. /\ Nothing \in [Calls -> Opt(Node)] /\ Nothing \in [Calls -> Opt(Answers)]
          /\ 0 \in 0..MaxConcurrency /\ [c \in Calls |-> 0] \in [Calls -> 0..Cardinality(Calls)]
      BY ConstantsAre DEF Nothing, Opt
    <2> QED
      BY <1>1, <1>2, <2>1, FirstCallsAre DEF Fresh, Engine
  <1> HIDE DEF s
  <1>4. \A a \in ActorSet : /\ s.actors[a].held = {} /\ s.actors[a].fresh = <<>>
                            /\ s.actors[a].queue = <<>> /\ s.actors[a].cur = None
    BY <1>1, NewActorIs
  <1>5. \A c \in Calls : s.nodes[c] = None /\ s.inst[c] = 0 /\ s.outcome[c] = None /\ ~Runs(s, c)
    BY <1>1 DEF Nothing, Runs
  <1>6. Range(<<>>) = {} /\ IsInjective(<<>>)
    BY DEF Range, IsInjective
  <1>7. Placed(s)
    <2>1. {a \in ActorSet : s.actors[a].cur # None} = {}
      BY <1>4
    <2>2. Cardinality({a \in ActorSet : s.actors[a].cur # None}) = 0
      BY <2>1, FS_EmptySet
    <2> QED
      BY <1>1, <1>4, <1>5, <1>6, <2>2 DEF Placed
  <1>8. Pending(s)
    BY <1>4, <1>6 DEF Pending
  <1>9. Served(s)
    BY <1>1, <1>5, FirstCallsAre DEF Served
  <1>10. Numbered(s.inst) /\ Steered(s, ctl) /\ Turning(s, {}) /\ Obeyed(s.journal, ctl)
    BY <1>1, <1>5 DEF Numbered, Steered, Turning
  <1>11. Pumped(s)
    BY <1>4 DEF Pumped, Idle
  <1> QED
    BY <1>3, <1>7, <1>8, <1>9, <1>10, <1>11 DEF Good, s

LEMMA InitInv == Init => Inv
  <1> SUFFICES ASSUME Init PROVE Inv
    OBVIOUS
  <1>1. journal \in [Instances -> Opt(Row)] /\ control \in [Instances -> Opt(Control)]
        /\ Obeyed(journal, control)
    BY DEF Init, Opt, Obeyed
  <1>2. Now = Fresh(journal) /\ turns = {} /\ run = "running"
    BY DEF Init, Now, Fresh
  <1>3. Good(Now, control, turns) /\ Pumped(Now)
    BY <1>1, <1>2, FreshIsGood
  <1>4. Around
    <2>1. lives \in 1..MaxLives
      BY SchedulerAssumption DEF Init
    <2> QED
      BY <1>1, <1>2, <2>1 DEF Around, Init, Statuses
  <1> QED
    BY <1>1, <1>3, <1>4 DEF Inv, Good

LEMMA ResumeKeeps ==
    ASSUME Inv, Resume
    PROVE  Inv'
  <1>1. /\ Obeyed(journal, control) /\ control \in [Instances -> Opt(Control)]
        /\ journal \in [Instances -> Opt(Row)]
    BY FieldsAre, NowIs DEF Inv, Around
  <1>2. Now' = Fresh(journal) /\ turns' = {} /\ run' = "running" /\ control' = control
        /\ journal' = journal
    BY DEF Resume, Begin, Now, Fresh
  <1>3. Good(Now', control', turns') /\ Pumped(Now')
    BY <1>1, <1>2, FreshIsGood
  <1>4. Around'
    <2>1. lives' \in 1..MaxLives
      BY SchedulerAssumption DEF Resume, Inv, Around
    <2>2. session' \in [ActorSet -> {"none", "opening", "open", "failed"}]
      BY DEF Resume, Begin
    <2> QED
      BY <1>1, <1>2, <2>1, <2>2 DEF Around, Statuses
  <1>5. Now' \in Engine
    BY <1>3 DEF Good
  <1> QED
    BY <1>1, <1>2, <1>3, <1>4, <1>5 DEF Inv

LEMMA StepKeepsInv == Inv /\ [Next]_vars => Inv'
  <1> SUFFICES ASSUME Inv, [Next]_vars PROVE Inv'
    OBVIOUS
  <1>1. CASE Ask
    <2>1. run = "running" /\ ready # <<>>
      BY <1>1 DEF Ask
    <2> DEFINE c == Head(ready)
    <2>2. CASE AskFresh(c)
      BY <2>1, <2>2, AskFreshKeeps
    <2>3. CASE AskRecorded(c)
      BY <2>1, <2>3, AskRecordedKeeps
    <2>4. CASE AskMismatch(c)
      <3>1. Close("errored") /\ "errored" \in Statuses \ {"running"}
        BY <2>4 DEF AskMismatch, Statuses
      <3> QED
        BY <3>1, CloseKeeps
    <2> QED
      BY <1>1, <2>2, <2>3, <2>4 DEF Ask
  <1>2. ASSUME NEW c \in Calls, NEW k \in Attempts, Report(c, k) PROVE Inv'
    <2>1. run = "running" /\ <<c, k>> \in turns
      BY <1>2 DEF Report
    <2> QED
      BY <1>2, <2>1, AcceptKeeps, SendBackKeeps, FailKeeps, DropKeeps DEF Report
  <1>3. ASSUME NEW a \in ActorSet, OpenSession(a) \/ FailSession(a) \/ FailDispatch(a) PROVE Inv'
    BY <1>3, SessionKeeps, FailDispatchKeeps
  <1>4. CASE Complete \/ Halt
    <2>1. Close("completed") \/ Close("stopped")
      BY <1>4 DEF Complete, Halt
    <2>2. "completed" \in Statuses \ {"running"} /\ "stopped" \in Statuses \ {"running"}
      BY DEF Statuses
    <2> QED
      BY <2>1, <2>2, CloseKeeps
  <1>5. ASSUME NEW c \in Calls, Pause(c) \/ Retry(c) PROVE Inv'
    BY <1>5, PauseKeeps, RetryKeeps
  <1>6. CASE Resume
    BY <1>6, ResumeKeeps
  <1>7. CASE UNCHANGED vars
    <2>1. Now' = Now /\ run' = run /\ control' = control /\ turns' = turns /\ journal' = journal
          /\ Around'
      BY <1>7 DEF vars, Now, Inv, Around
    <2> QED
      BY <2>1 DEF Inv
  <1> QED
    BY <1>1, <1>2, <1>3, <1>4, <1>5, <1>6, <1>7 DEF Next, Progress, Over

LEMMA InvHolds == Spec => []Inv
  BY InitInv, StepKeepsInv, PTL DEF Spec

LEMMA InvTyped == Inv => TypeOK
  BY FieldsAre, NowIs DEF Inv, Around, TypeOK

\* Every variable keeps its type: the slots taken never exceed the bound, and no
\* call is numbered beyond the number of calls.
THEOREM TypeCorrect == Spec => []TypeOK
  BY InvHolds, InvTyped, PTL

LEMMA InvPlaced == Inv => Placement
  <1> SUFFICES ASSUME Inv, run = "running" PROVE
        /\ active = Cardinality({a \in ActorSet : actors[a].cur # None})
        /\ \A c \in Calls : nodes[c] # None =>
              Cardinality({j \in DOMAIN actors[ActorOf[c]].queue : actors[ActorOf[c]].queue[j] = c})
                + (IF actors[ActorOf[c]].cur = c THEN 1 ELSE 0) = IF nodes[c].paused THEN 0 ELSE 1
    BY DEF Placement
  <1>1. Placed(Now) /\ Now \in Engine
    BY DEF Inv, Good
  <1>2. active = Cardinality({a \in ActorSet : actors[a].cur # None})
    BY <1>1, NowIs DEF Placed
  <1>3. ASSUME NEW c \in Calls, nodes[c] # None
        PROVE  Cardinality({j \in DOMAIN actors[ActorOf[c]].queue : actors[ActorOf[c]].queue[j] = c})
                + (IF actors[ActorOf[c]].cur = c THEN 1 ELSE 0) = IF nodes[c].paused THEN 0 ELSE 1
    <2> DEFINE r == actors[ActorOf[c]]
               at == {j \in DOMAIN r.queue : r.queue[j] = c}
    <2>1. /\ r.cur # None => Runs(Now, r.cur)
          /\ IsInjective(r.queue)
          /\ \A d \in Range(r.queue) : Runs(Now, d) /\ d # r.cur
          /\ Runs(Now, c) => c = r.cur \/ c \in Range(r.queue)
      BY <1>1, NowIs, CallsAre DEF Placed
    <2>2. Runs(Now, c) <=> ~nodes[c].paused
      BY <1>3, NowIs DEF Runs
    <2> HIDE DEF r
    <2>3. c \notin Range(r.queue) => at = {}
      BY DEF Range
    <2>4. c \in Range(r.queue) => \E j : at = {j}
      BY <2>1 DEF Range, IsInjective
    <2>5. c \notin Range(r.queue) => Cardinality(at) = 0
      BY <2>3, FS_EmptySet
    <2>6. c \in Range(r.queue) => Cardinality(at) = 1
      BY <2>4, FS_Singleton
    <2>7. CASE nodes[c].paused
      <3>1. c \notin Range(r.queue) /\ r.cur # c
        BY <2>1, <2>2, <2>7, ConstantsAre
      <3> QED
        BY <2>5, <2>7, <3>1 DEF r
    <2>8. CASE ~nodes[c].paused
      <3>1. CASE c \in Range(r.queue)
        <4>1. r.cur # c
          BY <2>1, <3>1
        <4> QED
          BY <2>6, <2>8, <3>1, <4>1 DEF r
      <3>2. CASE c \notin Range(r.queue)
        <4>1. r.cur = c
          BY <2>1, <2>2, <2>8, <3>2
        <4> QED
          BY <2>5, <2>8, <3>2, <4>1 DEF r
      <3> QED
        BY <3>1, <3>2
    <2> QED
      BY <2>7, <2>8
  <1> QED
    BY <1>2, <1>3

\* A live ask is in one place, whatever is stopped, retried, settled or resumed:
\* current at its actor, once in its queue, or stopped; and a slot is taken for each
\* current ask and for no other.
THEOREM OnePlace == Spec => []Placement
  BY InvHolds, InvPlaced, PTL

LEMMA InvConserves == Inv => WorkConserving
  BY DEF Inv, Pumped, WorkConserving

\* No slot is left free while an actor has an ask it may run: whatever frees a slot
\* or unblocks an actor starts whoever can use it.
THEOREM NoIdleSlot == Spec => []WorkConserving
  BY InvHolds, InvConserves, PTL

LEMMA InvDrops == Inv => LateReportsDropped
  BY DEF Inv, Obeyed, LateReportsDropped

\* A stopped ask is not settled, and a retried one by its last attempt only, in later
\* lives of the run too.
THEOREM LateReportsAreDropped == Spec => []LateReportsDropped
  BY InvHolds, InvDrops, PTL
=============================================================================
