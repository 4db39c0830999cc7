---------------------- MODULE ArtifactPublisherProofs ----------------------
(***************************************************************************)
(* Proofs about ArtifactPublisher, for any script, ids, caps and lives.    *)
(*                                                                         *)
(* What settleArtifactPublish writes was worked out when the publication   *)
(* was admitted.  As long as nobody else has published or declared the id  *)
(* since (InTurn) the flag it writes is the one it must, and the journal   *)
(* has one primary.  Two publications of an id at once break InTurn, and   *)
(* with it OnePrimary; a script that waits for the one before it makes     *)
(* the next (OneAtATime) never has two.                                    *)
(*                                                                         *)
(* 1. Inv: types, and the flags of rows, artifacts and publications.       *)
(* 2. Orderly: a life sends a call once, after the answers it waits for.   *)
(* 3. Undisturbed: while a publication is at the driver no other call of   *)
(*    its id is done; hence InTurn.                                        *)
(* 4. Recalled: what is known of an id is what its rows say; hence         *)
(*    SameAfterCrash.                                                      *)
(* 5. Every step is a step of CallLedger or leaves it alone.               *)
(***************************************************************************)
EXTENDS ArtifactPublisher, FiniteSetTheorems, SequenceTheorems, TLAPS

\* None is not a record.
NoneAssumption ==
    /\ \A k, s, v, p : None # [kind |-> k, spec |-> s, versions |-> v, primary |-> p]
    /\ \A s, v, p : None # [status |-> s, version |-> v, primary |-> p]

\* The version a publication was given is still the next one of its id.
InTurn == \A p \in issued : ~Settled(p) => p.version = NextVersion(IdOf[p.call])

\* The artifact of id i is there and primary.
Flagged(i) == known[i] # None /\ known[i].primary

Typed ==
    /\ lives \in Nat
    /\ DOMAIN known = Ids /\ DOMAIN rows = Calls
    /\ \A i \in Ids : known[i] # None => known[i].versions \in Nat /\ known[i].primary \in BOOLEAN
    /\ \A p \in issued : /\ p.call \in Calls /\ p.version \in Nat /\ p.primary \in BOOLEAN
                         /\ p.life \in Nat /\ p.life <= lives

\* A row with the flag is known to be primary.
RowsAreKnown == \A c \in Calls : rows[c] # None /\ rows[c].primary => Flagged(IdOf[c])

OneFlag == \A i, j \in Ids : Flagged(i) /\ Flagged(j) => i = j

\* A publication in turn does not take the flag from its id.
KeepsFlag ==
    \A p \in issued :
        ~Settled(p) /\ p.version = NextVersion(IdOf[p.call]) /\ Flagged(IdOf[p.call]) => p.primary

Inv == Typed /\ RowsAreKnown /\ OneFlag /\ KeepsFlag

\* The publications of the present life at the driver, their calls, and the calls
\* that have their answers.
Current == {p \in issued : p.life = lives}
AtDriver == {p.call : p \in Current}
Answered == {c \in Calls : outcome[c] # None}

\* A call is sent once in a life, and when it is sent all it waits for is answered.
Sent ==
    /\ ready \in Seq(Calls) /\ IsInjective(ready)
    /\ outcome \in [Calls -> Opt(Answers)]
    /\ \A p \in Current : p.call \in Contents /\ p.call \notin Range(ready)
    /\ \A p, q \in Current : p.call = q.call => p = q
    /\ \A c \in Range(ready) \cup AtDriver : c \notin Answered /\ After[c] \subseteq Answered
    /\ \A c \in Answered : After[c] \subseteq Answered

\* Nothing is known of the id of a publication but what was known when it was sent.
Undisturbed ==
    \A p \in Current :
        LET k == known[IdOf[p.call]]
        IN  p.version = NextVersion(IdOf[p.call]) /\ (k # None => k.kind = KindOf[p.call])

\* What the rows say of an id is what is known of it.
Recalled == \A i \in Ids : known[i] = Remembered(rows, i)

\* The versions of an id are of one kind and to one specification.
Alike ==
    \A i \in Ids : \A c, d \in Completed(rows, i) : KindOf[c] = KindOf[d] /\ SpecOf[c] = SpecOf[d]

\* While the run goes on, the rows of what it has at the driver say so.
UnderWay == run = "running" => \A p \in Current : rows[p.call] = Running

\* Two sequences without a common element, one after the other.
LEMMA ConcatFacts ==
    ASSUME NEW S, NEW p \in Seq(S), NEW q \in Seq(S)
    PROVE  /\ p \o q \in Seq(S) /\ Range(p \o q) = Range(p) \cup Range(q)
           /\ IsInjective(p) /\ IsInjective(q) /\ Range(p) \cap Range(q) = {}
                 => IsInjective(p \o q)
  <1> DEFINE t == p \o q
  <1>1. /\ t \in Seq(S) /\ Len(t) = Len(p) + Len(q) /\ Len(p) \in Nat /\ Len(q) \in Nat
        /\ DOMAIN t = 1..(Len(p) + Len(q)) /\ DOMAIN p = 1..Len(p) /\ DOMAIN q = 1..Len(q)
        /\ \A i \in 1..(Len(p) + Len(q)) : t[i] = IF i <= Len(p) THEN p[i] ELSE q[i - Len(p)]
    BY ConcatProperties, LenProperties
  <1> HIDE DEF t
  <1>2. \A i \in DOMAIN t :
            \/ i \in DOMAIN p /\ t[i] = p[i]
            \/ i \notin DOMAIN p /\ i - Len(p) \in DOMAIN q /\ t[i] = q[i - Len(p)]
    BY <1>1
  <1>3. /\ \A i \in DOMAIN p : i \in DOMAIN t /\ t[i] = p[i]
        /\ \A i \in DOMAIN q : i + Len(p) \in DOMAIN t /\ t[i + Len(p)] = q[i]
    <2>1. \A i \in DOMAIN q : i + Len(p) \in DOMAIN t /\ ~(i + Len(p) <= Len(p))
                               /\ (i + Len(p)) - Len(p) = i
      BY <1>1
    <2> QED
      BY <1>1, <2>1
  <1>4. Range(t) = Range(p) \cup Range(q)
    <2>1. Range(t) \subseteq Range(p) \cup Range(q)
      BY <1>2 DEF Range
    <2>2. Range(p) \subseteq Range(t) /\ Range(q) \subseteq Range(t)
      BY <1>3 DEF Range
    <2> QED
      BY <2>1, <2>2
  <1>5. ASSUME IsInjective(p), IsInjective(q), Range(p) \cap Range(q) = {} PROVE IsInjective(t)
    <2> SUFFICES ASSUME NEW i \in DOMAIN t, NEW j \in DOMAIN t, t[i] = t[j] PROVE i = j
      BY DEF IsInjective
    <2>1. \A m \in DOMAIN p, n \in DOMAIN q : p[m] # q[n]
      BY <1>5 DEF Range
    <2>2. \A m, n \in DOMAIN p : p[m] = p[n] => m = n
      BY <1>5 DEF IsInjective
    <2>3. \A m, n \in DOMAIN q : q[m] = q[n] => m = n
      BY <1>5 DEF IsInjective
    <2>4. i \in Nat /\ j \in Nat
      BY <1>1
    <2>5. CASE i \in DOMAIN p
      BY <1>2, <2>1, <2>2, <2>5
    <2>6. CASE i \notin DOMAIN p
      <3>1. j \notin DOMAIN p
        BY <1>2, <2>1, <2>6
      <3>2. i - Len(p) = j - Len(p)
        BY <1>2, <2>3, <2>6, <3>1
      <3> QED
        BY <1>1, <2>4, <3>2
    <2> QED
      BY <2>5, <2>6
  <1> QED
    BY <1>1, <1>4, <1>5 DEF t

\* Taking the first.
LEMMA TailFacts ==
    ASSUME NEW S, NEW q \in Seq(S), q # <<>>
    PROVE  /\ Tail(q) \in Seq(S) /\ Head(q) \in S
           /\ Range(q) = Range(Tail(q)) \cup {Head(q)}
           /\ IsInjective(q) => IsInjective(Tail(q)) /\ Head(q) \notin Range(Tail(q))
  <1> DEFINE t == Tail(q)
  <1>1. /\ t \in Seq(S) /\ Head(q) \in S /\ Head(q) = q[1]
      /\ Len(t) = Len(q) - 1 /\ Len(q) \in Nat /\ Len(q) > 0
        /\ DOMAIN q = 1..Len(q) /\ DOMAIN t = 1..(Len(q) - 1)
        /\ \A i \in 1..(Len(q) - 1) : t[i] = q[i + 1]
    BY HeadTailProperties, LenProperties, EmptySeq
  <1> HIDE DEF t
  <1>2. /\ \A i \in DOMAIN t : i + 1 \in DOMAIN q /\ i + 1 # 1 /\ t[i] = q[i + 1]
        /\ \A i \in DOMAIN q : i = 1 \/ (i - 1 \in DOMAIN t /\ q[i] = t[i - 1])
        /\ 1 \in DOMAIN q
    BY <1>1
  <1>3. Range(q) = Range(t) \cup {q[1]}
    <2>1. Range(q) \subseteq Range(t) \cup {q[1]}
      BY <1>2 DEF Range
    <2>2. Range(t) \cup {q[1]} \subseteq Range(q)
      BY <1>2 DEF Range
    <2> QED
      BY <2>1, <2>2
  <1>4. ASSUME IsInjective(q) PROVE IsInjective(t) /\ q[1] \notin Range(t)
    <2>1. \A m, n \in DOMAIN q : q[m] = q[n] => m = n
      BY <1>4 DEF IsInjective
    <2>2. q[1] \notin Range(t)
      BY <1>2, <2>1 DEF Range
    <2>3. ASSUME NEW i \in DOMAIN t, NEW j \in DOMAIN t, t[i] = t[j] PROVE i = j
      <3>1. i + 1 = j + 1
        BY <1>2, <2>1, <2>3
      <3> QED
        BY <1>1, <3>1
    <2> QED
      BY <2>2, <2>3 DEF IsInjective
  <1> QED
    BY <1>1, <1>3, <1>4 DEF t

\* The elements that are in T, each once if each was there once.
LEMMA AmongFacts ==
    ASSUME NEW S, NEW s \in Seq(S), IsInjective(s), NEW T
    PROVE  /\ Among(s, T) \in Seq(S) /\ IsInjective(Among(s, T))
           /\ Range(Among(s, T)) = Range(s) \cap T
  <1> DEFINE at == {i \in DOMAIN s : s[i] \in T}
             rank(i) == Cardinality({j \in at : j <= i})
             pick(n) == CHOOSE i \in at : rank(i) = n
             t == [n \in 1..Cardinality(at) |-> s[pick(n)]]
  <1>1. Among(s, T) = t
    BY DEF Among
  <1>2. DOMAIN s = 1..Len(s) /\ Len(s) \in Nat /\ \A i \in DOMAIN s : s[i] \in S
    BY LenProperties
  <1>3. at \subseteq 1..Len(s)
    BY <1>2
  <1>4. IsFiniteSet(at) /\ Cardinality(at) \in Nat
    <2>1. IsFiniteSet(1..Len(s))
      BY <1>2, FS_Interval
    <2> HIDE DEF at
    <2> QED
      BY <1>3, <2>1, FS_Subset, FS_CardinalityType
  <1>5. \A i \in at : rank(i) \in 1..Cardinality(at)
    <2> TAKE i \in at
    <2>1. {j \in at : j <= i} \in SUBSET at /\ i \in {j \in at : j <= i}
      BY <1>3
    <2> DEFINE u == {j \in at : j <= i}
    <2> HIDE DEF u, at
    <2>2. Cardinality(u) \in Nat /\ Cardinality(u) <= Cardinality(at) /\ Cardinality(u) # 0
      BY <1>4, <2>1, FS_Subset, FS_CardinalityType, FS_EmptySet DEF u
    <2> QED
      BY <1>4, <2>2 DEF u
  <1>6. ASSUME NEW i \in at, NEW j \in at, i < j PROVE rank(i) # rank(j)
    <2> DEFINE u == {k \in at : k <= i}
               v == {k \in at : k <= j}
    <2>1. u \in SUBSET v /\ j \in v /\ j \notin u /\ v \in SUBSET at
      BY <1>3, <1>6
    <2> HIDE DEF u, v, at
    <2>2. IsFiniteSet(v) /\ u # v
      BY <1>4, <2>1, FS_Subset
    <2> QED
      BY <2>1, <2>2, FS_Subset DEF u, v
  <1>7. \A i, j \in at : rank(i) = rank(j) => i = j
    <2> SUFFICES ASSUME NEW i \in at, NEW j \in at, i # j PROVE rank(i) # rank(j)
      OBVIOUS
    <2>1. i < j \/ j < i
      BY <1>3
    <2> HIDE DEF at, rank
    <2> QED
      BY <1>6, <2>1
  <1>8. \A n \in 1..Cardinality(at) : pick(n) \in at /\ rank(pick(n)) = n
    <2> DEFINE N == Cardinality(at)
               f == [i \in at |-> rank(i)]
    <2>1. f \in Injection(at, 1..N)
      <3> HIDE DEF at, rank
      <3>1. f \in [at -> 1..N]
        BY <1>5
      <3>2. \A i, j \in at : f[i] = f[j] => i = j
        BY <1>7
      <3> HIDE DEF f
      <3> QED
        BY <3>1, <3>2 DEF Injection, IsInjective
    <2>2. IsFiniteSet(1..N) /\ Cardinality(1..N) = N
      <3> HIDE DEF at
      <3> QED
        BY <1>4, FS_Interval
    <2>3. f \in Surjection(at, 1..N)
      <3> HIDE DEF f, at
      <3> QED
        BY <2>1, <2>2, FS_Injection
    <2>4. \A n \in 1..N : \E i \in at : rank(i) = n
      <3> HIDE DEF at, rank
      <3> QED
        BY <2>3 DEF Surjection
    <2> HIDE DEF at, rank
    <2> QED
      BY <2>4
  <1> HIDE DEF rank
  <1>9. \A i \in at : pick(rank(i)) = i
    <2> HIDE DEF at, pick
    <2> QED
      BY <1>8, <1>5, <1>7
  <1>10. t \in Seq(S)
    <2>1. \A n \in 1..Cardinality(at) : s[pick(n)] \in S
      BY <1>2, <1>8
    <2> HIDE DEF at, pick
    <2> QED
      BY <1>4, <2>1
  <1>11. IsInjective(t)
    <2> SUFFICES ASSUME NEW m \in 1..Cardinality(at), NEW n \in 1..Cardinality(at),
                        s[pick(m)] = s[pick(n)]
                 PROVE  m = n
      BY DEF IsInjective
    <2>1. pick(m) \in DOMAIN s /\ pick(n) \in DOMAIN s
      BY <1>8
    <2>2. pick(m) = pick(n)
      <3> HIDE DEF pick
      <3> QED
        BY <2>1 DEF IsInjective
    <2> HIDE DEF pick, at
    <2> QED
      BY <1>8, <2>2
  <1>12. Range(t) = Range(s) \cap T
    <2>1. Range(t) = {s[pick(n)] : n \in 1..Cardinality(at)}
      <3> HIDE DEF at, pick
      <3> QED
        BY DEF Range
    <2>2. Range(s) \cap T = {s[i] : i \in at}
      BY DEF Range
    <2>3. \A n \in 1..Cardinality(at) : s[pick(n)] \in {s[i] : i \in at}
      <3> HIDE DEF at, pick
      <3> QED
        BY <1>8
    <2>4. \A i \in at : s[i] \in {s[pick(n)] : n \in 1..Cardinality(at)}
      <3> HIDE DEF at, pick
      <3> QED
        BY <1>5, <1>9
    <2> HIDE DEF at, pick, t
    <2> QED
      BY <2>1, <2>2, <2>3, <2>4
  <1> QED
    BY <1>1, <1>10, <1>11, <1>12
-----------------------------------------------------------------------------
LEMMA IdsAre == \A c \in Calls : IdOf[c] \in Ids
BY PublisherAssumption DEF Ids, Range

LEMMA Numbers ==
    ASSUME Typed, NEW i \in Ids
    PROVE  NextVersion(i) \in Nat
BY DEF Typed, NextVersion

\* What a resumed engine remembers of an id.
LEMMA RememberedIs ==
    ASSUME NoneAssumption, NEW i \in Ids
    PROVE  LET k == Remembered(rows, i)
               done == Completed(rows, i)
           IN  /\ k # None <=> done # {}
               /\ k # None => /\ k.versions \in Nat /\ k.primary \in BOOLEAN
                              /\ k.primary <=> \E c \in done : rows[c].primary
<1> DEFINE done == Completed(rows, i)
<1>1. Cardinality(done) \in Nat
    <2>1. IsFiniteSet(done)
        <3>1. done \subseteq Calls
            BY DEF Completed
        <3>2. QED
            BY <3>1, FS_Subset, ScriptAssumption
    <2>2. QED
        BY <2>1, FS_CardinalityType
<1>2. CASE done = {}
    BY <1>2 DEF Remembered
<1>3. CASE done # {}
    <2>1. PICK k, s : Remembered(rows, i) =
              [kind |-> k, spec |-> s, versions |-> Cardinality(done),
               primary |-> \E c \in done : rows[c].primary]
        BY <1>3 DEF Remembered
    <2>2. Remembered(rows, i) # None
        BY <2>1 DEF NoneAssumption
    <2>3. /\ Remembered(rows, i).versions = Cardinality(done)
          /\ Remembered(rows, i).primary = \E c \in done : rows[c].primary
        BY <2>1
    <2>4. QED
        BY <1>1, <1>3, <2>2, <2>3
<1>4. QED
    BY <1>2, <1>3

-----------------------------------------------------------------------------
(* Types. *)

LEMMA DispatchTyped ==
    ASSUME Typed, NEW c \in Calls, Dispatch(c)
    PROVE  Typed'
<1> DEFINE q == [call |-> c, version |-> NextVersion(IdOf[c]), primary |-> WantsPrimary(c),
                 life |-> lives]
<1>1. /\ rows' = [rows EXCEPT ![c] = Running] /\ issued' = issued \cup {q}
      /\ UNCHANGED <<known, lives>>
    BY DEF Dispatch
<1>2. q.version \in Nat /\ q.call = c /\ q.life = lives
    BY IdsAre, Numbers
<1>3. q.primary \in BOOLEAN
    BY IdsAre DEF WantsPrimary, Typed
<1>4. QED
    BY <1>1, <1>2, <1>3 DEF Typed

LEMMA KnownTyped ==
    ASSUME Typed, NEW i \in Ids, NEW k, k.versions \in Nat, k.primary \in BOOLEAN,
           known' = [known EXCEPT ![i] = k], NEW c, NEW r, rows' = [rows EXCEPT ![c] = r],
           lives' = lives, issued' \subseteq issued
    PROVE  Typed'
<1>1. DOMAIN known' = Ids /\ DOMAIN rows' = Calls
    BY DEF Typed
<1>2. known'[i] = k /\ \A j \in Ids \ {i} : known'[j] = known[j]
    BY DEF Typed
<1>3. \A j \in Ids : known'[j] # None => known'[j].versions \in Nat /\ known'[j].primary \in BOOLEAN
    BY <1>2 DEF Typed
<1>4. QED
    BY <1>1, <1>3 DEF Typed

LEMMA DeclareTyped ==
    ASSUME Typed, NEW c \in Calls, Declare(c)
    PROVE  Typed'
<1> DEFINE f == c \in Primary
           k == [kind |-> KindOf[c], spec |-> SpecOf[c], versions |-> 1, primary |-> f]
           r == [status |-> "completed", version |-> 1, primary |-> f]
<1>1. /\ known' = [known EXCEPT ![IdOf[c]] = k] /\ rows' = [rows EXCEPT ![c] = r]
      /\ UNCHANGED <<issued, lives>>
    BY DEF Declare
<1>2. f \in BOOLEAN
    OBVIOUS
<1> HIDE DEF f
<1>3. k.versions \in Nat /\ k.primary \in BOOLEAN
    BY <1>2
<1> HIDE DEF k, r
<1>4. QED
    BY <1>1, <1>3, IdsAre, KnownTyped

LEMMA PublishTyped ==
    ASSUME Typed, NEW p \in issued, Publish(p), issued' = issued \ {p}
    PROVE  Typed'
<1> DEFINE k == [kind |-> KindOf[p.call], spec |-> None, versions |-> p.version,
                 primary |-> p.primary]
           r == [status |-> "completed", version |-> p.version, primary |-> p.primary]
<1>1. /\ known' = [known EXCEPT ![IdOf[p.call]] = k] /\ rows' = [rows EXCEPT ![p.call] = r]
      /\ lives' = lives
    BY DEF Publish
<1>2. IdOf[p.call] \in Ids /\ k.versions \in Nat /\ k.primary \in BOOLEAN
    BY IdsAre DEF Typed
<1> HIDE DEF k, r
<1>3. QED
    BY <1>1, <1>2, KnownTyped

LEMMA ResumeTyped ==
    ASSUME NoneAssumption, Typed, Resume
    PROVE  Typed'
<1>1. /\ lives' = lives + 1 /\ known' = [i \in Ids |-> Remembered(rows, i)]
      /\ UNCHANGED <<rows, issued>>
    BY DEF Resume
<1>2. \A i \in Ids : known'[i] = Remembered(rows, i)
    BY <1>1
<1>3. \A i \in Ids : known'[i] # None => known'[i].versions \in Nat /\ known'[i].primary \in BOOLEAN
    BY <1>2, RememberedIs
<1>4. DOMAIN known' = Ids
    BY <1>1
<1>5. QED
    BY <1>1, <1>3, <1>4 DEF Typed

LEMMA StillTyped ==
    ASSUME Typed, UNCHANGED <<known, lives>>, issued' \subseteq issued,
           rows' = rows \/ \E c, r : rows' = [rows EXCEPT ![c] = r]
    PROVE  Typed'
BY DEF Typed

LEMMA NextTyped ==
    ASSUME NoneAssumption, Typed, [Next]_vars
    PROVE  Typed'
<1>1. ASSUME NEW c \in Calls, Call(c)
      PROVE  Typed'
    <2>1. CASE Retell(c) \/ Refuse(c) \/ Skip(c) \/ FailRun(c)
        BY <2>1, StillTyped DEF Retell, Refuse, Skip, FailRun, Close
    <2>2. QED
        BY <1>1, <2>1, DispatchTyped, DeclareTyped DEF Call
<1>2. ASSUME NEW p \in issued, Stored(p) \/ NotStored(p)
      PROVE  Typed'
    <2>1. issued' = issued \ {p}
        BY <1>2 DEF Stored, NotStored
    <2>2. CASE JournalFailure(p)
        BY <2>1, <2>2, StillTyped DEF JournalFailure
    <2>3. CASE UNCHANGED <<run, known, rows, outcome, ready, lives, tail>>
        BY <2>1, <2>3, StillTyped
    <2>4. QED
        BY <1>2, <2>1, <2>2, <2>3, PublishTyped DEF Stored, NotStored
<1>3. CASE Complete \/ Halt \/ Over \/ UNCHANGED vars
    BY <1>3, StillTyped DEF Complete, Halt, Close, Over, vars
<1>4. QED
    BY <1>1, <1>2, <1>3, ResumeTyped DEF Next, Progress

-----------------------------------------------------------------------------
(* The flag. *)

\* Only completed rows have the flag.
FlagsAreDone ==
    \A c \in Calls : rows[c] # None /\ rows[c].primary => rows[c].status = "completed"

LEMMA InitInv ==
    ASSUME Init
    PROVE  Inv /\ FlagsAreDone
<1>1. Typed
    BY DEF Init, Typed, Nothing
<1>2. RowsAreKnown /\ OneFlag /\ KeepsFlag /\ FlagsAreDone
    BY IdsAre DEF Init, RowsAreKnown, OneFlag, KeepsFlag, Flagged, FlagsAreDone, Nothing
<1>3. QED
    BY <1>1, <1>2 DEF Inv

\* A row is written that has no flag, and no more is known.
LEMMA PlainRow ==
    ASSUME Inv, FlagsAreDone, NEW c \in Calls, NEW R, R.primary = FALSE,
           rows' = [rows EXCEPT ![c] = R],
           UNCHANGED <<known, lives>>, issued' \subseteq issued,
           \A p \in issued' : Settled(p) => Settled(p)'
    PROVE  Inv' /\ FlagsAreDone'
<1>1. \A i : Flagged(i)' <=> Flagged(i)
    BY DEF Flagged
<1>2. \A i : NextVersion(i)' = NextVersion(i)
    BY DEF NextVersion
<1>3. Typed'
    BY DEF Inv, Typed
<1>4. RowsAreKnown' /\ FlagsAreDone'
    BY <1>1 DEF Inv, Typed, RowsAreKnown, FlagsAreDone
<1>5. OneFlag'
    BY <1>1 DEF Inv, OneFlag
<1>6. KeepsFlag'
    BY <1>1, <1>2 DEF Inv, KeepsFlag
<1>7. QED
    BY <1>3, <1>4, <1>5, <1>6 DEF Inv

\* No row is written and nothing is learnt.
LEMMA NoRow ==
    ASSUME Inv, FlagsAreDone, UNCHANGED <<rows, known, lives>>, issued' \subseteq issued,
           \A p \in issued' : Settled(p) => Settled(p)'
    PROVE  Inv' /\ FlagsAreDone'
<1>1. \A i : Flagged(i)' <=> Flagged(i)
    BY DEF Flagged
<1>2. \A i : NextVersion(i)' = NextVersion(i)
    BY DEF NextVersion
<1>3. Typed' /\ RowsAreKnown' /\ FlagsAreDone' /\ OneFlag'
    BY <1>1 DEF Inv, Typed, RowsAreKnown, FlagsAreDone, OneFlag
<1>4. KeepsFlag'
    BY <1>1, <1>2 DEF Inv, KeepsFlag
<1>5. QED
    BY <1>3, <1>4 DEF Inv

LEMMA DispatchInv ==
    ASSUME Inv, FlagsAreDone, NEW c \in Calls, Dispatch(c)
    PROVE  Inv' /\ FlagsAreDone'
<1> DEFINE q == [call |-> c, version |-> NextVersion(IdOf[c]), primary |-> WantsPrimary(c),
                 life |-> lives]
<1>1. /\ rows' = [rows EXCEPT ![c] = Running] /\ issued' = issued \cup {q}
      /\ UNCHANGED <<run, known, lives>>
    BY DEF Dispatch
<1>2. IdOf[c] \in Ids
    BY IdsAre
<1>3. \A i : /\ Flagged(i)' <=> Flagged(i)
             /\ NextVersion(i)' = NextVersion(i)
    BY <1>1 DEF Flagged, NextVersion
<1>4. q.version \in Nat /\ q.primary = WantsPrimary(c) /\ q.call = c /\ q.life = lives
    BY <1>2, Numbers DEF Inv
<1>5. WantsPrimary(c) \in BOOLEAN /\ (Flagged(IdOf[c]) => WantsPrimary(c))
    BY <1>2 DEF WantsPrimary, Flagged, Inv, Typed
<1>6. Typed'
    BY DispatchTyped DEF Inv
<1>7. RowsAreKnown' /\ FlagsAreDone'
    BY <1>1, <1>3 DEF Inv, Typed, RowsAreKnown, FlagsAreDone, Running
<1>8. OneFlag'
    BY <1>3 DEF Inv, OneFlag
<1>9. KeepsFlag'
    <2>1. ASSUME NEW p \in issued', ~Settled(p)', p.version = NextVersion(IdOf[p.call])',
                 Flagged(IdOf[p.call])'
          PROVE  p.primary
        <3>1. CASE p = q
            BY <1>3, <1>4, <1>5, <2>1, <3>1
        <3>2. CASE p \in issued
            BY <1>1, <1>3, <2>1, <3>2 DEF Inv, KeepsFlag, Settled
        <3>3. QED
            BY <1>1, <3>1, <3>2
    <2>2. QED
        BY <2>1 DEF KeepsFlag
<1>10. QED
    BY <1>6, <1>7, <1>8, <1>9 DEF Inv

LEMMA DeclareInv ==
    ASSUME NoneAssumption, Inv, FlagsAreDone, InTurn, NEW c \in Calls, Declare(c)
    PROVE  Inv' /\ FlagsAreDone'
<1> DEFINE i == IdOf[c]
           k == [kind |-> KindOf[c], spec |-> SpecOf[c], versions |-> 1, primary |-> c \in Primary]
<1>1. /\ known' = [known EXCEPT ![i] = k]
      /\ rows' = [rows EXCEPT ![c] =
                     [status |-> "completed", version |-> 1, primary |-> c \in Primary]]
      /\ UNCHANGED <<run, issued, lives>>
    BY DEF Declare
<1>2. i \in Ids /\ known[i] = None /\ (c \in Primary => ~Taken(i))
    BY IdsAre DEF Declare, Clashes
<1>3. k # None /\ k.versions = 1 /\ k.primary = (c \in Primary)
    BY DEF NoneAssumption
<1> HIDE DEF k
<1> HIDE DEF i
<1>4. known'[i] = k /\ \A j \in Ids \ {i} : known'[j] = known[j]
    BY <1>1, <1>2 DEF Inv, Typed
<1>5. /\ Flagged(i)' <=> c \in Primary
      /\ \A j \in Ids \ {i} : (Flagged(j)' <=> Flagged(j)) /\ NextVersion(j)' = NextVersion(j)
      /\ ~Flagged(i) /\ NextVersion(i) = 1 /\ NextVersion(i)' = 2
    <2>1. (Flagged(i)' <=> c \in Primary) /\ ~Flagged(i)
        BY <1>2, <1>3, <1>4 DEF Flagged
    <2>2. \A j \in Ids \ {i} : (Flagged(j)' <=> Flagged(j)) /\ NextVersion(j)' = NextVersion(j)
        BY <1>4 DEF Flagged, NextVersion
    <2>3. NextVersion(i) = 1 /\ NextVersion(i)' = 2
        BY <1>2, <1>3, <1>4 DEF NextVersion
    <2>4. QED
        BY <2>1, <2>2, <2>3
<1> USE DEF i
<1>6. Typed'
    BY DeclareTyped DEF Inv
<1>7. RowsAreKnown' /\ FlagsAreDone'
    <2>1. ASSUME NEW d \in Calls, rows'[d] # None, rows'[d].primary
          PROVE  Flagged(IdOf[d])' /\ rows'[d].status = "completed"
        <3>1. CASE d = c
            BY <1>1, <1>5, <2>1, <3>1 DEF Inv, Typed
        <3>2. CASE d # c
            <4>1. rows'[d] = rows[d]
                BY <1>1, <3>2
            <4>2. Flagged(IdOf[d]) /\ rows[d].status = "completed"
                BY <2>1, <4>1 DEF Inv, RowsAreKnown, FlagsAreDone
            <4>3. QED
                BY <1>5, <4>1, <4>2, IdsAre
        <3>3. QED
            BY <3>1, <3>2
    <2>2. QED
        BY <2>1 DEF RowsAreKnown, FlagsAreDone
<1>8. OneFlag'
    BY <1>2, <1>5 DEF Inv, OneFlag, Taken, Flagged
<1>9. KeepsFlag'
    <2>1. ASSUME NEW p \in issued', ~Settled(p)', p.version = NextVersion(IdOf[p.call])',
                 Flagged(IdOf[p.call])', ~p.primary
          PROVE  IdOf[p.call] = i
        <3>1. p \in issued /\ ~Settled(p) /\ IdOf[p.call] \in Ids
            BY <1>1, <2>1, IdsAre DEF Settled, Inv, Typed
        <3>2. QED
            BY <1>5, <2>1, <3>1 DEF Inv, KeepsFlag
    <2>2. ASSUME NEW p \in issued', ~Settled(p)', IdOf[p.call] = i
          PROVE  p.version # NextVersion(i)'
        BY <1>1, <1>5, <2>2 DEF InTurn, Settled
    <2>3. QED
        BY <2>1, <2>2 DEF KeepsFlag
<1>10. QED
    BY <1>6, <1>7, <1>8, <1>9 DEF Inv

LEMMA PublishInv ==
    ASSUME NoneAssumption, Inv, FlagsAreDone, InTurn, NEW p \in issued, ~Settled(p),
           ~LostRace(p), Publish(p), issued' = issued \ {p}
    PROVE  Inv' /\ FlagsAreDone'
<1> DEFINE i == IdOf[p.call]
           k == [kind |-> KindOf[p.call], spec |-> None, versions |-> p.version,
                 primary |-> p.primary]
           R == [status |-> "completed", version |-> p.version, primary |-> p.primary]
<1>1. /\ known' = [known EXCEPT ![i] = k] /\ rows' = [rows EXCEPT ![p.call] = R]
      /\ UNCHANGED <<run, lives>>
    BY DEF Publish
<1>2. /\ p.call \in Calls /\ i \in Ids /\ p.version \in Nat /\ p.primary \in BOOLEAN
      /\ p.version = NextVersion(i)
      /\ p.primary => ~Taken(i)
      /\ Flagged(i) => p.primary
    BY IdsAre DEF Inv, Typed, InTurn, LostRace, KeepsFlag
<1>3. /\ k # None /\ k.versions = p.version /\ k.primary = p.primary
      /\ R.status = "completed" /\ R.primary = p.primary
    BY DEF NoneAssumption
<1> HIDE DEF k, R, i
<1>4. known'[i] = k /\ \A j \in Ids \ {i} : known'[j] = known[j]
    BY <1>1, <1>2 DEF Inv, Typed
<1>5. Flagged(i)' <=> p.primary
    BY <1>3, <1>4 DEF Flagged
<1>6. \A j \in Ids \ {i} : (Flagged(j)' <=> Flagged(j)) /\ NextVersion(j)' = NextVersion(j)
    BY <1>4 DEF Flagged, NextVersion
<1>7. NextVersion(i)' = p.version + 1
    BY <1>3, <1>4 DEF NextVersion
<1>8. Typed'
    BY PublishTyped DEF Inv
<1>9. RowsAreKnown' /\ FlagsAreDone'
    <2>1. ASSUME NEW d \in Calls, rows'[d] # None, rows'[d].primary
          PROVE  Flagged(IdOf[d])' /\ rows'[d].status = "completed"
        <3>1. CASE d = p.call
            <4>1. rows'[d] = R
                BY <1>1, <3>1 DEF Inv, Typed
            <4>2. QED
                BY <1>3, <1>5, <2>1, <3>1, <4>1 DEF i
        <3>2. CASE d # p.call
            <4>1. rows'[d] = rows[d]
                BY <1>1, <3>2
            <4>2. Flagged(IdOf[d]) /\ rows[d].status = "completed"
                BY <2>1, <4>1 DEF Inv, RowsAreKnown, FlagsAreDone
            <4>3. Flagged(IdOf[d])'
                BY <1>2, <1>5, <1>6, <4>2, IdsAre
            <4>4. QED
                BY <4>1, <4>2, <4>3
        <3>3. QED
            BY <3>1, <3>2
    <2>2. QED
        BY <2>1 DEF RowsAreKnown, FlagsAreDone
<1>10. OneFlag'
    BY <1>2, <1>5, <1>6 DEF Inv, OneFlag, Taken, Flagged
<1>11. KeepsFlag'
    <2>1. ASSUME NEW q \in issued', ~Settled(q)', q.version = NextVersion(IdOf[q.call])',
                 Flagged(IdOf[q.call])'
          PROVE  q.primary
        <3>1. q \in issued /\ ~Settled(q) /\ IdOf[q.call] \in Ids
            BY <1>1, <2>1, IdsAre DEF Settled, Inv, Typed
        <3>2. IdOf[q.call] # i
            <4>1. q.version = NextVersion(IdOf[q.call])
                BY <3>1 DEF InTurn
            <4>2. p.version # p.version + 1
                BY <1>2
            <4>3. QED
                BY <1>2, <1>7, <2>1, <4>1, <4>2
        <3>3. QED
            BY <1>6, <2>1, <3>1, <3>2 DEF Inv, KeepsFlag
    <2>2. QED
        BY <2>1 DEF KeepsFlag
<1>12. QED
    BY <1>8, <1>9, <1>10, <1>11 DEF Inv

LEMMA FailureInv ==
    ASSUME Inv, FlagsAreDone, NEW p \in issued, JournalFailure(p), issued' = issued \ {p}
    PROVE  Inv' /\ FlagsAreDone'
<1>1. p.call \in Calls /\ Failed.primary = FALSE
    BY DEF Inv, Typed, Failed
<1>2. rows' = [rows EXCEPT ![p.call] = Failed] /\ UNCHANGED <<run, known, lives>>
    BY DEF JournalFailure
<1>3. QED
    BY <1>1, <1>2, PlainRow DEF Settled

LEMMA CallInv ==
    ASSUME NoneAssumption, Inv, FlagsAreDone, InTurn, NEW c \in Calls, Call(c)
    PROVE  Inv' /\ FlagsAreDone'
<1>1. CASE Retell(c)
    BY <1>1, NoRow DEF Retell, Settled
<1>2. CASE Refuse(c)
    <2>1. Failed.primary = FALSE
        BY DEF Failed
    <2>2. rows' = [rows EXCEPT ![c] = Failed] /\ UNCHANGED <<run, known, issued, lives>>
        BY <1>2 DEF Refuse
    <2>3. QED
        BY <2>1, <2>2, PlainRow DEF Settled
<1>3. CASE Dispatch(c)
    BY <1>3, DispatchInv
<1>4. CASE Skip(c)
    BY <1>4, NoRow DEF Skip, Settled
<1>5. CASE Declare(c)
    BY <1>5, DeclareInv
<1>6. CASE FailRun(c)
    BY <1>6, NoRow DEF FailRun, Close, Settled
<1>7. QED
    BY <1>1, <1>2, <1>3, <1>4, <1>5, <1>6 DEF Call

LEMMA ResumeInv ==
    ASSUME NoneAssumption, Inv, FlagsAreDone, Resume
    PROVE  Inv' /\ FlagsAreDone'
<1>1. /\ lives' = lives + 1 /\ known' = [i \in Ids |-> Remembered(rows, i)]
      /\ UNCHANGED <<rows, issued>>
    BY DEF Resume
<1>2. \A i \in Ids : known'[i] = Remembered(rows, i)
    BY <1>1
<1>3. Typed'
    BY ResumeTyped DEF Inv
<1>4. \A i \in Ids : Flagged(i)' <=> \E c \in Completed(rows, i) : rows[c].primary
    BY <1>2, RememberedIs DEF Flagged
<1>5. RowsAreKnown' /\ FlagsAreDone'
    BY <1>1, <1>4, IdsAre DEF RowsAreKnown, FlagsAreDone, Completed
<1>6. OneFlag'
    <2>1. ASSUME NEW i \in Ids, Flagged(i)'
          PROVE  Flagged(i)
        BY <1>4, <2>1 DEF Inv, RowsAreKnown, Completed
    <2>2. QED
        BY <2>1 DEF Inv, OneFlag
<1>7. KeepsFlag'
    BY <1>1 DEF Inv, Typed, KeepsFlag, Settled
<1>8. QED
    BY <1>3, <1>5, <1>6, <1>7 DEF Inv

LEMMA NextInv ==
    ASSUME NoneAssumption, Inv, FlagsAreDone, InTurn, [Next]_vars
    PROVE  Inv' /\ FlagsAreDone'
<1>1. ASSUME NEW c \in Calls, Call(c)
      PROVE  Inv' /\ FlagsAreDone'
    BY <1>1, CallInv
<1>2. ASSUME NEW p \in issued, Stored(p)
      PROVE  Inv' /\ FlagsAreDone'
    <2>1. CASE Settled(p)
        BY <1>2, <2>1, NoRow DEF Stored, Settled
    <2>2. CASE ~Settled(p) /\ LostRace(p)
        BY <1>2, <2>2, FailureInv DEF Stored
    <2>3. CASE ~Settled(p) /\ ~LostRace(p)
        BY <1>2, <2>3, PublishInv DEF Stored
    <2>4. QED
        BY <2>1, <2>2, <2>3
<1>3. ASSUME NEW p \in issued, NotStored(p)
      PROVE  Inv' /\ FlagsAreDone'
    BY <1>3, FailureInv DEF NotStored
<1>4. CASE Complete \/ Halt
    BY <1>4, NoRow DEF Complete, Halt, Close, Settled
<1>5. CASE Resume
    BY <1>5, ResumeInv
<1>6. CASE Over \/ UNCHANGED vars
    BY <1>6, NoRow DEF Over, vars, Settled
<1>7. QED
    BY <1>1, <1>2, <1>3, <1>4, <1>5, <1>6 DEF Next, Progress

-----------------------------------------------------------------------------
(* In a life every call is sent once. *)

LEMMA WokenFacts ==
    ASSUME NEW c \in Calls
    PROVE  /\ Woken(c) \in Seq(Calls) /\ IsInjective(Woken(c))
           /\ Range(Woken(c)) =
                {d \in Calls : c \in After[d] /\ \A p \in After[d] \ {c} : outcome[p] # None}
<1> DEFINE T == {d \in Calls : c \in After[d] /\ \A p \in After[d] \ {c} : outcome[p] # None}
<1>1. Woken(c) = Among(Script, T)
    BY DEF Woken
<1>2. Range(Script) \cap T = T
    BY PublisherAssumption
<1> HIDE DEF T
<1>3. /\ Among(Script, T) \in Seq(Calls) /\ IsInjective(Among(Script, T))
      /\ Range(Among(Script, T)) = Range(Script) \cap T
    BY PublisherAssumption, AmongFacts
<1>4. QED
    BY <1>1, <1>2, <1>3 DEF T

LEMMA FirstFacts ==
    /\ FirstCalls \in Seq(Calls) /\ IsInjective(FirstCalls)
    /\ Range(FirstCalls) = {c \in Calls : After[c] = {}}
<1> DEFINE T == {c \in Calls : After[c] = {}}
<1>1. FirstCalls = Among(Script, T)
    BY DEF FirstCalls
<1>2. Range(Script) \cap T = T
    BY PublisherAssumption
<1> HIDE DEF T
<1>3. /\ Among(Script, T) \in Seq(Calls) /\ IsInjective(Among(Script, T))
      /\ Range(Among(Script, T)) = Range(Script) \cap T
    BY PublisherAssumption, AmongFacts
<1>4. QED
    BY <1>1, <1>2, <1>3 DEF T

LEMMA AfterIs == \A c \in Calls : After[c] \subseteq Calls
BY ScriptAssumption

\* A call that was out is answered: R are the other requests, and the publications
\* that remain at the driver are not of it.
LEMMA DeliverSent ==
    ASSUME Sent, NEW c \in Range(ready) \cup AtDriver, NEW R \in Seq(Calls), IsInjective(R),
           Range(R) \subseteq Range(ready) \ {c}, NEW good \in BOOLEAN, Deliver(c, good, R),
           Current' \subseteq Current, \A p \in Current' : p.call # c
    PROVE  Sent'
<1> DEFINE W == {d \in Calls : c \in After[d] /\ \A p \in After[d] \ {c} : outcome[p] # None}
<1>0. Range(ready) \subseteq Calls
    BY DEF Sent, Range
<1>1. c \in Calls /\ c \notin Answered /\ After[c] \subseteq Answered
    BY <1>0 DEF Sent, AtDriver, Contents
<1>2. outcome' = [outcome EXCEPT ![c] = [by |-> c, ok |-> good]] /\ ready' = R \o Woken(c)
    BY DEF Deliver
<1>3. [by |-> c, ok |-> good] \in Answers /\ [by |-> c, ok |-> good] # None
    BY <1>1, ScriptAssumption DEF Answers
<1>4. outcome' \in [Calls -> Opt(Answers)] /\ Answered' = Answered \cup {c}
    BY <1>1, <1>2, <1>3 DEF Sent, Opt, Answered
<1>5. Woken(c) \in Seq(Calls) /\ IsInjective(Woken(c)) /\ Range(Woken(c)) = W
    BY <1>1, WokenFacts
<1>6. ASSUME NEW d \in W
      PROVE  d \notin Range(ready) \cup AtDriver /\ d \notin Answered /\ d # c
             /\ After[d] \subseteq Answered \cup {c}
    BY <1>1, AfterIs DEF Sent, Answered
<1>7. /\ ready' \in Seq(Calls) /\ IsInjective(ready') /\ Range(ready') = Range(R) \cup W
    <2>1. Range(R) \cap Range(Woken(c)) = {}
        BY <1>5, <1>6
    <2>2. QED
        BY <1>2, <1>5, <2>1, ConcatFacts
<1> HIDE DEF W
<1>8. AtDriver' \subseteq AtDriver \ {c}
    BY DEF AtDriver
<1>9. ASSUME NEW d \in Range(ready)' \cup AtDriver'
      PROVE  d \notin Answered' /\ After[d] \subseteq Answered'
    <2>1. CASE d \in W
        BY <1>4, <1>6, <2>1
    <2>2. CASE d \in (Range(ready) \cup AtDriver) \ {c}
        BY <1>4, <2>2 DEF Sent
    <2>3. QED
        BY <1>7, <1>8, <1>9, <2>1, <2>2
<1>10. ASSUME NEW p \in Current' PROVE p.call \in Contents /\ p.call \notin Range(ready)'
    <2>1. p.call \in AtDriver
        BY DEF AtDriver
    <2>2. QED
        BY <1>6, <1>7, <2>1 DEF Sent
<1>11. \A d \in Answered' : After[d] \subseteq Answered'
    BY <1>1, <1>4 DEF Sent
<1>12. \A p, q \in Current' : p.call = q.call => p = q
    BY DEF Sent
<1>13. QED
    BY <1>4, <1>7, <1>9, <1>10, <1>11, <1>12 DEF Sent

\* Nobody is answered, and no call is out that was not.
LEMMA StillSent ==
    ASSUME Sent, ready' \in Seq(Calls), IsInjective(ready'), outcome' = outcome,
           Range(ready)' \subseteq Range(ready), Current' \subseteq Current
    PROVE  Sent'
<1>1. AtDriver' \subseteq AtDriver /\ Answered' = Answered
    BY DEF AtDriver, Answered
<1>2. QED
    BY <1>1 DEF Sent

\* The request at the head is taken and published.
LEMMA DispatchSent ==
    ASSUME Typed, Sent, NEW c \in Contents, ready # <<>>, c = Head(ready), Dispatch(c)
    PROVE  Sent'
<1> DEFINE q == [call |-> c, version |-> NextVersion(IdOf[c]), primary |-> WantsPrimary(c),
                 life |-> lives]
<1>1. /\ ready' = Tail(ready) /\ issued' = issued \cup {q} /\ UNCHANGED <<outcome, lives>>
    BY DEF Dispatch
<1>2. q.call = c /\ q.life = lives
    OBVIOUS
<1> HIDE DEF q
<1>3. Current' = Current \cup {q} /\ AtDriver' = AtDriver \cup {c}
    <2>1. Current' = Current \cup {q}
        BY <1>1, <1>2 DEF Current
    <2>2. QED
        BY <1>2, <2>1 DEF AtDriver
<1>4. /\ ready' \in Seq(Calls) /\ Range(ready) = Range(ready') \cup {c}
      /\ IsInjective(ready') /\ c \notin Range(ready')
    BY <1>1, TailFacts DEF Sent
<1>5. Answered' = Answered
    BY <1>1 DEF Answered
<1>6. \A p \in Current : p.call # c
    BY <1>4 DEF Sent
<1>7. \A p \in Current' : p.call \in Contents /\ p.call \notin Range(ready')
    BY <1>2, <1>3, <1>4 DEF Sent
<1>8. \A p, r \in Current' : p.call = r.call => p = r
    BY <1>2, <1>3, <1>6 DEF Sent
<1>9. \A d \in Range(ready') \cup AtDriver' : d \notin Answered' /\ After[d] \subseteq Answered'
    BY <1>3, <1>4, <1>5 DEF Sent
<1>10. QED
    BY <1>1, <1>4, <1>5, <1>7, <1>8, <1>9 DEF Sent

LEMMA CallSent ==
    ASSUME Typed, Sent, NEW c \in Calls, Call(c)
    PROVE  Sent'
<1>1. ready # <<>> /\ c = Head(ready)
    BY DEF Call
<1>2. /\ Tail(ready) \in Seq(Calls) /\ IsInjective(Tail(ready))
      /\ Range(ready) = Range(Tail(ready)) \cup {c} /\ c \notin Range(Tail(ready))
    BY <1>1, TailFacts DEF Sent
<1>3. ASSUME NEW good \in BOOLEAN, Deliver(c, good, Tail(ready)), UNCHANGED <<issued, lives>>
      PROVE  Sent'
    <2>1. Current' = Current
        BY <1>3 DEF Current
    <2>2. \A p \in Current : p.call # c
        BY <1>2 DEF Sent
    <2>3. QED
        BY <1>2, <1>3, <2>1, <2>2, DeliverSent
<1>4. CASE Retell(c)
    <2> DEFINE good == rows[c].status = "completed"
    <2>1. good \in BOOLEAN /\ Deliver(c, good, Tail(ready)) /\ UNCHANGED <<issued, lives>>
        BY <1>4 DEF Retell
    <2> HIDE DEF good
    <2>2. QED
        BY <1>3, <2>1
<1>5. CASE Refuse(c)
    BY <1>3, <1>5 DEF Refuse
<1>6. CASE c \in Contents /\ Dispatch(c)
    BY <1>1, <1>6, DispatchSent
<1>7. ASSUME ready' = Tail(ready), UNCHANGED <<outcome, issued, lives>>
      PROVE  Sent'
    <2>1. Current' = Current
        BY <1>7 DEF Current
    <2>2. QED
        BY <1>2, <1>7, <2>1, StillSent
<1>8. CASE Skip(c) \/ Declare(c)
    BY <1>7, <1>8 DEF Skip, Declare
<1>9. CASE FailRun(c)
    <2>1. issued' \subseteq issued /\ UNCHANGED <<ready, outcome, lives>>
        BY <1>9 DEF FailRun, Close
    <2>2. Current' \subseteq Current
        BY <2>1 DEF Current
    <2>3. QED
        BY <2>1, <2>2, StillSent DEF Sent
<1>10. QED
    BY <1>4, <1>5, <1>6, <1>8, <1>9 DEF Call

\* The driver's answer takes the publication away, and is told if it is of this life.
LEMMA AnswerSent ==
    ASSUME Sent, NEW p \in issued, issued' = issued \ {p}, lives' = lives,
           \/ UNCHANGED <<outcome, ready>>
           \/ p.life = lives /\ \E good \in BOOLEAN : Deliver(p.call, good, ready)
    PROVE  Sent'
<1>1. Current' = Current \ {p}
    BY DEF Current
<1>2. CASE UNCHANGED <<outcome, ready>>
    BY <1>1, <1>2, StillSent DEF Sent
<1>3. CASE p.life = lives /\ \E good \in BOOLEAN : Deliver(p.call, good, ready)
    <2>1. p \in Current /\ p.call \in AtDriver
        BY <1>3 DEF Current, AtDriver
    <2>2. PICK good \in BOOLEAN : Deliver(p.call, good, ready)
        BY <1>3
    <2>3. /\ ready \in Seq(Calls) /\ IsInjective(ready)
          /\ Range(ready) \subseteq Range(ready) \ {p.call}
          /\ \A q \in Current' : q.call # p.call
        BY <1>1, <2>1 DEF Sent
    <2>4. QED
        BY <1>1, <2>1, <2>2, <2>3, DeliverSent
<1>4. QED
    BY <1>2, <1>3

LEMMA ReportSent ==
    ASSUME Sent, NEW p \in issued, Stored(p) \/ NotStored(p)
    PROVE  Sent'
<1>1. issued' = issued \ {p} /\ lives' = lives
    BY DEF Stored, NotStored, JournalFailure, Publish
<1>2. ASSUME JournalFailure(p) PROVE Sent'
    BY <1>1, <1>2, AnswerSent DEF JournalFailure, Deaf, Settled
<1>3. ASSUME Stored(p) PROVE Sent'
    BY <1>1, <1>2, <1>3, AnswerSent DEF Stored, Publish, Settled
<1>4. QED
    BY <1>2, <1>3 DEF NotStored

LEMMA StartSent ==
    ASSUME ready' = FirstCalls, outcome' = Nothing, Current' = {}
    PROVE  Sent'
<1>1. outcome' \in [Calls -> Opt(Answers)] /\ Answered' = {} /\ AtDriver' = {}
    BY DEF Nothing, Opt, Answered, AtDriver
<1>2. QED
    BY <1>1, FirstFacts DEF Sent

LEMMA InitSent ==
    ASSUME Init
    PROVE  Sent
<1>1. outcome \in [Calls -> Opt(Answers)] /\ Answered = {} /\ AtDriver = {} /\ Current = {}
    BY DEF Init, Nothing, Opt, Answered, AtDriver, Current
<1>2. QED
    BY <1>1, FirstFacts DEF Init, Sent

LEMMA NextSent ==
    ASSUME Typed, Sent, [Next]_vars
    PROVE  Sent'
<1>1. ASSUME NEW c \in Calls, Call(c)
      PROVE  Sent'
    BY <1>1, CallSent
<1>2. ASSUME NEW p \in issued, Stored(p) \/ NotStored(p)
      PROVE  Sent'
    BY <1>2, ReportSent
<1>3. CASE Complete \/ Halt
    <2>1. issued' \subseteq issued /\ UNCHANGED <<ready, outcome, lives>>
        BY <1>3 DEF Complete, Halt, Close
    <2>2. Current' \subseteq Current
        BY <2>1 DEF Current
    <2>3. QED
        BY <2>1, <2>2, StillSent DEF Sent
<1>4. CASE Resume
    <2>1. ready' = FirstCalls /\ outcome' = Nothing /\ issued' = issued /\ lives' = lives + 1
        BY <1>4 DEF Resume
    <2>2. Current' = {}
        BY <2>1 DEF Current, Typed
    <2>3. QED
        BY <2>1, <2>2, StartSent
<1>5. CASE Over \/ UNCHANGED vars
    <2>1. Current' = Current /\ UNCHANGED <<ready, outcome>>
        BY <1>5 DEF Over, vars, Current
    <2>2. QED
        BY <2>1, StillSent DEF Sent
<1>6. QED
    BY <1>1, <1>2, <1>3, <1>4, <1>5 DEF Next, Progress
-----------------------------------------------------------------------------
(* Publications of an id one after the other. *)

\* What a call follows is answered before it is sent.
LEMMA FollowsFacts ==
    ASSUME Sent, NEW c \in Calls, After[c] \subseteq Answered, NEW d, Follows(c, d)
    PROVE  d \in Answered
<1>1. Answered \in SUBSET Calls /\ \A e \in Answered : After[e] \subseteq Answered
    BY DEF Sent, Answered
<1> HIDE DEF Answered
<1>2. QED
    BY <1>1 DEF Follows

\* While a publication is at the driver no other call of its id is out.
LEMMA Alone ==
    ASSUME OneAtATime, Sent, NEW p \in Current, NEW c \in Range(ready) \cup AtDriver, c # p.call
    PROVE  IdOf[c] # IdOf[p.call]
<1>1. c \in Calls /\ p.call \in Contents /\ p.call \in Calls /\ p.call \in AtDriver
    BY DEF Sent, AtDriver, Contents, Range
<1>2. /\ c \notin Answered /\ After[c] \subseteq Answered
      /\ p.call \notin Answered /\ After[p.call] \subseteq Answered
    BY <1>1 DEF Sent
<1>3. ~Follows(c, p.call) /\ ~Follows(p.call, c)
    BY <1>1, <1>2, FollowsFacts
<1>4. QED
    BY <1>1, <1>3 DEF OneAtATime

\* As long as what is known of the ids of the publications under way stays.
LEMMA StillUndisturbed ==
    ASSUME Undisturbed, Current' \subseteq Current,
           \A p \in Current' : known'[IdOf[p.call]] = known[IdOf[p.call]]
    PROVE  Undisturbed'
BY DEF Undisturbed, NextVersion

LEMMA DispatchUndisturbed ==
    ASSUME Typed, Undisturbed, NEW c \in Calls, Dispatch(c)
    PROVE  Undisturbed'
<1> DEFINE q == [call |-> c, version |-> NextVersion(IdOf[c]), primary |-> WantsPrimary(c),
                 life |-> lives]
           k == known[IdOf[c]]
<1>1. issued' = issued \cup {q} /\ UNCHANGED <<known, lives>> /\ (k # None => k.kind = KindOf[c])
    BY DEF Dispatch, Refused
<1>2. q.call = c /\ q.version = NextVersion(IdOf[c])
    OBVIOUS
<1> HIDE DEF q
<1>3. Current' \subseteq Current \cup {q}
    BY <1>1 DEF Current
<1>4. QED
    BY <1>1, <1>2, <1>3 DEF Undisturbed, NextVersion

\* Only a declaration and a stored publication teach the engine something.
LEMMA CallUndisturbed ==
    ASSUME OneAtATime, Typed, Sent, Undisturbed, NEW c \in Calls, Call(c)
    PROVE  Undisturbed'
<1>1. ASSUME UNCHANGED <<known, lives>>, issued' \subseteq issued
      PROVE  Undisturbed'
    <2>1. Current' \subseteq Current
        BY <1>1 DEF Current
    <2>2. QED
        BY <1>1, <2>1, StillUndisturbed
<1>2. CASE Retell(c) \/ Refuse(c) \/ Skip(c) \/ FailRun(c)
    BY <1>1, <1>2 DEF Retell, Refuse, Skip, FailRun, Close
<1>3. CASE Dispatch(c)
    BY <1>3, DispatchUndisturbed
<1>4. CASE Declare(c)
    <2>1. /\ \A i \in Ids \ {IdOf[c]} : known'[i] = known[i]
          /\ UNCHANGED <<issued, lives>>
        BY <1>4 DEF Declare, Typed
    <2>2. c \in Range(ready)
        BY TailFacts DEF Call, Sent
    <2>3. Current' = Current
        BY <2>1 DEF Current
    <2>4. ASSUME NEW p \in Current
          PROVE  known'[IdOf[p.call]] = known[IdOf[p.call]]
        <3>1. p.call # c /\ IdOf[p.call] \in Ids
            BY <2>2, IdsAre DEF Sent, Contents
        <3>2. QED
            BY <2>1, <2>2, <3>1, Alone
    <2>5. QED
        BY <2>3, <2>4, StillUndisturbed
<1>5. QED
    BY <1>2, <1>3, <1>4 DEF Call

LEMMA ReportUndisturbed ==
    ASSUME OneAtATime, Typed, Sent, Undisturbed, NEW p \in issued, Stored(p) \/ NotStored(p)
    PROVE  Undisturbed'
<1>1. issued' = issued \ {p} /\ lives' = lives
    BY DEF Stored, NotStored, JournalFailure, Publish
<1>2. Current' = Current \ {p}
    BY <1>1 DEF Current
<1>3. CASE known' = known
    BY <1>2, <1>3, StillUndisturbed
<1>4. CASE ~Settled(p) /\ Publish(p)
    <2>1. p \in Current /\ p.call \in AtDriver
        BY <1>4 DEF Settled, Current, AtDriver
    <2>2. \A i \in Ids \ {IdOf[p.call]} : known'[i] = known[i]
        BY <1>4 DEF Publish, Typed
    <2>3. ASSUME NEW q \in Current'
          PROVE  known'[IdOf[q.call]] = known[IdOf[q.call]]
        <3>1. q \in Current /\ q.call # p.call /\ IdOf[q.call] \in Ids
            BY <1>2, <2>1, IdsAre DEF Sent, Contents
        <3>2. QED
            BY <2>1, <2>2, <3>1, Alone
    <2>4. QED
        BY <1>2, <2>3, StillUndisturbed
<1>5. QED
    BY <1>3, <1>4 DEF Stored, NotStored, JournalFailure

LEMMA NextUndisturbed ==
    ASSUME OneAtATime, Typed, Sent, Undisturbed, [Next]_vars
    PROVE  Undisturbed'
<1>1. ASSUME NEW c \in Calls, Call(c)
      PROVE  Undisturbed'
    BY <1>1, CallUndisturbed
<1>2. ASSUME NEW p \in issued, Stored(p) \/ NotStored(p)
      PROVE  Undisturbed'
    BY <1>2, ReportUndisturbed
<1>3. CASE Complete \/ Halt \/ Over \/ UNCHANGED vars
    <2>1. issued' \subseteq issued /\ UNCHANGED <<known, lives>>
        BY <1>3 DEF Complete, Halt, Close, Over, vars
    <2>2. Current' \subseteq Current
        BY <2>1 DEF Current
    <2>3. QED
        BY <2>1, <2>2, StillUndisturbed
<1>4. CASE Resume
    <2>1. Current' = {}
        BY <1>4 DEF Resume, Current, Typed
    <2>2. QED
        BY <2>1 DEF Undisturbed
<1>5. QED
    BY <1>1, <1>2, <1>3, <1>4 DEF Next, Progress

LEMMA UndisturbedInTurn ==
    ASSUME Undisturbed
    PROVE  InTurn
BY DEF Undisturbed, InTurn, Settled, Current
-----------------------------------------------------------------------------
(* What is known is what the rows say. *)

LEMMA DoneIsFinite ==
    ASSUME NEW R, NEW i
    PROVE  /\ IsFiniteSet(Completed(R, i)) /\ Completed(R, i) \subseteq Calls
           /\ Cardinality(Completed(R, i)) \in Nat
<1>1. Completed(R, i) \subseteq Calls
    BY DEF Completed
<1>2. IsFiniteSet(Completed(R, i))
    BY <1>1, FS_Subset, ScriptAssumption
<1>3. QED
    BY <1>1, <1>2, FS_CardinalityType

\* Some completed row has the flag.
AnyFlag(R, i) == \E c \in Completed(R, i) : R[c].primary

\* Where the completed rows of an id agree, any of them says what the last does.
LEMMA RememberedAs ==
    ASSUME NEW R, NEW i, NEW c \in Completed(R, i),
           \A d \in Completed(R, i) : KindOf[d] = KindOf[c] /\ SpecOf[d] = SpecOf[c]
    PROVE  Remembered(R, i) =
               [kind |-> KindOf[c], spec |-> SpecOf[c],
                versions |-> Cardinality(Completed(R, i)), primary |-> AnyFlag(R, i)]
<1> DEFINE done == Completed(R, i)
           s == Among(Script, done)
<1>1. done \subseteq Calls
    BY DEF Completed
<1>2. s \in Seq(Calls) /\ Range(s) = done
    <2>1. Range(Script) \cap done = done
        BY <1>1, PublisherAssumption
    <2> HIDE DEF done
    <2>2. QED
        BY <2>1, PublisherAssumption, AmongFacts
<1>3. Last(s) \in done
    <2>1. c \in Range(s)
        BY <1>2
    <2> HIDE DEF s, done
    <2>2. Len(s) \in Nat /\ DOMAIN s = 1..Len(s)
        BY <1>2, LenProperties
    <2>3. Len(s) \in DOMAIN s
        BY <2>1, <2>2 DEF Range
    <2>4. QED
        BY <1>2, <2>3 DEF Last, Range
<1>4. KindOf[Last(s)] = KindOf[c] /\ SpecOf[Last(s)] = SpecOf[c]
    <2> HIDE DEF s
    <2>1. QED
        BY <1>3
<1>5. Remembered(R, i) =
          [kind |-> KindOf[Last(s)], spec |-> SpecOf[Last(s)],
           versions |-> Cardinality(done), primary |-> AnyFlag(R, i)]
    BY DEF Remembered, AnyFlag
<1>6. QED
    BY <1>4, <1>5

\* Rows with the same completed ones say the same.
LEMMA SameMemory ==
    ASSUME NEW R, NEW S, NEW i, Completed(R, i) = Completed(S, i),
           \A c \in Completed(R, i) : R[c] = S[c]
    PROVE  Remembered(R, i) = Remembered(S, i)
<1> DEFINE f == AnyFlag(R, i)
           g == AnyFlag(S, i)
<1>1. f \in BOOLEAN /\ g \in BOOLEAN /\ (f <=> g)
    BY DEF AnyFlag
<1> HIDE DEF f, g
<1>2. f = g
    BY <1>1
<1>3. Remembered(R, i) =
          IF Completed(R, i) = {} THEN None
          ELSE [kind |-> KindOf[Last(Among(Script, Completed(R, i)))],
                spec |-> SpecOf[Last(Among(Script, Completed(R, i)))],
                versions |-> Cardinality(Completed(R, i)), primary |-> f]
    BY DEF Remembered, f, AnyFlag
<1>4. Remembered(S, i) =
          IF Completed(S, i) = {} THEN None
          ELSE [kind |-> KindOf[Last(Among(Script, Completed(S, i)))],
                spec |-> SpecOf[Last(Among(Script, Completed(S, i)))],
                versions |-> Cardinality(Completed(S, i)), primary |-> g]
    BY DEF Remembered, g, AnyFlag
<1>5. QED
    BY <1>2, <1>3, <1>4

\* Both for the rows of the next state.
LEMMA NextMemory ==
    ASSUME NEW i
    PROVE  /\ Completed(rows', i) = Completed(rows, i)
              /\ (\A c \in Completed(rows', i) : rows'[c] = rows[c])
                 => Remembered(rows', i) = Remembered(rows, i)
           /\ \A c \in Completed(rows', i) :
                 (\A d \in Completed(rows', i) : KindOf[d] = KindOf[c] /\ SpecOf[d] = SpecOf[c])
                 => Remembered(rows', i) =
                        [kind |-> KindOf[c], spec |-> SpecOf[c],
                         versions |-> Cardinality(Completed(rows', i)),
                         primary |-> AnyFlag(rows', i)]
<1>1. ASSUME Completed(rows', i) = Completed(rows, i),
             \A c \in Completed(rows', i) : rows'[c] = rows[c]
      PROVE  Remembered(rows', i) = Remembered(rows, i)
    BY <1>1, SameMemory, Zenon
<1>2. ASSUME NEW c \in Completed(rows', i),
             \A d \in Completed(rows', i) : KindOf[d] = KindOf[c] /\ SpecOf[d] = SpecOf[c]
      PROVE  Remembered(rows', i) =
                 [kind |-> KindOf[c], spec |-> SpecOf[c],
                  versions |-> Cardinality(Completed(rows', i)), primary |-> AnyFlag(rows', i)]
    BY <1>2, RememberedAs, Zenon
<1>3. QED
    BY <1>1, <1>2

\* A row that is not completed becomes another that is not.
LEMMA QuietRow ==
    ASSUME Recalled, Alike, NEW c \in Calls, rows[c] \in {None, Running},
           rows'[c] \in {Running, Failed}, \A d \in Calls \ {c} : rows'[d] = rows[d],
           known' = known
    PROVE  Recalled' /\ Alike'
<1>1. ASSUME NEW i \in Ids
      PROVE  Completed(rows, i)' = Completed(rows, i)
    <2>1. c \notin Completed(rows, i)
        BY DEF Completed, Running
    <2>2. c \notin Completed(rows, i)'
        BY DEF Completed, Running, Failed
    <2>3. QED
        BY <2>1, <2>2 DEF Completed
<1>2. ASSUME NEW i \in Ids
      PROVE  Remembered(rows, i)' = Remembered(rows, i)
    <2>1. Completed(rows', i) = Completed(rows, i)
        BY <1>1
    <2>2. \A d \in Completed(rows', i) : rows'[d] = rows[d]
        BY <2>1 DEF Completed, Running
    <2>3. Remembered(rows', i) = Remembered(rows, i)
        BY <2>1, <2>2, NextMemory
    <2>4. QED
        BY <2>3
<1>3. QED
    BY <1>1, <1>2 DEF Recalled, Alike

\* A row of id i is completed.
LEMMA CompletedRow ==
    ASSUME Recalled, Alike, NEW c \in Calls, rows[c] \in {None, Running},
           rows'[c] # None, rows'[c].status = "completed", rows'[c].primary \in BOOLEAN,
           \A d \in Calls \ {c} : rows'[d] = rows[d],
           \A d \in Completed(rows, IdOf[c]) : KindOf[d] = KindOf[c] /\ SpecOf[d] = SpecOf[c],
           AnyFlag(rows, IdOf[c]) => rows'[c].primary,
           known'[IdOf[c]] =
               [kind |-> KindOf[c], spec |-> SpecOf[c],
                versions |-> Cardinality(Completed(rows, IdOf[c])) + 1,
                primary |-> rows'[c].primary],
           \A j \in Ids \ {IdOf[c]} : known'[j] = known[j]
    PROVE  Recalled' /\ Alike'
<1> DEFINE i == IdOf[c]
           done == Completed(rows, i)
<1>0. i \in Ids
    BY IdsAre
<1>1. /\ \A d \in Calls \ {c} : rows'[d] = rows[d]
      /\ \A j \in Ids \ {i} : known'[j] = known[j]
    OBVIOUS
<1>2. c \notin done /\ Completed(rows', i) = done \cup {c}
    <2>1. c \notin done
        BY DEF Completed, Running
    <2>2. QED
        BY <1>1, <2>1 DEF Completed
<1>3. ASSUME NEW j \in Ids \ {i}
      PROVE  Completed(rows', j) = Completed(rows, j) /\ Remembered(rows', j) = Remembered(rows, j)
    <2>1. \A d \in Calls : IdOf[d] = j => d # c
        OBVIOUS
    <2>2. Completed(rows', j) = Completed(rows, j)
        BY <1>1, <2>1 DEF Completed
    <2>3. \A d \in Completed(rows', j) : rows'[d] = rows[d]
        BY <1>1, <2>1 DEF Completed
    <2>4. Remembered(rows', j) = Remembered(rows, j)
        BY <2>2, <2>3, NextMemory
    <2>5. QED
        BY <2>2, <2>4
<1>4. \A d \in Completed(rows', i) : KindOf[d] = KindOf[c] /\ SpecOf[d] = SpecOf[c]
    BY <1>2
<1>5. Cardinality(Completed(rows', i)) = Cardinality(done) + 1
    <2>1. IsFiniteSet(done)
        BY DoneIsFinite
    <2> HIDE DEF done
    <2>2. QED
        BY <1>2, <2>1, FS_AddElement
<1>6. AnyFlag(rows', i) = rows'[c].primary
    <2>1. \A d \in done : rows'[d] = rows[d]
        BY <1>1, <1>2 DEF Completed
    <2>2. AnyFlag(rows', i) <=> rows'[c].primary
        BY <1>1, <1>2, <2>1 DEF AnyFlag
    <2> DEFINE f == AnyFlag(rows', i)
               g == rows'[c].primary
    <2>3. f \in BOOLEAN /\ g \in BOOLEAN /\ (f <=> g)
        BY <2>2 DEF AnyFlag
    <2> HIDE DEF f, g
    <2>4. f = g
        BY <2>3
    <2>5. QED
        BY <2>4 DEF f, g
<1>7. Remembered(rows', i) = known'[i]
    <2>1. c \in Completed(rows', i)
        BY <1>2
    <2>2. Remembered(rows', i) =
              [kind |-> KindOf[c], spec |-> SpecOf[c],
               versions |-> Cardinality(Completed(rows', i)), primary |-> AnyFlag(rows', i)]
        BY <1>4, <2>1, NextMemory
    <2>3. QED
        BY <1>5, <1>6, <2>2
<1>8. Recalled'
    BY <1>1, <1>3, <1>7 DEF Recalled
<1>9. Alike'
    <2>1. \A d, e \in Completed(rows', i) : KindOf[d] = KindOf[e] /\ SpecOf[d] = SpecOf[e]
        BY <1>4
    <2>2. \A j \in Ids \ {i} : \A d, e \in Completed(rows', j) :
              KindOf[d] = KindOf[e] /\ SpecOf[d] = SpecOf[e]
        BY <1>3 DEF Alike
    <2>3. \A j \in Ids : \A d, e \in Completed(rows', j) :
              KindOf[d] = KindOf[e] /\ SpecOf[d] = SpecOf[e]
        <3> HIDE DEF i
        <3>1. QED
            BY <2>1, <2>2
    <2>4. QED
        BY <2>3 DEF Alike
<1>10. QED
    BY <1>8, <1>9

-----------------------------------------------------------------------------
\* What is under way stays so when no publication is sent and its row is let alone.
LEMMA StillUnderWay ==
    ASSUME UnderWay, UNCHANGED <<run, lives>>, issued' \subseteq issued,
           \A p \in Current' : rows'[p.call] = rows[p.call]
    PROVE  UnderWay'
BY DEF UnderWay, Current

\* The rows of other calls are let alone.
LEMMA RowUnderWay ==
    ASSUME Typed, Sent, UnderWay, NEW c \in Calls, NEW r, rows' = [rows EXCEPT ![c] = r],
           UNCHANGED <<run, lives>>, issued' \subseteq issued, \A p \in Current' : p.call # c
    PROVE  UnderWay'
<1>1. \A p \in issued' : p.call \in Calls
    BY DEF Typed
<1>2. \A p \in Current' : rows'[p.call] = rows[p.call]
    BY <1>1 DEF Current
<1>3. QED
    BY <1>2, StillUnderWay

LEMMA CallUnderWay ==
    ASSUME Typed, Sent, UnderWay, NEW c \in Calls, Call(c)
    PROVE  UnderWay'
<1>1. run = "running" /\ c \in Range(ready)
    BY TailFacts DEF Call, Sent
<1>2. \A p \in Current : p.call # c
    BY <1>1 DEF Sent
<1>3. CASE Retell(c) \/ Skip(c)
    BY <1>3, StillUnderWay DEF Retell, Skip
<1>4. CASE Refuse(c)
    BY <1>2, <1>4, RowUnderWay DEF Refuse, Current
<1>5. CASE Declare(c)
    BY <1>2, <1>5, RowUnderWay DEF Declare, Current
<1>6. CASE Dispatch(c)
    <2> DEFINE q == [call |-> c, version |-> NextVersion(IdOf[c]), primary |-> WantsPrimary(c),
                     life |-> lives]
    <2>1. /\ rows' = [rows EXCEPT ![c] = Running] /\ issued' = issued \cup {q}
          /\ UNCHANGED <<run, lives>>
        BY <1>6 DEF Dispatch
    <2>2. q.call = c /\ q.life = lives
        OBVIOUS
    <2> HIDE DEF q
    <2>3. rows'[c] = Running /\ \A p \in Current : rows'[p.call] = Running
        BY <1>1, <1>2, <2>1 DEF UnderWay, Typed, Current
    <2>4. Current' \subseteq Current \cup {q}
        BY <2>1 DEF Current
    <2>5. QED
        BY <2>2, <2>3, <2>4 DEF UnderWay
<1>7. CASE FailRun(c)
    BY <1>7 DEF FailRun, Close, UnderWay
<1>8. QED
    BY <1>3, <1>4, <1>5, <1>6, <1>7 DEF Call

LEMMA NextUnderWay ==
    ASSUME ~LateFailures, Typed, Sent, UnderWay, [Next]_vars
    PROVE  UnderWay'
<1>1. ASSUME NEW c \in Calls, Call(c)
      PROVE  UnderWay'
    BY <1>1, CallUnderWay
<1>2. ASSUME NEW p \in issued, Stored(p) \/ NotStored(p)
      PROVE  UnderWay'
    <2>1. /\ issued' = issued \ {p} /\ UNCHANGED <<run, lives>>
          /\ rows' = rows \/ (p \in Current /\ \E r : rows' = [rows EXCEPT ![p.call] = r])
        BY <1>2 DEF Stored, NotStored, JournalFailure, Publish, Settled, Current
    <2>2. CASE rows' = rows
        BY <2>1, <2>2, StillUnderWay
    <2>3. CASE p \in Current /\ \E r : rows' = [rows EXCEPT ![p.call] = r]
        <3>1. p.call \in Calls /\ \A q \in Current' : q.call # p.call
            BY <2>1, <2>3 DEF Sent, Typed, Current
        <3>2. QED
            BY <2>1, <2>3, <3>1, RowUnderWay
    <2>4. QED
        BY <2>1, <2>2, <2>3
<1>3. CASE Complete \/ Halt
    BY <1>3 DEF Complete, Halt, Close, UnderWay
<1>4. CASE Resume
    BY <1>4 DEF Resume, UnderWay, Current, Typed
<1>5. CASE Over \/ UNCHANGED vars
    BY <1>5, StillUnderWay DEF Over, vars
<1>6. QED
    BY <1>1, <1>2, <1>3, <1>4, <1>5 DEF Next, Progress

LEMMA RefuseRecalled ==
    ASSUME Typed, Recalled, Alike, NEW c \in Calls, Refuse(c)
    PROVE  Recalled' /\ Alike'
<1>1. /\ rows' = [rows EXCEPT ![c] = Failed] /\ rows[c] \in {None, Running}
      /\ UNCHANGED <<run, known, issued, lives>>
    BY DEF Refuse, Unsettled
<1>2. rows'[c] = Failed /\ \A d \in Calls \ {c} : rows'[d] = rows[d]
    BY <1>1 DEF Typed
<1>3. QED
    BY <1>1, <1>2, QuietRow

LEMMA DispatchRecalled ==
    ASSUME Typed, Recalled, Alike, NEW c \in Calls, Dispatch(c)
    PROVE  Recalled' /\ Alike'
<1>1. /\ rows' = [rows EXCEPT ![c] = Running] /\ rows[c] \in {None, Running} /\ known' = known
    BY DEF Dispatch, Unsettled
<1>2. rows'[c] = Running /\ \A d \in Calls \ {c} : rows'[d] = rows[d]
    BY <1>1 DEF Typed
<1>3. QED
    BY <1>1, <1>2, QuietRow

LEMMA DeclareRecalled ==
    ASSUME NoneAssumption, Typed, Recalled, Alike, NEW c \in Calls, Declare(c)
    PROVE  Recalled' /\ Alike'
<1> DEFINE i == IdOf[c]
           r == [status |-> "completed", version |-> 1, primary |-> c \in Primary]
           k == [kind |-> KindOf[c], spec |-> SpecOf[c], versions |-> 1, primary |-> c \in Primary]
<1>1. /\ rows' = [rows EXCEPT ![c] = r] /\ known' = [known EXCEPT ![i] = k]
      /\ rows[c] = None /\ known[i] = None
    BY DEF Declare, Redundant, Clashes
<1>2. i \in Ids
    BY IdsAre
<1> DEFINE f == c \in Primary
<1>3. /\ rows'[c] = r /\ \A d \in Calls \ {c} : rows'[d] = rows[d]
      /\ known'[i] = k /\ \A j \in Ids \ {i} : known'[j] = known[j]
    BY <1>1, <1>2 DEF Typed
<1>4. Completed(rows, i) = {}
    BY <1>1, <1>2, RememberedIs DEF Recalled
<1>5. Cardinality(Completed(rows, i)) + 1 = 1
    BY <1>4, FS_EmptySet
<1>6. f \in BOOLEAN
    OBVIOUS
<1>7. r # None
    BY DEF NoneAssumption
<1> HIDE DEF f
<1>8. r.status = "completed" /\ r.primary = f
    BY DEF f
<1>9. k = [kind |-> KindOf[c], spec |-> SpecOf[c],
            versions |-> Cardinality(Completed(rows, i)) + 1, primary |-> r.primary]
    BY <1>5
<1>10. ~AnyFlag(rows, i)
    BY <1>4 DEF AnyFlag
<1> HIDE DEF r, k
<1>11. QED
    BY <1>1, <1>3, <1>4, <1>6, <1>7, <1>8, <1>9, <1>10, CompletedRow

LEMMA PublishRecalled ==
    ASSUME NoneAssumption, Inv, Sent, UnderWay, Undisturbed, Recalled, Alike, NEW p \in issued,
           ~Settled(p), Publish(p)
    PROVE  Recalled' /\ Alike'
<1> DEFINE c == p.call
           i == IdOf[c]
           r == [status |-> "completed", version |-> p.version, primary |-> p.primary]
           k == [kind |-> KindOf[c], spec |-> None, versions |-> p.version, primary |-> p.primary]
<1>1. /\ rows' = [rows EXCEPT ![c] = r] /\ known' = [known EXCEPT ![i] = k]
    BY DEF Publish
<1>2. /\ p \in Current /\ c \in Contents /\ c \in Calls /\ i \in Ids
      /\ rows[c] = Running /\ p.primary \in BOOLEAN /\ SpecOf[c] = None
    BY IdsAre, PublisherAssumption DEF Settled, Current, Sent, Contents, UnderWay, Inv, Typed
<1>3. /\ rows'[c] = r /\ \A d \in Calls \ {c} : rows'[d] = rows[d]
      /\ known'[i] = k /\ \A j \in Ids \ {i} : known'[j] = known[j]
    BY <1>1, <1>2 DEF Inv, Typed
<1>4. /\ r # None /\ r.status = "completed" /\ r.primary = p.primary
    BY DEF NoneAssumption
<1> HIDE DEF c, i
\* What was published of the id before.
<1>5. /\ p.version = Cardinality(Completed(rows, i)) + 1
      /\ \A d \in Completed(rows, i) : KindOf[d] = KindOf[c] /\ SpecOf[d] = SpecOf[c]
      /\ AnyFlag(rows, i) => p.primary
    <2>1. p.version = NextVersion(i) /\ (known[i] # None => known[i].kind = KindOf[c])
        BY <1>2 DEF Undisturbed, c, i
    <2>2. known[i] = Remembered(rows, i)
        BY <1>2 DEF Recalled
    <2>3. CASE Completed(rows, i) = {}
        <3>1. known[i] = None
            BY <2>2, <2>3 DEF Remembered
        <3>2. Cardinality(Completed(rows, i)) = 0 /\ ~AnyFlag(rows, i)
            BY <2>3, FS_EmptySet DEF AnyFlag
        <3>3. p.version = 1
            BY <2>1, <3>1 DEF NextVersion
        <3>4. QED
            BY <2>3, <3>2, <3>3
    <2>4. ASSUME NEW e \in Completed(rows, i)
          PROVE  /\ p.version = Cardinality(Completed(rows, i)) + 1
                 /\ KindOf[e] = KindOf[c] /\ SpecOf[e] = SpecOf[c]
                 /\ AnyFlag(rows, i) => p.primary
        <3>1. \A d \in Completed(rows, i) : KindOf[d] = KindOf[e] /\ SpecOf[d] = SpecOf[e]
            BY <1>2 DEF Alike
        <3> DEFINE f == AnyFlag(rows, i)
                   n == Cardinality(Completed(rows, i))
        <3>2. Remembered(rows, i) =
                  [kind |-> KindOf[e], spec |-> SpecOf[e], versions |-> n, primary |-> f]
            BY <3>1, RememberedAs, Zenon
        <3>3. f \in BOOLEAN
            BY DEF AnyFlag
        <3> HIDE DEF f, n
        <3>4. /\ known[i] # None /\ known[i].kind = KindOf[e] /\ known[i].versions = n
              /\ known[i].primary = f
            BY <2>2, <3>2 DEF NoneAssumption
        <3>5. KindOf[e] = KindOf[c] /\ p.version = n + 1
            BY <2>1, <3>4 DEF NextVersion
        <3>6. SpecOf[e] = None
            BY <1>2, <3>5, PublisherAssumption DEF Completed, Contents
        <3>7. f => p.primary
            BY <1>2, <2>1, <3>4 DEF Flagged, Inv, KeepsFlag, c, i
        <3>8. QED
            BY <1>2, <3>5, <3>6, <3>7 DEF f, n
    <2>5. QED
        BY <2>3, <2>4
<1>6. k = [kind |-> KindOf[c], spec |-> SpecOf[c],
           versions |-> Cardinality(Completed(rows, i)) + 1, primary |-> r.primary]
    BY <1>2, <1>4, <1>5
<1> HIDE DEF r, k
<1>7. AnyFlag(rows, i) => r.primary
    BY <1>4, <1>5
<1>8. QED
    BY <1>2, <1>3, <1>4, <1>5, <1>6, <1>7, CompletedRow DEF i

LEMMA FailureRecalled ==
    ASSUME Typed, UnderWay, Recalled, Alike, NEW p \in issued, ~Settled(p), JournalFailure(p)
    PROVE  Recalled' /\ Alike'
<1>1. /\ rows' = [rows EXCEPT ![p.call] = Failed] /\ known' = known
      /\ p.call \in Calls /\ rows[p.call] = Running
    BY DEF JournalFailure, Typed, UnderWay, Settled, Current
<1>2. rows'[p.call] = Failed /\ \A d \in Calls \ {p.call} : rows'[d] = rows[d]
    BY <1>1 DEF Typed
<1>3. QED
    BY <1>1, <1>2, QuietRow

\* Nothing is learnt and no row is written.
LEMMA SameRecalled ==
    ASSUME Recalled, Alike, UNCHANGED <<known, rows>>
    PROVE  Recalled' /\ Alike'
BY DEF Recalled, Alike, Remembered, Completed

LEMMA NextRecalled ==
    ASSUME NoneAssumption, ~LateFailures, Inv, Sent, UnderWay, Undisturbed, Recalled, Alike,
           [Next]_vars
    PROVE  Recalled' /\ Alike'
<1>0. Typed
    BY DEF Inv
<1>1. ASSUME NEW c \in Calls, Call(c)
      PROVE  Recalled' /\ Alike'
    <2>1. CASE Retell(c) \/ Skip(c) \/ FailRun(c)
        BY <2>1, SameRecalled DEF Retell, Skip, FailRun, Close
    <2>2. QED
        BY <1>0, <1>1, <2>1, RefuseRecalled, DispatchRecalled, DeclareRecalled DEF Call
<1>2. ASSUME NEW p \in issued, Stored(p) \/ NotStored(p)
      PROVE  Recalled' /\ Alike'
    <2>1. CASE Settled(p)
        BY <1>2, <2>1, SameRecalled DEF Stored, NotStored
    <2>2. CASE ~Settled(p) /\ JournalFailure(p)
        BY <1>0, <2>2, FailureRecalled
    <2>3. CASE ~Settled(p) /\ Publish(p)
        BY <2>3, PublishRecalled
    <2>4. QED
        BY <1>2, <2>1, <2>2, <2>3 DEF Stored, NotStored
<1>3. CASE Complete \/ Halt \/ Over \/ UNCHANGED vars
    BY <1>3, SameRecalled DEF Complete, Halt, Close, Over, vars
<1>4. CASE Resume
    <2>1. rows' = rows /\ known' = [i \in Ids |-> Remembered(rows, i)]
        BY <1>4 DEF Resume
    <2>2. \A i \in Ids : known'[i] = Remembered(rows, i)
        BY <2>1
    <2>3. QED
        BY <2>1, <2>2 DEF Recalled, Alike, Remembered, Completed
<1>5. QED
    BY <1>1, <1>2, <1>3, <1>4 DEF Next, Progress

LEMMA InitRecalled ==
    ASSUME Init
    PROVE  Undisturbed /\ UnderWay /\ Recalled /\ Alike
<1>1. \A i \in Ids : Completed(rows, i) = {} /\ known[i] = None
    BY DEF Init, Nothing, Completed
<1>2. Recalled /\ Alike
    BY <1>1 DEF Recalled, Alike, Remembered
<1>3. Undisturbed /\ UnderWay
    BY DEF Init, Undisturbed, UnderWay, Current
<1>4. QED
    BY <1>2, <1>3
-----------------------------------------------------------------------------
(* The theorems. *)

\* What holds of any script, of one that publishes an id at a time, and of the last
\* when no failure is reported late.
Orderly == Typed /\ Sent
InOrder == Inv /\ FlagsAreDone /\ Sent /\ Undisturbed
Kept == InOrder /\ UnderWay /\ Recalled /\ Alike

LEMMA OrderlyHolds ==
    ASSUME NoneAssumption
    PROVE  Spec => []Orderly
<1>1. Init => Orderly
    BY InitInv, InitSent DEF Orderly, Inv
<1>2. Orderly /\ [Next]_vars => Orderly'
    BY NextTyped, NextSent DEF Orderly
<1>3. QED
    BY <1>1, <1>2, PTL DEF Spec

LEMMA NextInOrder ==
    ASSUME NoneAssumption, OneAtATime, InOrder, [Next]_vars
    PROVE  InOrder'
<1>1. Typed /\ InTurn
    BY UndisturbedInTurn DEF InOrder, Inv
<1>2. QED
    BY <1>1, NextInv, NextSent, NextUndisturbed DEF InOrder

LEMMA InOrderHolds ==
    ASSUME NoneAssumption, OneAtATime
    PROVE  Spec => []InOrder
<1>1. Init => InOrder
    BY InitInv, InitSent, InitRecalled DEF InOrder
<1>2. InOrder /\ [Next]_vars => InOrder'
    BY NextInOrder
<1>3. QED
    BY <1>1, <1>2, PTL DEF Spec

LEMMA KeptHolds ==
    ASSUME NoneAssumption, OneAtATime, ~LateFailures
    PROVE  Spec => []Kept
<1>1. Init => Kept
    BY InitInv, InitSent, InitRecalled DEF Kept, InOrder
<1>2. Kept /\ [Next]_vars => Kept'
    BY NextInOrder, NextUnderWay, NextRecalled DEF Kept, InOrder, Inv
<1>3. QED
    BY <1>1, <1>2, PTL DEF Spec

\* A script that waits for a publication before it touches the id again is all that
\* settleArtifactPublish needs: whatever fails, crashes or comes late, a publication
\* gets the version and the kind that are next when it settles.
THEOREM PublicationsInTurn ==
    ASSUME NoneAssumption, OneAtATime
    PROVE  Spec => []InTurn
<1>1. InOrder => InTurn
    BY UndisturbedInTurn DEF InOrder
<1>2. QED
    BY <1>1, InOrderHolds, PTL

\* The journal never holds two completed primaries, through failures, crashes and
\* any number of lives, as long as no publication is overtaken by another of its id.
THEOREM OnePrimaryInTurn ==
    ASSUME NoneAssumption
    PROVE  Spec /\ []InTurn => []OnePrimary
<1>1. Init => Inv /\ FlagsAreDone
    BY InitInv
<1>2. (Inv /\ FlagsAreDone) /\ InTurn /\ [Next]_vars => (Inv /\ FlagsAreDone)'
    BY NextInv
<1>3. Inv => OnePrimary
    BY IdsAre DEF Inv, RowsAreKnown, OneFlag, OnePrimary
<1>4. QED
    BY <1>1, <1>2, <1>3, PTL DEF Spec

\* So a script that publishes one id after the other has one primary artifact.
THEOREM OnePrimaryEver ==
    ASSUME NoneAssumption, OneAtATime
    PROVE  Spec => []OnePrimary
BY PublicationsInTurn, OnePrimaryInTurn, PTL

\* A crash at any moment loses nothing of what was published and declared: kinds,
\* specifications, versions and the flag come out of the rows as they were known,
\* with failed publications and publications cut short between.  A failure reported
\* after the run has settled may be written over one of them, and is excluded.
THEOREM RowsSayWhatIsKnown ==
    ASSUME NoneAssumption, OneAtATime, ~LateFailures
    PROVE  Spec => []SameAfterCrash
<1>1. Kept => SameAfterCrash
    BY DEF Kept, Recalled, SameAfterCrash
<1>2. QED
    BY <1>1, KeptHolds, PTL

-----------------------------------------------------------------------------
(* The ledger. *)

\* A settlement: the row of a call that was out gets its status, and its promise
\* the answer.
LEMMA SettlesOnLedger ==
    ASSUME Typed, Sent, run = "running", run' = run, NEW c \in Contents,
           c \in Range(ready) \cup AtDriver,
           NEW good \in BOOLEAN, NEW R, Deliver(c, good, R),
           Decided[c] \in {None, [by |-> c, ok |-> good]},
           Decided' = [Decided EXCEPT ![c] = [by |-> c, ok |-> good]]
    PROVE  Ledger!LedgerNext
<1> DEFINE D == {c}
           ok == [d \in D |-> good]
<1>1. c \in Calls /\ c \notin Answered /\ After[c] \subseteq Answered
    BY DEF Sent, Contents
<1>2. D \in SUBSET Ledger!Waiting
    BY <1>1, AfterIs DEF Ledger!Waiting, Answered
<1>3. ok \in [D -> BOOLEAN] /\ ok[c] = good
    OBVIOUS
<1>4. outcome' = [outcome EXCEPT ![c] = [by |-> c, ok |-> good]]
    BY DEF Deliver
<1>5. DOMAIN outcome = Calls /\ outcome = [d \in Calls |-> outcome[d]]
    BY DEF Sent
<1>6. DOMAIN Decided = Calls /\ Decided = [d \in Calls |-> Decided[d]]
    BY DEF Decided
<1>7. Ledger!Answer(D, ok)
    <2> HIDE DEF ok
    <2>1. \A d \in D : d = c /\ ok[d] = good
        BY <1>3
    <2>2. \A d \in D : Decided[d] \in {None, [by |-> d, ok |-> ok[d]]}
        BY <2>1
    <2>3. outcome' = [d \in Calls |-> IF d \in D THEN [by |-> d, ok |-> ok[d]] ELSE outcome[d]]
        BY <1>1, <1>3, <1>4, <1>5
    <2>4. Decided' = [d \in Calls |-> IF d \in D THEN [by |-> d, ok |-> ok[d]] ELSE Decided[d]]
        BY <1>1, <1>3, <1>6
    <2> HIDE DEF D
    <2>5. QED
        BY <2>2, <2>3, <2>4 DEF Ledger!Answer
<1> HIDE DEF D, ok
<1>8. QED
    BY <1>2, <1>3, <1>7 DEF Ledger!LedgerNext

\* What the rows decide, when the row of c changes.
LEMMA DecidedIs ==
    ASSUME NEW c \in Calls, \A d \in Calls \ {c} : rows'[d] = rows[d]
    PROVE  /\ rows'[c] \in {None, Running} \/ c \notin Contents =>
                (rows[c] \in {None, Running} \/ c \notin Contents => Decided' = Decided)
           /\ c \in Contents /\ rows'[c] # None /\ rows'[c].status # "running" =>
                Decided' = [Decided EXCEPT ![c] = [by |-> c, ok |-> rows'[c].status = "completed"]]
<1> DEFINE v(r, d) == IF d \in Contents /\ r[d] # None /\ r[d].status # "running"
                        THEN [by |-> d, ok |-> r[d].status = "completed"] ELSE None
<1>1. Decided = [d \in Calls |-> v(rows, d)] /\ Decided' = [d \in Calls |-> v(rows', d)]
    BY DEF Decided
<1>2. \A d \in Calls \ {c} : v(rows', d) = v(rows, d)
    OBVIOUS
<1>3. ASSUME rows'[c] \in {None, Running} \/ c \notin Contents,
             rows[c] \in {None, Running} \/ c \notin Contents
      PROVE  Decided' = Decided
    <2>1. v(rows, c) = None /\ v(rows', c) = None
        BY <1>3 DEF Running
    <2> HIDE DEF v
    <2>2. QED
        BY <1>1, <1>2, <2>1
<1>4. ASSUME c \in Contents, rows'[c] # None, rows'[c].status # "running"
      PROVE  Decided' = [Decided EXCEPT ![c] = [by |-> c, ok |-> rows'[c].status = "completed"]]
    <2>1. v(rows', c) = [by |-> c, ok |-> rows'[c].status = "completed"]
        BY <1>4
    <2> HIDE DEF v
    <2>2. QED
        BY <1>1, <1>2, <2>1
<1>5. QED
    BY <1>3, <1>4

\* Neither the run, nor a promise, nor a decision changes.
Silent == run' = run /\ outcome' = outcome /\ Decided' = Decided

LEMMA CallOnLedger ==
    ASSUME NoneAssumption, Typed, Sent, NEW c \in Calls, Call(c)
    PROVE  Ledger!LedgerNext \/ Silent
<1>1. run = "running" /\ c \in Range(ready)
    BY TailFacts DEF Call, Sent
<1>2. CASE c \in Contents /\ Retell(c)
    <2> DEFINE good == rows[c].status = "completed"
    <2>1. /\ rows[c] # None /\ rows[c].status # "running" /\ good \in BOOLEAN
          /\ Deliver(c, good, Tail(ready)) /\ UNCHANGED <<run, rows>>
        BY <1>2 DEF Retell
    <2>2. Decided[c] = [by |-> c, ok |-> good]
        BY <1>2, <2>1 DEF Decided
    <2>3. Decided' = Decided /\ DOMAIN Decided = Calls /\ Decided = [d \in Calls |-> Decided[d]]
        BY <2>1 DEF Decided
    <2> HIDE DEF good
    <2>4. Decided' = [Decided EXCEPT ![c] = [by |-> c, ok |-> good]]
        BY <2>2, <2>3
    <2>5. QED
        BY <1>1, <1>2, <2>1, <2>2, <2>4, SettlesOnLedger
<1>3. CASE c \in Contents /\ Refuse(c)
    <2>1. /\ rows[c] \in {None, Running} /\ rows' = [rows EXCEPT ![c] = Failed]
          /\ Deliver(c, FALSE, Tail(ready)) /\ run' = run
        BY <1>3 DEF Refuse, Unsettled
    <2>2. rows'[c] = Failed /\ \A d \in Calls \ {c} : rows'[d] = rows[d]
        BY <2>1 DEF Typed
    <2>3. Failed # None /\ Failed.status = "failed"
        BY DEF NoneAssumption, Failed
    <2>4. Decided' = [Decided EXCEPT ![c] = [by |-> c, ok |-> FALSE]]
        <3>1. Decided' = [Decided EXCEPT ![c] = [by |-> c, ok |-> rows'[c].status = "completed"]]
            BY <1>3, <2>2, <2>3, DecidedIs
        <3>2. (rows'[c].status = "completed") = FALSE
            BY <2>2, <2>3
        <3>3. QED
            BY <3>1, <3>2
    <2>5. Decided[c] = None
        BY <2>1 DEF Decided, Running
    <2>6. QED
        BY <1>1, <1>3, <2>1, <2>4, <2>5, SettlesOnLedger
<1>4. CASE c \in Contents /\ Dispatch(c)
    <2>1. /\ rows[c] \in {None, Running} /\ rows' = [rows EXCEPT ![c] = Running]
          /\ UNCHANGED <<run, outcome>>
        BY <1>4 DEF Dispatch, Unsettled
    <2>2. rows'[c] = Running /\ \A d \in Calls \ {c} : rows'[d] = rows[d]
        BY <2>1 DEF Typed
    <2>3. Decided' = Decided
        BY <2>1, <2>2, DecidedIs
    <2>4. QED
        BY <2>1, <2>3 DEF Silent
<1>5. CASE c \notin Contents /\ Declare(c)
    <2>1. /\ \A d \in Calls \ {c} : rows'[d] = rows[d]
          /\ UNCHANGED <<run, outcome>>
        BY <1>5 DEF Declare, Typed
    <2>2. Decided' = Decided
        BY <1>5, <2>1, DecidedIs
    <2>3. QED
        BY <2>1, <2>2 DEF Silent
<1>6. CASE Skip(c)
    BY <1>6 DEF Skip, Silent, Decided
<1>7. CASE FailRun(c)
    BY <1>1, <1>7 DEF FailRun, Close, Decided, Ledger!LedgerNext, Ledger!Break
<1>8. QED
    BY <1>2, <1>3, <1>4, <1>5, <1>6, <1>7 DEF Call

LEMMA ReportOnLedger ==
    ASSUME NoneAssumption, Typed, Sent, UnderWay, NEW p \in issued, ~Settled(p),
           Stored(p) \/ NotStored(p)
    PROVE  Ledger!LedgerNext
<1> DEFINE c == p.call
<1>1. /\ ~Settled(p) /\ run = "running" /\ c \in AtDriver /\ c \in Contents /\ c \in Calls
      /\ rows[c] = Running
    BY DEF UnderWay, Settled, Current, Sent, AtDriver, Contents
<1>2. Decided[c] = None
    BY <1>1 DEF Decided, Running
<1>3. ASSUME NEW good \in BOOLEAN, Deliver(c, good, ready), run' = run,
             NEW r, rows' = [rows EXCEPT ![c] = r], r # None,
             r.status = IF good THEN "completed" ELSE "failed"
      PROVE  Ledger!LedgerNext
    <2>1. rows'[c] = r /\ \A d \in Calls \ {c} : rows'[d] = rows[d]
        BY <1>1, <1>3 DEF Typed
    <2>2. r.status # "running" /\ (r.status = "completed") = good
        BY <1>3
    <2>3. Decided' = [Decided EXCEPT ![c] = [by |-> c, ok |-> rows'[c].status = "completed"]]
        BY <1>1, <1>3, <2>1, <2>2, DecidedIs
    <2> HIDE DEF c
    <2>4. Decided' = [Decided EXCEPT ![c] = [by |-> c, ok |-> good]]
        BY <2>1, <2>2, <2>3
    <2>5. QED
        BY <1>1, <1>2, <1>3, <2>4, SettlesOnLedger
<1>4. CASE JournalFailure(p)
    <2>1. /\ rows' = [rows EXCEPT ![c] = Failed] /\ Deliver(c, FALSE, ready) /\ run' = run
          /\ Failed # None /\ Failed.status = IF FALSE THEN "completed" ELSE "failed"
        BY <1>1, <1>4 DEF JournalFailure, Failed, NoneAssumption
    <2>2. QED
        BY <1>3, <2>1
<1>5. CASE Publish(p)
    <2> DEFINE r == [status |-> "completed", version |-> p.version, primary |-> p.primary]
    <2>1. rows' = [rows EXCEPT ![c] = r] /\ Deliver(c, TRUE, ready) /\ run' = run
        BY <1>5 DEF Publish
    <2>2. r # None /\ r.status = IF TRUE THEN "completed" ELSE "failed"
        BY DEF NoneAssumption
    <2> HIDE DEF r
    <2>3. QED
        BY <1>3, <2>1, <2>2
<1>6. QED
    BY <1>1, <1>4, <1>5 DEF Stored, NotStored

LEMMA NextOnLedger ==
    ASSUME NoneAssumption, ~LateFailures, Orderly, UnderWay, [Next]_vars
    PROVE  [Ledger!LedgerNext]_(Ledger!ledgerVars)
<1>0. Typed /\ Sent /\ UnderWay
    BY DEF Orderly
<1>1. ASSUME Silent
      PROVE  [Ledger!LedgerNext]_(Ledger!ledgerVars)
    BY <1>1 DEF Silent, Ledger!ledgerVars
<1>2. ASSUME NEW c \in Calls, Call(c)
      PROVE  [Ledger!LedgerNext]_(Ledger!ledgerVars)
    BY <1>0, <1>1, <1>2, CallOnLedger
<1>3. ASSUME NEW p \in issued, Stored(p) \/ NotStored(p)
      PROVE  [Ledger!LedgerNext]_(Ledger!ledgerVars)
    <2>1. CASE Settled(p)
        BY <1>1, <1>3, <2>1 DEF Stored, NotStored, Silent, Decided
    <2>2. CASE ~Settled(p)
        BY <1>0, <1>3, <2>2, ReportOnLedger
    <2>3. QED
        BY <2>1, <2>2
<1>4. CASE Complete
    BY <1>4 DEF Complete, Close, Decided, Ledger!LedgerNext, Ledger!Finish
<1>5. CASE Halt
    BY <1>5 DEF Halt, Close, Decided, Ledger!LedgerNext, Ledger!Break
<1>6. CASE Resume
    BY <1>6 DEF Resume, Decided, Ledger!LedgerNext, Ledger!Restart, Nothing, Ledger!Nothing
<1>7. CASE Over \/ UNCHANGED vars
    BY <1>1, <1>7 DEF Over, vars, Silent, Decided
<1>8. QED
    BY <1>2, <1>3, <1>4, <1>5, <1>6, <1>7 DEF Next, Progress

LEMMA UnderWayHolds ==
    ASSUME NoneAssumption, ~LateFailures
    PROVE  Spec => []UnderWay
<1>1. Init => UnderWay
    BY InitRecalled
<1>2. Orderly /\ UnderWay /\ [Next]_vars => UnderWay'
    BY NextUnderWay DEF Orderly
<1>3. QED
    BY <1>1, <1>2, OrderlyHolds, PTL DEF Spec

\* A publication is answered once and on the ledger first, and a resumed script is
\* told what it was told before, the failures it has caught included: for any script
\* the publisher implements the ledger of the run, wherever the run is stopped or its
\* process dies, with the answers that come after the stop.  All but one: the driver
\* must not report a failure then, since settleArtifactFailure writes its row whatever
\* the status of the run, over what was published meanwhile too.
THEOREM PublisherKeepsLedger ==
    ASSUME NoneAssumption, ~LateFailures
    PROVE  Spec => KeepsLedger
<1>1. Init => Ledger!LedgerInit
    BY DEF Init, Ledger!LedgerInit, Nothing, Ledger!Nothing, Decided
<1>2. Orderly /\ UnderWay /\ [Next]_vars => [Ledger!LedgerNext]_(Ledger!ledgerVars)
    BY NextOnLedger
<1>3. QED
    BY <1>1, <1>2, OrderlyHolds, UnderWayHolds, PTL DEF Spec, KeepsLedger, Ledger!LedgerSpec

=============================================================================
