----------------------- MODULE ReconnectPolicyProofs -----------------------
(***************************************************************************)
(* Proofs about ReconnectPolicy, for any policy, backoff schedule and      *)
(* platform.  The deque of the breaker is popped at some moments only, the *)
(* window slides all the time: IInv says that what the deque holds within  *)
(* the window is what failed within the window (WindowHeld), that times    *)
(* increase strictly (Ordered), so that a length is a number of failures,  *)
(* and that the verdict last given was about the deque as it is (Judged).  *)
(***************************************************************************)
EXTENDS ReconnectPolicy, SequenceTheorems, FiniteSetTheorems,
        WellFoundedInduction, TLAPS

-----------------------------------------------------------------------------
(* Powers of two: 2 ** attempt.                                            *)

\* A set of naturals has a least element.
LEMMA Least ==
  ASSUME NEW T, T \subseteq Nat, T # {}
  PROVE  \E m \in T : \A k \in T : m <= k
PROOF
  <1>1. PICK m \in T : \A k \in T : <<k, m>> \notin OpToRel(<, Nat)
    BY WFMin, NatLessThanWellFounded
  <1>2. \A k \in T : ~(k < m)
    BY <1>1 DEF OpToRel
  <1> QED BY <1>2

Pos == Nat \ {0}

\* The recursion followed up to n.
UpTo(n) == {g \in [0 .. n -> Pos] : g[0] = 1 /\ \A i \in 1 .. n : g[i] = 2 * g[i - 1]}

LEMMA UpToSome == \A n \in Nat : UpTo(n) # {}
PROOF
  <1> DEFINE T == {n \in Nat : UpTo(n) = {}}
  <1> SUFFICES ASSUME T # {} PROVE FALSE
    OBVIOUS
  <1>1. PICK m \in T : \A k \in T : m <= k
    BY Least
  <1>2. m \in Nat /\ UpTo(m) = {}
    OBVIOUS
  <1>3. CASE m = 0
    <2> DEFINE g == [i \in 0 .. 0 |-> 1]
    <2>1. g \in UpTo(0)
      BY DEF UpTo, Pos
    <2> QED BY <1>2, <1>3, <2>1
  <1>4. CASE m # 0
    <2>1. m - 1 \in Nat /\ m - 1 \notin T
      BY <1>1, <1>2, <1>4
    <2>2. PICK h \in [0 .. m - 1 -> Pos] : h[0] = 1 /\ \A i \in 1 .. m - 1 : h[i] = 2 * h[i - 1]
      BY <2>1 DEF UpTo
    <2> DEFINE g == [i \in 0 .. m |-> IF i = m THEN 2 * h[m - 1] ELSE h[i]]
    <2>3. h[m - 1] \in Pos /\ 2 * h[m - 1] \in Pos
      BY <1>2, <1>4, <2>2 DEF Pos
    <2>4. g \in [0 .. m -> Pos]
      BY <1>2, <2>2, <2>3
    <2>5. g[0] = 1
      BY <1>2, <1>4, <2>2
    <2>6. \A i \in 1 .. m : g[i] = 2 * g[i - 1]
      BY <1>2, <1>4, <2>2
    <2> QED BY <1>2, <2>4, <2>5, <2>6 DEF UpTo
  <1> QED BY <1>3, <1>4

LEMMA UpToSame ==
  ASSUME NEW m \in Nat, NEW n \in Nat, NEW g \in UpTo(m), NEW h \in UpTo(n),
         NEW i \in Nat, i <= m, i <= n
  PROVE  g[i] = h[i]
PROOF
  <1> DEFINE T == {k \in Nat : k <= m /\ k <= n /\ g[k] # h[k]}
  <1> SUFFICES ASSUME T # {} PROVE FALSE
    OBVIOUS
  <1>1. PICK k \in T : \A j \in T : k <= j
    BY Least
  <1>2. k # 0
    BY DEF UpTo
  <1>3. k - 1 \in Nat /\ k - 1 \notin T /\ k \in 1 .. m /\ k \in 1 .. n
    BY <1>1, <1>2
  <1>4. g[k - 1] = h[k - 1]
    BY <1>3
  <1>5. g[k] = 2 * g[k - 1] /\ h[k] = 2 * h[k - 1]
    BY <1>3 DEF UpTo
  <1> QED BY <1>4, <1>5

\* The recursion has a solution.
LEMMA Pow2Def == Pow2 = [n \in Nat |-> IF n = 0 THEN 1 ELSE 2 * Pow2[n - 1]]
PROOF
  <1> DEFINE some(n) == CHOOSE g \in UpTo(n) : TRUE
             f == [n \in Nat |-> some(n)[n]]
  <1>1. \A n \in Nat : some(n) \in UpTo(n)
    BY UpToSome
  <1>2. f[0] = 1
    BY <1>1 DEF UpTo
  <1>3. ASSUME NEW n \in Nat, n # 0
        PROVE  f[n] = 2 * f[n - 1]
    <2>1. some(n)[n] = 2 * some(n)[n - 1]
      <3>1. n \in 1 .. n /\ some(n) \in UpTo(n)
        BY <1>1, <1>3
      <3> HIDE DEF some
      <3> QED BY <3>1 DEF UpTo
    <2>2. some(n)[n - 1] = some(n - 1)[n - 1]
      <3>1. n - 1 \in Nat /\ n - 1 <= n /\ n - 1 <= n - 1
        BY <1>3
      <3>2. some(n) \in UpTo(n) /\ some(n - 1) \in UpTo(n - 1)
        BY <1>1, <3>1
      <3> HIDE DEF some
      <3> QED BY <3>1, <3>2, UpToSame
    <2> HIDE DEF some
    <2> QED BY <1>3, <2>1, <2>2
  <1> HIDE DEF some
  <1>4. f = [n \in Nat |-> f[n]]
    OBVIOUS
  <1> HIDE DEF f
  <1>5. f = [n \in Nat |-> IF n = 0 THEN 1 ELSE 2 * f[n - 1]]
    BY <1>2, <1>3, <1>4
  <1> QED BY <1>5 DEF Pow2

LEMMA Pow2Type == \A n \in Nat : Pow2[n] \in Pos
PROOF
  <1> DEFINE T == {n \in Nat : Pow2[n] \notin Pos}
  <1> SUFFICES ASSUME T # {} PROVE FALSE
    OBVIOUS
  <1>1. PICK m \in T : \A k \in T : m <= k
    BY Least
  <1>2. m # 0
    BY Pow2Def DEF Pos
  <1>3. m - 1 \in Nat /\ Pow2[m - 1] \in Pos
    BY <1>1, <1>2
  <1>4. Pow2[m] = 2 * Pow2[m - 1]
    BY <1>2, Pow2Def
  <1> QED BY <1>3, <1>4 DEF Pos

\* A backoff lasts: jitter never makes it nothing.
LEMMA BackoffsLast ==
  ASSUME NEW n \in Nat, NEW d \in Backoffs(n)
  PROVE  d \in Pos
PROOF
  <1>1. Base * Pow2[n] \in Pos
    BY Pow2Type, BreakerAssumption DEF Pos
  <1>2. RawBackoff(n) \in Pos
    BY <1>1, BreakerAssumption DEF RawBackoff, Pos
  <1>3. \A raw \in Pos : raw - raw \div 5 \in Pos /\ raw + raw \div 5 \in Pos
    BY DEF Pos
  <1> QED BY <1>2, <1>3 DEF Backoffs
-----------------------------------------------------------------------------
(* The deque: _evict_old, record_failure.                                  *)

Times(fs) == {fs[i] : i \in 1 .. Len(fs)}

Increasing(fs) == \A i, j \in 1 .. Len(fs) : i < j => fs[i] < fs[j]

\* Of failures at different times there are as many as the deque is long.
LEMMA LenIsCount ==
  ASSUME NEW fs \in Seq(Int), Increasing(fs)
  PROVE  Cardinality(Times(fs)) = Len(fs)
PROOF
  <1> DEFINE n == Len(fs)
  <1>1. n \in Nat /\ fs \in [1 .. n -> Int]
    BY LenProperties
  <1>2. fs \in [1 .. n -> Times(fs)]
    BY <1>1 DEF Times
  <1>3. \A t \in Times(fs) : \E i \in 1 .. n : fs[i] = t
    BY DEF Times
  <1>4. \A i, j \in 1 .. n : fs[i] = fs[j] => i = j
    BY <1>1 DEF Increasing
  <1> HIDE DEF n
  <1>5. fs \in Bijection(1 .. n, Times(fs))
    BY <1>2, <1>3, <1>4 DEF Bijection, Injection, Surjection, IsInjective
  <1>6. ExistsBijection(1 .. n, Times(fs))
    BY <1>5 DEF ExistsBijection
  <1> QED BY <1>1, <1>6, FS_CountingElements DEF n

\* The failures that have left the window are the first ones.
LEMMA StaleAreFirst ==
  ASSUME NEW fs \in Seq(Int), NEW now \in Int, Increasing(fs)
  PROVE  LET stale == {i \in 1 .. Len(fs) : \A j \in 1 .. i : fs[j] < now - Window}
         IN  /\ Cardinality(stale) \in 0 .. Len(fs)
             /\ \A i \in 1 .. Len(fs) : i <= Cardinality(stale) <=> fs[i] < now - Window
PROOF
  <1> DEFINE n == Len(fs)
             S == {i \in 1 .. n : \A j \in 1 .. i : fs[j] < now - Window}
             c == Cardinality(S)
  <1>1. n \in Nat /\ \A i \in 1 .. n : fs[i] \in Int
    BY LenProperties, ElementOfSeq
  <1>2. \A m \in Nat : IsFiniteSet(1 .. m) /\ Cardinality(1 .. m) = m
    <2> TAKE m \in Nat
    <2>1. IsFiniteSet(1 .. m) /\ Cardinality(1 .. m) = IF 1 > m THEN 0 ELSE m - 1 + 1
      BY FS_Interval
    <2> QED BY <2>1
  <1>3. S \in SUBSET (1 .. n)
    OBVIOUS
  <1>4. IsFiniteSet(S) /\ c \in Nat /\ c <= n
    <2>1. IsFiniteSet(1 .. n) /\ Cardinality(1 .. n) = n
      BY <1>1, <1>2
    <2> HIDE DEF S
    <2>2. IsFiniteSet(S) /\ Cardinality(S) <= n
      BY <1>3, <2>1, FS_Subset
    <2> QED BY <2>2, FS_CardinalityType
  <1>5. \A i \in 1 .. n : i \in S <=> fs[i] < now - Window
    <2> TAKE i \in 1 .. n
    <2>1. \A j \in 1 .. i : j = i \/ fs[j] < fs[i]
      BY <1>1 DEF Increasing
    <2>2. \A j \in 1 .. i : fs[j] \in Int
      BY <1>1
    <2>3. i \in 1 .. i /\ now - Window \in Int
      BY BreakerAssumption
    <2> QED BY <1>1, <2>1, <2>2, <2>3
  <1>6. \A i \in S : \A j \in 1 .. i : j \in S
    BY <1>1
  <1> HIDE DEF S
  <1>7. S = 1 .. c
    <2>1. \A i \in S : i <= c
      <3> TAKE i \in S
      <3>1. i \in 1 .. n /\ 1 .. i \in SUBSET S
        BY <1>3, <1>6
      <3>2. Cardinality(1 .. i) <= Cardinality(S)
        BY <1>4, <3>1, FS_Subset
      <3> QED BY <1>2, <3>1, <3>2
    <2>2. S \in SUBSET (1 .. c)
      BY <1>1, <1>3, <1>4, <2>1
    <2>3. IsFiniteSet(1 .. c) /\ Cardinality(1 .. c) = c
      BY <1>2, <1>4
    <2> QED BY <2>2, <2>3, FS_Subset
  <1>8. c \in 0 .. n /\ \A i \in 1 .. n : i <= c <=> i \in S
    BY <1>1, <1>4, <1>7
  <1> HIDE DEF c
  <1>9. \A i \in 1 .. n : i <= c <=> fs[i] < now - Window
    BY <1>5, <1>8
  <1> QED BY <1>8, <1>9 DEF S, c, n

\* _evict_old leaves the failures of the window, in their order.
LEMMA EvictOldIs ==
  ASSUME NEW fs \in Seq(Int), NEW now \in Int, Increasing(fs)
  PROVE  /\ EvictOld(fs, now) \in Seq(Int)
         /\ Increasing(EvictOld(fs, now))
         /\ Times(EvictOld(fs, now)) = {t \in Times(fs) : t >= now - Window}
PROOF
  <1> DEFINE n == Len(fs)
             S == {i \in 1 .. n : \A j \in 1 .. i : fs[j] < now - Window}
             c == Cardinality(S)
             e == EvictOld(fs, now)
  <1>1. n \in Nat /\ c \in 0 .. n /\ \A i \in 1 .. n : i <= c <=> fs[i] < now - Window
    BY StaleAreFirst, LenProperties
  <1>2. \A i \in 1 .. n : fs[i] \in Int
    BY ElementOfSeq
  <1>3. e = SubSeq(fs, c + 1, n)
    BY DEF EvictOld
  <1>4. now - Window \in Int
    BY BreakerAssumption
  <1>5. \A i, j \in 1 .. n : i < j => fs[i] < fs[j]
    BY DEF Increasing
  <1> HIDE DEF S, c, n
  <1>6. /\ SubSeq(fs, c + 1, n) \in Seq(Int)
        /\ Len(SubSeq(fs, c + 1, n)) = IF c + 1 <= n THEN n - (c + 1) + 1 ELSE 0
        /\ \A i \in 1 .. n - (c + 1) + 1 : SubSeq(fs, c + 1, n)[i] = fs[(c + 1) + i - 1]
    <2>1. c + 1 \in Int /\ n \in Int /\ \A i \in c + 1 .. n : fs[i] \in Int
      BY <1>1, <1>2
    <2> QED BY <2>1, SubSeqProperties
  <1>7. Len(e) = n - c /\ \A i \in 1 .. n - c : e[i] = fs[c + i]
    BY <1>1, <1>3, <1>6
  <1> HIDE DEF e
  <1>8. Increasing(e)
    <2> SUFFICES ASSUME NEW i \in 1 .. n - c, NEW j \in 1 .. n - c, i < j
                 PROVE  e[i] < e[j]
      BY <1>7 DEF Increasing
    <2>1. c + i \in 1 .. n /\ c + j \in 1 .. n /\ c + i < c + j
      BY <1>1
    <2> QED BY <1>5, <1>7, <2>1
  <1>9. Times(e) = {t \in Times(fs) : t >= now - Window}
    <2>1. ASSUME NEW t \in Times(e)
          PROVE  t \in Times(fs) /\ t >= now - Window
      <3>1. PICK i \in 1 .. n - c : t = e[i]
        BY <1>7 DEF Times
      <3>2. c + i \in 1 .. n /\ ~(c + i <= c)
        BY <1>1
      <3>3. t = fs[c + i]
        BY <1>7, <3>1
      <3>4. t \in Times(fs)
        BY <3>2, <3>3 DEF Times, n
      <3>5. fs[c + i] \in Int /\ ~(fs[c + i] < now - Window)
        BY <1>1, <1>2, <3>2
      <3> QED BY <1>4, <3>3, <3>4, <3>5
    <2>2. ASSUME NEW t \in Times(fs), t >= now - Window
          PROVE  t \in Times(e)
      <3>1. PICK i \in 1 .. n : t = fs[i]
        BY DEF Times, n
      <3>2. ~(i <= c)
        BY <1>1, <1>2, <1>4, <2>2, <3>1
      <3>3. i - c \in 1 .. n - c /\ c + (i - c) = i
        BY <1>1, <3>2
      <3>4. e[i - c] = t
        BY <1>7, <3>1, <3>3
      <3> QED BY <1>7, <3>3, <3>4 DEF Times
    <2> QED BY <2>1, <2>2
  <1> QED BY <1>3, <1>6, <1>8, <1>9 DEF e

\* Another failure, later than all the others.
LEMMA AppendLater ==
  ASSUME NEW fs \in Seq(Int), NEW now \in Int, Increasing(fs), \A t \in Times(fs) : t < now
  PROVE  /\ Append(fs, now) \in Seq(Int)
         /\ Increasing(Append(fs, now))
         /\ Times(Append(fs, now)) = Times(fs) \cup {now}
PROOF
  <1> DEFINE n == Len(fs)
             a == Append(fs, now)
  <1>1. n \in Nat /\ a \in Seq(Int) /\ Len(a) = n + 1
    BY AppendProperties, LenProperties
  <1>2. a[n + 1] = now /\ \A i \in 1 .. n : a[i] = fs[i]
    BY AppendProperties
  <1>3. \A i \in 1 .. n : fs[i] < now
    BY DEF Times
  <1>4. \A i, j \in 1 .. n : i < j => fs[i] < fs[j]
    BY DEF Increasing
  <1>5. Times(fs) = {fs[i] : i \in 1 .. n}
    BY DEF Times
  <1> HIDE DEF a, n
  <1>6. Increasing(a)
    <2> SUFFICES ASSUME NEW i \in 1 .. n + 1, NEW j \in 1 .. n + 1, i < j
                 PROVE  a[i] < a[j]
      BY <1>1 DEF Increasing
    <2>1. CASE j = n + 1
      <3>1. i \in 1 .. n
        BY <1>1, <2>1
      <3> QED BY <1>2, <1>3, <2>1, <3>1
    <2>2. CASE j # n + 1
      BY <1>1, <1>2, <1>4, <2>2
    <2> QED BY <2>1, <2>2
  <1>7. Times(a) = Times(fs) \cup {now}
    <2>1. Times(a) = {a[i] : i \in 1 .. n + 1}
      BY <1>1 DEF Times
    <2>2. 1 .. n + 1 = (1 .. n) \cup {n + 1}
      BY <1>1
    <2> QED BY <1>2, <1>5, <2>1, <2>2
  <1> QED BY <1>1, <1>6, <1>7 DEF a

\* Time goes by for all failures alike.
LEMMA ElapseIs ==
  ASSUME NEW fs \in Seq(Int), NEW d \in Nat, Increasing(fs)
  PROVE  /\ Elapse(fs, d) \in Seq(Int)
         /\ Increasing(Elapse(fs, d))
         /\ Times(Elapse(fs, d)) = {t - d : t \in Times(fs)}
PROOF
  <1> DEFINE n == Len(fs)
             e == [i \in 1 .. n |-> fs[i] - d]
  <1>1. n \in Nat /\ DOMAIN fs = 1 .. n /\ \A i \in 1 .. n : fs[i] \in Int
    BY LenProperties, ElementOfSeq
  <1>2. Elapse(fs, d) = e
    BY <1>1 DEF Elapse
  <1> HIDE DEF n
  <1>3. e \in Seq(Int) /\ Len(e) = n
    <2>1. \A i \in 1 .. n : fs[i] - d \in Int
      BY <1>1
    <2> QED BY <1>1, <2>1, IsASeq
  <1>4. \A i, j \in 1 .. n : i < j => fs[i] < fs[j]
    BY DEF Increasing, n
  <1>5. Increasing(e)
    <2> SUFFICES ASSUME NEW i \in 1 .. n, NEW j \in 1 .. n, i < j
                 PROVE  e[i] < e[j]
      BY <1>3 DEF Increasing
    <2>1. fs[i] < fs[j] /\ fs[i] \in Int /\ fs[j] \in Int
      BY <1>1, <1>4
    <2> QED BY <2>1
  <1>6. Times(e) = {fs[i] - d : i \in 1 .. n}
    BY <1>3 DEF Times
  <1>7. Times(fs) = {fs[i] : i \in 1 .. n}
    BY DEF Times, n
  <1>8. {fs[i] - d : i \in 1 .. n} = {t - d : t \in {fs[i] : i \in 1 .. n}}
    OBVIOUS
  <1>9. Times(e) = {t - d : t \in Times(fs)}
    BY <1>6, <1>7, <1>8, Zenon
  <1> HIDE DEF e
  <1> QED BY <1>2, <1>3, <1>5, <1>9

-----------------------------------------------------------------------------
(* The invariant.                                                          *)

TypeHeld ==
  /\ breaker.failures \in Seq(Int) /\ breaker.since = NoTime
  /\ breaker = [failures |-> breaker.failures, since |-> breaker.since]
  /\ attempt \in Nat
  /\ phase \in {"spawned", "backoff", "failed_open", "dead"}

\* Failures are apart in time: between two of them there was a backoff.
Ordered ==
  /\ Increasing(breaker.failures)
  /\ \A t \in Times(breaker.failures) : t <= 0
  /\ phase = "spawned" => \A t \in Times(breaker.failures) : t < 0

WindowHeld == recent = {t \in Times(breaker.failures) : t >= 0 - Window}

Judged == phase # "spawned" => (phase = "failed_open" <=> ShouldOpen(breaker, 0))

IInv == TypeHeld /\ Ordered /\ WindowHeld /\ Judged

LEMMA InitInv == Init => IInv
PROOF
  <1> SUFFICES ASSUME Init PROVE IInv
    OBVIOUS
  <1>1. breaker.failures = << >> /\ breaker.since = NoTime /\ phase = "spawned"
    BY DEF Init, NewBreaker
  <1>2. << >> \in Seq(Int) /\ Len(<< >>) = 0
    BY EmptySeq
  <1>3. Times(<< >>) = {} /\ Increasing(<< >>)
    BY <1>2 DEF Times, Increasing
  <1> QED BY <1>1, <1>2, <1>3 DEF Init, NewBreaker, IInv, TypeHeld, Ordered, WindowHeld, Judged

\* The history when d time units have gone by.
LEMMA RecentAfterIs ==
  ASSUME IInv, NEW d \in Nat
  PROVE  RecentAfter(d) = {t \in Times(Elapse(breaker.failures, d)) : t >= 0 - Window}
PROOF
  <1> DEFINE T == Times(breaker.failures)
  <1>1. \A t \in T : t \in Int /\ t <= 0
    <2>1. \A i \in 1 .. Len(breaker.failures) : breaker.failures[i] \in Int
      BY ElementOfSeq DEF IInv, TypeHeld
    <2> QED BY <2>1 DEF IInv, Ordered, Times
  <1>2. recent = {t \in T : t >= 0 - Window}
    BY DEF IInv, WindowHeld
  <1>3. Times(Elapse(breaker.failures, d)) = {t - d : t \in T}
    BY ElapseIs DEF IInv, TypeHeld, Ordered
  <1> HIDE DEF T
  <1>4. Window \in Nat
    BY BreakerAssumption
  <1>5. RecentAfter(d) = {t - d : t \in recent} \cap ((0 - Window) .. 0)
    BY DEF RecentAfter
  <1>6. \A t \in T : /\ t - d \in Int /\ t - d <= 0
                     /\ t - d >= 0 - Window => t >= 0 - Window
    BY <1>1, <1>4
  <1>7. ASSUME NEW u \in RecentAfter(d)
        PROVE  u \in Times(Elapse(breaker.failures, d)) /\ u >= 0 - Window
    <2>1. PICK t \in T : u = t - d
      BY <1>2, <1>5
    <2>2. u >= 0 - Window
      BY <1>5
    <2> QED BY <1>3, <2>1, <2>2
  <1>8. ASSUME NEW u \in Times(Elapse(breaker.failures, d)), u >= 0 - Window
        PROVE  u \in RecentAfter(d)
    <2>1. PICK t \in T : u = t - d
      BY <1>3
    <2>2. t \in recent /\ u \in (0 - Window) .. 0
      BY <1>2, <1>4, <1>6, <1>8, <2>1
    <2> QED BY <1>5, <2>1, <2>2
  <1> QED BY <1>7, <1>8

\* The end of an iteration of _lifecycle_loop, with the failures there are when
\* ffmpeg has exited.
LEMMA ExitKeeps ==
  ASSUME NEW b, b.failures \in Seq(Int), Increasing(b.failures),
         \A t \in Times(b.failures) : t < 0,
         ExitWith(b), attempt' \in Nat,
         recent' = {t \in Times(b.failures) : t >= 0 - Window} \cup {0}
  PROVE  IInv'
PROOF
  <1> DEFINE e == EvictOld(b.failures, 0)
  <1>1. /\ e \in Seq(Int) /\ Increasing(e)
        /\ Times(e) = {t \in Times(b.failures) : t >= 0 - Window}
    <2>1. 0 \in Int
      OBVIOUS
    <2> QED BY <2>1, EvictOldIs, Zenon
  <1>2. breaker' = [failures |-> Append(e, 0), since |-> NoTime]
    BY DEF ExitWith, RecordFailure
  <1>3. phase' = IF ShouldOpen(breaker', 0) THEN "failed_open" ELSE "backoff"
    BY DEF ExitWith
  <1> HIDE DEF e
  <1>4. \A t \in Times(e) : t < 0
    BY <1>1
  <1>5. /\ Append(e, 0) \in Seq(Int) /\ Increasing(Append(e, 0))
        /\ Times(Append(e, 0)) = Times(e) \cup {0}
    BY <1>1, <1>4, AppendLater
  <1>6. TypeHeld'
    BY <1>2, <1>3, <1>5 DEF TypeHeld
  <1>7. Ordered'
    <2>1. \A t \in Times(e) \cup {0} : t <= 0
      <3>1. \A t \in Times(e) : t \in Int
        <4>1. \A i \in 1 .. Len(e) : e[i] \in Int
          BY <1>1, ElementOfSeq
        <4> QED BY <4>1 DEF Times
      <3> QED BY <1>4, <3>1
    <2> QED BY <1>2, <1>3, <1>5, <2>1 DEF Ordered
  <1>8. WindowHeld'
    <2>1. recent' = Times(e) \cup {0}
      BY <1>1
    <2>2. \A t \in Times(e) \cup {0} : t >= 0 - Window
      BY <1>1, BreakerAssumption
    <2> QED BY <1>2, <1>5, <2>1, <2>2 DEF WindowHeld
  <1>9. Judged'
    BY <1>3 DEF Judged
  <1> QED BY <1>6, <1>7, <1>8, <1>9 DEF IInv

\* What time makes of the failures of the breaker.
LEMMA AgedIs ==
  ASSUME IInv, NEW d \in Nat, phase = "spawned" \/ d > 0
  PROVE  /\ Elapse(breaker.failures, d) \in Seq(Int)
         /\ Increasing(Elapse(breaker.failures, d))
         /\ \A t \in Times(Elapse(breaker.failures, d)) : t < 0
         /\ RecentAfter(d) = {t \in Times(Elapse(breaker.failures, d)) : t >= 0 - Window}
PROOF
  <1>1. breaker.failures \in Seq(Int) /\ Increasing(breaker.failures)
    BY DEF IInv, TypeHeld, Ordered
  <1>2. /\ Elapse(breaker.failures, d) \in Seq(Int)
        /\ Increasing(Elapse(breaker.failures, d))
        /\ Times(Elapse(breaker.failures, d)) = {t - d : t \in Times(breaker.failures)}
    BY <1>1, ElapseIs
  <1>3. \A t \in Times(breaker.failures) : t \in Int /\ t <= 0 /\ (phase = "spawned" => t < 0)
    <2>1. \A i \in 1 .. Len(breaker.failures) : breaker.failures[i] \in Int
      BY <1>1, ElementOfSeq
    <2> QED BY <2>1 DEF IInv, Ordered, Times
  <1>4. \A t \in Times(breaker.failures) : t - d < 0
    BY <1>3
  <1> QED BY <1>2, <1>4, RecentAfterIs

LEMMA RejectKeeps ==
  ASSUME IInv, NEW r \in Rejections, Reject(r)
  PROVE  IInv'
PROOF
  <1>1. r \in Nat
    BY PolicyAssumption
  <1>2. Aged(breaker, r).failures = Elapse(breaker.failures, r)
    BY DEF Aged
  <1>3. /\ phase = "spawned" /\ ExitWith(Aged(breaker, r)) /\ attempt' = attempt
        /\ recent' = RecentAfter(r) \cup {0}
    BY DEF Reject
  <1>4. attempt' \in Nat
    BY <1>3 DEF IInv, TypeHeld
  <1> QED BY <1>1, <1>2, <1>3, <1>4, AgedIs, ExitKeeps

\* A healthy run of ResetAfter or more clears the deque, a shorter one ages it.
LEMMA ServeKeeps ==
  ASSUME IInv, NEW r \in Services, Serve(r)
  PROVE  IInv'
PROOF
  <1> DEFINE first == RecordHealthy(breaker, 0)
             last  == RecordHealthy(Aged(first, r), 0)
  <1>1. r \in Nat /\ ResetAfter \in Nat
    BY PolicyAssumption, BreakerAssumption
  <1>2. /\ phase = "spawned" /\ attempt' = 0 /\ ExitWith(last)
        /\ recent' = (IF r >= ResetAfter THEN {} ELSE RecentAfter(r)) \cup {0}
    BY DEF Serve
  <1>3. first = [failures |-> breaker.failures, since |-> 0]
    BY DEF IInv, TypeHeld, RecordHealthy
  <1>4. Aged(first, r) = [failures |-> Elapse(breaker.failures, r), since |-> 0 - r]
    BY <1>3 DEF Aged, NoTime
  <1>5. 0 - r # NoTime /\ 0 - (0 - r) = r
    BY <1>1 DEF NoTime
  <1>6. last.failures = IF r >= ResetAfter THEN << >> ELSE Elapse(breaker.failures, r)
    BY <1>4, <1>5 DEF RecordHealthy
  <1> HIDE DEF last, first
  <1>7. CASE r >= ResetAfter
    <2>1. << >> \in Seq(Int) /\ Len(<< >>) = 0
      BY EmptySeq
    <2>2. Times(<< >>) = {} /\ Increasing(<< >>)
      BY <2>1 DEF Times, Increasing
    <2>3. recent' = {t \in Times(last.failures) : t >= 0 - Window} \cup {0}
      BY <1>2, <1>6, <1>7, <2>2
    <2>4. attempt' \in Nat
      BY <1>2
    <2> QED BY <1>2, <1>6, <1>7, <2>1, <2>2, <2>3, <2>4, ExitKeeps
  <1>8. CASE ~(r >= ResetAfter)
    <2>1. attempt' \in Nat
      BY <1>2
    <2> QED BY <1>1, <1>2, <1>6, <1>8, <2>1, AgedIs, ExitKeeps
  <1> QED BY <1>7, <1>8

LEMMA BackOffKeeps ==
  ASSUME IInv, BackOff
  PROVE  IInv'
PROOF
  <1>1. PICK d \in Backoffs(attempt) : breaker' = Aged(breaker, d) /\ recent' = RecentAfter(d)
    BY DEF BackOff
  <1>2. attempt \in Nat
    BY DEF IInv, TypeHeld
  <1>3. d \in Nat /\ d > 0
    BY <1>2, BackoffsLast DEF Pos
  <1>4. attempt' \in Nat /\ phase' = "spawned"
    BY <1>2 DEF BackOff
  <1>5. breaker' = [failures |-> Elapse(breaker.failures, d), since |-> NoTime]
    BY <1>1 DEF Aged, IInv, TypeHeld
  <1>6. /\ breaker'.failures \in Seq(Int)
        /\ Increasing(breaker'.failures)
        /\ \A t \in Times(breaker'.failures) : t < 0
        /\ recent' = {t \in Times(breaker'.failures) : t >= 0 - Window}
    BY <1>1, <1>3, <1>5, AgedIs
  <1>7. \A t \in Times(breaker'.failures) : t <= 0
    <2> DEFINE fs == breaker'.failures
    <2>1. fs \in Seq(Int) /\ \A t \in Times(fs) : t < 0
      BY <1>6
    <2> HIDE DEF fs
    <2>2. \A i \in 1 .. Len(fs) : fs[i] \in Int
      BY <2>1, ElementOfSeq
    <2>3. \A t \in Times(fs) : t \in Int
      BY <2>2 DEF Times
    <2> QED BY <2>1, <2>3 DEF fs
  <1> QED BY <1>4, <1>5, <1>6, <1>7 DEF IInv, TypeHeld, Ordered, WindowHeld, Judged

LEMMA NextInv ==
  ASSUME IInv, [Next]_vars
  PROVE  IInv'
PROOF
  <1>1. CASE Retry
    <2>1. breaker' = NewBreaker /\ attempt' = 0 /\ phase' = "spawned" /\ recent' = {}
      BY <1>1 DEF Retry
    <2>2. << >> \in Seq(Int) /\ Len(<< >>) = 0
      BY EmptySeq
    <2>3. Times(<< >>) = {} /\ Increasing(<< >>)
      BY <2>2 DEF Times, Increasing
    <2> QED BY <2>1, <2>2, <2>3 DEF NewBreaker, IInv, TypeHeld, Ordered, WindowHeld, Judged
  <1>2. CASE UNCHANGED vars \/ Dead
    BY <1>2 DEF vars, Dead, IInv, TypeHeld, Ordered, WindowHeld, Judged
  <1>3. CASE Overflow
    BY <1>3 DEF Overflow, IInv, TypeHeld, Ordered, WindowHeld, Judged
  <1> QED BY <1>1, <1>2, <1>3, RejectKeeps, ServeKeeps, BackOffKeeps DEF Next

-----------------------------------------------------------------------------
(* The theorems.                                                           *)

\* The invariant of the reconnect policy.
THEOREM Inductive == Spec => []IInv
BY InitInv, NextInv, PTL DEF Spec

\* Whatever the platform does and however long each ffmpeg lives, the breaker is
\* open exactly when MaxFailures failures lie within the window ending now.
THEOREM WindowIsExact == Spec => []OpenIffWindowFull
PROOF
  <1>1. ASSUME IInv
        PROVE  OpenIffWindowFull
    <2> SUFFICES ASSUME phase # "spawned"
                 PROVE  phase = "failed_open" <=> Cardinality(recent) >= MaxFailures
      BY DEF OpenIffWindowFull
    <2> DEFINE e == EvictOld(breaker.failures, 0)
    <2>1. /\ e \in Seq(Int) /\ Increasing(e)
          /\ Times(e) = {t \in Times(breaker.failures) : t >= 0 - Window}
      BY <1>1, EvictOldIs DEF IInv, TypeHeld, Ordered
    <2>2. Len(e) = Cardinality(recent)
      <3> HIDE DEF e
      <3>1. Times(e) = recent
        BY <1>1, <2>1 DEF IInv, WindowHeld
      <3> QED BY <2>1, <3>1, LenIsCount
    <2>3. phase = "failed_open" <=> Len(e) >= MaxFailures
      BY <1>1 DEF IInv, Judged, ShouldOpen
    <2> QED BY <2>2, <2>3
  <1> QED BY <1>1, Inductive, PTL
=============================================================================
