------------------------- MODULE AdminAccessProofs -------------------------
(***************************************************************************)
(* Proofs about AdminAccess, for any limit, window and life times, any     *)
(* passwords and any finite number of logins.                              *)
(*                                                                         *)
(* IInv is the inductive invariant.  The limiter: the failures of a bucket *)
(* are in the order of time, and with the wrong guesses still being        *)
(* verified they stay within the bound.  The password: a login that has    *)
(* read the user and was not overtaken by a change holds the chosen one.   *)
(* The grants: one that can still be shown has not been used.              *)
(***************************************************************************)
EXTENDS AdminAccess, SequenceTheorems, FiniteSetTheorems, TLAPS

-----------------------------------------------------------------------------
(* Buckets: _prune, check and _oldest_expiry.                              *)

\* The failures of a bucket are in the order of time.
InOrder(bucket) == \A i, j \in 1 .. Len(bucket) : i <= j => bucket[i] <= bucket[j]

\* Of a bucket's places some are kept, never more than there are.
LEMMA KeptSome ==
  ASSUME NEW bucket \in Seq(Nat), NEW at \in Nat
  PROVE  /\ Kept(bucket, at) \subseteq 1 .. Len(bucket)
         /\ IsFiniteSet(Kept(bucket, at))
         /\ Cardinality(Kept(bucket, at)) \in 0 .. Len(bucket)
PROOF
  <1>0. Len(bucket) \in Nat
    BY LenProperties
  <1>1. IsFiniteSet(1 .. Len(bucket)) /\ Cardinality(1 .. Len(bucket)) = Len(bucket)
    <2>1. \A n \in Nat : IsFiniteSet(1 .. n) /\ Cardinality(1 .. n) = n
      <3> TAKE n \in Nat
      <3>1. IsFiniteSet(1 .. n) /\ Cardinality(1 .. n) = IF 1 > n THEN 0 ELSE n - 1 + 1
        BY FS_Interval
      <3> QED BY <3>1
    <2> QED BY <1>0, <2>1
  <1>2. Kept(bucket, at) \in SUBSET (1 .. Len(bucket))
    BY DEF Kept
  <1>3. IsFiniteSet(Kept(bucket, at)) /\ Cardinality(Kept(bucket, at)) <= Len(bucket)
    BY <1>1, <1>2, FS_Subset
  <1>4. Cardinality(Kept(bucket, at)) \in Nat
    BY <1>3, FS_CardinalityType
  <1> QED BY <1>0, <1>2, <1>3, <1>4

\* The kept places are the last ones: a set of places that goes to the right
\* without a gap is given by its size.
LEMMA KeptAreLast ==
  ASSUME NEW bucket \in Seq(Nat), NEW at \in Nat
  PROVE  Kept(bucket, at) = (Len(bucket) - Cardinality(Kept(bucket, at)) + 1) .. Len(bucket)
PROOF
  <1> DEFINE K == Kept(bucket, at)
             n == Len(bucket)
             c == Cardinality(K)
  <1>1. n \in Nat /\ c \in 0 .. n /\ K \subseteq 1 .. n /\ IsFiniteSet(K)
    BY KeptSome, LenProperties
  <1>2. \A i \in K : \A j \in i .. n : j \in K
    BY <1>1 DEF Kept
  <1> HIDE DEF K, n, c
  <1>3. IsFiniteSet((n - c + 1) .. n) /\ Cardinality((n - c + 1) .. n) = c
    BY <1>1, FS_Interval
  <1>4. CASE c = 0
    <2>1. K = {}
      BY <1>1, <1>4, FS_EmptySet DEF c
    <2> QED BY <1>1, <1>4, <2>1 DEF K, n, c
  <1>5. CASE c # 0
    <2>1. n - c + 1 \in K
      <3>1. SUFFICES ASSUME n - c + 1 \notin K PROVE FALSE
        OBVIOUS
      <3>2. K \in SUBSET ((n - c + 2) .. n)
        BY <1>1, <1>2, <1>5, <3>1
      <3>3. IsFiniteSet((n - c + 2) .. n) /\ Cardinality((n - c + 2) .. n) = c - 1
        BY <1>1, <1>5, FS_Interval
      <3>4. Cardinality(K) <= c - 1
        BY <3>2, <3>3, FS_Subset
      <3> QED BY <1>1, <3>4 DEF c
    <2>2. (n - c + 1) .. n \in SUBSET K
      BY <1>1, <1>2, <2>1
    <2>3. K = (n - c + 1) .. n
      BY <1>1, <1>3, <2>2, FS_Subset DEF c
    <2> QED BY <2>3 DEF K, n, c
  <1> QED BY <1>4, <1>5

\* _prune keeps the end of the bucket.
LEMMA PrunedFrom ==
  ASSUME NEW S \in SUBSET Nat, NEW bucket \in Seq(S), NEW at \in Nat
  PROVE  /\ Pruned(bucket, at) \in Seq(S)
         /\ Len(Pruned(bucket, at)) = Cardinality(Kept(bucket, at))
         /\ \A i \in 1 .. Len(Pruned(bucket, at)) :
              Pruned(bucket, at)[i] = bucket[Len(bucket) - Cardinality(Kept(bucket, at)) + i]
PROOF
  <1> DEFINE n == Len(bucket)
             c == Cardinality(Kept(bucket, at))
  <1>1. bucket \in Seq(Nat)
    BY SeqMonotonic
  <1>2. n \in Nat /\ c \in 0 .. n
    BY <1>1, KeptSome, LenProperties
  <1>3. \A i \in (n - c + 1) .. n : bucket[i] \in S
    BY <1>2, ElementOfSeq
  <1>4. Pruned(bucket, at) = SubSeq(bucket, n - c + 1, n)
    BY DEF Pruned
  <1> HIDE DEF n, c
  <1>5. /\ SubSeq(bucket, n - c + 1, n) \in Seq(S)
        /\ Len(SubSeq(bucket, n - c + 1, n)) = IF n - c + 1 <= n THEN n - (n - c + 1) + 1 ELSE 0
        /\ \A i \in 1 .. n - (n - c + 1) + 1 :
             SubSeq(bucket, n - c + 1, n)[i] = bucket[(n - c + 1) + i - 1]
    <2>1. n - c + 1 \in Int /\ n \in Int
      BY <1>2
    <2> QED BY <1>3, <2>1, SubSeqProperties
  <1>6. Len(Pruned(bucket, at)) = c
    BY <1>2, <1>4, <1>5
  <1>7. \A i \in 1 .. c : Pruned(bucket, at)[i] = bucket[n - c + i]
    BY <1>2, <1>4, <1>5
  <1> QED BY <1>4, <1>5, <1>6, <1>7 DEF n, c

\* A pruned bucket is still in order, and its failures are no later.
LEMMA PrunedInOrder ==
  ASSUME NEW bucket \in Seq(Nat), NEW at \in Nat, InOrder(bucket)
  PROVE  InOrder(Pruned(bucket, at))
PROOF
  <1> DEFINE p == Pruned(bucket, at)
             n == Len(bucket)
             c == Cardinality(Kept(bucket, at))
  <1>1. n \in Nat /\ c \in 0 .. n
    BY KeptSome, LenProperties
  <1>2. Len(p) = c /\ \A i \in 1 .. Len(p) : p[i] = bucket[n - c + i]
    BY PrunedFrom
  <1>3. \A i, j \in 1 .. n : i <= j => bucket[i] <= bucket[j]
    BY DEF InOrder
  <1> HIDE DEF p, n, c
  <1>4. \A i, j \in 1 .. Len(p) : i <= j => p[i] <= p[j]
    <2> SUFFICES ASSUME NEW i \in 1 .. Len(p), NEW j \in 1 .. Len(p), i <= j
                 PROVE  p[i] <= p[j]
      OBVIOUS
    <2>1. n - c + i \in 1 .. n /\ n - c + j \in 1 .. n /\ n - c + i <= n - c + j
      BY <1>1, <1>2
    <2>2. bucket[n - c + i] <= bucket[n - c + j]
      BY <1>3, <2>1
    <2> QED BY <1>2, <2>2
  <1> QED BY <1>4 DEF InOrder, p

\* Later no more failures are kept.
LEMMA PrunedLater ==
  ASSUME NEW bucket \in Seq(Nat), NEW at \in Nat, NEW later \in Nat, at <= later
  PROVE  Len(Pruned(bucket, later)) <= Len(Pruned(bucket, at))
PROOF
  <1>1. Kept(bucket, later) \in SUBSET Kept(bucket, at)
    <2>1. \A i \in 1 .. Len(bucket) : bucket[i] \in Nat
      BY ElementOfSeq
    <2> QED BY <2>1, LenProperties, AdminAccessAssumption DEF Kept
  <1>2. Cardinality(Kept(bucket, later)) <= Cardinality(Kept(bucket, at))
    BY <1>1, KeptSome, FS_Subset
  <1> QED BY <1>2, PrunedFrom

\* Pruning again keeps no more than there is.
LEMMA PrunedTwice ==
  ASSUME NEW bucket \in Seq(Nat), NEW at \in Nat
  PROVE  /\ Len(Pruned(bucket, at)) \in Nat
         /\ Len(Pruned(bucket, at)) <= Len(bucket)
PROOF
  <1>1. Len(Pruned(bucket, at)) = Cardinality(Kept(bucket, at))
    BY PrunedFrom
  <1> QED BY <1>1, KeptSome

\* _oldest_expiry: when the first of the kept failures has run out, the bucket
\* keeps less than before; until then it has not.
LEMMA OldestRunsOut ==
  ASSUME NEW bucket \in Seq(Nat), NEW at \in Nat, NEW later \in Nat,
         InOrder(bucket), Len(Pruned(bucket, at)) > 0,
         later >= Head(Pruned(bucket, at)) + Window
  PROVE  Len(Pruned(bucket, later)) < Len(Pruned(bucket, at))
PROOF
  <1> DEFINE n == Len(bucket)
             K == Kept(bucket, at)
             c == Cardinality(K)
             m == n - c + 1
             L == Kept(bucket, later)
  <1>1. n \in Nat /\ c \in 1 .. n /\ K = m .. n /\ IsFiniteSet(K) /\ m \in K
    <2>1. n \in Nat /\ c \in 0 .. n /\ IsFiniteSet(K)
      BY KeptSome, LenProperties
    <2>2. c > 0
      BY PrunedFrom
    <2>3. K = m .. n
      BY KeptAreLast
    <2> HIDE DEF n, c, K
    <2> QED BY <2>1, <2>2, <2>3
  <1>2. \A i \in 1 .. n : bucket[i] \in Nat
    BY ElementOfSeq
  <1>3. Head(Pruned(bucket, at)) = bucket[m]
    <2>1. /\ Len(Pruned(bucket, at)) = c /\ Pruned(bucket, at) \in Seq(Nat)
          /\ \A i \in 1 .. Len(Pruned(bucket, at)) : Pruned(bucket, at)[i] = bucket[n - c + i]
      BY PrunedFrom
    <2>2. Head(Pruned(bucket, at)) = Pruned(bucket, at)[1]
      BY <2>1
    <2> HIDE DEF n, c, K
    <2> QED BY <1>1, <2>1, <2>2
  <1>4. m \in 1 .. n
    BY <1>1 DEF Kept
  <1>5. PICK j \in 1 .. m : bucket[j] + Window > at
    BY <1>1 DEF Kept
  <1>6. bucket[j] <= bucket[m] /\ bucket[j] \in Nat /\ bucket[m] \in Nat
    <2> HIDE DEF m
    <2>1. j \in 1 .. n /\ j <= m
      BY <1>1, <1>4, <1>5
    <2> QED BY <1>2, <1>4, <2>1 DEF InOrder
  <1>7. at <= later
    BY <1>3, <1>5, <1>6, AdminAccessAssumption
  <1>8. L \in SUBSET (K \ {m})
    <2>1. \A i \in L : i \in K
      BY <1>2, <1>7, LenProperties, AdminAccessAssumption DEF Kept
    <2>2. m \notin L
      <3>1. \A i \in 1 .. m : bucket[i] <= bucket[m] /\ bucket[i] \in Nat
        <4> HIDE DEF m
        <4> QED BY <1>1, <1>2, <1>4 DEF InOrder
      <3>2. \A i \in 1 .. m : ~(bucket[i] + Window > later)
        <4>1. later >= bucket[m] + Window
          BY <1>3
        <4> DEFINE last == bucket[m]
        <4>2. last \in Nat /\ Window \in Nat /\ later >= last + Window
          BY <1>6, <4>1, AdminAccessAssumption
        <4>3. \A i \in 1 .. m : bucket[i] <= last /\ bucket[i] \in Nat
          BY <3>1
        <4> HIDE DEF m, last
        <4>4. \A t \in Nat : t <= last => ~(t + Window > later)
          BY <4>2
        <4> QED BY <4>3, <4>4
      <3> QED BY <3>2 DEF Kept
    <2> QED BY <2>1, <2>2
  <1>9. IsFiniteSet(K \ {m}) /\ Cardinality(K \ {m}) = c - 1
    <2>1. /\ IsFiniteSet(K \ {m})
          /\ Cardinality(K \ {m}) = IF m \in K THEN Cardinality(K) - 1 ELSE Cardinality(K)
      <3> HIDE DEF K, m
      <3> QED BY <1>1, FS_RemoveElement
    <2> QED BY <1>1, <2>1
  <1>10. Cardinality(L) <= c - 1
    BY <1>8, <1>9, FS_Subset
  <1>11. Len(Pruned(bucket, at)) = c /\ Len(Pruned(bucket, later)) = Cardinality(L)
    BY PrunedFrom
  <1>12. Cardinality(L) \in Nat
    <2>1. Cardinality(Kept(bucket, later)) \in 0 .. Len(bucket)
      BY KeptSome
    <2> QED BY <1>1, <2>1
  <1> HIDE DEF n, c, K, L
  <1> QED BY <1>1, <1>10, <1>11, <1>12

\* record_failure adds the failure of this moment at the end.
LEMMA FailureAdded ==
  ASSUME NEW at \in Nat, NEW bucket \in Seq(0 .. at), InOrder(bucket)
  PROVE  LET after == Append(Pruned(bucket, at), at)
         IN  /\ after \in Seq(0 .. at) /\ InOrder(after)
             /\ Len(Pruned(after, at)) <= Len(Pruned(bucket, at)) + 1
PROOF
  <1> DEFINE p == Pruned(bucket, at)
             after == Append(p, at)
  <1>1. bucket \in Seq(Nat)
    BY SeqMonotonic, 0 .. at \subseteq Nat
  <1>2. p \in Seq(0 .. at) /\ InOrder(p)
    <2>1. 0 .. at \in SUBSET Nat
      OBVIOUS
    <2>2. Pruned(bucket, at) \in Seq(0 .. at)
      BY <2>1, PrunedFrom
    <2>3. InOrder(Pruned(bucket, at))
      BY <1>1, PrunedInOrder
    <2> QED BY <2>2, <2>3
  <1>3. \A i \in 1 .. Len(p) : p[i] \in 0 .. at
    BY <1>2, ElementOfSeq
  <1> HIDE DEF p
  <1>4. /\ after \in Seq(0 .. at) /\ Len(after) = Len(p) + 1
        /\ \A i \in 1 .. Len(p) : after[i] = p[i]
        /\ after[Len(p) + 1] = at
    <2>1. at \in 0 .. at
      OBVIOUS
    <2> QED BY <1>2, <2>1, AppendProperties
  <1>5. Len(p) \in Nat
    BY <1>2, LenProperties
  <1> HIDE DEF after
  <1>6. InOrder(after)
    <2>1. ASSUME NEW i \in 1 .. Len(after), NEW j \in 1 .. Len(after), i <= j
          PROVE  after[i] <= after[j]
      <3>1. CASE j \in 1 .. Len(p)
        <4>1. i \in 1 .. Len(p) /\ p[i] <= p[j]
          BY <1>2, <1>5, <2>1, <3>1 DEF InOrder
        <4> QED BY <1>4, <3>1, <4>1
      <3>2. CASE j = Len(p) + 1
        <4>1. after[i] \in 0 .. at
          BY <1>4, ElementOfSeq
        <4> QED BY <1>4, <3>2, <4>1
      <3> QED BY <1>4, <1>5, <3>1, <3>2
    <2> QED BY <2>1 DEF InOrder
  <1>7. Len(Pruned(after, at)) <= Len(p) + 1
    <2>1. after \in Seq(Nat)
      BY <1>4, SeqMonotonic, 0 .. at \subseteq Nat
    <2> QED BY <1>4, <2>1, PrunedTwice
  <1> QED BY <1>4, <1>6, <1>7 DEF after, p

-----------------------------------------------------------------------------
(* The inductive invariant.                                                *)

\* The buckets hold times of the past, in order.
BucketsHeld ==
  /\ now \in 0 .. MaxTime
  /\ byIp \in [Ips -> Seq(0 .. now)] /\ byName \in [Names -> Seq(0 .. now)]
  /\ \A ip \in Ips : InOrder(byIp[ip])
  /\ \A n \in Names : InOrder(byName[n])

RowTypes ==
  /\ user \in Hashes /\ chosen \in Passwords /\ reverted \in BOOLEAN
  /\ session \in [Sessions -> {NoRow} \cup
       [pass : Passwords, expires : 0 .. now + Lifetime, raced : BOOLEAN]]
  /\ token \in {"none", "active", "revoked"}

\* A wrong guess knows the buckets it will be counted in.
LoginsHeld ==
  /\ login \in [Logins -> [pc : {"idle", "verify", "rehash"}, ip : Ips \cup {None},
                           name : Names \cup {None}, pass : Passwords \cup {None},
                           weak : BOOLEAN, raced : BOOLEAN]]
  /\ \A a \in Logins :
       /\ login[a].pc = "verify" /\ Wrong(a) => login[a].ip \in Ips /\ login[a].name \in Names
       /\ login[a].pc = "rehash" => ~Wrong(a)

\* The write lock is held from touch_last_seen to the end of the request.
WriterHeld ==
  /\ req \in [Requests -> {"idle", "touch", "body", "verify"}]
  /\ \A x \in Requests : writer = x <=> req[x] \in {"body", "verify"}
  /\ writer \in Requests \cup {None}

\* A grant that can still be shown has let nothing through.
GrantsHeld ==
  /\ issued \in 0 .. MaxGrants
  /\ grants \subseteq [id : 1 .. issued, scope : Scopes, at : 0 .. now]
  /\ uses \in [1 .. MaxGrants -> 0 .. 1]
  /\ \A g \in 1 .. MaxGrants : g > issued => uses[g] = 0
  /\ \A k \in grants : uses[k.id] = 0

\* The wrong guesses that are being verified, of an address and of a name.
FromIp(ip) == {a \in Logins : login[a].pc = "verify" /\ Wrong(a) /\ login[a].ip = ip}
OfName(n)  == {a \in Logins : login[a].pc = "verify" /\ Wrong(a) /\ login[a].name = n}

\* What a bucket will hold once those have failed stays within the bound.
GuessesHeld ==
  /\ \A ip \in Ips : Recent(byIp[ip]) + Cardinality(FromIp(ip)) < Limit + Cardinality(Logins)
  /\ \A n \in Names : Recent(byName[n]) + Cardinality(OfName(n)) < Limit + Cardinality(Logins)

\* A login that no change of the password has overtaken holds the chosen one.
ChosenHeld ==
  ~reverted =>
    /\ user.pass = chosen
    /\ \A s \in Sessions : session[s] # NoRow => session[s].pass = chosen \/ session[s].raced
    /\ \A a \in Logins :
         login[a].pc # "idle" /\ ~Wrong(a) => login[a].pass = chosen \/ login[a].raced

IInv ==
  /\ BucketsHeld
  /\ RowTypes
  /\ LoginsHeld
  /\ WriterHeld
  /\ GrantsHeld
  /\ GuessesHeld
  /\ ChosenHeld

\* The initial states satisfy the invariant.
LEMMA InitInv ==
  ASSUME Init
  PROVE  IInv
PROOF
  <1> USE AdminAccessAssumption, NoneAssumption
  <1>1. BucketsHeld
    <2>1. \A S : << >> \in Seq(S) /\ Len(<< >>) = 0
      BY EmptySeq
    <2> QED BY <2>1 DEF Init, BucketsHeld, InOrder
  <1>2. RowTypes
    BY DEF Init, RowTypes, NoSessions, Hashes
  <1>3. LoginsHeld
    BY DEF Init, LoginsHeld, Out, Wrong
  <1>4. WriterHeld
    BY DEF Init, WriterHeld
  <1>5. GrantsHeld
    BY DEF Init, GrantsHeld
  <1>6. GuessesHeld
    <2>1. \A b \in Seq(Nat) : Len(b) = 0 => Recent(b) = 0
      <3> SUFFICES ASSUME NEW b \in Seq(Nat), Len(b) = 0 PROVE Recent(b) = 0
        OBVIOUS
      <3>1. now \in Nat
        BY DEF Init
      <3>2. Len(Pruned(b, now)) \in Nat /\ Len(Pruned(b, now)) <= Len(b)
        BY <3>1, PrunedTwice
      <3> QED BY <3>2 DEF Recent
    <2>2. << >> \in Seq(Nat) /\ Len(<< >>) = 0
      BY EmptySeq
    <2>3. /\ \A ip \in Ips : byIp[ip] = << >> /\ FromIp(ip) = {}
          /\ \A n \in Names : byName[n] = << >> /\ OfName(n) = {}
      BY DEF Init, FromIp, OfName, Out
    <2>4. Cardinality({}) = 0 /\ Cardinality(Logins) \in Nat
      BY FS_EmptySet, FS_CardinalityType
    <2>5. /\ \A ip \in Ips : Recent(byIp[ip]) = 0 /\ Cardinality(FromIp(ip)) = 0
          /\ \A n \in Names : Recent(byName[n]) = 0 /\ Cardinality(OfName(n)) = 0
      <3> HIDE DEF Recent
      <3> QED BY <2>1, <2>2, <2>3, <2>4
    <2> QED BY <2>4, <2>5 DEF GuessesHeld
  <1>7. ChosenHeld
    BY DEF Init, ChosenHeld, NoSessions, Out
  <1> QED BY <1>1, <1>2, <1>3, <1>4, <1>5, <1>6, <1>7 DEF IInv

-----------------------------------------------------------------------------
(* Every step keeps the invariant.                                         *)

\* One guess less and one failure more.
LEMMA RecordKeeps ==
  ASSUME BucketsHeld, NEW ip \in Ips, NEW n \in Names, RecordFailure(ip, n), UNCHANGED now
  PROVE  /\ BucketsHeld'
         /\ \A i \in Ips : Recent(byIp[i])' <= Recent(byIp[i]) + (IF i = ip THEN 1 ELSE 0)
         /\ \A m \in Names : Recent(byName[m])' <= Recent(byName[m]) + (IF m = n THEN 1 ELSE 0)
PROOF
  <1>1. now \in Nat /\ now' = now
    BY AdminAccessAssumption DEF BucketsHeld
  <1> DEFINE Added(b) == Append(Pruned(b, now), now)
  <1>2. \A b \in Seq(0 .. now) :
          InOrder(b) =>
            /\ Added(b) \in Seq(0 .. now) /\ InOrder(Added(b))
            /\ Recent(Added(b)) <= Recent(b) + 1
            /\ Recent(b) \in Nat
    <2> SUFFICES ASSUME NEW b \in Seq(0 .. now), InOrder(b)
                 PROVE  /\ Added(b) \in Seq(0 .. now) /\ InOrder(Added(b))
                        /\ Recent(Added(b)) <= Recent(b) + 1
                        /\ Recent(b) \in Nat
      OBVIOUS
    <2>1. b \in Seq(Nat)
      BY SeqMonotonic, 0 .. now \subseteq Nat
    <2>2. Len(Pruned(b, now)) \in Nat
      BY <1>1, <2>1, PrunedTwice
    <2> QED BY <1>1, <2>2, FailureAdded DEF Recent
  <1>3. /\ byIp' = [byIp EXCEPT ![ip] = Added(byIp[ip])]
        /\ byName' = [byName EXCEPT ![n] = Added(byName[n])]
    BY DEF RecordFailure
  <1>4. \A b : Recent(b)' = Recent(b)
    BY <1>1 DEF Recent
  <1> HIDE DEF Added
  <1>5. BucketsHeld'
    BY <1>1, <1>2, <1>3 DEF BucketsHeld
  <1>6. /\ \A i \in Ips : byIp[i] \in Seq(0 .. now) /\ InOrder(byIp[i])
        /\ \A m \in Names : byName[m] \in Seq(0 .. now) /\ InOrder(byName[m])
        /\ byIp \in [Ips -> Seq(0 .. now)] /\ byName \in [Names -> Seq(0 .. now)]
    BY DEF BucketsHeld
  <1>7. /\ \A i \in Ips : Recent(byIp'[i]) <= Recent(byIp[i]) + (IF i = ip THEN 1 ELSE 0)
        /\ \A m \in Names : Recent(byName'[m]) <= Recent(byName[m]) + (IF m = n THEN 1 ELSE 0)
    <2>1. ASSUME NEW i \in Ips
          PROVE  Recent(byIp'[i]) <= Recent(byIp[i]) + (IF i = ip THEN 1 ELSE 0)
      <3>1. byIp'[i] = IF i = ip THEN Added(byIp[i]) ELSE byIp[i]
        BY <1>3, <1>6
      <3>2. Recent(Added(byIp[i])) <= Recent(byIp[i]) + 1 /\ Recent(byIp[i]) \in Nat
        BY <1>2, <1>6
      <3> QED BY <3>1, <3>2
    <2>2. ASSUME NEW m \in Names
          PROVE  Recent(byName'[m]) <= Recent(byName[m]) + (IF m = n THEN 1 ELSE 0)
      <3>1. byName'[m] = IF m = n THEN Added(byName[m]) ELSE byName[m]
        BY <1>3, <1>6
      <3>2. Recent(Added(byName[m])) <= Recent(byName[m]) + 1 /\ Recent(byName[m]) \in Nat
        BY <1>2, <1>6
      <3> QED BY <3>1, <3>2
    <2> QED BY <2>1, <2>2
  <1>8. /\ \A i \in Ips : Recent(byIp[i])' = Recent(byIp'[i])
        /\ \A m \in Names : Recent(byName[m])' = Recent(byName'[m])
    BY <1>1 DEF Recent
  <1> QED BY <1>5, <1>7, <1>8

\* Pruning keeps the buckets, and no more failures.
LEMMA PruneKeeps ==
  ASSUME BucketsHeld, NEW ip \in Ips, NEW n \in Names, PruneBoth(ip, n), UNCHANGED now
  PROVE  /\ BucketsHeld'
         /\ \A i \in Ips : Recent(byIp[i])' <= Recent(byIp[i])
         /\ \A m \in Names : Recent(byName[m])' <= Recent(byName[m])
PROOF
  <1>1. now \in Nat /\ now' = now
    BY AdminAccessAssumption DEF BucketsHeld
  <1>2. \A b \in Seq(0 .. now) :
          InOrder(b) =>
            /\ Pruned(b, now) \in Seq(0 .. now) /\ InOrder(Pruned(b, now))
            /\ Recent(Pruned(b, now)) <= Recent(b)
            /\ Recent(b) \in Nat
    <2> SUFFICES ASSUME NEW b \in Seq(0 .. now), InOrder(b)
                 PROVE  /\ Pruned(b, now) \in Seq(0 .. now) /\ InOrder(Pruned(b, now))
                        /\ Recent(Pruned(b, now)) <= Recent(b)
                        /\ Recent(b) \in Nat
      OBVIOUS
    <2>1. b \in Seq(Nat) /\ 0 .. now \in SUBSET Nat
      BY SeqMonotonic, 0 .. now \subseteq Nat
    <2>2. Pruned(b, now) \in Seq(0 .. now) /\ Pruned(b, now) \in Seq(Nat)
      BY <1>1, <2>1, PrunedFrom
    <2>3. InOrder(Pruned(b, now)) /\ Len(Pruned(b, now)) \in Nat
      BY <1>1, <2>1, PrunedInOrder, PrunedTwice
    <2>4. Len(Pruned(Pruned(b, now), now)) <= Len(Pruned(b, now))
      BY <1>1, <2>2, PrunedTwice
    <2> QED BY <2>2, <2>3, <2>4 DEF Recent
  <1>3. /\ byIp' = [byIp EXCEPT ![ip] = Pruned(byIp[ip], now)]
        /\ byName' = [byName EXCEPT ![n] = Pruned(byName[n], now)]
    BY DEF PruneBoth
  <1>4. BucketsHeld'
    BY <1>1, <1>2, <1>3 DEF BucketsHeld
  <1>5. /\ \A i \in Ips : byIp[i] \in Seq(0 .. now) /\ InOrder(byIp[i])
        /\ \A m \in Names : byName[m] \in Seq(0 .. now) /\ InOrder(byName[m])
        /\ byIp \in [Ips -> Seq(0 .. now)] /\ byName \in [Names -> Seq(0 .. now)]
    BY DEF BucketsHeld
  <1>6. ASSUME NEW i \in Ips PROVE Recent(byIp'[i]) <= Recent(byIp[i])
    <2>1. byIp'[i] = IF i = ip THEN Pruned(byIp[i], now) ELSE byIp[i]
      BY <1>3, <1>5
    <2>2. Recent(Pruned(byIp[i], now)) <= Recent(byIp[i]) /\ Recent(byIp[i]) \in Nat
      BY <1>2, <1>5
    <2> QED BY <2>1, <2>2
  <1>7. ASSUME NEW m \in Names PROVE Recent(byName'[m]) <= Recent(byName[m])
    <2>1. byName'[m] = IF m = n THEN Pruned(byName[m], now) ELSE byName[m]
      BY <1>3, <1>5
    <2>2. Recent(Pruned(byName[m], now)) <= Recent(byName[m]) /\ Recent(byName[m]) \in Nat
      BY <1>2, <1>5
    <2> QED BY <2>1, <2>2
  <1>8. /\ \A i \in Ips : Recent(byIp[i])' = Recent(byIp'[i])
        /\ \A m \in Names : Recent(byName[m])' = Recent(byName'[m])
    BY <1>1 DEF Recent
  <1> QED BY <1>4, <1>6, <1>7, <1>8

\* Time passes, and failures run out.
LEMMA TickKeeps ==
  ASSUME BucketsHeld, Tick
  PROVE  /\ BucketsHeld'
         /\ \A i \in Ips : Recent(byIp[i])' <= Recent(byIp[i])
         /\ \A m \in Names : Recent(byName[m])' <= Recent(byName[m])
PROOF
  <1>1. /\ now \in Nat /\ now' \in Nat /\ now' = now + 1 /\ now' \in 0 .. MaxTime
        /\ byIp' = byIp /\ byName' = byName
    BY AdminAccessAssumption DEF BucketsHeld, Tick, limiter
  <1>2. /\ \A b : b \in Seq(0 .. now) => b \in Seq(0 .. now')
        /\ \A b : b \in Seq(0 .. now) => b \in Seq(Nat)
    BY <1>1, SeqMonotonic, 0 .. now \subseteq 0 .. now', 0 .. now \subseteq Nat
  <1>3. BucketsHeld'
    BY <1>1, <1>2 DEF BucketsHeld
  <1>4. \A b \in Seq(0 .. now) : Len(Pruned(b, now')) <= Len(Pruned(b, now))
    BY <1>1, <1>2, PrunedLater
  <1>5. /\ \A i \in Ips : byIp[i] \in Seq(0 .. now)
        /\ \A m \in Names : byName[m] \in Seq(0 .. now)
    BY DEF BucketsHeld
  <1>6. /\ \A i \in Ips : Recent(byIp[i])' = Len(Pruned(byIp[i], now'))
        /\ \A m \in Names : Recent(byName[m])' = Len(Pruned(byName[m], now'))
    BY <1>1 DEF Recent
  <1> QED BY <1>3, <1>4, <1>5, <1>6 DEF Recent

\* Counts are natural numbers.
LEMMA Counts ==
  ASSUME IInv
  PROVE  /\ \A i \in Ips : Recent(byIp[i]) \in Nat /\ Cardinality(FromIp(i)) \in Nat
         /\ \A n \in Names : Recent(byName[n]) \in Nat /\ Cardinality(OfName(n)) \in Nat
         /\ \A i : FromIp(i) \in SUBSET Logins
         /\ \A n : OfName(n) \in SUBSET Logins
         /\ \A S \in SUBSET Logins : IsFiniteSet(S) /\ Cardinality(S) \in Nat
         /\ Cardinality(Logins) \in Nat
PROOF
  <1>1. \A S \in SUBSET Logins : IsFiniteSet(S) /\ Cardinality(S) \in Nat
    BY AdminAccessAssumption, FS_Subset, FS_CardinalityType
  <1>2. /\ \A i : FromIp(i) \in SUBSET Logins
        /\ \A n : OfName(n) \in SUBSET Logins
    BY DEF FromIp, OfName
  <1>3. \A b \in Seq(0 .. now) : Recent(b) \in Nat
    <2> SUFFICES ASSUME NEW b \in Seq(0 .. now) PROVE Recent(b) \in Nat
      OBVIOUS
    <2>1. b \in Seq(Nat)
      BY SeqMonotonic, 0 .. now \subseteq Nat
    <2>2. now \in Nat
      BY AdminAccessAssumption DEF IInv, BucketsHeld
    <2> QED BY <2>1, <2>2, PrunedTwice DEF Recent
  <1>4. /\ \A i \in Ips : byIp[i] \in Seq(0 .. now)
        /\ \A n \in Names : byName[n] \in Seq(0 .. now)
    BY DEF IInv, BucketsHeld
  <1> QED BY <1>1, <1>2, <1>3, <1>4

\* They are after a step.
LEMMA RecentNext ==
  ASSUME BucketsHeld'
  PROVE  /\ \A i \in Ips : Recent(byIp[i])' \in Nat
         /\ \A n \in Names : Recent(byName[n])' \in Nat
PROOF
  <1>1. \A b \in Seq(0 .. now') : Len(Pruned(b, now')) \in Nat
    <2> SUFFICES ASSUME NEW b \in Seq(0 .. now') PROVE Len(Pruned(b, now')) \in Nat
      OBVIOUS
    <2>1. b \in Seq(Nat)
      BY SeqMonotonic, 0 .. now' \subseteq Nat
    <2>2. now' \in Nat
      BY AdminAccessAssumption DEF BucketsHeld
    <2> QED BY <2>1, <2>2, PrunedTwice
  <1>2. /\ \A i \in Ips : byIp'[i] \in Seq(0 .. now')
        /\ \A n \in Names : byName'[n] \in Seq(0 .. now')
    BY DEF BucketsHeld
  <1> QED BY <1>1, <1>2 DEF Recent

\* A step that adds neither failures nor guesses keeps the bound.
LEMMA NoGuess ==
  ASSUME IInv,
         \A i \in Ips : Recent(byIp[i])' <= Recent(byIp[i]) /\ FromIp(i)' \subseteq FromIp(i),
         \A n \in Names : Recent(byName[n])' <= Recent(byName[n]) /\ OfName(n)' \subseteq OfName(n),
         BucketsHeld'
  PROVE  GuessesHeld'
PROOF
  <1>1. /\ \A i \in Ips : Recent(byIp[i])' \in Nat
        /\ \A n \in Names : Recent(byName[n])' \in Nat
    BY RecentNext
  <1>2. ASSUME NEW i \in Ips
        PROVE  Recent(byIp[i])' + Cardinality(FromIp(i))' < Limit + Cardinality(Logins)
    <2>1. Cardinality(FromIp(i)') <= Cardinality(FromIp(i)) /\ Cardinality(FromIp(i)') \in Nat
      BY Counts, FS_Subset, FS_CardinalityType
    <2>2. Recent(byIp[i]) + Cardinality(FromIp(i)) < Limit + Cardinality(Logins)
      BY DEF IInv, GuessesHeld
    <2> QED BY <1>1, <2>1, <2>2, Counts, AdminAccessAssumption
  <1>3. ASSUME NEW n \in Names
        PROVE  Recent(byName[n])' + Cardinality(OfName(n))' < Limit + Cardinality(Logins)
    <2>1. Cardinality(OfName(n)') <= Cardinality(OfName(n)) /\ Cardinality(OfName(n)') \in Nat
      BY Counts, FS_Subset, FS_CardinalityType
    <2>2. Recent(byName[n]) + Cardinality(OfName(n)) < Limit + Cardinality(Logins)
      BY DEF IInv, GuessesHeld
    <2> QED BY <1>1, <2>1, <2>2, Counts, AdminAccessAssumption
  <1> QED BY <1>2, <1>3 DEF GuessesHeld

\* An allowed guess that is wrong: one more to come for buckets that are not full.
LEMMA GuessKeeps ==
  ASSUME IInv, NEW a \in Logins, NEW ip \in Ips, NEW n \in Names, NEW p \in Passwords,
         LoginBegin(a, ip, n, p)
  PROVE  BucketsHeld' /\ GuessesHeld'
PROOF
  <1>1. /\ BucketsHeld'
        /\ \A i \in Ips : Recent(byIp[i])' <= Recent(byIp[i])
        /\ \A m \in Names : Recent(byName[m])' <= Recent(byName[m])
    BY PruneKeeps DEF IInv, LoginBegin
  <1>2. login[a].pc = "idle" /\ None \notin Passwords
    BY NoneAssumption DEF LoginBegin
  <1>3. CASE login' = login
    <2>1. /\ \A i \in Ips : FromIp(i)' = FromIp(i)
          /\ \A m \in Names : OfName(m)' = OfName(m)
      BY <1>3 DEF FromIp, OfName, Wrong
    <2> QED BY <1>1, <2>1, NoGuess
  <1>4. CASE login' # login
    <2>1. Allowed(ip, n, now) /\ login' = [login EXCEPT ![a] = Attempt(ip, n, p)]
      BY <1>4 DEF LoginBegin
    <2>2. \A b \in Logins \ {a} : login'[b] = login[b]
      BY <2>1 DEF IInv, LoginsHeld
    <2>3. login'[a].pass # None \/ (login'[a].ip = ip /\ login'[a].name = n)
      <3>1. login'[a] = Attempt(ip, n, p)
        BY <2>1 DEF IInv, LoginsHeld
      <3> QED BY <1>2, <3>1 DEF Attempt, Out
    <2>4. \A i \in Ips \ {ip} : FromIp(i)' \subseteq FromIp(i)
      BY <2>2, <2>3 DEF FromIp, Wrong
    <2>5. \A m \in Names \ {n} : OfName(m)' \subseteq OfName(m)
      BY <2>2, <2>3 DEF OfName, Wrong
    <2>6. Recent(byIp[ip]) < Limit /\ Recent(byName[n]) < Limit
      BY <2>1, Counts, AdminAccessAssumption DEF Allowed, Full, Recent
    <2>7. /\ FromIp(ip)' \in SUBSET Logins /\ OfName(n)' \in SUBSET Logins
      BY DEF FromIp, OfName
    <2>8. /\ Cardinality(FromIp(ip)') <= Cardinality(Logins) /\ Cardinality(FromIp(ip)') \in Nat
          /\ Cardinality(OfName(n)') <= Cardinality(Logins) /\ Cardinality(OfName(n)') \in Nat
      BY <2>7, Counts, AdminAccessAssumption, FS_Subset
    <2>9. ASSUME NEW i \in Ips
          PROVE  Recent(byIp[i])' + Cardinality(FromIp(i)') < Limit + Cardinality(Logins)
      <3>1. CASE i = ip
        BY <1>1, <2>6, <2>8, <3>1, Counts, RecentNext, AdminAccessAssumption
      <3>2. CASE i # ip
        <4>1. Cardinality(FromIp(i)') <= Cardinality(FromIp(i)) /\ Cardinality(FromIp(i)') \in Nat
          BY <2>4, <3>2, Counts, FS_Subset, FS_CardinalityType
        <4>2. Recent(byIp[i]) + Cardinality(FromIp(i)) < Limit + Cardinality(Logins)
          BY DEF IInv, GuessesHeld
        <4> QED BY <1>1, <4>1, <4>2, Counts, RecentNext, AdminAccessAssumption
      <3> QED BY <3>1, <3>2
    <2>10. ASSUME NEW m \in Names
          PROVE  Recent(byName[m])' + Cardinality(OfName(m)') < Limit + Cardinality(Logins)
      <3>1. CASE m = n
        BY <1>1, <2>6, <2>8, <3>1, Counts, RecentNext, AdminAccessAssumption
      <3>2. CASE m # n
        <4>1. Cardinality(OfName(m)') <= Cardinality(OfName(m)) /\ Cardinality(OfName(m)') \in Nat
          BY <2>5, <3>2, Counts, FS_Subset, FS_CardinalityType
        <4>2. Recent(byName[m]) + Cardinality(OfName(m)) < Limit + Cardinality(Logins)
          BY DEF IInv, GuessesHeld
        <4> QED BY <1>1, <4>1, <4>2, Counts, RecentNext, AdminAccessAssumption
      <3> QED BY <3>1, <3>2
    <2> QED BY <1>1, <2>9, <2>10 DEF GuessesHeld
  <1> QED BY <1>3, <1>4

\* A guess that fails becomes a failure.
LEMMA FailureKeeps ==
  ASSUME IInv, NEW a \in Logins, LoginFails(a)
  PROVE  BucketsHeld' /\ GuessesHeld'
PROOF
  <1> DEFINE ip == login[a].ip
             n == login[a].name
  <1>1. /\ login[a].pc = "verify" /\ Wrong(a) /\ ip \in Ips /\ n \in Names
        /\ RecordFailure(ip, n) /\ now' = now /\ login' = [login EXCEPT ![a] = Out]
    BY DEF LoginFails, IInv, LoginsHeld
  <1> HIDE DEF ip, n
  <1>2. /\ BucketsHeld'
        /\ \A i \in Ips : Recent(byIp[i])' <= Recent(byIp[i]) + (IF i = ip THEN 1 ELSE 0)
        /\ \A m \in Names : Recent(byName[m])' <= Recent(byName[m]) + (IF m = n THEN 1 ELSE 0)
    BY <1>1, RecordKeeps DEF IInv
  <1>3. /\ a \in FromIp(ip) /\ a \in OfName(n)
    BY <1>1 DEF FromIp, OfName, ip, n
  <1>4. login'[a] = Out /\ \A b \in Logins \ {a} : login'[b] = login[b]
    BY <1>1 DEF IInv, LoginsHeld
  <1>5. /\ \A i \in Ips : FromIp(i)' \in SUBSET (FromIp(i) \ {a})
        /\ \A m \in Names : OfName(m)' \in SUBSET (OfName(m) \ {a})
    BY <1>4 DEF FromIp, OfName, Wrong, Out
  <1>6. ASSUME NEW S \in SUBSET Logins, NEW T \in SUBSET (S \ {a})
        PROVE  /\ Cardinality(T) \in Nat /\ Cardinality(T) <= Cardinality(S)
               /\ a \in S => Cardinality(T) <= Cardinality(S) - 1
    <2>1. IsFiniteSet(S) /\ Cardinality(S) \in Nat
      BY Counts
    <2>2. /\ IsFiniteSet(S \ {a})
          /\ Cardinality(S \ {a}) = IF a \in S THEN Cardinality(S) - 1 ELSE Cardinality(S)
      BY <2>1, FS_RemoveElement
    <2>3. IsFiniteSet(T) /\ Cardinality(T) <= Cardinality(S \ {a})
      BY <2>2, FS_Subset
    <2>4. Cardinality(T) \in Nat
      BY <2>3, FS_CardinalityType
    <2> QED BY <2>1, <2>2, <2>3, <2>4
  <1>7. ASSUME NEW i \in Ips
        PROVE  Recent(byIp[i])' + Cardinality(FromIp(i)') < Limit + Cardinality(Logins)
    <2>1. /\ Cardinality(FromIp(i)') \in Nat
          /\ Cardinality(FromIp(i)') <= Cardinality(FromIp(i))
          /\ i = ip => Cardinality(FromIp(i)') <= Cardinality(FromIp(i)) - 1
      BY <1>3, <1>5, <1>6, Counts
    <2>2. Recent(byIp[i]) + Cardinality(FromIp(i)) < Limit + Cardinality(Logins)
      BY DEF IInv, GuessesHeld
    <2>3. Recent(byIp[i])' \in Nat
      BY <1>2, RecentNext
    <2> QED BY <1>2, <2>1, <2>2, <2>3, Counts, AdminAccessAssumption
  <1>8. ASSUME NEW m \in Names
        PROVE  Recent(byName[m])' + Cardinality(OfName(m)') < Limit + Cardinality(Logins)
    <2>1. /\ Cardinality(OfName(m)') \in Nat
          /\ Cardinality(OfName(m)') <= Cardinality(OfName(m))
          /\ m = n => Cardinality(OfName(m)') <= Cardinality(OfName(m)) - 1
      BY <1>3, <1>5, <1>6, Counts
    <2>2. Recent(byName[m]) + Cardinality(OfName(m)) < Limit + Cardinality(Logins)
      BY DEF IInv, GuessesHeld
    <2>3. Recent(byName[m])' \in Nat
      BY <1>2, RecentNext
    <2> QED BY <1>2, <2>1, <2>2, <2>3, Counts, AdminAccessAssumption
  <1> QED BY <1>2, <1>7, <1>8 DEF GuessesHeld

\* Every step keeps the buckets and the guesses within the bound.
LEMMA LimiterKeeps ==
  ASSUME IInv, [Next]_vars
  PROVE  BucketsHeld' /\ GuessesHeld'
PROOF
  <1> DEFINE Quiet == /\ UNCHANGED <<now, byIp, byName>>
                      /\ \A i \in Ips : FromIp(i)' \subseteq FromIp(i)
                      /\ \A m \in Names : OfName(m)' \subseteq OfName(m)
  <1>1. ASSUME Quiet PROVE BucketsHeld' /\ GuessesHeld'
    <2>1. BucketsHeld'
      BY <1>1 DEF IInv, BucketsHeld
    <2>2. /\ \A i \in Ips : Recent(byIp[i])' <= Recent(byIp[i])
          /\ \A n \in Names : Recent(byName[n])' <= Recent(byName[n])
      <3>1. /\ \A i \in Ips : Recent(byIp[i])' = Recent(byIp[i])
            /\ \A n \in Names : Recent(byName[n])' = Recent(byName[n])
        BY <1>1 DEF Recent
      <3> QED BY <3>1, Counts
    <2> QED BY <1>1, <2>1, <2>2, NoGuess
  <1>2. ASSUME UNCHANGED <<now, byIp, byName, login>> PROVE Quiet
    BY <1>2 DEF FromIp, OfName, Wrong
  <1>3. CASE Tick
    <2>1. /\ \A i \in Ips : FromIp(i)' \subseteq FromIp(i)
          /\ \A m \in Names : OfName(m)' \subseteq OfName(m)
      BY <1>3 DEF Tick, FromIp, OfName, Wrong
    <2> QED BY <1>3, <2>1, TickKeeps, NoGuess DEF IInv
  <1>4. ASSUME NEW a \in Logins,
               LoginBusy(a) \/ Rehash(a) \/ RehashFails(a) \/ \E s \in Sessions : LoginSucceeds(a, s)
        PROVE  Quiet
    <2>1. /\ UNCHANGED <<now, byIp, byName>>
          /\ \A b \in Logins \ {a} : login'[b] = login[b]
          /\ login'[a].pc # "verify"
      <3>1. \/ login' = [login EXCEPT ![a] = Out]
            \/ login' = [login EXCEPT ![a].pc = "rehash", ![a].weak = FALSE]
        BY <1>4 DEF LoginBusy, Rehash, RehashFails, LoginSucceeds
      <3>2. UNCHANGED <<now, byIp, byName>>
        BY <1>4 DEF LoginBusy, Rehash, RehashFails, LoginSucceeds, limiter
      <3> QED BY <3>1, <3>2 DEF Out, IInv, LoginsHeld
    <2> QED BY <2>1 DEF FromIp, OfName, Wrong
  <1>5. ASSUME NEW x \in Requests, NEW p \in Passwords, ChangeCommit(x, p) PROVE Quiet
    <2>1. \A b \in Logins : login'[b] = login[b] \/ ~Wrong(b)'
      BY <1>5 DEF ChangeCommit, Overtaken, Wrong, IInv, LoginsHeld
    <2> QED BY <1>5, <2>1 DEF ChangeCommit, FromIp, OfName, Wrong, limiter
  <1>6. CASE \/ Prune \/ UNCHANGED vars
             \/ \E s \in Sessions : ReapExpired(s) \/ Logout(s)
    BY <1>1, <1>2, <1>6 DEF Prune, ReapExpired, Logout, vars, limiter
  <1>7. ASSUME NEW x \in Requests,
               \/ Begin(x) \/ Touch(x) \/ Busy(x) \/ Answer(x) \/ LogoutAll(x) \/ CreateToken(x)
               \/ \E s \in Sessions : RevokeSession(x, s)
               \/ \E scope \in Scopes : Reprompt(x, scope)
               \/ \E g \in 1 .. issued :
                    \/ ChangeBegin(x, g) \/ RevokeToken(x, g)
                    \/ \E scope \in Scopes : Forbidden(x, g, scope)
        PROVE  UNCHANGED <<now, byIp, byName, login>>
    BY <1>7 DEF Begin, Touch, Busy, Answer, LogoutAll, CreateToken, RevokeSession, Reprompt,
                ChangeBegin, RevokeToken, Forbidden, limiter
  <1> HIDE DEF Quiet
  <1>8. ASSUME NEW a \in Logins, Login(a) PROVE BucketsHeld' /\ GuessesHeld'
    BY <1>1, <1>4, <1>8, FailureKeeps DEF Login
  <1>9. ASSUME NEW x \in Requests, Begin(x) \/ Request(x) PROVE BucketsHeld' /\ GuessesHeld'
    BY <1>1, <1>2, <1>5, <1>7, <1>9 DEF Request, Body
  <1> QED BY <1>3, <1>6, <1>8, <1>9, GuessKeeps DEF Next

\* Every step keeps what the rows and the logins hold.
LEMMA LoginsKeep ==
  ASSUME IInv, [Next]_vars
  PROVE  LoginsHeld'
PROOF
  <1> USE NoneAssumption DEF IInv, LoginsHeld, Wrong, Out
  <1>1. ASSUME NEW a \in Logins, NEW ip \in Ips, NEW n \in Names, NEW p \in Passwords,
               LoginBegin(a, ip, n, p)
        PROVE  LoginsHeld'
    <2>1. CASE UNCHANGED login
      BY <2>1
    <2>2. CASE login' = [login EXCEPT ![a] = Attempt(ip, n, p)]
      BY <2>2 DEF Attempt, RowTypes, Hashes
    <2> QED BY <1>1, <2>1, <2>2 DEF LoginBegin
  <1>2. ASSUME NEW a \in Logins, Login(a) PROVE LoginsHeld'
    <2>1. CASE login' = [login EXCEPT ![a] = Out]
      BY <2>1
    <2>2. CASE ~Wrong(a) /\ login' = [login EXCEPT ![a].pc = "rehash", ![a].weak = FALSE]
      <3> DEFINE l == [login[a] EXCEPT !.pc = "rehash", !.weak = FALSE]
                 T == [pc : {"idle", "verify", "rehash"}, ip : Ips \cup {None},
                       name : Names \cup {None}, pass : Passwords \cup {None},
                       weak : BOOLEAN, raced : BOOLEAN]
      <3>1. login \in [Logins -> T] /\ login' = [login EXCEPT ![a] = l]
        BY <2>2
      <3>2. l \in T /\ l.pc = "rehash" /\ l.pass # None
        BY <2>2
      <3>3. \A b \in Logins :
              /\ login[b].pc = "verify" /\ login[b].pass = None
                   => login[b].ip \in Ips /\ login[b].name \in Names
              /\ login[b].pc = "rehash" => login[b].pass # None
        BY Zenon DEF IInv, LoginsHeld, Wrong
      <3> HIDE DEF l, IInv, LoginsHeld, Wrong
      <3>4. login' \in [Logins -> T] /\ \A b \in Logins : login'[b] = IF b = a THEN l ELSE login[b]
        <4> HIDE DEF T
        <4> QED BY <3>1, <3>2
      <3>5. \A b \in Logins :
              /\ login'[b].pc = "verify" /\ login'[b].pass = None
                   => login'[b].ip \in Ips /\ login'[b].name \in Names
              /\ login'[b].pc = "rehash" => login'[b].pass # None
        <4> TAKE b \in Logins
        <4>1. CASE b = a
          <5>1. login'[b] = l /\ l.pc # "verify"
            BY <3>2, <3>4, <4>1
          <5> QED BY <3>2, <5>1
        <4>2. CASE b # a
          <5>1. login'[b] = login[b]
            BY <3>4, <4>2
          <5> QED BY <3>3, <5>1, Zenon
        <4> QED BY <4>1, <4>2
      <3> QED BY <3>4, <3>5 DEF LoginsHeld, Wrong
    <2> QED BY <1>2, <2>1, <2>2 DEF Login, LoginFails, LoginBusy, Rehash, RehashFails, LoginSucceeds
  <1>3. ASSUME NEW x \in Requests, NEW p \in Passwords, ChangeCommit(x, p) PROVE LoginsHeld'
    BY <1>3, ZenonT(40) DEF ChangeCommit, Overtaken
  <1>4. CASE UNCHANGED login
    BY <1>4
  <1> HIDE DEF IInv, LoginsHeld
  <1> QED
    BY <1>1, <1>2, <1>3, <1>4
       DEF Next, Request, Body, Tick, Prune, ReapExpired, Logout, vars, Begin, Touch, Busy, Answer,
           LogoutAll, CreateToken, RevokeSession, Reprompt, ChangeBegin, RevokeToken, Forbidden

\* Every step keeps the types of the rows.
LEMMA RowsKeep ==
  ASSUME IInv, [Next]_vars
  PROVE  RowTypes'
PROOF
  <1> USE AdminAccessAssumption, NoneAssumption
  <1>1. now \in Nat /\ (now' = now \/ now' = now + 1)
    <2>1. now \in Nat
      BY DEF IInv, BucketsHeld
    <2>2. CASE Tick
      BY <2>1, <2>2 DEF Tick
    <2>3. CASE ~Tick
      BY <2>1, <2>3
         DEF Next, Login, Request, Body, Prune, ReapExpired, Logout, vars, Begin, Touch, Busy, Answer,
             LogoutAll, CreateToken, RevokeSession, Reprompt, ChangeBegin, RevokeToken, Forbidden,
             ChangeCommit, LoginBegin, LoginFails, LoginBusy, Rehash, RehashFails, LoginSucceeds
    <2> QED BY <2>2, <2>3
  <1> DEFINE Row(t) == {NoRow} \cup [pass : Passwords, expires : 0 .. t + Lifetime, raced : BOOLEAN]
  <1>2. /\ user \in Hashes /\ chosen \in Passwords /\ reverted \in BOOLEAN
        /\ session \in [Sessions -> Row(now)] /\ token \in {"none", "active", "revoked"}
    BY DEF IInv, RowTypes
  <1>3. Row(now) \subseteq Row(now') /\ NoRow \in Row(now')
    BY <1>1
  <1>4. \A a \in Logins : login[a].pass \in Passwords \cup {None} /\ login[a].raced \in BOOLEAN
    BY DEF IInv, LoginsHeld
  <1>5. session' \in [Sessions -> Row(now')]
    <2>1. CASE UNCHANGED session
      BY <1>2, <1>3, <2>1
    <2>2. CASE session' = NoSessions \/ \E s \in Sessions : session' = [session EXCEPT ![s] = NoRow]
      BY <1>2, <1>3, <2>2 DEF NoSessions
    <2>3. ASSUME NEW a \in Logins, NEW s \in Sessions, LoginSucceeds(a, s)
          PROVE  session' \in [Sessions -> Row(now')]
      <3>1. PICK row : /\ session' = [session EXCEPT ![s] = row]
                       /\ row = [pass |-> login[a].pass, expires |-> now + Lifetime,
                                 raced |-> login[a].raced]
        BY <2>3 DEF LoginSucceeds
      <3>2. login[a].pass \in Passwords /\ now' = now
        BY <1>4, <2>3 DEF LoginSucceeds, Wrong
      <3>3. now + Lifetime \in 0 .. now' + Lifetime
        BY <1>1, <3>2
      <3>4. row \in Row(now')
        BY <1>4, <3>1, <3>2, <3>3
      <3> HIDE DEF Row
      <3> QED BY <1>2, <1>3, <3>1, <3>4
    <2> HIDE DEF Row
    <2>4. CASE \E a \in Logins, s \in Sessions : LoginSucceeds(a, s)
      BY <2>3, <2>4
    <2> QED
      BY <2>1, <2>2, <2>4
         DEF Next, Login, Request, Body, Tick, Prune, ReapExpired, Logout, vars, rows, Begin, Touch,
             Busy, Answer, LogoutAll, CreateToken, RevokeSession, Reprompt, ChangeBegin, RevokeToken,
             Forbidden, ChangeCommit, LoginBegin, LoginFails, LoginBusy, Rehash, RehashFails
  <1>6. user' \in Hashes /\ chosen' \in Passwords /\ reverted' \in BOOLEAN
    <2>1. CASE UNCHANGED <<user, chosen, reverted>>
      BY <1>2, <2>1
    <2>2. ASSUME NEW a \in Logins, Rehash(a)
          PROVE  user' \in Hashes /\ chosen' \in Passwords /\ reverted' \in BOOLEAN
      <3>1. login[a].pass \in Passwords
        BY <1>4, <2>2 DEF Rehash, IInv, LoginsHeld, Wrong
      <3> QED BY <1>2, <1>4, <2>2, <3>1 DEF Rehash, Hashes
    <2>3. ASSUME NEW x \in Requests, NEW p \in Passwords, ChangeCommit(x, p)
          PROVE  user' \in Hashes /\ chosen' \in Passwords /\ reverted' \in BOOLEAN
      BY <1>2, <2>3 DEF ChangeCommit, Hashes
    <2> QED
      BY <2>1, <2>2, <2>3
         DEF Next, Login, Request, Body, Tick, Prune, ReapExpired, Logout, vars, rows, history, Begin,
             Touch, Busy, Answer, LogoutAll, CreateToken, RevokeSession, Reprompt, ChangeBegin,
             RevokeToken, Forbidden, Consume, LoginBegin, LoginFails, LoginBusy, RehashFails, LoginSucceeds
  <1>7. token' \in {"none", "active", "revoked"}
    BY <1>2, ZenonT(40)
       DEF Next, Login, Request, Body, Tick, Prune, ReapExpired, Logout, vars, rows, Begin, Touch,
           Busy, Answer, LogoutAll, CreateToken, RevokeSession, Reprompt, ChangeBegin, RevokeToken,
           Forbidden, ChangeCommit, LoginBegin, LoginFails, LoginBusy, Rehash, RehashFails, LoginSucceeds
  <1> QED BY <1>5, <1>6, <1>7 DEF RowTypes

\* Every step keeps the write lock with the requests that are at work.
LEMMA WriterKeeps ==
  ASSUME IInv, [Next]_vars
  PROVE  WriterHeld'
PROOF
  <1> USE NoneAssumption
  <1>1. WriterHeld
    BY DEF IInv
  <1>2. CASE UNCHANGED <<req, writer>>
    BY <1>1, <1>2 DEF WriterHeld
  <1>3. ASSUME NEW x \in Requests, req[x] \in {"body", "verify"}, Leave(x)
        PROVE  WriterHeld'
    BY <1>1, <1>3 DEF WriterHeld, Leave
  <1>4. ASSUME NEW x \in Requests, Begin(x) \/ Touch(x) \/ Busy(x)
        PROVE  WriterHeld'
    BY <1>1, <1>4 DEF WriterHeld, Begin, Touch, Busy
  <1>5. ASSUME NEW x \in Requests, NEW g \in 1 .. issued, ChangeBegin(x, g)
        PROVE  WriterHeld'
    BY <1>1, <1>5 DEF WriterHeld, ChangeBegin
  <1>6. ASSUME NEW x \in Requests, Body(x) PROVE WriterHeld'
    BY <1>3, <1>5, <1>6
       DEF Body, Answer, LogoutAll, CreateToken, RevokeSession, Reprompt, RevokeToken, Forbidden,
           ChangeCommit
  <1> QED
    BY <1>2, <1>4, <1>6
       DEF Next, Login, Request, Tick, Prune, ReapExpired, Logout, vars, LoginBegin, LoginFails,
           LoginBusy, Rehash, RehashFails, LoginSucceeds

\* A grant that is shown is gone, and has been used at most now.
LEMMA ConsumeKeeps ==
  ASSUME GrantsHeld, NEW g \in 1 .. issued, NEW scope \in Scopes, Consume(g, scope),
         UNCHANGED <<issued, now>>
  PROVE  GrantsHeld'
PROOF
  <1>1. g \in 1 .. MaxGrants
    BY AdminAccessAssumption DEF GrantsHeld
  <1>2. /\ grants' \subseteq grants /\ \A k \in grants' : k.id # g
        /\ uses' \in [1 .. MaxGrants -> 0 .. 1]
        /\ \A h \in 1 .. MaxGrants : h # g => uses'[h] = uses[h]
    <2>1. CASE Good(g, scope)
      <3>1. uses[g] = 0
        BY <2>1 DEF Good, Presented, GrantsHeld
      <3> QED BY <1>1, <2>1, <3>1 DEF Consume, Presented, GrantsHeld
    <2>2. CASE ~Good(g, scope)
      BY <2>2 DEF Consume, Presented, GrantsHeld
    <2> QED BY <2>1, <2>2
  <1>3. \A k \in grants : k.id \in 1 .. MaxGrants
    BY AdminAccessAssumption DEF GrantsHeld
  <1> QED BY <1>1, <1>2, <1>3, AdminAccessAssumption DEF GrantsHeld

\* Every step keeps the grants that can be shown unused.
LEMMA GrantsKeep ==
  ASSUME IInv, [Next]_vars
  PROVE  GrantsHeld'
PROOF
  <1> USE AdminAccessAssumption
  <1>1. GrantsHeld /\ now \in Nat
    BY DEF IInv, BucketsHeld
  <1>2. CASE UNCHANGED <<grants, issued, uses>> /\ now' \in now .. now + 1
    BY <1>1, <1>2 DEF GrantsHeld
  <1>3. CASE Prune
    BY <1>1, <1>3 DEF Prune, GrantsHeld, history
  <1>4. ASSUME NEW x \in Requests, NEW scope \in Scopes, Reprompt(x, scope)
        PROVE  GrantsHeld'
    <2>1. /\ issued' = issued + 1 /\ issued' \in 1 .. MaxGrants
          /\ grants' = grants \cup {NewGrant(scope)} /\ uses' = uses /\ now' = now
      BY <1>1, <1>4 DEF Reprompt, GrantsHeld
    <2>2. NewGrant(scope) \in [id : 1 .. issued', scope : Scopes, at : 0 .. now]
      BY <1>1, <2>1 DEF NewGrant
    <2>3. uses[NewGrant(scope).id] = 0
      BY <1>1, <2>1 DEF NewGrant, GrantsHeld
    <2>4. [id : 1 .. issued, scope : Scopes, at : 0 .. now]
             \subseteq [id : 1 .. issued', scope : Scopes, at : 0 .. now]
      BY <1>1, <2>1 DEF GrantsHeld
    <2> QED BY <1>1, <2>1, <2>2, <2>3, <2>4 DEF GrantsHeld
  <1>5. ASSUME NEW x \in Requests, NEW g \in 1 .. issued,
               ChangeBegin(x, g) \/ RevokeToken(x, g) \/ \E scope \in Scopes : Forbidden(x, g, scope)
        PROVE  GrantsHeld'
    <2>1. "change_password" \in Scopes /\ "revoke_api_token" \in Scopes
      BY DEF Scopes
    <2> QED BY <1>1, <1>5, <2>1, ConsumeKeeps DEF ChangeBegin, RevokeToken, Forbidden
  <1>6. CASE Tick
    BY <1>1, <1>2, <1>6 DEF Tick, history
  <1>7. ASSUME NEW x \in Requests, Body(x) PROVE GrantsHeld'
    BY <1>1, <1>2, <1>4, <1>5, <1>7
       DEF Body, Answer, LogoutAll, CreateToken, RevokeSession, ChangeCommit, history
  <1>8. CASE UNCHANGED <<grants, issued, uses, now>>
    BY <1>1, <1>2, <1>8
  <1>9. ASSUME NEW a \in Logins,
               Login(a) \/ \E ip \in Ips, n \in Names, p \in Passwords : LoginBegin(a, ip, n, p)
        PROVE  GrantsHeld'
    BY <1>8, <1>9 DEF Login, LoginBegin, LoginFails, LoginBusy, Rehash, RehashFails, LoginSucceeds, history
  <1>10. ASSUME NEW x \in Requests, Begin(x) \/ Request(x) PROVE GrantsHeld'
    BY <1>7, <1>8, <1>10 DEF Request, Begin, Touch, Busy, history
  <1>11. CASE UNCHANGED vars \/ \E s \in Sessions : ReapExpired(s) \/ Logout(s)
    BY <1>8, <1>11 DEF ReapExpired, Logout, vars, history
  <1> HIDE DEF GrantsHeld
  <1> QED BY <1>3, <1>6, <1>9, <1>10, <1>11 DEF Next

\* Every step keeps the password that is stored, and the one a login holds, the
\* chosen one.
LEMMA ChosenKeeps ==
  ASSUME IInv, [Next]_vars
  PROVE  ChosenHeld'
PROOF
  <1> USE NoneAssumption DEF ChosenHeld, Wrong
  <1>0. ChosenHeld /\ RowTypes /\ LoginsHeld
    BY DEF IInv
  <1>1. ASSUME NEW a \in Logins, NEW ip \in Ips, NEW n \in Names, NEW p \in Passwords,
               LoginBegin(a, ip, n, p)
        PROVE  ChosenHeld'
    <2>1. UNCHANGED <<user, session, chosen, reverted>>
      BY <1>1 DEF LoginBegin, rows, history
    <2>2. CASE UNCHANGED login
      BY <1>0, <2>1, <2>2
    <2>3. CASE login' = [login EXCEPT ![a] = Attempt(ip, n, p)]
      <3>1. Attempt(ip, n, p).pass = None \/ Attempt(ip, n, p).pass = user.pass
        BY DEF Attempt, Out
      <3> HIDE DEF ChosenHeld
      <3>2. login'[a] = Attempt(ip, n, p) /\ \A b \in Logins \ {a} : login'[b] = login[b]
        BY <1>0, <2>3 DEF LoginsHeld
      <3> QED BY <1>0, <2>1, <3>1, <3>2 DEF ChosenHeld
    <2> QED BY <1>1, <2>2, <2>3 DEF LoginBegin
  <1>2. ASSUME NEW a \in Logins, LoginFails(a) \/ LoginBusy(a) \/ RehashFails(a) PROVE ChosenHeld'
    BY <1>0, <1>2 DEF LoginFails, LoginBusy, RehashFails, LoginsHeld, Out, rows, history
  <1>3. ASSUME NEW a \in Logins, Rehash(a) PROVE ChosenHeld'
    BY <1>0, <1>3 DEF Rehash, LoginsHeld, RowTypes, Out
  <1>4. ASSUME NEW a \in Logins, NEW s \in Sessions, LoginSucceeds(a, s) PROVE ChosenHeld'
    <2>1. /\ session' = [session EXCEPT ![s] = [pass |-> login[a].pass, expires |-> now + Lifetime,
                                                raced |-> login[a].raced]]
          /\ login[a].pc = "verify" /\ login[a].pass # None
          /\ UNCHANGED <<user, chosen, reverted>>
      BY <1>4 DEF LoginSucceeds, history
    <2>2. \/ login' = [login EXCEPT ![a] = Out]
          \/ login' = [login EXCEPT ![a].pc = "rehash", ![a].weak = FALSE]
      BY <1>4 DEF LoginSucceeds
    <2>3. ~reverted =>
            \A b \in Logins :
              login'[b].pc # "idle" /\ ~Wrong(b)' => login'[b].pass = chosen \/ login'[b].raced
      BY <1>0, <2>1, <2>2 DEF LoginsHeld, Out
    <2>4. ~reverted =>
            \A r \in Sessions : session'[r] # NoRow => session'[r].pass = chosen \/ session'[r].raced
      BY <1>0, <2>1 DEF RowTypes
    <2> QED BY <1>0, <2>1, <2>3, <2>4
  <1>5. ASSUME NEW x \in Requests, NEW p \in Passwords, ChangeCommit(x, p) PROVE ChosenHeld'
    BY <1>0, <1>5 DEF ChangeCommit, Overtaken, LoginsHeld, NoSessions
  <1>6. CASE /\ UNCHANGED <<user, chosen, reverted, login>>
             /\ \/ UNCHANGED session
                \/ session' = NoSessions
                \/ \E s \in Sessions : session' = [session EXCEPT ![s] = NoRow]
    BY <1>0, <1>6 DEF RowTypes, NoSessions
  <1> HIDE DEF ChosenHeld, Wrong
  <1>7. ASSUME NEW x \in Requests, Begin(x) \/ Request(x) PROVE ChosenHeld'
    BY <1>5, <1>6, <1>7
       DEF Request, Body, Begin, Touch, Busy, Answer, LogoutAll, CreateToken, RevokeSession, Reprompt,
           ChangeBegin, RevokeToken, Forbidden, rows, history
  <1>8. CASE Tick \/ Prune \/ UNCHANGED vars \/ \E s \in Sessions : ReapExpired(s) \/ Logout(s)
    BY <1>6, <1>8 DEF Tick, Prune, ReapExpired, Logout, vars, rows, history
  <1>9. ASSUME NEW a \in Logins, Login(a) PROVE ChosenHeld'
    BY <1>2, <1>3, <1>4, <1>9 DEF Login
  <1> QED BY <1>1, <1>7, <1>8, <1>9 DEF Next

\* The inductive invariant is one.
THEOREM Inductive == Spec => []IInv
PROOF
  <1>1. ASSUME IInv, [Next]_vars PROVE IInv'
    <2> USE <1>1
    <2>1. BucketsHeld' /\ GuessesHeld'
      BY LimiterKeeps
    <2>2. RowTypes' /\ LoginsHeld' /\ WriterHeld'
      BY RowsKeep, LoginsKeep, WriterKeeps
    <2>3. GrantsHeld' /\ ChosenHeld'
      BY GrantsKeep, ChosenKeeps
    <2> QED BY <2>1, <2>2, <2>3 DEF IInv
  <1> QED BY <1>1, InitInv, PTL DEF Spec

-----------------------------------------------------------------------------
\* Every variable keeps its type, and the write lock is held by those at work.
THEOREM TypeCorrect == Spec => []TypeOK
PROOF
  <1>1. ASSUME IInv PROVE TypeOK
    <2>1. /\ now \in 0 .. MaxTime
          /\ \A ip \in Ips : byIp[ip] \in Seq(0 .. now)
          /\ \A n \in Names : byName[n] \in Seq(0 .. now)
      BY <1>1 DEF IInv, BucketsHeld
    <2>2. /\ user \in Hashes /\ chosen \in Passwords
          /\ session \in [Sessions -> {NoRow} \cup
               [pass : Passwords, expires : 0 .. now + Lifetime, raced : BOOLEAN]]
          /\ token \in {"none", "active", "revoked"}
      BY <1>1 DEF IInv, RowTypes
    <2>3. /\ grants \subseteq [id : 1 .. issued, scope : Scopes, at : 0 .. now]
          /\ issued \in 0 .. MaxGrants
      BY <1>1 DEF IInv, GrantsHeld
    <2>4. \A a \in Logins : login[a].pc \in {"idle", "verify", "rehash"}
      BY <1>1 DEF IInv, LoginsHeld
    <2>5. \A x \in Requests : req[x] \in {"idle", "touch", "body", "verify"}
      BY <1>1 DEF IInv, WriterHeld
    <2>6. \A x \in Requests : (writer = x) = (req[x] \in {"body", "verify"})
      BY <1>1 DEF IInv, WriterHeld
    <2> QED BY <2>1, <2>2, <2>3, <2>4, <2>5, <2>6 DEF TypeOK
  <1> QED BY <1>1, Inductive, PTL

\* However the logins interleave, a window takes no more guesses than the limit
\* and the logins that were under way.
THEOREM GuessesAreBounded == Spec => []GuessesBounded
PROOF
  <1>1. ASSUME IInv PROVE GuessesBounded
    <2>1. /\ \A ip \in Ips : Recent(byIp[ip]) < Limit + Cardinality(Logins)
          /\ \A n \in Names : Recent(byName[n]) < Limit + Cardinality(Logins)
      BY <1>1, Counts, AdminAccessAssumption DEF IInv, GuessesHeld
    <2> QED BY <2>1 DEF GuessesBounded
  <1> QED BY <1>1, Inductive, PTL

\* A change of the password takes hold, with the two exceptions.
THEOREM ChangesTakeHold == Spec => []ChangeTakesHold
PROOF
  <1>1. IInv => ChangeTakesHold
    BY DEF IInv, ChosenHeld, ChangeTakesHold
  <1> QED BY <1>1, Inductive, PTL

\* No grant lets two requests through.
THEOREM GrantsServeOnce == Spec => []GrantOnce
PROOF
  <1>1. IInv => GrantOnce
    BY AdminAccessAssumption DEF IInv, GrantsHeld, GrantOnce
  <1> QED BY <1>1, Inductive, PTL

\* The wait of a full bucket reaches past the present.
LEMMA WaitPositive ==
  ASSUME NEW bucket \in Seq(Nat), NEW at \in Nat, InOrder(bucket), Full(bucket, at)
  PROVE  /\ OldestExpiry(bucket, at) \in Nat \ {0}
         /\ at + OldestExpiry(bucket, at) = Head(Pruned(bucket, at)) + Window
PROOF
  <1>1. Pruned(bucket, at) \in Seq(Nat) /\ Len(Pruned(bucket, at)) > 0
    <2>1. Pruned(bucket, at) \in Seq(Nat)
      BY PrunedFrom
    <2>2. Len(Pruned(bucket, at)) >= Limit /\ Limit > 0 /\ Limit \in Nat
      BY AdminAccessAssumption DEF Full
    <2>3. Len(Pruned(bucket, at)) \in Nat
      BY PrunedTwice
    <2> QED BY <2>1, <2>2, <2>3
  <1>2. Head(Pruned(bucket, at)) \in Nat
    BY <1>1, HeadTailProperties, EmptySeq
  <1>3. ~(at >= Head(Pruned(bucket, at)) + Window)
    BY <1>1, OldestRunsOut, PrunedTwice
  <1> QED BY <1>2, <1>3, AdminAccessAssumption DEF OldestExpiry

\* A client that waits for Retry-After seconds is let in when nobody fails in the
\* meantime and no bucket has run over: the larger wait lets both buckets through.
THEOREM RetryAfterSuffices == Spec => []RetryAfterIsEnough
PROOF
  <1>1. ASSUME IInv, NEW ip \in Ips, NEW n \in Names, ~Allowed(ip, n, now),
               \A b \in FullBuckets(ip, n, now) : Recent(b) = Limit
        PROVE  Allowed(ip, n, now + RetryAfter(ip, n, now))
    <2> DEFINE f == byIp[ip]
               g == byName[n]
               F == FullBuckets(ip, n, now)
               waits == {OldestExpiry(b, now) : b \in F}
               w == RetryAfter(ip, n, now)
    <2>1. /\ now \in Nat /\ f \in Seq(Nat) /\ g \in Seq(Nat) /\ InOrder(f) /\ InOrder(g)
      <3>1. /\ now \in 0 .. MaxTime /\ f \in Seq(0 .. now) /\ g \in Seq(0 .. now)
            /\ InOrder(f) /\ InOrder(g)
        BY <1>1 DEF IInv, BucketsHeld
      <3>2. f \in Seq(Nat) /\ g \in Seq(Nat)
        BY <3>1, SeqMonotonic, 0 .. now \subseteq Nat
      <3> QED BY <3>1, <3>2, AdminAccessAssumption
    <2>2. F = {b \in {f, g} : Full(b, now)} /\ F # {}
      BY <1>1 DEF FullBuckets, Allowed
    <2>3. w = CHOOSE m \in waits : \A v \in waits : m >= v
      BY DEF RetryAfter
    <2> HIDE DEF f, g, F, w
    <2>4. \A b \in F : OldestExpiry(b, now) \in Nat \ {0}
      BY <2>1, <2>2, WaitPositive
    <2>5. \E m \in waits : \A v \in waits : m >= v
      <3>1. CASE F = {f} \/ F = {g} \/ f = g
        BY <2>2, <2>4, <3>1
      <3>2. CASE F = {f, g}
        <4>1. waits = {OldestExpiry(f, now), OldestExpiry(g, now)}
          BY <3>2
        <4> HIDE DEF waits
        <4> QED BY <2>4, <3>2, <4>1
      <3> QED BY <2>2, <3>1, <3>2
    <2>6. w \in waits /\ \A v \in waits : w >= v
      BY <2>3, <2>5
    <2>7. w \in Nat \ {0} /\ \A b \in F : w >= OldestExpiry(b, now)
      BY <2>4, <2>6
    <2>8. now + w \in Nat /\ now <= now + w
      BY <2>1, <2>7
    <2>9. ASSUME NEW b \in {f, g} PROVE ~Full(b, now + w)
      <3>1. Len(Pruned(b, now)) \in Nat /\ Len(Pruned(b, now + w)) \in Nat
        BY <2>1, <2>8, PrunedTwice
      <3>2. CASE b \in F
        <4>1. /\ Len(Pruned(b, now)) = Limit /\ Len(Pruned(b, now)) > 0
          BY <1>1, <3>2, AdminAccessAssumption DEF F, Recent
        <4>2. now + w >= Head(Pruned(b, now)) + Window
          <5>1. now + OldestExpiry(b, now) = Head(Pruned(b, now)) + Window
            BY <2>1, <2>2, <3>2, WaitPositive
          <5>2. w >= OldestExpiry(b, now) /\ OldestExpiry(b, now) \in Nat
            BY <2>4, <2>7, <3>2
          <5> QED BY <2>1, <2>7, <5>1, <5>2
        <4>3. Len(Pruned(b, now + w)) < Len(Pruned(b, now))
          BY <2>1, <2>8, <4>1, <4>2, OldestRunsOut
        <4> QED BY <3>1, <4>1, <4>3, AdminAccessAssumption DEF Full
      <3>3. CASE b \notin F
        <4>1. ~(Len(Pruned(b, now)) >= Limit)
          BY <2>2, <3>3 DEF Full
        <4>2. Len(Pruned(b, now + w)) <= Len(Pruned(b, now))
          BY <2>1, <2>8, PrunedLater
        <4> QED BY <3>1, <4>1, <4>2, AdminAccessAssumption DEF Full
      <3> QED BY <3>2, <3>3
    <2> QED BY <2>9 DEF Allowed, f, g, w
  <1>2. IInv => RetryAfterIsEnough
    BY <1>1 DEF RetryAfterIsEnough
  <1> QED BY <1>2, Inductive, PTL
=============================================================================
