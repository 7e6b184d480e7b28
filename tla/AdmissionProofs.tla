-------------------------- MODULE AdmissionProofs --------------------------
(***************************************************************************)
(* What stands in front of the endpoints: proofs about RateLimiter and     *)
(* about Access.                                                           *)
(*                                                                         *)
(* The token bucket is exactly as strict as it should be, for any rate,    *)
(* burst, unit of time and number of addresses.  A zone lets in exactly    *)
(* the keys its server was told, for any keys and any lists of them, and   *)
(* however files were edited, servers launched and cookies set before.     *)
(***************************************************************************)
EXTENDS RateLimiter, Access, SequenceTheorems, WellFoundedInduction, TLAPS

(***************************************************************************)
(* The rate limiter: the invariant.                                        *)
(***************************************************************************)
Full == Capacity * Minute

\* What the rate adds from time s to time t.
Earned(s, t) == (t - s) * PerMinute

\* What the time from the i-th grant of k to time t allows.
AllowedUntil(k, i, t) == Full + Earned(grants[k][i], t)

\* What is left in a bucket and what was taken out since any grant is at most
\* what that time allows: the inductive form of WithinRate.
NeverTooMuch ==
  \A k \in DOMAIN buckets : \A i \in DOMAIN grants[k] :
    /\ grants[k][i] <= buckets[k].last_refill
    /\ buckets[k].tokens + Granted(k, i) <= AllowedUntil(k, i, buckets[k].last_refill)

\* And it is exactly that since the grant that found the bucket full.
NeverTooLittle ==
  \A k \in DOMAIN buckets :
    \/ buckets[k].tokens = Full
    \/ \E i \in DOMAIN grants[k] :
         buckets[k].tokens + Granted(k, i) = AllowedUntil(k, i, buckets[k].last_refill)

RateInv == TypeOK /\ NeverTooMuch /\ NeverTooLittle

-----------------------------------------------------------------------------
(***************************************************************************)
(* The rate limiter: helpers.                                              *)
(***************************************************************************)
LEMMA FullFacts == Full \in Nat /\ Minute \in Nat \ {0} /\ Full >= Minute /\ PerMinute \in Nat
<1>1. Capacity \in Nat \ {0}
  BY PerMinuteAssumption, BurstAssumption DEF Capacity
<1>2. \A c \in Nat \ {0}, m \in Nat \ {0} : c * m \in Nat /\ c * m >= m
  OBVIOUS
<1> QED BY <1>1, <1>2, PerMinuteAssumption, MinuteAssumption DEF Full

LEMMA EarnedType ==
  ASSUME NEW s \in Int, NEW t \in Int
  PROVE  /\ Earned(s, t) \in Int
         /\ Earned(s, s) = 0
         /\ s <= t => Earned(s, t) >= 0
<1>1. PerMinute \in Nat
  BY PerMinuteAssumption
<1>2. \A a \in Nat, p \in Nat : a * p >= 0
  OBVIOUS
<1>3. s <= t => t - s \in Nat
  OBVIOUS
<1> QED BY <1>1, <1>2, <1>3 DEF Earned

\* What a rate adds in two intervals is what it adds in the two together.
LEMMA EarnedSum ==
  ASSUME NEW s \in Int, NEW t \in Int, NEW u \in Int
  PROVE  Earned(s, t) + Earned(t, u) = Earned(s, u)
  BY PerMinuteAssumption DEF Earned

LEMMA GrantTypes ==
  ASSUME TypeOK, NEW k \in Addresses
  PROVE  /\ now \in Nat
         /\ grants[k] \in Seq(0..now)
         /\ Len(grants[k]) \in Nat /\ DOMAIN grants[k] = 1..Len(grants[k])
         /\ \A i \in DOMAIN grants[k] : grants[k][i] \in 0..now
         /\ \A i \in DOMAIN grants[k] : Granted(k, i) \in Int /\ Allowance(k, i) \in Int
<1>1. now \in Nat /\ grants[k] \in Seq(0..now)
  BY DEF TypeOK
<1>2. /\ Len(grants[k]) \in Nat /\ DOMAIN grants[k] = 1..Len(grants[k])
      /\ \A i \in DOMAIN grants[k] : grants[k][i] \in 0..now
  BY <1>1, LenProperties, ElementOfSeq
<1>3. ASSUME NEW i \in DOMAIN grants[k]
      PROVE  Granted(k, i) \in Int /\ Allowance(k, i) \in Int
  <2>1. Len(grants[k]) - i + 1 \in Int /\ Minute \in Int
    BY <1>2, MinuteAssumption
  <2>2. \A a \in Int, m \in Int : a * m \in Int
    OBVIOUS
  <2>3. Earned(grants[k][i], now) \in Int
    <3>1. grants[k][i] \in Int /\ now \in Int
      BY <1>1, <1>2
    <3> QED BY <3>1, EarnedType
  <2>4. Capacity * Minute \in Int
    BY FullFacts DEF Full
  <2>5. (Len(grants[k]) - i + 1) * Minute \in Int
    BY <2>1, <2>2
  <2>6. \A a \in Int, e \in Int : a + e \in Int
    OBVIOUS
  <2>7. Capacity * Minute + Earned(grants[k][i], now) \in Int
    BY <2>3, <2>4, <2>6
  <2> QED BY <2>5, <2>7 DEF Granted, Allowance, Earned
<1> QED BY <1>1, <1>2, <1>3

\* A bucket when it has been refilled: what it holds and what was granted is
\* at most, and since some grant exactly, what the time up to now allows.
LEMMA RefillFacts ==
  ASSUME RateInv, NEW k \in Addresses
  PROVE  LET b == Refill(BucketOf(k))
         IN  /\ b = [tokens |-> b.tokens, last_refill |-> now]
             /\ b.tokens \in 0..Full
             /\ \A i \in DOMAIN grants[k] : b.tokens + Granted(k, i) <= Allowance(k, i)
             /\ \/ b.tokens = Full
                \/ \E i \in DOMAIN grants[k] : b.tokens + Granted(k, i) = Allowance(k, i)
<1> DEFINE b == Refill(BucketOf(k))
<1>1. TypeOK /\ now \in Nat
  BY DEF RateInv, TypeOK
<1>2. b = [tokens |-> b.tokens, last_refill |-> now]
  BY DEF Refill
<1>3. CASE k \notin DOMAIN buckets
  <2>1. BucketOf(k) = [tokens |-> Full, last_refill |-> now]
    BY <1>3 DEF BucketOf, FullBucket, Full
  <2>2. Earned(now, now) = 0
    BY <1>1, EarnedType
  <2>3. b.tokens = Full
    BY <2>1, <2>2, FullFacts DEF Refill, Full, Earned
  <2>4. DOMAIN grants[k] = {}
    BY <1>1, <1>3 DEF TypeOK
  <2> QED BY <1>2, <2>3, <2>4, FullFacts
<1>4. CASE k \in DOMAIN buckets
  <2> DEFINE o == buckets[k]
             t == o.tokens + Earned(o.last_refill, now)
  <2>1. o.tokens \in 0..Full /\ o.last_refill \in 0..now /\ BucketOf(k) = o
    BY <1>1, <1>4 DEF TypeOK, Buckets, BucketOf, Full
  <2>2. /\ o.last_refill \in Int /\ now \in Int /\ o.last_refill <= now
        /\ Earned(o.last_refill, now) \in Nat /\ t \in Nat
    <3>1. o.last_refill \in Int /\ now \in Int /\ o.last_refill <= now
      BY <1>1, <2>1
    <3>2. Earned(o.last_refill, now) \in Int /\ Earned(o.last_refill, now) >= 0
      BY <3>1, EarnedType
    <3> QED BY <2>1, <3>1, <3>2, FullFacts
  <2>3. b.tokens = IF t > Full THEN Full ELSE t
    BY <2>1 DEF Refill, Full, Earned
  <2>4. b.tokens \in 0..Full /\ b.tokens <= t /\ (b.tokens = Full \/ b.tokens = t)
    <3>1. CASE t > Full
      BY <2>2, <2>3, <3>1, FullFacts
    <3>2. CASE ~(t > Full)
      BY <2>2, <2>3, <3>2, FullFacts
    <3> QED BY <3>1, <3>2
  <2>5. ASSUME NEW i \in DOMAIN grants[k]
        PROVE  /\ o.tokens + Granted(k, i) <= AllowedUntil(k, i, o.last_refill)
               /\ AllowedUntil(k, i, o.last_refill) \in Int
               /\ AllowedUntil(k, i, o.last_refill) + Earned(o.last_refill, now)
                    = Allowance(k, i)
               /\ Granted(k, i) \in Int
               /\ Earned(o.last_refill, now) \in Int
    <3>1. grants[k][i] \in 0..now /\ Granted(k, i) \in Int
      BY <1>1, GrantTypes
    <3>2. /\ Earned(grants[k][i], o.last_refill)
               + Earned(o.last_refill, now) = Earned(grants[k][i], now)
          /\ Earned(grants[k][i], o.last_refill) \in Int
          /\ Earned(o.last_refill, now) \in Int
      <4>1. grants[k][i] \in Int
        BY <1>1, <3>1
      <4> QED BY <2>2, <4>1, EarnedType, EarnedSum
    <3>3. o.tokens + Granted(k, i) <= AllowedUntil(k, i, o.last_refill)
      BY <1>4 DEF RateInv, NeverTooMuch
    <3>4. \A f \in Int, x \in Int, y \in Int : f + x \in Int /\ (f + x) + y = f + (x + y)
      OBVIOUS
    <3>5. AllowedUntil(k, i, o.last_refill) \in Int
      BY <3>2, <3>4, FullFacts DEF AllowedUntil
    <3>6. AllowedUntil(k, i, o.last_refill) + Earned(o.last_refill, now)
            = Full + Earned(grants[k][i], now)
      BY <3>2, <3>4, FullFacts DEF AllowedUntil
    <3> QED BY <3>1, <3>2, <3>3, <3>5, <3>6 DEF Allowance, Full, Earned
  <2>6. \A i \in DOMAIN grants[k] : b.tokens + Granted(k, i) <= Allowance(k, i)
    BY <2>1, <2>4, <2>5, FullFacts
  <2>7. b.tokens = Full \/ \E i \in DOMAIN grants[k] : b.tokens + Granted(k, i) = Allowance(k, i)
    <3>1. CASE o.tokens = Full
      <4>1. t >= Full
        BY <2>2, <3>1, FullFacts
      <4> QED BY <2>2, <2>3, <4>1, FullFacts
    <3>2. CASE o.tokens # Full
      <4>1. PICK i \in DOMAIN grants[k] :
              o.tokens + Granted(k, i) = AllowedUntil(k, i, o.last_refill)
        BY <1>4, <3>2 DEF RateInv, NeverTooLittle
      <4>2. t + Granted(k, i) = Allowance(k, i)
        BY <2>1, <2>5, <4>1, FullFacts
      <4> QED BY <2>4, <4>2
    <3> QED BY <3>1, <3>2
  <2> QED BY <1>2, <2>4, <2>6, <2>7
<1> QED BY <1>3, <1>4

-----------------------------------------------------------------------------
(***************************************************************************)
(* The rate limiter's invariant.                                           *)
(***************************************************************************)
LEMMA RateStarts == Init => RateInv
<1> SUFFICES ASSUME Init PROVE RateInv
  OBVIOUS
<1>1. DOMAIN buckets = {} /\ buckets \in [DOMAIN buckets -> Buckets]
  BY DEF Init
<1>2. grants \in [Addresses -> Seq(0..now)]
  BY EmptySeq DEF Init
<1> QED BY <1>1, <1>2 DEF Init, RateInv, TypeOK, NeverTooMuch, NeverTooLittle

LEMMA TickStep ==
  ASSUME RateInv, Tick
  PROVE  RateInv'
<1>1. now \in Nat /\ now' \in Nat /\ now' = now + 1 /\ buckets' = buckets /\ grants' = grants
  BY DEF RateInv, TypeOK, Tick
<1>2. 0..now \subseteq 0..now'
  BY <1>1
<1>3. buckets' \in [DOMAIN buckets' -> Buckets']
  BY <1>1, <1>2 DEF RateInv, TypeOK, Buckets
<1>4. grants' \in [Addresses -> Seq(0..now')]
  <2>1. \A k \in Addresses : grants[k] \in Seq(0..now')
    BY <1>2, SeqMonotonic DEF RateInv, TypeOK
  <2> QED BY <1>1, <2>1 DEF RateInv, TypeOK
<1>5. TypeOK'
  BY <1>1, <1>3, <1>4 DEF RateInv, TypeOK
<1> QED BY <1>1, <1>5 DEF RateInv, NeverTooMuch, NeverTooLittle, Granted, AllowedUntil

LEMMA RefuseStep ==
  ASSUME RateInv, NEW k \in Addresses, Refuse(k)
  PROVE  RateInv'
<1> DEFINE b == Refill(BucketOf(k))
<1>1. /\ b = [tokens |-> b.tokens, last_refill |-> now]
      /\ b.tokens \in 0..Full
      /\ \A i \in DOMAIN grants[k] : b.tokens + Granted(k, i) <= Allowance(k, i)
      /\ \/ b.tokens = Full
         \/ \E i \in DOMAIN grants[k] : b.tokens + Granted(k, i) = Allowance(k, i)
  BY RefillFacts
<1>2. buckets' = Put(k, b) /\ now' = now /\ grants' = grants
  BY DEF Refuse
<1> HIDE DEF b
<1>3. /\ DOMAIN buckets' = DOMAIN buckets \cup {k}
      /\ buckets'[k] = b
      /\ \A x \in DOMAIN buckets : x # k => buckets'[x] = buckets[x]
  BY <1>2 DEF Put
<1>4. now \in Nat /\ \A i \in DOMAIN grants[k] : grants[k][i] \in 0..now
  BY GrantTypes DEF RateInv
<1>5. b.last_refill = now /\ b \in Buckets
  BY <1>1, <1>4 DEF Buckets, Full
<1>6. TypeOK'
  <2>1. buckets' \in [DOMAIN buckets' -> Buckets]
    BY <1>2, <1>3, <1>5 DEF RateInv, TypeOK, Put
  <2> QED BY <1>2, <1>3, <2>1 DEF RateInv, TypeOK, Buckets
<1>7. \A i \in DOMAIN grants[k] : Allowance(k, i) = AllowedUntil(k, i, now)
  BY DEF Allowance, AllowedUntil, Full, Earned
<1>8. \A x \in Addresses : \A i : Granted(x, i)' = Granted(x, i)
  BY <1>2 DEF Granted
<1>9. \A x \in Addresses : \A i, t : AllowedUntil(x, i, t)' = AllowedUntil(x, i, t)
  BY <1>2 DEF AllowedUntil
<1>10. DOMAIN buckets \subseteq Addresses
  BY DEF RateInv, TypeOK
<1>11. NeverTooMuch'
  BY <1>1, <1>2, <1>3, <1>4, <1>5, <1>7, <1>8, <1>9, <1>10 DEF RateInv, NeverTooMuch
<1>12. NeverTooLittle'
  BY <1>1, <1>2, <1>3, <1>5, <1>7, <1>8, <1>9, <1>10 DEF RateInv, NeverTooLittle
<1> QED BY <1>6, <1>11, <1>12 DEF RateInv

LEMMA GrantStep ==
  ASSUME RateInv, NEW k \in Addresses, Grant(k)
  PROVE  RateInv'
<1> DEFINE b == Refill(BucketOf(k))
<1>1. /\ b = [tokens |-> b.tokens, last_refill |-> now]
      /\ b.tokens \in 0..Full
      /\ \A i \in DOMAIN grants[k] : b.tokens + Granted(k, i) <= Allowance(k, i)
      /\ \/ b.tokens = Full
         \/ \E i \in DOMAIN grants[k] : b.tokens + Granted(k, i) = Allowance(k, i)
  BY RefillFacts
<1>2. /\ b.tokens >= Minute
      /\ buckets' = Put(k, [b EXCEPT !.tokens = @ - Minute])
      /\ grants' = [grants EXCEPT ![k] = Append(@, now)] /\ now' = now
  BY DEF Grant
<1>3. /\ now \in Nat /\ grants[k] \in Seq(0..now)
      /\ Len(grants[k]) \in Nat /\ DOMAIN grants[k] = 1..Len(grants[k])
      /\ \A i \in DOMAIN grants[k] : grants[k][i] \in 0..now
      /\ \A i \in DOMAIN grants[k] : Granted(k, i) \in Int /\ Allowance(k, i) \in Int
  BY GrantTypes DEF RateInv
<1>0. PICK last \in Nat : last = Len(grants[k]) + 1
  BY <1>3
<1>4. buckets' = Put(k, [tokens |-> b.tokens - Minute, last_refill |-> now])
  BY <1>1, <1>2
<1> HIDE DEF b
<1>5. /\ DOMAIN buckets' = DOMAIN buckets \cup {k}
      /\ buckets'[k] = [tokens |-> b.tokens - Minute, last_refill |-> now]
      /\ \A x \in DOMAIN buckets : x # k => buckets'[x] = buckets[x]
  BY <1>4 DEF Put
<1>6. /\ grants'[k] \in Seq(0..now)
      /\ Len(grants'[k]) = last /\ DOMAIN grants'[k] = 1..last
      /\ \A i \in DOMAIN grants[k] : grants'[k][i] = grants[k][i]
      /\ grants'[k][last] = now
      /\ \A x \in Addresses : x # k => grants'[x] = grants[x]
      /\ grants' \in [Addresses -> Seq(0..now)]
  <2>1. now \in 0..now
    BY <1>3
  <2>2. /\ Append(grants[k], now) \in Seq(0..now)
        /\ Len(Append(grants[k], now)) = last
        /\ \A i \in 1..Len(grants[k]) : Append(grants[k], now)[i] = grants[k][i]
        /\ Append(grants[k], now)[last] = now
    BY <1>0, <1>3, <2>1, AppendProperties
  <2>3. DOMAIN Append(grants[k], now) = 1..last
    BY <2>2, LenProperties
  <2> QED BY <1>2, <1>3, <2>2, <2>3 DEF RateInv, TypeOK
<1>7. b.tokens - Minute \in 0..Full
  BY <1>1, <1>2, FullFacts
<1>8. TypeOK'
  <2>1. [tokens |-> b.tokens - Minute, last_refill |-> now] \in Buckets
    BY <1>3, <1>7 DEF Buckets, Full
  <2>2. buckets' \in [DOMAIN buckets' -> Buckets] /\ DOMAIN buckets' \subseteq Addresses
    BY <1>4, <1>5, <2>1 DEF RateInv, TypeOK, Put
  <2> QED BY <1>2, <1>5, <1>6, <2>2 DEF RateInv, TypeOK, Buckets
\* The new grant, and what it makes of the earlier ones.
<1>9. Granted(k, last)' = Minute /\ AllowedUntil(k, last, now)' = Full
  <2>1. (Len(grants'[k]) - last + 1) * Minute = Minute
    BY <1>0, <1>3, <1>6, MinuteAssumption
  <2>2. Earned(now, now) = 0
    BY <1>3, EarnedType
  <2>3. Granted(k, last)' = Minute
    BY <2>1 DEF Granted
  <2>4. AllowedUntil(k, last, now)' = Full + Earned(now, now)
    BY <1>2, <1>6 DEF AllowedUntil
  <2> QED BY <2>2, <2>3, <2>4, FullFacts
<1>10. ASSUME NEW i \in DOMAIN grants[k]
       PROVE  /\ i \in DOMAIN grants'[k]
              /\ Granted(k, i)' = Granted(k, i) + Minute
              /\ AllowedUntil(k, i, now)' = Allowance(k, i)
  <2>1. i \in DOMAIN grants'[k] /\ grants'[k][i] = grants[k][i]
    BY <1>0, <1>3, <1>6
  <2>2. Granted(k, i)' = Granted(k, i) + Minute
    <3>1. \A n \in Int : (n + 1) * Minute = n * Minute + Minute
      BY MinuteAssumption
    <3>2. Len(grants'[k]) - i + 1 = (Len(grants[k]) - i + 1) + 1
      BY <1>0, <1>3, <1>6
    <3>3. Len(grants[k]) - i + 1 \in Int
      BY <1>3
    <3> QED BY <3>1, <3>2, <3>3 DEF Granted
  <2>3. AllowedUntil(k, i, now)' = Allowance(k, i)
    BY <1>2, <2>1 DEF AllowedUntil, Allowance, Earned, Full, Capacity
  <2> QED BY <2>1, <2>2, <2>3
<1>11. ASSUME NEW x \in DOMAIN buckets, x # k
       PROVE  /\ x \in Addresses /\ buckets'[x] = buckets[x] /\ grants'[x] = grants[x]
              /\ \A i : Granted(x, i)' = Granted(x, i)
              /\ \A i, t : AllowedUntil(x, i, t)' = AllowedUntil(x, i, t)
  BY <1>5, <1>6, <1>11 DEF RateInv, TypeOK, Granted, AllowedUntil
<1>12. NeverTooMuch'
  <2>1. ASSUME NEW i \in DOMAIN grants'[k]
        PROVE  /\ grants'[k][i] <= now
               /\ (b.tokens - Minute) + Granted(k, i)' <= AllowedUntil(k, i, now)'
    <3>1. CASE i = last
      BY <1>1, <1>0, <1>3, <1>6, <1>9, <3>1, FullFacts
    <3>2. CASE i # last
      <4>1. i \in DOMAIN grants[k]
        BY <1>0, <1>3, <1>6, <3>2
      <4>2. b.tokens + Granted(k, i) <= Allowance(k, i)
        BY <1>1, <4>1
      <4>3. grants'[k][i] <= now
        BY <1>0, <1>3, <1>6, <4>1
      <4>4. (b.tokens - Minute) + (Granted(k, i) + Minute) = b.tokens + Granted(k, i)
        BY <1>1, <1>3, <4>1, FullFacts
      <4> QED BY <1>10, <4>1, <4>2, <4>3, <4>4
    <3> QED BY <3>1, <3>2
  <2>2. ASSUME NEW x \in DOMAIN buckets, x # k, NEW i \in DOMAIN grants'[x]
        PROVE  /\ grants'[x][i] <= buckets'[x].last_refill
               /\ buckets'[x].tokens + Granted(x, i)'
                    <= AllowedUntil(x, i, buckets[x].last_refill)'
    BY <1>11, <2>2 DEF RateInv, NeverTooMuch
  <2>3. ASSUME NEW i \in DOMAIN grants'[k]
        PROVE  /\ grants'[k][i] <= buckets'[k].last_refill
               /\ buckets'[k].tokens + Granted(k, i)'
                    <= AllowedUntil(k, i, buckets[k].last_refill)'
    BY <1>2, <1>5, <2>1 DEF AllowedUntil
  <2> QED BY <1>5, <2>2, <2>3 DEF NeverTooMuch
<1>13. NeverTooLittle'
  <2>1. \E i \in DOMAIN grants'[k] :
          (b.tokens - Minute) + Granted(k, i)' = AllowedUntil(k, i, now)'
    <3>1. CASE b.tokens = Full
      <4>1. last \in DOMAIN grants'[k]
        BY <1>0, <1>3, <1>6
      <4>2. (b.tokens - Minute) + Minute = Full
        BY <3>1, FullFacts
      <4> QED BY <1>9, <4>1, <4>2
    <3>2. CASE b.tokens # Full
      <4>1. PICK i \in DOMAIN grants[k] : b.tokens + Granted(k, i) = Allowance(k, i)
        BY <1>1, <3>2
      <4>2. (b.tokens - Minute) + (Granted(k, i) + Minute) = b.tokens + Granted(k, i)
        BY <1>1, <1>3, FullFacts
      <4> QED BY <1>10, <4>1, <4>2
    <3> QED BY <3>1, <3>2
  <2>2. ASSUME NEW x \in DOMAIN buckets, x # k
        PROVE  \/ buckets'[x].tokens = Full
               \/ \E i \in DOMAIN grants'[x] :
                    buckets'[x].tokens + Granted(x, i)'
                      = AllowedUntil(x, i, buckets[x].last_refill)'
    BY <1>11, <2>2 DEF RateInv, NeverTooLittle
  <2>3. \E i \in DOMAIN grants'[k] :
          buckets'[k].tokens + Granted(k, i)' = AllowedUntil(k, i, buckets[k].last_refill)'
    BY <1>2, <1>5, <2>1 DEF AllowedUntil
  <2> QED BY <1>5, <2>2, <2>3 DEF NeverTooLittle
<1> QED BY <1>8, <1>12, <1>13 DEF RateInv

LEMMA RateKept == RateInv /\ [Next]_vars => RateInv'
<1> SUFFICES ASSUME RateInv, [Next]_vars PROVE RateInv'
  OBVIOUS
<1>1. CASE Tick
  BY <1>1, TickStep
<1>2. ASSUME NEW r \in Direct, Hit(r) PROVE RateInv'
  <2>1. IpKey(r) \in Addresses
    BY DEF IpKey, Direct
  <2> QED BY <1>2, <2>1, GrantStep, RefuseStep DEF Hit
<1>3. CASE UNCHANGED vars
  BY <1>3 DEF vars, RateInv, TypeOK, Buckets, NeverTooMuch, NeverTooLittle, Granted, AllowedUntil
<1> QED BY <1>1, <1>2, <1>3 DEF Next

-----------------------------------------------------------------------------
\* Every bucket holds between nothing and its capacity, and nobody was granted
\* anything without one.
THEOREM TypeCorrect == Spec => []TypeOK
<1>1. RateInv => TypeOK
  BY DEF RateInv
<1> QED BY RateStarts, RateKept, <1>1, PTL DEF Spec

LEMMA InvWithinRate == RateInv => WithinRate
<1> SUFFICES ASSUME RateInv, NEW k \in Addresses, NEW i \in DOMAIN grants[k]
             PROVE  Granted(k, i) <= Allowance(k, i)
  BY DEF WithinRate
<1> DEFINE b == Refill(BucketOf(k))
<1>1. b.tokens \in 0..Full /\ b.tokens + Granted(k, i) <= Allowance(k, i)
  BY RefillFacts
<1>2. Granted(k, i) \in Int /\ Allowance(k, i) \in Int
  BY GrantTypes DEF RateInv
<1> HIDE DEF b
<1> QED BY <1>1, <1>2, FullFacts

\* Over any interval of time, an address is granted no more than the capacity of
\* its bucket and what the rate adds in that interval (hit, rate_limit.py:33-57).
THEOREM RateBounded == Spec => []WithinRate
<1> QED BY RateStarts, RateKept, InvWithinRate, PTL DEF Spec

\* And a request is refused only when granting it would have broken that bound.
THEOREM NoStricterThanThat == Spec => RefusedForCause
<1> DEFINE Cause == \A k \in Addresses : Refuse(k) =>
                      \E i \in DOMAIN grants[k] : Granted(k, i) + Minute > Allowance(k, i)
<1>1. ASSUME RateInv, NEW k \in Addresses, Refuse(k)
      PROVE  \E i \in DOMAIN grants[k] : Granted(k, i) + Minute > Allowance(k, i)
  <2> DEFINE b == Refill(BucketOf(k))
  <2>1. /\ b.tokens \in 0..Full
        /\ \/ b.tokens = Full
           \/ \E i \in DOMAIN grants[k] : b.tokens + Granted(k, i) = Allowance(k, i)
    BY <1>1, RefillFacts
  <2>2. b.tokens < Minute
    BY <1>1 DEF Refuse
  <2> HIDE DEF b
  <2>3. b.tokens # Full
    BY <2>1, <2>2, FullFacts
  <2>4. PICK i \in DOMAIN grants[k] : b.tokens + Granted(k, i) = Allowance(k, i)
    BY <2>1, <2>3
  <2>5. Granted(k, i) \in Int /\ Allowance(k, i) \in Int
    BY <1>1, GrantTypes DEF RateInv
  <2>6. Granted(k, i) + Minute > Allowance(k, i)
    BY <2>1, <2>2, <2>4, <2>5, FullFacts
  <2> QED BY <2>6
<1>2. RateInv => [Cause]_vars
  BY <1>1
<1> QED BY RateStarts, RateKept, <1>2, PTL DEF Spec, RefusedForCause

-----------------------------------------------------------------------------
(***************************************************************************)
(* Folds from the left.                                                    *)
(***************************************************************************)
\* A set of natural numbers that is not empty has a smallest element.
LEMMA Smallest ==
  ASSUME NEW T \in SUBSET Nat, T # {}
  PROVE  \E x \in T : \A y \in T : x <= y
<1>1. PICK x \in T : \A y \in T : ~ (<<y, x>> \in OpToRel(<, Nat))
  BY NatLessThanWellFounded, WFMin
<1>2. \A y \in T : ~ (y < x)
  BY <1>1 DEF OpToRel
<1> QED BY <1>2

\* A set of indices has a largest.
LEMMA MaxIs ==
  ASSUME NEW n \in Nat, NEW s \in SUBSET (1..n), s # {}
  PROVE  Max(s) \in s /\ \A y \in s : y <= Max(s)
<1> DEFINE T == {t \in 0..n : n - t \in s}
<1>1. ASSUME NEW x \in s PROVE n - x \in T
  OBVIOUS
<1>2. PICK t \in T : \A y \in T : t <= y
  <2>1. PICK x \in s : TRUE
    OBVIOUS
  <2>2. T \in SUBSET Nat
    OBVIOUS
  <2> HIDE DEF T
  <2>3. T # {}
    BY <1>1, <2>1
  <2> QED BY <2>2, <2>3, Smallest
<1>3. ASSUME NEW y \in s PROVE n - t >= y
  <2>1. n - y \in T /\ t <= n - y
    BY <1>1, <1>2
  <2> QED BY <2>1
<1>4. \E z \in s : \A y \in s : z >= y
  BY <1>2, <1>3
<1>5. Max(s) \in s /\ \A y \in s : Max(s) >= y
  BY <1>4, Zenon DEF Max
<1> QED BY <1>5

\* What a fold over the indices up to n has computed of each set of them.
Solves(it, base, step, n) ==
  /\ it[{}] = base
  /\ \A s \in SUBSET (1..n) : s # {} => it[s] = step[<<it[s \ {Max(s)}], Max(s)>>]

LEMMA Solvable ==
  ASSUME NEW V, NEW base \in V, NEW n \in Nat, NEW step \in [V \X (1..n) -> V]
  PROVE  \E it \in [SUBSET (1..n) -> V] : Solves(it, base, step, n)
<1> DEFINE Good(m) == \E it \in [SUBSET (1..m) -> V] : Solves(it, base, step, m)
           Bad == {m \in 0..n : ~ Good(m)}
<1> SUFFICES ASSUME Bad # {} PROVE FALSE
  <2>1. n \in 0..n
    OBVIOUS
  <2>2. Good(n)
    BY <2>1, Zenon
  <2> QED BY <2>2
<1>1. PICK k \in Bad : \A m \in Bad : k <= m
  <2>1. Bad \in SUBSET Nat
    OBVIOUS
  <2> QED BY <2>1, Smallest
<1>2. k # 0
  <2> DEFINE it == [s \in SUBSET (1..0) |-> base]
  <2>1. it \in [SUBSET (1..0) -> V] /\ it[{}] = base
    OBVIOUS
  <2>2. \A s \in SUBSET (1..0) : s = {}
    OBVIOUS
  <2>3. Solves(it, base, step, 0)
    BY <2>1, <2>2 DEF Solves
  <2>4. Good(0)
    BY <2>1, <2>3
  <2> QED BY <2>4, <1>1
<1>3. k \in 1..n /\ k - 1 \in 0..n /\ k - 1 \notin Bad
  <2> HIDE DEF Good
  <2> QED BY <1>1, <1>2
<1>4. PICK g \in [SUBSET (1..(k - 1)) -> V] : Solves(g, base, step, k - 1)
  BY <1>3
<1> DEFINE h == [s \in SUBSET (1..k) |-> IF k \in s THEN step[<<g[s \ {k}], k>>] ELSE g[s]]
<1>5. ASSUME NEW s \in SUBSET (1..k)
      PROVE  /\ s \ {k} \in SUBSET (1..(k - 1))
             /\ k \notin s => s \in SUBSET (1..(k - 1))
  BY <1>3
<1>6. h \in [SUBSET (1..k) -> V]
  <2> SUFFICES ASSUME NEW s \in SUBSET (1..k) PROVE h[s] \in V
    BY Zenon
  <2>1. CASE k \in s
    <3>1. g[s \ {k}] \in V
      BY <1>5
    <3>2. h[s] = step[<<g[s \ {k}], k>>]
      BY <2>1
    <3> QED BY <3>1, <3>2, <1>3
  <2>2. CASE k \notin s
    BY <1>5, <2>2
  <2> QED BY <2>1, <2>2
<1>7. h[{}] = base
  <2>1. {} \in SUBSET (1..k)
    OBVIOUS
  <2> QED BY <2>1, <1>4 DEF Solves
<1>8. ASSUME NEW s \in SUBSET (1..k), s # {}
      PROVE  h[s] = step[<<h[s \ {Max(s)}], Max(s)>>]
  <2>1. Max(s) \in s /\ \A y \in s : y <= Max(s)
    <3>1. k \in Nat /\ s # {}
      BY <1>3, <1>8
    <3> QED BY <3>1, MaxIs, Zenon
  <2>2. CASE k \in s
    <3>1. Max(s) = k
      <4>1. Max(s) \in 1..k
        BY <2>1
      <4> QED BY <2>1, <2>2, <4>1
    <3>2. s \ {k} \in SUBSET (1..k) /\ k \notin s \ {k}
      OBVIOUS
    <3>3. h[s \ {k}] = g[s \ {k}]
      BY <3>2
    <3>4. h[s] = step[<<g[s \ {k}], k>>]
      BY <2>2
    <3> HIDE DEF h
    <3> QED BY <3>1, <3>3, <3>4
  <2>3. CASE k \notin s
    <3>1. s \in SUBSET (1..(k - 1))
      BY <1>5, <2>3
    <3>2. s \ {Max(s)} \in SUBSET (1..k) /\ k \notin s \ {Max(s)}
      BY <2>3
    <3>3. h[s] = g[s] /\ h[s \ {Max(s)}] = g[s \ {Max(s)}]
      BY <2>3, <3>2
    <3>4. g[s] = step[<<g[s \ {Max(s)}], Max(s)>>]
      BY <1>4, <3>1, <1>8 DEF Solves
    <3> HIDE DEF h
    <3> QED BY <3>3, <3>4
  <2> QED BY <2>2, <2>3
<1>9. Solves(h, base, step, k)
  <2> HIDE DEF h
  <2> QED BY <1>7, <1>8 DEF Solves
<1>10. Good(k)
  BY <1>6, <1>9
<1> QED BY <1>1, <1>10

-----------------------------------------------------------------------------
(***************************************************************************)
(* Keys: the lists the server makes of what it was told.                   *)
(***************************************************************************)
\* One step of _parse_keys.
Keep(out, part) == IF part = Off \/ Contains(out, part) THEN out ELSE Append(out, part)

LEMMA KeepFacts ==
  ASSUME NEW out \in Seq(Keys), NEW part \in Keys \cup {Off}
  PROVE  /\ Keep(out, part) \in Seq(Keys)
         /\ IsInjective(out) => IsInjective(Keep(out, part))
         /\ \A x \in Keys : Contains(Keep(out, part), x) <=> Contains(out, x) \/ x = part
<1>1. CASE part = Off \/ Contains(out, part)
  <2>1. Keep(out, part) = out
    BY <1>1 DEF Keep
  <2>2. \A x \in Keys : x = part => Contains(out, x)
    BY <1>1, KeysAssumption
  <2> QED BY <2>1, <2>2
<1>2. CASE ~ (part = Off \/ Contains(out, part))
  <2>1. part \in Keys /\ Keep(out, part) = Append(out, part)
    BY <1>2 DEF Keep
  <2> DEFINE longer == Append(out, part)
  <2>2. /\ longer \in Seq(Keys) /\ Len(longer) = Len(out) + 1 /\ Len(out) \in Nat
        /\ longer[Len(out) + 1] = part /\ \A i \in 1..Len(out) : longer[i] = out[i]
    BY <2>1
  <2> HIDE DEF longer
  <2>3. \A i \in 1..Len(out) : out[i] # part
    BY <1>2 DEF Contains
  <2>4. 1..Len(longer) = (1..Len(out)) \cup {Len(out) + 1} /\ Len(out) + 1 \notin 1..Len(out)
    BY <2>2
  <2>5. IsInjective(out) => IsInjective(longer)
    <3>1. DOMAIN out = 1..Len(out) /\ DOMAIN longer = 1..Len(longer)
      BY <2>2
    <3> SUFFICES ASSUME IsInjective(out), NEW i \in DOMAIN longer, NEW j \in DOMAIN longer,
                        longer[i] = longer[j]
                 PROVE  i = j
      BY DEF IsInjective
    <3> QED BY <2>2, <2>3, <2>4, <3>1 DEF IsInjective
  <2>6. \A x \in Keys : Contains(longer, x) <=> Contains(out, x) \/ x = part
    BY <2>2, <2>4 DEF Contains
  <2> QED BY <2>1, <2>2, <2>5, <2>6 DEF longer
<1> QED BY <1>1, <1>2

\* The fold that ParseKeys is.
Iterates(it, q) ==
  it = [s \in SUBSET DOMAIN q |-> IF s = {} THEN <<>> ELSE Keep(it[s \ {Max(s)}], q[Max(s)])]

LEMMA ParseKeysIs ==
  ASSUME NEW a, NEW b, NEW q, q = Parts(a) \o Parts(b)
  PROVE  ParseKeys(a, b) = (CHOOSE it : Iterates(it, q))[DOMAIN q]
BY Zenon DEF ParseKeys, FoldLeft, MapThenFoldSet, Keep, Iterates

LEMMA KeysFolded ==
  ASSUME NEW q \in Seq(Keys \cup {Off}), NEW it, it = CHOOSE f : Iterates(f, q)
  PROVE  /\ it[DOMAIN q] \in Seq(Keys)
         /\ IsInjective(it[DOMAIN q])
         /\ \A x \in Keys : Contains(it[DOMAIN q], x) <=> Contains(q, x)
<1> DEFINE n == Len(q)
<1>1. n \in Nat /\ DOMAIN q = 1..n /\ \A i \in 1..n : q[i] \in Keys \cup {Off}
  OBVIOUS
<1> HIDE DEF n
<1> DEFINE step == [p \in Seq(Keys) \X (1..n) |-> Keep(p[1], q[p[2]])]
<1>2. /\ step \in [Seq(Keys) \X (1..n) -> Seq(Keys)]
      /\ \A out \in Seq(Keys), i \in 1..n : step[<<out, i>>] = Keep(out, q[i])
  <2>1. ASSUME NEW p \in Seq(Keys) \X (1..n) PROVE Keep(p[1], q[p[2]]) \in Seq(Keys)
    <3>1. p[1] \in Seq(Keys) /\ q[p[2]] \in Keys \cup {Off}
      BY <1>1
    <3> QED BY <3>1, KeepFacts
  <2> QED BY <2>1
<1> HIDE DEF step
<1>3. PICK f \in [SUBSET (1..n) -> Seq(Keys)] : Solves(f, <<>>, step, n)
  BY <1>1, <1>2, Solvable, <<>> \in Seq(Keys)
<1>4. Iterates(f, q)
  <2> SUFFICES ASSUME NEW s \in SUBSET (1..n)
               PROVE  f[s] = IF s = {} THEN <<>> ELSE Keep(f[s \ {Max(s)}], q[Max(s)])
    BY <1>1, <1>3, Zenon DEF Iterates
  <2>1. CASE s = {}
    BY <2>1, <1>3 DEF Solves
  <2>2. CASE s # {}
    <3>1. f[s] = step[<<f[s \ {Max(s)}], Max(s)>>]
      BY <2>2, <1>3 DEF Solves
    <3>2. Max(s) \in 1..n
      BY <2>2, <1>1, MaxIs
    <3>3. f[s \ {Max(s)}] \in Seq(Keys)
      BY <1>3
    <3> QED BY <3>1, <3>2, <3>3, <1>2, <2>2
  <2> QED BY <2>1, <2>2
<1>5. Iterates(it, q)
  BY <1>4, Zenon
<1>6. it[{}] = <<>> /\ \A k \in 1..n : it[1..k] = Keep(it[1..(k - 1)], q[k])
  <2>1. \A s \in SUBSET (1..n) : it[s] = IF s = {} THEN <<>> ELSE Keep(it[s \ {Max(s)}], q[Max(s)])
    BY <1>1, <1>5, Zenon DEF Iterates
  <2>2. it[{}] = <<>>
    BY <2>1, {} \in SUBSET (1..n)
  <2>3. ASSUME NEW k \in 1..n PROVE it[1..k] = Keep(it[1..(k - 1)], q[k])
    <3>0. k \in Nat /\ k >= 1 /\ k <= n
      BY <1>1
    <3>a. k \in 1..k
      BY <3>0
    <3>b. \A i \in 1..k : i \in 1..n
      BY <1>1, <3>0
    <3>1. 1..k \in SUBSET (1..n) /\ 1..k # {} /\ k \in 1..k /\ k \in Nat
      BY <3>0, <3>a, <3>b
    <3>2. Max(1..k) \in 1..k /\ k <= Max(1..k)
      BY <3>1, MaxIs
    <3>3. Max(1..k) = k
      BY <3>2
    <3>4. (1..k) \ {k} = 1..(k - 1)
      BY <3>1
    <3> QED BY <2>1, <3>1, <3>3, <3>4
  <2> QED BY <2>2, <2>3
<1> DEFINE Right(k) == /\ it[1..k] \in Seq(Keys) /\ IsInjective(it[1..k])
                       /\ \A x \in Keys : Contains(it[1..k], x) <=> \E i \in 1..k : q[i] = x
           Wrong == {k \in 0..n : ~ Right(k)}
<1>7. Right(0)
  <2>1. 1..0 = {}
    OBVIOUS
  <2>2. it[1..0] = <<>>
    BY <2>1, <1>6
  <2>3. <<>> \in Seq(Keys) /\ IsInjective(<<>>) /\ \A x : ~ Contains(<<>>, x)
    BY DEF IsInjective, Contains
  <2> QED BY <2>1, <2>2, <2>3
<1>8. ASSUME NEW k \in 1..n, Right(k - 1) PROVE Right(k)
  <2> DEFINE before == it[1..(k - 1)]
             after  == it[1..k]
  <2>1. /\ before \in Seq(Keys) /\ IsInjective(before)
        /\ \A x \in Keys : Contains(before, x) <=> \E i \in 1..(k - 1) : q[i] = x
    BY <1>8
  <2>2. after = Keep(before, q[k])
    BY <1>6
  <2>3. q[k] \in Keys \cup {Off}
    BY <1>1
  <2> HIDE DEF before, after
  <2>4. /\ after \in Seq(Keys) /\ IsInjective(after)
        /\ \A x \in Keys : Contains(after, x) <=> Contains(before, x) \/ x = q[k]
    BY <2>1, <2>2, <2>3, KeepFacts
  <2>5. 1..k = (1..(k - 1)) \cup {k}
    BY <1>1
  <2>6. \A x \in Keys : Contains(after, x) <=> \E i \in 1..k : q[i] = x
    BY <2>1, <2>4, <2>5
  <2> QED BY <2>4, <2>6 DEF after
<1>9. Right(n)
  <2> HIDE DEF Right
  <2> SUFFICES ASSUME Wrong # {} PROVE FALSE
    BY <1>1
  <2>1. Wrong \in SUBSET Nat
    BY <1>1
  <2>2. PICK k \in Wrong : \A m \in Wrong : k <= m
    BY <2>1, Smallest
  <2>3. k \in 1..n /\ k - 1 \in 0..n /\ k - 1 \notin Wrong
    BY <1>1, <1>7, <2>2
  <2> QED BY <1>8, <2>2, <2>3
<1> QED BY <1>1, <1>9 DEF Contains, n

\* What a variable says is a list of parts.
LEMMA PartsType ==
  ASSUME NEW a \in Values \cup {None}
  PROVE  Parts(a) \in Seq(Keys \cup {Off})
BY ValuesAssumption DEF Parts

LEMMA ParseKeysFacts ==
  ASSUME NEW a \in Values \cup {None}, NEW b \in Values \cup {None}
  PROVE  /\ ParseKeys(a, b) \in Seq(Keys)
         /\ IsInjective(ParseKeys(a, b))
         /\ \A x \in Keys : Contains(ParseKeys(a, b), x)
                              <=> Contains(Parts(a), x) \/ Contains(Parts(b), x)
<1> DEFINE q == Parts(a) \o Parts(b)
           it == CHOOSE f : Iterates(f, q)
<1>1. Parts(a) \in Seq(Keys \cup {Off}) /\ Parts(b) \in Seq(Keys \cup {Off})
  BY PartsType
<1>2. q \in Seq(Keys \cup {Off})
  BY <1>1
<1>3. \A x \in Keys : Contains(q, x) <=> Contains(Parts(a), x) \/ Contains(Parts(b), x)
  <2> DEFINE m == Len(Parts(a))  n == Len(Parts(b))
  <2>1. /\ Len(q) = m + n /\ m \in Nat /\ n \in Nat
        /\ \A i \in 1..m : q[i] = Parts(a)[i] /\ i \in 1..Len(q)
        /\ \A i \in 1..n : q[m + i] = Parts(b)[i] /\ m + i \in 1..Len(q)
    BY <1>1
  <2>2. \A i \in 1..Len(q) : i \in 1..m \/ (i - m \in 1..n /\ i = m + (i - m))
    BY <2>1
  <2> HIDE DEF q
  <2>3. ASSUME NEW x \in Keys, Contains(q, x)
        PROVE  Contains(Parts(a), x) \/ Contains(Parts(b), x)
    <3>1. PICK i \in 1..Len(q) : q[i] = x
      BY <2>3 DEF Contains
    <3>2. CASE i \in 1..m
      BY <2>1, <3>1, <3>2 DEF Contains
    <3>3. CASE i - m \in 1..n /\ i = m + (i - m)
      <4>1. q[m + (i - m)] = Parts(b)[i - m]
        BY <2>1, <3>3
      <4>2. Parts(b)[i - m] = x
        BY <4>1, <3>1, <3>3
      <4> QED BY <4>2, <3>3, Zenon DEF Contains
    <3> QED BY <2>2, <3>2, <3>3
  <2>4. \A x \in Keys : Contains(Parts(a), x) => Contains(q, x)
    BY <2>1 DEF Contains
  <2>5. \A x \in Keys : Contains(Parts(b), x) => Contains(q, x)
    BY <2>1 DEF Contains
  <2> QED BY <2>3, <2>4, <2>5
<1>4. ParseKeys(a, b) = it[DOMAIN q]
  BY ParseKeysIs, Zenon
<1> HIDE DEF q
<1>5. /\ it[DOMAIN q] \in Seq(Keys) /\ IsInjective(it[DOMAIN q])
      /\ \A x \in Keys : Contains(it[DOMAIN q], x) <=> Contains(q, x)
  <2> HIDE DEF it
  <2>1. it = CHOOSE f : Iterates(f, q)
    BY DEF it
  <2> QED BY <1>2, <2>1, KeysFolded
<1> QED BY <1>3, <1>4, <1>5

-----------------------------------------------------------------------------
(***************************************************************************)
(* Keys: what is compared with them.                                       *)
(***************************************************************************)
\* The first key that ends the comparison decides it.
LEMMA FirstStop ==
  ASSUME NEW keys \in Seq(Keys), NEW k \in Keys,
         NEW stops, stops = {i \in DOMAIN keys : keys[i] = k \/ {keys[i], k} \ Ascii # {}}
  PROVE  /\ stops = {} => SafeCompareAny(k, keys) = "refused"
         /\ stops # {} => \E c \in stops :
              SafeCompareAny(k, keys) = IF {keys[c], k} \ Ascii # {} THEN "raises" ELSE "in"
<1>1. k # None
  BY KeysAssumption
<1>2. CASE stops = {}
  BY <1>1, <1>2, Zenon DEF SafeCompareAny
<1>3. CASE stops # {}
  <2> DEFINE c == CHOOSE i \in stops : \A j \in stops : i <= j
  <2>1. \E i \in stops : \A j \in stops : i <= j
    <3>1. stops \in SUBSET Nat
      OBVIOUS
    <3> QED BY <3>1, <1>3, Smallest
  <2>2. c \in stops
    BY <2>1, Zenon
  <2>3. SafeCompareAny(k, keys) = IF {keys[c], k} \ Ascii # {} THEN "raises" ELSE "in"
    BY <1>1, <1>3, Zenon DEF SafeCompareAny
  <2> HIDE DEF c
  <2> QED BY <2>2, <2>3, <1>3
<1> QED BY <1>2, <1>3

\* Keys that are all ASCII let in who offers one of them.
LEMMA AmongThem ==
  ASSUME NEW keys \in Seq(Keys), NEW k \in Keys, \A i \in DOMAIN keys : keys[i] \in Ascii
  PROVE  SafeCompareAny(k, keys) = "in" <=> Contains(keys, k)
<1> DEFINE stops == {i \in DOMAIN keys : keys[i] = k \/ {keys[i], k} \ Ascii # {}}
<1>1. DOMAIN keys = 1..Len(keys)
  OBVIOUS
<1>2. CASE stops = {}
  <2>1. ~ Contains(keys, k)
    BY <1>1, <1>2 DEF Contains
  <2>2. SafeCompareAny(k, keys) = "refused"
    BY <1>2, FirstStop
  <2> QED BY <2>1, <2>2
<1>3. CASE stops # {}
  <2>1. PICK c \in stops :
          SafeCompareAny(k, keys) = IF {keys[c], k} \ Ascii # {} THEN "raises" ELSE "in"
    BY <1>3, FirstStop
  <2>2. CASE k \in Ascii
    <3>1. keys[c] = k
      BY <2>2
    <3>2. Contains(keys, k)
      BY <3>1, <1>1 DEF Contains
    <3>3. SafeCompareAny(k, keys) = "in"
      BY <2>1, <2>2, <3>1
    <3> QED BY <3>2, <3>3
  <2>3. CASE k \notin Ascii
    <3>1. SafeCompareAny(k, keys) = "raises"
      BY <2>1, <2>3
    <3>2. ~ Contains(keys, k)
      BY <2>3, <1>1 DEF Contains
    <3> QED BY <3>1, <3>2
  <2> QED BY <2>2, <2>3
<1> QED BY <1>2, <1>3

\* A zone with such keys is open to those who have one, and to all if there
\* is none.
LEMMA ZoneFacts ==
  ASSUME NEW keys \in Seq(Keys), NEW listed, listed = {k \in Keys : Contains(keys, k)}
  PROVE  /\ listed \subseteq Ascii => \A k \in Keys :
              Verify(keys, k, None) = "in" <=> listed = {} \/ k \in listed
         /\ listed # {} => Verify(keys, None, None) = "refused"
<1>1. DOMAIN keys = 1..Len(keys) /\ \A i \in DOMAIN keys : keys[i] \in listed
  BY DEF Contains
<1>2. listed = {} <=> keys = <<>>
  <2>1. keys = <<>> => listed = {}
    BY DEF Contains
  <2>2. keys # <<>> => 1 \in DOMAIN keys
    OBVIOUS
  <2> QED BY <2>1, <2>2, <1>1
<1>3. ASSUME listed \subseteq Ascii, NEW k \in Keys
      PROVE  Verify(keys, k, None) = "in" <=> listed = {} \/ k \in listed
  <2>1. CASE keys = <<>>
    BY <2>1, <1>2 DEF Verify
  <2>2. CASE keys # <<>>
    <3>1. k # None
      BY KeysAssumption
    <3>2. Verify(keys, k, None) = SafeCompareAny(k, keys)
      BY <2>2, <3>1 DEF Verify
    <3>3. \A i \in DOMAIN keys : keys[i] \in Ascii
      BY <1>1, <1>3
    <3>4. SafeCompareAny(k, keys) = "in" <=> Contains(keys, k)
      BY <3>3, AmongThem
    <3> QED BY <3>2, <3>4, <1>2, <2>2
  <2> QED BY <2>1, <2>2
<1>4. listed # {} => Verify(keys, None, None) = "refused"
  BY <1>2 DEF Verify, SafeCompareAny
<1> QED BY <1>3, <1>4

\* The two zones of a configuration have the keys of its environment.
LEMMA ConfigFacts ==
  ASSUME NEW env \in Environments
  PROVE  /\ \A zone \in {"api_keys", "admin_keys"} :
              LoadAuthConfig(env)[zone] \in Seq(Keys) /\ IsInjective(LoadAuthConfig(env)[zone])
         /\ ApiListed(env) = {k \in Keys : Contains(LoadAuthConfig(env).api_keys, k)}
         /\ AdminListed(env) = {k \in Keys : Contains(LoadAuthConfig(env).admin_keys, k)}
<1> DEFINE single == IF env["ADMIN_KEY"] = None THEN "API_KEY" ELSE "ADMIN_KEY"
<1>1. /\ \A v \in Variables : env[v] \in Values \cup {None}
      /\ {"API_KEY", "API_KEYS", "ADMIN_KEYS", single} \subseteq Variables
  BY DEF Environments, Variables
<1>2. LoadAuthConfig(env).api_keys = ParseKeys(env["API_KEY"], env["API_KEYS"])
  BY DEF LoadAuthConfig
<1>3. LoadAuthConfig(env).admin_keys = ParseKeys(env[single], env["ADMIN_KEYS"])
  BY DEF LoadAuthConfig
<1> HIDE DEF single
<1>4. \A k \in Keys : k \in ApiListed(env) <=> Contains(LoadAuthConfig(env).api_keys, k)
  <2>1. \A k \in Keys : Contains(LoadAuthConfig(env).api_keys, k)
          <=> Contains(Parts(env["API_KEY"]), k) \/ Contains(Parts(env["API_KEYS"]), k)
    BY <1>1, <1>2, ParseKeysFacts
  <2> QED BY <2>1 DEF ApiListed, Listed
<1>5. \A k \in Keys : k \in AdminListed(env) <=> Contains(LoadAuthConfig(env).admin_keys, k)
  <2>1. \A k \in Keys : Contains(LoadAuthConfig(env).admin_keys, k)
          <=> Contains(Parts(env[single]), k) \/ Contains(Parts(env["ADMIN_KEYS"]), k)
    BY <1>1, <1>3, ParseKeysFacts
  <2>2. AdminListed(env) = Listed(env, {"ADMIN_KEYS", single})
    BY DEF AdminListed, single
  <2> QED BY <2>1, <2>2 DEF Listed
<1>6. ApiListed(env) \subseteq Keys /\ AdminListed(env) \subseteq Keys
  BY DEF ApiListed, AdminListed, Listed
<1>7. \A zone \in {"api_keys", "admin_keys"} :
        LoadAuthConfig(env)[zone] \in Seq(Keys) /\ IsInjective(LoadAuthConfig(env)[zone])
  BY <1>1, <1>2, <1>3, ParseKeysFacts
<1> QED BY <1>4, <1>5, <1>6, <1>7

-----------------------------------------------------------------------------
(***************************************************************************)
(* Access: the invariant.                                                  *)
(***************************************************************************)
\* The server has checked with what it read when it was launched; of that, the
\* file set what it could when the GUI launched it; and the cookie it set would
\* be set again.
ConfigRead == config = LoadAuthConfig(read)
FileWins   == running /\ byGui => \A v \in Variables : launch[v] # None => read[v] = launch[v]
LetIn      == granted => CheckAdminLogin(cookie) = "in"

AccessInv == AccessTypeOK /\ ConfigRead /\ FileWins /\ LetIn

LEMMA UnsetType == Unset \in Environments
BY DEF Unset, Environments

LEMMA AccessStarts == AccessInit => AccessInv
<1> SUFFICES ASSUME AccessInit PROVE AccessInv
  OBVIOUS
<1> USE DEF AccessInit
<1>1. AccessTypeOK
  <2>1. {file, read, launch, shell, gui} \subseteq Environments
    BY UnsetType, ShellsAssumption
  <2>2. \A zone \in {"api_keys", "admin_keys"} :
          config[zone] \in Seq(Keys) /\ IsInjective(config[zone])
    BY UnsetType, ConfigFacts
  <2> QED BY <2>1, <2>2 DEF AccessTypeOK
<1>2. ConfigRead /\ FileWins /\ LetIn
  BY DEF ConfigRead, FileWins, LetIn
<1> QED BY <1>1, <1>2 DEF AccessInv

\* A server that starts with an environment.
LEMMA RunsKeeps ==
  ASSUME AccessInv, NEW env \in Environments, Runs(env),
         gui' \in Environments, byGui' \in BOOLEAN,
         byGui' => \A v \in Variables : file[v] # None => env[v] = file[v]
  PROVE  AccessInv'
<1>1. AccessTypeOK'
  <2>1. {file, read, launch, shell, gui}' \subseteq Environments
    BY DEF AccessInv, AccessTypeOK, Runs
  <2>2. \A zone \in {"api_keys", "admin_keys"} :
          config'[zone] \in Seq(Keys) /\ IsInjective(config'[zone])
    BY ConfigFacts DEF Runs
  <2>3. cookie' \in Keys \cup {None} /\ {running, byGui, granted}' \subseteq BOOLEAN /\ ~ granted'
    BY DEF AccessInv, AccessTypeOK, Runs
  <2> QED BY <2>1, <2>2, <2>3 DEF AccessTypeOK
<1>2. ConfigRead' /\ FileWins' /\ LetIn'
  BY DEF ConfigRead, FileWins, LetIn, Runs
<1> QED BY <1>1, <1>2 DEF AccessInv

LEMMA AccessKept == AccessInv /\ [AccessNext]_accessVars => AccessInv'
<1> SUFFICES ASSUME AccessInv, [AccessNext]_accessVars PROVE AccessInv'
  OBVIOUS
<1> USE DEF AccessInv
<1>1. CASE LaunchByHand
  <2>1. shell \in Environments /\ gui' \in Environments
    BY <1>1 DEF LaunchByHand, AccessTypeOK
  <2>2. Runs(shell) /\ byGui' = FALSE
    BY <1>1 DEF LaunchByHand
  <2> HIDE DEF AccessInv
  <2> QED BY <2>1, <2>2, RunsKeeps
<1>2. CASE LaunchByGui
  <2>1. LoadDotenv(gui) \in Environments
    BY DEF LoadDotenv, Environments, AccessTypeOK
  <2>2. \A v \in Variables : file[v] # None => LoadDotenv(gui)[v] = file[v]
    BY DEF LoadDotenv
  <2>3. Runs(LoadDotenv(gui)) /\ gui' = LoadDotenv(gui) /\ byGui' = TRUE
    BY <1>2 DEF LaunchByGui
  <2> HIDE DEF AccessInv
  <2> QED BY <2>1, <2>2, <2>3, RunsKeeps
<1>3. CASE Stop
  BY <1>3 DEF Stop, AccessTypeOK, ConfigRead, FileWins, LetIn
<1>4. CASE CookieGone
  BY <1>4 DEF CookieGone, AccessTypeOK, ConfigRead, FileWins, LetIn
<1>5. ASSUME NEW v \in Edited, NEW value \in Values \cup {None}, EditFile(v, value) PROVE AccessInv'
  <2>1. file' \in Environments
    BY <1>5, EditedAssumption DEF EditFile, AccessTypeOK, Environments
  <2>2. AccessTypeOK'
    BY <1>5, <2>1 DEF EditFile, AccessTypeOK
  <2>3. ConfigRead' /\ FileWins' /\ LetIn'
    BY <1>5 DEF EditFile, ConfigRead, FileWins, LetIn, CheckAdminLogin
  <2> QED BY <2>2, <2>3
<1>6. ASSUME NEW key \in Keys, WebLogin(key) PROVE AccessInv'
  <2>1. AccessTypeOK'
    BY <1>6, KeysAssumption DEF WebLogin, AccessTypeOK
  <2>2. ConfigRead' /\ FileWins'
    BY <1>6 DEF WebLogin, ConfigRead, FileWins
  <2>3. LetIn'
    BY <1>6 DEF WebLogin, LetIn, CheckAdminLogin
  <2> QED BY <2>1, <2>2, <2>3
<1>7. CASE UNCHANGED accessVars
  BY <1>7 DEF accessVars, AccessTypeOK, ConfigRead, FileWins, LetIn, CheckAdminLogin
<1> QED BY <1>1, <1>2, <1>3, <1>4, <1>5, <1>6, <1>7 DEF AccessNext

THEOREM AccessInvariant == AccessSpec => []AccessInv
BY AccessStarts, AccessKept, PTL DEF AccessSpec

\* Whatever was edited, launched, stopped and logged in, the lists of keys that
\* a server checks with name each of its keys once (AccessTypeOK).
THEOREM AccessTypeCorrect == AccessSpec => []AccessTypeOK
<1>1. AccessInv => AccessTypeOK
  BY DEF AccessInv
<1> QED BY <1>1, AccessInvariant, PTL

\* What is checked with is what was read.
LEMMA ZonesHave ==
  ASSUME AccessInv
  PROVE  /\ config.api_keys \in Seq(Keys) /\ config.admin_keys \in Seq(Keys)
         /\ ApiListed(read) = {k \in Keys : Contains(config.api_keys, k)}
         /\ AdminListed(read) = {k \in Keys : Contains(config.admin_keys, k)}
<1>1. read \in Environments /\ config = LoadAuthConfig(read)
  BY DEF AccessInv, AccessTypeOK, ConfigRead
<1> QED BY <1>1, ConfigFacts

\* A zone lets in exactly those who offer one of the keys that its server was
\* told, and everybody when it was told none, whatever the number of keys and
\* however they are divided between the two variables (ListedEnter).
THEOREM ListedEnterHolds == AccessSpec => []ListedEnter
<1>1. AccessInv => ListedEnter
  BY ZonesHave, ZoneFacts DEF ListedEnter, VerifyApiKey, VerifyAdminKey
<1> QED BY <1>1, AccessInvariant, PTL

\* Who has logged in stays in until the cookie goes or the server stops
\* (LoginHolds).
THEOREM LoginHoldsAlways == AccessSpec => []LoginHolds
<1>1. AccessInv => LoginHolds
  BY DEF AccessInv, LetIn, LoginHolds, CheckAdminLogin, VerifyAdminKey, Verify
<1> QED BY <1>1, AccessInvariant, PTL

\* Keys put into .env are in force once the GUI has started the server, whatever
\* it and its servers had been launched with before (FileInForce).
THEOREM FileInForceHolds == AccessSpec => []FileInForce
<1>1. AccessInv => FileInForce
  <2> SUFFICES ASSUME AccessInv, running, byGui PROVE FileInForce
    BY DEF FileInForce
  <2> DEFINE admin == Listed(launch, {"ADMIN_KEY", "ADMIN_KEYS"})
  <2>1. /\ \A v \in Variables : launch[v] # None => read[v] = launch[v]
        /\ \A v \in Variables : launch[v] \in Values \cup {None}
    BY DEF AccessInv, FileWins, AccessTypeOK, Environments
  <2>2. ASSUME NEW v \in Variables, NEW k \in Keys, Contains(Parts(launch[v]), k)
        PROVE  launch[v] # None /\ read[v] = launch[v]
    BY <2>1, <2>2 DEF Parts, Contains
  <2>3. ApiListed(launch) \subseteq ApiListed(read)
    BY <2>2 DEF ApiListed, Listed, Variables
  <2>4. admin \subseteq AdminListed(read)
    BY <2>2 DEF AdminListed, Listed, Variables
  <2>5. ApiListed(launch) \subseteq Keys /\ admin \subseteq Keys
    BY DEF ApiListed, Listed
  <2>6. /\ ApiListed(launch) # {} => VerifyApiKey(None, None) = "refused"
        /\ ApiListed(read) \subseteq Ascii =>
             \A k \in ApiListed(launch) : VerifyApiKey(k, None) = "in"
    <3> DEFINE listed == ApiListed(read)
    <3>1. /\ listed \subseteq Ascii => \A k \in Keys :
               Verify(config.api_keys, k, None) = "in" <=> listed = {} \/ k \in listed
          /\ listed # {} => Verify(config.api_keys, None, None) = "refused"
      BY ZonesHave, ZoneFacts
    <3> QED BY <3>1, <2>3, <2>5 DEF VerifyApiKey
  <2>7. /\ admin # {} => VerifyAdminKey(None, None) = "refused"
        /\ AdminListed(read) \subseteq Ascii =>
             \A k \in admin : VerifyAdminKey(k, None) = "in"
    <3> DEFINE listed == AdminListed(read)
    <3>1. /\ listed \subseteq Ascii => \A k \in Keys :
               Verify(config.admin_keys, k, None) = "in" <=> listed = {} \/ k \in listed
          /\ listed # {} => Verify(config.admin_keys, None, None) = "refused"
      BY ZonesHave, ZoneFacts
    <3> QED BY <3>1, <2>4, <2>5 DEF VerifyAdminKey
  <2> QED BY <2>6, <2>7 DEF FileInForce
<1> QED BY <1>1, AccessInvariant, PTL
=============================================================================
