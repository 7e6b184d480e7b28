--------------------------- MODULE UsageLogProofs ---------------------------
(***************************************************************************)
(* Proofs about UsageLog, for any accounts, sizes of the log, spans and    *)
(* movements of the clock: no report invents a success, and the minutes    *)
(* that lie wholly within a span are reported exactly.                     *)
(*                                                                         *)
(* The reports are sums over the accounts; that a sum of counters is the   *)
(* size of the set they count is SumIs with KeyedSplit, one account at a   *)
(* time.                                                                   *)
(***************************************************************************)
EXTENDS UsageLog, FiniteSetTheorems, WellFoundedInduction, TLAPS

LEMMA Smallest ==
  ASSUME NEW T \in SUBSET Nat, T # {}
  PROVE  \E x \in T : \A y \in T : x <= y
<1>1. PICK x \in T : \A y \in T : ~ (<<y, x>> \in OpToRel(<, Nat))
  BY NatLessThanWellFounded, WFMin
<1>2. \A y \in T : ~ (y < x)
  BY <1>1 DEF OpToRel
<1> QED BY <1>2

(***************************************************************************)
(* A sum over a finite domain is what any account of it, element by        *)
(* element, comes to.                                                      *)
(***************************************************************************)
Tallies(W, f, S) ==
  /\ W \in [SUBSET S -> Int]
  /\ W[{}] = 0
  /\ \A s \in SUBSET S : \A x \in s : f[x] \in Int /\ W[s] = f[x] + W[s \ {x}]

LEMMA SumIs ==
  ASSUME NEW S, NEW f, NEW W, IsFiniteSet(S), DOMAIN f = S, Tallies(W, f, S)
  PROVE  SumFunction(f) = W[S]
<1>0. /\ W \in [SUBSET S -> Int] /\ W[{}] = 0
      /\ \A s \in SUBSET S : \A x \in s : f[x] \in Int /\ W[s] = f[x] + W[s \ {x}]
  BY DEF Tallies
<1> DEFINE Solves(it) ==
             it = [s \in SUBSET S |->
                     IF s = {} THEN 0
                     ELSE f[CHOOSE y \in s : TRUE] + it[s \ {CHOOSE y \in s : TRUE}]]
           iter == CHOOSE it : Solves(it)
<1>1. SumFunction(f) = iter[S]
  BY Zenon DEF SumFunction, SumFunctionOnSet, FoldFunctionOnSet, MapThenFoldSet
<1>2. Solves(W)
  <2> SUFFICES ASSUME NEW s \in SUBSET S
               PROVE  W[s] = IF s = {} THEN 0
                             ELSE f[CHOOSE y \in s : TRUE] + W[s \ {CHOOSE y \in s : TRUE}]
    BY <1>0
  <2>1. CASE s = {}
    BY <1>0, <2>1
  <2>2. CASE s # {}
    <3>1. (CHOOSE y \in s : TRUE) \in s
      BY <2>2
    <3> QED BY <1>0, <3>1, <2>2
  <2> QED BY <2>1, <2>2
<1>3. Solves(iter)
  <2> HIDE DEF Solves
  <2> QED BY <1>2, Zenon
<1> HIDE DEF iter
<1>4. ASSUME NEW s \in SUBSET S PROVE iter[s] = W[s]
  <2> DEFINE Bad == {t \in SUBSET S : iter[t] # W[t]}
             Sizes == {Cardinality(t) : t \in Bad}
  <2>1. \A t \in SUBSET S : IsFiniteSet(t) /\ Cardinality(t) \in Nat
    BY FS_Subset, FS_CardinalityType
  <2> SUFFICES ASSUME Bad # {} PROVE FALSE
    OBVIOUS
  <2>2. Sizes \in SUBSET Nat /\ Sizes # {}
    BY <2>1
  <2>3. PICK k \in Sizes : \A l \in Sizes : k <= l
    BY <2>2, Smallest
  <2>4. PICK t \in Bad : Cardinality(t) = k
    OBVIOUS
  <2>5. t # {}
    <3>1. iter[{}] = 0
      BY <1>3, {} \in SUBSET S
    <3> QED BY <1>0, <3>1
  <2> DEFINE x == CHOOSE y \in t : TRUE
  <2>6. x \in t
    BY <2>5
  <2>7. iter[t] = f[x] + iter[t \ {x}]
    BY <1>3, <2>5
  <2> HIDE DEF x
  <2>8. t \ {x} \in SUBSET S /\ Cardinality(t \ {x}) < k
    <3>1. IsFiniteSet(t) /\ Cardinality(t) \in Nat
      BY <2>1
    <3>2. Cardinality(t \ {x}) = Cardinality(t) - 1
      BY <3>1, <2>6, FS_RemoveElement
    <3> QED BY <3>1, <3>2, <2>4
  <2>9. iter[t \ {x}] = W[t \ {x}]
    <3> SUFFICES ASSUME t \ {x} \in Bad PROVE FALSE
      BY <2>8
    <3>1. Cardinality(t \ {x}) \in Sizes
      <4> DEFINE u == t \ {x}
      <4>1. u \in Bad
        OBVIOUS
      <4> HIDE DEF u, Bad
      <4>2. Cardinality(u) \in Sizes
        BY <4>1
      <4> QED BY <4>2 DEF u
    <3> HIDE DEF Sizes, Bad
    <3>2. k \in Nat /\ Cardinality(t \ {x}) \in Nat
      BY <3>1, <2>2, <2>3
    <3>3. k <= Cardinality(t \ {x})
      BY <3>1, <2>3
    <3> QED BY <3>2, <3>3, <2>8
  <2>10. W[t] = f[x] + W[t \ {x}]
    BY <1>0, <2>6
  <2> QED BY <2>7, <2>9, <2>10
<1> QED BY <1>1, <1>4

(***************************************************************************)
(* Minutes.                                                                *)
(***************************************************************************)
LEMMA MinuteBounds ==
  ASSUME NEW t \in Nat
  PROVE  /\ MinuteOf(t) \in Nat
         /\ MinuteOf(t) * Minute <= t
         /\ t < (MinuteOf(t) + 1) * Minute
  BY MinuteAssumption DEF MinuteOf

LEMMA Scaled ==
  ASSUME NEW a \in Int, NEW b \in Int, NEW d \in Nat \ {0}, a * d < b * d
  PROVE  a < b
  OBVIOUS

LEMMA MinuteIs ==
  ASSUME NEW t \in Nat, NEW m \in Int, m * Minute <= t, t < (m + 1) * Minute
  PROVE  MinuteOf(t) = m
<1> DEFINE q == MinuteOf(t)
<1>1. q \in Nat /\ q * Minute <= t /\ t < (q + 1) * Minute
  BY MinuteBounds
<1> HIDE DEF q
<1>m. Minute \in Nat \ {0}
  BY MinuteAssumption
<1>2. m * Minute \in Int /\ (m + 1) * Minute \in Int /\ q * Minute \in Int /\ (q + 1) * Minute \in Int
  BY <1>1, <1>m
<1>3. m * Minute < (q + 1) * Minute /\ q * Minute < (m + 1) * Minute
  BY <1>1, <1>2
<1>4. m < q + 1 /\ q < m + 1
  BY <1>3, <1>1, <1>m, Scaled, q + 1 \in Int, m + 1 \in Int
<1> QED BY <1>4, <1>1 DEF q

LEMMA MinuteMonotone ==
  ASSUME NEW s \in Nat, NEW t \in Nat, s <= t
  PROVE  MinuteOf(s) <= MinuteOf(t)
<1> DEFINE p == MinuteOf(s)
           q == MinuteOf(t)
<1>1. p \in Nat /\ q \in Nat /\ p * Minute <= s /\ t < (q + 1) * Minute
  BY MinuteBounds
<1> HIDE DEF p, q
<1>m. Minute \in Nat \ {0}
  BY MinuteAssumption
<1>2. p * Minute \in Int /\ (q + 1) * Minute \in Int
  BY <1>1, <1>m
<1>3. p * Minute < (q + 1) * Minute
  BY <1>1, <1>2
<1>4. p < q + 1
  BY <1>3, <1>1, <1>m, Scaled, q + 1 \in Int
<1> QED BY <1>4, <1>1 DEF p, q

LEMMA MinuteBack ==
  ASSUME NEW t \in Nat, NEW k \in Nat, k * Minute <= t
  PROVE  MinuteOf(t - k * Minute) = MinuteOf(t) - k
<1> DEFINE q == MinuteOf(t)
<1>1. q \in Nat /\ q * Minute <= t /\ t < (q + 1) * Minute
  BY MinuteBounds
<1> HIDE DEF q
<1>m. Minute \in Nat \ {0}
  BY MinuteAssumption
<1>2. (q - k) * Minute = q * Minute - k * Minute
  BY <1>1, <1>m
<1>3. ((q - k) + 1) * Minute = (q + 1) * Minute - k * Minute
  BY <1>1, <1>m
<1>4. k * Minute \in Nat /\ q * Minute \in Nat /\ (q + 1) * Minute \in Nat
  BY <1>1, <1>m
<1>5. (q - k) * Minute <= t - k * Minute /\ t - k * Minute < ((q - k) + 1) * Minute
  BY <1>1, <1>2, <1>3, <1>4
<1>6. MinuteOf(t - k * Minute) = q - k
  BY <1>5, <1>4, <1>1, MinuteIs, t - k * Minute \in Nat, q - k \in Int
<1> QED BY <1>6 DEF q

(***************************************************************************)
(* What the log is, beside its shape.                                      *)
(***************************************************************************)
Ticks == [ts : Nat, by_account : [Names -> Nat]]

Successes == [at : Nat, by : Names]

\* How many successes of account n there are among us in minute m.
Count(us, m, n) == Cardinality({i \in DOMAIN us : MinuteOf(us[i].at) = m /\ us[i].by = n})

\* What bucket i counts of account n.
Held(log, i, n) == log[i].by_account[n]

\* No bucket counts more successes of an account than its minute saw.
Covered(log, us) ==
  \A i \in DOMAIN log, n \in Names : Held(log, i, n) <= Count(us, log[i].ts, n)

\* Every bucket counts what its minute saw.
Exact(log, us) ==
  \A i \in DOMAIN log, n \in Names : Held(log, i, n) = Count(us, log[i].ts, n)

\* The buckets are of minutes that have come, each of a later one than the last.
Orderly(log, t) ==
  /\ \A i \in DOMAIN log : log[i].ts <= MinuteOf(t)
  /\ \A i, j \in DOMAIN log : i <= j => log[j].ts - log[i].ts >= j - i

\* A success has a bucket, or the log is full of buckets of later minutes.
Complete(log, us) ==
  \A k \in DOMAIN us :
    \/ \E i \in DOMAIN log : log[i].ts = MinuteOf(us[k].at)
    \/ Len(log) >= LogSize /\ MinuteOf(us[k].at) < log[1].ts

Past(us, t) == \A k \in DOMAIN us : us[k].at <= t

IInv ==
  /\ TypeOK
  /\ now >= Start - back * Minute
  /\ Covered(usage_log, uses)
  /\ back = 0 => /\ Past(uses, now)
                 /\ Orderly(usage_log, now)
                 /\ Complete(usage_log, uses)
                 /\ Exact(usage_log, uses)

\* One more success.
Noted(us, t, a) == Append(us, [at |-> t, by |-> a])

LEMMA CountAppend ==
  ASSUME NEW m, NEW n,
         NEW us \in Seq(Successes), NEW t \in Nat, NEW a \in Names
  PROVE  /\ Count(us, m, n) \in Nat
         /\ m = MinuteOf(t) /\ n = a => Count(Noted(us, t, a), m, n) = Count(us, m, n) + 1
         /\ ~ (m = MinuteOf(t) /\ n = a) => Count(Noted(us, t, a), m, n) = Count(us, m, n)
<1> DEFINE new == Noted(us, t, a)
           old == {i \in DOMAIN us : MinuteOf(us[i].at) = m /\ us[i].by = n}
           k == Len(us) + 1
<1>1. DOMAIN us = 1..Len(us) /\ Len(us) \in Nat /\ DOMAIN new = 1..k
  BY DEF Noted
<1>2. \A i \in 1..Len(us) : new[i] = us[i]
  BY DEF Noted
<1>3. new[k].at = t /\ new[k].by = a
  BY DEF Noted
<1>4. IsFiniteSet(old) /\ Cardinality(old) \in Nat
  BY <1>1, FS_Interval, FS_Subset, FS_CardinalityType, old \in SUBSET (1..Len(us)), 1 \in Int,
     Len(us) \in Int
<1>5. k \notin old
  BY <1>1
<1> HIDE DEF new
<1>6. {i \in DOMAIN new : MinuteOf(new[i].at) = m /\ new[i].by = n} =
        IF m = MinuteOf(t) /\ n = a THEN old \cup {k} ELSE old
  <2>1. \A i : i \in 1..k <=> i \in 1..Len(us) \/ i = k
    BY <1>1
  <2> QED BY <2>1, <1>1, <1>2, <1>3
<1>7. Count(new, m, n) = Cardinality(IF m = MinuteOf(t) /\ n = a THEN old \cup {k} ELSE old)
  BY <1>6 DEF Count
<1>8. Cardinality(old \cup {k}) = Cardinality(old) + 1
  BY <1>4, <1>5, FS_AddElement
<1>9. Count(us, m, n) = Cardinality(old)
  BY DEF Count
<1> QED BY <1>7, <1>8, <1>9, <1>4 DEF new

LEMMA SawIsCount ==
  \A m, n : Saw(m, n) = Count(uses, m, n)
BY DEF Saw, Count

LEMMA CountNat ==
  ASSUME NEW us \in Seq(Successes), NEW m, NEW n
  PROVE  Count(us, m, n) \in Nat
<1>1. CASE Names # {}
  <2>1. PICK a \in Names : TRUE
    BY <1>1
  <2> QED BY <2>1, CountAppend, 0 \in Nat
<1>2. CASE Names = {}
  <2>1. {i \in DOMAIN us : MinuteOf(us[i].at) = m /\ us[i].by = n} = {}
    <3>1. \A i \in DOMAIN us : us[i] \in Successes
      OBVIOUS
    <3>2. Successes = {}
      BY <1>2 DEF Successes
    <3> QED BY <3>1, <3>2
  <2>2. Count(us, m, n) = Cardinality({})
    BY <2>1 DEF Count
  <2> QED BY <2>2, FS_EmptySet
<1> QED BY <1>1, <1>2

LEMMA Shape ==
  ASSUME TypeOK
  PROVE  /\ usage_log \in Seq(Ticks)
         /\ Len(usage_log) \in Nat
         /\ Len(usage_log) <= LogSize
         /\ LogSize \in Nat \ {0}
         /\ now \in Nat
         /\ MinuteOf(now) \in Nat
         /\ uses \in Seq(Successes)
<1>1. now \in Nat
  BY DEF TypeOK
<1>4. uses \in Seq(Successes)
  BY DEF TypeOK, Successes
<1>2. MinuteOf(now) \in Nat
  BY <1>1, MinuteBounds
<1>3. usage_log \in Seq(Ticks)
  BY DEF TypeOK, Ticks
<1> QED BY <1>1, <1>2, <1>3, <1>4, LogSizeAssumption DEF TypeOK

(***************************************************************************)
(* The log with the bucket of this minute at its end.                      *)
(***************************************************************************)
LEMMA OpenedIs ==
  ASSUME TypeOK
  PROVE  /\ Opened \in Seq(Ticks)
         /\ Len(Opened) \in 1..LogSize
         /\ Opened[Len(Opened)].ts = MinuteOf(now)
         /\ \/ Opened = usage_log
            \/ /\ usage_log = <<>> \/ usage_log[Len(usage_log)].ts # MinuteOf(now)
               /\ \E d \in {0, 1} :
                    /\ d = 1 => Len(usage_log) = LogSize
                    /\ Len(usage_log) + 1 = Len(Opened) + d
                    /\ \A i \in 1..(Len(Opened) - 1) : Opened[i] = usage_log[i + d]
                    /\ Opened[Len(Opened)] = NewTick(MinuteOf(now))
<1>1. /\ usage_log \in Seq(Ticks) /\ Len(usage_log) \in Nat /\ Len(usage_log) <= LogSize
      /\ now \in Nat /\ LogSize \in Nat \ {0}
  BY LogSizeAssumption DEF TypeOK, Ticks
<1>2. MinuteOf(now) \in Nat
  BY <1>1, MinuteBounds
<1> DEFINE new == NewTick(MinuteOf(now))
<1>3. new \in Ticks /\ new.ts = MinuteOf(now)
  BY <1>2 DEF NewTick, Ticks
<1> HIDE DEF new
<1>4. CASE usage_log # <<>> /\ usage_log[Len(usage_log)].ts = MinuteOf(now)
  <2>1. Opened = usage_log
    BY <1>4 DEF Opened
  <2> QED BY <2>1, <1>1, <1>4
<1>5. CASE ~ (usage_log # <<>> /\ usage_log[Len(usage_log)].ts = MinuteOf(now))
  <2>1. Opened = Append(IF Len(usage_log) >= LogSize THEN Tail(usage_log) ELSE usage_log, new)
    BY <1>5 DEF Opened, Push, new
  <2>2. CASE Len(usage_log) >= LogSize
    <3>1. Len(usage_log) = LogSize /\ usage_log # <<>>
      BY <2>2, <1>1
    <3>2. /\ Tail(usage_log) \in Seq(Ticks) /\ Len(Tail(usage_log)) = LogSize - 1
          /\ \A i \in 1..(LogSize - 1) : Tail(usage_log)[i] = usage_log[i + 1]
      BY <3>1, <1>1
    <3> DEFINE rest == Tail(usage_log)
    <3> HIDE DEF rest
    <3>3. Opened = Append(rest, new)
      BY <2>1, <2>2 DEF rest
    <3>4. rest \in Seq(Ticks) /\ Len(rest) = LogSize - 1
      BY <3>2 DEF rest
    <3>5. /\ Opened \in Seq(Ticks) /\ Len(Opened) = LogSize
          /\ Opened[LogSize] = new
          /\ \A i \in 1..(LogSize - 1) : Opened[i] = rest[i]
      BY <3>3, <3>4, <1>1, <1>3
    <3>6. /\ 1 = 1 => Len(usage_log) = LogSize
          /\ Len(usage_log) + 1 = Len(Opened) + 1
          /\ \A i \in 1..(Len(Opened) - 1) : Opened[i] = usage_log[i + 1]
          /\ Opened[Len(Opened)] = NewTick(MinuteOf(now))
      BY <3>1, <3>2, <3>5 DEF rest, new
    <3> QED BY <3>5, <3>6, <1>1, <1>3, <1>5
  <2>3. CASE ~ (Len(usage_log) >= LogSize)
    <3>1. Opened = Append(usage_log, new)
      BY <2>1, <2>3
    <3>2. /\ Opened \in Seq(Ticks) /\ Len(Opened) = Len(usage_log) + 1
          /\ Opened[Len(usage_log) + 1] = new
          /\ \A i \in 1..Len(usage_log) : Opened[i] = usage_log[i]
      BY <3>1, <1>1, <1>3
    <3>3. /\ 0 = 1 => Len(usage_log) = LogSize
          /\ Len(usage_log) + 1 = Len(Opened) + 0
          /\ \A i \in 1..(Len(Opened) - 1) : Opened[i] = usage_log[i + 0]
          /\ Opened[Len(Opened)] = NewTick(MinuteOf(now))
      BY <3>2, <1>1 DEF new
    <3> QED BY <3>2, <3>3, <2>3, <1>1, <1>3, <1>5
  <2> QED BY <2>2, <2>3
<1> QED BY <1>4, <1>5

LEMMA OpenedCovered ==
  ASSUME TypeOK, Covered(usage_log, uses)
  PROVE  Covered(Opened, uses)
<1>1. uses \in Seq(Successes) /\ usage_log \in Seq(Ticks)
  BY Shape
<1> SUFFICES ASSUME NEW i \in DOMAIN Opened, NEW n \in Names
             PROVE  Held(Opened, i, n) <= Count(uses, Opened[i].ts, n)
  BY DEF Covered
<1>2. CASE Opened = usage_log
  BY <1>2 DEF Covered
<1>3. CASE Opened # usage_log
  <2>1. /\ Opened \in Seq(Ticks) /\ Len(Opened) \in 1..LogSize
    BY OpenedIs
  <2>2. PICK d \in {0, 1} :
                    /\ d = 1 => Len(usage_log) = LogSize
                    /\ Len(usage_log) + 1 = Len(Opened) + d
                    /\ \A j \in 1..(Len(Opened) - 1) : Opened[j] = usage_log[j + d]
                    /\ Opened[Len(Opened)] = NewTick(MinuteOf(now))
    BY <1>3, OpenedIs
  <2>3. CASE i = Len(Opened)
    <3>1. Held(Opened, i, n) = 0
      BY <2>2, <2>3 DEF NewTick, Held
    <3>2. Count(uses, Opened[i].ts, n) \in Nat
      BY <1>1, CountNat
    <3> QED BY <3>1, <3>2
  <2>4. CASE i # Len(Opened)
    <3>1. i \in 1..(Len(Opened) - 1) /\ i + d \in 1..Len(usage_log)
      BY <2>1, <2>2, <2>4, <1>1
    <3>2. Opened[i] = usage_log[i + d]
      BY <3>1, <2>2
    <3> QED BY <3>1, <3>2, <1>1 DEF Covered, Held
  <2> QED BY <2>3, <2>4
<1> QED BY <1>2, <1>3

LEMMA OpenedOrderly ==
  ASSUME TypeOK, Orderly(usage_log, now)
  PROVE  Orderly(Opened, now)
<1>1. /\ usage_log \in Seq(Ticks) /\ Len(usage_log) \in Nat /\ MinuteOf(now) \in Nat
      /\ LogSize \in Nat \ {0}
  BY Shape
<1>2. CASE Opened = usage_log
  BY <1>2
<1>3. CASE Opened # usage_log
  <2>1. /\ Opened \in Seq(Ticks) /\ Len(Opened) \in 1..LogSize
        /\ Opened[Len(Opened)].ts = MinuteOf(now)
        /\ usage_log = <<>> \/ usage_log[Len(usage_log)].ts # MinuteOf(now)
    BY <1>3, OpenedIs
  <2>2. PICK d \in {0, 1} :
                    /\ d = 1 => Len(usage_log) = LogSize
                    /\ Len(usage_log) + 1 = Len(Opened) + d
                    /\ \A j \in 1..(Len(Opened) - 1) : Opened[j] = usage_log[j + d]
                    /\ Opened[Len(Opened)] = NewTick(MinuteOf(now))
    BY <1>3, OpenedIs
  <2> DEFINE k == Len(Opened)
  <2>3. k \in Nat \ {0} /\ DOMAIN Opened = 1..k /\ DOMAIN usage_log = 1..Len(usage_log)
    BY <2>1, <1>1
  <2>4. \A i \in 1..(k - 1) : i + d \in 1..Len(usage_log) /\ Opened[i] = usage_log[i + d]
    <3> TAKE i \in 1..(k - 1)
    <3>1. Opened[i] = usage_log[i + d]
      BY <2>2
    <3>2. Len(usage_log) + 1 = k + d /\ k \in Nat /\ d \in Nat /\ i \in Nat /\ 1 <= i /\ i <= k - 1
      BY <2>2, <2>3
    <3> HIDE DEF k
    <3> QED BY <3>1, <3>2, <1>1
  <2>5. \A i \in 1..Len(usage_log) : usage_log[i].ts \in Nat
    <3> TAKE i \in 1..Len(usage_log)
    <3>1. usage_log[i] \in Ticks
      BY <1>1
    <3> QED BY <3>1 DEF Ticks
  <2> HIDE DEF k
  <2>6. \A i \in 1..(k - 1) : Opened[i].ts \in Nat /\ Opened[i].ts <= MinuteOf(now)
    BY <2>4, <2>5, <2>3 DEF Orderly
  <2>7. Opened[k].ts = MinuteOf(now)
    BY <2>1 DEF k
  \* Before this minute, by as many minutes as there are buckets in between.
  <2>8. \A i \in 1..(k - 1) : MinuteOf(now) - Opened[i].ts >= k - i
    <3> TAKE i \in 1..(k - 1)
    <3> DEFINE l == Len(usage_log)
    <3>1. l \in 1..l /\ i + d \in 1..l /\ l + 1 = k + d
      BY <2>4, <2>2, <1>1 DEF k
    <3>2. usage_log[l].ts - usage_log[i + d].ts >= l - (i + d)
      BY <3>1, <2>3 DEF Orderly
    <3>3. usage_log[l].ts <= MinuteOf(now) /\ usage_log[l].ts # MinuteOf(now)
      BY <3>1, <2>1, <2>3 DEF Orderly
    <3>4. Opened[i].ts = usage_log[i + d].ts
      BY <2>4
    <3>5. usage_log[l].ts \in Nat /\ usage_log[i + d].ts \in Nat
      BY <3>1, <2>5
    <3>6. l \in Nat /\ i \in Nat /\ k \in Nat /\ d \in Nat /\ MinuteOf(now) \in Nat
      BY <1>1, <2>3
    <3> HIDE DEF l
    <3>7. MinuteOf(now) - usage_log[i + d].ts >= l + 1 - (i + d)
      BY <3>2, <3>3, <3>5, <3>6
    <3>8. l + 1 - (i + d) = k - i
      BY <3>1, <3>6
    <3> QED BY <3>7, <3>8, <3>4
  <2>9. \A i \in 1..k : Opened[i].ts <= MinuteOf(now)
    BY <2>6, <2>7, <1>1, <2>3
  <2>10. ASSUME NEW i \in 1..k, NEW j \in 1..k, i <= j
         PROVE  Opened[j].ts - Opened[i].ts >= j - i
    <3>1. CASE j = k /\ i = k
      BY <3>1, <2>7, <1>1, <2>3
    <3>2. CASE j = k /\ i # k
      <4>1. i \in 1..(k - 1)
        BY <3>2, <2>3
      <4> QED BY <4>1, <3>2, <2>7, <2>8
    <3>3. CASE j # k
      <4>1. i \in 1..(k - 1) /\ j \in 1..(k - 1)
        BY <3>3, <2>3, <2>10
      <4>2. i + d \in 1..Len(usage_log) /\ j + d \in 1..Len(usage_log) /\ i + d <= j + d
        BY <4>1, <2>4, <2>10
      <4>3. usage_log[j + d].ts - usage_log[i + d].ts >= (j + d) - (i + d)
        BY <4>2, <2>3 DEF Orderly
      <4>4. Opened[i] = usage_log[i + d] /\ Opened[j] = usage_log[j + d]
        BY <4>1, <2>4
      <4>5. usage_log[j + d].ts \in Nat /\ usage_log[i + d].ts \in Nat
        BY <4>2, <2>5
      <4> QED BY <4>1, <4>3, <4>4, <4>5, <2>3
    <3> QED BY <3>1, <3>2, <3>3
  <2> QED BY <2>9, <2>10, <2>3 DEF Orderly
<1> QED BY <1>2, <1>3

LEMMA TsNat ==
  ASSUME NEW log \in Seq(Ticks), NEW i \in DOMAIN log
  PROVE  log[i].ts \in Nat /\ log[i].by_account \in [Names -> Nat]
<1>1. log[i] \in Ticks
  OBVIOUS
<1> QED BY <1>1 DEF Ticks

\* The bucket that falls out is of an earlier minute than the one left first.
LEMMA OpenedComplete ==
  ASSUME TypeOK, Orderly(usage_log, now), Complete(usage_log, uses)
  PROVE  Complete(Opened, uses)
<1>1. /\ usage_log \in Seq(Ticks) /\ Len(usage_log) \in Nat /\ MinuteOf(now) \in Nat
      /\ LogSize \in Nat \ {0}
  BY Shape
<1>2. CASE Opened = usage_log
  BY <1>2
<1>3. CASE Opened # usage_log
  <2>1. /\ Opened \in Seq(Ticks) /\ Len(Opened) \in 1..LogSize
        /\ Opened[Len(Opened)].ts = MinuteOf(now)
        /\ usage_log = <<>> \/ usage_log[Len(usage_log)].ts # MinuteOf(now)
    BY <1>3, OpenedIs
  <2>2. PICK d \in {0, 1} :
                    /\ d = 1 => Len(usage_log) = LogSize
                    /\ Len(usage_log) + 1 = Len(Opened) + d
                    /\ \A j \in 1..(Len(Opened) - 1) : Opened[j] = usage_log[j + d]
                    /\ Opened[Len(Opened)] = NewTick(MinuteOf(now))
    BY <1>3, OpenedIs
  <2>3. DOMAIN usage_log = 1..Len(usage_log) /\ DOMAIN Opened = 1..Len(Opened)
    BY <1>1, <2>1
  <2>l. /\ Len(Opened) \in Nat /\ 1 <= Len(Opened) /\ Len(Opened) <= LogSize
        /\ Len(usage_log) + 1 = Len(Opened) + d /\ d \in Nat
        /\ d = 1 => Len(usage_log) = LogSize
        /\ Len(usage_log) \in Nat /\ LogSize \in Nat
    BY <2>1, <2>2, <1>1
  <2>4. Orderly(Opened, now)
    BY OpenedOrderly
  <2> SUFFICES ASSUME NEW k \in DOMAIN uses
               PROVE  \/ \E i \in DOMAIN Opened : Opened[i].ts = MinuteOf(uses[k].at)
                      \/ /\ Len(Opened) >= LogSize
                         /\ MinuteOf(uses[k].at) < Opened[1].ts
    BY DEF Complete
  <2> DEFINE m == MinuteOf(uses[k].at)
  <2>5. \/ \E i \in DOMAIN usage_log : usage_log[i].ts = m
        \/ Len(usage_log) >= LogSize /\ m < usage_log[1].ts
    BY DEF Complete
  <2> HIDE DEF m
  \* The first bucket of a log that was full, if it is not the last as well, has
  \* the second one after it.
  <2>6. d = 1 => Len(Opened) = LogSize /\ usage_log[1].ts < Opened[1].ts
    <3> SUFFICES ASSUME d = 1 PROVE Len(Opened) = LogSize /\ usage_log[1].ts < Opened[1].ts
      OBVIOUS
    <3>1. Len(usage_log) = LogSize /\ Len(Opened) = LogSize /\ 1 \in DOMAIN usage_log
      <4>1. Len(usage_log) = LogSize /\ Len(Opened) = LogSize /\ Len(usage_log) >= 1
        BY <2>l
      <4>2. 1 \in DOMAIN usage_log
        BY <4>1, <1>1
      <4> QED BY <4>1, <4>2
    <3>2. usage_log[1].ts \in Nat
      BY <3>1, <1>1, TsNat
    <3>3. CASE LogSize = 1
      <4>1. Opened[1].ts = MinuteOf(now) /\ usage_log[1].ts # MinuteOf(now)
        BY <3>3, <3>1, <2>1, <1>1
      <4>2. usage_log[1].ts <= MinuteOf(now)
        BY <3>1 DEF Orderly
      <4> QED BY <4>1, <4>2, <3>1, <3>2, <1>1
    <3>4. CASE LogSize # 1
      <4>1. 2 \in DOMAIN usage_log /\ 1 \in 1..(Len(Opened) - 1)
        BY <3>4, <3>1, <2>3, <1>1
      <4>2. Opened[1] = usage_log[2]
        BY <4>1, <2>2
      <4>3. usage_log[2].ts - usage_log[1].ts >= 2 - 1
        BY <4>1, <3>1 DEF Orderly
      <4>4. usage_log[2].ts \in Nat
        BY <4>1, <1>1, TsNat
      <4> QED BY <4>2, <4>3, <4>4, <3>1, <3>2
    <3> QED BY <3>3, <3>4
  <2>7. CASE \E i \in DOMAIN usage_log : usage_log[i].ts = m
    <3>1. PICK i \in DOMAIN usage_log : usage_log[i].ts = m
      BY <2>7
    <3>2. CASE i - d \in 1..(Len(Opened) - 1)
      <4>1. Opened[i - d] = usage_log[(i - d) + d] /\ (i - d) + d = i
        <5>1. i \in Nat
          BY <1>1
        <5>2. (i - d) + d = i
          BY <5>1, <2>l
        <5> QED BY <3>2, <2>2, <5>2
      <4>2. i - d \in DOMAIN Opened
        BY <3>2, <2>3, <2>1
      <4> QED BY <4>1, <4>2, <3>1 DEF m
    <3>3. CASE i - d \notin 1..(Len(Opened) - 1)
      <4>0. i \in Nat /\ 1 <= i /\ i <= Len(usage_log)
        BY <1>1
      <4>1. d = 1 /\ i = 1
        BY <4>0, <3>3, <1>1, <2>l
      <4>2. m < Opened[1].ts /\ Len(Opened) >= LogSize
        BY <4>1, <2>6, <3>1, <1>1
      <4> QED BY <4>2 DEF m
    <3> QED BY <3>2, <3>3
  <2>8. CASE Len(usage_log) >= LogSize /\ m < usage_log[1].ts
    <3>1. d = 1
      BY <2>8, <2>2, <2>1, <1>1
    <3>2. usage_log[1].ts \in Nat /\ Opened[1].ts \in Nat
      BY <1>1, <2>1, <2>3, <2>8, TsNat
    <3>3. m \in Int
      <4>0. uses \in Seq(Successes)
        BY Shape
      <4>1. uses[k] \in Successes
        BY <4>0
      <4>2. uses[k].at \in Nat
        BY <4>1 DEF Successes
      <4> QED BY <4>2, MinuteBounds DEF m
    <3>4. m < Opened[1].ts /\ Len(Opened) >= LogSize
      BY <3>1, <3>2, <3>3, <2>6, <2>8, <1>1
    <3> QED BY <3>4 DEF m
  <2> QED BY <2>5, <2>7, <2>8
<1> QED BY <1>2, <1>3

\* This minute saw nothing before its bucket is opened.
LEMMA OpenedExact ==
  ASSUME TypeOK, Orderly(usage_log, now), Complete(usage_log, uses), Exact(usage_log, uses)
  PROVE  Exact(Opened, uses)
<1>1. /\ usage_log \in Seq(Ticks) /\ Len(usage_log) \in Nat /\ MinuteOf(now) \in Nat
      /\ LogSize \in Nat \ {0} /\ uses \in Seq(Successes)
  BY Shape
<1>2. CASE Opened = usage_log
  BY <1>2
<1>3. CASE Opened # usage_log
  <2>1. /\ Opened \in Seq(Ticks) /\ Len(Opened) \in 1..LogSize
        /\ usage_log = <<>> \/ usage_log[Len(usage_log)].ts # MinuteOf(now)
    BY <1>3, OpenedIs
  <2>2. PICK d \in {0, 1} :
                    /\ d = 1 => Len(usage_log) = LogSize
                    /\ Len(usage_log) + 1 = Len(Opened) + d
                    /\ \A j \in 1..(Len(Opened) - 1) : Opened[j] = usage_log[j + d]
                    /\ Opened[Len(Opened)] = NewTick(MinuteOf(now))
    BY <1>3, OpenedIs
  <2>3. DOMAIN usage_log = 1..Len(usage_log) /\ DOMAIN Opened = 1..Len(Opened)
    BY <1>1, <2>1
  <2>l. /\ Len(Opened) \in Nat /\ 1 <= Len(Opened) /\ Len(Opened) <= LogSize
        /\ Len(usage_log) + 1 = Len(Opened) + d /\ d \in Nat
        /\ d = 1 => Len(usage_log) = LogSize
        /\ Len(usage_log) \in Nat /\ LogSize \in Nat
    BY <2>1, <2>2, <1>1
  <2>4. \A i \in DOMAIN usage_log : usage_log[i].ts < MinuteOf(now)
    <3> TAKE i \in DOMAIN usage_log
    <3> DEFINE l == Len(usage_log)
    <3>1. l \in DOMAIN usage_log /\ i <= l /\ i \in Nat /\ l \in Nat
      BY <2>3, <1>1
    <3>2. usage_log[i].ts \in Nat /\ usage_log[l].ts \in Nat
      BY <3>1, <1>1, TsNat
    <3>3. usage_log[l].ts # MinuteOf(now)
      BY <2>1, <3>1
    <3>4. usage_log[l].ts <= MinuteOf(now) /\ usage_log[l].ts - usage_log[i].ts >= l - i
      BY <3>1 DEF Orderly
    <3> HIDE DEF l
    <3> QED BY <3>1, <3>2, <3>3, <3>4, <1>1
  <2>5. \A k \in DOMAIN uses : MinuteOf(uses[k].at) # MinuteOf(now)
    <3> SUFFICES ASSUME NEW k \in DOMAIN uses, MinuteOf(uses[k].at) = MinuteOf(now)
                 PROVE  FALSE
      OBVIOUS
    <3>1. \/ \E i \in DOMAIN usage_log : usage_log[i].ts = MinuteOf(now)
          \/ Len(usage_log) >= LogSize /\ MinuteOf(now) < usage_log[1].ts
      BY DEF Complete
    <3>2. CASE \E i \in DOMAIN usage_log : usage_log[i].ts = MinuteOf(now)
      BY <3>2, <2>4, <1>1
    <3>3. CASE Len(usage_log) >= LogSize /\ MinuteOf(now) < usage_log[1].ts
      <4>1. 1 \in DOMAIN usage_log
        BY <3>3, <1>1, <2>3
      <4>2. usage_log[1].ts \in Nat /\ usage_log[1].ts < MinuteOf(now)
        BY <4>1, <2>4, <1>1, TsNat
      <4> QED BY <3>3, <4>2, <1>1
    <3> QED BY <3>1, <3>2, <3>3
  <2>6. \A n \in Names : Count(uses, MinuteOf(now), n) = 0
    <3> TAKE n \in Names
    <3>1. {i \in DOMAIN uses : MinuteOf(uses[i].at) = MinuteOf(now) /\ uses[i].by = n} = {}
      BY <2>5
    <3> QED BY <3>1, FS_EmptySet DEF Count
  <2> SUFFICES ASSUME NEW i \in DOMAIN Opened, NEW n \in Names
               PROVE  Held(Opened, i, n) = Count(uses, Opened[i].ts, n)
    BY DEF Exact
  <2>7. CASE i = Len(Opened)
    <3>1. Held(Opened, i, n) = 0 /\ Opened[i].ts = MinuteOf(now)
      BY <2>2, <2>7 DEF NewTick, Held
    <3> QED BY <3>1, <2>6
  <2>8. CASE i # Len(Opened)
    <3>1. i \in 1..(Len(Opened) - 1) /\ i + d \in DOMAIN usage_log
      <4>1. i \in Nat /\ 1 <= i /\ i <= Len(Opened)
        BY <2>1
      <4>2. i \in 1..(Len(Opened) - 1) /\ i + d \in Nat /\ 1 <= i + d /\ i + d <= Len(usage_log)
        BY <4>1, <2>l, <2>8
      <4>3. i + d \in DOMAIN usage_log
        BY <4>2, <1>1
      <4> QED BY <4>2, <4>3
    <3>2. Opened[i] = usage_log[i + d]
      BY <3>1, <2>2
    <3> QED BY <3>1, <3>2 DEF Exact, Held
  <2> QED BY <2>7, <2>8
<1> QED BY <1>2, <1>3

(***************************************************************************)
(* The steps.                                                              *)
(***************************************************************************)
\* A bucket with one more success of account n.
Counting(log, k, n) == [log EXCEPT ![k].by_account[n] = @ + 1]

LEMMA Folded ==
  ASSUME NEW G, NEW L \in Seq(Ticks), NEW k \in DOMAIN L, NEW n \in Names,
         G = Counting(L, k, n)
  PROVE  /\ G \in Seq(Ticks) /\ Len(G) = Len(L) /\ DOMAIN G = DOMAIN L
         /\ \A i \in DOMAIN L : G[i].ts = L[i].ts
         /\ \A i \in DOMAIN L, a \in Names :
              /\ i = k /\ a = n => Held(G, i, a) = Held(L, i, a) + 1
              /\ ~ (i = k /\ a = n) => Held(G, i, a) = Held(L, i, a)
<1>1. DOMAIN L = 1..Len(L) /\ Len(L) \in Nat
  OBVIOUS
<1>2. \A i \in DOMAIN L : L[i] \in Ticks
  OBVIOUS
<1> DEFINE new == [L[k] EXCEPT !.by_account[n] = @ + 1]
<1>3. L[k].ts \in Nat /\ L[k].by_account \in [Names -> Nat]
  BY TsNat
<1>t. L[k] = [ts |-> L[k].ts, by_account |-> L[k].by_account]
  BY <1>2 DEF Ticks
<1> DEFINE b == [L[k].by_account EXCEPT ![n] = @ + 1]
<1>m. new = [L[k] EXCEPT !.by_account = b]
  BY Zenon
<1>n. b \in [Names -> Nat]
  BY <1>3
<1> HIDE DEF b
<1>o. new = [ts |-> L[k].ts, by_account |-> b]
  BY <1>t, <1>m
<1> HIDE DEF new
<1>4. new \in Ticks /\ new.ts = L[k].ts /\ new.by_account = b
  BY <1>n, <1>o, <1>3 DEF Ticks
<1> USE DEF new
<1>5. \A a \in Names : new.by_account[a] = IF a = n THEN L[k].by_account[a] + 1
                                                    ELSE L[k].by_account[a]
  BY <1>4, <1>3 DEF b
<1>6. G = [L EXCEPT ![k] = new]
  BY DEF Counting
<1> HIDE DEF new
<1>7. DOMAIN G = DOMAIN L /\ \A i \in DOMAIN L : G[i] = IF i = k THEN new ELSE L[i]
  BY <1>6
<1>8. G \in Seq(Ticks) /\ Len(G) = Len(L)
  BY <1>6, <1>4
<1>9. ASSUME NEW i \in DOMAIN L, NEW a \in Names
      PROVE  /\ i = k /\ a = n => Held(G, i, a) = Held(L, i, a) + 1
             /\ ~ (i = k /\ a = n) => Held(G, i, a) = Held(L, i, a)
  <2>1. CASE i = k
    BY <2>1, <1>5, <1>7 DEF Held
  <2>2. CASE i # k
    BY <2>2, <1>7 DEF Held
  <2> QED BY <2>1, <2>2
<1>10. \A i \in DOMAIN L : G[i].ts = L[i].ts
  BY <1>4, <1>7
<1> QED BY <1>7, <1>8, <1>9, <1>10

LEMMA RecordKeeps ==
  ASSUME IInv, NEW n \in Names, RecordUsage(n)
  PROVE  IInv'
<1> DEFINE k == Len(Opened)
           use == [at |-> now, by |-> n]
<1>1. /\ TypeOK /\ Covered(usage_log, uses) /\ now >= Start - back * Minute
      /\ back = 0 => /\ Past(uses, now) /\ Orderly(usage_log, now)
                     /\ Complete(usage_log, uses) /\ Exact(usage_log, uses)
  BY DEF IInv
<1>2. /\ usage_log \in Seq(Ticks) /\ now \in Nat /\ MinuteOf(now) \in Nat
      /\ uses \in Seq(Successes) /\ LogSize \in Nat \ {0}
  BY <1>1, Shape
<1>3. /\ Opened \in Seq(Ticks) /\ k \in 1..LogSize /\ Opened[k].ts = MinuteOf(now)
  BY <1>1, OpenedIs
<1>4. /\ usage_log' = Counting(Opened, k, n)
      /\ uses' = Noted(uses, now, n) /\ now' = now /\ back' = back
  BY DEF RecordUsage, Counting, Noted
<1>5. k \in DOMAIN Opened
  BY <1>3
<1>6. /\ usage_log' \in Seq(Ticks) /\ Len(usage_log') = k /\ DOMAIN usage_log' = DOMAIN Opened
      /\ \A i \in DOMAIN Opened : usage_log'[i].ts = Opened[i].ts
      /\ \A i \in DOMAIN Opened, a \in Names :
           /\ i = k /\ a = n => Held(usage_log', i, a) = Held(Opened, i, a) + 1
           /\ ~ (i = k /\ a = n) => Held(usage_log', i, a) = Held(Opened, i, a)
  <2>1. k = Len(Opened)
    OBVIOUS
  <2> HIDE DEF k
  <2>2. Opened \in Seq(Ticks) /\ k \in DOMAIN Opened /\ usage_log' = Counting(Opened, k, n)
    BY <1>3, <1>4, <1>5
  <2> HIDE DEF use
  <2>3. usage_log' \in Seq(Ticks) /\ Len(usage_log') = k /\ DOMAIN usage_log' = DOMAIN Opened
    BY <2>1, <2>2, Folded, Zenon
  <2>4. \A i \in DOMAIN Opened : usage_log'[i].ts = Opened[i].ts
    BY <2>2, Folded, Zenon
  <2>5. \A i \in DOMAIN Opened, a \in Names :
           /\ i = k /\ a = n => Held(usage_log', i, a) = Held(Opened, i, a) + 1
           /\ ~ (i = k /\ a = n) => Held(usage_log', i, a) = Held(Opened, i, a)
    BY <2>2, Folded
  <2> QED BY <2>3, <2>4, <2>5
<1>7. \A m, a : /\ Count(uses, m, a) \in Nat
                /\ Count(uses', m, a) = IF m = MinuteOf(now) /\ a = n THEN Count(uses, m, a) + 1
                                                                     ELSE Count(uses, m, a)
  <2> TAKE m, a
  <2>1. Count(uses, m, a) \in Nat
    BY <1>2, CountNat
  <2>2. /\ m = MinuteOf(now) /\ a = n => Count(Noted(uses, now, n), m, a) = Count(uses, m, a) + 1
        /\ ~ (m = MinuteOf(now) /\ a = n) => Count(Noted(uses, now, n), m, a) = Count(uses, m, a)
    BY <1>2, CountAppend
  <2> QED BY <2>1, <2>2, <1>4
<1>8. \A i \in DOMAIN Opened : /\ Opened[i].ts \in Nat
                               /\ Opened[i].by_account \in [Names -> Nat]
  BY <1>3, TsNat
<1>9. TypeOK'
  <2>1. uses' \in Seq(Successes)
    <3>1. [at |-> now, by |-> n] \in Successes
      BY <1>2 DEF Successes
    <3> QED BY <3>1, <1>2, <1>4 DEF Noted
  <2>2. Len(usage_log') <= LogSize
    BY <1>3, <1>6
  <2> QED BY <2>1, <2>2, <1>1, <1>4, <1>6 DEF TypeOK, Ticks, Successes
<1>10. Covered(usage_log', uses')
  <2> SUFFICES ASSUME NEW i \in DOMAIN Opened, NEW a \in Names
               PROVE  Held(usage_log', i, a) <= Count(uses', usage_log'[i].ts, a)
    BY <1>6 DEF Covered
  <2>1. Covered(Opened, uses)
    BY <1>1, OpenedCovered
  <2>2. Held(Opened, i, a) <= Count(uses, Opened[i].ts, a)
    BY <2>1 DEF Covered
  <2>3. Held(Opened, i, a) \in Nat
    BY <1>8 DEF Held
  <2>4. usage_log'[i].ts = Opened[i].ts
    BY <1>6
  <2>5. CASE i = k /\ a = n
    <3>1. Held(usage_log', i, a) = Held(Opened, i, a) + 1
      BY <1>6, <2>5
    <3>2. Count(uses', Opened[i].ts, a) = Count(uses, Opened[i].ts, a) + 1
      BY <1>7, <2>5, <1>3
    <3> QED BY <3>1, <3>2, <2>2, <2>3, <2>4, <1>7
  <2>6. CASE ~ (i = k /\ a = n)
    <3>1. Held(usage_log', i, a) = Held(Opened, i, a)
      BY <1>6, <2>6
    <3>2. Count(uses', Opened[i].ts, a) >= Count(uses, Opened[i].ts, a)
      BY <1>7
    <3> QED BY <3>1, <3>2, <2>2, <2>3, <2>4, <1>7
  <2> QED BY <2>5, <2>6
<1>11. ASSUME back = 0
       PROVE  /\ Past(uses', now) /\ Orderly(usage_log', now)
              /\ Complete(usage_log', uses') /\ Exact(usage_log', uses')
  <2>1. /\ Past(uses, now) /\ Orderly(Opened, now) /\ Complete(Opened, uses)
        /\ Exact(Opened, uses)
    BY <1>1, <1>11, OpenedOrderly, OpenedComplete, OpenedExact
  <2>2. /\ DOMAIN uses' = 1..(Len(uses) + 1) /\ uses'[Len(uses) + 1] = use
        /\ \A j \in 1..Len(uses) : uses'[j] = uses[j]
        /\ DOMAIN uses = 1..Len(uses) /\ Len(uses) \in Nat
    BY <1>2, <1>4 DEF Noted
  <2>3. ASSUME NEW j \in DOMAIN uses' PROVE (j \in DOMAIN uses /\ uses'[j] = uses[j]) \/ uses'[j] = use
    BY <2>2
  <2>4. Past(uses', now)
    <3>1. \A j \in DOMAIN uses : uses[j].at <= now
      BY <2>1 DEF Past
    <3>2. use.at <= now
      BY <1>2
    <3>3. \A j \in DOMAIN uses' : uses'[j].at <= now
      BY <2>3, <3>1, <3>2, Zenon
    <3> QED BY <3>3 DEF Past
  <2>5. Orderly(usage_log', now)
    BY <2>1, <1>6 DEF Orderly
  <2>6. Complete(usage_log', uses')
    <3> SUFFICES ASSUME NEW j \in DOMAIN uses'
                 PROVE  \/ \E i \in DOMAIN Opened : Opened[i].ts = MinuteOf(uses'[j].at)
                        \/ Len(Opened) >= LogSize /\ MinuteOf(uses'[j].at) < Opened[1].ts
      <4>1. 1 \in DOMAIN Opened
        BY <1>3
      <4> QED BY <1>6, <4>1 DEF Complete
    <3>1. CASE j \in DOMAIN uses /\ uses'[j] = uses[j]
      BY <3>1, <2>1 DEF Complete
    <3>2. CASE uses'[j] = use
      BY <3>2, <1>3, <1>5
    <3> QED BY <3>1, <3>2, <2>3
  <2>7. Exact(usage_log', uses')
    <3> SUFFICES ASSUME NEW i \in DOMAIN Opened, NEW a \in Names
                 PROVE  Held(usage_log', i, a) = Count(uses', usage_log'[i].ts, a)
      BY <1>6 DEF Exact
    <3>1. Held(Opened, i, a) = Count(uses, Opened[i].ts, a)
      BY <2>1 DEF Exact
    <3>2. usage_log'[i].ts = Opened[i].ts
      BY <1>6
    <3>3. Opened[i].ts = MinuteOf(now) <=> i = k
      <4>1. CASE i = k
        BY <4>1, <1>3
      <4>2. CASE i # k
        <5>1. i \in Nat /\ i < k
          BY <4>2, <1>3
        <5>2. Opened[k].ts - Opened[i].ts >= k - i
          BY <5>1, <1>5, <2>1 DEF Orderly
        <5> QED BY <5>1, <5>2, <1>3, <1>8, <1>2, <4>2
      <4> QED BY <4>1, <4>2
    <3> QED BY <3>1, <3>2, <3>3, <1>6, <1>7
  <2> QED BY <2>4, <2>5, <2>6, <2>7
<1> QED BY <1>1, <1>4, <1>9, <1>10, <1>11 DEF IInv

LEMMA TickKeeps ==
  ASSUME IInv, Tick
  PROVE  IInv'
<1>1. /\ TypeOK /\ Covered(usage_log, uses) /\ now >= Start - back * Minute
      /\ back = 0 => /\ Past(uses, now) /\ Orderly(usage_log, now)
                     /\ Complete(usage_log, uses) /\ Exact(usage_log, uses)
  BY DEF IInv
<1>2. /\ usage_log \in Seq(Ticks) /\ now \in Nat /\ MinuteOf(now) \in Nat
      /\ uses \in Seq(Successes)
  BY <1>1, Shape
<1>3. now' = now + 1 /\ usage_log' = usage_log /\ uses' = uses /\ back' = back
  BY DEF Tick
<1>4. TypeOK'
  BY <1>1, <1>2, <1>3 DEF TypeOK
<1>5. now + 1 >= Start - back * Minute
  <2>1. Start - back * Minute \in Int
    BY <1>1, StartAssumption, MinuteAssumption, BoundsAssumption DEF TypeOK
  <2> HIDE DEF TypeOK
  <2> QED BY <1>1, <1>2, <2>1
<1>6. ASSUME back = 0
      PROVE  Past(uses, now + 1) /\ Orderly(usage_log, now + 1)
  <2>1. Past(uses, now) /\ Orderly(usage_log, now)
    BY <1>1, <1>6
  <2>2. MinuteOf(now) <= MinuteOf(now + 1) /\ MinuteOf(now + 1) \in Nat
    BY <1>2, MinuteMonotone, MinuteBounds, now + 1 \in Nat, now <= now + 1
  <2>3. Past(uses, now + 1)
    <3> SUFFICES ASSUME NEW k \in DOMAIN uses PROVE uses[k].at <= now + 1
      BY DEF Past
    <3>1. uses[k] \in Successes
      BY <1>2
    <3>2. uses[k].at \in Nat
      BY <3>1 DEF Successes
    <3>3. uses[k].at <= now
      BY <2>1 DEF Past
    <3> QED BY <3>2, <3>3, <1>2
  <2>4. Orderly(usage_log, now + 1)
    <3>1. ASSUME NEW i \in DOMAIN usage_log PROVE usage_log[i].ts <= MinuteOf(now + 1)
      <4>1. usage_log[i].ts \in Nat
        BY <1>2, TsNat
      <4>2. usage_log[i].ts <= MinuteOf(now)
        BY <2>1 DEF Orderly
      <4> QED BY <4>1, <4>2, <2>2, <1>2
    <3> QED BY <3>1, <2>1 DEF Orderly
  <2> QED BY <2>3, <2>4
<1> QED BY <1>1, <1>3, <1>4, <1>5, <1>6 DEF IInv

LEMMA SetBackKeeps ==
  ASSUME IInv, SetBack
  PROVE  IInv'
<1>1. TypeOK /\ Covered(usage_log, uses) /\ now >= Start - back * Minute
  BY DEF IInv
<1>2. /\ back < MaxBack /\ back' = back + 1 /\ now' = now - Minute
      /\ usage_log' = usage_log /\ uses' = uses
  BY DEF SetBack
<1>3. /\ now \in Nat /\ back \in Nat /\ MaxBack \in Nat /\ Minute \in Nat \ {0}
      /\ Start \in Nat /\ (0 + MaxBack) * Minute <= Start
  <2>1. MaxBack \in Nat /\ Minute \in Nat \ {0}
    BY MinuteAssumption, BoundsAssumption
  <2>2. Start \in Nat /\ (0 + MaxBack) * Minute <= Start
    BY StartAssumption, 0 \in Spans \cup {0}
  <2>3. now \in Nat /\ back \in Nat
    BY <1>1, <2>1 DEF TypeOK
  <2> QED BY <2>1, <2>2, <2>3
<1>4. now - Minute >= Start - (back + 1) * Minute
  <2>1. (back + 1) * Minute = back * Minute + Minute /\ back * Minute \in Nat
    BY <1>3
  <2> QED BY <2>1, <1>1, <1>3
<1>5. now - Minute \in Nat
  <2>1. (back + 1) * Minute <= MaxBack * Minute
    BY <1>2, <1>3
  <2>2. (back + 1) * Minute \in Nat /\ MaxBack * Minute \in Nat /\ 0 + MaxBack = MaxBack
    BY <1>3
  <2>3. Start - (back + 1) * Minute >= 0
    BY <2>1, <2>2, <1>3
  <2> QED BY <2>2, <2>3, <1>3, <1>4
<1>6. back + 1 \in 0..MaxBack /\ back + 1 # 0
  BY <1>2, <1>3
<1>7. TypeOK'
  BY <1>1, <1>2, <1>5, <1>6 DEF TypeOK
<1> QED BY <1>1, <1>2, <1>4, <1>6, <1>7 DEF IInv

LEMMA InitInv ==
  Init => IInv
<1> SUFFICES ASSUME Init PROVE IInv
  OBVIOUS
<1>1. now = Start /\ usage_log = <<>> /\ uses = <<>> /\ back = 0
  BY DEF Init
<1>2. Start \in Nat /\ MaxBack \in Nat /\ Minute \in Nat \ {0} /\ LogSize \in Nat \ {0}
  BY StartAssumption, BoundsAssumption, MinuteAssumption, LogSizeAssumption
<1>3. TypeOK
  BY <1>1, <1>2 DEF TypeOK
<1>4. now >= Start - back * Minute
  BY <1>1, <1>2
<1>5. DOMAIN usage_log = {} /\ DOMAIN uses = {}
  BY <1>1
<1> QED BY <1>3, <1>4, <1>5 DEF IInv, Covered, Past, Orderly, Complete, Exact

\* The inductive invariant holds.
THEOREM Invariant == Spec => []IInv
<1>1. Init => IInv
  BY InitInv
<1>2. IInv /\ [Next]_vars => IInv'
  <2> SUFFICES ASSUME IInv, [Next]_vars PROVE IInv'
    OBVIOUS
  <2>1. CASE Tick
    BY <2>1, TickKeeps
  <2>2. CASE SetBack
    BY <2>2, SetBackKeeps
  <2>3. CASE \E n \in Names : RecordUsage(n)
    BY <2>3, RecordKeeps
  <2>4. CASE UNCHANGED vars
    BY <2>4 DEF vars, IInv, TypeOK
  <2> QED BY <2>1, <2>2, <2>3, <2>4 DEF Next
<1> QED BY <1>1, <1>2, PTL DEF Spec

\* Buckets are numbered by minutes and hold counts of known accounts, and no more
\* of them are kept than the log's size (TypeOK; account_pool.py:224-255).
THEOREM TypeCorrect == Spec => []TypeOK
<1>1. IInv => TypeOK
  BY DEF IInv
<1> QED BY <1>1, Invariant, PTL

(***************************************************************************)
(* What a query shows.                                                     *)
(***************************************************************************)
LEMMA CutoffIs ==
  ASSUME IInv, NEW span \in Spans
  PROVE  /\ span \in Nat \ {0} /\ now \in Nat
         /\ MinuteOf(now) \in Nat
         /\ back = 0 => Cutoff(span) \in Nat /\ MinuteOf(Cutoff(span)) = MinuteOf(now) - span
<1>1. now \in Nat /\ MinuteOf(now) \in Nat
  BY Shape DEF IInv
<1>2. span \in Nat \ {0} /\ Minute \in Nat \ {0} /\ Start \in Nat /\ MaxBack \in Nat
      /\ (span + MaxBack) * Minute <= Start
  BY SpansAssumption, MinuteAssumption, StartAssumption, BoundsAssumption
<1>3. ASSUME back = 0 PROVE span * Minute <= now
  <2>1. now >= Start - 0 * Minute
    BY <1>3 DEF IInv
  <2>2. (span + MaxBack) * Minute = span * Minute + MaxBack * Minute
        /\ span * Minute \in Nat /\ MaxBack * Minute \in Nat /\ 0 * Minute = 0
    BY <1>2
  <2> QED BY <2>1, <2>2, <1>1, <1>2
<1>4. ASSUME back = 0
      PROVE  Cutoff(span) \in Nat /\ MinuteOf(Cutoff(span)) = MinuteOf(now) - span
  <2>1. span * Minute \in Nat
    BY <1>2
  <2>2. MinuteOf(now - span * Minute) = MinuteOf(now) - span
    BY <1>1, <1>2, <1>3, <1>4, MinuteBack
  <2> QED BY <2>1, <2>2, <1>1, <1>3, <1>4 DEF Cutoff
<1> QED BY <1>1, <1>2, <1>4

\* A bucket shown counts what it holds; a minute with no bucket, nothing.
LEMMA SeriesIs ==
  ASSUME NEW span, NEW m \in DOMAIN Series(span), NEW n \in Names
  PROVE  \/ Present(span, m) = {} /\ Series(span)[m][n] = 0
         \/ \E i \in DOMAIN usage_log : /\ usage_log[i].ts = m
                                        /\ Series(span)[m][n] = Held(usage_log, i, n)
<1>1. CASE Present(span, m) = {}
  BY <1>1 DEF Series, NewTick
<1>2. CASE Present(span, m) # {}
  <2> DEFINE i == CHOOSE j \in Present(span, m) : TRUE
  <2>1. i \in Present(span, m)
    BY <1>2
  <2>2. Series(span)[m][n] = usage_log[i].by_account[n]
    BY <1>2 DEF Series
  <2> HIDE DEF i
  <2>3. i \in DOMAIN usage_log /\ usage_log[i].ts = m
    BY <2>1 DEF Present
  <2> QED BY <2>2, <2>3 DEF Held
<1> QED BY <1>1, <1>2

\* Whatever the clock does and however many buckets have gone, no minute is
\* reported with more than it saw (NothingInvented; account_pool.py:332-359).
THEOREM NothingInventedHolds == Spec => []NothingInvented
<1>1. IInv => NothingInvented
  <2> SUFFICES ASSUME IInv, NEW span \in Spans, NEW m \in DOMAIN Series(span), NEW n \in Names
               PROVE  Series(span)[m][n] <= Saw(m, n)
    BY DEF NothingInvented
  <2>1. Covered(usage_log, uses) /\ uses \in Seq(Successes)
    BY Shape DEF IInv
  <2>2. Saw(m, n) = Count(uses, m, n)
    BY SawIsCount
  <2>3. CASE Present(span, m) = {} /\ Series(span)[m][n] = 0
    <3>1. Count(uses, m, n) \in Nat
      BY <2>1, CountNat
    <3> QED BY <2>2, <2>3, <3>1
  <2>4. CASE \E i \in DOMAIN usage_log : /\ usage_log[i].ts = m
                                         /\ Series(span)[m][n] = Held(usage_log, i, n)
    BY <2>1, <2>2, <2>4 DEF Covered
  <2> QED BY <2>3, <2>4, SeriesIs
<1> QED BY <1>1, Invariant, PTL

\* Of a minute after the first, exactly what it saw: a bucket that is gone was of
\* an earlier one.
LEMMA WholeMinute ==
  ASSUME IInv, back = 0, NEW span \in Spans, span <= LogSize,
         NEW m \in DOMAIN Series(span), m # MinuteOf(Cutoff(span)), NEW n \in Names
  PROVE  Series(span)[m][n] = Count(uses, m, n)
<1>1. /\ usage_log \in Seq(Ticks) /\ Len(usage_log) \in Nat /\ Len(usage_log) <= LogSize
      /\ LogSize \in Nat \ {0} /\ uses \in Seq(Successes)
  BY Shape DEF IInv
<1>2. /\ Orderly(usage_log, now) /\ Complete(usage_log, uses) /\ Exact(usage_log, uses)
  BY DEF IInv
<1>3. /\ span \in Nat \ {0} /\ MinuteOf(now) \in Nat /\ Cutoff(span) \in Nat
      /\ MinuteOf(Cutoff(span)) = MinuteOf(now) - span
  BY CutoffIs
<1>4. m \in MinuteOf(Cutoff(span))..MinuteOf(now)
  BY DEF Series
<1>5. m \in Int /\ m >= (MinuteOf(now) - span) + 1 /\ m <= MinuteOf(now)
  BY <1>3, <1>4
<1>6. m * Minute >= Cutoff(span)
  <2>1. Cutoff(span) < (MinuteOf(Cutoff(span)) + 1) * Minute
    BY <1>3, MinuteBounds
  <2>2. Minute \in Nat \ {0}
    BY MinuteAssumption
  <2>3. ((MinuteOf(now) - span) + 1) * Minute <= m * Minute
    BY <1>3, <1>5, <2>2
  <2>4. ((MinuteOf(now) - span) + 1) * Minute \in Int /\ m * Minute \in Int
    BY <1>3, <1>5, <2>2
  <2> QED BY <1>3, <2>1, <2>3, <2>4
<1>7. CASE \E i \in DOMAIN usage_log : /\ usage_log[i].ts = m
                                       /\ Series(span)[m][n] = Held(usage_log, i, n)
  BY <1>2, <1>7 DEF Exact
<1>8. CASE Present(span, m) = {} /\ Series(span)[m][n] = 0
  <2>1. ASSUME NEW i \in DOMAIN usage_log PROVE usage_log[i].ts # m
    <3> SUFFICES ASSUME usage_log[i].ts = m PROVE FALSE
      OBVIOUS
    <3>1. ASSUME NEW j \in DOMAIN usage_log, j > i PROVE usage_log[j].ts # m
      <4>1. usage_log[j].ts - usage_log[i].ts >= j - i
        BY <1>2, <3>1, <1>1 DEF Orderly
      <4>2. usage_log[j].ts \in Nat /\ usage_log[i].ts \in Nat
        BY <1>1, TsNat
      <4> QED BY <4>1, <4>2, <3>1, <1>1
    <3>2. i \in Present(span, m)
      BY <3>1, <1>6 DEF Present
    <3> QED BY <3>2, <1>8
  <2>2. ASSUME NEW k \in DOMAIN uses PROVE MinuteOf(uses[k].at) # m
    <3> SUFFICES ASSUME MinuteOf(uses[k].at) = m PROVE FALSE
      OBVIOUS
    <3>1. Len(usage_log) >= LogSize /\ m < usage_log[1].ts
      BY <1>2, <2>1 DEF Complete
    <3> DEFINE l == Len(usage_log)
    <3>2. l = LogSize /\ 1 \in DOMAIN usage_log /\ l \in DOMAIN usage_log
      BY <3>1, <1>1
    <3>3. usage_log[l].ts - usage_log[1].ts >= l - 1 /\ usage_log[l].ts <= MinuteOf(now)
      BY <3>2, <1>1, <1>2 DEF Orderly
    <3>4. usage_log[l].ts \in Nat /\ usage_log[1].ts \in Nat
      BY <3>2, <1>1, TsNat
    <3> HIDE DEF l
    <3>5. usage_log[1].ts <= MinuteOf(now) - (LogSize - 1)
      BY <3>2, <3>3, <3>4, <1>1, <1>3
    <3>6. usage_log[1].ts \in Int /\ MinuteOf(now) \in Int /\ m \in Int /\ span \in Int
      BY <3>4, <1>1, <1>3, <1>5
    <3>7. m >= (MinuteOf(now) - span) + 1
      BY <1>5
    <3>8. m < usage_log[1].ts
      BY <3>1
    <3>9. span <= LogSize /\ LogSize \in Int
      BY <1>1
    <3> HIDE DEF l
    <3> QED BY <3>5, <3>6, <3>7, <3>8, <3>9
  <2>3. {i \in DOMAIN uses : MinuteOf(uses[i].at) = m /\ uses[i].by = n} = {}
    BY <2>2
  <2>4. Count(uses, m, n) = Cardinality({})
    BY <2>3 DEF Count
  <2> QED BY <2>4, <1>8, FS_EmptySet
<1> QED BY <1>7, <1>8, SeriesIs

(***************************************************************************)
(* The summary.                                                            *)
(***************************************************************************)
\* The elements of D whose key is in s.
Keyed(D, key, s) == {i \in D : key[i] \in s}

LEMMA KeyedSplit ==
  ASSUME NEW D, IsFiniteSet(D), NEW key, NEW s, NEW x \in s
  PROVE  /\ Cardinality(Keyed(D, key, s)) \in Nat
         /\ Cardinality(Keyed(D, key, {x})) \in Nat
         /\ Cardinality(Keyed(D, key, s \ {x})) \in Nat
         /\ Cardinality(Keyed(D, key, s))
              = Cardinality(Keyed(D, key, {x})) + Cardinality(Keyed(D, key, s \ {x}))
<1> DEFINE A == Keyed(D, key, {x})
           B == Keyed(D, key, s \ {x})
<1>1. A \cup B = Keyed(D, key, s) /\ A \cap B = {}
  BY DEF Keyed
<1>2. \A t : IsFiniteSet(Keyed(D, key, t)) /\ Cardinality(Keyed(D, key, t)) \in Nat
  <2> TAKE t
  <2>1. Keyed(D, key, t) \in SUBSET D
    BY DEF Keyed
  <2> QED BY <2>1, FS_Subset, FS_CardinalityType
<1>3. Cardinality(A \cup B) = Cardinality(A) + Cardinality(B) - Cardinality(A \cap B)
  BY <1>2, FS_Union
<1>4. Cardinality(A \cap B) = 0
  BY <1>1, FS_EmptySet
<1>5. Cardinality(A) \in Nat /\ Cardinality(B) \in Nat /\ Cardinality(Keyed(D, key, s)) \in Nat
  BY <1>2
<1>6. Cardinality(Keyed(D, key, s)) = Cardinality(A) + Cardinality(B)
  <2>1. Cardinality(Keyed(D, key, s)) = Cardinality(A \cup B)
    BY <1>1
  <2> HIDE DEF A, B
  <2> QED BY <2>1, <1>3, <1>4, <1>5
<1> QED BY <1>5, <1>6

\* The successes of one minute, added up by account, are the successes of it.
LEMMA MinuteSum ==
  ASSUME uses \in Seq(Successes), NEW m, NEW f, DOMAIN f = Names,
         \A n \in Names : f[n] = Count(uses, m, n)
  PROVE  SumFunction(f) = Cardinality({i \in DOMAIN uses : MinuteOf(uses[i].at) = m})
<1> DEFINE D == {i \in DOMAIN uses : MinuteOf(uses[i].at) = m}
           key == [i \in D |-> uses[i].by]
           W == [s \in SUBSET Names |-> Cardinality(Keyed(D, key, s))]
<1>1. IsFiniteSet(D)
  <2>1. DOMAIN uses = 1..Len(uses) /\ Len(uses) \in Nat
    OBVIOUS
  <2>2. IsFiniteSet(1..Len(uses))
    BY <2>1, FS_Interval
  <2> QED BY <2>1, <2>2, FS_Subset, D \in SUBSET (1..Len(uses))
<1>2. \A i \in D : uses[i].by \in Names
  <2>1. \A i \in DOMAIN uses : uses[i] \in Successes
    OBVIOUS
  <2> QED BY <2>1 DEF Successes
<1>3. \A n \in Names : Keyed(D, key, {n}) = {i \in DOMAIN uses : MinuteOf(uses[i].at) = m /\ uses[i].by = n}
  BY DEF Keyed
<1>4. Keyed(D, key, Names) = D /\ Keyed(D, key, {}) = {}
  BY <1>2 DEF Keyed
<1>5. \A n \in Names : f[n] = Cardinality(Keyed(D, key, {n}))
  BY <1>3 DEF Count
<1> HIDE DEF D, key
<1>6. ASSUME NEW s \in SUBSET Names, NEW x \in s
      PROVE  f[x] \in Int /\ W[s] = f[x] + W[s \ {x}] /\ W[s] \in Int
  <2>1. f[x] = Cardinality(Keyed(D, key, {x}))
    BY <1>5
  <2>2. W[s] = Cardinality(Keyed(D, key, s)) /\ W[s \ {x}] = Cardinality(Keyed(D, key, s \ {x}))
    OBVIOUS
  <2> QED BY <2>1, <2>2, <1>1, KeyedSplit
<1>7. W[{}] = 0
  BY <1>4, FS_EmptySet
<1>8. W \in [SUBSET Names -> Int]
  <2> SUFFICES ASSUME NEW s \in SUBSET Names PROVE W[s] \in Int
    OBVIOUS
  <2>1. CASE s = {}
    BY <2>1, <1>7
  <2>2. CASE s # {}
    BY <2>2, <1>6
  <2> QED BY <2>1, <2>2
<1>9. W[Names] = Cardinality(D)
  BY <1>4
<1> HIDE DEF W
<1>10. SumFunction(f) = W[Names]
  <2>1. Tallies(W, f, Names)
    BY <1>6, <1>7, <1>8 DEF Tallies
  <2> QED BY <2>1, SumIs, NamesAssumption
<1> QED BY <1>9, <1>10 DEF D

LEMMA FirstMinute ==
  ASSUME IInv, back = 0, NEW span, NEW m \in DOMAIN Series(span)
  PROVE  SumFunction(Series(span)[m]) \in Int /\ DOMAIN Series(span)[m] = Names
<1>1. uses \in Seq(Successes) /\ usage_log \in Seq(Ticks) /\ Exact(usage_log, uses)
  BY Shape DEF IInv
<1>2. CASE Present(span, m) = {}
  <2> DEFINE W == [s \in SUBSET Names |-> 0]
  <2>1. Series(span)[m] = [n \in Names |-> 0]
    BY <1>2 DEF Series, NewTick
  <2> DEFINE f == Series(span)[m]
  <2>2. DOMAIN f = Names /\ \A n \in Names : f[n] = 0
    BY <2>1
  <2> HIDE DEF f
  <2>3. W \in [SUBSET Names -> Int] /\ W[{}] = 0 /\ W[Names] = 0
        /\ \A s \in SUBSET Names : \A x \in s : f[x] \in Int /\ W[s] = f[x] + W[s \ {x}]
    BY <2>2
  <2> HIDE DEF W
  <2>4. SumFunction(f) = W[Names]
    <3>1. Tallies(W, f, Names)
      BY <2>3 DEF Tallies
    <3> QED BY <2>2, <3>1, SumIs, NamesAssumption
  <2> QED BY <2>2, <2>3, <2>4 DEF f
<1>3. CASE Present(span, m) # {}
  <2> DEFINE i == CHOOSE j \in Present(span, m) : TRUE
             f == Series(span)[m]
  <2>1. i \in Present(span, m)
    BY <1>3
  <2>2. f = usage_log[i].by_account
    BY <1>3 DEF Series
  <2> HIDE DEF i, f
  <2>3. i \in DOMAIN usage_log /\ usage_log[i].ts = m
    BY <2>1 DEF Present
  <2>4. DOMAIN f = Names
    BY <2>2, <2>3, <1>1, TsNat
  <2>5. \A n \in Names : f[n] = Count(uses, m, n)
    BY <2>2, <2>3, <1>1 DEF Exact, Held
  <2>6. SumFunction(f) = Cardinality({k \in DOMAIN uses : MinuteOf(uses[k].at) = m})
    BY <2>4, <2>5, <1>1, MinuteSum
  <2>7. Cardinality({k \in DOMAIN uses : MinuteOf(uses[k].at) = m}) \in Nat
    <3>1. IsFiniteSet(DOMAIN uses)
      BY <1>1, FS_Interval, DOMAIN uses = 1..Len(uses), Len(uses) \in Int, 1 \in Int
    <3> QED BY <3>1, FS_Subset, FS_CardinalityType
  <2> QED BY <2>4, <2>6, <2>7 DEF f
<1> QED BY <1>2, <1>3

LEMMA Summed ==
  ASSUME IInv, back = 0, NEW span \in Spans, span <= LogSize
  PROVE  Requests(span) - SumFunction(Series(span)[MinuteOf(Cutoff(span))])
           = Cardinality({i \in DOMAIN uses : MinuteOf(uses[i].at) > MinuteOf(Cutoff(span))})
<1> DEFINE first == MinuteOf(Cutoff(span))
           last == MinuteOf(now)
           S == first..last
           T == SumFunction(Series(span)[first])
           D == DOMAIN uses
           key == [i \in D |-> MinuteOf(uses[i].at)]
           f == [m \in DOMAIN Series(span) |-> SumFunction(Series(span)[m])]
           W == [s \in SUBSET S |-> Cardinality(Keyed(D, key, s \ {first}))
                                      + (IF first \in s THEN T ELSE 0)]
<1>1. /\ first \in Int /\ last \in Nat /\ first < last
      /\ uses \in Seq(Successes) /\ Past(uses, now) /\ now \in Nat
  <2>1. span \in Nat \ {0} /\ last \in Nat /\ Cutoff(span) \in Nat /\ first = last - span
    BY CutoffIs
  <2> HIDE DEF first, last
  <2>2. uses \in Seq(Successes) /\ Past(uses, now) /\ now \in Nat
    BY Shape DEF IInv
  <2> QED BY <2>1, <2>2
<1>2. DOMAIN Series(span) = S
  BY DEF Series
<1>3. T \in Int
  BY <1>1, <1>2, FirstMinute
<1>4. IsFiniteSet(S) /\ IsFiniteSet(D)
  BY <1>1, FS_Interval, DOMAIN uses = 1..Len(uses), Len(uses) \in Int, 1 \in Int
<1>5. \A m \in S : m # first => f[m] = Cardinality(Keyed(D, key, {m}))
  <2> TAKE m \in S
  <2> HAVE m # first
  <2>1. \A n \in Names : Series(span)[m][n] = Count(uses, m, n)
    BY <1>2, WholeMinute
  <2>2. DOMAIN Series(span)[m] = Names
    BY <1>2, FirstMinute
  <2>3. SumFunction(Series(span)[m]) = Cardinality({i \in DOMAIN uses : MinuteOf(uses[i].at) = m})
    BY <1>1, <2>1, <2>2, MinuteSum
  <2>4. Keyed(D, key, {m}) = {i \in DOMAIN uses : MinuteOf(uses[i].at) = m}
    BY DEF Keyed
  <2> QED BY <1>2, <2>3, <2>4
<1>6. f[first] = T /\ first \in S /\ DOMAIN f = S
  BY <1>1, <1>2
<1>7. Requests(span) = SumFunction(f)
  BY DEF Requests
<1>8. Keyed(D, key, S \ {first}) = {i \in DOMAIN uses : MinuteOf(uses[i].at) > first}
  <2>1. ASSUME NEW i \in D PROVE key[i] \in Nat /\ key[i] = MinuteOf(uses[i].at) /\ key[i] <= last
    <3>1. uses[i] \in Successes
      BY <1>1
    <3>2. uses[i].at \in Nat
      BY <3>1 DEF Successes
    <3>3. uses[i].at <= now
      BY <1>1 DEF Past
    <3>4. MinuteOf(uses[i].at) \in Nat /\ MinuteOf(uses[i].at) <= last
      BY <3>2, <3>3, <1>1, MinuteBounds, MinuteMonotone
    <3> QED BY <3>4
  <2> HIDE DEF first, last, key
  <2> QED BY <2>1, <1>1 DEF Keyed
<1>9. Keyed(D, key, {} \ {first}) = {}
  BY DEF Keyed
<1> HIDE DEF first, last, T, D, key, f
<1>10. \A t : Cardinality(Keyed(D, key, t)) \in Nat
  <2> TAKE t
  <2>1. Keyed(D, key, t) \in SUBSET D
    BY DEF Keyed
  <2> QED BY <2>1, <1>4, FS_Subset, FS_CardinalityType
<1>11. W \in [SUBSET S -> Int] /\ W[{}] = 0
  <2>1. ASSUME NEW s \in SUBSET S PROVE W[s] \in Int
    BY <1>3, <1>10
  <2>2. W[{}] = 0
    BY <1>9, FS_EmptySet
  <2> QED BY <2>1, <2>2
<1>12. ASSUME NEW s \in SUBSET S, NEW x \in s
       PROVE  f[x] \in Int /\ W[s] = f[x] + W[s \ {x}]
  <2>1. CASE x = first
    <3>1. s \ {first} = (s \ {x}) \ {first}
      BY <2>1
    <3>2. first \in s /\ first \notin s \ {x}
      BY <2>1
    <3> DEFINE a == Cardinality(Keyed(D, key, s \ {first}))
    <3>3. W[s] = a + T /\ W[s \ {x}] = a + 0
      BY <3>1, <3>2
    <3>4. a \in Nat /\ f[x] = T
      BY <1>6, <1>10, <2>1
    <3> HIDE DEF a, W
    <3> QED BY <3>3, <3>4, <1>3
  <2>2. CASE x # first
    <3>1. (s \ {x}) \ {first} = (s \ {first}) \ {x} /\ x \in s \ {first}
      BY <2>2
    <3>2. Cardinality(Keyed(D, key, s \ {first}))
            = Cardinality(Keyed(D, key, {x})) + Cardinality(Keyed(D, key, (s \ {first}) \ {x}))
      BY <3>1, <1>4, KeyedSplit
    <3>3. f[x] = Cardinality(Keyed(D, key, {x}))
      BY <1>5, <2>2
    <3>4. first \in s <=> first \in s \ {x}
      BY <2>2
    <3> DEFINE a == Cardinality(Keyed(D, key, s \ {first}))
               b == Cardinality(Keyed(D, key, {x}))
               c == Cardinality(Keyed(D, key, (s \ {first}) \ {x}))
               e == IF first \in s THEN T ELSE 0
    <3>5. a \in Nat /\ b \in Nat /\ c \in Nat /\ e \in Int
      BY <1>3, <1>10
    <3>6. W[s] = a + e /\ W[s \ {x}] = c + e
      BY <3>1, <3>4
    <3>7. a = b + c /\ f[x] = b
      BY <3>2, <3>3
    <3> HIDE DEF a, b, c, e, W
    <3> QED BY <3>5, <3>6, <3>7
  <2> QED BY <2>1, <2>2
<1>13. W[S] = Cardinality(Keyed(D, key, S \ {first})) + T
  BY <1>6
<1> HIDE DEF W, S
<1>14. SumFunction(f) = W[S]
  <2>1. Tallies(W, f, S)
    BY <1>11, <1>12 DEF Tallies
  <2> QED BY <1>4, <1>6, <2>1, SumIs
<1>15. Requests(span) - T = Cardinality(Keyed(D, key, S \ {first}))
  BY <1>3, <1>7, <1>10, <1>13, <1>14
<1> QED BY <1>8, <1>15 DEF T, first

\* While the clock was never set back, a span no longer than the log is reported
\* exactly, minute by minute and summed up, but for its first minute
\* (WholeMinutesShown; server.py:716-735).
THEOREM WholeMinutesHold == Spec => []WholeMinutesShown
<1>1. IInv => WholeMinutesShown
  <2> SUFFICES ASSUME IInv, back = 0, NEW span \in Spans, span <= LogSize
               PROVE  LET first == MinuteOf(Cutoff(span))
                          whole == DOMAIN Series(span) \ {first}
                      IN  /\ \A m \in whole, n \in Names : Series(span)[m][n] = Saw(m, n)
                          /\ Requests(span) - SumFunction(Series(span)[first])
                               = Cardinality({i \in DOMAIN uses : MinuteOf(uses[i].at) > first})
    BY DEF WholeMinutesShown
  <2>1. ASSUME NEW m \in DOMAIN Series(span) \ {MinuteOf(Cutoff(span))}, NEW n \in Names
        PROVE  Series(span)[m][n] = Saw(m, n)
    <3>1. Series(span)[m][n] = Count(uses, m, n)
      BY <2>1, WholeMinute
    <3> QED BY <3>1, SawIsCount
  <2> QED BY <2>1, Summed
<1> QED BY <1>1, Invariant, PTL
=============================================================================
