--------------------------- MODULE AdapterProofs ---------------------------
(***************************************************************************)
(* What goes to the upstream and what comes back: proofs about StreamReply *)
(* and about Upstream.                                                     *)
(*                                                                         *)
(* Of a reply, whatever its documents, the sizes of their lines and the    *)
(* cuts of the network: the last line that sets a field has the last word, *)
(* what is streamed rejoins, and a document that fits arrives whole.  Of a *)
(* request, whatever is captured, asked and uploaded: it has its own       *)
(* sampling, its images in their order and the session of the browser.     *)
(*                                                                         *)
(* ParseResponse folds the lines of a document, End and FlattenSeq go      *)
(* through a sequence.  Each is a function that satisfies an equation; it  *)
(* exists because every initial segment has one (Solvable, Computable),    *)
(* and what it computes is then shown by climbing from 0 to n (Climb).     *)
(***************************************************************************)
EXTENDS StreamReply, Upstream, FiniteSetTheorems, SequenceTheorems, WellFoundedInduction, TLAPS

(***************************************************************************)
(* Folds from the left.                                                    *)
(***************************************************************************)
\* A set of natural numbers that is not empty has a smallest element.
LEMMA Smallest ==
  ASSUME NEW T \in SUBSET Nat, T # {}
  PROVE  \E x \in T : \A y \in T : x <= y
<1>1. PICK x \in T : \A y \in T : ~ (<<y, x>> \in OpToRel(<, Nat))
  BY NatLessThanWellFounded, WFMin
<1>2. \A y \in T : ~ (y < x)
  BY <1>1 DEF OpToRel
<1> QED BY <1>2

\* A set of indices has a largest.
LEMMA MaxIs ==
  ASSUME NEW n \in Nat, NEW s \in SUBSET (1..n), s # {}
  PROVE  Max(s) \in s /\ \A y \in s : y <= Max(s)
<1> DEFINE T == {t \in 0..n : n - t \in s}
<1>1. ASSUME NEW x \in s PROVE n - x \in T
  OBVIOUS
<1>2. PICK t \in T : \A y \in T : t <= y
  <2>1. PICK x \in s : TRUE
    OBVIOUS
  <2>2. T \in SUBSET Nat
    OBVIOUS
  <2> HIDE DEF T
  <2>3. T # {}
    BY <1>1, <2>1
  <2> QED BY <2>2, <2>3, Smallest
<1>3. ASSUME NEW y \in s PROVE n - t >= y
  <2>1. n - y \in T /\ t <= n - y
    BY <1>1, <1>2
  <2> QED BY <2>1
<1>4. \E z \in s : \A y \in s : z >= y
  BY <1>2, <1>3
<1>5. Max(s) \in s /\ \A y \in s : Max(s) >= y
  BY <1>4, Zenon DEF Max
<1> QED BY <1>5

\* What a fold over the indices up to n has computed of each set of them.
Solves(it, base, step, n) ==
  /\ it[{}] = base
  /\ \A s \in SUBSET (1..n) : s # {} => it[s] = step[<<it[s \ {Max(s)}], Max(s)>>]

LEMMA Solvable ==
  ASSUME NEW V, NEW base \in V, NEW n \in Nat, NEW step \in [V \X (1..n) -> V]
  PROVE  \E it \in [SUBSET (1..n) -> V] : Solves(it, base, step, n)
<1> DEFINE Good(m) == \E it \in [SUBSET (1..m) -> V] : Solves(it, base, step, m)
           Bad == {m \in 0..n : ~ Good(m)}
<1> SUFFICES ASSUME Bad # {} PROVE FALSE
  <2>1. n \in 0..n
    OBVIOUS
  <2>2. Good(n)
    BY <2>1, Zenon
  <2> QED BY <2>2
<1>1. PICK k \in Bad : \A m \in Bad : k <= m
  <2>1. Bad \in SUBSET Nat
    OBVIOUS
  <2> QED BY <2>1, Smallest
<1>2. k # 0
  <2> DEFINE it == [s \in SUBSET (1..0) |-> base]
  <2>1. it \in [SUBSET (1..0) -> V] /\ it[{}] = base
    OBVIOUS
  <2>2. \A s \in SUBSET (1..0) : s = {}
    OBVIOUS
  <2>3. Solves(it, base, step, 0)
    BY <2>1, <2>2 DEF Solves
  <2>4. Good(0)
    BY <2>1, <2>3
  <2> QED BY <2>4, <1>1
<1>3. k \in 1..n /\ k - 1 \in 0..n /\ k - 1 \notin Bad
  <2> HIDE DEF Good
  <2> QED BY <1>1, <1>2
<1>4. PICK g \in [SUBSET (1..(k - 1)) -> V] : Solves(g, base, step, k - 1)
  BY <1>3
<1> DEFINE h == [s \in SUBSET (1..k) |-> IF k \in s THEN step[<<g[s \ {k}], k>>] ELSE g[s]]
<1>5. ASSUME NEW s \in SUBSET (1..k)
      PROVE  /\ s \ {k} \in SUBSET (1..(k - 1))
             /\ k \notin s => s \in SUBSET (1..(k - 1))
  BY <1>3
<1>6. h \in [SUBSET (1..k) -> V]
  <2> SUFFICES ASSUME NEW s \in SUBSET (1..k) PROVE h[s] \in V
    BY Zenon
  <2>1. CASE k \in s
    <3>1. g[s \ {k}] \in V
      BY <1>5
    <3>2. h[s] = step[<<g[s \ {k}], k>>]
      BY <2>1
    <3> QED BY <3>1, <3>2, <1>3
  <2>2. CASE k \notin s
    BY <1>5, <2>2
  <2> QED BY <2>1, <2>2
<1>7. h[{}] = base
  <2>1. {} \in SUBSET (1..k)
    OBVIOUS
  <2> QED BY <2>1, <1>4 DEF Solves
<1>8. ASSUME NEW s \in SUBSET (1..k), s # {}
      PROVE  h[s] = step[<<h[s \ {Max(s)}], Max(s)>>]
  <2>1. Max(s) \in s /\ \A y \in s : y <= Max(s)
    <3>1. k \in Nat /\ s # {}
      BY <1>3, <1>8
    <3> QED BY <3>1, MaxIs, Zenon
  <2>2. CASE k \in s
    <3>1. Max(s) = k
      <4>1. Max(s) \in 1..k
        BY <2>1
      <4> QED BY <2>1, <2>2, <4>1
    <3>2. s \ {k} \in SUBSET (1..k) /\ k \notin s \ {k}
      OBVIOUS
    <3>3. h[s \ {k}] = g[s \ {k}]
      BY <3>2
    <3>4. h[s] = step[<<g[s \ {k}], k>>]
      BY <2>2
    <3> HIDE DEF h
    <3> QED BY <3>1, <3>3, <3>4
  <2>3. CASE k \notin s
    <3>1. s \in SUBSET (1..(k - 1))
      BY <1>5, <2>3
    <3>2. s \ {Max(s)} \in SUBSET (1..k) /\ k \notin s \ {Max(s)}
      BY <2>3
    <3>3. h[s] = g[s] /\ h[s \ {Max(s)}] = g[s \ {Max(s)}]
      BY <2>3, <3>2
    <3>4. g[s] = step[<<g[s \ {Max(s)}], Max(s)>>]
      BY <1>4, <3>1, <1>8 DEF Solves
    <3> HIDE DEF h
    <3> QED BY <3>3, <3>4
  <2> QED BY <2>2, <2>3
<1>9. Solves(h, base, step, k)
  <2> HIDE DEF h
  <2> QED BY <1>7, <1>8 DEF Solves
<1>10. Good(k)
  BY <1>6, <1>9
<1> QED BY <1>1, <1>10

\* What holds of 0 and is handed on from each number to the next.
LEMMA Climb ==
  ASSUME NEW n \in Nat, NEW S, 0 \in S, \A k \in 1..n : k - 1 \in S => k \in S
  PROVE  \A k \in 0..n : k \in S
<1> DEFINE Out == (0..n) \ S
<1> SUFFICES ASSUME Out # {} PROVE FALSE
  OBVIOUS
<1>1. Out \in SUBSET Nat
  OBVIOUS
<1>2. PICK k \in Out : \A m \in Out : k <= m
  BY <1>1, Smallest
<1>3. k \in 1..n /\ k - 1 \in 0..n /\ k - 1 \notin Out
  BY <1>2
<1> QED BY <1>2, <1>3

\* The indices up to k: k is the largest of them.
LEMMA UpTo ==
  ASSUME NEW n \in Nat, NEW k \in 1..n
  PROVE  1..k \in SUBSET (1..n) /\ 1..k # {} /\ Max(1..k) = k /\ (1..k) \ {k} = 1..(k - 1)
<1>1. k \in Nat /\ k >= 1 /\ k <= n
  OBVIOUS
<1>2. k \in 1..k
  BY <1>1
<1>3. \A i \in 1..k : i \in 1..n
  BY <1>1
<1>4. 1..k \in SUBSET (1..n) /\ 1..k # {}
  BY <1>2, <1>3
<1>5. Max(1..k) \in 1..k /\ k <= Max(1..k)
  BY <1>1, <1>2, <1>4, MaxIs
<1>6. Max(1..k) = k
  BY <1>1, <1>5
<1>7. (1..k) \ {k} = 1..(k - 1)
  BY <1>1
<1> QED BY <1>4, <1>6, <1>7

\* A fold computes its results one after the other.
LEMMA Successive ==
  ASSUME NEW n \in Nat, NEW base, NEW step, NEW it, Solves(it, base, step, n)
  PROVE  /\ it[1..0] = base
         /\ \A k \in 1..n : it[1..k] = step[<<it[1..(k - 1)], k>>]
<1>1. it[1..0] = base
  <2>1. 1..0 = {}
    OBVIOUS
  <2> QED BY <2>1 DEF Solves
<1>2. \A k \in 1..n : it[1..k] = step[<<it[1..(k - 1)], k>>]
  BY UpTo DEF Solves
<1> QED BY <1>1, <1>2

\* Results computed one from the other.
Chain(r, base, step, n) == r[0] = base /\ \A k \in 1..n : r[k] = step[<<r[k - 1], k>>]

LEMMA Computable ==
  ASSUME NEW V, NEW base \in V, NEW n \in Nat, NEW step \in [V \X (1..n) -> V]
  PROVE  \E r \in [0..n -> V] : Chain(r, base, step, n)
<1>1. PICK it \in [SUBSET (1..n) -> V] : Solves(it, base, step, n)
  BY Solvable
<1> DEFINE r == [k \in 0..n |-> it[1..k]]
<1>2. r \in [0..n -> V]
  <2>1. \A k \in 0..n : 1..k \in SUBSET (1..n)
    OBVIOUS
  <2> QED BY <2>1
<1>3. it[1..0] = base /\ \A k \in 1..n : it[1..k] = step[<<it[1..(k - 1)], k>>]
  BY <1>1, Successive
<1>4. r[0] = base /\ \A k \in 1..n : r[k] = step[<<r[k - 1], k>>]
  BY <1>3
<1> HIDE DEF r
<1> QED BY <1>2, <1>4 DEF Chain

-----------------------------------------------------------------------------
(***************************************************************************)
(* Where the lines of a document end.                                      *)
(***************************************************************************)
LEMMA EndIs ==
  ASSUME doc \in Documents
  PROVE  /\ End \in [0..Len(doc) -> Nat]
         /\ End[0] = 0
         /\ \A i \in 1..Len(doc) : End[i] >= End[i - 1] + 2
<1> DEFINE n == Len(doc)
<1>1. n \in Nat /\ \A i \in 1..n : Size(doc[i]) \in Nat /\ Size(doc[i]) >= 2
  <2>1. doc \in Seq(Lines)
    BY DocumentsAssumption
  <2>2. DOMAIN doc = 1..n /\ n \in Nat
    BY <2>1
  <2> HIDE DEF n
  <2>3. \A i \in 1..n : Size(doc[i]) \in Nat \ {0, 1}
    BY <2>2, SizeAssumption
  <2>4. \A m \in Nat \ {0, 1} : m >= 2
    OBVIOUS
  <2> QED BY <2>2, <2>3, <2>4
<1> DEFINE Ends(f) == f = [i \in 0..n |-> IF i = 0 THEN 0 ELSE f[i - 1] + Size(doc[i])]
<1>2. End = CHOOSE f : Ends(f)
  BY Zenon DEF End, n
<1> HIDE DEF n
<1> DEFINE step == [p \in Nat \X (1..n) |-> p[1] + Size(doc[p[2]])]
<1>3. step \in [Nat \X (1..n) -> Nat] /\ \A a \in Nat, i \in 1..n : step[<<a, i>>] = a + Size(doc[i])
  BY <1>1
<1> HIDE DEF step
<1>4. PICK r \in [0..n -> Nat] : Chain(r, 0, step, n)
  BY <1>1, <1>3, Computable, 0 \in Nat
<1>5. Ends(r)
  <2> SUFFICES ASSUME NEW i \in 0..n
               PROVE  r[i] = IF i = 0 THEN 0 ELSE r[i - 1] + Size(doc[i])
    BY <1>4, Zenon
  <2>1. CASE i = 0
    BY <2>1, <1>4 DEF Chain
  <2>2. CASE i # 0
    <3>1. i \in 1..n /\ i - 1 \in 0..n
      BY <2>2, <1>1
    <3> QED BY <3>1, <2>2, <1>3, <1>4 DEF Chain
  <2> QED BY <2>1, <2>2
<1>6. Ends(End)
  <2> HIDE DEF Ends
  <2> QED BY <1>2, <1>5, Zenon
<1>7. /\ DOMAIN End = 0..n /\ End = [i \in 0..n |-> End[i]]
      /\ End[0] = 0 /\ \A i \in 1..n : End[i] = End[i - 1] + Size(doc[i])
  <2>1. DOMAIN End = 0..n
    BY <1>6, Zenon
  <2>2. \A i \in 0..n : End[i] = IF i = 0 THEN 0 ELSE End[i - 1] + Size(doc[i])
    BY <1>6, Zenon
  <2>3. 0 \in 0..n /\ \A i \in 1..n : i \in 0..n /\ i # 0
    BY <1>1
  <2>4. End = [i \in 0..n |-> End[i]]
    BY <1>6, <2>1, Zenon
  <2> HIDE DEF Ends
  <2> QED BY <2>1, <2>2, <2>3, <2>4
<1>8. \A i \in 0..n : End[i] \in Nat
  <2> DEFINE S == {i \in 0..n : End[i] \in Nat}
  <2>1. 0 \in S
    BY <1>1, <1>7
  <2>2. ASSUME NEW k \in 1..n, k - 1 \in S PROVE k \in S
    <3>1. k \in 0..n /\ End[k - 1] \in Nat /\ Size(doc[k]) \in Nat
      BY <2>2, <1>1
    <3>2. End[k] = End[k - 1] + Size(doc[k])
      BY <1>7
    <3>3. End[k] \in Nat
      BY <3>1, <3>2
    <3> QED BY <3>1, <3>3
  <2> HIDE DEF S
  <2>3. \A k \in 0..n : k \in S
    BY <1>1, <2>1, <2>2, Climb
  <2> QED BY <2>3 DEF S
<1>9. End \in [0..n -> Nat]
  BY <1>7, <1>8
<1>10. ASSUME NEW i \in 1..n PROVE End[i] >= End[i - 1] + 2
  <2>1. i - 1 \in 0..n
    BY <1>1
  <2>2. End[i - 1] \in Nat /\ Size(doc[i]) \in Nat /\ Size(doc[i]) >= 2
    BY <2>1, <1>1, <1>8
  <2>3. End[i] = End[i - 1] + Size(doc[i])
    BY <1>7
  <2> QED BY <2>2, <2>3
<1> QED BY <1>7, <1>9, <1>10 DEF n

\* The ends of the lines are in order.
LEMMA EndsInOrder ==
  ASSUME doc \in Documents
  PROVE  /\ BodyEnd \in Nat
         /\ \A i \in 1..Len(doc) : End[i] \in Nat /\ End[i] >= 2 /\ End[i] <= BodyEnd
<1> DEFINE n == Len(doc)
<1>1. n \in Nat
  BY DocumentsAssumption
<1>2. /\ End \in [0..n -> Nat] /\ BodyEnd = End[n]
      /\ \A i \in 1..n : End[i] >= End[i - 1] + 2
  BY EndIs DEF BodyEnd
<1> HIDE DEF n
<1>3. ASSUME NEW i \in 1..n PROVE End[i] >= 2
  BY <1>1, <1>2
<1> DEFINE S == {k \in 0..n : \A i \in 0..k : End[i] <= End[k]}
<1>4. 0 \in S
  BY <1>1, <1>2
<1>5. ASSUME NEW k \in 1..n, k - 1 \in S PROVE k \in S
  <2>1. k - 1 \in 0..n /\ k \in 0..n /\ 0..k = (0..(k - 1)) \cup {k}
    BY <1>1
  <2>2. End[k] >= End[k - 1] + 2 /\ End[k] \in Nat /\ End[k - 1] \in Nat
    BY <1>2, <2>1
  <2>3. ASSUME NEW i \in 0..(k - 1) PROVE End[i] <= End[k]
    <3>1. i \in 0..n /\ End[i] \in Nat
      BY <1>1, <1>2
    <3> QED BY <1>5, <2>2, <3>1
  <2> QED BY <2>1, <2>2, <2>3
<1>6. n \in S
  <2> HIDE DEF S
  <2>1. \A k \in 0..n : k \in S
    BY <1>1, <1>4, <1>5, Climb
  <2> QED BY <2>1, <1>1
<1>7. \A i \in 1..n : End[i] \in Nat /\ End[i] <= End[n]
  BY <1>1, <1>2, <1>6
<1> QED BY <1>1, <1>2, <1>3, <1>7 DEF n

-----------------------------------------------------------------------------
(***************************************************************************)
(* What a document is parsed into.                                         *)
(***************************************************************************)
LEMMA NothingType == Nothing \in Parsed /\ NoUsage \in Usages
BY DEF Nothing, Parsed, NoUsage, Usages, Texts

LEMMA UsageType ==
  ASSUME NEW counts \in Counts
  PROVE  UsageOf(counts) \in Usages
<1> DEFINE prompt == IF counts.ttoken > counts.mtoken THEN counts.ttoken - counts.mtoken ELSE 0
           total  == IF counts.ttoken # 0 THEN counts.ttoken ELSE prompt + counts.mtoken
<1>1. counts.ttoken \in Nat /\ counts.mtoken \in Nat
  BY DEF Counts
<1>2. prompt \in Nat
  BY <1>1
<1> HIDE DEF prompt
<1>3. total \in Nat
  BY <1>1, <1>2
<1>4. UsageOf(counts) = [prompt |-> prompt, completion |-> counts.mtoken, total |-> total]
  BY DEF UsageOf, prompt
<1> HIDE DEF total
<1> QED BY <1>1, <1>2, <1>3, <1>4 DEF Usages

LEMMA FoldType ==
  ASSUME NEW result \in Parsed, NEW line \in Lines
  PROVE  Fold(result, line) \in Parsed
<1>1. CASE line = Framing
  BY <1>1 DEF Fold
<1>2. CASE line # Framing
  <2>1. line \in Inner
    BY <1>2 DEF Lines
  <2>2. /\ line.candidates \in Seq(Texts) /\ line.calls \in Seq(Calls) /\ line.counts \in Counts
        /\ result.content \in Texts /\ result.reasoning \in Texts
    BY <2>1 DEF Inner, Parsed
  <2>3. Answer(result, line) \in Texts
    BY <2>2 DEF Answer
  <2>4. Reasoning(result, line) \in Texts
    BY <2>2 DEF Reasoning
  <2>5. UsageOf(line.counts) \in Usages
    BY <2>2, UsageType
  <2> QED BY <1>2, <2>2, <2>3, <2>4, <2>5 DEF Fold, Parsed
<1> QED BY <1>1, <1>2

\* The fold that ParseResponse is.
FoldsLines(it, q) ==
  it = [s \in SUBSET DOMAIN q |-> IF s = {} THEN Nothing ELSE Fold(it[s \ {Max(s)}], q[Max(s)])]

LEMMA ParseResponseIs ==
  ASSUME NEW q
  PROVE  ParseResponse(q) = (CHOOSE it : FoldsLines(it, q))[DOMAIN q]
BY Zenon DEF ParseResponse, FoldLeft, MapThenFoldSet, FoldsLines

\* What the document is parsed into, line by line.
LineByLine(r, q) == r[0] = Nothing /\ \A k \in 1..Len(q) : r[k] = Fold(r[k - 1], q[k])

LEMMA ParsedLineByLine ==
  ASSUME NEW q \in Seq(Lines)
  PROVE  \E r \in [0..Len(q) -> Parsed] : LineByLine(r, q) /\ ParseResponse(q) = r[Len(q)]
<1> DEFINE n == Len(q)
<1>1. n \in Nat /\ DOMAIN q = 1..n /\ \A i \in 1..n : q[i] \in Lines
  OBVIOUS
<1> HIDE DEF n
<1> DEFINE step == [p \in Parsed \X (1..n) |-> Fold(p[1], q[p[2]])]
<1>2. step \in [Parsed \X (1..n) -> Parsed]
  <2>1. ASSUME NEW p \in Parsed \X (1..n) PROVE Fold(p[1], q[p[2]]) \in Parsed
    <3>1. p[1] \in Parsed /\ q[p[2]] \in Lines
      BY <1>1
    <3> QED BY <3>1, FoldType
  <2> QED BY <2>1
<1>3. \A a \in Parsed, i \in 1..n : step[<<a, i>>] = Fold(a, q[i])
  OBVIOUS
<1> HIDE DEF step
<1>4. PICK f \in [SUBSET (1..n) -> Parsed] : Solves(f, Nothing, step, n)
  BY <1>1, <1>2, Solvable, NothingType
<1>5. FoldsLines(f, q)
  <2> SUFFICES ASSUME NEW s \in SUBSET (1..n)
               PROVE  f[s] = IF s = {} THEN Nothing ELSE Fold(f[s \ {Max(s)}], q[Max(s)])
    BY <1>1, <1>4, Zenon DEF FoldsLines
  <2>1. CASE s = {}
    BY <2>1, <1>4 DEF Solves
  <2>2. CASE s # {}
    <3>1. f[s] = step[<<f[s \ {Max(s)}], Max(s)>>]
      BY <2>2, <1>4 DEF Solves
    <3>2. Max(s) \in 1..n
      BY <2>2, <1>1, MaxIs
    <3>3. f[s \ {Max(s)}] \in Parsed
      BY <1>4
    <3> QED BY <3>1, <3>2, <3>3, <1>3, <2>2
  <2> QED BY <2>1, <2>2
<1> DEFINE it == CHOOSE g : FoldsLines(g, q)
<1>6. FoldsLines(it, q)
  BY <1>5, Zenon
<1>7. ParseResponse(q) = it[DOMAIN q]
  BY ParseResponseIs, Zenon
<1> HIDE DEF it
<1>8. it[{}] = Nothing
  BY <1>1, <1>6, Zenon DEF FoldsLines
<1>9. ASSUME NEW s \in SUBSET (1..n), s # {}
      PROVE  it[s] = Fold(it[s \ {Max(s)}], q[Max(s)])
  <2>1. s \in SUBSET DOMAIN q
    BY <1>1
  <2> QED BY <2>1, <1>6, <1>9, Zenon DEF FoldsLines
<1> DEFINE r == [k \in 0..n |-> it[1..k]]
<1>10. r[0] = Nothing /\ r[n] = it[DOMAIN q]
  <2>1. 1..0 = {} /\ 0 \in 0..n /\ n \in 0..n
    BY <1>1
  <2> QED BY <2>1, <1>1, <1>8
<1>11. ASSUME NEW k \in 1..n PROVE r[k] = Fold(r[k - 1], q[k])
  <2>1. k \in 0..n /\ k - 1 \in 0..n
    BY <1>1
  <2>2. /\ 1..k \in SUBSET (1..n) /\ 1..k # {}
        /\ Max(1..k) = k /\ (1..k) \ {k} = 1..(k - 1)
    BY <1>1, UpTo
  <2>3. it[1..k] = Fold(it[(1..k) \ {Max(1..k)}], q[Max(1..k)])
    BY <1>9, <2>2, Zenon
  <2>4. it[1..k] = Fold(it[1..(k - 1)], q[k])
    BY <2>2, <2>3, Zenon
  <2> QED BY <2>1, <2>4
<1> HIDE DEF r
<1>12. r \in [0..n -> Parsed]
  <2>1. DOMAIN r = 0..n /\ r = [k \in 0..n |-> r[k]]
    BY DEF r
  <2> DEFINE S == {k \in 0..n : r[k] \in Parsed}
  <2>2. 0 \in S
    BY <1>1, <1>10, NothingType
  <2>3. ASSUME NEW k \in 1..n, k - 1 \in S PROVE k \in S
    <3>1. r[k - 1] \in Parsed /\ q[k] \in Lines /\ k \in 0..n
      BY <1>1, <2>3
    <3> QED BY <3>1, <1>11, FoldType
  <2> HIDE DEF S
  <2>4. \A k \in 0..n : k \in S
    BY <1>1, <2>2, <2>3, Climb
  <2> QED BY <2>1, <2>4 DEF S
<1> QED BY <1>7, <1>10, <1>11, <1>12 DEF LineByLine, n

\* The lines among the first k that satisfy a condition have a latest one, which
\* is k when k does.
LEMMA LatestIs ==
  ASSUME NEW k \in Nat, NEW S \in SUBSET (1..k)
  PROVE  /\ S # {} => Latest(S) # {}
         /\ k >= 1 /\ k \in S => Latest(S) = {k}
<1>1. ASSUME S # {} PROVE Latest(S) # {}
  <2>1. Max(S) \in S /\ \A y \in S : y <= Max(S)
    BY <1>1, MaxIs
  <2> QED BY <2>1 DEF Latest
<1>2. ASSUME k >= 1, k \in S PROVE Latest(S) = {k}
  <2>1. k \in Latest(S)
    BY <1>2 DEF Latest
  <2>2. ASSUME NEW i \in Latest(S) PROVE i = k
    <3>1. i \in 1..k /\ k <= i
      BY <1>2 DEF Latest
    <3> QED BY <3>1
  <2> QED BY <2>1, <2>2
<1> QED BY <1>1, <1>2

\* One line more belongs to them or not.
LEMMA OneLineMore ==
  ASSUME NEW q, NEW k \in Nat, k >= 1
  PROVE  /\ Reading(q, k) = Reading(q, k - 1) \cup (IF IsInner(q[k]) THEN {k} ELSE {})
         /\ Answering(q, k) = Answering(q, k - 1) \cup (IF Answers(q[k]) THEN {k} ELSE {})
         /\ Explaining(q, k) = Explaining(q, k - 1) \cup (IF Explains(q, k) THEN {k} ELSE {})
<1>1. 1..k = (1..(k - 1)) \cup {k}
  OBVIOUS
<1>2. Reading(q, k) = Reading(q, k - 1) \cup (IF IsInner(q[k]) THEN {k} ELSE {})
  BY <1>1, Zenon DEF Reading
<1>3. Answering(q, k) = Answering(q, k - 1) \cup (IF Answers(q[k]) THEN {k} ELSE {})
  BY <1>1, Zenon DEF Answering
<1>4. Explaining(q, k) = Explaining(q, k - 1) \cup (IF Explains(q, k) THEN {k} ELSE {})
  BY <1>1, Zenon DEF Explaining
<1> QED BY <1>2, <1>3, <1>4

\* The answer after k lines, when they are folded one after the other.
LEMMA AnswerSoFar ==
  ASSUME NEW q \in Seq(Lines), NEW r \in [0..Len(q) -> Parsed], LineByLine(r, q),
         NEW k \in 1..Len(q), HasLastWords(r[k - 1], q, k - 1)
  PROVE  /\ Answering(q, k) = {} => r[k].content = <<>>
         /\ \A i \in Latest(Answering(q, k)) : r[k].content = q[i].candidates[1]
<1>1. r[k] = Fold(r[k - 1], q[k]) /\ k \in Nat /\ k >= 1
  BY DEF LineByLine
<1>2. Answering(q, k) = Answering(q, k - 1) \cup (IF Answers(q[k]) THEN {k} ELSE {})
  BY <1>1, OneLineMore
<1>3. /\ Answering(q, k - 1) = {} => r[k - 1].content = <<>>
      /\ \A i \in Latest(Answering(q, k - 1)) : r[k - 1].content = q[i].candidates[1]
  BY DEF HasLastWords
<1>4. CASE Answers(q[k])
  <2>1. r[k].content = q[k].candidates[1]
    BY <1>1, <1>4 DEF Fold, Answer, Answers, IsInner
  <2>2. k \in Answering(q, k) /\ Answering(q, k) \in SUBSET (1..k)
    BY <1>2, <1>4 DEF Answering
  <2>3. Latest(Answering(q, k)) = {k}
    BY <1>1, <2>2, LatestIs
  <2> QED BY <2>1, <2>2, <2>3
<1>5. CASE ~ Answers(q[k])
  <2>1. r[k].content = r[k - 1].content
    BY <1>1, <1>5 DEF Fold, Answer, Answers, IsInner
  <2>2. Answering(q, k) = Answering(q, k - 1)
    BY <1>2, <1>5
  <2> QED BY <1>3, <2>1, <2>2
<1> QED BY <1>4, <1>5

\* It is the answer in force that a second candidate is compared with.
LEMMA ExplainsIf ==
  ASSUME NEW q \in Seq(Lines), NEW r \in [0..Len(q) -> Parsed], LineByLine(r, q),
         NEW k \in 1..Len(q), HasLastWords(r[k - 1], q, k - 1), IsInner(q[k])
  PROVE  r[k].reasoning = IF Explains(q, k) THEN q[k].candidates[2] ELSE r[k - 1].reasoning
<1>1. r[k] = Fold(r[k - 1], q[k]) /\ q[k] # Framing /\ k \in Nat /\ k >= 1
  BY DEF LineByLine, IsInner
<1>2. /\ Answering(q, k) = {} => r[k].content = <<>>
      /\ \A i \in Latest(Answering(q, k)) : r[k].content = q[i].candidates[1]
  BY AnswerSoFar
<1>3. /\ r[k].content = Answer(r[k - 1], q[k])
      /\ r[k].reasoning = Reasoning(r[k - 1], q[k])
  BY <1>1 DEF Fold
<1>4. Answering(q, k) # {} => Latest(Answering(q, k)) # {}
  <2>1. Answering(q, k) \in SUBSET (1..k)
    BY DEF Answering
  <2> QED BY <1>1, <2>1, LatestIs
<1>5. \A i \in Latest(Answering(q, k)) : q[i].candidates[1] # <<>>
  BY DEF Latest, Answering, Answers
<1>6. Explains(q, k) <=> /\ Len(q[k].candidates) >= 2 /\ r[k].content # <<>>
                         /\ q[k].candidates[2] \notin {<<>>, r[k].content}
  BY <1>2, <1>4, <1>5, Zenon DEF Explains
<1> QED BY <1>3, <1>6, Zenon DEF Reasoning

LEMMA OneMoreLine ==
  ASSUME NEW q \in Seq(Lines), NEW r \in [0..Len(q) -> Parsed], LineByLine(r, q),
         NEW k \in 1..Len(q), HasLastWords(r[k - 1], q, k - 1)
  PROVE  HasLastWords(r[k], q, k)
<1>1. r[k] = Fold(r[k - 1], q[k]) /\ k \in Nat /\ k >= 1
  BY DEF LineByLine
<1>2. /\ Reading(q, k) = Reading(q, k - 1) \cup (IF IsInner(q[k]) THEN {k} ELSE {})
      /\ Explaining(q, k) = Explaining(q, k - 1) \cup (IF Explains(q, k) THEN {k} ELSE {})
  BY <1>1, OneLineMore
<1>3. /\ \A i \in Latest(Explaining(q, k - 1)) : r[k - 1].reasoning = q[i].candidates[2]
      /\ Explaining(q, k - 1) = {} => r[k - 1].reasoning = <<>>
      /\ \A i \in Latest(Reading(q, k - 1)) :
           r[k - 1].calls = q[i].calls /\ r[k - 1].usage = UsageOf(q[i].counts)
      /\ Reading(q, k - 1) = {} => r[k - 1].calls = <<>> /\ r[k - 1].usage = NoUsage
  BY DEF HasLastWords
<1>4. /\ Answering(q, k) = {} => r[k].content = <<>>
      /\ \A i \in Latest(Answering(q, k)) : r[k].content = q[i].candidates[1]
  BY AnswerSoFar
<1>5. /\ \A i \in Latest(Explaining(q, k)) : r[k].reasoning = q[i].candidates[2]
      /\ Explaining(q, k) = {} => r[k].reasoning = <<>>
  <2>1. CASE Explains(q, k)
    <3>1. r[k].reasoning = q[k].candidates[2]
      BY <2>1, ExplainsIf DEF Explains
    <3>2. k \in Explaining(q, k) /\ Explaining(q, k) \in SUBSET (1..k)
      BY <1>2, <2>1 DEF Explaining
    <3>3. Latest(Explaining(q, k)) = {k}
      BY <1>1, <3>2, LatestIs
    <3> QED BY <3>1, <3>2, <3>3
  <2>2. CASE ~ Explains(q, k)
    <3>1. r[k].reasoning = r[k - 1].reasoning
      <4>1. CASE IsInner(q[k])
        BY <2>2, <4>1, ExplainsIf
      <4>2. CASE ~ IsInner(q[k])
        BY <1>1, <4>2 DEF IsInner, Fold
      <4> QED BY <4>1, <4>2
    <3>2. Explaining(q, k) = Explaining(q, k - 1)
      BY <1>2, <2>2
    <3> QED BY <1>3, <3>1, <3>2
  <2> QED BY <2>1, <2>2
<1>6. /\ \A i \in Latest(Reading(q, k)) :
           r[k].calls = q[i].calls /\ r[k].usage = UsageOf(q[i].counts)
      /\ Reading(q, k) = {} => r[k].calls = <<>> /\ r[k].usage = NoUsage
  <2>1. CASE IsInner(q[k])
    <3>1. r[k].calls = q[k].calls /\ r[k].usage = UsageOf(q[k].counts)
      BY <1>1, <2>1 DEF Fold, IsInner
    <3>2. k \in Reading(q, k) /\ Reading(q, k) \in SUBSET (1..k)
      BY <1>2, <2>1 DEF Reading
    <3>3. Latest(Reading(q, k)) = {k}
      BY <1>1, <3>2, LatestIs
    <3> QED BY <3>1, <3>2, <3>3
  <2>2. CASE ~ IsInner(q[k])
    <3>1. r[k] = r[k - 1]
      BY <1>1, <2>2 DEF Fold, IsInner
    <3>2. Reading(q, k) = Reading(q, k - 1)
      BY <1>2, <2>2
    <3> QED BY <1>3, <3>1, <3>2
  <2> QED BY <2>1, <2>2
<1> QED BY <1>4, <1>5, <1>6 DEF HasLastWords

\* What lines are parsed into has, in each field, the last word on it.
LEMMA ParsingHasLastWords ==
  ASSUME NEW q \in Seq(Lines)
  PROVE  HasLastWords(ParseResponse(q), q, Len(q))
<1>1. PICK r \in [0..Len(q) -> Parsed] : LineByLine(r, q) /\ ParseResponse(q) = r[Len(q)]
  BY ParsedLineByLine
<1> DEFINE n == Len(q)
           S == {k \in 0..n : HasLastWords(r[k], q, k)}
<1>2. n \in Nat
  OBVIOUS
<1>3. 0 \in S
  <2>1. 0 \in 0..n /\ 1..0 = {}
    OBVIOUS
  <2>2. Reading(q, 0) = {} /\ Answering(q, 0) = {} /\ Explaining(q, 0) = {}
    BY <2>1 DEF Reading, Answering, Explaining
  <2>3. r[0] = Nothing /\ Latest({}) = {}
    BY <1>1 DEF LineByLine, Latest
  <2>4. HasLastWords(r[0], q, 0)
    BY <2>2, <2>3 DEF HasLastWords, Nothing
  <2> QED BY <2>1, <2>4
<1>4. ASSUME NEW k \in 1..n, k - 1 \in S PROVE k \in S
  <2>1. HasLastWords(r[k - 1], q, k - 1) /\ k \in 0..n
    BY <1>4
  <2> QED BY <2>1, <1>1, OneMoreLine
<1>5. HasLastWords(r[n], q, n)
  <2> HIDE DEF S
  <2>1. \A k \in 0..n : k \in S
    BY <1>2, <1>3, <1>4, Climb
  <2> QED BY <2>1, <1>2 DEF S
<1> QED BY <1>1, <1>5

-----------------------------------------------------------------------------
(***************************************************************************)
(* The size and the number of chunks.                                      *)
(***************************************************************************)
LEMMA DivIs ==
  ASSUME NEW a \in Nat, NEW b \in Nat \ {0}
  PROVE  /\ a \div b \in Nat
         /\ b * (a \div b) <= a
         /\ a < b * (a \div b) + b
OBVIOUS

LEMMA Products ==
  ASSUME NEW a \in Nat, NEW b \in Nat, NEW c \in Nat
  PROVE  a <= b => a * c <= b * c /\ c * a <= c * b
OBVIOUS

LEMMA Divided ==
  ASSUME NEW a \in Nat, NEW b \in Nat \ {0}, NEW m \in Nat, m * b <= a
  PROVE  m <= a \div b
OBVIOUS

\* There is a step, and few of them make up the whole length.
LEMMA StepFacts ==
  ASSUME NEW L \in Nat
  PROVE  /\ Step(L) \in Nat \ {0}
         /\ \A c \in Nat \ {0} : c = 1 \/ (c - 1) * Step(L) < L
              => c <= MaxChunks + MaxChunks \div ChunkChars + 1
<1> DEFINE w == Atleast1(L \div ChunkChars)
           t == IF w < MaxChunks THEN w ELSE MaxChunks
           s == Atleast1(L \div t)
           more == MaxChunks \div ChunkChars
<1>1. ChunkChars \in Nat \ {0} /\ MaxChunks \in Nat \ {0} /\ more \in Nat
  BY ChunkAssumption, DivIs
<1>2. Step(L) = s
  BY DEF Step
<1>3. w \in Nat \ {0}
  <2>1. L \div ChunkChars \in Nat
    BY <1>1, DivIs
  <2> QED BY <2>1 DEF Atleast1
<1>4. w = 1 \/ w = L \div ChunkChars
  BY DEF Atleast1
<1> HIDE DEF w
<1>5. t \in Nat \ {0} /\ t <= MaxChunks /\ t <= w
  BY <1>1, <1>3
<1> HIDE DEF t
<1>6. L \div t \in Nat /\ t * (L \div t) <= L /\ L < t * (L \div t) + t
  BY <1>5, DivIs
<1>7. s \in Nat \ {0} /\ s >= L \div t
  BY <1>6 DEF Atleast1
<1>8. ASSUME w = 1, NEW d \in Nat, d * s < L
      PROVE  d = 0
  <2>1. t = 1
    BY <1>5, <1>8
  <2>2. L <= s
    BY <1>6, <1>7, <2>1
  <2> HIDE DEF s
  <2>3. d >= 1 => d * s >= 1 * s
    BY <1>7, Products
  <2> QED BY <1>7, <1>8, <2>2, <2>3
<1>9. ASSUME w = L \div ChunkChars, NEW d \in Nat, d * s < L
      PROVE  d <= t + more
  <2>1. ChunkChars * t <= L
    <3>1. ChunkChars * w <= L
      BY <1>1, <1>9, DivIs
    <3>2. ChunkChars * t <= ChunkChars * w
      BY <1>1, <1>3, <1>5, Products
    <3> HIDE DEF more, s
    <3> DEFINE x == ChunkChars * t  y == ChunkChars * w
    <3>3. x \in Nat /\ y \in Nat
      BY <1>1, <1>3, <1>5
    <3>4. x <= y /\ y <= L
      BY <3>1, <3>2
    <3> HIDE DEF x, y
    <3>5. x <= L
      BY <3>3, <3>4
    <3> QED BY <3>5 DEF x
  <2>2. L \div t >= ChunkChars
    BY <1>1, <1>5, <2>1, Divided
  <2>3. s = L \div t
    BY <2>2, <1>1, <1>6 DEF Atleast1
  <2> HIDE DEF s
  <2>4. CASE d <= t
    BY <2>4, <1>1, <1>5
  <2>5. CASE d > t
    <3> DEFINE e == d - t
    <3>1. e \in Nat /\ d = t + e
      BY <2>5, <1>5
    <3> HIDE DEF e
    <3>2. (t + e) * s = t * s + e * s
      BY <3>1, <1>5, <1>7
    <3>3. e * s < t
      <4> DEFINE x == t * s  y == e * s
      <4>1. x \in Nat /\ y \in Nat /\ x + y < L /\ L < x + t
        BY <1>5, <1>6, <1>7, <1>9, <2>3, <3>1, <3>2
      <4> HIDE DEF x, y
      <4>2. y < t
        BY <4>1, <1>5
      <4> QED BY <4>2 DEF y
    <3>4. e * ChunkChars <= e * s
      BY <1>1, <1>7, <2>2, <2>3, <3>1, Products
    <3>5. e * ChunkChars <= MaxChunks
      <4> DEFINE x == e * ChunkChars  y == e * s
      <4>1. x \in Nat /\ y \in Nat /\ x <= y /\ y < t
        BY <1>1, <1>7, <3>1, <3>3, <3>4
      <4> HIDE DEF x, y
      <4>2. x <= MaxChunks
        BY <4>1, <1>1, <1>5
      <4> QED BY <4>2 DEF x
    <3>6. e <= more
      BY <1>1, <3>1, <3>5, Divided
    <3> QED BY <1>1, <1>5, <3>1, <3>6
  <2> QED BY <2>4, <2>5, <1>5
<1>10. ASSUME NEW c \in Nat \ {0}, c = 1 \/ (c - 1) * Step(L) < L
       PROVE  c <= MaxChunks + more + 1
  <2> HIDE DEF s, more
  <2>1. CASE c = 1
    BY <2>1, <1>1
  <2>2. CASE (c - 1) * s < L
    <3> DEFINE d == c - 1
    <3>1. d \in Nat /\ c = d + 1 /\ d * s < L
      BY <2>2
    <3> HIDE DEF d
    <3>2. d <= t + more
      BY <3>1, <1>1, <1>4, <1>5, <1>8, <1>9
    <3> QED BY <3>1, <3>2, <1>1, <1>5
  <2> QED BY <1>2, <1>10, <2>1, <2>2
<1> QED BY <1>2, <1>7, <1>10

-----------------------------------------------------------------------------
(***************************************************************************)
(* Sequences joined into one.                                              *)
(***************************************************************************)
\* Whatever adds the sequences up one after the other arrives at their join.
AddsUp(g, seqs, n) ==
  Len(seqs) = n /\ g[1] = seqs[1] /\ \A i \in 2..n : g[i] = g[i - 1] \o seqs[i]

LEMMA FlattenIs ==
  ASSUME NEW n \in Nat \ {0}, NEW seqs, NEW V, NEW g \in [1..n -> V], AddsUp(g, seqs, n)
  PROVE  FlattenSeq(seqs) = g[n]
<1>0. Len(seqs) = n /\ g[1] = seqs[1] /\ \A i \in 2..n : g[i] = g[i - 1] \o seqs[i]
  BY DEF AddsUp
<1> DEFINE Joins(f) == f = [i \in 1..n |-> IF i = 1 THEN seqs[i] ELSE f[i - 1] \o seqs[i]]
           join == CHOOSE f : Joins(f)
<1>1. FlattenSeq(seqs) = join[n]
  <2>1. Len(seqs) # 0
    BY <1>0
  <2> QED BY <1>0, <2>1, Zenon DEF FlattenSeq
<1>2. Joins(g)
  <2> SUFFICES ASSUME NEW i \in 1..n
               PROVE  g[i] = IF i = 1 THEN seqs[i] ELSE g[i - 1] \o seqs[i]
    <3>1. g = [i \in 1..n |-> g[i]]
      OBVIOUS
    <3> QED BY <3>1, Zenon
  <2>1. i = 1 \/ i \in 2..n
    OBVIOUS
  <2> QED BY <1>0, <2>1
<1>3. Joins(join)
  <2> HIDE DEF Joins
  <2> QED BY <1>2, Zenon
<1> HIDE DEF join
<1>4. \A i \in 1..n : join[i] = IF i = 1 THEN seqs[i] ELSE join[i - 1] \o seqs[i]
  BY <1>3, Zenon
<1> HIDE DEF Joins
<1> DEFINE S == {k \in 0..n : k # 0 => join[k] = g[k]}
<1>5. 0 \in S
  OBVIOUS
<1>6. ASSUME NEW k \in 1..n, k - 1 \in S PROVE k \in S
  <2>1. CASE k = 1
    BY <1>0, <1>4, <2>1
  <2>2. CASE k # 1
    <3>1. k \in 2..n /\ k - 1 # 0 /\ join[k - 1] = g[k - 1]
      BY <1>6, <2>2
    <3>2. join[k] = join[k - 1] \o seqs[k]
      BY <1>4, <2>2
    <3>3. g[k] = g[k - 1] \o seqs[k]
      BY <1>0, <3>1
    <3>4. join[k] = g[k]
      BY <3>1, <3>2, <3>3, Zenon
    <3>5. k \in 0..n
      OBVIOUS
    <3> QED BY <3>4, <3>5
  <2> QED BY <2>1, <2>2
<1> HIDE DEF S
<1>7. \A k \in 0..n : k \in S
  BY <1>5, <1>6, Climb
<1>8. join[n] = g[n]
  BY <1>7 DEF S
<1> QED BY <1>1, <1>8

LEMMA FlattenType ==
  ASSUME NEW T, NEW seqs \in Seq(Seq(T))
  PROVE  FlattenSeq(seqs) \in Seq(T)
<1> DEFINE n == Len(seqs)
           V == Seq(T)
           step == [p \in V \X (1..n) |-> p[1] \o seqs[p[2]]]
<1>1. n \in Nat /\ \A i \in 1..n : seqs[i] \in V
  OBVIOUS
<1>2. CASE n = 0
  <2>1. FlattenSeq(seqs) = seqs /\ seqs = <<>>
    BY <1>2 DEF FlattenSeq
  <2> QED BY <2>1
<1>3. CASE n # 0
  <2>1. step \in [V \X (1..n) -> V]
    <3>1. ASSUME NEW p \in V \X (1..n) PROVE p[1] \o seqs[p[2]] \in V
      <4>1. p[1] \in Seq(T) /\ seqs[p[2]] \in Seq(T)
        BY <1>1
      <4> QED BY <4>1
    <3> HIDE DEF V, n
    <3> QED BY <3>1
  <2>2. <<>> \in V
    OBVIOUS
  <2>3. \A a \in V, i \in 1..n : step[<<a, i>>] = a \o seqs[i]
    <3> HIDE DEF V, n
    <3> QED OBVIOUS
  <2> HIDE DEF step
  <2>4. PICK r \in [0..n -> V] : Chain(r, <<>>, step, n)
    <3> HIDE DEF V, n
    <3> QED BY <1>1, <2>1, <2>2, Computable
  <2> DEFINE g == [i \in 1..n |-> r[i]]
  <2>5. r[1] = seqs[1]
    <3>1. 1 \in 1..n /\ r[0] = <<>>
      BY <1>1, <1>3, <2>4 DEF Chain
    <3>2. r[1] = step[<<r[1 - 1], 1>>] /\ 1 - 1 = 0
      BY <3>1, <2>4 DEF Chain
    <3>3. r[1] = <<>> \o seqs[1]
      BY <3>1, <3>2, <2>2, <2>3
    <3>4. seqs[1] \in Seq(T)
      BY <1>1, <3>1
    <3> HIDE DEF n
    <3> QED BY <3>3, <3>4, ConcatEmptySeq
  <2>6. ASSUME NEW i \in 2..n PROVE g[i] = g[i - 1] \o seqs[i]
    <3>1. i \in 1..n /\ i - 1 \in 1..n /\ i - 1 \in 0..n
      BY <1>1
    <3>2. r[i] = step[<<r[i - 1], i>>] /\ r[i - 1] \in V
      BY <3>1, <2>4 DEF Chain
    <3> HIDE DEF V, n
    <3> QED BY <2>3, <3>1, <3>2
  <2>7. g \in [1..n -> V] /\ g[1] = seqs[1] /\ n \in 1..n
    <3> HIDE DEF V
    <3> QED BY <2>5, <1>1, <1>3
  <2>8. g[n] \in Seq(T)
    BY <2>7, <1>1
  <2>9. n \in Nat \ {0} /\ Len(seqs) = n
    BY <1>1, <1>3
  <2> HIDE DEF g, n, V
  <2>10. FlattenSeq(seqs) = g[n]
    <3>1. AddsUp(g, seqs, n)
      BY <2>6, <2>7, <2>9 DEF AddsUp
    <3> QED BY <2>7, <2>9, <3>1, FlattenIs
  <2> QED BY <2>8, <2>10
<1> QED BY <1>2, <1>3

-----------------------------------------------------------------------------
(***************************************************************************)
(* The streamed reply: the invariant.                                      *)
(***************************************************************************)
\* How much of a content its first i chunks are, and the i-th of them.
Cut(full, i) ==
  IF i * Step(Len(full)) < Len(full) THEN i * Step(Len(full)) ELSE Len(full)
Piece(full, i) == Event("content", SubSeq(full, Cut(full, i - 1) + 1, Cut(full, i)))

\* The first c events are the first chunks of the content, and needed.
Chunked(full, events, c) ==
  /\ \A i \in 1..c : events[i] = Piece(full, i)
  /\ c <= 1 \/ (c - 1) * Step(Len(full)) < Len(full)

\* What is sent was parsed when the document seemed complete or was.
FromDocument ==
  /\ parsed = ParseResponse(Buffered(pos))
  /\ SeemsComplete(pos) \/ pos = BodyEnd

Events == [kind : Kinds, text : Texts]

WellTyped ==
  /\ doc \in Documents /\ pos \in 0..BodyEnd
  /\ phase \in {"reading", "sending", "usage", "done"}
  /\ parsed \in Parsed
  /\ out \in Seq(Events)

WhileReading == parsed = Nothing /\ sent = 0 /\ out = <<>>

WhileSending ==
  /\ FromDocument
  /\ Chunked(parsed.content, out, Len(out))
  /\ sent = Cut(parsed.content, Len(out))
  /\ Len(out) = 0 \/ sent < Len(parsed.content)

AllSent ==
  /\ FromDocument
  /\ Len(out) >= 1 /\ Chunked(parsed.content, out, Len(out))
  /\ sent = Len(parsed.content) /\ Cut(parsed.content, Len(out)) = sent

\* After the chunks there is a usage chunk, or none, and the end.
Ended(c) ==
  /\ FromDocument
  /\ Chunked(parsed.content, out, c)
  /\ sent = Len(parsed.content) /\ Cut(parsed.content, c) = sent
  /\ \/ Len(out) = c + 1
     \/ Len(out) = c + 2 /\ out[c + 1] = Event("usage", <<>>)
  /\ out[Len(out)] = Event("done", <<>>)

GaveUp ==
  /\ parsed = Nothing /\ sent = 0
  /\ out = <<Event("error", <<>>), Event("done", <<>>)>>

ReplyInv ==
  /\ WellTyped
  /\ phase = "reading" => WhileReading
  /\ phase = "sending" => WhileSending
  /\ phase = "usage" => AllSent
  /\ phase = "done" => GaveUp \/ \E c \in Nat \ {0} : Ended(c)

LEMMA CutFacts ==
  ASSUME NEW full \in Texts, NEW c \in Nat
  PROVE  /\ Cut(full, 0) = 0
         /\ Cut(full, c) \in 0..Len(full)
         /\ Cut(full, c) <= Cut(full, c + 1)
         /\ c = 0 \/ Cut(full, c) < Len(full) =>
              /\ Cut(full, c + 1) = IF Cut(full, c) + Step(Len(full)) < Len(full)
                                    THEN Cut(full, c) + Step(Len(full)) ELSE Len(full)
              /\ c = 0 \/ c * Step(Len(full)) < Len(full)
<1> DEFINE L == Len(full)
           W == Step(L)
<1>1. L \in Nat
  BY DEF Texts
<1>2. W \in Nat \ {0}
  BY <1>1, StepFacts
<1> HIDE DEF L, W
<1> DEFINE x == c * W
<1>3. x \in Nat /\ (c + 1) * W = x + W /\ 0 * W = 0 /\ (c = 0 => x = 0)
  BY <1>2
<1>4. /\ Cut(full, 0) = IF 0 * W < L THEN 0 * W ELSE L
      /\ Cut(full, c) = IF x < L THEN x ELSE L
      /\ Cut(full, c + 1) = IF (c + 1) * W < L THEN (c + 1) * W ELSE L
  BY DEF Cut, L, W
<1>5. Cut(full, c + 1) = IF x + W < L THEN x + W ELSE L
  BY <1>3, <1>4
<1> HIDE DEF x
<1>6. /\ Cut(full, 0) = 0
      /\ Cut(full, c) \in 0..L
      /\ Cut(full, c) <= Cut(full, c + 1)
      /\ c = 0 \/ Cut(full, c) < L =>
           /\ Cut(full, c + 1) = IF Cut(full, c) + W < L THEN Cut(full, c) + W ELSE L
           /\ c = 0 \/ x < L
  BY <1>1, <1>2, <1>3, <1>4, <1>5
<1> QED BY <1>6 DEF L, W, x

LEMMA PieceType ==
  ASSUME NEW full \in Texts, NEW i \in Nat \ {0}
  PROVE  Piece(full, i) \in Events /\ Piece(full, i).kind = "content"
<1>1. i - 1 \in Nat /\ i = (i - 1) + 1
  OBVIOUS
<1>2. Cut(full, i - 1) \in 0..Len(full) /\ Cut(full, i) \in 0..Len(full)
  BY <1>1, CutFacts
<1>3. SubSeq(full, Cut(full, i - 1) + 1, Cut(full, i)) \in Texts
  <2> DEFINE a == Cut(full, i - 1) + 1  b == Cut(full, i)
  <2>1. a \in Int /\ b \in Int /\ a >= 1 /\ b <= Len(full) /\ full \in Seq(Characters)
    BY <1>2 DEF Texts
  <2> HIDE DEF a, b
  <2>2. \A j \in a..b : full[j] \in Characters
    BY <2>1
  <2>3. SubSeq(full, a, b) \in Seq(Characters)
    BY <2>1, <2>2, SubSeqProperties
  <2> QED BY <2>3 DEF a, b, Texts
<1> QED BY <1>3 DEF Piece, Event, Events, Kinds

LEMMA EventType ==
  ASSUME NEW kind \in Kinds
  PROVE  Event(kind, <<>>) \in Events /\ Event(kind, <<>>).kind = kind
BY DEF Event, Events, Texts

\* A set of indices has at most as many elements as there are indices, and as
\* many only if it has them all.
LEMMA PartOf ==
  ASSUME NEW n \in Nat, NEW S \in SUBSET (1..n)
  PROVE  Cardinality(S) \in 0..n /\ (Cardinality(S) = n <=> S = 1..n)
<1>1. Cardinality(1..n) = n
  BY FS_Interval, 1 \in Int, n \in Int, ~ (1 > n) \/ n = 0
<1>2. IsFiniteSet(1..n)
  BY FS_Interval, 1 \in Int, n \in Int
<1>3. IsFiniteSet(S) /\ Cardinality(S) <= Cardinality(1..n)
  BY <1>2, FS_Subset
<1>4. Cardinality(S) = Cardinality(1..n) => S = 1..n
  BY <1>2, FS_Subset
<1>5. Cardinality(S) \in Nat
  BY <1>3, FS_CardinalityType
<1> QED BY <1>1, <1>3, <1>4, <1>5

\* What a buffer has is parsed into what can be sent.
LEMMA BufferedType ==
  ASSUME doc \in Documents, NEW p
  PROVE  Buffered(p) \in Seq(Lines) /\ ParseResponse(Buffered(p)) \in Parsed
<1> DEFINE whole == {i \in DOMAIN doc : End[i] - 1 <= p}
           k == Cardinality(whole)
<1>1. doc \in Seq(Lines)
  BY DocumentsAssumption
<1>2. DOMAIN doc = 1..Len(doc) /\ Len(doc) \in Nat
  BY <1>1
<1>3. k \in 0..Len(doc)
  <2>1. whole \subseteq 1..Len(doc)
    BY <1>2
  <2> HIDE DEF whole
  <2> QED BY <1>2, <2>1, PartOf
<1>4. Buffered(p) = SubSeq(doc, 1, k)
  BY DEF Buffered
<1> HIDE DEF k
<1>5. SubSeq(doc, 1, k) \in Seq(Lines)
  BY <1>1, <1>2, <1>3, SubSeqProperties
<1>6. \A q \in Seq(Lines) : ParseResponse(q) \in Parsed
  <2> SUFFICES ASSUME NEW q \in Seq(Lines) PROVE ParseResponse(q) \in Parsed
    OBVIOUS
  <2>1. PICK r \in [0..Len(q) -> Parsed] : LineByLine(r, q) /\ ParseResponse(q) = r[Len(q)]
    BY ParsedLineByLine
  <2>2. Len(q) \in 0..Len(q)
    OBVIOUS
  <2> QED BY <2>1, <2>2
<1> QED BY <1>4, <1>5, <1>6

LEMMA ReplyStarts == ReplyInit => ReplyInv
<1> SUFFICES ASSUME ReplyInit PROVE ReplyInv
  OBVIOUS
<1>1. WellTyped
  <2>1. BodyEnd \in Nat /\ pos = 0
    BY EndsInOrder DEF ReplyInit
  <2>2. <<>> \in Seq(Events)
    OBVIOUS
  <2> QED BY <2>1, <2>2, NothingType DEF ReplyInit, WellTyped
<1> QED BY <1>1 DEF ReplyInit, ReplyInv, WhileReading

\* The document keeps its lines.
LEMMA SameDocument ==
  ASSUME UNCHANGED doc
  PROVE  /\ UNCHANGED BodyEnd
         /\ UNCHANGED <<pos, parsed>> => (FromDocument' <=> FromDocument)
<1>1. End' = End
  BY Zenon DEF End
<1>2. BodyEnd' = BodyEnd
  BY <1>1 DEF BodyEnd
<1>3. ASSUME UNCHANGED <<pos, parsed>> PROVE FromDocument' <=> FromDocument
  <2>1. Buffered(pos)' = Buffered(pos)
    BY <1>1, <1>3 DEF Buffered
  <2>2. SeemsComplete(pos)' <=> SeemsComplete(pos)
    BY <1>1, <1>3 DEF SeemsComplete, Newlines
  <2> QED BY <1>2, <1>3, <2>1, <2>2 DEF FromDocument
<1> QED BY <1>2, <1>3

LEMMA ParsedNow ==
  ASSUME ReplyInv, UNCHANGED <<doc, sent, out>>, phase = "reading", phase' = "sending",
         pos' \in 0..BodyEnd, parsed' = ParseResponse(Buffered(pos')),
         SeemsComplete(pos') \/ pos' = BodyEnd
  PROVE  ReplyInv'
<1>0. doc \in Documents /\ out = <<>> /\ sent = 0
  BY DEF ReplyInv, WellTyped, WhileReading
<1>1. parsed' \in Parsed /\ parsed'.content \in Texts
  BY <1>0, BufferedType DEF Parsed
<1>2. WellTyped'
  BY <1>1, SameDocument DEF ReplyInv, WellTyped
<1>3. FromDocument'
  <2>1. End' = End
    BY Zenon DEF End
  <2>2. Buffered(pos)' = Buffered(pos')
    BY <2>1 DEF Buffered
  <2>3. SeemsComplete(pos)' <=> SeemsComplete(pos')
    BY <2>1 DEF SeemsComplete, Newlines
  <2> QED BY <2>2, <2>3, SameDocument DEF FromDocument
<1>4. WhileSending'
  <2>1. Len(<<>>) = 0 /\ 1..0 = {}
    OBVIOUS
  <2>2. Cut(parsed'.content, 0) = 0
    BY <1>1, CutFacts
  <2>3. Chunked(parsed'.content, <<>>, 0)
    BY <2>1 DEF Chunked
  <2> QED BY <1>0, <1>3, <2>1, <2>2, <2>3 DEF WhileSending
<1> QED BY <1>2, <1>4 DEF ReplyInv

\* The chunks so far, and one more.
LEMMA OneMoreChunk ==
  ASSUME NEW full \in Texts, NEW events \in Seq(Events), NEW c, c = Len(events),
         Chunked(full, events, c), c = 0 \/ c * Step(Len(full)) < Len(full)
  PROVE  /\ Append(events, Piece(full, c + 1)) \in Seq(Events)
         /\ Len(Append(events, Piece(full, c + 1))) = c + 1
         /\ Chunked(full, Append(events, Piece(full, c + 1)), c + 1)
<1>1. c \in Nat /\ c + 1 \in Nat \ {0}
  OBVIOUS
<1> DEFINE p == Piece(full, c + 1)
<1>2. p \in Events
  BY <1>1, PieceType
<1> DEFINE longer == Append(events, p)
<1> HIDE DEF p
<1>3. /\ longer \in Seq(Events) /\ Len(longer) = c + 1
      /\ longer[c + 1] = p /\ \A i \in 1..c : longer[i] = events[i]
  BY <1>1, <1>2
<1> HIDE DEF longer
<1>4. \A i \in 1..(c + 1) : longer[i] = Piece(full, i)
  <2>1. \A i \in 1..(c + 1) : i \in 1..c \/ i = c + 1
    BY <1>1
  <2>2. \A i \in 1..c : longer[i] = Piece(full, i)
    BY <1>3 DEF Chunked
  <2> QED BY <1>3, <2>1, <2>2 DEF p
<1>5. c + 1 <= 1 \/ ((c + 1) - 1) * Step(Len(full)) < Len(full)
  <2>1. (c + 1) - 1 = c
    BY <1>1
  <2> QED BY <1>1, <2>1
<1>6. Chunked(full, longer, c + 1)
  BY <1>4, <1>5 DEF Chunked
<1> QED BY <1>3, <1>6 DEF longer, p

LEMMA SendKeeps ==
  ASSUME ReplyInv, SendChunk
  PROVE  ReplyInv'
<1> DEFINE full == parsed.content
           c == Len(out)
           W == Step(Len(full))
           last == IF sent + W < Len(full) THEN sent + W ELSE Len(full)
<1>1. /\ full \in Texts /\ out \in Seq(Events) /\ c \in Nat /\ WhileSending
      /\ sent = Cut(full, c) /\ (c = 0 \/ sent < Len(full)) /\ Chunked(full, out, c)
  BY DEF ReplyInv, WellTyped, SendChunk, Parsed, WhileSending
<1>2. /\ out' = Append(out, Event("content", SubSeq(full, sent + 1, last)))
      /\ sent' = last /\ phase' = (IF last = Len(full) THEN "usage" ELSE "sending")
      /\ UNCHANGED <<doc, pos, parsed>>
  BY DEF SendChunk
<1> HIDE DEF full, c, W
<1>3. last = Cut(full, c + 1) /\ (c = 0 \/ c * Step(Len(full)) < Len(full))
  BY <1>1, CutFacts DEF W
<1>4. Cut(full, c + 1) \in 0..Len(full)
  BY <1>1, CutFacts
<1> HIDE DEF last
<1>5. out' = Append(out, Piece(full, c + 1))
  <2>1. (c + 1) - 1 = c
    BY <1>1
  <2> QED BY <1>1, <1>2, <1>3, <2>1 DEF Piece
<1>6. out' \in Seq(Events) /\ Len(out') = c + 1 /\ Chunked(full, out', c + 1)
  BY <1>1, <1>3, <1>5, OneMoreChunk DEF c
<1>7. full' = full /\ sent' = Cut(full, c + 1)
  BY <1>2, <1>3 DEF full
<1>8. FromDocument'
  BY <1>1, <1>2, SameDocument DEF WhileSending
<1>9. WellTyped'
  BY <1>2, <1>6, SameDocument DEF ReplyInv, WellTyped
<1>10. CASE last = Len(full)
  <2>1. AllSent'
    BY <1>1, <1>3, <1>6, <1>7, <1>8, <1>10 DEF AllSent, full
  <2> QED BY <1>2, <1>9, <1>10, <2>1 DEF ReplyInv
<1>11. CASE last # Len(full)
  <2>1. Len(full) \in Nat
    BY <1>1 DEF Texts
  <2>2. sent' < Len(full)
    BY <1>3, <1>4, <1>7, <1>11, <2>1
  <2>3. WhileSending'
    BY <1>6, <1>7, <1>8, <2>2 DEF WhileSending, full
  <2> QED BY <1>2, <1>9, <1>11, <2>3 DEF ReplyInv
<1> QED BY <1>10, <1>11

LEMMA FinishKeeps ==
  ASSUME ReplyInv, Finish
  PROVE  ReplyInv'
<1>0. PICK c \in Nat : c = Len(out)
  BY DEF ReplyInv, WellTyped
<1> DEFINE full == parsed.content
           end == Event("done", <<>>)
           usage == Event("usage", <<>>)
<1>1. /\ full \in Texts /\ out \in Seq(Events) /\ c \in Nat /\ AllSent /\ c >= 1
      /\ sent = Len(full) /\ Cut(full, c) = sent /\ Chunked(full, out, c)
  BY <1>0 DEF ReplyInv, WellTyped, Finish, Parsed, AllSent
<1>2. UNCHANGED <<doc, pos, parsed, sent>> /\ phase' = "done"
  BY DEF Finish
<1>3. end \in Events /\ usage \in Events
  BY EventType DEF Kinds
<1>4. out' = (out \o <<>>) \o <<end>> \/ out' = (out \o <<usage>>) \o <<end>>
  BY DEF Finish
<1> HIDE DEF end, usage, full
<1>5. /\ out' \in Seq(Events)
      /\ Len(out') = c + 1 \/ (Len(out') = c + 2 /\ out'[c + 1] = usage)
      /\ out'[Len(out')] = end
      /\ \A i \in 1..c : out'[i] = out[i]
  <2>1. CASE out' = (out \o <<>>) \o <<end>>
    <3>1. out' = Append(out, end)
      BY <1>1, <1>3, <2>1
    <3> QED BY <1>0, <1>1, <1>3, <3>1
  <2>2. CASE out' = (out \o <<usage>>) \o <<end>>
    <3> DEFINE o == Append(out, usage)
    <3>1. /\ o \in Seq(Events) /\ Len(o) = c + 1 /\ o[c + 1] = usage
          /\ \A i \in 1..c : o[i] = out[i]
      BY <1>0, <1>1, <1>3
    <3>2. out \o <<usage>> = o
      BY <1>1, <1>3
    <3> HIDE DEF o
    <3>3. out' = Append(o, end)
      <4>1. out' = o \o <<end>>
        BY <2>2, <3>2, Zenon
      <4> QED BY <1>3, <3>1, <4>1
    <3>4. /\ out' \in Seq(Events) /\ Len(out') = c + 2 /\ out'[c + 2] = end
          /\ \A i \in 1..(c + 1) : out'[i] = o[i]
      BY <1>1, <1>3, <3>1, <3>3
    <3>5. c + 1 \in 1..(c + 1) /\ \A i \in 1..c : i \in 1..(c + 1)
      BY <1>1
    <3> QED BY <3>1, <3>4, <3>5
  <2> QED BY <1>4, <2>1, <2>2
<1>6. Chunked(full, out', c)
  BY <1>1, <1>5 DEF Chunked
<1>7. FromDocument'
  BY <1>1, <1>2, SameDocument DEF AllSent
<1>8. Ended(c)'
  BY <1>1, <1>2, <1>5, <1>6, <1>7 DEF Ended, full, end, usage
<1>9. WellTyped'
  BY <1>2, <1>5, SameDocument DEF ReplyInv, WellTyped
<1>10. c \in Nat \ {0}
  BY <1>1
<1> QED BY <1>2, <1>8, <1>9, <1>10 DEF ReplyInv

LEMMA ReplyKept == ReplyInv /\ [ReplyNext]_replyVars => ReplyInv'
<1> SUFFICES ASSUME ReplyInv, [ReplyNext]_replyVars PROVE ReplyInv'
  OBVIOUS
<1>0. doc \in Documents /\ pos \in 0..BodyEnd /\ BodyEnd \in Nat
  BY EndsInOrder DEF ReplyInv, WellTyped
<1>1. ASSUME NEW n \in 1..MaxPiece, Receive(n) PROVE ReplyInv'
  <2>1. pos' \in 0..BodyEnd /\ phase = "reading" /\ UNCHANGED <<doc, sent, out>>
    BY <1>0, <1>1 DEF Receive
  <2>2. CASE SeemsComplete(pos')
    <3>1. phase' = "sending" /\ parsed' = ParseResponse(Buffered(pos'))
      BY <1>1, <2>2 DEF Receive, Parse
    <3> QED BY <2>1, <2>2, <3>1, ParsedNow
  <2>3. CASE ~ SeemsComplete(pos')
    <3>1. UNCHANGED <<parsed, phase>>
      BY <1>1, <2>3 DEF Receive
    <3> QED BY <2>1, <3>1, SameDocument DEF ReplyInv, WellTyped, WhileReading
  <2> QED BY <2>2, <2>3
<1>2. CASE EndOfBody
  <2>1. /\ phase = "reading" /\ pos = BodyEnd /\ UNCHANGED <<doc, pos, sent, out>>
        /\ parsed' = ParseResponse(Buffered(pos)) /\ phase' = "sending"
    BY <1>2 DEF EndOfBody, Parse
  <2>2. pos' = pos
    BY <2>1
  <2>3. Buffered(pos') = Buffered(pos)
    BY <2>2
  <2> QED BY <1>0, <2>1, <2>2, <2>3, ParsedNow
<1>3. CASE Fails
  <2>1. /\ out = <<>> /\ parsed = Nothing /\ sent = 0 /\ phase' = "done"
        /\ out' = out \o <<Event("error", <<>>), Event("done", <<>>)>>
        /\ UNCHANGED <<doc, pos, parsed, sent>>
    BY <1>3 DEF Fails, ReplyInv, WhileReading
  <2>2. Event("error", <<>>) \in Events /\ Event("done", <<>>) \in Events
    BY EventType DEF Kinds
  <2>3. out' = <<Event("error", <<>>), Event("done", <<>>)>> /\ out' \in Seq(Events)
    BY <2>1, <2>2
  <2> QED BY <2>1, <2>3, SameDocument DEF ReplyInv, WellTyped, GaveUp
<1>4. CASE SendChunk
  BY <1>4, SendKeeps
<1>5. CASE Finish
  BY <1>5, FinishKeeps
<1>6. CASE UNCHANGED replyVars
  <2>1. UNCHANGED <<doc, pos, phase, parsed, sent, out>>
    BY <1>6 DEF replyVars
  <2>2. (FromDocument' <=> FromDocument) /\ BodyEnd' = BodyEnd
    BY <2>1, SameDocument
  <2>3. WellTyped' <=> WellTyped
    BY <2>1, <2>2 DEF WellTyped
  <2>4. (WhileReading' <=> WhileReading) /\ (WhileSending' <=> WhileSending)
    BY <2>1, <2>2 DEF WhileReading, WhileSending
  <2>5. (AllSent' <=> AllSent) /\ (GaveUp' <=> GaveUp)
    BY <2>1, <2>2 DEF AllSent, GaveUp
  <2>6. \A c \in Nat \ {0} : Ended(c)' <=> Ended(c)
    BY <2>1, <2>2 DEF Ended
  <2> QED BY <2>1, <2>3, <2>4, <2>5, <2>6 DEF ReplyInv
<1> QED BY <1>1, <1>2, <1>3, <1>4, <1>5, <1>6 DEF ReplyNext

THEOREM ReplyInvariant == ReplySpec => []ReplyInv
BY ReplyStarts, ReplyKept, PTL DEF ReplySpec

-----------------------------------------------------------------------------
(***************************************************************************)
(* The streamed reply: what the invariant implies.                         *)
(***************************************************************************)
LEMMA ChunkKinds ==
  ASSUME parsed.content \in Texts, NEW c, NEW i \in Nat \ {0}, i <= c,
         c \in Nat, Chunked(parsed.content, out, c)
  PROVE  out[i].kind = "content"
<1>1. i \in 1..c
  OBVIOUS
<1>2. out[i] = Piece(parsed.content, i)
  BY <1>1 DEF Chunked
<1> QED BY <1>2, PieceType

LEMMA EndedKinds ==
  ASSUME WellTyped, NEW c \in Nat \ {0}, Ended(c)
  PROVE  /\ DOMAIN out = 1..Len(out) /\ Len(out) \in Nat /\ Len(out) > c
         /\ \A i \in DOMAIN out :
              /\ out[i].kind = "content" <=> i \in 1..c
              /\ out[i].kind = "done" <=> i = Len(out)
              /\ i > c => out[i].text = <<>>
<1> DEFINE n == Len(out)
           full == parsed.content
<1>1. DOMAIN out = 1..n /\ n \in Nat /\ full \in Texts /\ Chunked(full, out, c)
  BY DEF WellTyped, Ended, Parsed
<1>2. n = c + 1 \/ (n = c + 2 /\ out[c + 1] = Event("usage", <<>>))
  BY DEF Ended
<1>3. out[n] = Event("done", <<>>)
  BY DEF Ended
<1> HIDE DEF n, full
<1>4. n > c
  BY <1>1, <1>2
<1>5. ASSUME NEW i \in 1..n
      PROVE  /\ out[i].kind = "content" <=> i \in 1..c
             /\ out[i].kind = "done" <=> i = n
             /\ i > c => out[i].text = <<>>
  <2>1. CASE i <= c
    <3>1. i \in Nat \ {0} /\ c \in Nat
      OBVIOUS
    <3>2. out[i].kind = "content"
      BY <1>1, <2>1, <3>1, ChunkKinds DEF full
    <3>3. i \in 1..c /\ i # n /\ ~ (i > c)
      BY <1>1, <1>4, <2>1
    <3> QED BY <3>2, <3>3
  <2>2. CASE i = n
    <3>1. out[i].kind = "done" /\ out[i].text = <<>>
      BY <1>3, <2>2 DEF Event
    <3>2. i \notin 1..c
      BY <1>1, <1>4, <2>2
    <3> QED BY <2>2, <3>1, <3>2
  <2>3. CASE i > c /\ i # n
    <3>1. i = c + 1 /\ n = c + 2
      BY <1>1, <1>2, <2>3
    <3>2. out[c + 1] = Event("usage", <<>>)
      BY <1>2, <3>1
    <3>3. out[i].kind = "usage" /\ out[i].text = <<>>
      BY <3>1, <3>2 DEF Event
    <3>4. i \notin 1..c
      BY <2>3
    <3> QED BY <2>3, <3>3, <3>4
  <2>4. i <= c \/ i > c
    BY <1>1
  <2> QED BY <2>1, <2>2, <2>3, <2>4
<1> QED BY <1>1, <1>4, <1>5 DEF n

\* However the upstream's answer arrived, the events end with [DONE] and have no
\* other, and no more of the content was sent than there is (ReplyTypeOK).
THEOREM ReplyTypeCorrect == ReplySpec => []ReplyTypeOK
<1>1. ReplyInv => ReplyTypeOK
  <2> SUFFICES ASSUME ReplyInv PROVE ReplyTypeOK
    OBVIOUS
  <2> DEFINE full == parsed.content
  <2>1. /\ WellTyped /\ parsed \in Parsed /\ full \in Texts /\ Len(full) \in Nat
        /\ out \in Seq(Events) /\ DOMAIN out = 1..Len(out) /\ Len(out) \in Nat
    BY DEF ReplyInv, WellTyped, Parsed, Texts
  <2>2. sent \in 0..Len(full)
    <3>1. CASE phase = "sending"
      BY <2>1, <3>1, CutFacts DEF ReplyInv, WhileSending
    <3>2. CASE phase \in {"reading", "usage", "done"}
      <4>1. sent = Len(full) \/ sent = 0
        BY <3>2 DEF ReplyInv, WhileReading, AllSent, Ended, GaveUp
      <4> HIDE DEF full
      <4> QED BY <2>1, <4>1
    <3> QED BY <2>1, <3>1, <3>2 DEF WellTyped
  <2>3. \A i \in DOMAIN out : out[i].kind \in Kinds
    <3>1. \A i \in DOMAIN out : out[i] \in Events
      BY <2>1
    <3> QED BY <3>1 DEF Events
  <2>4. /\ \A i \in DOMAIN out : out[i].kind = "done" <=> (i = Len(out) /\ phase = "done")
        /\ phase = "done" => out # <<>> /\ out[Len(out)].kind = "done"
    <3>1. CASE phase = "reading"
      BY <3>1 DEF ReplyInv, WhileReading
    <3>2. CASE phase \in {"sending", "usage"}
      <4>1. Chunked(full, out, Len(out))
        BY <3>2 DEF ReplyInv, WhileSending, AllSent
      <4>2. \A i \in DOMAIN out : out[i].kind = "content"
        BY <2>1, <4>1, ChunkKinds
      <4> QED BY <3>2, <4>2
    <3>3. CASE phase = "done" /\ GaveUp
      BY <3>3 DEF GaveUp, Event
    <3>4. CASE phase = "done" /\ ~ GaveUp
      <4>1. PICK c \in Nat \ {0} : Ended(c)
        BY <3>4 DEF ReplyInv
      <4>2. /\ Len(out) > c /\ Len(out) \in DOMAIN out
            /\ \A i \in DOMAIN out : out[i].kind = "done" <=> i = Len(out)
        BY <2>1, <4>1, EndedKinds
      <4> QED BY <2>1, <3>4, <4>2
    <3> QED BY <2>1, <3>1, <3>2, <3>3, <3>4 DEF WellTyped
  <2> QED BY <2>1, <2>2, <2>3, <2>4 DEF ReplyTypeOK, WellTyped
<1> QED BY <1>1, ReplyInvariant, PTL

LEMMA NotGivenUp ==
  ASSUME ReplyInv, phase = "done", ~ Failed
  PROVE  \E c \in Nat \ {0} : Ended(c)
<1>1. ~ GaveUp
  <2> SUFFICES ASSUME GaveUp PROVE FALSE
    OBVIOUS
  <2>1. 1 \in DOMAIN out /\ out[1].kind = "error"
    BY DEF GaveUp, Event
  <2> QED BY <2>1 DEF Failed
<1> QED BY <1>1 DEF ReplyInv

\* The texts of the events, one after the other, are the content.
LEMMA DeliveredIs ==
  ASSUME WellTyped, NEW c \in Nat \ {0}, Ended(c)
  PROVE  Delivered = parsed.content
<1> DEFINE full == parsed.content
           n == Len(out)
           L == Len(full)
           texts == [i \in DOMAIN out |-> out[i].text]
           g == [i \in 1..n |-> IF i <= c THEN SubSeq(full, 1, Cut(full, i)) ELSE full]
<1>1. /\ full \in Seq(Characters) /\ full \in Texts /\ L \in Nat
      /\ DOMAIN out = 1..n /\ n \in Nat /\ n > c
      /\ \A i \in 1..n : i > c => out[i].text = <<>>
      /\ Chunked(full, out, c) /\ Cut(full, c) = L
  BY EndedKinds DEF WellTyped, Parsed, Texts, Ended
<1> HIDE DEF full, n, L
<1>2. ASSUME NEW i \in 1..c
      PROVE  /\ out[i].text = SubSeq(full, Cut(full, i - 1) + 1, Cut(full, i))
             /\ Cut(full, i - 1) \in 0..L /\ Cut(full, i) \in Cut(full, i - 1)..L
  <2>1. i - 1 \in Nat /\ i \in Nat /\ i = (i - 1) + 1
    OBVIOUS
  <2>2. out[i] = Piece(full, i)
    BY <1>1 DEF Chunked
  <2>3. /\ Cut(full, i - 1) \in 0..L /\ Cut(full, i) \in 0..L
        /\ Cut(full, i - 1) <= Cut(full, i)
    BY <1>1, <2>1, CutFacts DEF L
  <2>4. out[i].text = SubSeq(full, Cut(full, i - 1) + 1, Cut(full, i))
    <3> DEFINE text == SubSeq(full, Cut(full, i - 1) + 1, Cut(full, i))
    <3>1. out[i] = Event("content", text)
      BY <2>2, Zenon DEF Piece
    <3> HIDE DEF text
    <3>2. out[i].text = text
      BY <3>1 DEF Event
    <3> QED BY <3>2 DEF text
  <2>5. Cut(full, i) \in Cut(full, i - 1)..L
    BY <1>1, <2>3
  <2> QED BY <2>3, <2>4, <2>5
<1>3. g[1] = texts[1]
  <2>1. 1 \in 1..n /\ 1 \in 1..c /\ 1 <= c /\ 1 - 1 = 0
    BY <1>1
  <2>2. Cut(full, 0) = 0
    BY <1>1, CutFacts
  <2>3. ASSUME NEW i \in 1..c, i = 1 PROVE out[i].text = SubSeq(full, 1, Cut(full, i))
    <3>1. i - 1 = 0
      BY <2>3
    <3>2. Cut(full, i - 1) + 1 = 1
      BY <2>2, <3>1
    <3> QED BY <1>2, <3>2
  <2> QED BY <1>1, <2>1, <2>3
<1>4. ASSUME NEW i \in 2..n PROVE g[i] = g[i - 1] \o texts[i]
  <2>1. i \in 1..n /\ i - 1 \in 1..n /\ texts[i] = out[i].text
    BY <1>1
  <2>2. CASE i <= c
    <3>1. i \in 1..c /\ i - 1 <= c
      BY <2>1, <2>2
    <3>2. g[i] = SubSeq(full, 1, Cut(full, i)) /\ g[i - 1] = SubSeq(full, 1, Cut(full, i - 1))
      BY <2>1, <2>2, <3>1
    <3> DEFINE a == Cut(full, i - 1)  b == Cut(full, i)
    <3>3. a \in 0..L /\ b \in a..L /\ texts[i] = SubSeq(full, a + 1, b)
      BY <1>2, <2>1, <3>1
    <3> HIDE DEF a, b, g, texts
    <3>4. SubSeq(full, 1, a) \o SubSeq(full, a + 1, b) = SubSeq(full, 1, b)
      <4>1. 1 \in 1..(Len(full) + 1) /\ a \in (1 - 1)..Len(full) /\ b \in a..Len(full)
        BY <1>1, <3>3 DEF L
      <4> QED BY <4>1, <1>1, ConcatAdjacentSubSeq
    <3> QED BY <3>2, <3>3, <3>4 DEF a, b
  <2>3. CASE i > c
    <3>1. texts[i] = <<>>
      BY <1>1, <2>1, <2>3
    <3>2. g[i] = full
      BY <2>1, <2>3
    <3>3. g[i - 1] = full
      <4>1. CASE i - 1 <= c
        <5>1. i - 1 = c
          BY <2>3, <4>1, <2>1
        <5>2. g[i - 1] = SubSeq(full, 1, L)
          BY <1>1, <2>1, <4>1, <5>1
        <5> HIDE DEF g
        <5> QED BY <1>1, <5>2, SubSeqFull DEF L
      <4>2. CASE ~ (i - 1 <= c)
        BY <2>1, <4>2
      <4> QED BY <4>1, <4>2
    <3> HIDE DEF g, texts
    <3>4. full \o <<>> = full
      BY <1>1, ConcatEmptySeq
    <3> QED BY <3>1, <3>2, <3>3, <3>4
  <2>4. i <= c \/ i > c
    BY <1>1, <2>1
  <2> QED BY <2>2, <2>3, <2>4
<1>5. g \in [1..n -> {g[i] : i \in 1..n}]
  OBVIOUS
<1>6. g[n] = full
  BY <1>1
<1>7. Len(texts) = n
  BY <1>1
<1>8. n \in Nat \ {0}
  BY <1>1
<1> DEFINE V == {g[i] : i \in 1..n}
<1>9. g \in [1..n -> V]
  BY <1>5
<1>10. Delivered = FlattenSeq(texts)
  BY DEF Delivered
<1> HIDE DEF g, texts, V
<1>11. FlattenSeq(texts) = g[n]
  <2>1. AddsUp(g, texts, n)
    BY <1>3, <1>4, <1>7, Zenon DEF AddsUp
  <2> QED BY <1>8, <1>9, <2>1, FlattenIs
<1> QED BY <1>6, <1>10, <1>11 DEF full

\* The content chunks are the content, cut: nothing is lost, repeated or
\* reordered, and their number is bounded (ChunksRejoin; stream_response,
\* adapter.py:590-605).
THEOREM ChunksRejoinHolds == ReplySpec => []ChunksRejoin
<1>1. ReplyInv => ChunksRejoin
  <2> SUFFICES ASSUME ReplyInv, phase = "done", ~ Failed
               PROVE  /\ Delivered = parsed.content
                      /\ Chunks <= MaxChunks + MaxChunks \div ChunkChars + 1
    BY DEF ChunksRejoin
  <2>1. PICK c \in Nat \ {0} : Ended(c)
    BY NotGivenUp
  <2>2. WellTyped /\ Len(parsed.content) \in Nat
    BY DEF ReplyInv, WellTyped, Parsed, Texts
  <2>3. {i \in DOMAIN out : out[i].kind = "content"} = 1..c
    <3>1. /\ DOMAIN out = 1..Len(out) /\ Len(out) \in Nat /\ Len(out) > c
          /\ \A i \in DOMAIN out : out[i].kind = "content" <=> i \in 1..c
      BY <2>1, <2>2, EndedKinds
    <3>2. \A i \in 1..c : i \in DOMAIN out
      BY <3>1
    <3> QED BY <3>1, <3>2
  <2>4. Cardinality(1..c) = c
    BY PartOf, c \in Nat
  <2>5. c = 1 \/ (c - 1) * Step(Len(parsed.content)) < Len(parsed.content)
    BY <2>1 DEF Ended, Chunked
  <2>6. c <= MaxChunks + MaxChunks \div ChunkChars + 1
    BY <2>2, <2>5, StepFacts
  <2>7. Delivered = parsed.content
    BY <2>1, <2>2, DeliveredIs
  <2> QED BY <2>3, <2>4, <2>6, <2>7 DEF Chunks
<1> QED BY <1>1, ReplyInvariant, PTL

\* A short document is parsed when all of it has arrived.
LEMMA ShortDocument ==
  ASSUME doc \in Documents, pos \in 0..BodyEnd, Len(doc) <= StopLines, BodyEnd <= MaxBuffer,
         SeemsComplete(pos) \/ pos = BodyEnd
  PROVE  Buffered(pos) = doc
<1> DEFINE n == Len(doc)
           ended == {i \in DOMAIN doc : End[i] <= pos}
           there == {i \in DOMAIN doc : End[i] - 1 <= pos}
<1>1. /\ doc \in Seq(Lines) /\ n \in Nat /\ DOMAIN doc = 1..n
      /\ BodyEnd \in Nat /\ \A i \in 1..n : End[i] \in Nat /\ End[i] <= BodyEnd
  BY DocumentsAssumption, EndsInOrder
<1> HIDE DEF n
<1>2. StopLines \in Nat /\ MaxBuffer \in Nat /\ pos \in Nat /\ pos <= BodyEnd
  BY StopAssumption, <1>1
<1>3. ended \in SUBSET (1..n) /\ there \in SUBSET (1..n) /\ ended \subseteq there
  BY <1>1, <1>2
<1>4. there = 1..n => Buffered(pos) = doc
  <2>1. Cardinality(1..n) = n
    BY <1>1, PartOf
  <2>2. Buffered(pos) = SubSeq(doc, 1, Cardinality(there))
    BY DEF Buffered
  <2> HIDE DEF there
  <2> QED BY <1>1, <2>1, <2>2, SubSeqFull DEF n
<1>5. CASE SeemsComplete(pos)
  <2>1. Cardinality(ended) >= StopLines
    BY <1>1, <1>2, <1>5 DEF SeemsComplete, Newlines
  <2> HIDE DEF ended, there
  <2>2. Cardinality(ended) \in 0..n /\ (Cardinality(ended) = n => ended = 1..n)
    BY <1>1, <1>3, PartOf
  <2>3. Cardinality(ended) = n
    BY <1>1, <1>2, <2>1, <2>2 DEF n
  <2> QED BY <1>3, <2>2, <2>3, <1>4
<1>6. CASE pos = BodyEnd
  <2>1. there = 1..n
    BY <1>1, <1>2, <1>6
  <2> QED BY <1>4, <2>1
<1> QED BY <1>5, <1>6

\* A document that fits is streamed whole however the network cuts it: the client
\* gets what it would have got without streaming (ShortDocumentsWhole).
THEOREM ShortDocumentsArriveWhole == ReplySpec => []ShortDocumentsWhole
<1>1. ReplyInv => ShortDocumentsWhole
  <2> SUFFICES ASSUME ReplyInv, phase = "done", ~ Failed, Len(doc) <= StopLines,
                      BodyEnd <= MaxBuffer
               PROVE  Delivered = Blocking.content /\ parsed.usage = Blocking.usage
    BY DEF ShortDocumentsWhole
  <2>1. PICK c \in Nat \ {0} : Ended(c)
    BY NotGivenUp
  <2>2. WellTyped
    BY DEF ReplyInv
  <2>3. Delivered = parsed.content
    BY <2>1, <2>2, DeliveredIs
  <2>4. /\ parsed = ParseResponse(Buffered(pos))
        /\ SeemsComplete(pos) \/ pos = BodyEnd
    BY <2>1 DEF Ended, FromDocument
  <2>5. Buffered(pos) = doc
    BY <2>2, <2>4, ShortDocument DEF WellTyped
  <2>6. parsed = ParseResponse(doc)
    BY <2>4, <2>5
  <2> QED BY <2>3, <2>6 DEF Blocking, ConvertResponse
<1> QED BY <1>1, ReplyInvariant, PTL

\* Each field of what is sent is that of the last received line that sets it,
\* the reasoning included (LastWordsCount; parse_response, adapter.py:346-391).
THEOREM LastWordsCountHold == ReplySpec => []LastWordsCount
<1>1. ReplyInv => LastWordsCount
  <2> SUFFICES ASSUME ReplyInv, phase # "reading", ~ Failed
               PROVE  HasLastWords(parsed, Buffered(pos), Len(Buffered(pos)))
    BY DEF LastWordsCount
  <2>1. parsed = ParseResponse(Buffered(pos))
    <3>1. CASE phase = "done"
      BY <3>1, NotGivenUp DEF Ended, FromDocument
    <3>2. CASE phase # "done"
      BY <3>2 DEF ReplyInv, WellTyped, WhileSending, AllSent, FromDocument
    <3> QED BY <3>1, <3>2
  <2>2. Buffered(pos) \in Seq(Lines)
    BY BufferedType DEF ReplyInv, WellTyped
  <2> QED BY <2>1, <2>2, ParsingHasLastWords
<1> QED BY <1>1, ReplyInvariant, PTL

-----------------------------------------------------------------------------
(***************************************************************************)
(* From a capture to the upstream: what the import, the uploads and the    *)
(* sending keep (Upstream).                                                *)
(***************************************************************************)
UploadIds == {Upload(u) : u \in Images}

\* The numbers of the images uploaded so far decide where their ids are.
Uploading(trials, ids, rest, images) ==
  /\ Len(trials) + Len(rest) \in {0, Len(images)}
  /\ \A k \in 1..Len(rest) : rest[k] = images[Len(trials) + k]
  /\ Len(ids) = Cardinality(Succeeded(trials))
  /\ \A i \in Succeeded(trials) : ids[Place(i, Succeeded(trials))] = Upload(images[i])

\* A request's copy of the sampling.
Chosen(c) == IF Overrides(c) THEN Overridden(c, Defaults) ELSE None

UpstreamTypes ==
  /\ har \in Hars
  /\ stage \in {"captured", "refused", "parsed", "created"}
  /\ sampling \in Sampling
  /\ chat \in [Requests -> Chats \cup {None}]
  /\ progress \in [Requests -> {"new", "uploading", "sent"}]
  /\ own \in [Requests -> Sampling \cup {None}]
  /\ left \in [Requests -> Seq(Images)]
  /\ attachments \in [Requests -> Seq(UploadIds)]
  /\ outcomes \in [Requests -> Seq(BOOLEAN)]
  /\ posted = [r \in Requests |-> posted[r]]

\* What is kept of the capture on its way to an account.
Imported ==
  /\ stage \in {"parsed", "created"} => har # <<>> /\ analysis = Analysis(ChatEntry(har))
  /\ stage = "created" => account = [f \in SessionFields |-> analysis[f]]

\* What a request has, from its arrival on and once it is sent.
RequestInv(r) ==
  /\ progress[r] = "new" => left[r] = <<>> /\ attachments[r] = <<>> /\ outcomes[r] = <<>>
  /\ progress[r] # "new" =>
       /\ stage = "created"
       /\ chat[r] \in Chats
       /\ own[r] = Chosen(chat[r])
       /\ Uploading(outcomes[r], attachments[r], left[r], CollectImageUrls(chat[r].messages))
  /\ progress[r] = "sent" => left[r] = <<>> /\ posted[r] = UpstreamRequest(r)

UpstreamInv ==
  /\ UpstreamTypes
  /\ Imported
  /\ sampling = Defaults
  /\ \A r \in Requests : RequestInv(r)

\* The numbers of what succeeded, and their places among each other.
LEMMA SucceededType ==
  ASSUME NEW trials \in Seq(BOOLEAN)
  PROVE  /\ Succeeded(trials) \in SUBSET (1..Len(trials))
         /\ IsFiniteSet(Succeeded(trials))
         /\ Cardinality(Succeeded(trials)) \in 0..Len(trials)
<1>1. Succeeded(trials) \in SUBSET (1..Len(trials)) /\ Len(trials) \in Nat
  BY DEF Succeeded
<1>2. Cardinality(Succeeded(trials)) \in 0..Len(trials)
  BY <1>1, PartOf
<1>3. IsFiniteSet(1..Len(trials))
  BY <1>1, FS_Interval, 1 \in Int, Len(trials) \in Int
<1>4. IsFiniteSet(Succeeded(trials))
  BY <1>1, <1>3, FS_Subset
<1> QED BY <1>1, <1>2, <1>4

LEMMA PlaceType ==
  ASSUME NEW n \in Nat, NEW s \in SUBSET (1..n), NEW i \in s
  PROVE  Place(i, s) \in 1..Cardinality(s)
<1> DEFINE upto == {j \in s : j <= i}
<1>1. IsFiniteSet(s)
  <2>1. IsFiniteSet(1..n)
    BY FS_Interval, 1 \in Int, n \in Int
  <2> QED BY <2>1, FS_Subset
<1>2. i \in upto /\ upto \in SUBSET s
  OBVIOUS
<1>3. Place(i, s) = Cardinality(upto)
  BY DEF Place
<1> HIDE DEF upto
<1>4. IsFiniteSet(upto) /\ Cardinality(upto) <= Cardinality(s)
  BY <1>1, <1>2, FS_Subset
<1>5. Cardinality(upto) \in Nat /\ Cardinality(s) \in Nat /\ Cardinality(upto) # 0
  BY <1>1, <1>2, <1>4, FS_CardinalityType, FS_EmptySet
<1> QED BY <1>3, <1>4, <1>5

\* One more trial that succeeds comes after those before it.
LEMMA OneMorePlace ==
  ASSUME NEW n \in Nat, NEW s \in SUBSET (1..n)
  PROVE  /\ Cardinality(s \cup {n + 1}) = Cardinality(s) + 1
         /\ Place(n + 1, s \cup {n + 1}) = Cardinality(s) + 1
         /\ \A i \in s : Place(i, s \cup {n + 1}) = Place(i, s)
<1>1. IsFiniteSet(s)
  <2>1. IsFiniteSet(1..n)
    BY FS_Interval, 1 \in Int, n \in Int
  <2> QED BY <2>1, FS_Subset
<1>2. n + 1 \notin s
  OBVIOUS
<1>3. Cardinality(s \cup {n + 1}) = Cardinality(s) + 1
  BY <1>1, <1>2, FS_AddElement
<1>4. {j \in s \cup {n + 1} : j <= n + 1} = s \cup {n + 1}
  <2>1. \A j \in s \cup {n + 1} : j <= n + 1
    OBVIOUS
  <2> QED BY <2>1, Zenon
<1>5. \A i \in s : {j \in s \cup {n + 1} : j <= i} = {j \in s : j <= i}
  OBVIOUS
<1>6. Place(n + 1, s \cup {n + 1}) = Cardinality(s \cup {n + 1})
  BY <1>4, Zenon DEF Place
<1>7. \A i \in s : Place(i, s \cup {n + 1}) = Place(i, s)
  BY <1>5, Zenon DEF Place
<1> QED BY <1>3, <1>6, <1>7

\* The next image, uploaded or not.
LEMMA OneMoreUpload ==
  ASSUME NEW trials \in Seq(BOOLEAN), NEW ids \in Seq(UploadIds), NEW rest \in Seq(Images),
         NEW images \in Seq(Images), rest # <<>>, NEW done \in BOOLEAN,
         Uploading(trials, ids, rest, images)
  PROVE  Uploading(Append(trials, done), IF done THEN Append(ids, Upload(Head(rest))) ELSE ids,
                   Tail(rest), images)
<1> DEFINE n == Len(trials)
           up == Succeeded(trials)
           up2 == Succeeded(Append(trials, done))
           ids2 == IF done THEN Append(ids, Upload(Head(rest))) ELSE ids
<1>1. n \in Nat /\ up \in SUBSET (1..n) /\ Len(Append(trials, done)) = n + 1
  BY SucceededType
<1>2. up2 = IF done THEN up \cup {n + 1} ELSE up
  <2>1. DOMAIN Append(trials, done) = 1..(n + 1) /\ DOMAIN trials = 1..n
    BY <1>1
  <2>2. Append(trials, done)[n + 1] = done /\ \A i \in 1..n : Append(trials, done)[i] = trials[i]
    BY <1>1
  <2>3. 1..(n + 1) = 1..n \cup {n + 1}
    BY <1>1
  <2>4. up2 = {i \in 1..(n + 1) : Append(trials, done)[i]}
    BY <2>1, Zenon DEF Succeeded
  <2>5. up = {i \in 1..n : trials[i]}
    BY <2>1, Zenon DEF Succeeded
  <2>6. n + 1 \notin 1..n
    BY <1>1
  <2> HIDE DEF n, up2, up
  <2> QED BY <2>2, <2>3, <2>4, <2>5, <2>6
<1>3. Len(rest) \in Nat \ {0} /\ Len(rest) = Len(Tail(rest)) + 1 /\ Len(Tail(rest)) \in Nat
  OBVIOUS
<1>4. /\ n + Len(rest) = Len(images)
      /\ \A k \in 1..Len(rest) : rest[k] = images[n + k]
      /\ Len(ids) = Cardinality(up)
      /\ \A i \in up : ids[Place(i, up)] = Upload(images[i])
  BY <1>1, <1>3 DEF Uploading
<1>5. \A k \in 1..Len(Tail(rest)) : Tail(rest)[k] = images[(n + 1) + k]
  <2> SUFFICES ASSUME NEW k \in 1..Len(Tail(rest)) PROVE Tail(rest)[k] = images[(n + 1) + k]
    OBVIOUS
  <2>1. Tail(rest)[k] = rest[k + 1] /\ k + 1 \in 1..Len(rest)
    BY <1>3
  <2>2. rest[k + 1] = images[n + (k + 1)] /\ n + (k + 1) = (n + 1) + k
    BY <2>1, <1>1, <1>4
  <2> QED BY <2>1, <2>2
<1>6. (n + 1) + Len(Tail(rest)) = Len(images)
  BY <1>1, <1>3, <1>4
<1>7. Len(ids2) = Cardinality(up2) /\ \A i \in up2 : ids2[Place(i, up2)] = Upload(images[i])
  <2>1. CASE ~ done
    BY <2>1, <1>2, <1>4, Zenon
  <2>2. CASE done
    <3> DEFINE id == Upload(Head(rest))
    <3>1. id = Upload(images[n + 1])
      <4>1. Head(rest) = rest[1] /\ 1 \in 1..Len(rest)
        BY <1>3
      <4> QED BY <4>1, <1>4
    <3>2. up2 = up \cup {n + 1} /\ ids2 = Append(ids, id)
      BY <2>2, <1>2, Zenon
    <3> HIDE DEF id, n, up, up2, ids2
    <3>3. /\ Cardinality(up2) = Cardinality(up) + 1
          /\ Place(n + 1, up2) = Cardinality(up) + 1
          /\ \A i \in up : Place(i, up2) = Place(i, up)
      BY <1>1, <3>2, OneMorePlace
    <3>4. \A i \in up : Place(i, up) \in 1..Cardinality(up)
      BY <1>1, PlaceType
    <3>5. /\ Len(Append(ids, id)) = Len(ids) + 1
          /\ Append(ids, id)[Len(ids) + 1] = id
          /\ \A k \in 1..Len(ids) : Append(ids, id)[k] = ids[k]
      BY AppendProperties, ids \in Seq(UploadIds \cup {id}), id \in UploadIds \cup {id}
    <3>6. \A i \in up : Append(ids, id)[Place(i, up2)] = Upload(images[i])
      BY <1>4, <3>3, <3>4, <3>5
    <3>7. Append(ids, id)[Place(n + 1, up2)] = Upload(images[n + 1])
      BY <1>4, <3>1, <3>3, <3>5
    <3>8. Len(ids2) = Cardinality(up2)
      BY <1>4, <3>2, <3>3, <3>5
    <3> QED BY <3>2, <3>6, <3>7, <3>8
  <2> QED BY <2>1, <2>2
<1> HIDE DEF n, ids2
<1>8. Len(Append(trials, done)) = n + 1
  BY <1>1
<1>9. Uploading(Append(trials, done), ids2, Tail(rest), images)
  BY <1>5, <1>6, <1>7, <1>8 DEF Uploading
<1> QED BY <1>9 DEF ids2

\* The images of a request, and what it asks.
LEMMA ImagesType ==
  ASSUME NEW c \in Chats
  PROVE  CollectImageUrls(c.messages) \in Seq(Images)
<1>1. c.messages \in Seq(Message)
  BY ChatsAssumption DEF ChatType
<1>2. [i \in DOMAIN c.messages |-> c.messages[i].images] \in Seq(Seq(Images))
  <2> DEFINE m == c.messages
  <2>0. m \in Seq(Message)
    BY <1>1
  <2> HIDE DEF m
  <2>1. DOMAIN m = 1..Len(m) /\ Len(m) \in Nat /\ \A i \in 1..Len(m) : m[i] \in Message
    BY <2>0
  <2>2. \A i \in 1..Len(m) : m[i].images \in Seq(Images)
    BY <2>1 DEF Message
  <2>3. [i \in DOMAIN m |-> m[i].images] \in Seq(Seq(Images))
    BY <2>1, <2>2
  <2> QED BY <2>3 DEF m
<1> QED BY <1>2, FlattenType DEF CollectImageUrls

LEMMA SamplingType ==
  ASSUME NEW c \in Chats
  PROVE  /\ Overridden(c, Defaults) \in Sampling
         /\ ~ Overrides(c) => Overridden(c, Defaults) = Defaults
<1>1. c.sampling \in Sampling /\ Defaults \in Sampling
  BY ChatsAssumption, ProfileAssumption DEF ChatType
<1>2. Overridden(c, Defaults) \in Sampling
  BY <1>1 DEF Overridden, Given, Sampling
<1>3. ASSUME ~ Overrides(c) PROVE Overridden(c, Defaults) = Defaults
  <2>1. Overridden(c, Defaults)
          = [temperature |-> Defaults.temperature, max_tokens |-> Defaults.max_tokens]
    BY <1>3, Zenon DEF Overrides, Overridden, Given
  <2> QED BY <1>1, <2>1 DEF Sampling
<1> QED BY <1>2, <1>3

\* A request that is left alone keeps what it has.
LEMMA RequestAlone ==
  ASSUME NEW r \in Requests, RequestInv(r), UNCHANGED sampling,
         progress[r] # "new" => UNCHANGED <<stage, account>>,
         chat'[r] = chat[r], progress'[r] = progress[r], own'[r] = own[r], left'[r] = left[r],
         attachments'[r] = attachments[r], outcomes'[r] = outcomes[r], posted'[r] = posted[r]
  PROVE  RequestInv(r)'
<1>1. CASE progress[r] = "new"
  BY <1>1 DEF RequestInv
<1>2. CASE progress[r] # "new"
  <2>1. UpstreamRequest(r)' = UpstreamRequest(r)
    BY <1>2 DEF UpstreamRequest, JspbHeader, Received
  <2> QED BY <1>2, <2>1 DEF RequestInv
<1> QED BY <1>1, <1>2

LEMMA UpstreamStarts == Init => UpstreamInv
<1> SUFFICES ASSUME Init PROVE UpstreamInv
  OBVIOUS
<1>1. UpstreamTypes
  <2>1. <<>> \in Seq(Images) /\ <<>> \in Seq(UploadIds) /\ <<>> \in Seq(BOOLEAN)
    OBVIOUS
  <2> QED BY <2>1, ProfileAssumption DEF Init, UpstreamTypes
<1>2. Imported
  BY DEF Init, Imported
<1>3. \A r \in Requests : RequestInv(r)
  BY DEF Init, RequestInv
<1> QED BY <1>1, <1>2, <1>3 DEF UpstreamInv, Init

LEMMA ImportKeeps ==
  ASSUME UpstreamInv, ParseHar \/ CreateAccount
  PROVE  UpstreamInv'
<1>1. stage \notin {"created"} /\ stage' \in {"captured", "refused", "parsed", "created"}
  BY DEF ParseHar, CreateAccount
<1>2. \A r \in Requests : progress[r] = "new"
  BY <1>1 DEF UpstreamInv, RequestInv
<1>3. UNCHANGED <<har, asked>>
  BY DEF ParseHar, CreateAccount
<1>4. UpstreamTypes'
  BY <1>1, <1>3 DEF UpstreamInv, UpstreamTypes, asked
<1>5. Imported'
  <2>1. CASE ParseHar
    BY <2>1 DEF ParseHar, Imported
  <2>2. CASE CreateAccount
    BY <2>2 DEF CreateAccount, UpstreamInv, Imported
  <2> QED BY <2>1, <2>2
<1>6. \A r \in Requests : RequestInv(r)'
  BY <1>2, <1>3, RequestAlone DEF UpstreamInv, asked
<1> QED BY <1>3, <1>4, <1>5, <1>6 DEF UpstreamInv, asked

LEMMA ArriveKeeps ==
  ASSUME NEW r \in Requests, NEW c \in Chats, UpstreamInv, Arrive(r, c)
  PROVE  UpstreamInv'
<1> DEFINE images == CollectImageUrls(c.messages)
<1>1. PICK uploads \in {<<>>, images} : left' = [left EXCEPT ![r] = uploads]
  BY Zenon DEF Arrive
<1>2. images \in Seq(Images)
  BY ImagesType
<1> HIDE DEF images
<1>3. /\ stage = "created" /\ progress[r] = "new"
      /\ chat' = [chat EXCEPT ![r] = c]
      /\ progress' = [progress EXCEPT ![r] = "uploading"]
      /\ sampling' = sampling /\ sampling = Defaults
      /\ own' = [own EXCEPT ![r] = Chosen(c)]
      /\ UNCHANGED <<har, stage, analysis, account, attachments, outcomes, posted>>
  BY DEF Arrive, Override, Chosen, UpstreamInv, imported
<1>4. UpstreamTypes /\ Imported
  BY DEF UpstreamInv
<1>5. Chosen(c) \in Sampling \cup {None}
  BY SamplingType DEF Chosen
<1>6. UpstreamTypes'
  <2>1. uploads \in Seq(Images)
    <3>1. <<>> \in Seq(Images)
      OBVIOUS
    <3>2. uploads = <<>> \/ uploads = images
      BY <1>1, Zenon
    <3> QED BY <1>2, <3>1, <3>2, Zenon
  <2>2. /\ chat' \in [Requests -> Chats \cup {None}]
        /\ progress' \in [Requests -> {"new", "uploading", "sent"}]
        /\ own' \in [Requests -> Sampling \cup {None}]
        /\ left' \in [Requests -> Seq(Images)]
    BY <1>1, <1>3, <1>4, <1>5, <2>1 DEF UpstreamTypes
  <2> QED BY <1>3, <1>4, <2>2 DEF UpstreamTypes
<1>7. Imported'
  BY <1>3, <1>4 DEF Imported
<1>8. RequestInv(r)'
  <2>1. attachments[r] = <<>> /\ outcomes[r] = <<>>
    BY <1>3 DEF UpstreamInv, RequestInv
  <2>2. Uploading(<<>>, <<>>, uploads, images)
    <3>1. Succeeded(<<>>) = {}
      BY DEF Succeeded
    <3>2. Len(uploads) \in {0, Len(images)} /\ \A k \in 1..Len(uploads) : uploads[k] = images[0 + k]
      BY <1>1, <1>2
    <3>3. Len(<<>>) + Len(uploads) = Len(uploads)
      BY <1>1, <1>2
    <3> QED BY <3>1, <3>2, <3>3, FS_EmptySet DEF Uploading
  <2>3. /\ progress'[r] = "uploading" /\ chat'[r] = c /\ own'[r] = Chosen(c) /\ left'[r] = uploads
        /\ attachments'[r] = <<>> /\ outcomes'[r] = <<>>
    BY <1>1, <1>3, <1>4, <2>1 DEF UpstreamTypes
  <2> QED BY <1>3, <2>2, <2>3 DEF RequestInv, images
<1>9. ASSUME NEW q \in Requests, q # r PROVE RequestInv(q)'
  <2>1. /\ chat'[q] = chat[q] /\ progress'[q] = progress[q] /\ own'[q] = own[q] /\ left'[q] = left[q]
        /\ attachments'[q] = attachments[q] /\ outcomes'[q] = outcomes[q] /\ posted'[q] = posted[q]
    BY <1>1, <1>3, <1>4, <1>9 DEF UpstreamTypes
  <2> QED BY <1>3, <2>1, RequestAlone DEF UpstreamInv
<1> QED BY <1>3, <1>6, <1>7, <1>8, <1>9 DEF UpstreamInv

LEMMA UploadKeeps ==
  ASSUME NEW r \in Requests, NEW done \in BOOLEAN, UpstreamInv, UploadImage(r, done)
  PROVE  UpstreamInv'
<1> DEFINE images == CollectImageUrls(chat[r].messages)
           ids == IF done THEN Append(attachments[r], Upload(Head(left[r]))) ELSE attachments[r]
<1>1. /\ progress[r] = "uploading" /\ left[r] # <<>>
      /\ attachments' = [attachments EXCEPT ![r] = ids]
      /\ left' = [left EXCEPT ![r] = Tail(left[r])]
      /\ outcomes' = [outcomes EXCEPT ![r] = Append(outcomes[r], done)]
      /\ UNCHANGED <<har, stage, analysis, account, sampling, chat, progress, own, posted>>
  BY DEF UploadImage, imported, UpstreamInv, UpstreamTypes
<1>2. UpstreamTypes /\ Imported /\ RequestInv(r) /\ sampling = Defaults
  BY DEF UpstreamInv
<1>3. /\ left[r] \in Seq(Images) /\ attachments[r] \in Seq(UploadIds) /\ outcomes[r] \in Seq(BOOLEAN)
      /\ chat[r] \in Chats
  BY <1>1, <1>2 DEF UpstreamTypes, RequestInv
<1>4. images \in Seq(Images)
  BY <1>3, ImagesType
<1>5. Uploading(outcomes[r], attachments[r], left[r], images)
  BY <1>1, <1>2 DEF RequestInv
<1>6. Uploading(Append(outcomes[r], done), ids, Tail(left[r]), images)
  BY <1>1, <1>3, <1>4, <1>5, OneMoreUpload
<1>7. /\ ids \in Seq(UploadIds) /\ Tail(left[r]) \in Seq(Images)
      /\ Append(outcomes[r], done) \in Seq(BOOLEAN)
  <2>1. Head(left[r]) \in Images /\ Tail(left[r]) \in Seq(Images)
    BY <1>1, <1>3
  <2>2. Upload(Head(left[r])) \in UploadIds
    BY <2>1 DEF UploadIds
  <2>3. Append(outcomes[r], done) \in Seq(BOOLEAN)
    BY <1>3
  <2> QED BY <1>3, <2>1, <2>2, <2>3
<1> HIDE DEF ids
<1>8. UpstreamTypes'
  BY <1>1, <1>2, <1>7 DEF UpstreamTypes
<1>9. Imported'
  BY <1>1, <1>2 DEF Imported
<1>10. RequestInv(r)'
  <2>1. /\ progress'[r] = "uploading" /\ chat'[r] = chat[r] /\ own'[r] = own[r]
        /\ left'[r] = Tail(left[r]) /\ attachments'[r] = ids
        /\ outcomes'[r] = Append(outcomes[r], done)
    BY <1>1, <1>2 DEF UpstreamTypes
  <2> QED BY <1>1, <1>2, <1>6, <2>1 DEF RequestInv
<1>11. ASSUME NEW q \in Requests, q # r PROVE RequestInv(q)'
  <2>1. /\ chat'[q] = chat[q] /\ progress'[q] = progress[q] /\ own'[q] = own[q] /\ left'[q] = left[q]
        /\ attachments'[q] = attachments[q] /\ outcomes'[q] = outcomes[q] /\ posted'[q] = posted[q]
    BY <1>1, <1>2, <1>11 DEF UpstreamTypes
  <2> QED BY <1>1, <2>1, RequestAlone DEF UpstreamInv
<1> QED BY <1>1, <1>2, <1>8, <1>9, <1>10, <1>11 DEF UpstreamInv

LEMMA SendUpstreamKeeps ==
  ASSUME NEW r \in Requests, UpstreamInv, Send(r)
  PROVE  UpstreamInv'
<1>1. /\ progress[r] \in {"uploading", "sent"} /\ left[r] = <<>>
      /\ posted' = [posted EXCEPT ![r] = UpstreamRequest(r)]
      /\ progress' = [progress EXCEPT ![r] = "sent"]
      /\ UNCHANGED <<har, stage, analysis, account, sampling, chat, own, left, attachments, outcomes>>
  BY DEF Send, imported
<1>2. UpstreamTypes /\ Imported /\ RequestInv(r) /\ sampling = Defaults
  BY DEF UpstreamInv
<1>3. UpstreamTypes'
  BY <1>1, <1>2 DEF UpstreamTypes
<1>4. Imported'
  BY <1>1, <1>2 DEF Imported
<1>5. RequestInv(r)'
  <2>1. progress'[r] = "sent" /\ posted'[r] = UpstreamRequest(r)
    BY <1>1, <1>2, Zenon DEF UpstreamTypes
  <2>2. UpstreamRequest(r)' = UpstreamRequest(r)
    BY <1>1 DEF UpstreamRequest, JspbHeader, Received
  <2> QED BY <1>1, <1>2, <2>1, <2>2 DEF RequestInv
<1>6. ASSUME NEW q \in Requests, q # r PROVE RequestInv(q)'
  <2>1. /\ chat'[q] = chat[q] /\ progress'[q] = progress[q] /\ own'[q] = own[q] /\ left'[q] = left[q]
        /\ attachments'[q] = attachments[q] /\ outcomes'[q] = outcomes[q] /\ posted'[q] = posted[q]
    BY <1>1, <1>2, <1>6 DEF UpstreamTypes
  <2> QED BY <1>1, <2>1, RequestAlone DEF UpstreamInv
<1> QED BY <1>1, <1>2, <1>3, <1>4, <1>5, <1>6 DEF UpstreamInv

LEMMA UpstreamKept == UpstreamInv /\ [Next]_vars => UpstreamInv'
<1> SUFFICES ASSUME UpstreamInv, [Next]_vars PROVE UpstreamInv'
  OBVIOUS
<1>1. CASE ParseHar \/ CreateAccount
  BY <1>1, ImportKeeps
<1>2. ASSUME NEW r \in Requests, NEW c \in Chats, Arrive(r, c) PROVE UpstreamInv'
  BY <1>2, ArriveKeeps
<1>3. ASSUME NEW r \in Requests, NEW done \in BOOLEAN, UploadImage(r, done) PROVE UpstreamInv'
  BY <1>3, UploadKeeps
<1>4. ASSUME NEW r \in Requests, Send(r) PROVE UpstreamInv'
  BY <1>4, SendUpstreamKeeps
<1>5. CASE UNCHANGED vars
  <2>1. UNCHANGED <<har, stage, analysis, account, sampling, chat, progress, own, left, attachments,
                    outcomes, posted>>
    BY <1>5 DEF vars, imported, asked
  <2>2. \A r \in Requests : RequestInv(r)'
    BY <2>1, RequestAlone DEF UpstreamInv
  <2> QED BY <2>1, <2>2 DEF UpstreamInv, UpstreamTypes, Imported
<1> QED BY <1>1, <1>2, <1>3, <1>4, <1>5 DEF Next

THEOREM UpstreamInvariant == Spec => []UpstreamInv
<1> QED BY UpstreamStarts, UpstreamKept, PTL DEF Spec

\* Values keep their types: each request has its own sampling or none, and the
\* images uploaded and left are those of its messages, or none (TypeOK).
THEOREM UpstreamTypeCorrect == Spec => []TypeOK
<1>1. UpstreamInv => TypeOK
  <2> SUFFICES ASSUME UpstreamInv PROVE TypeOK
    OBVIOUS
  <2>1. /\ stage \in {"captured", "refused", "parsed", "created"}
        /\ sampling \in Sampling
        /\ own \in [Requests -> Sampling \cup {None}]
    BY DEF UpstreamInv, UpstreamTypes
  <2>2. ASSUME NEW r \in Requests, progress[r] # "new"
        PROVE  /\ chat[r] \in Chats
               /\ Len(attachments[r]) <= Len(outcomes[r])
               /\ Len(outcomes[r]) + Len(left[r]) \in {0, Len(CollectImageUrls(chat[r].messages))}
    <3>1. /\ chat[r] \in Chats
          /\ Uploading(outcomes[r], attachments[r], left[r], CollectImageUrls(chat[r].messages))
      BY <2>2 DEF UpstreamInv, RequestInv
    <3>2. outcomes[r] \in Seq(BOOLEAN)
      BY DEF UpstreamInv, UpstreamTypes
    <3>3. Cardinality(Succeeded(outcomes[r])) <= Len(outcomes[r])
      BY <3>2, SucceededType
    <3> QED BY <3>1, <3>3 DEF Uploading
  <2> QED BY <2>1, <2>2 DEF TypeOK
<1> QED BY <1>1, UpstreamInvariant, PTL

\* Requests that share a profile never see each other's sampling (OwnSampling;
\* server.py:387-396).
THEOREM OwnSamplingHolds == Spec => []OwnSampling
<1>1. UpstreamInv => OwnSampling
  <2> SUFFICES ASSUME UpstreamInv, NEW r \in Sent
               PROVE  posted[r].sampling = Overridden(chat[r], Defaults)
    BY DEF OwnSampling
  <2>1. /\ chat[r] \in Chats /\ own[r] = Chosen(chat[r]) /\ posted[r] = UpstreamRequest(r)
        /\ sampling = Defaults
    BY DEF Sent, UpstreamInv, RequestInv
  <2>2. posted[r].sampling = IF own[r] = None THEN sampling ELSE own[r]
    <3> DEFINE used == IF own[r] = None THEN sampling ELSE own[r]
    <3>1. UpstreamRequest(r).sampling = used
      BY DEF UpstreamRequest
    <3> QED BY <2>1, <3>1
  <2>3. /\ Overridden(chat[r], Defaults) \in Sampling
        /\ ~ Overrides(chat[r]) => Overridden(chat[r], Defaults) = Defaults
    BY <2>1, SamplingType
  <2>4. CASE Overrides(chat[r])
    <3>1. own[r] = Overridden(chat[r], Defaults)
      BY <2>1, <2>4, Zenon DEF Chosen
    <3>2. own[r] # None
      BY <3>1, <2>3, NoneAssumption, Zenon
    <3> QED BY <2>2, <3>1, <3>2, Zenon
  <2>5. CASE ~ Overrides(chat[r])
    BY <2>1, <2>2, <2>3, <2>5, Zenon DEF Chosen
  <2> QED BY <2>4, <2>5
<1> QED BY <1>1, UpstreamInvariant, PTL

\* Whatever uploads fail, the ids sent are those of the images that were
\* uploaded, in the order of the messages (UploadsInOrder; server.py:407-424,
\* adapter.py:209-211).
THEOREM UploadsInOrderHolds == Spec => []UploadsInOrder
<1>1. UpstreamInv => UploadsInOrder
  <2> SUFFICES ASSUME UpstreamInv, NEW r \in Sent
               PROVE  LET images   == CollectImageUrls(chat[r].messages)
                          listed   == posted[r].attachments
                          uploaded == Succeeded(outcomes[r])
                      IN  /\ {k \in DOMAIN listed : listed[k].type = "upload_id"}
                               = 1..Cardinality(uploaded)
                          /\ \A i \in uploaded : listed[Place(i, uploaded)] = Upload(images[i])
    BY Zenon DEF UploadsInOrder
  <2> DEFINE images   == CollectImageUrls(chat[r].messages)
             listed   == posted[r].attachments
             uploaded == Succeeded(outcomes[r])
             ids      == attachments[r]
             last     == Last(chat[r].messages).images
             links    == [i \in DOMAIN last |-> Link(last[i])]
             n        == Cardinality(uploaded)
  <2>1. /\ chat[r] \in Chats /\ posted[r] = UpstreamRequest(r) /\ r \in Requests
        /\ Uploading(outcomes[r], ids, left[r], images)
    BY DEF Sent, UpstreamInv, RequestInv
  <2>2. ids \in Seq(UploadIds) /\ outcomes[r] \in Seq(BOOLEAN)
    BY <2>1 DEF UpstreamInv, UpstreamTypes
  <2>3. listed = ids \o links
    <3> DEFINE all == AllAttachments(chat[r].messages, attachments[r])
    <3>1. UpstreamRequest(r).attachments = all
      BY DEF UpstreamRequest
    <3>2. all = ids \o links
      BY DEF AllAttachments
    <3> QED BY <2>1, <3>1, <3>2
  <2>4. last \in Seq(Images)
    <3> DEFINE m == chat[r].messages
    <3>1. m \in Seq(Message) /\ m # <<>>
      BY <2>1, ChatsAssumption DEF ChatType
    <3> HIDE DEF m
    <3>2. Len(m) \in 1..Len(m) /\ Last(m) = m[Len(m)]
      BY <3>1 DEF Last
    <3>3. Last(m) \in Message
      BY <3>1, <3>2
    <3>4. Last(m).images \in Seq(Images)
      BY <3>3 DEF Message
    <3> QED BY <3>4 DEF m
  <2> HIDE DEF last
  <2>5. /\ links \in Seq({Link(u) : u \in Images})
        /\ \A k \in DOMAIN links : links[k].type = "image_url"
    <3>1. \A k \in DOMAIN last : Link(last[k]) \in {Link(u) : u \in Images}
      BY <2>4
    <3>2. DOMAIN last = 1..Len(last) /\ Len(last) \in Nat
      BY <2>4
    <3>3. \A k \in DOMAIN last : Link(last[k]).type = "image_url"
      BY DEF Link
    <3> QED BY <3>1, <3>2, <3>3
  <2>6. /\ Len(ids) = n
        /\ \A i \in uploaded : ids[Place(i, uploaded)] = Upload(images[i])
    BY <2>1 DEF Uploading
  <2>7. /\ uploaded \in SUBSET (1..Len(outcomes[r])) /\ n \in Nat
        /\ Len(outcomes[r]) \in Nat
    BY <2>2, SucceededType
  <2>8. \A k \in 1..n : ids[k].type = "upload_id"
    <3>1. \A k \in 1..n : ids[k] \in UploadIds
      BY <2>2, <2>6
    <3>2. \A x \in UploadIds : x.type = "upload_id"
      BY DEF UploadIds, Upload
    <3> QED BY <3>1, <3>2
  <2>9. \A i \in uploaded : Place(i, uploaded) \in 1..n
    BY <2>7, PlaceType
  <2> HIDE DEF images, listed, uploaded, ids, links
  <2>10. /\ Len(links) \in Nat /\ DOMAIN links = 1..Len(links)
         /\ DOMAIN listed = 1..(n + Len(links))
         /\ \A k \in 1..n : listed[k] = ids[k]
         /\ \A k \in 1..Len(links) : listed[n + k] = links[k]
    <3> DEFINE A == UploadIds \cup {Link(u) : u \in Images}
    <3>1. ids \in Seq(A) /\ links \in Seq(A)
      BY <2>2, <2>5
    <3> HIDE DEF A
    <3> QED BY <2>3, <2>6, <3>1
  <2> HIDE DEF n
  <2>11. {k \in DOMAIN listed : listed[k].type = "upload_id"} = 1..n
    <3>1. ASSUME NEW k \in 1..n PROVE k \in DOMAIN listed /\ listed[k].type = "upload_id"
      BY <2>7, <2>8, <2>10
    <3>2. ASSUME NEW k \in DOMAIN listed, k \notin 1..n PROVE listed[k].type # "upload_id"
      <4>1. k - n \in 1..Len(links) /\ k = n + (k - n)
        BY <2>7, <2>10, <3>2
      <4>2. listed[k] = links[k - n] /\ links[k - n].type = "image_url"
        BY <2>5, <2>10, <4>1
      <4> QED BY <4>2
    <3> QED BY <3>1, <3>2
  <2>12. \A i \in uploaded : listed[Place(i, uploaded)] = Upload(images[i])
    BY <2>6, <2>9, <2>10
  <2> QED BY <2>11, <2>12, Zenon DEF images, listed, uploaded, n
<1> QED BY <1>1, UpstreamInvariant, PTL

\* Decoding what was encoded gives it back, and damages only what has a percent
\* sign of its own.
LEMMA ThereAndBack ==
  ASSUME NEW token
  PROVE  /\ Decode(Encode(Plainly(token))) = Plainly(token)
         /\ Decode(OnTheWire(token)) = Plainly(token)
         /\ token \notin Percent => Decode(Plainly(token)) = Plainly(token)
         /\ token \notin Special => OnTheWire(token) = Plainly(token)
<1>1. token \in Percent => token \in Special
  BY TokensAssumption
<1>2. \A k \in Int : Text(token, k).of = token
  BY DEF Text
<1>3. token \in Special => \A k \in Int : Text(token, k).encoded = k
  BY DEF Text
<1>4. token \notin Special => \A k \in Int : Text(token, k) = Text(token, 0)
  BY DEF Text
<1>5. Text(token, 0).encoded = 0
  BY DEF Text
<1>6. Encode(Plainly(token)) = Text(token, 1)
  BY <1>2, <1>5 DEF Encode, Plainly
<1>7. Decode(Text(token, 1)) = Text(token, 0)
  BY <1>1, <1>2, <1>3, <1>4, <1>5 DEF Decode
<1>8. token \notin Percent => Decode(Text(token, 0)) = Text(token, 0)
  BY <1>2, <1>5 DEF Decode
<1> QED BY <1>4, <1>6, <1>7, <1>8 DEF OnTheWire, Plainly

\* What parse_har returns of an entry, with the texts that were not spoilt.
LEMMA AnalysisIs ==
  ASSUME NEW e
  PROVE  /\ Analysis(e).bl = Plainly(e.bl)
         /\ Analysis(e).f_sid = Plainly(e.f_sid)
         /\ Analysis(e).hl = Plainly(IF e.hl = NoToken THEN DefaultHl ELSE e.hl)
         /\ e.at \notin Special => Analysis(e).at = Plainly(e.at)
         /\ InnerReadable(e) /\ e.sn_param \notin Percent => Analysis(e).sn_param = Plainly(e.sn_param)
         /\ Analysis(e).session_uuid = Plainly(e.session_uuid)
         /\ Analysis(e).request_hash = Plainly(e.request_hash)
<1>1. \A token, default :
        UrlParam(token, default) = Plainly(IF token = NoToken THEN default ELSE token)
  BY ThereAndBack, Zenon DEF UrlParam
<1>2. /\ Analysis(e).bl = UrlParam(e.bl, NoToken)
      /\ Analysis(e).f_sid = UrlParam(e.f_sid, NoToken)
      /\ Analysis(e).hl = UrlParam(e.hl, DefaultHl)
      /\ Analysis(e).at = OnTheWire(e.at)
      /\ InnerReadable(e) => Analysis(e).sn_param = InnerText(e.sn_param)
      /\ Analysis(e).session_uuid = Plainly(e.session_uuid)
      /\ Analysis(e).request_hash = Plainly(e.request_hash)
  BY DEF Analysis
<1>3. e.sn_param \notin Percent => InnerText(e.sn_param) = Plainly(e.sn_param)
  BY ThereAndBack, Zenon DEF InnerText
<1>4. e.at \notin Special => OnTheWire(e.at) = Plainly(e.at)
  BY ThereAndBack, Zenon
<1>5. /\ UrlParam(e.bl, NoToken) = Plainly(e.bl)
      /\ UrlParam(e.f_sid, NoToken) = Plainly(e.f_sid)
      /\ UrlParam(e.hl, DefaultHl) = Plainly(IF e.hl = NoToken THEN DefaultHl ELSE e.hl)
  BY <1>1, Zenon
<1> QED BY <1>2, <1>3, <1>4, <1>5, Zenon

\* The upstream sees the session that the browser had, as far as the import does
\* not spoil it (SessionCarried; har_parser.py:45-168, adapter.py:64-135).
THEOREM SessionCarriedHolds == Spec => []SessionCarried
<1>1. UpstreamInv => SessionCarried
  <2> SUFFICES ASSUME UpstreamInv, NEW r \in Sent
               PROVE  LET s == posted[r]
                      IN  /\ Same(s.bl, Captured.bl) /\ Same(s.f_sid, Captured.f_sid)
                          /\ Same(s.hl, IF Captured.hl = NoToken THEN DefaultHl ELSE Captured.hl)
                          /\ Same(s.jspb.session_uuid, Captured.session_uuid)
                          /\ Same(s.jspb.request_hash, Captured.request_hash)
                          /\ Captured.at \notin Special => Same(s.at, Captured.at)
                          /\ InnerReadable(Captured) /\ Captured.sn_param \notin Percent
                               => Same(s.sn_param, Captured.sn_param)
    BY Zenon DEF SessionCarried
  <2> DEFINE e == Captured
  <2>1. /\ posted[r] = UpstreamRequest(r) /\ analysis = Analysis(e)
        /\ account = [f \in SessionFields |-> analysis[f]]
    BY DEF Sent, UpstreamInv, RequestInv, Imported, Captured
  <2>2. \A f \in SessionFields : account[f] = Analysis(e)[f]
    BY <2>1
  <2>3. /\ UpstreamRequest(r).bl = Received("bl")
        /\ UpstreamRequest(r).f_sid = Received("f_sid")
        /\ UpstreamRequest(r).hl = Received("hl")
        /\ UpstreamRequest(r).at = Received("at")
        /\ UpstreamRequest(r).sn_param = Received("sn_param")
        /\ UpstreamRequest(r).jspb.session_uuid = account["session_uuid"]
        /\ UpstreamRequest(r).jspb.request_hash = account["request_hash"]
    BY DEF UpstreamRequest, JspbHeader
  <2>4. \A f \in SessionFields : \A token :
          account[f] = Plainly(token) => Received(f) = Plainly(token)
    BY ThereAndBack, Zenon DEF Received
  <2>5. {"bl", "f_sid", "hl", "at", "sn_param", "session_uuid", "request_hash"} \subseteq SessionFields
    BY DEF SessionFields
  <2>6. /\ account["bl"] = Plainly(e.bl)
        /\ account["f_sid"] = Plainly(e.f_sid)
        /\ account["hl"] = Plainly(IF e.hl = NoToken THEN DefaultHl ELSE e.hl)
        /\ e.at \notin Special => account["at"] = Plainly(e.at)
        /\ InnerReadable(e) /\ e.sn_param \notin Percent => account["sn_param"] = Plainly(e.sn_param)
        /\ account["session_uuid"] = Plainly(e.session_uuid)
        /\ account["request_hash"] = Plainly(e.request_hash)
    BY <2>2, <2>5, AnalysisIs
  <2> HIDE DEF e
  <2>7. /\ Received("bl") = Plainly(e.bl)
        /\ Received("f_sid") = Plainly(e.f_sid)
        /\ Received("hl") = Plainly(IF e.hl = NoToken THEN DefaultHl ELSE e.hl)
        /\ e.at \notin Special => Received("at") = Plainly(e.at)
        /\ InnerReadable(e) /\ e.sn_param \notin Percent => Received("sn_param") = Plainly(e.sn_param)
    BY <2>4, <2>5, <2>6
  <2> QED BY <2>1, <2>3, <2>6, <2>7 DEF Same, e
<1> QED BY <1>1, UpstreamInvariant, PTL

=============================================================================
