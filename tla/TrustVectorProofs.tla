-------------------------- MODULE TrustVectorProofs -------------------------
(***************************************************************************)
(* The vector of usb.rs against the set of fingerprints the other modules  *)
(* use, proved for files, vectors and lists of devices of any length: every*)
(* loop of upgrade_legacy, trust and merge_into_baseline is a fold, a fold *)
(* is shown to go through the states of a loop, and an invariant of each   *)
(* loop is carried through its rounds by induction.                        *)
(***************************************************************************)
EXTENDS TrustVector, WellFoundedInduction, SequenceTheorems, TLAPS

-----------------------------------------------------------------------------
(* Induction over the natural numbers, for a set in place of a predicate: a *)
(* set of exceptions would have a least element. *)

\* The order that the library proves well-founded is <.
LEMMA LessIsOrder == \A x, y \in Nat : x < y => <<x, y>> \in OpToRel(<, Nat)
  BY DEF OpToRel

\* What holds of 0, and of k + 1 when of k, holds of every natural number.
LEMMA Induction ==
  ASSUME NEW P, 0 \in P, \A k \in Nat : k \in P => k + 1 \in P
  PROVE  Nat \subseteq P
<1> DEFINE T == Nat \ P
<1>1. SUFFICES ASSUME T # {} PROVE FALSE
  OBVIOUS
<1>2. PICK x \in T : \A y \in T : ~ (<<y, x>> \in OpToRel(<, Nat))
  BY <1>1, WFMin, NatLessThanWellFounded
<1>3. x \in Nat /\ x # 0
  OBVIOUS
<1>4. x - 1 \in Nat /\ x - 1 < x /\ (x - 1) + 1 = x
  BY <1>3
<1>5. <<x - 1, x>> \in OpToRel(<, Nat)
  BY <1>3, <1>4, LessIsOrder
<1>6. x - 1 \notin T
  BY <1>2, <1>5
<1>7. x - 1 \in P
  BY <1>4, <1>6
<1>8. x \in P
  BY <1>4, <1>7
<1> QED BY <1>8

\* The greatest of some positions, when the last is one of them
LEMMA MaxOfTop ==
  ASSUME NEW k \in Nat, NEW s \in SUBSET (1..(k + 1)), k + 1 \in s
  PROVE  Max(s) = k + 1 /\ s \ {k + 1} \in SUBSET (1..k)
<1>1. \A y \in s : y \in Nat /\ k + 1 >= y
  OBVIOUS
<1>2. \A x \in s : (\A y \in s : x >= y) => x = k + 1
  BY <1>1
<1> DEFINE M == CHOOSE x \in s : \A y \in s : x >= y
<1>3. M \in s /\ \A y \in s : M >= y
  <2>1. \E x \in s : \A y \in s : x >= y
    BY <1>1
  <2> QED BY <2>1, Zenon
<1>4. Max(s) = M
  BY Zenon DEF Max
<1>5. M = k + 1
  BY <1>2, <1>3, Zenon
<1>6. s \ {k + 1} \in SUBSET (1..k)
  OBVIOUS
<1> HIDE DEF M
<1> QED BY <1>4, <1>5, <1>6

\* Some positions have a greatest one.
LEMMA MaxIn ==
  ASSUME NEW k \in Nat
  PROVE \A s \in SUBSET (1..k) : s # {} => Max(s) \in s /\ s \ {Max(s)} \in SUBSET (1..k)
<1> DEFINE P == {j \in Nat : \A s \in SUBSET (1..j) : s # {} => Max(s) \in s}
<1>1. 0 \in P
  <2>1. 1..0 = {}
    OBVIOUS
  <2> QED BY <2>1
<1>2. ASSUME NEW j \in Nat, j \in P PROVE j + 1 \in P
  <2> SUFFICES ASSUME NEW s \in SUBSET (1..(j + 1)), s # {} PROVE Max(s) \in s
    OBVIOUS
  <2>1. CASE j + 1 \in s
    BY <2>1, MaxOfTop
  <2>2. CASE j + 1 \notin s
    <3>1. s \in SUBSET (1..j)
      BY <2>2
    <3> QED BY <3>1, <1>2
  <2> QED BY <2>1, <2>2
<1> HIDE DEF P
<1>3. k \in P
  BY <1>1, <1>2, Induction
<1> QED BY <1>3 DEF P

\* The functions on sets of positions that a fold takes its value from
FoldOf(n, A, base, step) ==
  {g \in [SUBSET (1..n) -> A] :
     \A s \in SUBSET (1..n) :
       g[s] = IF s = {} THEN base ELSE step[<<g[s \ {Max(s)}], Max(s)>>]}

\* The start and the step of a loop keep to a set of states.
IsLoop(n, A, base, step) ==
  n \in Nat /\ base \in A /\ step \in [A \X (1..n) -> A]

\* There is such a function, for any loop.
LEMMA FoldExists ==
  ASSUME NEW n, NEW A, NEW base, NEW step, IsLoop(n, A, base, step)
  PROVE  FoldOf(n, A, base, step) # {}
<1>0. n \in Nat /\ base \in A /\ step \in [A \X (1..n) -> A]
  BY DEF IsLoop
<1> DEFINE P == {k \in Nat : k <= n => FoldOf(k, A, base, step) # {}}
<1>1. 0 \in P
  <2>1. [s \in SUBSET (1..0) |-> base] \in FoldOf(0, A, base, step)
    BY <1>0 DEF FoldOf
  <2> QED BY <2>1
<1>2. ASSUME NEW k \in Nat, k \in P PROVE k + 1 \in P
  <2> SUFFICES ASSUME k + 1 <= n PROVE FoldOf(k + 1, A, base, step) # {}
    OBVIOUS
  <2>1. PICK g : g \in FoldOf(k, A, base, step)
    BY <1>0, <1>2
  <2>2. /\ g \in [SUBSET (1..k) -> A]
        /\ \A s \in SUBSET (1..k) :
             g[s] = IF s = {} THEN base ELSE step[<<g[s \ {Max(s)}], Max(s)>>]
    BY <2>1 DEF FoldOf
  <2> DEFINE h == [s \in SUBSET (1..(k + 1)) |->
                     IF k + 1 \in s THEN step[<<g[s \ {k + 1}], k + 1>>] ELSE g[s]]
  <2>3. \A s \in SUBSET (1..(k + 1)) : k + 1 \notin s => s \in SUBSET (1..k)
    OBVIOUS
  <2>4. \A s \in SUBSET (1..(k + 1)) : k + 1 \in s => s \ {k + 1} \in SUBSET (1..k)
    OBVIOUS
  <2>5. k + 1 \in 1..n
    BY <1>0
  <2>6. h \in [SUBSET (1..(k + 1)) -> A]
    BY <1>0, <2>2, <2>3, <2>4, <2>5
  <2>7. ASSUME NEW s \in SUBSET (1..(k + 1))
        PROVE  h[s] = IF s = {} THEN base ELSE step[<<h[s \ {Max(s)}], Max(s)>>]
    <3>1. CASE k + 1 \in s
      <4>1. Max(s) = k + 1 /\ s # {} /\ s \ {k + 1} \in SUBSET (1..(k + 1))
        BY <3>1, MaxOfTop
      <4>2. h[s \ {k + 1}] = g[s \ {k + 1}]
        BY <4>1
      <4>3. h[s] = step[<<g[s \ {k + 1}], k + 1>>]
        BY <3>1
      <4> QED BY <4>1, <4>2, <4>3
    <3>2. CASE k + 1 \notin s
      <4>1. h[s] = g[s] /\ s \in SUBSET (1..k)
        BY <3>2, <2>3
      <4>2. CASE s = {}
        BY <4>1, <4>2, <2>2
      <4>3. CASE s # {}
        <5>1. s \ {Max(s)} \in SUBSET (1..k)
          BY <4>1
        <5>2. h[s \ {Max(s)}] = g[s \ {Max(s)}]
          BY <5>1, <3>2
        <5> QED BY <4>1, <4>3, <5>2, <2>2
      <4> QED BY <4>2, <4>3
    <3> QED BY <3>1, <3>2
  <2> HIDE DEF h
  <2>8. h \in FoldOf(k + 1, A, base, step)
    BY <2>6, <2>7 DEF FoldOf
  <2> QED BY <2>8
<1> HIDE DEF P
<1>3. n \in P
  BY <1>0, <1>1, <1>2, Induction
<1> QED BY <1>0, <1>3 DEF P

-----------------------------------------------------------------------------
(* A fold is a loop. *)

\* The states of a loop over 1..n, from its start to its end
Runs(n, A, base, step) ==
  {g \in [0..n -> A] : /\ g[0] = base
                      /\ \A k \in 1..n : g[k] = step[<<g[k - 1], k>>]}

\* The last of the first k positions
LEMMA MaxOfInitial ==
  ASSUME NEW k \in Nat \ {0}
  PROVE  Max(1..k) = k /\ (1..k) \ {k} = 1..(k - 1) /\ 1..k # {}
<1>1. k - 1 \in Nat /\ (k - 1) + 1 = k
  OBVIOUS
<1>2. 1..k \in SUBSET (1..((k - 1) + 1)) /\ (k - 1) + 1 \in 1..k
  BY <1>1
<1>3. Max(1..k) = k
  BY <1>1, <1>2, MaxOfTop
<1>4. (1..k) \ {k} = 1..(k - 1) /\ 1..k # {}
  OBVIOUS
<1> QED BY <1>3, <1>4

\* A function on sets of positions that does a loop's step on the last position,
\* as far as its value before that is a state of the loop
Follows(iter, n, A, base, step) ==
  /\ iter[{}] = base
  /\ \A s \in SUBSET (1..n) :
       s # {} /\ iter[s \ {Max(s)}] \in A =>
         iter[s] = step[<<iter[s \ {Max(s)}], Max(s)>>]

\* On the first k positions it is the state of the loop after k rounds.
LEMMA FoldRuns ==
  ASSUME NEW n, NEW A, NEW base, NEW step, NEW iter,
         IsLoop(n, A, base, step), Follows(iter, n, A, base, step)
  PROVE  \E g \in Runs(n, A, base, step) : iter[1..n] = g[n]
<1>0. /\ n \in Nat /\ base \in A /\ step \in [A \X (1..n) -> A]
      /\ iter[{}] = base
      /\ \A k \in 1..n : iter[1..(k - 1)] \in A =>
                          iter[1..k] = step[<<iter[1..(k - 1)], k>>]
  <2>1. n \in Nat /\ base \in A /\ step \in [A \X (1..n) -> A] /\ iter[{}] = base
    BY DEF IsLoop, Follows
  <2>2. ASSUME NEW k \in 1..n, iter[1..(k - 1)] \in A
        PROVE  iter[1..k] = step[<<iter[1..(k - 1)], k>>]
    <3>1. PICK s : s = 1..k
      OBVIOUS
    <3>2. /\ s \in SUBSET (1..n) /\ s # {}
          /\ Max(s) = k /\ s \ {Max(s)} = 1..(k - 1)
      BY <2>1, <3>1, MaxOfInitial
    <3>3. iter[s \ {Max(s)}] \in A
      BY <2>2, <3>2
    <3>4. iter[s] = step[<<iter[s \ {Max(s)}], Max(s)>>]
      BY <3>2, <3>3, Zenon DEF Follows
    <3> QED BY <3>1, <3>2, <3>4
  <2> QED BY <2>1, <2>2
<1> DEFINE P == {k \in Nat : k <= n => iter[1..k] \in A}
           g == [k \in 0..n |-> iter[1..k]]
<1>1. 1..0 = {}
  OBVIOUS
<1>2. 0 \in P
  BY <1>0, <1>1
<1>3. ASSUME NEW k \in Nat, k \in P PROVE k + 1 \in P
  <2> SUFFICES ASSUME k + 1 <= n PROVE iter[1..(k + 1)] \in A
    BY <1>0
  <2>1. k + 1 \in 1..n /\ (k + 1) - 1 = k /\ iter[1..k] \in A
    BY <1>0, <1>3
  <2>2. iter[1..(k + 1)] = step[<<iter[1..k], k + 1>>]
    BY <1>0, <2>1
  <2> QED BY <1>0, <2>1, <2>2
<1> HIDE DEF P
<1>4. Nat \subseteq P
  BY <1>2, <1>3, Induction
<1>5. \A k \in 0..n : iter[1..k] \in A
  BY <1>0, <1>4 DEF P
<1>6. g \in [0..n -> A] /\ g[0] = base
  BY <1>0, <1>1, <1>5
<1>7. ASSUME NEW k \in 1..n
      PROVE  g[k] = step[<<g[k - 1], k>>]
  <2>1. k - 1 \in 0..n /\ k \in 0..n
    BY <1>0
  <2> QED BY <1>0, <1>5, <2>1
<1>8. n \in 0..n
  BY <1>0
<1>9. g \in Runs(n, A, base, step)
  BY <1>0, <1>6, <1>7 DEF Runs
<1> QED BY <1>0, <1>8, <1>9

\* The loop of Without
LEMMA WithoutLoop ==
  ASSUME NEW v \in Seq(Fingerprint), NEW e
  PROVE  \E g \in [0..Len(v) -> Seq(Fingerprint)] :
           /\ g[0] = <<>>
           /\ \A k \in 1..Len(v) :
                g[k] = IF v[k] = e THEN g[k - 1] ELSE Append(g[k - 1], v[k])
           /\ Without(v, e) = g[Len(v)]
<1> DEFINE n == Len(v)
           A == Seq(Fingerprint)
           base == <<>>
           op(w, x) == IF x = e THEN w ELSE Append(w, x)
           step == [p \in A \X (1..n) |-> op(p[1], v[p[2]])]
           Loop(it) == it = [s \in SUBSET (1..n) |->
                               IF s = {} THEN base
                               ELSE op(it[s \ {Max(s)}], v[Max(s)])]
           iter == CHOOSE it : Loop(it)
<1>1. n \in Nat /\ DOMAIN v = 1..n /\ \A i \in 1..n : v[i] \in Fingerprint
  OBVIOUS
<1>2. base \in A
  OBVIOUS
<1>3. \A a \in A, x \in Fingerprint : op(a, x) \in A
  OBVIOUS
<1>4. Without(v, e) = iter[1..n]
  BY <1>1 DEF Without, FoldLeft, MapThenFoldSet
<1> HIDE DEF op
<1>5. IsLoop(n, A, base, step)
  <2>1. \A p \in A \X (1..n) : op(p[1], v[p[2]]) \in A
    BY <1>1, <1>3
  <2> HIDE DEF A, base
  <2> QED BY <1>1, <1>2, <2>1 DEF IsLoop
<1>6. Loop(iter)
  <2>1. PICK g \in FoldOf(n, A, base, step) : TRUE
    <3> HIDE DEF n, A, base, step
    <3> QED BY <1>5, FoldExists
  <2>2. \A s \in SUBSET (1..n) :
          s # {} => g[s] = op(g[s \ {Max(s)}], v[Max(s)])
    <3>1. \A s \in SUBSET (1..n) :
            s # {} => Max(s) \in 1..n /\ s \ {Max(s)} \in SUBSET (1..n)
      BY <1>1, MaxIn
    <3>2. \A s \in SUBSET (1..n) :
            s # {} => /\ g[s] = step[<<g[s \ {Max(s)}], Max(s)>>]
                      /\ g[s \ {Max(s)}] \in A
      BY <3>1 DEF FoldOf
    <3> QED BY <3>1, <3>2
  <2>3. g = [s \in SUBSET (1..n) |-> g[s]] /\ g[{}] = base
    BY DEF FoldOf
  <2>4. Loop(g)
    BY <2>2, <2>3
  <2> QED BY <2>4, Zenon
<1> HIDE DEF iter
<1>7. Follows(iter, n, A, base, step)
  <2>1. \A s \in SUBSET (1..n) : s # {} => Max(s) \in 1..n
    BY <1>1, MaxIn
  <2> HIDE DEF n, A, base
  <2> QED BY <1>6, <2>1 DEF Follows
<1>8. PICK g \in Runs(n, A, base, step) : iter[1..n] = g[n]
  <2> HIDE DEF n, A, base, step
  <2> QED BY <1>5, <1>7, FoldRuns
<1>9. ASSUME NEW k \in 1..n PROVE g[k] = op(g[k - 1], v[k])
  <2>1. g[k] = step[<<g[k - 1], k>>] /\ g[k - 1] \in A
    <3> HIDE DEF n, A, base, step
    <3> QED BY <1>1 DEF Runs
  <2> QED BY <2>1
<1>10. g \in [0..n -> A] /\ g[0] = base
  BY DEF Runs
<1> HIDE DEF Loop, step
<1> QED BY <1>4, <1>8, <1>9, <1>10 DEF op

\* The loop of Replacements
LEMMA ReplacementsLoop ==
  ASSUME NEW v, NEW e, NEW devs \in Seq(Fingerprint)
  PROVE  \E g \in [0..Len(devs) -> Seq(Fingerprint)] :
           /\ g[0] = <<>>
           /\ \A k \in 1..Len(devs) :
                g[k] = IF IsLegacy(devs[k]) \/ ~Matches(e, devs[k]) \/ Covered(v, g[k - 1], devs[k])
                         THEN g[k - 1] ELSE Append(g[k - 1], devs[k])
           /\ Replacements(v, e, devs) = g[Len(devs)]
<1> DEFINE n == Len(devs)
           A == Seq(Fingerprint)
           base == <<>>
           op(u, d) == IF IsLegacy(d) \/ ~Matches(e, d) \/ Covered(v, u, d)
                         THEN u ELSE Append(u, d)
           step == [p \in A \X (1..n) |-> op(p[1], devs[p[2]])]
           Loop(it) == it = [s \in SUBSET (1..n) |->
                               IF s = {} THEN base
                               ELSE op(it[s \ {Max(s)}], devs[Max(s)])]
           iter == CHOOSE it : Loop(it)
<1>1. n \in Nat /\ DOMAIN devs = 1..n /\ \A i \in 1..n : devs[i] \in Fingerprint
  OBVIOUS
<1>2. base \in A
  OBVIOUS
<1>3. \A a \in A, x \in Fingerprint : op(a, x) \in A
  OBVIOUS
<1>4. Replacements(v, e, devs) = iter[1..n]
  BY <1>1 DEF Replacements, FoldLeft, MapThenFoldSet
<1> HIDE DEF op
<1>5. IsLoop(n, A, base, step)
  <2>1. \A p \in A \X (1..n) : op(p[1], devs[p[2]]) \in A
    BY <1>1, <1>3
  <2> HIDE DEF A, base
  <2> QED BY <1>1, <1>2, <2>1 DEF IsLoop
<1>6. Loop(iter)
  <2>1. PICK g \in FoldOf(n, A, base, step) : TRUE
    <3> HIDE DEF n, A, base, step
    <3> QED BY <1>5, FoldExists
  <2>2. \A s \in SUBSET (1..n) :
          s # {} => g[s] = op(g[s \ {Max(s)}], devs[Max(s)])
    <3>1. \A s \in SUBSET (1..n) :
            s # {} => Max(s) \in 1..n /\ s \ {Max(s)} \in SUBSET (1..n)
      BY <1>1, MaxIn
    <3>2. \A s \in SUBSET (1..n) :
            s # {} => /\ g[s] = step[<<g[s \ {Max(s)}], Max(s)>>]
                      /\ g[s \ {Max(s)}] \in A
      BY <3>1 DEF FoldOf
    <3> QED BY <3>1, <3>2
  <2>3. g = [s \in SUBSET (1..n) |-> g[s]] /\ g[{}] = base
    BY DEF FoldOf
  <2>4. Loop(g)
    BY <2>2, <2>3
  <2> QED BY <2>4, Zenon
<1> HIDE DEF iter
<1>7. Follows(iter, n, A, base, step)
  <2>1. \A s \in SUBSET (1..n) : s # {} => Max(s) \in 1..n
    BY <1>1, MaxIn
  <2> HIDE DEF n, A, base
  <2> QED BY <1>6, <2>1 DEF Follows
<1>8. PICK g \in Runs(n, A, base, step) : iter[1..n] = g[n]
  <2> HIDE DEF n, A, base, step
  <2> QED BY <1>5, <1>7, FoldRuns
<1>9. ASSUME NEW k \in 1..n PROVE g[k] = op(g[k - 1], devs[k])
  <2>1. g[k] = step[<<g[k - 1], k>>] /\ g[k - 1] \in A
    <3> HIDE DEF n, A, base, step
    <3> QED BY <1>1 DEF Runs
  <2> QED BY <2>1
<1>10. g \in [0..n -> A] /\ g[0] = base
  BY DEF Runs
<1> HIDE DEF Loop, step
<1> QED BY <1>4, <1>8, <1>9, <1>10 DEF op

-----------------------------------------------------------------------------
(* What the loops leave in the vector. *)

\* Appending adds an entry, and loses none.
LEMMA AppendRange ==
  ASSUME NEW w \in Seq(Fingerprint), NEW x \in Fingerprint
  PROVE  Range(Append(w, x)) = Range(w) \cup {x}
<1> DEFINE n == Len(w)
           a == Append(w, x)
<1>1. n \in Nat /\ DOMAIN w = 1..n /\ DOMAIN a = 1..(n + 1)
  OBVIOUS
<1>2. \A i \in 1..n : a[i] = w[i]
  OBVIOUS
<1>3. a[n + 1] = x
  OBVIOUS
<1>4. 1..(n + 1) = (1..n) \cup {n + 1}
  BY <1>1
<1> HIDE DEF n, a
<1> QED BY <1>1, <1>2, <1>3, <1>4 DEF Range, a

\* The first k elements of a sequence
First(s, k) == {s[i] : i \in 1..k}

\* One element more each round, and in the end all of them
LEMMA FirstGrows ==
  ASSUME NEW A, NEW s \in Seq(A)
  PROVE  /\ Len(s) \in Nat
         /\ First(s, 0) = {}
         /\ First(s, Len(s)) = Range(s)
         /\ Range(s) \subseteq A
         /\ \A k \in 0..Len(s) : First(s, k) \subseteq Range(s)
         /\ \A k \in 1..Len(s) : First(s, k) = First(s, k - 1) \cup {s[k]}
<1>1. Len(s) \in Nat /\ DOMAIN s = 1..Len(s) /\ \A i \in 1..Len(s) : s[i] \in A
  OBVIOUS
<1>2. ASSUME NEW k \in 1..Len(s)
      PROVE  First(s, k) = First(s, k - 1) \cup {s[k]}
  <2>1. 1..k = (1..(k - 1)) \cup {k}
    BY <1>1
  <2> QED BY <2>1 DEF First
<1>3. First(s, 0) = {}
  <2>1. 1..0 = {}
    OBVIOUS
  <2> QED BY <2>1 DEF First
<1>4. ASSUME NEW k \in 0..Len(s)
      PROVE  First(s, k) \subseteq Range(s)
  <2>1. 1..k \subseteq 1..Len(s)
    BY <1>1
  <2> QED BY <1>1, <2>1 DEF First, Range
<1>5. First(s, Len(s)) = Range(s) /\ Range(s) \subseteq A
  BY <1>1 DEF First, Range
<1> QED BY <1>1, <1>2, <1>3, <1>4, <1>5

\* Induction over the rounds of a loop
LEMMA RoundInduction ==
  ASSUME NEW n \in Nat, NEW P, 0 \in P,
         \A k \in 1..n : k - 1 \in P => k \in P
  PROVE  0..n \subseteq P
<1> DEFINE Q == {k \in Nat : k <= n => k \in P}
<1>1. 0 \in Q
  OBVIOUS
<1>2. ASSUME NEW k \in Nat, k \in Q PROVE k + 1 \in Q
  <2> SUFFICES ASSUME k + 1 <= n PROVE k + 1 \in P
    OBVIOUS
  <2>1. k + 1 \in 1..n /\ (k + 1) - 1 = k
    OBVIOUS
  <2> QED BY <1>2, <2>1
<1> HIDE DEF Q
<1>3. Nat \subseteq Q
  BY <1>1, <1>2, Induction
<1> QED BY <1>3 DEF Q

\* Without takes every copy of the entry out, and nothing else.
LEMMA WithoutRange ==
  ASSUME NEW v \in Seq(Fingerprint), NEW e
  PROVE  Without(v, e) \in Seq(Fingerprint) /\ Range(Without(v, e)) = Range(v) \ {e}
<1> DEFINE n == Len(v)
<1>1. PICK g \in [0..n -> Seq(Fingerprint)] :
        /\ g[0] = <<>>
        /\ \A k \in 1..n : g[k] = IF v[k] = e THEN g[k - 1] ELSE Append(g[k - 1], v[k])
        /\ Without(v, e) = g[n]
  BY WithoutLoop
<1> DEFINE P == {k \in 0..n : Range(g[k]) = First(v, k) \ {e}}
<1>2. n \in Nat /\ \A k \in 1..n : v[k] \in Fingerprint
  OBVIOUS
<1>3. 0 \in P
  BY <1>1, <1>2, FirstGrows DEF Range
<1>4. ASSUME NEW k \in 1..n, k - 1 \in P
      PROVE  k \in P
  <2>1. Range(g[k - 1]) = First(v, k - 1) \ {e} /\ g[k - 1] \in Seq(Fingerprint)
    BY <1>2, <1>4
  <2>2. First(v, k) = First(v, k - 1) \cup {v[k]}
    BY FirstGrows
  <2>3. CASE v[k] = e
    BY <1>1, <2>1, <2>2, <2>3
  <2>4. CASE v[k] # e
    <3>1. g[k] = Append(g[k - 1], v[k])
      BY <1>1, <2>4
    <3>2. Range(g[k]) = Range(g[k - 1]) \cup {v[k]}
      BY <1>2, <2>1, <3>1, AppendRange
    <3> QED BY <2>1, <2>2, <2>4, <3>2
  <2> QED BY <2>3, <2>4
<1> HIDE DEF P
<1>5. n \in P
  <2>1. 0..n \subseteq P
    BY <1>2, <1>3, <1>4, RoundInduction
  <2> QED BY <1>2, <2>1
<1> QED BY <1>1, <1>2, <1>5, FirstGrows DEF P

-----------------------------------------------------------------------------
(* Matching and vouching. *)

\* An entry vouches for what an entry it vouches for vouches for, as long as it
\* does not know the interfaces, or the one between them does.
LEMMA MatchesThrough ==
  ASSUME NEW e \in Fingerprint, NEW n \in Fingerprint, NEW d \in Fingerprint,
         Matches(e, n), Matches(n, d), IsLegacy(e) \/ ~IsLegacy(n)
  PROVE  Matches(e, d)
BY DEF Matches, SameModel, IsLegacy

\* An entry vouches for the device it was made of.
LEMMA MatchesSelf ==
  ASSUME NEW d
  PROVE  Matches(d, d)
BY DEF Matches, SameModel

\* Two sets vouch together for what either does.
LEMMA VouchedUnion ==
  ASSUME NEW S, NEW T, NEW d
  PROVE  Vouched(S \cup T, d) <=> Vouched(S, d) \/ Vouched(T, d)
BY DEF Vouched

\* Their full entries are those of both.
LEMMA FullUnion ==
  ASSUME NEW S, NEW T
  PROVE  FullEntries(S \cup T) = FullEntries(S) \cup FullEntries(T)
BY DEF FullEntries

\* Q are devices of D that legacy entry e vouches for and no full entry of W, such that
\* full entries vouch for every device of D that e does.
ReplaceOne(Q, e, W, D) ==
  /\ Q \subseteq {d \in FullEntries(D) : Matches(e, d) /\ ~Vouched(FullEntries(W), d)}
  /\ \A d \in FullEntries(D) : Matches(e, d) => Vouched(FullEntries(W) \cup Q, d)

\* What the loop over the connected devices adds in place of one legacy entry: some
\* of the devices it vouches for, such that afterwards full entries vouch for all.
LEMMA ReplacementsRange ==
  ASSUME NEW v \in Seq(Fingerprint), NEW e \in Fingerprint, NEW devs \in Seq(Fingerprint)
  PROVE  /\ Replacements(v, e, devs) \in Seq(Fingerprint)
         /\ ReplaceOne(Range(Replacements(v, e, devs)), e, Range(v), Range(devs))
<1> DEFINE n == Len(devs)
           V == Range(v)
           Wanted(k) == {d \in FullEntries(First(devs, k)) : Matches(e, d)}
<1>1. PICK g \in [0..n -> Seq(Fingerprint)] :
        /\ g[0] = <<>>
        /\ \A k \in 1..n :
             g[k] = IF IsLegacy(devs[k]) \/ ~Matches(e, devs[k]) \/ Covered(v, g[k - 1], devs[k])
                      THEN g[k - 1] ELSE Append(g[k - 1], devs[k])
        /\ Replacements(v, e, devs) = g[n]
  BY ReplacementsLoop
<1> DEFINE Good(k) ==
             /\ Range(g[k]) \subseteq {d \in Wanted(k) : ~Vouched(FullEntries(V), d)}
             /\ \A d \in Wanted(k) : Vouched(FullEntries(V) \cup Range(g[k]), d)
           P == {k \in 0..n : Good(k)}
<1>2. n \in Nat /\ \A k \in 1..n : devs[k] \in Fingerprint
  OBVIOUS
<1>3. 0 \in P
  <2>1. Wanted(0) = {} /\ Range(g[0]) = {}
    BY <1>1, FirstGrows DEF FullEntries, Range
  <2> QED BY <1>2, <2>1
<1>4. ASSUME NEW k \in 1..n, k - 1 \in P
      PROVE  k \in P
  <2>0. SUFFICES Good(k)
    <3> HIDE DEF Good
    <3> QED BY <1>2
  <2> DEFINE d == devs[k]
             R == Range(g[k - 1])
  <2>1. Good(k - 1) /\ g[k - 1] \in Seq(Fingerprint) /\ d \in Fingerprint
    BY <1>2, <1>4
  <2>2. First(devs, k) = First(devs, k - 1) \cup {d}
    BY FirstGrows
  <2>3. Wanted(k) = Wanted(k - 1) \cup {x \in {d} : ~IsLegacy(x) /\ Matches(e, x)}
    BY <2>2 DEF FullEntries
  <2>4. FullEntries(R) = R
    BY <2>1 DEF FullEntries
  <2>5. Covered(v, g[k - 1], d) <=> Vouched(FullEntries(V) \cup R, d)
    <3>1. FullEntries(V \cup R) = FullEntries(V) \cup R
      BY <2>4, FullUnion
    <3>2. Covered(v, g[k - 1], d) <=> Vouched(FullEntries(V \cup R), d)
      BY Zenon DEF Covered
    <3> HIDE DEF V, R, d
    <3> QED BY <3>1, <3>2
  <2>6. CASE IsLegacy(d) \/ ~Matches(e, d)
    <3>1. Wanted(k) = Wanted(k - 1) /\ g[k] = g[k - 1]
      BY <1>1, <2>3, <2>6
    <3> HIDE DEF Wanted
    <3> QED BY <2>1, <3>1
  <2>7. CASE ~IsLegacy(d) /\ Matches(e, d) /\ Covered(v, g[k - 1], d)
    <3>1. g[k] = g[k - 1] /\ Wanted(k) = Wanted(k - 1) \cup {d}
      BY <1>1, <2>3, <2>7
    <3> HIDE DEF Wanted, d
    <3> QED BY <2>1, <2>5, <2>7, <3>1
  <2>8. CASE ~IsLegacy(d) /\ Matches(e, d) /\ ~Covered(v, g[k - 1], d)
    <3>1. g[k] = Append(g[k - 1], d) /\ Wanted(k) = Wanted(k - 1) \cup {d}
      BY <1>1, <2>3, <2>8
    <3>2. Range(g[k]) = R \cup {d}
      BY <2>1, <3>1, AppendRange
    <3>3. ~Vouched(FullEntries(V), d)
      BY <2>5, <2>8, VouchedUnion
    <3>4. \A x : Vouched(FullEntries(V) \cup (R \cup {d}), x) <=>
                   Vouched(FullEntries(V) \cup R, x) \/ Matches(d, x)
      BY DEF Vouched
    <3>5. Matches(d, d)
      BY MatchesSelf
    <3> HIDE DEF Wanted, d
    <3>6. \A x \in Wanted(k) : Vouched(FullEntries(V) \cup Range(g[k]), x)
      BY <2>1, <3>1, <3>2, <3>4, <3>5
    <3>7. Range(g[k]) \subseteq {x \in Wanted(k) : ~Vouched(FullEntries(V), x)}
      BY <2>1, <3>1, <3>2, <3>3
    <3> QED BY <3>6, <3>7
  <2> QED BY <2>6, <2>7, <2>8
<1> HIDE DEF P
<1>5. n \in P
  <2>1. 0..n \subseteq P
    BY <1>2, <1>3, <1>4, RoundInduction
  <2> QED BY <1>2, <2>1
<1>6. Good(n)
  BY <1>5 DEF P
<1>7. Wanted(n) = {d \in FullEntries(Range(devs)) : Matches(e, d)}
  BY FirstGrows
<1>8. Replacements(v, e, devs) = g[n] /\ g[n] \in Seq(Fingerprint)
  BY <1>1, <1>2
<1> HIDE DEF Wanted, n
<1>9. Range(g[n]) \subseteq {d \in FullEntries(Range(devs)) :
                              Matches(e, d) /\ ~Vouched(FullEntries(V), d)}
  BY <1>6, <1>7
<1>10. \A d \in FullEntries(Range(devs)) :
         Matches(e, d) => Vouched(FullEntries(V) \cup Range(g[n]), d)
  BY <1>6, <1>7
<1> HIDE DEF Good
<1>11. ReplaceOne(Range(g[n]), e, V, Range(devs))
  BY <1>9, <1>10 DEF ReplaceOne
<1> QED BY <1>8, <1>11

\* The loop of VecUpgrade
LEMMA VecUpgradeLoop ==
  ASSUME NEW v \in Seq(Fingerprint), NEW devs \in Seq(Fingerprint)
  PROVE  \E g \in [0..Len(v) -> Seq(Fingerprint)] :
           /\ g[0] = v
           /\ \A k \in 1..Len(v) :
                g[k] = IF IsLegacy(v[k]) /\ Seen(v[k], devs)
                         THEN Without(g[k - 1], v[k]) \o Replacements(g[k - 1], v[k], devs)
                         ELSE g[k - 1]
           /\ VecUpgrade(v, devs) = g[Len(v)]
<1> DEFINE n == Len(v)
           A == Seq(Fingerprint)
           base == v
           op(w, e) == IF IsLegacy(e) /\ Seen(e, devs)
                         THEN Without(w, e) \o Replacements(w, e, devs)
                         ELSE w
           step == [p \in A \X (1..n) |-> op(p[1], v[p[2]])]
           Loop(it) == it = [s \in SUBSET (1..n) |->
                               IF s = {} THEN base
                               ELSE op(it[s \ {Max(s)}], v[Max(s)])]
           iter == CHOOSE it : Loop(it)
<1>1. n \in Nat /\ DOMAIN v = 1..n /\ \A i \in 1..n : v[i] \in Fingerprint
  OBVIOUS
<1>2. base \in A
  OBVIOUS
<1>3. \A a \in A, x \in Fingerprint : op(a, x) \in A
  BY WithoutRange, ReplacementsRange, ConcatProperties
<1>4. VecUpgrade(v, devs) = iter[1..n]
  BY <1>1 DEF VecUpgrade, FoldLeft, MapThenFoldSet
<1> HIDE DEF op
<1>5. IsLoop(n, A, base, step)
  <2>1. \A p \in A \X (1..n) : op(p[1], v[p[2]]) \in A
    BY <1>1, <1>3
  <2> HIDE DEF A, base
  <2> QED BY <1>1, <1>2, <2>1 DEF IsLoop
<1>6. Loop(iter)
  <2>1. PICK g \in FoldOf(n, A, base, step) : TRUE
    <3> HIDE DEF n, A, base, step
    <3> QED BY <1>5, FoldExists
  <2>2. \A s \in SUBSET (1..n) :
          s # {} => g[s] = op(g[s \ {Max(s)}], v[Max(s)])
    <3>1. \A s \in SUBSET (1..n) :
            s # {} => Max(s) \in 1..n /\ s \ {Max(s)} \in SUBSET (1..n)
      BY <1>1, MaxIn
    <3>2. \A s \in SUBSET (1..n) :
            s # {} => /\ g[s] = step[<<g[s \ {Max(s)}], Max(s)>>]
                      /\ g[s \ {Max(s)}] \in A
      BY <3>1 DEF FoldOf
    <3> QED BY <3>1, <3>2
  <2>3. g = [s \in SUBSET (1..n) |-> g[s]] /\ g[{}] = base
    BY DEF FoldOf
  <2>4. Loop(g)
    BY <2>2, <2>3
  <2> QED BY <2>4, Zenon
<1> HIDE DEF iter
<1>7. Follows(iter, n, A, base, step)
  <2>1. \A s \in SUBSET (1..n) : s # {} => Max(s) \in 1..n
    BY <1>1, MaxIn
  <2> HIDE DEF n, A, base
  <2> QED BY <1>6, <2>1 DEF Follows
<1>8. PICK g \in Runs(n, A, base, step) : iter[1..n] = g[n]
  <2> HIDE DEF n, A, base, step
  <2> QED BY <1>5, <1>7, FoldRuns
<1>9. ASSUME NEW k \in 1..n PROVE g[k] = op(g[k - 1], v[k])
  <2>1. g[k] = step[<<g[k - 1], k>>] /\ g[k - 1] \in A
    <3> HIDE DEF n, A, base, step
    <3> QED BY <1>1 DEF Runs
  <2> QED BY <2>1
<1>10. g \in [0..n -> A] /\ g[0] = base
  BY DEF Runs
<1> HIDE DEF Loop, step
<1> QED BY <1>4, <1>8, <1>9, <1>10 DEF op

\* The entries R that replace the entries U of V, with the devices D connected: some of
\* the devices that U vouches for and no full entry of V did, such that full entries
\* vouch for all that U did.
Replace(R, U, V, D) ==
  /\ R \subseteq {d \in FullEntries(D) : Vouched(U, d) /\ ~Vouched(FullEntries(V), d)}
  /\ \A d \in FullEntries(D) : Vouched(U, d) => Vouched(FullEntries(V) \cup R, d)

\* One more legacy entry replaced, with the rest of the vector as it is by then
LEMMA ReplaceOneMore ==
  ASSUME NEW V \in SUBSET Fingerprint, NEW U \in SUBSET V, NEW D, NEW R,
         \A u \in U : IsLegacy(u), Replace(R, U, V, D),
         NEW e \in V, IsLegacy(e), NEW W, W = (V \ U) \cup R, NEW Q,
         ReplaceOne(Q, e, W, D)
  PROVE  Replace(R \cup Q, U \cup {e}, V, D)
<1>1. /\ R \subseteq {d \in FullEntries(D) : Vouched(U, d) /\ ~Vouched(FullEntries(V), d)}
      /\ \A d \in FullEntries(D) : Vouched(U, d) => Vouched(FullEntries(V) \cup R, d)
  BY DEF Replace
<1>2. /\ Q \subseteq {d \in FullEntries(D) : Matches(e, d) /\ ~Vouched(FullEntries(W), d)}
      /\ \A d \in FullEntries(D) : Matches(e, d) => Vouched(FullEntries(W) \cup Q, d)
  BY DEF ReplaceOne
<1>3. FullEntries(W) = FullEntries(V) \cup R
  BY <1>1 DEF FullEntries
<1>4. \A d : Vouched(U \cup {e}, d) <=> Vouched(U, d) \/ Matches(e, d)
  BY DEF Vouched
<1>5. \A S, T, d : Vouched(S \cup T, d) <=> Vouched(S, d) \/ Vouched(T, d)
  BY DEF Vouched
<1>6. R \cup Q \subseteq {d \in FullEntries(D) : Vouched(U \cup {e}, d) /\ ~Vouched(FullEntries(V), d)}
  BY <1>1, <1>2, <1>3, <1>4, <1>5
<1>7. \A d \in FullEntries(D) :
        Vouched(U \cup {e}, d) => Vouched(FullEntries(V) \cup (R \cup Q), d)
  BY <1>1, <1>2, <1>3, <1>4, <1>5
<1> QED BY <1>6, <1>7 DEF Replace

\* The entries the loop replaces are those of the set that Upgrade does.
LEMMA SeenIsUpgradable ==
  ASSUME NEW v \in Seq(Fingerprint), NEW devs \in Seq(Fingerprint)
  PROVE  Upgradable(Range(v), Range(devs)) = {e \in Range(v) : IsLegacy(e) /\ Seen(e, devs)}
BY DEF Upgradable, Seen, FullEntries

\* The migration takes out of the vector exactly what it takes out of the set, and
\* adds devices the set gets, too: not all of them, but such that full entries of
\* the vector vouch for all of them.
LEMMA VecUpgradeRange ==
  ASSUME NEW v \in Seq(Fingerprint), NEW devs \in Seq(Fingerprint)
  PROVE  LET V == Range(v)
             D == Range(devs)
             U == Upgradable(V, D) IN
         /\ VecUpgrade(v, devs) \in Seq(Fingerprint)
         /\ \E R : /\ Range(VecUpgrade(v, devs)) = (V \ U) \cup R
                   /\ Replace(R, U, V, D)
<1> DEFINE n == Len(v)
           V == Range(v)
           D == Range(devs)
           Goes(e) == IsLegacy(e) /\ Seen(e, devs)
           U(k) == {e \in First(v, k) : Goes(e)}
<1>1. PICK g \in [0..n -> Seq(Fingerprint)] :
        /\ g[0] = v
        /\ \A k \in 1..n :
             g[k] = IF IsLegacy(v[k]) /\ Seen(v[k], devs)
                      THEN Without(g[k - 1], v[k]) \o Replacements(g[k - 1], v[k], devs)
                      ELSE g[k - 1]
        /\ VecUpgrade(v, devs) = g[n]
  BY VecUpgradeLoop
<1> DEFINE Good(k, R) == Range(g[k]) = (V \ U(k)) \cup R /\ Replace(R, U(k), V, D)
           P == {k \in 0..n : \E R : Good(k, R)}
<1>2. /\ n \in Nat /\ V \in SUBSET Fingerprint /\ D \in SUBSET Fingerprint
      /\ \A k \in 1..n : v[k] \in V /\ v[k] \in Fingerprint
  BY RangeOfSeq DEF Range
<1>3. \A k \in 0..n : U(k) \in SUBSET V /\ \A u \in U(k) : IsLegacy(u)
  BY FirstGrows
<1>4. 0 \in P
  <2>1. U(0) = {}
    BY FirstGrows
  <2>2. Replace({}, {}, V, D)
    BY DEF Replace, Vouched
  <2>3. Good(0, {})
    BY <1>1, <2>1, <2>2
  <2> QED BY <1>2, <2>3
<1>5. ASSUME NEW k \in 1..n, k - 1 \in P
      PROVE  k \in P
  <2> SUFFICES \E R : Good(k, R)
    <3> HIDE DEF Good
    <3> QED BY <1>2
  <2> DEFINE e == v[k]
             w == g[k - 1]
  <2>1. PICK R : Good(k - 1, R)
    BY <1>5
  <2>2. k - 1 \in 0..n /\ w \in Seq(Fingerprint) /\ e \in V /\ e \in Fingerprint
    <3>1. k - 1 \in 0..n
      BY <1>2
    <3> HIDE DEF n, V
    <3> QED BY <1>2, <3>1
  <2>3. U(k) = U(k - 1) \cup {x \in {e} : Goes(x)}
    BY FirstGrows
  <2>4. CASE ~Goes(e)
    <3>1. g[k] = w /\ U(k) = U(k - 1)
      BY <1>1, <2>3, <2>4
    <3> HIDE DEF U
    <3> QED BY <2>1, <3>1
  <2>5. CASE Goes(e)
    <3> DEFINE Q == Range(Replacements(w, e, devs))
    <3>1. g[k] = Without(w, e) \o Replacements(w, e, devs) /\ U(k) = U(k - 1) \cup {e}
      BY <1>1, <2>3, <2>5
    <3>2. Without(w, e) \in Seq(Fingerprint) /\ Range(Without(w, e)) = Range(w) \ {e}
      BY <2>2, WithoutRange
    <3>3. /\ Replacements(w, e, devs) \in Seq(Fingerprint)
          /\ ReplaceOne(Q, e, Range(w), D)
      BY <2>2, ReplacementsRange
    <3>4. Range(g[k]) = (Range(w) \ {e}) \cup Q
      BY <3>1, <3>2, <3>3, RangeConcatenation
    <3>5. /\ (Range(w) \ {e}) \cup Q = (V \ (U(k - 1) \cup {e})) \cup (R \cup Q)
          /\ Replace(R \cup Q, U(k - 1) \cup {e}, V, D)
      <4> DEFINE gone == U(k - 1)
                 W == Range(w)
      <4>1. gone \in SUBSET V /\ \A u \in gone : IsLegacy(u)
        BY <1>3, <2>2
      <4>2. IsLegacy(e)
        BY <2>5
      <4>3. W = (V \ gone) \cup R /\ Replace(R, gone, V, D)
        BY <2>1
      <4>4. ReplaceOne(Q, e, W, D)
        BY <3>3
      <4>6. V \in SUBSET Fingerprint /\ e \in V
        BY <1>2, <2>2
      <4> HIDE DEF gone, V, D, Q, e, W
      <4>7. Replace(R \cup Q, gone \cup {e}, V, D)
        BY <4>1, <4>2, <4>3, <4>4, <4>6, ReplaceOneMore
      <4>8. e \notin R
        BY <4>2, <4>3 DEF Replace, FullEntries
      <4>9. (W \ {e}) \cup Q = (V \ (gone \cup {e})) \cup (R \cup Q)
        BY <4>3, <4>8
      <4> QED BY <4>7, <4>9 DEF gone, W
    <3>6. Good(k, R \cup Q)
      BY <3>1, <3>4, <3>5
    <3> HIDE DEF Good
    <3> QED BY <3>6
  <2> QED BY <2>4, <2>5
<1> HIDE DEF P
<1>6. n \in P
  <2>1. 0..n \subseteq P
    BY <1>2, <1>4, <1>5, RoundInduction
  <2> QED BY <1>2, <2>1
<1>7. PICK R : Good(n, R)
  BY <1>6 DEF P
<1>8. U(n) = Upgradable(V, D)
  BY FirstGrows, SeenIsUpgradable
<1>9. VecUpgrade(v, devs) = g[n] /\ g[n] \in Seq(Fingerprint)
  BY <1>1, <1>2
<1> HIDE DEF U, V, D, n
<1>10. Range(g[n]) = (V \ Upgradable(V, D)) \cup R /\ Replace(R, Upgradable(V, D), V, D)
  BY <1>7, <1>8
<1> QED BY <1>9, <1>10 DEF V, D

-----------------------------------------------------------------------------
(* The vector and the set. *)

\* No device can tell the two: they have the same legacy entries, and their full
\* entries vouch for the same devices.
SameTrust(V, S) ==
  /\ \A e \in V \cup S : IsLegacy(e) => e \in V /\ e \in S
  /\ \A d \in Fingerprint : Vouched(FullEntries(V), d) <=> Vouched(FullEntries(S), d)

\* Either may come first.
LEMMA SameIsSymmetric ==
  ASSUME NEW V, NEW S, SameTrust(V, S)
  PROVE  SameTrust(S, V)
BY DEF SameTrust

\* What one vouches for the other does, by whatever entry.
LEMMA SameVouched ==
  ASSUME NEW V, NEW S, SameTrust(V, S), NEW d \in Fingerprint, Vouched(V, d)
  PROVE  Vouched(S, d)
<1>1. PICK e \in V : Matches(e, d)
  BY DEF Vouched
<1>2. CASE IsLegacy(e)
  BY <1>1, <1>2 DEF SameTrust, Vouched
<1>3. CASE ~IsLegacy(e)
  <2>1. Vouched(FullEntries(V), d)
    BY <1>1, <1>3 DEF Vouched, FullEntries
  <2>2. Vouched(FullEntries(S), d)
    BY <2>1 DEF SameTrust
  <2> QED BY <2>2 DEF Vouched, FullEntries
<1> QED BY <1>2, <1>3

\* For every entry of one there is one of the same model in the other, of a device
\* with the same interfaces.
LEMMA SameModels ==
  ASSUME NEW V \in SUBSET Fingerprint, NEW S \in SUBSET Fingerprint, SameTrust(V, S),
         NEW e \in V
  PROVE  \E f \in S : f.model = e.model /\ f.ifs = e.ifs
<1>1. CASE IsLegacy(e)
  BY <1>1 DEF SameTrust
<1>2. CASE ~IsLegacy(e)
  <2>1. Vouched(FullEntries(V), e)
    BY <1>2, MatchesSelf DEF Vouched, FullEntries
  <2>2. PICK f \in FullEntries(S) : Matches(f, e)
    BY <2>1 DEF SameTrust, Vouched
  <2> QED BY <2>2 DEF FullEntries, Matches, SameModel
<1> QED BY <1>1, <1>2

\* So both give every device the same verdict.
LEMMA VerdictsAgree ==
  ASSUME NEW V \in SUBSET Fingerprint, NEW S \in SUBSET Fingerprint, SameTrust(V, S),
         NEW d \in Fingerprint
  PROVE  Verdict(V, d) = Verdict(S, d)
<1>1. SameTrust(S, V)
  BY SameIsSymmetric
<1>2. Vouched(V, d) <=> Vouched(S, d)
  BY <1>1, SameVouched
<1>3. (\E e \in V : SameModel(e, d)) <=> (\E e \in S : SameModel(e, d))
  BY <1>1, SameModels DEF SameModel
<1>4. (\A e \in V : SameModel(e, d) => ~IsHid(e)) <=> (\A e \in S : SameModel(e, d) => ~IsHid(e))
  <2>1. \A e \in V : \E f \in S : f.model = e.model /\ f.ifs = e.ifs
    BY SameModels
  <2>2. \A e \in S : \E f \in V : f.model = e.model /\ f.ifs = e.ifs
    BY <1>1, SameModels
  <2>3. \A e, f : f.model = e.model /\ f.ifs = e.ifs =>
          (SameModel(e, d) <=> SameModel(f, d)) /\ (IsHid(e) <=> IsHid(f))
    BY DEF SameModel, IsHid, KnownIfs, IsLegacy
  <2> QED BY <2>1, <2>2, <2>3
<1> DEFINE gained(T) == IsHid(d) /\ \A e \in T : SameModel(e, d) => ~IsHid(e)
<1>5. gained(V) <=> gained(S)
  BY <1>4
<1>6. \A T : Verdict(T, d) =
        CASE Vouched(T, d)                  -> "Trusted"
          [] ~(\E e \in T : SameModel(e, d)) -> "Unknown"
          [] OTHER -> IF gained(T) THEN "MismatchGainedHid" ELSE "Mismatch"
  BY DEF Verdict
<1> HIDE DEF gained
<1> QED BY <1>2, <1>3, <1>5, <1>6

\* The two are upgraded alike.
LEMMA SameUpgrade ==
  ASSUME NEW V \in SUBSET Fingerprint, NEW S \in SUBSET Fingerprint, SameTrust(V, S),
         NEW D \in SUBSET Fingerprint, NEW R, Replace(R, Upgradable(V, D), V, D)
  PROVE  /\ Upgradable(S, D) = Upgradable(V, D)
         /\ SameTrust((V \ Upgradable(V, D)) \cup R, Upgrade(S, D))
<1> DEFINE U == Upgradable(V, D)
           C == {d \in FullEntries(D) : Vouched(U, d) /\ ~Vouched(FullEntries(S), d)}
           W == (V \ U) \cup R
           T == (S \ U) \cup C
<1>1. Upgradable(S, D) = U
  BY DEF SameTrust, Upgradable
<1>2. Upgrade(S, D) = T
  BY <1>1 DEF Upgrade
<1>3. /\ R \subseteq {d \in FullEntries(D) : Vouched(U, d) /\ ~Vouched(FullEntries(V), d)}
      /\ \A d \in FullEntries(D) : Vouched(U, d) => Vouched(FullEntries(V) \cup R, d)
  BY DEF Replace
<1>4. /\ FullEntries(D) \in SUBSET Fingerprint
      /\ \A d \in FullEntries(D) : ~IsLegacy(d)
      /\ \A u \in U : IsLegacy(u)
  BY DEF FullEntries, Upgradable
<1>5. R \subseteq C
  BY <1>3, <1>4 DEF SameTrust
<1>6. FullEntries(W) = FullEntries(V) \cup R /\ FullEntries(T) = FullEntries(S) \cup C
  BY <1>3, <1>4 DEF FullEntries
<1>7. \A e \in W \cup T : IsLegacy(e) => e \in W /\ e \in T
  BY <1>4, <1>5 DEF SameTrust
<1>8. ASSUME NEW d \in Fingerprint, Vouched(FullEntries(V) \cup R, d)
      PROVE  Vouched(FullEntries(S) \cup C, d)
  BY <1>5, <1>8 DEF SameTrust, Vouched
<1>9. ASSUME NEW d \in Fingerprint, Vouched(FullEntries(S) \cup C, d)
      PROVE  Vouched(FullEntries(V) \cup R, d)
  <2>1. CASE Vouched(FullEntries(S), d)
    BY <2>1 DEF SameTrust, Vouched
  <2>2. CASE Vouched(C, d)
    <3>1. PICK c \in C : Matches(c, d)
      BY <2>2 DEF Vouched
    <3>2. PICK r \in FullEntries(V) \cup R : Matches(r, c)
      BY <1>3 DEF Vouched
    <3>3. r \in Fingerprint /\ c \in Fingerprint /\ ~IsLegacy(c)
      BY <1>3, <1>4 DEF FullEntries
    <3>4. Matches(r, d)
      BY <3>1, <3>2, <3>3, MatchesThrough
    <3> QED BY <3>4 DEF Vouched
  <2> QED BY <1>9, <2>1, <2>2, VouchedUnion
<1> HIDE DEF U, C, W, T
<1>10. SameTrust(W, T)
  BY <1>6, <1>7, <1>8, <1>9 DEF SameTrust
<1> QED BY <1>1, <1>2, <1>10 DEF U, W

\* The vector gets no entry from a migration but connected devices.
LEMMA UpgradeWithin ==
  ASSUME NEW v \in Seq(Fingerprint), NEW devs \in Seq(Fingerprint)
  PROVE  /\ VecUpgrade(v, devs) \in Seq(Fingerprint)
         /\ Range(VecUpgrade(v, devs)) \subseteq Range(v) \cup Range(devs)
<1> DEFINE U == Upgradable(Range(v), Range(devs))
<1>1. Range(VecUpgrade(v, devs)) \subseteq Range(v) \cup Range(devs)
  <2>1. PICK R : /\ Range(VecUpgrade(v, devs)) = (Range(v) \ U) \cup R
                 /\ Replace(R, U, Range(v), Range(devs))
    BY VecUpgradeRange
  <2>2. R \subseteq Range(devs)
    BY <2>1 DEF Replace, FullEntries
  <2> QED BY <2>1, <2>2
<1>2. VecUpgrade(v, devs) \in Seq(Fingerprint)
  BY VecUpgradeRange
<1> QED BY <1>1, <1>2

\* Nor from trusting a device but that device.
LEMMA TrustWithin ==
  ASSUME NEW v \in Seq(Fingerprint), NEW d \in Fingerprint
  PROVE  /\ VecTrust(v, d) \in Seq(Fingerprint)
         /\ Range(VecTrust(v, d)) \subseteq Range(v) \cup {d}
<1>1. <<d>> \in Seq(Fingerprint) /\ Range(<<d>>) = {d}
  BY DEF Range
<1>2. /\ VecUpgrade(v, <<d>>) \in Seq(Fingerprint)
      /\ Range(VecUpgrade(v, <<d>>)) \subseteq Range(v) \cup {d}
  BY <1>1, UpgradeWithin
<1>3. Append(v, d) \in Seq(Fingerprint) /\ Range(Append(v, d)) = Range(v) \cup {d}
  BY AppendRange
<1> QED BY <1>2, <1>3 DEF VecTrust

\* Nor does the set.
LEMMA SetWithin ==
  ASSUME NEW S, NEW D, NEW d
  PROVE  Upgrade(S, D) \subseteq S \cup D /\ Trust(S, d) \subseteq S \cup {d}
BY DEF Upgrade, Trust, FullEntries

\* A migration keeps them the same.
LEMMA SameAfterUpgrade ==
  ASSUME NEW v \in Seq(Fingerprint), NEW S \in SUBSET Fingerprint, SameTrust(Range(v), S),
         NEW devs \in Seq(Fingerprint)
  PROVE  SameTrust(Range(VecUpgrade(v, devs)), Upgrade(S, Range(devs)))
<1> DEFINE V == Range(v)
           D == Range(devs)
           W == Range(VecUpgrade(v, devs))
<1>1. V \in SUBSET Fingerprint /\ D \in SUBSET Fingerprint
  BY RangeOfSeq
<1>2. PICK R : W = (V \ Upgradable(V, D)) \cup R /\ Replace(R, Upgradable(V, D), V, D)
  BY VecUpgradeRange
<1> HIDE DEF V, D, W
<1>3. SameTrust((V \ Upgradable(V, D)) \cup R, Upgrade(S, D))
  BY <1>1, <1>2, SameUpgrade DEF V
<1> QED BY <1>2, <1>3 DEF D, W

\* So does trusting a device.
LEMMA SameAfterTrust ==
  ASSUME NEW v \in Seq(Fingerprint), NEW S \in SUBSET Fingerprint, SameTrust(Range(v), S),
         NEW d \in Fingerprint
  PROVE  SameTrust(Range(VecTrust(v, d)), Trust(S, d))
<1> DEFINE V == Range(v)
<1>1. V \in SUBSET Fingerprint /\ <<d>> \in Seq(Fingerprint) /\ Range(<<d>>) = {d}
  BY RangeOfSeq DEF Range
<1>2. VecUpgradeChanges(v, <<d>>) <=> Upgradable(V, {d}) # {}
  BY <1>1, SeenIsUpgradable DEF VecUpgradeChanges
<1>3. Upgradable(S, {d}) = Upgradable(V, {d})
  BY DEF SameTrust, Upgradable
<1>4. CASE VecUpgradeChanges(v, <<d>>)
  <2>1. VecTrust(v, d) = VecUpgrade(v, <<d>>) /\ Trust(S, d) = Upgrade(S, {d})
    BY <1>2, <1>3, <1>4 DEF VecTrust, Trust, UpgradeChanges
  <2> QED BY <1>1, <2>1, SameAfterUpgrade
<1>5. CASE ~VecUpgradeChanges(v, <<d>>)
  <2>1. Vouched(V, d) <=> Vouched(S, d)
    BY SameVouched, SameIsSymmetric
  <2>2. CASE Vouched(V, d)
    BY <1>2, <1>3, <1>5, <2>1, <2>2 DEF VecTrust, Trust, UpgradeChanges
  <2>3. CASE ~Vouched(V, d)
    <3>1. VecTrust(v, d) = Append(v, d) /\ Trust(S, d) = S \cup {d}
      BY <1>2, <1>3, <1>5, <2>1, <2>3 DEF VecTrust, Trust, UpgradeChanges
    <3>2. Range(VecTrust(v, d)) = V \cup {d}
      BY <3>1, AppendRange
    <3>3. SameTrust(V \cup {d}, S \cup {d})
      BY DEF SameTrust, Vouched, FullEntries
    <3> QED BY <3>1, <3>2, <3>3
  <2> QED BY <2>2, <2>3
<1> QED BY <1>4, <1>5

-----------------------------------------------------------------------------
(* What holds whatever was recorded: the vector is a part of the set. *)

\* Every entry of the vector is in the set, and what the set has besides is of units
\* with a serial.
Within(V, S) == V \subseteq S /\ \A x \in S \ V : x.serial # NoSerial

\* An entry that vouches for a fingerprint with its serial, and with its interfaces
\* unless it knows as little of them as it does, is that fingerprint.
LEMMA MatchesOnlySelf ==
  ASSUME NEW f \in Fingerprint, NEW d \in Fingerprint, Matches(f, d),
         f.serial = d.serial, IsLegacy(f) => IsLegacy(d)
  PROVE  f = d
<1>1. f.model = d.model /\ f.ifs = d.ifs
  BY DEF Matches, SameModel, IsLegacy
<1> QED BY <1>1 DEF Fingerprint

\* So an entry only the set has vouches for what it is itself, among fingerprints whose
\* interfaces are known if its are, and unknown if its are.
LEMMA ExtraIsSelf ==
  ASSUME NEW V, NEW S \in SUBSET Fingerprint, Within(V, S), NEW f \in S, f \notin V,
         NEW d \in Fingerprint, Matches(f, d), IsLegacy(f) => IsLegacy(d)
  PROVE  d = f
<1>1. f \in Fingerprint /\ f.serial # NoSerial
  BY DEF Within
<1>2. f.serial = d.serial
  BY <1>1 DEF Matches
<1> QED BY <1>1, <1>2, MatchesOnlySelf

\* A migration of both
LEMMA WithinUpgrade ==
  ASSUME NEW V \in SUBSET Fingerprint, NEW S \in SUBSET Fingerprint, Within(V, S),
         NEW D \in SUBSET Fingerprint, NEW R, Replace(R, Upgradable(V, D), V, D)
  PROVE  Within((V \ Upgradable(V, D)) \cup R, Upgrade(S, D))
<1> DEFINE U == Upgradable(V, D)
           X == Upgradable(S, D)
           C == {d \in FullEntries(D) : Vouched(X, d) /\ ~Vouched(FullEntries(S), d)}
           W == (V \ U) \cup R
           T == (S \ X) \cup C
<1>1. Upgrade(S, D) = T
  BY DEF Upgrade
<1>2. /\ R \subseteq {d \in FullEntries(D) : Vouched(U, d) /\ ~Vouched(FullEntries(V), d)}
      /\ \A d \in FullEntries(D) : Vouched(U, d) => Vouched(FullEntries(V) \cup R, d)
  BY DEF Replace
<1>3. \A d \in FullEntries(D) : d \in Fingerprint /\ ~IsLegacy(d)
  BY DEF FullEntries
<1>4. V \subseteq S /\ U = V \cap X /\ \A x \in X : IsLegacy(x) /\ x \in S
  BY DEF Within, Upgradable
<1>5. \A x : x \in S /\ x \notin V => x.serial # NoSerial
  BY DEF Within
<1> HIDE DEF U, X, C, W, T
<1>6. ASSUME NEW r \in R
      PROVE  r \in T
  <2>1. r \in FullEntries(D) /\ r \in Fingerprint /\ ~IsLegacy(r)
    BY <1>2, <1>3
  <2>2. Vouched(X, r)
    BY <1>2, <1>4 DEF Vouched
  <2>3. CASE ~Vouched(FullEntries(S), r)
    BY <2>1, <2>2, <2>3 DEF C, T
  <2>4. CASE Vouched(FullEntries(S), r)
    <3>1. PICK f \in S : ~IsLegacy(f) /\ Matches(f, r)
      BY <2>4 DEF Vouched, FullEntries
    <3>2. f \notin V
      BY <1>2, <3>1 DEF Vouched, FullEntries
    <3>3. r = f
      BY <2>1, <3>1, <3>2, ExtraIsSelf
    <3> QED BY <1>4, <2>1, <3>3 DEF T
  <2> QED BY <2>3, <2>4
<1>7. W \subseteq T
  BY <1>4, <1>6 DEF W, T
<1>8. ASSUME NEW y \in T, y \notin W
      PROVE  y.serial # NoSerial
  <2>1. CASE y \in S \ X
    BY <1>4, <1>5, <1>8, <2>1 DEF W
  <2>2. CASE y \in C
    <3>1. /\ y \in FullEntries(D) /\ y \in Fingerprint
          /\ Vouched(X, y) /\ ~Vouched(FullEntries(S), y)
      BY <1>3, <2>2 DEF C
    <3>2. PICK e \in X : Matches(e, y)
      BY <3>1 DEF Vouched
    <3>3. CASE e \in V
      <4>1. Vouched(FullEntries(V) \cup R, y)
        BY <1>2, <1>4, <3>1, <3>2, <3>3 DEF Vouched
      <4>2. PICK r \in R : Matches(r, y)
        BY <1>4, <3>1, <4>1 DEF Vouched, FullEntries
      <4>3. r \in Fingerprint /\ ~IsLegacy(r) /\ r # y
        BY <1>2, <1>3, <1>8 DEF W
      <4>4. r.serial = NoSerial \/ y.serial = r.serial
        BY <4>2 DEF Matches
      <4> QED BY <3>1, <4>2, <4>3, <4>4, MatchesOnlySelf
    <3>4. CASE e \notin V
      BY <1>4, <1>5, <3>2, <3>4 DEF Matches
    <3> QED BY <3>3, <3>4
  <2> QED BY <2>1, <2>2 DEF T
<1>9. Within(W, T)
  BY <1>7, <1>8 DEF Within
<1> QED BY <1>1, <1>9 DEF W, U

\* Trusting one device in both
LEMMA WithinTrust ==
  ASSUME NEW v \in Seq(Fingerprint), NEW S \in SUBSET Fingerprint, Within(Range(v), S),
         NEW d \in Fingerprint
  PROVE  Within(Range(VecTrust(v, d)), Trust(S, d))
<1> DEFINE V == Range(v)
           U == Upgradable(V, {d})
           X == Upgradable(S, {d})
           W == Range(VecTrust(v, d))
           T == Trust(S, d)
<1>1. V \in SUBSET Fingerprint /\ <<d>> \in Seq(Fingerprint) /\ Range(<<d>>) = {d}
  BY RangeOfSeq DEF Range
<1>2. VecUpgradeChanges(v, <<d>>) <=> U # {}
  BY <1>1, SeenIsUpgradable DEF VecUpgradeChanges
<1>3. /\ V \subseteq S /\ U = V \cap X
      /\ \A x \in X : x \in S /\ IsLegacy(x) /\ ~IsLegacy(d) /\ Matches(x, d)
      /\ \A x \in S : IsLegacy(x) /\ ~IsLegacy(d) /\ Matches(x, d) => x \in X
  BY DEF Within, Upgradable, FullEntries
<1>4. \A x : x \in S /\ x \notin V => x.serial # NoSerial
  BY DEF Within
<1>5. CASE U # {}
  <2>1. VecTrust(v, d) = VecUpgrade(v, <<d>>)
    BY <1>2, <1>5 DEF VecTrust
  <2>2. T = Upgrade(S, {d})
    BY <1>3, <1>5 DEF Trust, UpgradeChanges
  <2>3. PICK R : W = (V \ U) \cup R /\ Replace(R, U, V, {d})
    BY <1>1, <2>1, VecUpgradeRange
  <2>4. Within((V \ U) \cup R, Upgrade(S, {d}))
    BY <1>1, <2>3, WithinUpgrade
  <2> QED BY <2>2, <2>3, <2>4
<1>6. CASE U = {}
  <2>1. W = IF Vouched(V, d) THEN V ELSE V \cup {d}
    BY <1>2, <1>6, AppendRange DEF VecTrust
  <2>2. \A x \in X : x \notin V
    BY <1>3, <1>6
  <2>3. ~Vouched(V, d) => d \in S \/ (\A f \in S : Matches(f, d) => IsLegacy(f) /\ ~IsLegacy(d))
    <3> SUFFICES ASSUME ~Vouched(V, d), NEW f \in S, Matches(f, d), IsLegacy(f) => IsLegacy(d)
                 PROVE  d \in S
      OBVIOUS
    <3>1. f \notin V
      BY DEF Vouched
    <3> QED BY <3>1, ExtraIsSelf
  <2>4. d \notin X
    BY <1>3
  <2>5. CASE X # {}
    <3>1. T = (S \ X) \cup {c \in FullEntries({d}) : Vouched(X, c) /\ ~Vouched(FullEntries(S), c)}
      BY <2>5 DEF Trust, Upgrade, UpgradeChanges
    <3>2. PICK x \in X : TRUE
      BY <2>5
    <3>3. d.serial # NoSerial /\ ~IsLegacy(d) /\ Vouched(X, d)
      BY <1>3, <1>4, <2>2, <3>2 DEF Matches, Vouched
    <3>4. d \in T \/ Vouched(FullEntries(S), d)
      BY <3>1, <3>3 DEF FullEntries
    <3>5. ~Vouched(V, d) => d \in T
      <4> SUFFICES ASSUME ~Vouched(V, d), Vouched(FullEntries(S), d) PROVE d \in T
        BY <3>4
      <4>1. d \in S
        BY <2>3 DEF Vouched, FullEntries
      <4> QED BY <2>4, <3>1, <4>1
    <3>6. V \subseteq T
      BY <1>3, <2>2, <3>1
    <3>7. T \subseteq S \cup {d}
      BY <3>1 DEF FullEntries
    <3> HIDE DEF V, U, X, W, T
    <3>8. W \subseteq T
      BY <2>1, <3>5, <3>6
    <3>9. \A y \in T \ W : y.serial # NoSerial
      BY <1>4, <2>1, <3>3, <3>7
    <3> QED BY <3>8, <3>9 DEF Within, W, T
  <2>6. CASE X = {}
    <3>1. T = IF Vouched(S, d) THEN S ELSE S \cup {d}
      BY <2>6 DEF Trust, UpgradeChanges
    <3>2. Vouched(V, d) => Vouched(S, d)
      BY <1>3 DEF Vouched
    <3>3. ~Vouched(V, d) => d \in T
      <4> SUFFICES ASSUME ~Vouched(V, d), Vouched(S, d) PROVE d \in S
        BY <3>1
      <4>1. PICK f \in S : Matches(f, d)
        BY DEF Vouched
      <4>2. ~(IsLegacy(f) /\ ~IsLegacy(d))
        BY <1>3, <2>6, <4>1
      <4> QED BY <2>3, <4>1, <4>2
    <3> HIDE DEF V, U, X, W, T
    <3>4. W \subseteq T
      BY <1>3, <2>1, <3>1, <3>3
    <3>5. \A y \in T \ W : y.serial # NoSerial
      BY <1>4, <2>1, <3>1, <3>2
    <3> QED BY <3>4, <3>5 DEF Within, W, T
  <2> QED BY <2>5, <2>6
<1> QED BY <1>5, <1>6

-----------------------------------------------------------------------------
(* Reading the file. *)

Read(e) == IF e.ifs = {} THEN [e EXCEPT !.ifs = NoIfs] ELSE e

\* What becomes of one entry
LEMMA ReadEntry ==
  ASSUME NEW e \in Fingerprint
  PROVE  /\ Read(e) \in Fingerprint /\ Read(e).serial = e.serial /\ Read(e).ifs # {}
         /\ e.ifs # {} => Read(e) = e
         /\ e.ifs = {} => IsLegacy(Read(e))
<1>1. NoIfs # {}
  BY FingerprintAssumption
<1> QED BY <1>1 DEF Read, Fingerprint, IsLegacy

\* The vector is read as the set is.
LEMMA LoadedRange ==
  ASSUME NEW v \in Seq(Fingerprint)
  PROVE  /\ VecParsed(v) \in Seq(Fingerprint)
         /\ Range(VecParsed(v)) = {Read(e) : e \in Range(v)}
<1>1. Len(v) \in Nat /\ DOMAIN v = 1..Len(v) /\ \A i \in 1..Len(v) : v[i] \in Fingerprint
  OBVIOUS
<1>2. VecParsed(v) = [i \in 1..Len(v) |-> Read(v[i])]
  BY <1>1 DEF VecParsed, Read
<1>3. \A i \in 1..Len(v) : Read(v[i]) \in Fingerprint
  BY <1>1, ReadEntry
<1>4. VecParsed(v) \in Seq(Fingerprint)
  BY <1>1, <1>2, <1>3
<1>5. Range(VecParsed(v)) = {Read(e) : e \in Range(v)}
  BY <1>1, <1>2 DEF Range
<1> QED BY <1>4, <1>5

LEMMA ParsedReads ==
  ASSUME NEW S \in SUBSET Fingerprint
  PROVE  Parsed(S) = {Read(e) : e \in S} /\ Parsed(S) \in SUBSET Fingerprint
<1>1. Parsed(S) = {Read(e) : e \in S}
  BY DEF Parsed, Read
<1> QED BY <1>1, ReadEntry

\* The vector stays a part of the set.
LEMMA WithinRead ==
  ASSUME NEW V \in SUBSET Fingerprint, NEW S \in SUBSET Fingerprint, Within(V, S)
  PROVE  Within({Read(e) : e \in V}, {Read(e) : e \in S})
<1>1. V \subseteq S /\ \A x \in S \ V : x.serial # NoSerial
  BY DEF Within
<1>2. \A x \in S : Read(x).serial = x.serial
  BY ReadEntry
<1>3. {Read(e) : e \in V} \subseteq {Read(e) : e \in S}
  BY <1>1
<1>4. ASSUME NEW y \in {Read(e) : e \in S}, y \notin {Read(e) : e \in V}
      PROVE  y.serial # NoSerial
  <2>1. PICK x \in S : y = Read(x)
    BY <1>4
  <2> QED BY <1>1, <1>2, <1>4, <2>1
<1> QED BY <1>3, <1>4 DEF Within

\* Without twins in the file they have the same empty entries, and so the same trust.
LEMMA SameRead ==
  ASSUME NEW V \in SUBSET Fingerprint, NEW S \in SUBSET Fingerprint, Within(V, S),
         SameTrust(V, S), ~Twins(S)
  PROVE  SameTrust({Read(e) : e \in V}, {Read(e) : e \in S})
<1> DEFINE A == {Read(e) : e \in V}
           B == {Read(e) : e \in S}
<1>1. V \subseteq S
  BY DEF Within
<1>2. ASSUME NEW x \in S, x.ifs = {}
      PROVE  x \in V
  <2>1. ~IsLegacy(x)
    BY <1>2, FingerprintAssumption DEF IsLegacy
  <2>2. Vouched(FullEntries(S), x)
    BY <2>1, MatchesSelf DEF Vouched, FullEntries
  <2>3. PICK f \in V : ~IsLegacy(f) /\ Matches(f, x)
    BY <2>2 DEF SameTrust, Vouched, FullEntries
  <2>4. f.ifs = {} /\ f \in S
    BY <1>1, <1>2, <2>3 DEF Matches
  <2> QED BY <1>2, <2>3, <2>4 DEF Twins
<1>3. \A e \in S : IsLegacy(e) => e \in V
  BY DEF SameTrust
<1>4. A \subseteq B
  BY <1>1
<1>5. ASSUME NEW y \in B, IsLegacy(y)
      PROVE  y \in A
  <2>1. PICK x \in S : y = Read(x)
    BY <1>5
  <2>2. x.ifs # {} => IsLegacy(x)
    BY <1>5, <2>1, ReadEntry
  <2> QED BY <1>2, <1>3, <2>1, <2>2
<1>6. /\ FullEntries(A) = {e \in FullEntries(V) : e.ifs # {}}
      /\ FullEntries(B) = {e \in FullEntries(S) : e.ifs # {}}
  <2>1. ASSUME NEW Q \in SUBSET Fingerprint
        PROVE  FullEntries({Read(e) : e \in Q}) = {e \in FullEntries(Q) : e.ifs # {}}
    <3>1. \A e \in Q : /\ e.ifs # {} => Read(e) = e
                       /\ e.ifs = {} => IsLegacy(Read(e))
      BY ReadEntry
    <3> QED BY <3>1 DEF FullEntries
  <2> QED BY <2>1
<1> DEFINE Kept(Q) == {e \in FullEntries(Q) : e.ifs # {}}
<1> HIDE DEF A, B
<1>7. ASSUME NEW P \in SUBSET Fingerprint, NEW Q \in SUBSET Fingerprint,
             \A d \in Fingerprint : Vouched(FullEntries(P), d) => Vouched(FullEntries(Q), d),
             NEW d \in Fingerprint, Vouched(Kept(P), d)
      PROVE  Vouched(Kept(Q), d)
  <2>1. PICK e \in FullEntries(P) : e.ifs # {} /\ Matches(e, d)
    BY <1>7 DEF Vouched
  <2>2. PICK f \in FullEntries(Q) : Matches(f, d)
    BY <1>7, <2>1 DEF Vouched
  <2>3. f.ifs = d.ifs /\ e.ifs = d.ifs
    BY <2>1, <2>2 DEF Matches, FullEntries
  <2> QED BY <2>1, <2>2, <2>3 DEF Vouched
<1>8. \A d \in Fingerprint : Vouched(FullEntries(A), d) <=> Vouched(FullEntries(B), d)
  <2>1. \A d \in Fingerprint : Vouched(FullEntries(V), d) <=> Vouched(FullEntries(S), d)
    BY DEF SameTrust
  <2>2. FullEntries(A) = Kept(V) /\ FullEntries(B) = Kept(S)
    BY <1>6
  <2> HIDE DEF Kept
  <2>3. \A d \in Fingerprint : Vouched(Kept(V), d) => Vouched(Kept(S), d)
    BY <1>7, <2>1
  <2>4. \A d \in Fingerprint : Vouched(Kept(S), d) => Vouched(Kept(V), d)
    BY <1>7, <2>1
  <2> QED BY <2>2, <2>3, <2>4
<1>9. SameTrust(A, B)
  BY <1>4, <1>5, <1>8 DEF SameTrust
<1> QED BY <1>9 DEF A, B

-----------------------------------------------------------------------------
(* Both together. *)

\* The vector is within the set, and, while same, gives the same verdicts.
Agree(same, V, S) == Within(V, S) /\ (same => SameTrust(V, S))

LEMMA AgreeAfterUpgrade ==
  ASSUME NEW same \in BOOLEAN, NEW v \in Seq(Fingerprint), NEW S \in SUBSET Fingerprint,
         Agree(same, Range(v), S), NEW devs \in Seq(Fingerprint)
  PROVE  Agree(same, Range(VecUpgrade(v, devs)), Upgrade(S, Range(devs)))
<1> DEFINE V == Range(v)
           D == Range(devs)
           W == Range(VecUpgrade(v, devs))
<1>1. V \in SUBSET Fingerprint /\ D \in SUBSET Fingerprint
  BY RangeOfSeq
<1>2. PICK R : W = (V \ Upgradable(V, D)) \cup R /\ Replace(R, Upgradable(V, D), V, D)
  BY VecUpgradeRange
<1>3. Within(V, S)
  BY DEF Agree
<1>4. same => SameTrust(W, Upgrade(S, D))
  BY SameAfterUpgrade DEF Agree
<1> HIDE DEF V, D, W
<1>5. Within((V \ Upgradable(V, D)) \cup R, Upgrade(S, D))
  BY <1>1, <1>2, <1>3, WithinUpgrade
<1> QED BY <1>2, <1>4, <1>5 DEF Agree, D, W

LEMMA AgreeAfterTrust ==
  ASSUME NEW same \in BOOLEAN, NEW v \in Seq(Fingerprint), NEW S \in SUBSET Fingerprint,
         Agree(same, Range(v), S), NEW d \in Fingerprint
  PROVE  Agree(same, Range(VecTrust(v, d)), Trust(S, d))
BY WithinTrust, SameAfterTrust DEF Agree

\* Reading the file keeps the verdicts the same unless it has twins.
LEMMA AgreeAfterLoad ==
  ASSUME NEW same \in BOOLEAN, NEW v \in Seq(Fingerprint), NEW S \in SUBSET Fingerprint,
         Agree(same, Range(v), S)
  PROVE  /\ VecParsed(v) \in Seq(Fingerprint) /\ Parsed(S) \in SUBSET Fingerprint
         /\ Agree(same /\ ~Twins(S), Range(VecParsed(v)), Parsed(S))
<1>1. Range(v) \in SUBSET Fingerprint
  BY RangeOfSeq
<1>2. /\ VecParsed(v) \in Seq(Fingerprint) /\ Parsed(S) \in SUBSET Fingerprint
      /\ Range(VecParsed(v)) = {Read(e) : e \in Range(v)}
      /\ Parsed(S) = {Read(e) : e \in S}
  BY LoadedRange, ParsedReads
<1> DEFINE A == {Read(e) : e \in Range(v)}
           B == {Read(e) : e \in S}
<1>3. Within(A, B)
  BY <1>1, WithinRead DEF Agree
<1>4. same /\ ~Twins(S) => SameTrust(A, B)
  BY <1>1, SameRead DEF Agree
<1> HIDE DEF A, B
<1>5. Agree(same /\ ~Twins(S), A, B)
  BY <1>3, <1>4 DEF Agree
<1> QED BY <1>2, <1>5 DEF A, B

-----------------------------------------------------------------------------
(* "Trust Devices". *)

LEMMA ObservationTypes ==
  /\ Listed \in SUBSET Fingerprint
  /\ \A o \in Observation : /\ o.fp \in Fingerprint
                            /\ o.blocked \in BOOLEAN /\ o.enumerating \in BOOLEAN
BY VectorAssumption DEF Observation

\* The loop of SettledSeq
LEMMA SettledLoop ==
  ASSUME NEW obs \in Seq(Observation)
  PROVE  \E g \in [0..Len(obs) -> Seq(Fingerprint)] :
           /\ g[0] = <<>>
           /\ \A k \in 1..Len(obs) :
                g[k] = IF obs[k].enumerating THEN g[k - 1] ELSE Append(g[k - 1], obs[k].fp)
           /\ SettledSeq(obs) = g[Len(obs)]
<1> DEFINE n == Len(obs)
           A == Seq(Fingerprint)
           base == <<>>
           op(w, o) == IF o.enumerating THEN w ELSE Append(w, o.fp)
           step == [p \in A \X (1..n) |-> op(p[1], obs[p[2]])]
           Loop(it) == it = [s \in SUBSET (1..n) |->
                               IF s = {} THEN base
                               ELSE op(it[s \ {Max(s)}], obs[Max(s)])]
           iter == CHOOSE it : Loop(it)
<1>1. n \in Nat /\ DOMAIN obs = 1..n /\ \A i \in 1..n : obs[i] \in Observation
  OBVIOUS
<1>2. base \in A
  OBVIOUS
<1>3. \A a \in A, x \in Observation : op(a, x) \in A
  BY ObservationTypes
<1>4. SettledSeq(obs) = iter[1..n]
  BY <1>1 DEF SettledSeq, FoldLeft, MapThenFoldSet
<1> HIDE DEF op
<1>5. IsLoop(n, A, base, step)
  <2>1. \A p \in A \X (1..n) : op(p[1], obs[p[2]]) \in A
    BY <1>1, <1>3
  <2> HIDE DEF A, base
  <2> QED BY <1>1, <1>2, <2>1 DEF IsLoop
<1>6. Loop(iter)
  <2>1. PICK g \in FoldOf(n, A, base, step) : TRUE
    <3> HIDE DEF n, A, base, step
    <3> QED BY <1>5, FoldExists
  <2>2. \A s \in SUBSET (1..n) :
          s # {} => g[s] = op(g[s \ {Max(s)}], obs[Max(s)])
    <3>1. \A s \in SUBSET (1..n) :
            s # {} => Max(s) \in 1..n /\ s \ {Max(s)} \in SUBSET (1..n)
      BY <1>1, MaxIn
    <3>2. \A s \in SUBSET (1..n) :
            s # {} => /\ g[s] = step[<<g[s \ {Max(s)}], Max(s)>>]
                      /\ g[s \ {Max(s)}] \in A
      BY <3>1 DEF FoldOf
    <3> QED BY <3>1, <3>2
  <2>3. g = [s \in SUBSET (1..n) |-> g[s]] /\ g[{}] = base
    BY DEF FoldOf
  <2>4. Loop(g)
    BY <2>2, <2>3
  <2> QED BY <2>4, Zenon
<1> HIDE DEF iter
<1>7. Follows(iter, n, A, base, step)
  <2>1. \A s \in SUBSET (1..n) : s # {} => Max(s) \in 1..n
    BY <1>1, MaxIn
  <2> HIDE DEF n, A, base
  <2> QED BY <1>6, <2>1 DEF Follows
<1>8. PICK g \in Runs(n, A, base, step) : iter[1..n] = g[n]
  <2> HIDE DEF n, A, base, step
  <2> QED BY <1>5, <1>7, FoldRuns
<1>9. ASSUME NEW k \in 1..n PROVE g[k] = op(g[k - 1], obs[k])
  <2>1. g[k] = step[<<g[k - 1], k>>] /\ g[k - 1] \in A
    <3> HIDE DEF n, A, base, step
    <3> QED BY <1>1 DEF Runs
  <2> QED BY <2>1
<1>10. g \in [0..n -> A] /\ g[0] = base
  BY DEF Runs
<1> HIDE DEF Loop, step
<1> QED BY <1>4, <1>8, <1>9, <1>10 DEF op

\* The sequence and the set of the settled devices are of the same devices.
LEMMA SettledRange ==
  ASSUME NEW obs \in Seq(Observation)
  PROVE  /\ SettledSeq(obs) \in Seq(Fingerprint)
         /\ Range(SettledSeq(obs)) = Settled(obs)
         /\ Settled(obs) \in SUBSET Fingerprint
<1> DEFINE n == Len(obs)
           S(k) == {o.fp : o \in {x \in First(obs, k) : ~x.enumerating}}
<1>1. PICK g \in [0..n -> Seq(Fingerprint)] :
        /\ g[0] = <<>>
        /\ \A k \in 1..n : g[k] = IF obs[k].enumerating THEN g[k - 1]
                                                        ELSE Append(g[k - 1], obs[k].fp)
        /\ SettledSeq(obs) = g[n]
  BY SettledLoop
<1> DEFINE P == {k \in 0..n : Range(g[k]) = S(k)}
<1>2. n \in Nat /\ \A k \in 1..n : obs[k] \in Observation
  OBVIOUS
<1>3. 0 \in P
  <2>1. First(obs, 0) = {}
    BY FirstGrows
  <2> QED BY <1>1, <1>2, <2>1 DEF Range
<1>4. ASSUME NEW k \in 1..n, k - 1 \in P
      PROVE  k \in P
  <2>0. SUFFICES Range(g[k]) = S(k)
    BY <1>2
  <2> DEFINE o == obs[k]
  <2>1. Range(g[k - 1]) = S(k - 1) /\ g[k - 1] \in Seq(Fingerprint)
    BY <1>2, <1>4
  <2>2. First(obs, k) = First(obs, k - 1) \cup {o}
    BY FirstGrows
  <2>3. S(k) = S(k - 1) \cup {x.fp : x \in {y \in {o} : ~y.enumerating}}
    BY <2>2
  <2>4. CASE o.enumerating
    <3>1. g[k] = g[k - 1] /\ S(k) = S(k - 1)
      BY <1>1, <2>3, <2>4
    <3> HIDE DEF S
    <3> QED BY <2>1, <3>1
  <2>5. CASE ~o.enumerating
    <3>1. g[k] = Append(g[k - 1], o.fp) /\ S(k) = S(k - 1) \cup {o.fp}
      BY <1>1, <2>3, <2>5
    <3>2. o.fp \in Fingerprint
      BY <1>2, ObservationTypes
    <3>3. Range(g[k]) = Range(g[k - 1]) \cup {o.fp}
      BY <2>1, <3>1, <3>2, AppendRange
    <3> HIDE DEF S
    <3> QED BY <2>1, <3>1, <3>3
  <2> QED BY <2>4, <2>5
<1> HIDE DEF P
<1>5. n \in P
  <2>1. 0..n \subseteq P
    BY <1>2, <1>3, <1>4, RoundInduction
  <2> QED BY <1>2, <2>1
<1>6. S(n) = Settled(obs)
  BY FirstGrows DEF Settled
<1>7. Range(obs) \in SUBSET Observation
  BY RangeOfSeq
<1>8. Settled(obs) \in SUBSET Fingerprint
  BY <1>7, ObservationTypes DEF Settled
<1> HIDE DEF S
<1>9. Range(g[n]) = Settled(obs)
  BY <1>5, <1>6 DEF P
<1> QED BY <1>1, <1>2, <1>8, <1>9

\* The loop of VecMerge
LEMMA VecMergeLoop ==
  ASSUME NEW v \in Seq(Fingerprint), NEW obs \in Seq(Observation)
  PROVE  \E g \in [0..Len(obs) -> Seq(Fingerprint)] :
           /\ g[0] = VecUpgrade(v, SettledSeq(obs))
           /\ \A k \in 1..Len(obs) :
                g[k] = IF Merged(obs[k]) THEN VecTrust(g[k - 1], obs[k].fp) ELSE g[k - 1]
           /\ VecMerge(v, obs) = g[Len(obs)]
<1> DEFINE n == Len(obs)
           A == Seq(Fingerprint)
           base == VecUpgrade(v, SettledSeq(obs))
           op(w, o) == IF Merged(o) THEN VecTrust(w, o.fp) ELSE w
           step == [p \in A \X (1..n) |-> op(p[1], obs[p[2]])]
           Loop(it) == it = [s \in SUBSET (1..n) |->
                               IF s = {} THEN base
                               ELSE op(it[s \ {Max(s)}], obs[Max(s)])]
           iter == CHOOSE it : Loop(it)
<1>1. n \in Nat /\ DOMAIN obs = 1..n /\ \A i \in 1..n : obs[i] \in Observation
  OBVIOUS
<1>2. base \in A
  BY SettledRange, UpgradeWithin
<1>3. \A a \in A, x \in Observation : op(a, x) \in A
  BY ObservationTypes, TrustWithin
<1>4. VecMerge(v, obs) = iter[1..n]
  BY <1>1 DEF VecMerge, FoldLeft, MapThenFoldSet
<1> HIDE DEF op
<1>5. IsLoop(n, A, base, step)
  <2>1. \A p \in A \X (1..n) : op(p[1], obs[p[2]]) \in A
    BY <1>1, <1>3
  <2> HIDE DEF A, base
  <2> QED BY <1>1, <1>2, <2>1 DEF IsLoop
<1>6. Loop(iter)
  <2>1. PICK g \in FoldOf(n, A, base, step) : TRUE
    <3> HIDE DEF n, A, base, step
    <3> QED BY <1>5, FoldExists
  <2>2. \A s \in SUBSET (1..n) :
          s # {} => g[s] = op(g[s \ {Max(s)}], obs[Max(s)])
    <3>1. \A s \in SUBSET (1..n) :
            s # {} => Max(s) \in 1..n /\ s \ {Max(s)} \in SUBSET (1..n)
      BY <1>1, MaxIn
    <3>2. \A s \in SUBSET (1..n) :
            s # {} => /\ g[s] = step[<<g[s \ {Max(s)}], Max(s)>>]
                      /\ g[s \ {Max(s)}] \in A
      BY <3>1 DEF FoldOf
    <3> QED BY <3>1, <3>2
  <2>3. g = [s \in SUBSET (1..n) |-> g[s]] /\ g[{}] = base
    BY DEF FoldOf
  <2>4. Loop(g)
    BY <2>2, <2>3
  <2> QED BY <2>4, Zenon
<1> HIDE DEF iter
<1>7. Follows(iter, n, A, base, step)
  <2>1. \A s \in SUBSET (1..n) : s # {} => Max(s) \in 1..n
    BY <1>1, MaxIn
  <2> HIDE DEF n, A, base
  <2> QED BY <1>6, <2>1 DEF Follows
<1>8. PICK g \in Runs(n, A, base, step) : iter[1..n] = g[n]
  <2> HIDE DEF n, A, base, step
  <2> QED BY <1>5, <1>7, FoldRuns
<1>9. ASSUME NEW k \in 1..n PROVE g[k] = op(g[k - 1], obs[k])
  <2>1. g[k] = step[<<g[k - 1], k>>] /\ g[k - 1] \in A
    <3> HIDE DEF n, A, base, step
    <3> QED BY <1>1 DEF Runs
  <2> QED BY <2>1
<1>10. g \in [0..n -> A] /\ g[0] = base
  BY DEF Runs
<1> HIDE DEF Loop, step
<1> QED BY <1>4, <1>8, <1>9, <1>10 DEF op

\* The loop of SetMerge
LEMMA SetMergeLoop ==
  ASSUME NEW S \in SUBSET Fingerprint, NEW obs \in Seq(Observation)
  PROVE  \E g \in [0..Len(obs) -> SUBSET Fingerprint] :
           /\ g[0] = Upgrade(S, Settled(obs))
           /\ \A k \in 1..Len(obs) :
                g[k] = IF Merged(obs[k]) THEN Trust(g[k - 1], obs[k].fp) ELSE g[k - 1]
           /\ SetMerge(S, obs) = g[Len(obs)]
<1> DEFINE n == Len(obs)
           A == SUBSET Fingerprint
           base == Upgrade(S, Settled(obs))
           op(T, o) == IF Merged(o) THEN Trust(T, o.fp) ELSE T
           step == [p \in A \X (1..n) |-> op(p[1], obs[p[2]])]
           Loop(it) == it = [s \in SUBSET (1..n) |->
                               IF s = {} THEN base
                               ELSE op(it[s \ {Max(s)}], obs[Max(s)])]
           iter == CHOOSE it : Loop(it)
<1>1. n \in Nat /\ DOMAIN obs = 1..n /\ \A i \in 1..n : obs[i] \in Observation
  OBVIOUS
<1>2. base \in A
  BY SettledRange, SetWithin
<1>3. ASSUME NEW a \in A, NEW x \in Observation PROVE op(a, x) \in A
  <2>1. x.fp \in Fingerprint
    BY ObservationTypes
  <2>2. Trust(a, x.fp) \subseteq a \cup {x.fp}
    BY SetWithin
  <2> QED BY <2>1, <2>2
<1>4. SetMerge(S, obs) = iter[1..n]
  BY <1>1 DEF SetMerge, FoldLeft, MapThenFoldSet
<1> HIDE DEF op
<1>5. IsLoop(n, A, base, step)
  <2>1. \A p \in A \X (1..n) : op(p[1], obs[p[2]]) \in A
    BY <1>1, <1>3
  <2> HIDE DEF A, base
  <2> QED BY <1>1, <1>2, <2>1 DEF IsLoop
<1>6. Loop(iter)
  <2>1. PICK g \in FoldOf(n, A, base, step) : TRUE
    <3> HIDE DEF n, A, base, step
    <3> QED BY <1>5, FoldExists
  <2>2. \A s \in SUBSET (1..n) :
          s # {} => g[s] = op(g[s \ {Max(s)}], obs[Max(s)])
    <3>1. \A s \in SUBSET (1..n) :
            s # {} => Max(s) \in 1..n /\ s \ {Max(s)} \in SUBSET (1..n)
      BY <1>1, MaxIn
    <3>2. \A s \in SUBSET (1..n) :
            s # {} => /\ g[s] = step[<<g[s \ {Max(s)}], Max(s)>>]
                      /\ g[s \ {Max(s)}] \in A
      BY <3>1 DEF FoldOf
    <3> QED BY <3>1, <3>2
  <2>3. g = [s \in SUBSET (1..n) |-> g[s]] /\ g[{}] = base
    BY DEF FoldOf
  <2>4. Loop(g)
    BY <2>2, <2>3
  <2> QED BY <2>4, Zenon
<1> HIDE DEF iter
<1>7. Follows(iter, n, A, base, step)
  <2>1. \A s \in SUBSET (1..n) : s # {} => Max(s) \in 1..n
    BY <1>1, MaxIn
  <2> HIDE DEF n, A, base
  <2> QED BY <1>6, <2>1 DEF Follows
<1>8. PICK g \in Runs(n, A, base, step) : iter[1..n] = g[n]
  <2> HIDE DEF n, A, base, step
  <2> QED BY <1>5, <1>7, FoldRuns
<1>9. ASSUME NEW k \in 1..n PROVE g[k] = op(g[k - 1], obs[k])
  <2>1. g[k] = step[<<g[k - 1], k>>] /\ g[k - 1] \in A
    <3> HIDE DEF n, A, base, step
    <3> QED BY <1>1 DEF Runs
  <2> QED BY <2>1
<1>10. g \in [0..n -> A] /\ g[0] = base
  BY DEF Runs
<1> HIDE DEF Loop, step
<1> QED BY <1>4, <1>8, <1>9, <1>10 DEF op

\* What a migration does to the vector: no full entry goes, no legacy entry stays that
\* vouches for a connected device, none of these loses its trust, and nothing is
\* vouched for that was not before.
LEMMA VecUpgradeEffect ==
  ASSUME NEW v \in Seq(Fingerprint), NEW devs \in Seq(Fingerprint)
  PROVE  LET V == Range(v)
             D == FullEntries(Range(devs))
             W == Range(VecUpgrade(v, devs)) IN
         /\ FullEntries(V) \subseteq FullEntries(W)
         /\ \A e \in W : IsLegacy(e) => e \in V /\ \A d \in D : ~Matches(e, d)
         /\ \A d \in D : Vouched(V, d) => Vouched(FullEntries(W), d)
         /\ \A d \in Fingerprint : Vouched(W, d) => Vouched(V, d)
<1> DEFINE V == Range(v)
           D == FullEntries(Range(devs))
           W == Range(VecUpgrade(v, devs))
           U == Upgradable(V, Range(devs))
<1>1. PICK R : W = (V \ U) \cup R /\ Replace(R, U, V, Range(devs))
  BY VecUpgradeRange
<1>2. /\ R \subseteq {d \in D : Vouched(U, d) /\ ~Vouched(FullEntries(V), d)}
      /\ \A d \in D : Vouched(U, d) => Vouched(FullEntries(V) \cup R, d)
  BY <1>1 DEF Replace
<1>3. /\ V \in SUBSET Fingerprint /\ D \in SUBSET Fingerprint
      /\ \A d \in D : ~IsLegacy(d)
  BY RangeOfSeq DEF FullEntries
<1>4. U = {e \in V : IsLegacy(e) /\ \E d \in D : Matches(e, d)}
  BY DEF Upgradable
<1> HIDE DEF V, D, W, U
<1>5. FullEntries(W) = FullEntries(V) \cup R
  BY <1>1, <1>2, <1>3, <1>4 DEF FullEntries
<1>6. ASSUME NEW e \in W, IsLegacy(e)
      PROVE  e \in V /\ \A d \in D : ~Matches(e, d)
  <2>1. e \notin R
    BY <1>2, <1>3, <1>6
  <2> QED BY <1>1, <1>4, <1>6, <2>1
<1>7. ASSUME NEW d \in D, Vouched(V, d)
      PROVE  Vouched(FullEntries(W), d)
  <2>1. PICK e \in V : Matches(e, d)
    BY <1>7 DEF Vouched
  <2>2. CASE IsLegacy(e)
    <3>1. Vouched(U, d)
      BY <1>4, <2>1, <2>2 DEF Vouched
    <3> QED BY <1>2, <1>5, <3>1
  <2>3. CASE ~IsLegacy(e)
    BY <1>5, <2>1, <2>3 DEF Vouched, FullEntries
  <2> QED BY <2>2, <2>3
<1>8. ASSUME NEW d \in Fingerprint, Vouched(W, d)
      PROVE  Vouched(V, d)
  <2>1. PICK n \in W : Matches(n, d)
    BY <1>8 DEF Vouched
  <2>2. CASE n \in R
    <3>1. n \in Fingerprint /\ ~IsLegacy(n) /\ Vouched(U, n)
      BY <1>2, <1>3, <2>2
    <3>2. PICK e \in U : Matches(e, n)
      BY <3>1 DEF Vouched
    <3>3. e \in V /\ e \in Fingerprint
      BY <1>3, <1>4, <3>2
    <3>4. Matches(e, d)
      BY <2>1, <3>1, <3>2, <3>3, MatchesThrough
    <3> QED BY <3>3, <3>4 DEF Vouched
  <2>3. CASE n \notin R
    BY <1>1, <2>1, <2>3 DEF Vouched
  <2> QED BY <2>2, <2>3
<1> QED BY <1>5, <1>6, <1>7, <1>8 DEF V, D, W

\* Trusting a device: no full entry goes, the only legacy entry that may come is the
\* device itself, and a device with known interfaces has a full entry vouching for it
\* and no legacy one.
LEMMA VecTrustEffect ==
  ASSUME NEW v \in Seq(Fingerprint), NEW d \in Fingerprint
  PROVE  LET V == Range(v)
             W == Range(VecTrust(v, d)) IN
         /\ FullEntries(V) \subseteq FullEntries(W)
         /\ \A e \in W : IsLegacy(e) => e \in V \/ e = d
         /\ ~IsLegacy(d) => /\ Vouched(FullEntries(W), d)
                            /\ \A e \in W : IsLegacy(e) => ~Matches(e, d)
<1> DEFINE V == Range(v)
           W == Range(VecTrust(v, d))
<1>1. <<d>> \in Seq(Fingerprint) /\ Range(<<d>>) = {d}
  BY DEF Range
<1>2. VecUpgradeChanges(v, <<d>>) <=> \E e \in V : IsLegacy(e) /\ ~IsLegacy(d) /\ Matches(e, d)
  BY <1>1 DEF VecUpgradeChanges, Seen
<1>3. CASE VecUpgradeChanges(v, <<d>>)
  <2>1. VecTrust(v, d) = VecUpgrade(v, <<d>>)
    BY <1>3 DEF VecTrust
  <2>2. FullEntries(Range(<<d>>)) = {x \in {d} : ~IsLegacy(x)}
    BY <1>1 DEF FullEntries
  <2>3. Vouched(V, d)
    BY <1>2, <1>3 DEF Vouched
  <2>4. /\ FullEntries(V) \subseteq FullEntries(W)
        /\ \A e \in W : IsLegacy(e) =>
             e \in V /\ \A x \in FullEntries(Range(<<d>>)) : ~Matches(e, x)
        /\ \A x \in FullEntries(Range(<<d>>)) : Vouched(V, x) => Vouched(FullEntries(W), x)
    BY <1>1, <2>1, VecUpgradeEffect
  <2> QED BY <2>2, <2>3, <2>4
<1>4. CASE ~VecUpgradeChanges(v, <<d>>) /\ Vouched(V, d)
  <2>1. W = V
    BY <1>4 DEF VecTrust
  <2>2. ~IsLegacy(d) => Vouched(FullEntries(V), d)
    BY <1>2, <1>4 DEF Vouched, FullEntries
  <2>3. \A e \in V : IsLegacy(e) /\ ~IsLegacy(d) => ~Matches(e, d)
    BY <1>2, <1>4
  <2> QED BY <2>1, <2>2, <2>3
<1>5. CASE ~VecUpgradeChanges(v, <<d>>) /\ ~Vouched(V, d)
  <2>1. W = V \cup {d}
    BY <1>5, AppendRange DEF VecTrust
  <2>2. ~IsLegacy(d) => Vouched(FullEntries(V \cup {d}), d)
    BY MatchesSelf DEF Vouched, FullEntries
  <2>3. FullEntries(V) \subseteq FullEntries(V \cup {d})
    BY DEF FullEntries
  <2>4. \A e \in V : ~Matches(e, d)
    BY <1>5 DEF Vouched
  <2> QED BY <2>1, <2>2, <2>3, <2>4
<1> QED BY <1>3, <1>4, <1>5

\* The vector and the set come out of "Trust Devices" as they agreed before it.
LEMMA AgreeAfterMerge ==
  ASSUME NEW same \in BOOLEAN, NEW v \in Seq(Fingerprint), NEW S \in SUBSET Fingerprint,
         Agree(same, Range(v), S), NEW obs \in Seq(Observation)
  PROVE  /\ VecMerge(v, obs) \in Seq(Fingerprint)
         /\ SetMerge(S, obs) \in SUBSET Fingerprint
         /\ Agree(same, Range(VecMerge(v, obs)), SetMerge(S, obs))
<1> DEFINE n == Len(obs)
<1>1. PICK g \in [0..n -> Seq(Fingerprint)] :
        /\ g[0] = VecUpgrade(v, SettledSeq(obs))
        /\ \A k \in 1..n : g[k] = IF Merged(obs[k]) THEN VecTrust(g[k - 1], obs[k].fp)
                                                    ELSE g[k - 1]
        /\ VecMerge(v, obs) = g[n]
  BY VecMergeLoop
<1>2. PICK h \in [0..n -> SUBSET Fingerprint] :
        /\ h[0] = Upgrade(S, Settled(obs))
        /\ \A k \in 1..n : h[k] = IF Merged(obs[k]) THEN Trust(h[k - 1], obs[k].fp)
                                                    ELSE h[k - 1]
        /\ SetMerge(S, obs) = h[n]
  BY SetMergeLoop
<1> DEFINE Good(k) == Agree(same, Range(g[k]), h[k])
           P == {k \in 0..n : Good(k)}
<1>3. n \in Nat /\ \A k \in 1..n : obs[k] \in Observation
  OBVIOUS
<1>4. 0 \in P
  <2>1. SettledSeq(obs) \in Seq(Fingerprint) /\ Range(SettledSeq(obs)) = Settled(obs)
    BY SettledRange
  <2>2. Agree(same, Range(VecUpgrade(v, SettledSeq(obs))), Upgrade(S, Settled(obs)))
    BY <2>1, AgreeAfterUpgrade
  <2> QED BY <1>1, <1>2, <1>3, <2>2
<1>5. ASSUME NEW k \in 1..n, k - 1 \in P
      PROVE  k \in P
  <2>0. SUFFICES Good(k)
    <3> HIDE DEF Good
    <3> QED BY <1>3
  <2> DEFINE w == g[k - 1]
             T == h[k - 1]
             d == obs[k].fp
  <2>1. Good(k - 1) /\ w \in Seq(Fingerprint) /\ T \in SUBSET Fingerprint
    BY <1>3, <1>5
  <2>2. d \in Fingerprint
    BY <1>3, ObservationTypes
  <2>3. CASE Merged(obs[k])
    <3>1. g[k] = VecTrust(w, d) /\ h[k] = Trust(T, d)
      BY <1>1, <1>2, <2>3
    <3>2. Agree(same, Range(VecTrust(w, d)), Trust(T, d))
      BY <2>1, <2>2, AgreeAfterTrust
    <3> QED BY <3>1, <3>2
  <2>4. CASE ~Merged(obs[k])
    <3>1. g[k] = w /\ h[k] = T
      BY <1>1, <1>2, <2>4
    <3> QED BY <2>1, <3>1
  <2> QED BY <2>3, <2>4
<1> HIDE DEF P
<1>6. n \in P
  <2>1. 0..n \subseteq P
    BY <1>3, <1>4, <1>5, RoundInduction
  <2> QED BY <1>3, <2>1
<1>7. Good(n) /\ g[n] \in Seq(Fingerprint) /\ h[n] \in SUBSET Fingerprint
  BY <1>3, <1>6 DEF P
<1> QED BY <1>1, <1>2, <1>7

\* What "Trust Devices" leaves: full entries for every device it did not skip that was
\* listed with interfaces, and of the legacy entries that vouch for one only those of
\* devices listed bare in the same pass.
LEMMA MergeTrusts ==
  ASSUME NEW v \in Seq(Fingerprint), NEW obs \in Seq(Observation),
         NEW d \in FullEntries(Trusted(obs))
  PROVE  LET after == Range(VecMerge(v, obs)) IN
         /\ Vouched(FullEntries(after), d)
         /\ \A e \in after : IsLegacy(e) /\ Matches(e, d) => e \in Trusted(obs)
<1> DEFINE n == Len(obs)
<1>1. PICK g \in [0..n -> Seq(Fingerprint)] :
        /\ g[0] = VecUpgrade(v, SettledSeq(obs))
        /\ \A k \in 1..n : g[k] = IF Merged(obs[k]) THEN VecTrust(g[k - 1], obs[k].fp)
                                                    ELSE g[k - 1]
        /\ VecMerge(v, obs) = g[n]
  BY VecMergeLoop
<1>2. /\ n \in Nat
      /\ \A k \in 1..n : obs[k] \in Observation /\ obs[k] \in Range(obs)
  BY DEF Range
<1>3. PICK j \in 1..n : Merged(obs[j]) /\ obs[j].fp = d
  BY DEF Trusted, Range, FullEntries
<1>4. d \in Fingerprint /\ ~IsLegacy(d)
  BY <1>2, <1>3, ObservationTypes DEF FullEntries
<1> DEFINE Good(k) ==
             k >= j => /\ Vouched(FullEntries(Range(g[k])), d)
                       /\ \A e \in Range(g[k]) : IsLegacy(e) /\ Matches(e, d) => e \in Trusted(obs)
           P == {k \in 0..n : Good(k)}
<1>5. 0 \in P
  <2>1. ~(0 >= j)
    BY <1>2
  <2>2. Good(0)
    BY <2>1
  <2> HIDE DEF Good
  <2> QED BY <1>2, <2>2
<1>6. ASSUME NEW k \in 1..n, k - 1 \in P
      PROVE  k \in P
  <2>0. SUFFICES ASSUME k >= j
                 PROVE  /\ Vouched(FullEntries(Range(g[k])), d)
                        /\ \A e \in Range(g[k]) : IsLegacy(e) /\ Matches(e, d) => e \in Trusted(obs)
    BY <1>2
  <2> DEFINE w == g[k - 1]
             o == obs[k]
  <2>1. Good(k - 1) /\ w \in Seq(Fingerprint)
    BY <1>2, <1>6
  <2>2. o \in Observation /\ o \in Range(obs) /\ o.fp \in Fingerprint
    BY <1>2, ObservationTypes
  <2>3. CASE k = j
    <3>1. g[k] = VecTrust(w, d)
      BY <1>1, <1>3, <2>3
    <3>2. /\ \A e \in Range(g[k]) : IsLegacy(e) => ~Matches(e, d)
          /\ Vouched(FullEntries(Range(g[k])), d)
      BY <1>4, <2>1, <3>1, VecTrustEffect
    <3> QED BY <3>2
  <2>4. CASE k # j /\ Merged(o)
    <3>1. g[k] = VecTrust(w, o.fp)
      BY <1>1, <2>4
    <3>2. /\ FullEntries(Range(w)) \subseteq FullEntries(Range(g[k]))
          /\ \A e \in Range(g[k]) : IsLegacy(e) => e \in Range(w) \/ e = o.fp
      BY <2>1, <2>2, <3>1, VecTrustEffect
    <3>3. o.fp \in Trusted(obs)
      BY <2>2, <2>4 DEF Trusted
    <3>4. k - 1 >= j
      BY <1>2, <2>0, <2>4
    <3>5. /\ Vouched(FullEntries(Range(w)), d)
          /\ \A e \in Range(w) : IsLegacy(e) /\ Matches(e, d) => e \in Trusted(obs)
      BY <2>1, <3>4
    <3> HIDE DEF w, o
    <3> QED BY <3>2, <3>3, <3>5 DEF Vouched
  <2>5. CASE ~Merged(o)
    <3>1. g[k] = w /\ k # j
      BY <1>1, <1>3, <2>5
    <3>2. k - 1 >= j
      BY <1>2, <2>0, <3>1
    <3> QED BY <2>1, <3>1, <3>2
  <2> QED BY <2>3, <2>4, <2>5
<1> HIDE DEF P
<1>7. n \in P
  <2>1. 0..n \subseteq P
    BY <1>2, <1>5, <1>6, RoundInduction
  <2> QED BY <1>2, <2>1
<1>8. Good(n) /\ n >= j
  BY <1>2, <1>7 DEF P
<1> QED BY <1>1, <1>8

-----------------------------------------------------------------------------
(* The theorems. *)

\* A bounded sequence is one.
LEMMA SeqOfIsSeq ==
  ASSUME NEW S, NEW n \in Nat, NEW s \in SeqOf(S, n)
  PROVE  s \in Seq(S)
BY DEF SeqOf

\* The inductive invariant: verdicts alone would not carry over a migration, which tells
\* an entry that knows the interfaces from one that does not.
IInv == TypeOK /\ Agree(~twins, Range(vec), store)

\* Any file, to begin with
LEMMA InitAgrees == Init => IInv
<1> SUFFICES ASSUME Init PROVE IInv
  OBVIOUS
<1>1. vec \in Seq(Fingerprint)
  <2>1. vec \in Seq(FileEntry) /\ FileEntry \subseteq Fingerprint
    BY VectorAssumption, SeqOfIsSeq DEF Init
  <2> QED BY <2>1, SeqMonotonic
<1>2. store = Range(vec) /\ store \in SUBSET Fingerprint /\ twins = FALSE
  BY <1>1, RangeOfSeq DEF Init
<1> QED BY <1>1, <1>2 DEF IInv, TypeOK, Agree, Within, SameTrust

\* An operation reads the file and saves what it makes of it.
LEMMA NextAgrees == IInv /\ [Next]_vars => IInv'
<1> SUFFICES ASSUME IInv, [Next]_vars PROVE IInv'
  OBVIOUS
<1>1. /\ vec \in Seq(Fingerprint) /\ store \in SUBSET Fingerprint /\ twins \in BOOLEAN
      /\ Agree(~twins, Range(vec), store)
  BY DEF IInv, TypeOK
<1> DEFINE v == VecParsed(vec)
           S == Parsed(store)
           same == ~twins /\ ~Twins(store)
<1>2. /\ v \in Seq(Fingerprint) /\ S \in SUBSET Fingerprint
      /\ Agree(same, Range(v), S) /\ same \in BOOLEAN
  BY <1>1, AgreeAfterLoad
<1> HIDE DEF v, S
<1>3. ASSUME NEW devs \in SeqOf(Listed, MaxConnected), Scan(devs)
      PROVE  IInv'
  <2>1. devs \in Seq(Fingerprint)
    <3>1. devs \in Seq(Listed)
      BY VectorAssumption, SeqOfIsSeq
    <3> QED BY <3>1, ObservationTypes, SeqMonotonic
  <2>2. /\ vec' = VecUpgrade(v, devs) /\ store' = Upgrade(S, Range(devs))
        /\ twins' \in BOOLEAN /\ (~twins') = same
    BY <1>1, <1>3 DEF Scan, v, S
  <2> HIDE DEF same
  <2>3. Agree(same, Range(vec'), store')
    BY <1>2, <2>1, <2>2, AgreeAfterUpgrade
  <2>4. vec' \in Seq(Fingerprint)
    BY <1>2, <2>1, <2>2, VecUpgradeRange
  <2>5. store' \in SUBSET Fingerprint
    BY <1>2, <2>1, <2>2, RangeOfSeq, SetWithin
  <2> QED BY <2>2, <2>3, <2>4, <2>5 DEF IInv, TypeOK
<1>4. ASSUME NEW obs \in SeqOf(Observation, MaxConnected), TrustDevices(obs)
      PROVE  IInv'
  <2>1. obs \in Seq(Observation)
    BY VectorAssumption, SeqOfIsSeq
  <2>2. /\ vec' = VecMerge(v, obs) /\ store' = SetMerge(S, obs)
        /\ twins' \in BOOLEAN /\ (~twins') = same
    BY <1>1, <1>4 DEF TrustDevices, v, S
  <2> HIDE DEF same
  <2>3. /\ vec' \in Seq(Fingerprint) /\ store' \in SUBSET Fingerprint
        /\ Agree(same, Range(vec'), store')
    BY <1>2, <2>1, <2>2, AgreeAfterMerge
  <2> QED BY <2>2, <2>3 DEF IInv, TypeOK
<1>5. CASE UNCHANGED vars
  BY <1>5 DEF vars, IInv, TypeOK
<1> QED BY <1>3, <1>4, <1>5 DEF Next

\* The vector is a part of the set in every state, and has the same legacy entries and
\* full entries that vouch for the same devices until a file with twins is read.
THEOREM AlwaysAgree == Spec => []IInv
BY InitAgrees, NextAgrees, PTL DEF Spec

\* SetVouches: whatever is listed, saved and read back, the set of the model of USB
\* Armor vouches for all the vector of usb.rs does, and besides only for units with a
\* serial.
THEOREM VectorWithinSet == Spec => []SetVouches
<1>1. ASSUME IInv PROVE SetVouches
  <2>1. Range(vec) \subseteq store /\ \A x \in store \ Range(vec) : x.serial # NoSerial
    BY <1>1 DEF IInv, Agree, Within
  <2> QED BY <2>1 DEF SetVouches, Vouched, Matches
<1> QED BY <1>1, AlwaysAgree, PTL

\* SameVerdicts: until a file with twins is read, the vector of usb.rs and the set of
\* the model of USB Armor give every device the same verdict, however long the file,
\* the vector and the lists of devices.
THEOREM VerdictsSame == Spec => []SameVerdicts
<1>1. ASSUME IInv PROVE SameVerdicts
  <2>1. vec \in Seq(Fingerprint) /\ store \in SUBSET Fingerprint /\ Range(vec) \in SUBSET Fingerprint
    BY <1>1, RangeOfSeq DEF IInv, TypeOK
  <2>2. ~twins => SameTrust(Range(vec), store)
    BY <1>1 DEF IInv, Agree
  <2> QED BY <2>1, <2>2, VerdictsAgree DEF SameVerdicts
<1> QED BY <1>1, AlwaysAgree, PTL

\* MigrationIsExact: a migration trusts nothing that was not trusted, and takes the
\* trust of no device that was listed with interfaces.
THEOREM MigrationExact == Spec => []MigrationIsExact
<1>1. ASSUME IInv PROVE MigrationIsExact
  <2> DEFINE loaded == VecParsed(vec)
  <2>1. loaded \in Seq(Fingerprint)
    BY <1>1, LoadedRange DEF IInv, TypeOK
  <2> HIDE DEF loaded
  <2>2. ASSUME NEW devs \in SeqOf(Listed, MaxConnected)
        PROVE  LET after == Range(VecUpgrade(loaded, devs)) IN
               /\ \A fp \in Fingerprint : Vouched(after, fp) => Vouched(Range(loaded), fp)
               /\ \A d \in FullEntries(Range(devs)) :
                    Vouched(Range(loaded), d) => Vouched(after, d)
    <3> DEFINE after == Range(VecUpgrade(loaded, devs))
    <3>1. devs \in Seq(Fingerprint)
      <4>1. devs \in Seq(Listed)
        BY VectorAssumption, SeqOfIsSeq
      <4> QED BY <4>1, ObservationTypes, SeqMonotonic
    <3>2. /\ \A d \in FullEntries(Range(devs)) :
               Vouched(Range(loaded), d) => Vouched(FullEntries(after), d)
          /\ \A d \in Fingerprint : Vouched(after, d) => Vouched(Range(loaded), d)
      BY <2>1, <3>1, VecUpgradeEffect
    <3>3. \A d : Vouched(FullEntries(after), d) => Vouched(after, d)
      BY DEF Vouched, FullEntries
    <3> QED BY <3>2, <3>3
  <2> QED BY <2>2 DEF MigrationIsExact, loaded
<1> QED BY <1>1, AlwaysAgree, PTL

\* MergedAreTrusted: "Trust Devices" leaves every device it did not skip that was listed
\* with interfaces trusted by these, and no other entry that would vouch for a clone of
\* it but those of devices listed bare in the same pass.
THEOREM MergedTrusted == Spec => []MergedAreTrusted
<1>1. ASSUME IInv PROVE MergedAreTrusted
  <2>1. VecParsed(vec) \in Seq(Fingerprint)
    BY <1>1, LoadedRange DEF IInv, TypeOK
  <2>2. \A obs \in SeqOf(Observation, MaxConnected) : obs \in Seq(Observation)
    BY VectorAssumption, SeqOfIsSeq
  <2> QED BY <2>1, <2>2, MergeTrusts DEF MergedAreTrusted
<1> QED BY <1>1, AlwaysAgree, PTL

=============================================================================
