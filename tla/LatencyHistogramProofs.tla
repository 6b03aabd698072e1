----------------------- MODULE LatencyHistogramProofs -----------------------
(***************************************************************************)
(* Proofs about LatencyHistogram, for any size and any durations: it is    *)
(* type correct, and it implements the window of the most recent samples.  *)
(***************************************************************************)
EXTENDS LatencyHistogram, FiniteSetTheorems, SequenceTheorems, TLAPS

(* The successor of an index in the circle. *)
LEMMA NextIndex ==
    ASSUME NEW N \in Nat \ {0}, NEW w \in 0 .. N - 1
    PROVE  (w + 1) % N = IF w + 1 = N THEN 0 ELSE w + 1
OBVIOUS

(* A function on 1 .. n is a sequence of length n. *)
LEMMA FunctionIsSeq ==
    ASSUME NEW S, NEW n \in Nat, NEW f \in [1 .. n -> S]
    PROVE  f \in Seq(S) /\ Len(f) = n
<1>1. f \in Seq(S)
  OBVIOUS
<1>2. DOMAIN f = 1 .. n /\ DOMAIN f = 1 .. Len(f) /\ Len(f) \in Nat
  BY <1>1
<1> QED
  BY <1>1, <1>2

(* A sequence is the function on 1 .. Len of its elements. *)
LEMMA SeqIsFunction ==
    ASSUME NEW S, NEW s \in Seq(S)
    PROVE  s = [i \in 1 .. Len(s) |-> s[i]]
OBVIOUS

(* Appending to a window with the loss of its oldest sample. *)
LEMMA SlideProperties ==
    ASSUME NEW S, NEW s \in Seq(S), s # <<>>, NEW x \in S
    PROVE  Append(Tail(s), x) =
              [i \in 1 .. Len(s) |-> IF i = Len(s) THEN x ELSE s[i + 1]]
<1> DEFINE t == Tail(s)
           u == [i \in 1 .. Len(s) |-> IF i = Len(s) THEN x ELSE s[i + 1]]
<1>1. /\ t \in Seq(S) /\ Len(t) = Len(s) - 1 /\ Len(s) \in Nat \ {0}
      /\ \A i \in 1 .. Len(t) : t[i] = s[i + 1]
  BY HeadTailProperties, EmptySeq
<1>2. /\ Append(t, x) \in Seq(S) /\ Len(Append(t, x)) = Len(s)
      /\ \A i \in 1 .. Len(s) : Append(t, x)[i] = IF i = Len(s) THEN x ELSE t[i]
  <2> HIDE DEF t
  <2> QED
    BY <1>1
<1>3. u \in Seq(S) /\ Len(u) = Len(s)
  <2>1. u \in [1 .. Len(s) -> S]
    BY <1>1
  <2> QED
    BY <2>1, <1>1, FunctionIsSeq
<1>4. \A i \in 1 .. Len(s) : Append(t, x)[i] = u[i]
  <2> HIDE DEF t
  <2> QED
    BY <1>1, <1>2
<1> HIDE DEF t, u
<1>5. Append(t, x) = u
  BY <1>2, <1>3, <1>4, SeqEqual
<1> QED
  BY <1>5 DEF t, u

(* The vector never exceeds Size, and the index stays at 0 until it is     *)
(* full: the two facts the refinement needs.                               *)
THEOREM TypeCorrect == Spec => []TypeOK
<1>1. Init => TypeOK
  BY HistogramAssumption DEF Init, TypeOK
<1>2. TypeOK /\ [Next]_vars => TypeOK'
  <2> SUFFICES ASSUME TypeOK, [Next]_vars PROVE TypeOK'
    OBVIOUS
  <2> USE DEF TypeOK
  <2>1. CASE UNCHANGED vars
    BY <2>1 DEF vars
  <2>2. ASSUME NEW x \in Micros, Len(samples) < Size,
               samples' = Append(samples, x), UNCHANGED write_idx
        PROVE  TypeOK'
    BY <2>2, HistogramAssumption
  <2>3. ASSUME NEW x \in Micros, Len(samples) >= Size,
               samples' = [samples EXCEPT ![write_idx + 1] = x],
               write_idx' = (write_idx + 1) % Size
        PROVE  TypeOK'
    <3>1. write_idx' \in 0 .. Size - 1
      BY <2>3, NextIndex, HistogramAssumption
    <3>2. write_idx + 1 \in 1 .. Len(samples)
      BY <2>3, HistogramAssumption
    <3>3. samples' \in Seq(Micros) /\ Len(samples') = Len(samples)
      BY <2>3, <3>2, ExceptSeq
    <3> QED
      BY <2>3, <3>1, <3>3, HistogramAssumption
  <2> QED
    BY <2>1, <2>2, <2>3 DEF Next, AddSample
<1> QED
  BY <1>1, <1>2, PTL DEF Spec

(* What the window is, as a sequence. *)
LEMMA WindowProperties ==
    ASSUME TypeOK
    PROVE  Window \in Seq(Micros) /\ Len(Window) = Len(samples)
<1>1. Len(samples) \in Nat /\ samples \in [1 .. Len(samples) -> Micros]
  BY DEF TypeOK
<1>2. \A i \in 1 .. Len(samples) :
         IF write_idx + i <= Len(samples)
         THEN write_idx + i \in 1 .. Len(samples)
         ELSE write_idx + i - Len(samples) \in 1 .. Len(samples)
  BY <1>1, HistogramAssumption DEF TypeOK
<1>3. Window \in [1 .. Len(samples) -> Micros]
  BY <1>1, <1>2 DEF Window
<1>4. Len(samples) \in Nat
  BY <1>1
<1> QED
  BY <1>3, <1>4, FunctionIsSeq

(* A sample appended while the vector grows is appended to the window. *)
LEMMA GrowStep ==
    ASSUME TypeOK, NEW x \in Micros, Len(samples) < Size,
           samples' = Append(samples, x), UNCHANGED write_idx
    PROVE  Abstract!Add(x)
<1>1. write_idx = 0 /\ Len(samples) \in Nat /\ samples \in Seq(Micros)
  BY DEF TypeOK
<1>2. Window = samples
  BY <1>1 DEF Window
<1>3. Window' = samples'
  <2>1. samples' \in Seq(Micros) /\ Len(samples') \in Nat /\ write_idx' = 0
    <3>1. write_idx' = 0
      BY <1>1
    <3>2. Append(samples, x) \in Seq(Micros)
      BY <1>1
    <3>3. samples' \in Seq(Micros)
      BY <3>2
    <3> QED
      BY <3>1, <3>3, LenProperties
  <2>2. samples' = [i \in 1 .. Len(samples') |-> samples'[i]]
    BY <2>1, SeqIsFunction
  <2>3. Window' = [i \in 1 .. Len(samples') |-> samples'[i]]
    BY <2>1 DEF Window
  <2> QED
    BY <2>2, <2>3
<1> QED
  BY <1>2, <1>3 DEF Abstract!Add

(* A sample that overwrites a slot replaces the oldest in the window and   *)
(* becomes its youngest.                                                   *)
LEMMA WrapStep ==
    ASSUME TypeOK, NEW x \in Micros, Len(samples) >= Size,
           samples' = [samples EXCEPT ![write_idx + 1] = x],
           write_idx' = (write_idx + 1) % Size
    PROVE  Abstract!Add(x)
<1> DEFINE n == Len(samples)
<1>1. /\ n = Size /\ n \in Nat \ {0} /\ write_idx \in 0 .. n - 1
      /\ samples \in [1 .. n -> Micros]
  BY HistogramAssumption DEF TypeOK
<1>2. /\ Len(samples') = n
      /\ \A i \in 1 .. n : samples'[i] = IF i = write_idx + 1 THEN x ELSE samples[i]
  BY <1>1 DEF TypeOK
<1>3. write_idx' = IF write_idx + 1 = n THEN 0 ELSE write_idx + 1
  BY <1>1, NextIndex
<1>4. Window \in Seq(Micros) /\ Len(Window) = n /\ Window # <<>>
  BY <1>1, WindowProperties
<1>5. Append(Tail(Window), x) =
         [i \in 1 .. n |-> IF i = n THEN x ELSE Window[i + 1]]
  BY <1>4, SlideProperties
<1>6. Window' = [i \in 1 .. n |->
                    IF write_idx' + i <= n THEN samples'[write_idx' + i]
                                           ELSE samples'[write_idx' + i - n]]
  BY <1>2 DEF Window
<1>7. ASSUME NEW i \in 1 .. n
      PROVE  (IF write_idx' + i <= n THEN samples'[write_idx' + i]
                                     ELSE samples'[write_idx' + i - n])
             = IF i = n THEN x ELSE Window[i + 1]
  <2> HIDE DEF n
  <2>1. CASE i = n
    <3>1. CASE write_idx + 1 = n
      BY <2>1, <3>1, <1>1, <1>2, <1>3
    <3>2. CASE write_idx + 1 # n
      BY <2>1, <3>2, <1>1, <1>2, <1>3
    <3> QED
      BY <3>1, <3>2
  <2>2. CASE i # n
    <3>1. i + 1 \in 1 .. n
      BY <2>2, <1>1
    <3>2. Window[i + 1] = IF write_idx + i + 1 <= n THEN samples[write_idx + i + 1]
                                                   ELSE samples[write_idx + i + 1 - n]
      BY <3>1, <1>1 DEF Window, n
    <3>3. CASE write_idx + 1 = n
      BY <2>2, <3>1, <3>2, <3>3, <1>1, <1>2, <1>3
    <3>4. CASE write_idx + 1 # n
      BY <2>2, <3>1, <3>2, <3>4, <1>1, <1>2, <1>3
    <3> QED
      BY <3>3, <3>4
  <2> QED
    BY <2>1, <2>2
<1>8. Window' = Append(Tail(Window), x)
  BY <1>5, <1>6, <1>7
<1>9. ~(Len(Window) < Size)
  BY <1>1, <1>4
<1> QED
  BY <1>8, <1>9 DEF Abstract!Add

(* The ring buffer of any size implements the window of recent samples. *)
THEOREM RingRefinesWindow == Spec => ImplementsWindow
<1>1. Init => Abstract!Init
  BY DEF Init, Abstract!Init, Window
<1>2. TypeOK /\ [Next]_vars => [Abstract!Next]_Window
  <2> SUFFICES ASSUME TypeOK, [Next]_vars PROVE [Abstract!Next]_Window
    OBVIOUS
  <2>1. CASE UNCHANGED vars
    BY <2>1 DEF vars, Window
  <2>2. ASSUME NEW x \in Micros, AddSample(x)
        PROVE  Abstract!Add(x)
    BY <2>2, GrowStep, WrapStep DEF AddSample
  <2> QED
    BY <2>1, <2>2 DEF Next, Abstract!Next
<1> QED
  BY <1>1, <1>2, TypeCorrect, PTL DEF Spec, ImplementsWindow, Abstract!Spec
----------------------------------------------------------------------------
(* p puts the first n elements of s in ascending order. *)
Ascending(p, s, n) ==
    /\ p \in Bijection(1 .. n, 1 .. n)
    /\ \A i, j \in 1 .. n : i < j => s[p[i]] <= s[p[j]]

(* A finite list of naturals has a least element. *)
LEMMA LeastElement ==
    ASSUME NEW n \in Nat \ {0}, NEW s \in [1 .. n -> Nat]
    PROVE  \E m \in 1 .. n : \A i \in 1 .. n : s[m] <= s[i]
<1> DEFINE values == {s[i] : i \in 1 .. n}
<1>1. values \subseteq Nat /\ s[1] \in values
  OBVIOUS
<1>2. PICK v \in values : \A w \in values : <<w, v>> \notin OpToRel(<, Nat)
  BY <1>1, WFMin, NatLessThanWellFounded, Zenon
<1>3. \A w \in values : ~(w < v)
  BY <1>1, <1>2, Zenon DEF OpToRel
<1>4. PICK m \in 1 .. n : s[m] = v
  OBVIOUS
<1>5. ASSUME NEW i \in 1 .. n PROVE s[m] <= s[i]
  <2>1. s[i] \in values /\ s[i] \in Nat /\ v \in Nat
    BY <1>1
  <2>2. ~(s[i] < v)
    BY <1>3, <2>1
  <2> QED
    BY <1>4, <2>1, <2>2
<1> QED
  BY <1>5

(* Put a least element first and the others, ordered already, after it: the *)
(* last element takes the place of the least one in the shorter list.       *)
LEMMA LeastFirst ==
    ASSUME NEW n \in Nat, NEW s \in [1 .. n + 1 -> Nat],
           NEW m \in 1 .. n + 1, \A i \in 1 .. n + 1 : s[m] <= s[i],
           NEW q, Ascending(q, [i \in 1 .. n |-> IF i = m THEN s[n + 1] ELSE s[i]], n)
    PROVE  \E p : Ascending(p, s, n + 1)
<1> DEFINE rest == [i \in 1 .. n |-> IF i = m THEN s[n + 1] ELSE s[i]]
           old(j) == IF j = m THEN n + 1 ELSE j
           p == [i \in 1 .. n + 1 |-> IF i = 1 THEN m ELSE old(q[i - 1])]
<1>1. /\ q \in [1 .. n -> 1 .. n]
      /\ \A i, j \in 1 .. n : q[i] = q[j] => i = j
      /\ \A j \in 1 .. n : \E i \in 1 .. n : q[i] = j
      /\ \A i, j \in 1 .. n : i < j => rest[q[i]] <= rest[q[j]]
  BY DEF Ascending, Bijection, Injection, IsInjective, Surjection
<1>2. \A j \in 1 .. n : old(j) \in 1 .. n + 1 /\ old(j) # m /\ s[old(j)] = rest[j]
  OBVIOUS
<1>3. \A j, k \in 1 .. n : old(j) = old(k) => j = k
  OBVIOUS
<1>4. \A k \in 1 .. n + 1 : k # m => \E j \in 1 .. n : old(j) = k
  <2> SUFFICES ASSUME NEW k \in 1 .. n + 1, k # m
               PROVE  \E j \in 1 .. n : old(j) = k
    OBVIOUS
  <2>1. CASE k = n + 1
    <3>1. m \in 1 .. n /\ old(m) = k
      BY <2>1
    <3> QED
      BY <3>1
  <2>2. CASE k # n + 1
    <3>1. k \in 1 .. n /\ old(k) = k
      BY <2>2
    <3> QED
      BY <3>1
  <2> QED
    BY <2>1, <2>2
<1>5. /\ p[1] = m
      /\ \A i \in 1 .. n : p[i + 1] = old(q[i])
      /\ \A i \in 1 .. n + 1 : i # 1 => i - 1 \in 1 .. n /\ p[i] = old(q[i - 1])
  <2> HIDE DEF old
  <2> QED
    OBVIOUS
<1>6. \A i \in 1 .. n : q[i] \in 1 .. n
  BY <1>1
<1>7. p \in [1 .. n + 1 -> 1 .. n + 1]
  <2> HIDE DEF old
  <2>1. \A i \in 1 .. n + 1 : i # 1 => old(q[i - 1]) \in 1 .. n + 1
    BY <1>2, <1>5, <1>6
  <2> QED
    BY <2>1
<1> HIDE DEF p, old
<1>8. ASSUME NEW i \in 1 .. n + 1, NEW j \in 1 .. n + 1, p[i] = p[j] PROVE i = j
  <2>1. \A k \in 1 .. n + 1 : k # 1 =>
          k - 1 \in 1 .. n /\ p[k] = old(q[k - 1]) /\ q[k - 1] \in 1 .. n /\ p[k] # m
    <3> SUFFICES ASSUME NEW k \in 1 .. n + 1, k # 1
                 PROVE  k - 1 \in 1 .. n /\ p[k] = old(q[k - 1]) /\ q[k - 1] \in 1 .. n
                        /\ p[k] # m
      OBVIOUS
    <3>1. k - 1 \in 1 .. n /\ p[k] = old(q[k - 1])
      BY <1>5
    <3>2. q[k - 1] \in 1 .. n
      BY <3>1, <1>6
    <3> QED
      BY <3>1, <3>2, <1>2
  <2>2. i = 1 <=> j = 1
    BY <2>1, <1>5, <1>8
  <2>3. CASE i # 1 /\ j # 1
    <3>1. old(q[i - 1]) = old(q[j - 1])
      BY <2>1, <2>3, <1>8
    <3>2. q[i - 1] = q[j - 1]
      BY <2>1, <2>3, <3>1, <1>3
    <3>3. i - 1 = j - 1
      BY <2>1, <2>3, <3>2, <1>1
    <3> QED
      BY <3>3
  <2> QED
    BY <2>2, <2>3
<1>9. ASSUME NEW k \in 1 .. n + 1 PROVE \E i \in 1 .. n + 1 : p[i] = k
  <2>1. CASE k = m
    BY <2>1, <1>5
  <2>2. CASE k # m
    <3>1. PICK j \in 1 .. n : old(j) = k
      BY <2>2, <1>4
    <3>2. PICK i \in 1 .. n : q[i] = j
      BY <1>1
    <3>3. i + 1 \in 1 .. n + 1 /\ p[i + 1] = old(q[i])
      BY <1>5
    <3>4. old(q[i]) = k
      BY <3>1, <3>2
    <3> QED
      BY <3>3, <3>4
  <2> QED
    BY <2>1, <2>2
<1>10. ASSUME NEW i \in 1 .. n + 1, NEW j \in 1 .. n + 1, i < j PROVE s[p[i]] <= s[p[j]]
  <2>1. CASE i = 1
    <3>1. p[i] = m /\ p[j] \in 1 .. n + 1
      BY <2>1, <1>5, <1>7
    <3> QED
      BY <3>1
  <2>2. CASE i # 1
    <3>1. i - 1 \in 1 .. n /\ j - 1 \in 1 .. n /\ i - 1 < j - 1
      BY <2>2, <1>10
    <3>2. rest[q[i - 1]] <= rest[q[j - 1]]
      <4> HIDE DEF rest
      <4> QED
        BY <3>1, <1>1
    <3>3. s[p[i]] = rest[q[i - 1]] /\ s[p[j]] = rest[q[j - 1]]
      <4>1. p[i] = old(q[i - 1]) /\ p[j] = old(q[j - 1])
        BY <2>2, <1>5, <1>10
      <4> HIDE DEF rest
      <4> QED
        BY <3>1, <4>1, <1>2, <1>6
    <3> QED
      BY <3>2, <3>3
  <2> QED
    BY <2>1, <2>2
<1>11. Ascending(p, s, n + 1)
  BY <1>7, <1>8, <1>9, <1>10 DEF Ascending, Bijection, Injection, IsInjective, Surjection
<1> QED
  BY <1>11

(* Whatever the samples, there is an order that sorts them: a shortest list *)
(* without one would be sorted by LeastFirst.                               *)
LEMMA CanBeSorted ==
    \A n \in Nat : \A s \in [1 .. n -> Nat] : \E p : Ascending(p, s, n)
<1> DEFINE bad == {n \in Nat : \E s \in [1 .. n -> Nat] : \A p : ~Ascending(p, s, n)}
<1> SUFFICES ASSUME bad # {} PROVE FALSE
  OBVIOUS
<1>1. PICK n \in bad : \A k \in bad : <<k, n>> \notin OpToRel(<, Nat)
  BY WFMin, NatLessThanWellFounded, Zenon
<1>2. n \in Nat /\ \A k \in bad : ~(k < n)
  BY <1>1, Zenon DEF OpToRel
<1>3. PICK s \in [1 .. n -> Nat] : \A p : ~Ascending(p, s, n)
  OBVIOUS
<1>4. CASE n = 0
  <2> DEFINE none == [i \in 1 .. 0 |-> i]
  <2>1. Ascending(none, s, 0)
    BY DEF Ascending, Bijection, Injection, IsInjective, Surjection
  <2> QED
    BY <1>3, <1>4, <2>1
<1>5. CASE n # 0
  <2> DEFINE k == n - 1
  <2>1. k \in Nat /\ n = k + 1 /\ k < n
    BY <1>2, <1>5
  <2> HIDE DEF k
  <2>2. PICK m \in 1 .. n : \A i \in 1 .. n : s[m] <= s[i]
    BY <1>2, <1>5, LeastElement
  <2> DEFINE rest == [i \in 1 .. k |-> IF i = m THEN s[k + 1] ELSE s[i]]
  <2>3. rest \in [1 .. k -> Nat]
    BY <2>1
  <2>4. k \notin bad
    BY <1>2, <2>1
  <2>5. PICK q : Ascending(q, rest, k)
    BY <2>1, <2>3, <2>4
  <2>6. \E p : Ascending(p, s, k + 1)
    BY <2>1, <2>2, <2>5, LeastFirst
  <2> QED
    BY <1>3, <2>1, <2>6
<1> QED
  BY <1>4, <1>5

(* What TypeOK says of the samples. *)
LEMMA SamplesAreNumbers ==
    ASSUME TypeOK
    PROVE  LET n == Len(samples) IN n \in 0 .. Size /\ n \in Nat /\ samples \in [1 .. n -> Nat]
<1> DEFINE n == Len(samples)
<1>1. n \in Nat /\ n <= Size /\ Size \in Nat /\ Micros \subseteq Nat
  BY HistogramAssumption DEF TypeOK
<1>2. samples \in [1 .. n -> Micros]
  BY DEF TypeOK
<1> HIDE DEF n
<1>3. n \in 0 .. Size
  BY <1>1
<1>4. samples \in [1 .. n -> Nat]
  BY <1>1, <1>2
<1> QED
  BY <1>1, <1>3, <1>4 DEF n

(* What sorting does: the copy holds the same samples, in ascending order. *)
LEMMA SortedProperties ==
    ASSUME TypeOK
    PROVE  LET n == Len(samples) IN
           \E p : /\ Ascending(p, samples, n)
                  /\ Sorted(samples) = [i \in 1 .. n |-> samples[p[i]]]
<1> DEFINE n == Len(samples)
           Sorts(p) == \A i, j \in 1 .. n : i < j => samples[p[i]] <= samples[p[j]]
           order == CHOOSE p \in Orders[n] : Sorts(p)
<1>1. n \in 0 .. Size /\ n \in Nat /\ samples \in [1 .. n -> Nat]
  BY SamplesAreNumbers
<1>2. Orders[n] = Bijection(1 .. n, 1 .. n)
  BY <1>1 DEF Orders
<1>3. PICK p : Ascending(p, samples, n)
  BY <1>1, CanBeSorted
<1>4. p \in Orders[n] /\ Sorts(p)
  BY <1>2, <1>3 DEF Ascending
<1>5. order \in Orders[n] /\ Sorts(order)
  <2> HIDE DEF n, Sorts
  <2> QED
    BY <1>4
<1>6. Ascending(order, samples, n)
  BY <1>2, <1>5 DEF Ascending
<1>7. Sorted(samples) = [i \in 1 .. n |-> samples[order[i]]]
  BY DEF Sorted
<1> HIDE DEF order
<1> QED
  BY <1>6, <1>7

(* A set that a function draws from some of its arguments has no more      *)
(* elements than there are arguments.                                      *)
LEMMA DrawnFrom ==
    ASSUME NEW D, IsFiniteSet(D), NEW f, NEW T, \A t \in T : \E k \in D : f[k] = t
    PROVE  IsFiniteSet(T) /\ Cardinality(T) <= Cardinality(D)
<1> DEFINE K == {k \in D : f[k] \in T}
           g == [k \in K |-> f[k]]
<1>1. IsFiniteSet(K) /\ Cardinality(K) <= Cardinality(D)
  BY FS_Subset
<1>2. g \in Surjection(K, T)
  BY DEF Surjection
<1>3. IsFiniteSet(T) /\ Cardinality(T) <= Cardinality(K)
  <2> HIDE DEF K, g
  <2> QED
    BY <1>1, <1>2, FS_Surjection
<1>4. /\ Cardinality(T) \in Nat /\ Cardinality(K) \in Nat /\ Cardinality(D) \in Nat
  BY <1>1, <1>3, FS_CardinalityType
<1> QED
  BY <1>1, <1>3, <1>4

LEMMA FirstNumbers == \A n \in Nat : IsFiniteSet(1 .. n) /\ Cardinality(1 .. n) = n
BY FS_Interval

(* The indices of the elements below v, and at or below it. *)
Below(s, n, v) == {i \in 1 .. n : s[i] < v}
UpTo(s, n, v)  == {i \in 1 .. n : s[i] <= v}

(* Fewer than r samples are below the r-th of the ascending order, and at  *)
(* least r are at or below it: whatever is below it comes before it, and   *)
(* whatever is above it after.                                             *)
LEMMA RankOfAscending ==
    ASSUME NEW n \in Nat, NEW s \in [1 .. n -> Nat], NEW p, Ascending(p, s, n),
           NEW r \in 1 .. n, NEW value, value = s[p[r]]
    PROVE  /\ p[r] \in 1 .. n
           /\ Cardinality(Below(s, n, value)) \in Nat
           /\ Cardinality(Below(s, n, value)) <= r - 1
           /\ Cardinality(UpTo(s, n, value)) \in Nat
           /\ Cardinality(UpTo(s, n, value)) >= r
<1> DEFINE all    == 1 .. n
           before == 1 .. r - 1
           after  == r + 1 .. n
           below  == Below(s, n, value)
           upto   == UpTo(s, n, value)
           above  == {i \in all : s[i] > value}
<1>1. /\ \A k \in all : p[k] \in all
      /\ \A j \in all : \E k \in all : p[k] = j
      /\ \A i, j \in all : i < j => s[p[i]] <= s[p[j]]
  BY DEF Ascending, Bijection, Injection, Surjection
<1>2. p[r] \in all /\ value \in Nat /\ r \in Nat
  <2>1. p[r] \in 1 .. n
    BY <1>1
  <2> QED
    BY <2>1
<1>3. ASSUME NEW i \in below PROVE \E k \in before : p[k] = i
  <2>1. PICK k \in all : p[k] = i
    BY <1>1 DEF Below
  <2>2. s[p[k]] < value /\ s[p[k]] \in Nat
    BY <2>1 DEF Below
  <2>3. r < k => value <= s[p[k]]
    BY <1>1
  <2>4. r # k
    BY <1>2, <2>2
  <2>5. k < r
    BY <1>2, <2>2, <2>3, <2>4
  <2> QED
    BY <2>1, <2>5
<1>4. ASSUME NEW i \in above PROVE \E k \in after : p[k] = i
  <2>1. PICK k \in all : p[k] = i
    BY <1>1
  <2>2. s[p[k]] > value /\ s[p[k]] \in Nat
    BY <2>1
  <2>3. k < r => s[p[k]] <= value
    BY <1>1
  <2>4. r # k
    BY <1>2, <2>2
  <2>5. r < k
    BY <1>2, <2>2, <2>3, <2>4
  <2> QED
    BY <2>1, <2>5
<1>5. /\ IsFiniteSet(all) /\ Cardinality(all) = n
      /\ IsFiniteSet(before) /\ Cardinality(before) = r - 1
      /\ IsFiniteSet(after) /\ Cardinality(after) = n - r
  <2>1. IsFiniteSet(all) /\ Cardinality(all) = n
    BY FS_Interval
  <2>2. IsFiniteSet(before) /\ Cardinality(before) = r - 1
    <3> DEFINE k == r - 1
    <3>1. k \in Nat
      OBVIOUS
    <3> HIDE DEF k
    <3>2. IsFiniteSet(1 .. k) /\ Cardinality(1 .. k) = k
      BY <3>1, FirstNumbers
    <3> QED
      BY <3>2 DEF k
  <2>3. IsFiniteSet(after) /\ Cardinality(after) = n - r
    <3>1. r + 1 \in Int
      OBVIOUS
    <3> QED
      BY <3>1, FS_Interval
  <2> QED
    BY <2>1, <2>2, <2>3
<1>6. upto = all \ above /\ above = all \cap above
  <2>1. \A i \in all : s[i] <= value <=> ~(s[i] > value)
    BY <1>2
  <2> QED
    BY <2>1 DEF UpTo
<1> HIDE DEF below, upto, above, before, after, all
<1>7. IsFiniteSet(below) /\ Cardinality(below) <= Cardinality(before)
  BY <1>3, <1>5, DrawnFrom
<1>8. IsFiniteSet(above) /\ Cardinality(above) <= Cardinality(after)
  BY <1>4, <1>5, DrawnFrom
<1>9. IsFiniteSet(upto) /\ Cardinality(upto) = Cardinality(all) - Cardinality(above)
  <2>1. /\ IsFiniteSet(all \ above)
        /\ Cardinality(all \ above) = Cardinality(all) - Cardinality(all \cap above)
    BY <1>5, FS_Difference
  <2>2. all \ above = upto /\ all \cap above = above
    BY <1>6
  <2> QED
    BY <2>1, <2>2
<1>10. Cardinality(below) \in Nat /\ Cardinality(above) \in Nat /\ Cardinality(upto) \in Nat
  BY <1>7, <1>8, <1>9, FS_CardinalityType
<1>11. Cardinality(below) <= r - 1 /\ Cardinality(upto) >= r
  BY <1>2, <1>5, <1>7, <1>8, <1>9, <1>10
<1> QED
  BY <1>2, <1>10, <1>11 DEF all, below, upto

(* The index of percentile: at most p percent of the length, and so the    *)
(* place after it more than p percent, unless p is 100.                    *)
LEMMA RankIndex ==
    ASSUME NEW n \in Nat \ {0}, NEW p \in 0 .. 100
    PROVE  LET idx == (p * n) \div 100
               r == (IF idx < n - 1 THEN idx ELSE n - 1) + 1
           IN  /\ r \in 1 .. n
               /\ 100 * (r - 1) <= p * n
               /\ p < 100 => 100 * r > p * n
<1> DEFINE product == p * n
           idx == product \div 100
<1>1. product \in Nat /\ (p < 100 => product < 100 * n)
  <2>1. product \in Nat
    OBVIOUS
  <2>2. ASSUME p < 100 PROVE product < 100 * n
    <3>1. 100 * n = product + (100 - p) * n
      OBVIOUS
    <3>2. 100 - p \in Nat \ {0}
      BY <2>2
    <3>3. (100 - p) * n > 0
      BY <3>2
    <3> QED
      BY <2>1, <3>1, <3>3
  <2> QED
    BY <2>1, <2>2
<1> HIDE DEF product
<1>2. idx \in Nat /\ 100 * idx <= product /\ product < 100 * (idx + 1)
  BY <1>1
<1> HIDE DEF idx
<1>3. p < 100 => idx <= n - 1
  BY <1>1, <1>2
<1> QED
  BY <1>1, <1>2, <1>3 DEF idx, product

(* For every size of the histogram and any durations: a percentile of a    *)
(* snapshot is a recorded sample, at most p percent of the samples are     *)
(* below it and, for p under 100, more than p percent at or below.         *)
THEOREM PercentilesAreRanks == Spec => []PercentileIsRank
<1>1. TypeOK => PercentileIsRank
  <2> SUFFICES ASSUME TypeOK, samples # <<>>, NEW p \in Percentiles
               PROVE  LET n == Len(samples)
                          value == Percentile(p)
                          below == {i \in 1 .. n : samples[i] < value}
                          upto  == {i \in 1 .. n : samples[i] <= value}
                      IN  /\ \E i \in 1 .. n : samples[i] = value
                          /\ 100 * Cardinality(below) <= p * n
                          /\ p < 100 => 100 * Cardinality(upto) > p * n
    BY DEF PercentileIsRank
  <2> DEFINE n == Len(samples)
             idx == (p * n) \div 100
             r == (IF idx < n - 1 THEN idx ELSE n - 1) + 1
             value == Percentile(p)
             below == {i \in 1 .. n : samples[i] < value}
             upto  == {i \in 1 .. n : samples[i] <= value}
  <2>1. n \in Nat \ {0} /\ samples \in [1 .. n -> Nat] /\ p \in 0 .. 100
    BY HistogramAssumption, SamplesAreNumbers DEF TypeOK
  <2>2. /\ r \in 1 .. n
        /\ 100 * (r - 1) <= p * n
        /\ p < 100 => 100 * r > p * n
    BY <2>1, RankIndex
  <2>3. PICK order : /\ Ascending(order, samples, n)
                     /\ Sorted(samples) = [i \in 1 .. n |-> samples[order[i]]]
    BY SortedProperties
  <2>4. value = samples[order[r]]
    <3>1. Len(Sorted(samples)) = n
      BY <2>1, <2>3
    <3>2. value = Sorted(samples)[r]
      BY <3>1 DEF Percentile
    <3> HIDE DEF n, r
    <3> QED
      BY <2>2, <2>3, <3>2
  <2> HIDE DEF n, r, value
  <2>5. /\ order[r] \in 1 .. n
        /\ Cardinality(below) \in Nat /\ Cardinality(below) <= r - 1
        /\ Cardinality(upto) \in Nat /\ Cardinality(upto) >= r
    <3>1. n \in Nat /\ samples \in [1 .. n -> Nat] /\ r \in 1 .. n
      BY <2>1, <2>2
    <3>2. Ascending(order, samples, n)
      BY <2>3
    <3>3. below = Below(samples, n, value) /\ upto = UpTo(samples, n, value)
      BY DEF Below, UpTo
    <3> HIDE DEF below, upto
    <3> QED
      BY <3>1, <3>2, <3>3, <2>4, RankOfAscending
  <2>6. p * n \in Nat /\ r \in Nat
    BY <2>1, <2>2
  <2> HIDE DEF below, upto
  <2>7. 100 * Cardinality(below) <= p * n
    <3> DEFINE product == p * n
    <3>1. product \in Nat /\ 100 * (r - 1) <= product
      BY <2>2, <2>6
    <3> HIDE DEF product
    <3>2. 100 * Cardinality(below) <= product
      BY <2>5, <2>6, <3>1
    <3> QED
      BY <3>2 DEF product
  <2>8. p < 100 => 100 * Cardinality(upto) > p * n
    <3> DEFINE product == p * n
    <3>1. product \in Nat /\ (p < 100 => 100 * r > product)
      BY <2>2, <2>6
    <3> HIDE DEF product
    <3>2. p < 100 => 100 * Cardinality(upto) > product
      BY <2>5, <2>6, <3>1
    <3> QED
      BY <3>2 DEF product
  <2> QED
    BY <2>4, <2>5, <2>7, <2>8 DEF n, below, upto, value
<1> QED
  BY <1>1, TypeCorrect, PTL
=============================================================================
