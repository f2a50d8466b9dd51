----------------------------- MODULE QueueFacts -----------------------------
(***************************************************************************)
(* Facts about first-in first-out queues represented as sequences, used by *)
(* the proofs about the intrusive linked lists of the runtime.             *)
(***************************************************************************)
EXTENDS Integers, SequenceTheorems, WellFoundedInduction, TLAPS

\* Enqueuing at the tail adds one element, and keeps a queue free of
\* duplicates when that element is new.
LEMMA Enqueue ==
    ASSUME NEW S, NEW q \in Seq(S), NEW x \in S
    PROVE  /\ Append(q, x) \in Seq(S)
           /\ Range(Append(q, x)) = Range(q) \cup {x}
           /\ (IsInjective(q) /\ x \notin Range(q)) => IsInjective(Append(q, x))
<1>1. /\ Append(q, x) \in Seq(S)
      /\ DOMAIN Append(q, x) = 1..(Len(q) + 1)
      /\ DOMAIN q = 1..Len(q)
      /\ Len(q) \in Nat
      /\ \A n \in 1..Len(q) : Append(q, x)[n] = q[n]
      /\ Append(q, x)[Len(q) + 1] = x
  OBVIOUS
<1>2. Range(Append(q, x)) = Range(q) \cup {x}
  <2>1. ASSUME NEW n \in 1..(Len(q) + 1)
        PROVE  Append(q, x)[n] \in Range(q) \cup {x}
    <3>1. n \in 1..Len(q) \/ n = Len(q) + 1
      BY <1>1
    <3>2. QED
      BY <1>1, <3>1 DEF Range
  <2>2. ASSUME NEW n \in 1..Len(q)
        PROVE  q[n] \in Range(Append(q, x))
    <3>1. n \in 1..(Len(q) + 1)
      BY <1>1
    <3>2. QED
      BY <1>1, <3>1 DEF Range
  <2>3. x \in Range(Append(q, x))
    <3>1. Len(q) + 1 \in 1..(Len(q) + 1)
      BY <1>1
    <3>2. QED
      BY <1>1, <3>1 DEF Range
  <2>4. QED
    BY <1>1, <2>1, <2>2, <2>3 DEF Range
<1>3. ASSUME IsInjective(q), x \notin Range(q)
      PROVE  IsInjective(Append(q, x))
  <2>1. SUFFICES ASSUME NEW m \in 1..(Len(q) + 1), NEW n \in 1..(Len(q) + 1),
                        Append(q, x)[m] = Append(q, x)[n]
                 PROVE  m = n
    BY <1>1 DEF IsInjective
  <2>2. \A k \in 1..Len(q) : Append(q, x)[k] # x
    BY <1>1, <1>3 DEF Range
  <2>3. CASE m \in 1..Len(q) /\ n \in 1..Len(q)
    BY <1>1, <1>3, <2>1, <2>3 DEF IsInjective
  <2>4. CASE m = Len(q) + 1 \/ n = Len(q) + 1
    BY <1>1, <2>1, <2>2, <2>4
  <2>5. QED
    BY <1>1, <2>3, <2>4
<1>4. QED
  BY <1>1, <1>2, <1>3

\* Dequeuing removes the head, and nothing else when there are no duplicates.
LEMMA Dequeue ==
    ASSUME NEW S, NEW q \in Seq(S), q # <<>>, IsInjective(q)
    PROVE  /\ Head(q) \in S
           /\ Head(q) \in Range(q)
           /\ Tail(q) \in Seq(S)
           /\ Range(Tail(q)) = Range(q) \ {Head(q)}
           /\ IsInjective(Tail(q))
<1>1. Len(q) \in Nat \ {0} /\ DOMAIN q = 1..Len(q) /\ Head(q) = q[1]
  OBVIOUS
<1>2. /\ Head(q) \in S
      /\ Tail(q) \in Seq(S)
      /\ DOMAIN Tail(q) = 1..(Len(q) - 1)
      /\ \A n \in 1..(Len(q) - 1) : Tail(q)[n] = q[n + 1]
  BY <1>1
<1>3. Head(q) \in Range(q)
  <2>1. 1 \in 1..Len(q)
    BY <1>1
  <2>2. QED
    BY <1>1, <2>1 DEF Range
<1>4. ASSUME NEW n \in 1..(Len(q) - 1)
      PROVE  Tail(q)[n] \in Range(q) \ {Head(q)}
  <2>1. n + 1 \in 1..Len(q) /\ 1 \in 1..Len(q) /\ n + 1 # 1
    BY <1>1
  <2>2. QED
    BY <1>1, <1>2, <2>1 DEF Range, IsInjective
<1>5. ASSUME NEW n \in 1..Len(q), q[n] # Head(q)
      PROVE  q[n] \in Range(Tail(q))
  <2>1. n - 1 \in 1..(Len(q) - 1) /\ (n - 1) + 1 = n
    BY <1>1, <1>5
  <2>2. Tail(q)[n - 1] = q[n]
    BY <1>2, <2>1
  <2>3. QED
    BY <1>2, <2>1, <2>2 DEF Range
<1>6. IsInjective(Tail(q))
  <2>1. SUFFICES ASSUME NEW m \in 1..(Len(q) - 1), NEW n \in 1..(Len(q) - 1),
                        Tail(q)[m] = Tail(q)[n]
                 PROVE  m = n
    BY <1>2 DEF IsInjective
  <2>2. m + 1 \in 1..Len(q) /\ n + 1 \in 1..Len(q)
    BY <1>1
  <2>3. m + 1 = n + 1
    BY <1>1, <1>2, <2>1, <2>2 DEF IsInjective
  <2>4. QED
    BY <2>3
<1>7. Range(Tail(q)) = Range(q) \ {Head(q)}
  BY <1>1, <1>2, <1>4, <1>5 DEF Range
<1>8. QED
  BY <1>2, <1>3, <1>6, <1>7

\* The empty queue.
LEMMA EmptyQueue ==
    ASSUME NEW S
    PROVE  <<>> \in Seq(S) /\ Range(<<>>) = {} /\ IsInjective(<<>>)
  BY DEF Range, IsInjective

\* Taking the head of a queue (a list's first node) moves the others up by one.
LEMMA TakeHead ==
    ASSUME NEW S, NEW q \in Seq(S), q # <<>>
    PROVE  /\ Len(q) \in Nat \ {0} /\ Head(q) = q[1] /\ Head(q) \in S
           /\ Tail(q) \in Seq(S) /\ Len(Tail(q)) = Len(q) - 1
           /\ \A i \in 1..(Len(q) - 1) : Tail(q)[i] = q[i + 1]
<1>1. Len(q) \in Nat \ {0} /\ Head(q) = q[1]
  OBVIOUS
<1>2. /\ Head(q) \in S /\ Tail(q) \in Seq(S) /\ Len(Tail(q)) = Len(q) - 1
      /\ \A i \in 1..Len(Tail(q)) : Tail(q)[i] = q[i + 1]
  BY HeadTailProperties
<1>3. QED
  BY <1>1, <1>2

\* A sequence whose element i is i is the list of the numbers up to its length.
LEMMA Counting ==
    ASSUME NEW N \in Nat, NEW q \in Seq(1..N), \A i \in 1..Len(q) : q[i] = i
    PROVE  q = [i \in 1..Len(q) |-> i]
<1>1. q \in [1..Len(q) -> 1..N]
  BY LenProperties
<1>2. QED
  BY <1>1

\* Two runs of consecutive numbers, the second where the first ends, are one run.
LEMMA CountingOn ==
    ASSUME NEW N \in Nat, NEW k \in Nat, NEW s \in Seq(1..N), NEW t \in Seq(1..N),
           \A i \in 1..Len(s) : s[i] = k + i,
           \A i \in 1..Len(t) : t[i] = k + Len(s) + i
    PROVE  /\ s \o t \in Seq(1..N) /\ Len(s \o t) = Len(s) + Len(t)
           /\ \A i \in 1..Len(s \o t) : (s \o t)[i] = k + i
<1>1. PICK u : u = s \o t
  OBVIOUS
<1>2. Len(s) \in Nat /\ Len(t) \in Nat
  OBVIOUS
<1>3. /\ u \in Seq(1..N) /\ Len(u) = Len(s) + Len(t)
      /\ \A i \in 1..(Len(s) + Len(t)) : u[i] = IF i <= Len(s) THEN s[i] ELSE t[i - Len(s)]
  BY <1>1, ConcatProperties
<1>4. ASSUME NEW i \in 1..Len(u) PROVE u[i] = k + i
  <2>1. i \in 1..(Len(s) + Len(t)) /\ u[i] = IF i <= Len(s) THEN s[i] ELSE t[i - Len(s)]
    BY <1>3, <1>4
  <2>2. CASE i <= Len(s)
    <3>1. i \in 1..Len(s)
      BY <1>2, <2>1, <2>2
    <3>2. QED
      BY <2>1, <2>2, <3>1
  <2>3. CASE ~(i <= Len(s))
    <3>1. PICK j : j = i - Len(s)
      OBVIOUS
    <3>2. j \in 1..Len(t) /\ u[i] = t[j]
      BY <1>2, <2>1, <2>3, <3>1
    <3>3. u[i] = k + Len(s) + j
      BY <3>2
    <3>4. k + Len(s) + j = k + i
      BY <1>2, <2>1, <3>1
    <3>5. QED
      BY <3>3, <3>4
  <2>4. QED
    BY <2>2, <2>3
<1>5. QED
  BY <1>1, <1>3, <1>4

\* Linking a node t in behind the first k nodes of a list.
Linked(s, k, t) == SubSeq(s, 1, k) \o <<t>> \o SubSeq(s, k + 1, Len(s))
LEMMA LinkedIn ==
    ASSUME NEW S, NEW s \in Seq(S), NEW t \in S, NEW k \in 0..Len(s)
    PROVE  /\ Linked(s, k, t) \in Seq(S)
           /\ Len(Linked(s, k, t)) = Len(s) + 1
           /\ \A i \in 1..(Len(s) + 1) :
                 /\ i <= k => Linked(s, k, t)[i] = s[i]
                 /\ i = k + 1 => Linked(s, k, t)[i] = t
                 /\ i > k + 1 => Linked(s, k, t)[i] = s[i - 1]
<1>1. PICK a : a = SubSeq(s, 1, k)
  OBVIOUS
<1>2. PICK c : c = SubSeq(s, k + 1, Len(s))
  OBVIOUS
<1>3. PICK b : b = <<t>>
  OBVIOUS
<1>l. Len(s) \in Nat /\ k \in Nat /\ k <= Len(s)
  OBVIOUS
<1>4. a \in Seq(S) /\ Len(a) = k /\ \A i \in 1..k : a[i] = s[i]
  BY <1>1, <1>l
<1>5. c \in Seq(S) /\ Len(c) = Len(s) - k /\ \A i \in 1..(Len(s) - k) : c[i] = s[k + i]
  BY <1>2, <1>l
<1>6. b \in Seq(S) /\ Len(b) = 1 /\ b[1] = t
  BY <1>3
<1>7. PICK d : d = a \o b
  OBVIOUS
<1>8. /\ d \in Seq(S) /\ Len(d) = k + 1
      /\ \A i \in 1..(k + 1) : d[i] = IF i <= k THEN a[i] ELSE b[i - k]
  <2>1. a \in Seq(S) /\ b \in Seq(S)
    BY <1>4, <1>6
  <2>2. /\ d \in Seq(S) /\ Len(d) = Len(a) + Len(b)
        /\ \A i \in 1..(Len(a) + Len(b)) : d[i] = IF i <= Len(a) THEN a[i] ELSE b[i - Len(a)]
    BY <1>7, <2>1, ConcatProperties
  <2>3. QED
    BY <1>4, <1>6, <2>2
<1>9. PICK r : r = d \o c
  OBVIOUS
<1>10. /\ r \in Seq(S) /\ Len(r) = (k + 1) + (Len(s) - k)
       /\ \A i \in 1..((k + 1) + (Len(s) - k)) : r[i] = IF i <= k + 1 THEN d[i] ELSE c[i - (k + 1)]
  <2>1. d \in Seq(S) /\ c \in Seq(S)
    BY <1>5, <1>8
  <2>2. /\ r \in Seq(S) /\ Len(r) = Len(d) + Len(c)
        /\ \A i \in 1..(Len(d) + Len(c)) : r[i] = IF i <= Len(d) THEN d[i] ELSE c[i - Len(d)]
    BY <1>9, <2>1, ConcatProperties
  <2>3. QED
    BY <1>5, <1>8, <2>2
<1>11. Len(r) = Len(s) + 1
  BY <1>l, <1>10
<1>12. ASSUME NEW i \in 1..(Len(s) + 1)
       PROVE  r[i] = IF i <= k THEN s[i] ELSE IF i = k + 1 THEN t ELSE s[i - 1]
  <2>1. r[i] = IF i <= k + 1 THEN d[i] ELSE c[i - (k + 1)]
    BY <1>l, <1>10
  <2>2. CASE i <= k
    <3>1. r[i] = d[i] /\ d[i] = a[i] /\ a[i] = s[i]
      BY <1>l, <1>4, <1>8, <2>1, <2>2
    <3>2. QED
      BY <2>2, <3>1
  <2>3. CASE i = k + 1
    <3>1. r[i] = d[k + 1] /\ d[k + 1] = b[1]
      BY <1>l, <1>8, <2>1, <2>3
    <3>2. QED
      BY <1>l, <1>6, <2>3, <3>1
  <2>4. CASE i > k + 1
    <3>1. PICK j : j = i - (k + 1)
      OBVIOUS
    <3>2. j \in 1..(Len(s) - k) /\ r[i] = c[j] /\ k + j = i - 1
      BY <1>l, <2>1, <2>4, <3>1
    <3>3. r[i] = s[i - 1]
      BY <1>5, <3>2
    <3>4. QED
      BY <1>l, <2>4, <3>3
  <2>5. QED
    BY <1>l, <2>2, <2>3, <2>4
<1>13. r = Linked(s, k, t)
  BY <1>1, <1>2, <1>3, <1>7, <1>9 DEF Linked
<1>14. Linked(s, k, t) \in Seq(S)
  BY <1>10, <1>13
<1>15. \A i \in 1..(Len(s) + 1) :
          /\ i <= k => r[i] = s[i]
          /\ i = k + 1 => r[i] = t
          /\ i > k + 1 => r[i] = s[i - 1]
  BY <1>l, <1>12
<1>16. QED
  BY <1>11, <1>13, <1>14, <1>15

\* Unlinking the n-th node of a list.
Without(s, n) == SubSeq(s, 1, n - 1) \o SubSeq(s, n + 1, Len(s))
LEMMA Unlinked ==
    ASSUME NEW S, NEW s \in Seq(S), NEW n \in 1..Len(s)
    PROVE  /\ Without(s, n) \in Seq(S)
           /\ Len(Without(s, n)) = Len(s) - 1
           /\ \A i \in 1..(Len(s) - 1) :
                 /\ i < n => Without(s, n)[i] = s[i]
                 /\ i >= n => Without(s, n)[i] = s[i + 1]
<1>1. PICK a : a = SubSeq(s, 1, n - 1)
  OBVIOUS
<1>2. PICK c : c = SubSeq(s, n + 1, Len(s))
  OBVIOUS
<1>l. Len(s) \in Nat /\ n \in Nat \ {0} /\ n <= Len(s)
  OBVIOUS
<1>4. a \in Seq(S) /\ Len(a) = n - 1 /\ \A i \in 1..(n - 1) : a[i] = s[i]
  BY <1>1, <1>l
<1>5. c \in Seq(S) /\ Len(c) = Len(s) - n /\ \A i \in 1..(Len(s) - n) : c[i] = s[n + i]
  BY <1>2, <1>l
<1>6. PICK r : r = a \o c
  OBVIOUS
<1>7. /\ r \in Seq(S) /\ Len(r) = (n - 1) + (Len(s) - n)
      /\ \A i \in 1..((n - 1) + (Len(s) - n)) : r[i] = IF i <= n - 1 THEN a[i] ELSE c[i - (n - 1)]
  <2>1. a \in Seq(S) /\ c \in Seq(S)
    BY <1>4, <1>5
  <2>2. /\ r \in Seq(S) /\ Len(r) = Len(a) + Len(c)
        /\ \A i \in 1..(Len(a) + Len(c)) : r[i] = IF i <= Len(a) THEN a[i] ELSE c[i - Len(a)]
    BY <1>6, <2>1, ConcatProperties
  <2>3. QED
    BY <1>4, <1>5, <2>2
<1>8. Len(r) = Len(s) - 1
  BY <1>l, <1>7
<1>9. ASSUME NEW i \in 1..(Len(s) - 1) PROVE r[i] = IF i < n THEN s[i] ELSE s[i + 1]
  <2>1. r[i] = IF i <= n - 1 THEN a[i] ELSE c[i - (n - 1)]
    BY <1>l, <1>7
  <2>2. CASE i < n
    <3>1. r[i] = a[i] /\ a[i] = s[i]
      BY <1>l, <1>4, <2>1, <2>2
    <3>2. QED
      BY <2>2, <3>1
  <2>3. CASE i >= n
    <3>1. PICK j : j = i - (n - 1)
      OBVIOUS
    <3>2. j \in 1..(Len(s) - n) /\ r[i] = c[j] /\ n + j = i + 1
      BY <1>l, <2>1, <2>3, <3>1
    <3>3. r[i] = s[i + 1]
      BY <1>5, <3>2
    <3>4. QED
      BY <1>l, <2>3, <3>3
  <2>4. QED
    BY <1>l, <2>2, <2>3
<1>10. r = Without(s, n)
  BY <1>1, <1>2, <1>6 DEF Without
<1>11. Without(s, n) \in Seq(S)
  BY <1>7, <1>10
<1>12. \A i \in 1..(Len(s) - 1) : (i < n => r[i] = s[i]) /\ (i >= n => r[i] = s[i + 1])
  BY <1>l, <1>9
<1>13. QED
  BY <1>8, <1>10, <1>11, <1>12

\* A nonempty set of numbers up to N has a largest one.
LEMMA Largest ==
    ASSUME NEW N \in Nat, NEW S \in SUBSET (0..N), S # {}
    PROVE  \E n \in S : \A m \in S : m <= n
<1> DEFINE R == {p \in Nat \X Nat : p[1] < p[2]}
           T == {m \in Nat : \E n \in S : m = N - n}
<1>1. IsWellFoundedOn(R, Nat)
  BY NatLessThanWellFounded, Zenon DEF OpToRel
<1>2. T \subseteq Nat /\ T # {}
  <2>1. PICK n \in S : TRUE
    OBVIOUS
  <2>2. N - n \in T
    BY <2>1
  <2>3. QED
    BY <2>2
<1>3. PICK x \in T : \A y \in T : ~(<<y, x>> \in R)
  BY <1>1, <1>2, WFMin, Zenon
<1>4. PICK n \in S : x = N - n
  BY <1>3
<1>5. ASSUME NEW m \in S PROVE m <= n
  <2>1. N - m \in T /\ x \in Nat
    BY <1>3
  <2>2. ASSUME N - m < x PROVE <<N - m, x>> \in R
    BY <2>1, <2>2
  <2>3. ~(N - m < x)
    BY <1>3, <2>1, <2>2, Zenon
  <2>4. QED
    BY <1>4, <2>1, <2>3
<1>6. QED
  BY <1>5

\* A nonempty set of numbers up to N has a smallest one.
LEMMA Smallest ==
    ASSUME NEW N \in Nat, NEW S \in SUBSET (0..N), S # {}
    PROVE  \E n \in S : \A m \in S : n <= m
<1> DEFINE R == {p \in Nat \X Nat : p[1] < p[2]}
<1>1. IsWellFoundedOn(R, Nat)
  BY NatLessThanWellFounded, Zenon DEF OpToRel
<1>2. S \subseteq Nat
  OBVIOUS
<1>3. PICK n \in S : \A m \in S : ~(<<m, n>> \in R)
  BY <1>1, <1>2, WFMin, Zenon
<1>4. ASSUME NEW m \in S PROVE n <= m
  <2>1. m \in Nat /\ n \in Nat
    BY <1>2
  <2>2. ASSUME m < n PROVE <<m, n>> \in R
    BY <2>1, <2>2
  <2>3. ~(m < n)
    BY <1>3, <2>2, Zenon
  <2>4. QED
    BY <2>1, <2>3
<1>5. QED
  BY <1>4
-----------------------------------------------------------------------------
(* Runs of numbered bytes *)

\* A run of consecutive bytes of the first N, behind the first k ones.
Behind(N, s, k) == s \in Seq(1..N) /\ \A i \in 1..Len(s) : s[i] = k + i

\* A byte written behind a run is its next one.
LEMMA WrittenBehind ==
    ASSUME NEW N \in Nat, NEW s, NEW k \in Nat, Behind(N, s, k), NEW b \in 1..N, b = k + Len(s) + 1
    PROVE  Behind(N, Append(s, b), k) /\ Len(Append(s, b)) = Len(s) + 1
<1>1. s \in Seq(1..N) /\ Len(s) \in Nat
    BY DEF Behind
<1>2. PICK u : u = Append(s, b)
    OBVIOUS
<1>3. /\ u \in Seq(1..N) /\ Len(u) = Len(s) + 1 /\ u[Len(s) + 1] = b
      /\ \A i \in 1..Len(s) : u[i] = s[i]
    BY <1>1, <1>2
<1>4. ASSUME NEW i \in 1..Len(u) PROVE u[i] = k + i
  <2>1. CASE i = Len(s) + 1
    BY <1>1, <1>3, <2>1
  <2>2. CASE i # Len(s) + 1
    <3>1. i \in 1..Len(s)
        BY <1>1, <1>3, <2>2
    <3> QED
        BY <1>3, <3>1 DEF Behind
  <2> QED
    BY <2>1, <2>2
<1> QED
    BY <1>2, <1>3, <1>4 DEF Behind

\* The first n bytes of a run, and the others behind them.
LEMMA SplitRun ==
    ASSUME NEW N \in Nat, NEW s, NEW k \in Nat, Behind(N, s, k), NEW n \in 0..Len(s)
    PROVE  /\ Behind(N, SubSeq(s, 1, n), k) /\ Len(SubSeq(s, 1, n)) = n
           /\ Behind(N, SubSeq(s, n + 1, Len(s)), k + n)
           /\ Len(SubSeq(s, n + 1, Len(s))) = Len(s) - n
<1>1. s \in Seq(1..N) /\ Len(s) \in Nat /\ n \in Nat /\ n <= Len(s)
    BY DEF Behind
<1>2. PICK m : m = Len(s)
    OBVIOUS
<1>3. PICK u : u = SubSeq(s, 1, n)
    OBVIOUS
<1>4. PICK v : v = SubSeq(s, n + 1, m)
    OBVIOUS
<1>5. /\ u \in Seq(1..N) /\ Len(u) = n /\ \A i \in 1..n : u[i] = s[i]
  <2>1. ASSUME NEW i \in 1..n PROVE s[i] \in 1..N
    <3>1. i \in 1..Len(s)
        BY <1>1
    <3> QED
        BY <1>1, <3>1, ElementOfSeq
  <2>2. /\ u \in Seq(1..N) /\ Len(u) = IF 1 <= n THEN n - 1 + 1 ELSE 0
    BY <1>1, <1>3, <2>1, SubSeqProperties
  <2>3. \A i \in 1..(n - 1 + 1) : u[i] = s[1 + i - 1]
    BY <1>1, <1>3, <2>1, SubSeqProperties
  <2> QED
    BY <1>1, <2>2, <2>3
<1>6. /\ v \in Seq(1..N) /\ Len(v) = m - n /\ \A i \in 1..(m - n) : v[i] = s[n + i]
  <2>0. PICK a \in Nat : a = n + 1
    BY <1>1
  <2>1. ASSUME NEW i \in a..m PROVE s[i] \in 1..N
    <3>1. i \in 1..Len(s)
        BY <1>1, <1>2, <2>0
    <3> QED
        BY <1>1, <3>1, ElementOfSeq
  <2>2. /\ v \in Seq(1..N) /\ Len(v) = IF a <= m THEN m - a + 1 ELSE 0
    BY <1>1, <1>2, <1>4, <2>0, <2>1, SubSeqProperties
  <2>3. \A i \in 1..(m - a + 1) : v[i] = s[a + i - 1]
    BY <1>1, <1>2, <1>4, <2>0, <2>1, SubSeqProperties
  <2>4. Len(v) = m - n
    BY <1>1, <1>2, <2>0, <2>2
  <2>5. ASSUME NEW i \in 1..(m - n) PROVE v[i] = s[n + i]
    <3>1. i \in 1..(m - a + 1) /\ a + i - 1 = n + i
        BY <1>1, <1>2, <2>0
    <3> QED
        BY <2>3, <3>1
  <2> QED
    BY <2>2, <2>4, <2>5
<1>7. Behind(N, u, k)
  <2>1. ASSUME NEW i \in 1..n PROVE u[i] = k + i
    <3>1. i \in 1..Len(s)
        BY <1>1
    <3> QED
        BY <1>5, <3>1 DEF Behind
  <2> QED
    BY <1>5, <2>1 DEF Behind
<1>8. Behind(N, v, k + n)
  <2>1. ASSUME NEW i \in 1..(m - n) PROVE v[i] = (k + n) + i
    <3>1. n + i \in 1..Len(s)
        BY <1>1, <1>2
    <3>2. s[n + i] = k + (n + i)
        BY <3>1 DEF Behind
    <3> QED
        BY <1>1, <1>6, <3>2
  <2> QED
    BY <1>6, <2>1 DEF Behind
<1> QED
    BY <1>2, <1>3, <1>4, <1>5, <1>6, <1>7, <1>8

\* Taking the first byte of a run.
LEMMA FirstOfRun ==
    ASSUME NEW N \in Nat, NEW s, NEW k \in Nat, Behind(N, s, k), Len(s) > 0
    PROVE  /\ Head(s) = k + 1 /\ Head(s) \in 1..N
           /\ Behind(N, Tail(s), k + 1) /\ Len(Tail(s)) = Len(s) - 1
<1>1. s \in Seq(1..N) /\ Len(s) \in Nat /\ s # <<>>
    BY EmptySeq DEF Behind
<1>2. PICK u : u = Tail(s)
    OBVIOUS
<1>3. /\ Head(s) = s[1] /\ Head(s) \in 1..N /\ u \in Seq(1..N) /\ Len(u) = Len(s) - 1
    BY <1>1, <1>2, TakeHead
<1>4. \A i \in 1..(Len(s) - 1) : u[i] = s[i + 1]
    BY <1>1, <1>2, TakeHead
<1>5. s[1] = k + 1
  <2>1. 1 \in 1..Len(s)
    BY <1>1
  <2> QED
    BY <2>1 DEF Behind
<1>6. ASSUME NEW i \in 1..Len(u) PROVE u[i] = (k + 1) + i
  <2>1. i \in 1..(Len(s) - 1) /\ i + 1 \in 1..Len(s)
    BY <1>1, <1>3
  <2>2. s[i + 1] = k + (i + 1)
    BY <2>1 DEF Behind
  <2> QED
    BY <1>4, <2>1, <2>2
<1> QED
    BY <1>2, <1>3, <1>5, <1>6 DEF Behind

\* Two runs that follow each other are one.
LEMMA JoinRuns ==
    ASSUME NEW N \in Nat, NEW s, NEW t, NEW k \in Nat, Behind(N, s, k), Behind(N, t, k + Len(s))
    PROVE  Behind(N, s \o t, k) /\ Len(s \o t) = Len(s) + Len(t)
<1>1. s \in Seq(1..N) /\ t \in Seq(1..N)
    BY DEF Behind
<1>2. /\ \A i \in 1..Len(s) : s[i] = k + i
      /\ \A i \in 1..Len(t) : t[i] = k + Len(s) + i
    BY DEF Behind
<1>3. s \o t \in Seq(1..N) /\ Len(s \o t) = Len(s) + Len(t)
    BY <1>1, <1>2, CountingOn
<1>4. \A i \in 1..Len(s \o t) : (s \o t)[i] = k + i
    BY <1>1, <1>2, CountingOn
<1> QED
    BY <1>3, <1>4 DEF Behind

=============================================================================
