--------------------------- MODULE CallbackProofs ---------------------------
(***************************************************************************)
(* Proofs about when JavaScript is called back.  The task queues: the      *)
(* drains at the end of a turn empty them whatever the tasks enqueue, no   *)
(* task starts inside other JS code, and the nextTick callbacks of a sync  *)
(* turn come first.  http_module.c: every request is called back at most   *)
(* once, exactly when the promise of fetch() is settled.  dgram_module.c:  *)
(* every datagram is delivered at most once and never after the close of   *)
(* its socket.                                                             *)
(***************************************************************************)
EXTENDS Turns, Transport, QueueFacts, FiniteSetTheorems, TLAPS

-----------------------------------------------------------------------------
(* Task queues *)

\* The activations that run code, and the ones that come to microtasks before
\* they look at the nextTick queue again.
Code == {"script", "js", "native", "after"}
Later == {"micro", "loopMicro", "thenMicro"}

\* Above code on the C stack there is only code that it called: sync functions.
JsNests(s) ==
    \A m, n \in 1..Len(s) : m < n /\ s[m] \in Code => s[n] = "js" /\ s[m] # "after"

\* No code is in progress.
Quiet(s) == \A n \in 1..Len(s) : s[n] \notin Code

\* A sync function that C called: vm_call_function drains when it returns.
Outermost(s, n) == s[n] = "js" /\ \A m \in 1..(n - 1) : s[m] \notin Code

\* The loop at the end of vm_call_function is in progress, or is still to come.
Covered(s) ==
    \E n \in 1..Len(s) : s[n] \in {"loopTick", "loopMicro"} \/ Outermost(s, n)

\* The nextTick queue is drained before any microtask starts.
Guarded(s) ==
    \E n \in 1..Len(s) :
        /\ s[n] \in {"tick", "loopTick"} \/ Outermost(s, n)
        /\ \A m \in (n + 1)..Len(s) : s[m] \notin Later

-----------------------------------------------------------------------------
(* The C stack *)

\* A call puts an activation on the C stack and leaves the others alone.
LEMMA Pushed ==
    ASSUME NEW s \in Seq(Tasks!Activations), NEW a \in Tasks!Activations
    PROVE  /\ Append(s, a) \in Seq(Tasks!Activations)
           /\ Covered(s) => Covered(Append(s, a))
           /\ a \in {"loopTick", "loopMicro"} => Covered(Append(s, a))
           /\ Guarded(s) /\ a \notin Later => Guarded(Append(s, a))
           /\ a \in {"tick", "loopTick"} => Guarded(Append(s, a))
           /\ Quiet(s) => JsNests(Append(s, a))
           /\ Quiet(s) /\ a \notin Code => Quiet(Append(s, a))
           /\ JsNests(s) /\ s # <<>> /\ s[Len(s)] # "after" /\ a = "js" => JsNests(Append(s, a))
<1>1. PICK u : u = Append(s, a)
  OBVIOUS
<1>2. /\ u \in Seq(Tasks!Activations) /\ Len(s) \in Nat /\ Len(u) = Len(s) + 1
      /\ u[Len(s) + 1] = a /\ \A i \in 1..Len(s) : u[i] = s[i]
  BY <1>1
<1>3. \A i \in 1..Len(u) : i \in 1..Len(s) \/ i = Len(s) + 1
  BY <1>2
<1>4. \A i \in 1..Len(s) : i \in 1..Len(u)
  BY <1>2
<1>5. ASSUME NEW n \in 1..Len(s), Outermost(s, n) PROVE Outermost(u, n)
  BY <1>2, <1>5 DEF Outermost
<1>6. Covered(s) => Covered(u)
  BY <1>2, <1>4, <1>5 DEF Covered
<1>7. Len(u) \in 1..Len(u) /\ u[Len(u)] = a
  BY <1>2
<1>8. a \in {"loopTick", "loopMicro"} => Covered(u)
  BY <1>7 DEF Covered
<1>9. ASSUME Guarded(s), a \notin Later PROVE Guarded(u)
  <2>1. PICK n \in 1..Len(s) :
          /\ s[n] \in {"tick", "loopTick"} \/ Outermost(s, n)
          /\ \A m \in (n + 1)..Len(s) : s[m] \notin Later
    BY <1>9 DEF Guarded
  <2>2. n \in 1..Len(u) /\ (u[n] \in {"tick", "loopTick"} \/ Outermost(u, n))
    BY <1>2, <1>4, <1>5, <2>1
  <2>3. ASSUME NEW m \in (n + 1)..Len(u) PROVE u[m] \notin Later
    <3>1. (m \in (n + 1)..Len(s) /\ m \in 1..Len(s)) \/ m = Len(s) + 1
      BY <1>2
    <3>2. QED
      BY <1>2, <1>9, <2>1, <3>1
  <2>4. QED
    BY <2>2, <2>3 DEF Guarded
<1>10. ASSUME a \in {"tick", "loopTick"} PROVE Guarded(u)
  <2>1. \A m \in (Len(u) + 1)..Len(u) : u[m] \notin Later
    BY <1>2
  <2>2. QED
    BY <1>7, <1>10, <2>1 DEF Guarded
<1>11. Quiet(s) => JsNests(u)
  BY <1>2, <1>3 DEF Quiet, JsNests
<1>12. Quiet(s) /\ a \notin Code => Quiet(u)
  BY <1>2, <1>3 DEF Quiet
<1>13. ASSUME JsNests(s), s # <<>>, s[Len(s)] # "after", a = "js" PROVE JsNests(u)
  <2>1. SUFFICES ASSUME NEW m \in 1..Len(u), NEW n \in 1..Len(u), m < n, u[m] \in Code
                 PROVE  u[n] = "js" /\ u[m] # "after"
    BY DEF JsNests
  <2>2. m \in 1..Len(s) /\ u[m] = s[m]
    BY <1>2, <2>1
  <2>3. CASE n \in 1..Len(s)
    BY <1>2, <1>13, <2>1, <2>2, <2>3 DEF JsNests
  <2>4. CASE n = Len(s) + 1
    <3>1. u[n] = "js"
      BY <1>2, <1>13, <2>4
    <3>2. CASE m = Len(s)
      BY <1>13, <2>2, <3>1, <3>2
    <3>3. CASE m < Len(s)
      <4>1. Len(s) \in 1..Len(s)
        BY <1>2, <2>2
      <4>2. s[m] # "after"
        BY <1>13, <2>1, <2>2, <3>3, <4>1 DEF JsNests
      <4>3. QED
        BY <2>2, <3>1, <4>2
    <3>4. QED
      BY <1>2, <2>2, <3>2, <3>3
  <2>5. QED
    BY <1>3, <2>3, <2>4
<1>14. QED
  BY <1>1, <1>2, <1>6, <1>8, <1>9, <1>10, <1>11, <1>12, <1>13

\* A return takes the innermost activation off the C stack.  If that one was
\* not what empties the queues, what empties them is below it.
LEMMA TakenOff ==
    ASSUME NEW s \in Seq(Tasks!Activations), s # <<>>,
           NEW p, p = SubSeq(s, 1, Len(s) - 1)
    PROVE  /\ p \in Seq(Tasks!Activations)
           /\ p # <<>> => Len(p) \in 1..Len(p) /\ p[Len(p)] = s[Len(s) - 1]
           /\ JsNests(s) => JsNests(p)
           /\ JsNests(s) /\ s[Len(s)] \notin Code => Quiet(p)
           /\ JsNests(s) /\ s[Len(s)] = "js" /\ (p # <<>> => p[Len(p)] \notin {"script", "js", "native"})
                 => Quiet(p)
           /\ Covered(s) /\ s[Len(s)] \notin {"loopTick", "loopMicro"}
              /\ ~(s[Len(s)] = "js" /\ Quiet(p)) => Covered(p)
           /\ Guarded(s) /\ s[Len(s)] \notin {"tick", "loopTick"}
              /\ ~(s[Len(s)] = "js" /\ Quiet(p)) => Guarded(p)
<1>1. /\ p \in Seq(Tasks!Activations) /\ Len(s) \in Nat \ {0} /\ Len(p) = Len(s) - 1
      /\ \A i \in 1..Len(p) : p[i] = s[i]
  <2>1. Len(s) \in Nat \ {0}
    BY EmptySeq
  <2>2. PICK n \in Nat : n = Len(s) - 1
    BY <2>1
  <2>3. \A i \in 1..n : s[i] \in Tasks!Activations
    BY <2>1, <2>2
  <2>4. /\ SubSeq(s, 1, n) \in Seq(Tasks!Activations)
        /\ Len(SubSeq(s, 1, n)) = IF 1 <= n THEN n - 1 + 1 ELSE 0
        /\ \A i \in 1..(n - 1 + 1) : SubSeq(s, 1, n)[i] = s[1 + i - 1]
    BY <2>3, SubSeqProperties
  <2>5. p = SubSeq(s, 1, n)
    BY <2>2
  <2>6. Len(p) = n /\ \A i \in 1..n : p[i] = s[i]
    BY <2>4, <2>5
  <2>7. QED
    BY <2>1, <2>2, <2>4, <2>5, <2>6
<1>2. p # <<>> => Len(p) \in 1..Len(p) /\ p[Len(p)] = s[Len(s) - 1]
  BY <1>1
<1>3. \A i \in 1..Len(s) : i \in 1..Len(p) \/ i = Len(s)
  BY <1>1
<1>4. \A i \in 1..Len(p) : i \in 1..Len(s) /\ i < Len(s)
  BY <1>1
<1>5. Len(s) \in 1..Len(s)
  BY <1>1
<1>6. JsNests(s) => JsNests(p)
  BY <1>1, <1>4 DEF JsNests
<1>7. ASSUME JsNests(s), s[Len(s)] \notin Code PROVE Quiet(p)
  BY <1>1, <1>4, <1>5, <1>7 DEF JsNests, Quiet, Code
<1>8. ASSUME JsNests(s), s[Len(s)] = "js", p # <<>> => p[Len(p)] \notin {"script", "js", "native"}
      PROVE  Quiet(p)
  <2>1. SUFFICES ASSUME NEW m \in 1..Len(p), p[m] \in Code PROVE FALSE
    BY DEF Quiet
  <2>2. p # <<>> /\ Len(p) \in 1..Len(p)
    <3>1. Len(p) \in Nat /\ Len(p) # 0
      BY <1>1, <2>1
    <3>2. Len(<<>>) = 0
      BY EmptySeq
    <3>3. p # <<>>
      BY <3>1, <3>2, Zenon
    <3>4. QED
      BY <3>1, <3>3
  <2>3. s[m] \in Code /\ s[m] # "after" /\ p[m] = s[m]
    BY <1>1, <1>4, <1>5, <1>8, <2>1 DEF JsNests
  <2>4. CASE m = Len(p)
    BY <1>8, <2>2, <2>3, <2>4 DEF Code
  <2>5. CASE m < Len(p)
    <3>1. p[Len(p)] = "js"
      BY <1>6, <1>8, <2>1, <2>2, <2>5 DEF JsNests
    <3>2. QED
      BY <1>8, <2>2, <3>1
  <2>6. QED
    BY <1>1, <2>1, <2>4, <2>5
<1>9. ASSUME Outermost(s, Len(s)) PROVE s[Len(s)] = "js" /\ Quiet(p)
  BY <1>1, <1>9 DEF Outermost, Quiet
<1>10. ASSUME NEW n \in 1..Len(p), Outermost(s, n) PROVE Outermost(p, n)
  BY <1>1, <1>4, <1>10 DEF Outermost
<1>11. ASSUME Covered(s), s[Len(s)] \notin {"loopTick", "loopMicro"},
              ~(s[Len(s)] = "js" /\ Quiet(p))
       PROVE  Covered(p)
  <2>1. PICK n \in 1..Len(s) : s[n] \in {"loopTick", "loopMicro"} \/ Outermost(s, n)
    BY <1>11 DEF Covered
  <2>2. n # Len(s)
    BY <1>9, <1>11, <2>1
  <2>3. n \in 1..Len(p)
    BY <1>3, <2>2
  <2>4. QED
    BY <1>1, <1>10, <2>1, <2>3 DEF Covered
<1>12. ASSUME Guarded(s), s[Len(s)] \notin {"tick", "loopTick"},
              ~(s[Len(s)] = "js" /\ Quiet(p))
       PROVE  Guarded(p)
  <2>1. PICK n \in 1..Len(s) :
          /\ s[n] \in {"tick", "loopTick"} \/ Outermost(s, n)
          /\ \A m \in (n + 1)..Len(s) : s[m] \notin Later
    BY <1>12 DEF Guarded
  <2>2. n # Len(s)
    BY <1>9, <1>12, <2>1
  <2>3. n \in 1..Len(p)
    BY <1>3, <2>2
  <2>4. p[n] \in {"tick", "loopTick"} \/ Outermost(p, n)
    BY <1>1, <1>10, <2>1, <2>3
  <2>5. \A m \in (n + 1)..Len(p) : m \in (n + 1)..Len(s) /\ m \in 1..Len(p)
    BY <1>1, <2>3
  <2>6. \A m \in (n + 1)..Len(p) : p[m] \notin Later
    BY <1>1, <2>1, <2>5
  <2>7. QED
    BY <2>3, <2>4, <2>6 DEF Guarded
<1>13. QED
  BY <1>1, <1>2, <1>6, <1>7, <1>8, <1>11, <1>12

\* The drains that run one after the other are two activations.
LEMMA TwoPushed ==
    ASSUME NEW s \in Seq(Tasks!Activations), NEW a \in Tasks!Activations,
           NEW b \in Tasks!Activations
    PROVE  s \o <<a, b>> = Append(Append(s, a), b)
<1>1. PICK u : u = Append(Append(s, a), b)
  OBVIOUS
<1>2. PICK t : t = <<a, b>>
  OBVIOUS
<1>3. PICK v : v = s \o t
  OBVIOUS
<1>4. /\ u \in Seq(Tasks!Activations) /\ Len(s) \in Nat /\ Len(u) = Len(s) + 2
      /\ u[Len(s) + 1] = a /\ u[Len(s) + 2] = b /\ \A i \in 1..Len(s) : u[i] = s[i]
  BY <1>1
<1>5. t \in Seq(Tasks!Activations) /\ Len(t) = 2 /\ t[1] = a /\ t[2] = b
  BY <1>2
<1>6. /\ v \in Seq(Tasks!Activations) /\ Len(v) = Len(s) + Len(t)
      /\ \A i \in 1..(Len(s) + Len(t)) : v[i] = IF i <= Len(s) THEN s[i] ELSE t[i - Len(s)]
  BY <1>3, <1>5, ConcatProperties
<1>7. ASSUME NEW i \in 1..(Len(s) + 2) PROVE v[i] = u[i]
  <2>1. v[i] = IF i <= Len(s) THEN s[i] ELSE t[i - Len(s)]
    BY <1>5, <1>6
  <2>2. CASE i <= Len(s)
    BY <1>4, <2>1, <2>2
  <2>3. CASE i = Len(s) + 1
    BY <1>4, <1>5, <2>1, <2>3
  <2>4. CASE i = Len(s) + 2
    BY <1>4, <1>5, <2>1, <2>4
  <2>5. QED
    BY <1>4, <2>2, <2>3, <2>4
<1>8. v = u
  BY <1>4, <1>5, <1>6, <1>7, SeqEqual
<1>9. QED
  BY <1>1, <1>2, <1>3, <1>8

\* A nonempty C stack of sync functions and drains alone, with a function on
\* top, has an outermost one: the turn that was entered from C.
LEMMA SyncTurnCovered ==
    ASSUME NEW s \in Seq(Tasks!Activations), s # <<>>, s[Len(s)] = "js", JsNests(s),
           \A n \in 1..Len(s) : s[n] \notin {"script", "native", "after"}
    PROVE  Covered(s) /\ Guarded(s)
<1> DEFINE T == {n \in 1..Len(s) : s[n] \in Code}
<1>1. Len(s) \in Nat \ {0} /\ Len(s) \in T /\ T \in SUBSET (0..Len(s))
  BY DEF Code
<1>2. PICK n \in T : \A m \in T : n <= m
  BY <1>1, Smallest
<1>3. n \in 1..Len(s) /\ s[n] = "js"
  BY DEF Code
<1>4. ASSUME NEW m \in 1..(n - 1) PROVE s[m] \notin Code
  <2>1. m \in 1..Len(s) /\ ~(n <= m)
    BY <1>1, <1>3
  <2>2. QED
    BY <1>2, <2>1
<1>5. Outermost(s, n)
  BY <1>3, <1>4 DEF Outermost
<1>6. ASSUME NEW m \in (n + 1)..Len(s) PROVE s[m] \notin Later
  <2>1. m \in 1..Len(s) /\ n < m
    BY <1>1, <1>3
  <2>2. s[m] = "js"
    BY <1>3, <2>1 DEF JsNests, Code
  <2>3. QED
    BY <2>2 DEF Later
<1>7. QED
  BY <1>3, <1>5, <1>6 DEF Covered, Guarded

\* Where a microtask is about to start, nothing guards the nextTick queue.
LEMMA LaterUnguarded ==
    ASSUME NEW s \in Seq(Tasks!Activations), s # <<>>, s[Len(s)] \in Later
    PROVE  ~Guarded(s)
<1>1. SUFFICES ASSUME NEW n \in 1..Len(s),
                      s[n] \in {"tick", "loopTick"} \/ Outermost(s, n),
                      \A m \in (n + 1)..Len(s) : s[m] \notin Later
               PROVE  FALSE
  BY DEF Guarded
<1>2. Len(s) \in Nat /\ s[n] \in {"tick", "loopTick", "js"}
  BY <1>1 DEF Outermost
<1>3. n # Len(s)
  BY <1>2 DEF Later
<1>4. Len(s) \in (n + 1)..Len(s)
  BY <1>2, <1>3
<1>5. QED
  BY <1>1, <1>4

\* Nothing is covered, guarded or in progress on the empty stack.
LEMMA EmptyStack == ~Covered(<<>>) /\ ~Guarded(<<>>) /\ JsNests(<<>>) /\ Quiet(<<>>)
  BY DEF Covered, Guarded, JsNests, Quiet

\* The code on top of the stack was called by what is below it: under anything
\* else, no code is in progress.
LEMMA NestedUnder ==
    ASSUME NEW s \in Seq(Tasks!Activations), s # <<>>, JsNests(s), s[Len(s)] \notin Code
    PROVE  Quiet(s)
<1>1. Len(s) \in 1..Len(s) /\ Len(s) \in Nat
  OBVIOUS
<1>2. QED
  BY <1>1 DEF JsNests, Quiet, Code

-----------------------------------------------------------------------------
(* The invariant *)

\* What the drains rely on.  Code nests as calls do; a task that a sync turn
\* enqueued is in a queue or has been called, as long as one is in a queue the
\* loop of vm_call_function is in progress or to come, and as long as one is in
\* the nextTick queue that queue is drained before a microtask starts.
DrainInv ==
    /\ JsNests(cstack)
    /\ bySync \subseteq started \cup Range(nextTick) \cup Range(microtask)
    /\ (Range(nextTick) \cup Range(microtask)) \cap bySync # {} => Covered(cstack)
    /\ Range(nextTick) \cap bySync # {} => Guarded(cstack)

\* Range of the queues is the same operator inside and outside the instance.
LEMMA SameRange == \A s : Tasks!Range(s) = Range(s)
  BY DEF Tasks!Range, Range

\* The first task of a queue is taken out of it, and the others stay.
LEMMA HeadTaken ==
    ASSUME NEW S, NEW q \in Seq(S), q # <<>>
    PROVE  /\ Head(q) \in S /\ Tail(q) \in Seq(S)
           /\ Range(q) = Range(Tail(q)) \cup {Head(q)}
<1>1. PICK r : r = Tail(q)
  OBVIOUS
<1>2. /\ Len(q) \in Nat \ {0} /\ Head(q) = q[1] /\ Head(q) \in S /\ r \in Seq(S)
      /\ Len(r) = Len(q) - 1 /\ \A i \in 1..(Len(q) - 1) : r[i] = q[i + 1]
  BY <1>1, TakeHead
<1>3. DOMAIN q = 1..Len(q) /\ DOMAIN r = 1..(Len(q) - 1)
  BY <1>2
<1>4. ASSUME NEW i \in 1..Len(q) PROVE q[i] = Head(q) \/ q[i] \in Range(r)
  <2>1. CASE i = 1
    BY <1>2, <2>1
  <2>2. CASE i # 1
    <3>1. i - 1 \in 1..(Len(q) - 1) /\ (i - 1) + 1 = i
      BY <1>2, <2>2
    <3>2. r[i - 1] = q[i]
      BY <1>2, <3>1
    <3>3. QED
      BY <1>3, <3>1, <3>2 DEF Range
  <2>3. QED
    BY <2>1, <2>2
<1>5. ASSUME NEW i \in 1..(Len(q) - 1) PROVE r[i] \in Range(q)
  <2>1. i + 1 \in 1..Len(q)
    BY <1>2
  <2>2. QED
    BY <1>2, <1>3, <2>1 DEF Range
<1>6. Head(q) \in Range(q)
  <2>1. 1 \in 1..Len(q)
    BY <1>2
  <2>2. QED
    BY <1>2, <1>3, <2>1 DEF Range
<1>7. Range(q) = Range(r) \cup {Head(q)}
  BY <1>3, <1>4, <1>5, <1>6 DEF Range
<1>8. QED
  BY <1>1, <1>2, <1>7

\* process.nextTick in a sync turn is covered by the drain of that turn.
LEMMA EnqueueTickDrain ==
    ASSUME Tasks!TypeOK, DrainInv, NEW t \in Ticks, Tasks!EnqueueTick(t)
    PROVE  DrainInv'
<1>1. /\ nextTick \in Seq(Ticks) /\ cstack \in Seq(Tasks!Activations) /\ DOMAIN cstack = 1..Len(cstack)
      /\ JsNests(cstack)
  BY DEF Tasks!TypeOK, DrainInv
<1>2. /\ nextTick' = Append(nextTick, t)
      /\ bySync' = IF Tasks!SyncTurn THEN bySync \cup {t} ELSE bySync
      /\ microtask' = microtask /\ cstack' = cstack /\ started' = started
      /\ cstack # <<>> /\ cstack[Len(cstack)] \in Code
      /\ t \notin started \cup Range(nextTick) \cup Range(microtask)
  BY SameRange DEF Tasks!EnqueueTick, Tasks!Running, Tasks!Top, Tasks!Enqueued, Code
<1>3. Range(nextTick') = Range(nextTick) \cup {t}
  BY <1>1, <1>2, Enqueue
<1>4. CASE Tasks!SyncTurn
  <2>1. \A n \in 1..Len(cstack) : cstack[n] \notin {"script", "native", "after"}
    BY <1>1, <1>4 DEF Tasks!SyncTurn
  <2>2. Len(cstack) \in 1..Len(cstack)
    BY <1>1, <1>2
  <2>3. cstack[Len(cstack)] = "js"
    BY <1>2, <2>1, <2>2 DEF Code
  <2>4. Covered(cstack) /\ Guarded(cstack)
    BY <1>1, <1>2, <2>1, <2>3, SyncTurnCovered
  <2>5. QED
    BY <1>2, <1>3, <1>4, <2>4 DEF DrainInv
<1>5. CASE ~Tasks!SyncTurn
  <2>1. bySync' = bySync /\ t \notin bySync
    BY <1>2, <1>5 DEF DrainInv
  <2>2. QED
    BY <1>2, <1>3, <2>1 DEF DrainInv
<1>6. QED
  BY <1>4, <1>5

\* queueMicrotask, and the reactions of a settled promise, likewise.
LEMMA EnqueueMicroDrain ==
    ASSUME Tasks!TypeOK, DrainInv, NEW t \in Micros, Tasks!EnqueueMicro(t)
    PROVE  DrainInv'
<1>1. /\ microtask \in Seq(Micros) /\ cstack \in Seq(Tasks!Activations) /\ DOMAIN cstack = 1..Len(cstack)
      /\ JsNests(cstack)
  BY DEF Tasks!TypeOK, DrainInv
<1>2. /\ microtask' = Append(microtask, t)
      /\ bySync' = IF Tasks!SyncTurn THEN bySync \cup {t} ELSE bySync
      /\ nextTick' = nextTick /\ cstack' = cstack /\ started' = started
      /\ cstack # <<>> /\ cstack[Len(cstack)] \in Code
      /\ t \notin started \cup Range(nextTick) \cup Range(microtask)
  BY SameRange DEF Tasks!EnqueueMicro, Tasks!Running, Tasks!Top, Tasks!Enqueued, Code
<1>3. Range(microtask') = Range(microtask) \cup {t}
  BY <1>1, <1>2, Enqueue
<1>4. CASE Tasks!SyncTurn
  <2>1. \A n \in 1..Len(cstack) : cstack[n] \notin {"script", "native", "after"}
    BY <1>1, <1>4 DEF Tasks!SyncTurn
  <2>2. Len(cstack) \in 1..Len(cstack)
    BY <1>1, <1>2
  <2>3. cstack[Len(cstack)] = "js"
    BY <1>2, <2>1, <2>2 DEF Code
  <2>4. Covered(cstack) /\ Guarded(cstack)
    BY <1>1, <1>2, <2>1, <2>3, SyncTurnCovered
  <2>5. QED
    BY <1>2, <1>3, <1>4, <2>4 DEF DrainInv
<1>5. CASE ~Tasks!SyncTurn
  <2>1. bySync' = bySync /\ t \notin bySync
    BY <1>2, <1>5 DEF DrainInv
  <2>2. QED
    BY <1>2, <1>3, <2>1 DEF DrainInv
<1>6. QED
  BY <1>4, <1>5

\* A call back into JS from a native function stays within its turn.
LEMMA CallBackDrain ==
    ASSUME Tasks!TypeOK, DrainInv, Tasks!CallBack
    PROVE  cstack' \in Seq(Tasks!Activations) /\ DrainInv'
<1>1. cstack \in Seq(Tasks!Activations) /\ "js" \in Tasks!Activations
  BY DEF Tasks!TypeOK, Tasks!Activations
<1>2. /\ cstack # <<>> /\ cstack[Len(cstack)] # "after" /\ cstack' = Append(cstack, "js")
      /\ UNCHANGED <<nextTick, microtask, started, bySync>>
  BY DEF Tasks!CallBack, Tasks!Running, Tasks!Top
<1>3. "js" \notin Later
  BY DEF Later
<1>4. /\ cstack' \in Seq(Tasks!Activations)
      /\ JsNests(cstack) => JsNests(cstack')
      /\ Covered(cstack) => Covered(cstack')
      /\ Guarded(cstack) => Guarded(cstack')
  BY <1>1, <1>2, <1>3, Pushed
<1>5. QED
  BY <1>2, <1>4 DEF DrainInv

\* A return ends the turn only when no JS code is left below, and the drain
\* loop takes the place of the sync function that C called.
LEMMA ReturnDrain ==
    ASSUME Tasks!TypeOK, DrainInv, Tasks!Return
    PROVE  cstack' \in Seq(Tasks!Activations) /\ DrainInv'
<1>1. cstack \in Seq(Tasks!Activations) /\ "loopTick" \in Tasks!Activations /\ JsNests(cstack)
  BY DEF Tasks!TypeOK, Tasks!Activations, DrainInv
<1>2. PICK p : p = SubSeq(cstack, 1, Len(cstack) - 1)
  OBVIOUS
<1>3. /\ cstack # <<>> /\ cstack[Len(cstack)] \in Code
      /\ UNCHANGED <<nextTick, microtask, started, bySync>>
      /\ cstack' = IF cstack[Len(cstack)] = "js" /\ ~(p # <<>> /\ p[Len(p)] \in {"script", "js", "native"})
                   THEN Append(p, "loopTick") ELSE p
  BY <1>2 DEF Tasks!Return, Tasks!Running, Tasks!Top, Tasks!Popped, Tasks!FramesLeft, Code
<1>4. /\ p \in Seq(Tasks!Activations)
      /\ p # <<>> => Len(p) \in 1..Len(p)
      /\ JsNests(p)
      /\ cstack[Len(cstack)] = "js" /\ (p # <<>> => p[Len(p)] \notin {"script", "js", "native"})
            => Quiet(p)
      /\ Covered(cstack) /\ cstack[Len(cstack)] \notin {"loopTick", "loopMicro"}
         /\ ~(cstack[Len(cstack)] = "js" /\ Quiet(p)) => Covered(p)
      /\ Guarded(cstack) /\ cstack[Len(cstack)] \notin {"tick", "loopTick"}
         /\ ~(cstack[Len(cstack)] = "js" /\ Quiet(p)) => Guarded(p)
  <2>1. cstack \in Seq(Tasks!Activations) /\ cstack # <<>> /\ JsNests(cstack)
    BY <1>1, <1>3
  <2>2. p \in Seq(Tasks!Activations) /\ (p # <<>> => Len(p) \in 1..Len(p)) /\ JsNests(p)
    BY <1>2, <2>1, TakenOff
  <2>3. cstack[Len(cstack)] = "js" /\ (p # <<>> => p[Len(p)] \notin {"script", "js", "native"})
           => Quiet(p)
    BY <1>2, <2>1, TakenOff
  <2>4. Covered(cstack) /\ cstack[Len(cstack)] \notin {"loopTick", "loopMicro"}
        /\ ~(cstack[Len(cstack)] = "js" /\ Quiet(p)) => Covered(p)
    BY <1>2, <2>1, TakenOff, ZenonT(30)
  <2>5. Guarded(cstack) /\ cstack[Len(cstack)] \notin {"tick", "loopTick"}
        /\ ~(cstack[Len(cstack)] = "js" /\ Quiet(p)) => Guarded(p)
    BY <1>2, <2>1, TakenOff, ZenonT(30)
  <2>6. QED
    BY <2>2, <2>3, <2>4, <2>5
<1>5. CASE cstack[Len(cstack)] = "js" /\ ~(p # <<>> /\ p[Len(p)] \in {"script", "js", "native"})
  <2>1. cstack' = Append(p, "loopTick") /\ Quiet(p)
    BY <1>3, <1>4, <1>5
  <2>2. cstack' \in Seq(Tasks!Activations) /\ JsNests(cstack') /\ Covered(cstack') /\ Guarded(cstack')
    BY <1>1, <1>4, <2>1, Pushed
  <2>3. QED
    BY <1>3, <2>2 DEF DrainInv
<1>6. CASE ~(cstack[Len(cstack)] = "js" /\ ~(p # <<>> /\ p[Len(p)] \in {"script", "js", "native"}))
  <2>1. cstack' = p
    BY <1>3, <1>6
  <2>2. ASSUME cstack[Len(cstack)] = "js" PROVE ~Quiet(p)
    <3>1. p # <<>> /\ p[Len(p)] \in {"script", "js", "native"} /\ Len(p) \in 1..Len(p)
      BY <1>4, <1>6, <2>2
    <3>2. p[Len(p)] \in Code
      BY <3>1 DEF Code
    <3>3. QED
      BY <3>1, <3>2 DEF Quiet
  <2>3. cstack[Len(cstack)] \notin {"loopTick", "loopMicro", "tick"}
    BY <1>3 DEF Code
  <2>4. (Covered(cstack) => Covered(p)) /\ (Guarded(cstack) => Guarded(p))
    BY <1>4, <2>2, <2>3
  <2>5. QED
    BY <1>3, <1>4, <2>1, <2>4 DEF DrainInv
<1>7. QED
  BY <1>5, <1>6

\* vm_drain_next_tick calls each callback with no code in progress below it.
LEMMA DrainTickDrain ==
    ASSUME Tasks!TypeOK, DrainInv, Tasks!DrainTick
    PROVE  /\ cstack' \in Seq(Tasks!Activations) /\ DrainInv'
           /\ nextTick' \in Seq(Ticks) /\ started' \subseteq started \cup Ticks
<1>1. nextTick \in Seq(Ticks) /\ cstack \in Seq(Tasks!Activations) /\ JsNests(cstack)
  BY DEF Tasks!TypeOK, DrainInv
<1>2. PICK p : p = SubSeq(cstack, 1, Len(cstack) - 1)
  OBVIOUS
<1>3. cstack # <<>> /\ cstack[Len(cstack)] = "tick" /\ UNCHANGED <<microtask, bySync>>
  BY DEF Tasks!DrainTick, Tasks!Top
<1>4. CASE nextTick = <<>>
  <2>1. cstack' = p /\ UNCHANGED <<nextTick, started>>
    BY <1>2, <1>4 DEF Tasks!DrainTick, Tasks!Popped
  <2>2. /\ p \in Seq(Tasks!Activations) /\ JsNests(p)
        /\ Covered(cstack) => Covered(p)
    BY <1>1, <1>2, <1>3, TakenOff
  <2>3. Range(nextTick) = {}
    BY <1>4, EmptyQueue
  <2>4. QED
    BY <1>1, <1>3, <2>1, <2>2, <2>3 DEF DrainInv
<1>5. CASE nextTick # <<>>
  <2>1. PICK a : a = Tasks!Called(Head(nextTick))
    OBVIOUS
  <2>2. a \in {"js", "native"}
    BY <2>1 DEF Tasks!Called
  <2>3. a \in Tasks!Activations /\ a \notin Later
    BY <2>2 DEF Tasks!Activations, Later
  <2>4. /\ nextTick' = Tail(nextTick) /\ cstack' = Append(cstack, a)
        /\ started' = started \cup {Head(nextTick)}
    BY <1>5, <2>1 DEF Tasks!DrainTick
  <2>5. /\ Head(nextTick) \in Ticks /\ nextTick' \in Seq(Ticks)
        /\ Range(nextTick) = Range(nextTick') \cup {Head(nextTick)}
    BY <1>1, <1>5, <2>4, HeadTaken
  <2>6. Quiet(cstack)
    BY <1>1, <1>3, NestedUnder DEF Code
  <2>7. /\ cstack' \in Seq(Tasks!Activations) /\ JsNests(cstack')
        /\ Covered(cstack) => Covered(cstack')
        /\ Guarded(cstack) => Guarded(cstack')
    BY <1>1, <2>3, <2>4, <2>6, Pushed
  <2>8. QED
    BY <1>3, <2>4, <2>5, <2>7 DEF DrainInv
<1>6. QED
  BY <1>4, <1>5

\* vm_drain_microtasks likewise; it runs only where nothing guards the nextTick
\* queue any more, so no callback of a sync turn is left there.
LEMMA DrainMicroDrain ==
    ASSUME Tasks!TypeOK, DrainInv, Tasks!DrainMicro
    PROVE  /\ cstack' \in Seq(Tasks!Activations) /\ DrainInv'
           /\ microtask' \in Seq(Micros) /\ started' \subseteq started \cup Micros
           /\ Range(nextTick) \cap bySync = {}
<1>1. microtask \in Seq(Micros) /\ cstack \in Seq(Tasks!Activations) /\ JsNests(cstack)
  BY DEF Tasks!TypeOK, DrainInv
<1>2. PICK p : p = SubSeq(cstack, 1, Len(cstack) - 1)
  OBVIOUS
<1>3. cstack # <<>> /\ cstack[Len(cstack)] = "micro" /\ UNCHANGED <<nextTick, bySync>>
  BY DEF Tasks!DrainMicro, Tasks!Top
<1>n. Range(nextTick) \cap bySync = {}
  <2>1. cstack[Len(cstack)] \in Later
    BY <1>3 DEF Later
  <2>2. ~Guarded(cstack)
    BY <1>1, <1>3, <2>1, LaterUnguarded
  <2>3. QED
    BY <2>2 DEF DrainInv
<1>4. CASE microtask = <<>>
  <2>1. cstack' = p /\ UNCHANGED <<microtask, started>>
    BY <1>2, <1>4 DEF Tasks!DrainMicro, Tasks!Popped
  <2>2. /\ p \in Seq(Tasks!Activations) /\ JsNests(p)
        /\ Covered(cstack) => Covered(p)
    BY <1>1, <1>2, <1>3, TakenOff
  <2>3. QED
    BY <1>1, <1>3, <1>n, <2>1, <2>2 DEF DrainInv
<1>5. CASE microtask # <<>>
  <2>1. PICK a : a = Tasks!Called(Head(microtask))
    OBVIOUS
  <2>2. a \in {"js", "native"}
    BY <2>1 DEF Tasks!Called
  <2>3. a \in Tasks!Activations
    BY <2>2 DEF Tasks!Activations
  <2>4. /\ microtask' = Tail(microtask) /\ cstack' = Append(cstack, a)
        /\ started' = started \cup {Head(microtask)}
    BY <1>5, <2>1 DEF Tasks!DrainMicro
  <2>5. /\ Head(microtask) \in Micros /\ microtask' \in Seq(Micros)
        /\ Range(microtask) = Range(microtask') \cup {Head(microtask)}
    BY <1>1, <1>5, <2>4, HeadTaken
  <2>6. Quiet(cstack)
    BY <1>1, <1>3, NestedUnder DEF Code
  <2>7. /\ cstack' \in Seq(Tasks!Activations) /\ JsNests(cstack')
        /\ Covered(cstack) => Covered(cstack')
    BY <1>1, <2>3, <2>4, <2>6, Pushed
  <2>8. QED
    BY <1>3, <1>n, <2>4, <2>5, <2>7 DEF DrainInv
<1>6. QED
  BY <1>4, <1>5, <1>n

\* The loop of vm_call_function leaves only with both queues empty, and turns
\* to the nextTick queue first.
LEMMA DrainLoopDrain ==
    ASSUME Tasks!TypeOK, DrainInv, Tasks!DrainLoop
    PROVE  cstack' \in Seq(Tasks!Activations) /\ DrainInv'
<1>1. /\ cstack \in Seq(Tasks!Activations) /\ JsNests(cstack)
      /\ {"loopTick", "loopMicro", "tick", "micro"} \subseteq Tasks!Activations
  BY DEF Tasks!TypeOK, DrainInv, Tasks!Activations
<1>2. PICK p : p = SubSeq(cstack, 1, Len(cstack) - 1)
  OBVIOUS
<1>3. /\ cstack # <<>> /\ cstack[Len(cstack)] \in {"loopTick", "loopMicro"}
      /\ UNCHANGED <<nextTick, microtask, started, bySync>>
      /\ cstack' = IF cstack[Len(cstack)] = "loopTick"
                   THEN IF nextTick = <<>> /\ microtask = <<>> THEN p
                        ELSE p \o <<"loopMicro", "tick">>
                   ELSE p \o <<"loopTick", "micro">>
  BY <1>2 DEF Tasks!DrainLoop, Tasks!Top, Tasks!Popped
<1>4. cstack[Len(cstack)] \notin Code
  BY <1>3 DEF Code
<1>5. p \in Seq(Tasks!Activations) /\ JsNests(p) /\ Quiet(p)
  BY <1>1, <1>2, <1>3, <1>4, TakenOff
<1>6. {"loopTick", "loopMicro", "tick", "micro"} \cap Code = {} /\ "tick" \notin Later
  BY DEF Code, Later
<1>7. CASE cstack[Len(cstack)] = "loopTick" /\ nextTick = <<>> /\ microtask = <<>>
  <2>1. cstack' = p
    BY <1>3, <1>7
  <2>2. Range(nextTick) = {} /\ Range(microtask) = {}
    BY <1>7, EmptyQueue
  <2>3. QED
    BY <1>3, <1>5, <2>1, <2>2 DEF DrainInv
<1>8. CASE cstack[Len(cstack)] = "loopTick" /\ ~(nextTick = <<>> /\ microtask = <<>>)
  <2>1. PICK u : u = Append(p, "loopMicro")
    OBVIOUS
  <2>2. cstack' = Append(u, "tick")
    BY <1>1, <1>3, <1>5, <1>8, <2>1, TwoPushed
  <2>3. u \in Seq(Tasks!Activations) /\ Quiet(u) /\ Covered(u)
    BY <1>1, <1>5, <1>6, <2>1, Pushed
  <2>4. /\ cstack' \in Seq(Tasks!Activations) /\ JsNests(cstack')
        /\ Covered(cstack') /\ Guarded(cstack')
    BY <1>1, <2>2, <2>3, Pushed
  <2>5. QED
    BY <1>3, <2>4 DEF DrainInv
<1>9. CASE cstack[Len(cstack)] = "loopMicro"
  <2>1. PICK u : u = Append(p, "loopTick")
    OBVIOUS
  <2>2. cstack' = Append(u, "micro")
    BY <1>1, <1>3, <1>5, <1>9, <2>1, TwoPushed
  <2>3. u \in Seq(Tasks!Activations) /\ Quiet(u) /\ Covered(u)
    BY <1>1, <1>5, <1>6, <2>1, Pushed
  <2>4. cstack' \in Seq(Tasks!Activations) /\ JsNests(cstack') /\ Covered(cstack')
    BY <1>1, <2>2, <2>3, Pushed
  <2>5. cstack[Len(cstack)] \in Later
    BY <1>9 DEF Later
  <2>6. ~Guarded(cstack)
    BY <1>1, <1>3, <2>5, LaterUnguarded
  <2>7. QED
    BY <1>3, <2>4, <2>6 DEF DrainInv
<1>10. QED
  BY <1>3, <1>7, <1>8, <1>9

\* The two drains after the script, a timer or an immediate.
LEMMA DrainThenDrain ==
    ASSUME Tasks!TypeOK, DrainInv, Tasks!DrainThen
    PROVE  cstack' \in Seq(Tasks!Activations) /\ DrainInv'
<1>1. /\ cstack \in Seq(Tasks!Activations) /\ JsNests(cstack)
      /\ {"thenTick", "thenMicro", "tick", "micro"} \subseteq Tasks!Activations
  BY DEF Tasks!TypeOK, DrainInv, Tasks!Activations
<1>2. PICK p : p = SubSeq(cstack, 1, Len(cstack) - 1)
  OBVIOUS
<1>3. /\ cstack # <<>> /\ cstack[Len(cstack)] \in {"thenTick", "thenMicro"}
      /\ UNCHANGED <<nextTick, microtask, started, bySync>>
      /\ cstack' = IF cstack[Len(cstack)] = "thenTick" THEN p \o <<"thenMicro", "tick">>
                                                       ELSE Append(p, "micro")
  BY <1>2 DEF Tasks!DrainThen, Tasks!Top, Tasks!Popped
<1>4. cstack[Len(cstack)] \notin Code \cup {"loopTick", "loopMicro", "js"}
  BY <1>3 DEF Code
<1>5. /\ p \in Seq(Tasks!Activations) /\ Quiet(p)
      /\ Covered(cstack) => Covered(p)
  <2>1. cstack # <<>>
    BY <1>3
  <2>2. p \in Seq(Tasks!Activations) /\ Quiet(p)
    BY <1>1, <1>2, <1>4, <2>1, TakenOff
  <2>3. Covered(cstack) => Covered(p)
    <3>1. /\ cstack[Len(cstack)] \notin {"loopTick", "loopMicro"}
          /\ cstack[Len(cstack)] # "js"
      BY <1>4
    <3>2. cstack \in Seq(Tasks!Activations)
      BY <1>1
    <3>3. Covered(cstack) /\ cstack[Len(cstack)] \notin {"loopTick", "loopMicro"}
          /\ ~(cstack[Len(cstack)] = "js" /\ Quiet(p)) => Covered(p)
      BY <1>2, <2>1, <3>2, TakenOff, ZenonT(30)
    <3>4. QED
      BY <3>1, <3>3
  <2>4. QED
    BY <2>2, <2>3
<1>6. {"thenMicro", "tick", "micro"} \cap Code = {}
  BY DEF Code
<1>7. CASE cstack[Len(cstack)] = "thenTick"
  <2>1. PICK u : u = Append(p, "thenMicro")
    OBVIOUS
  <2>2. cstack' = Append(u, "tick")
    BY <1>1, <1>3, <1>5, <1>7, <2>1, TwoPushed
  <2>3. u \in Seq(Tasks!Activations) /\ Quiet(u) /\ (Covered(p) => Covered(u))
    BY <1>1, <1>5, <1>6, <2>1, Pushed
  <2>4. /\ cstack' \in Seq(Tasks!Activations) /\ JsNests(cstack')
        /\ (Covered(u) => Covered(cstack')) /\ Guarded(cstack')
    BY <1>1, <2>2, <2>3, Pushed
  <2>5. QED
    BY <1>3, <1>5, <2>3, <2>4 DEF DrainInv
<1>8. CASE cstack[Len(cstack)] = "thenMicro"
  <2>1. cstack' = Append(p, "micro")
    BY <1>3, <1>8
  <2>2. /\ cstack' \in Seq(Tasks!Activations) /\ JsNests(cstack')
        /\ Covered(p) => Covered(cstack')
    BY <1>1, <1>5, <2>1, Pushed
  <2>3. cstack[Len(cstack)] \in Later
    BY <1>8 DEF Later
  <2>4. ~Guarded(cstack)
    BY <1>1, <1>3, <2>3, LaterUnguarded
  <2>5. QED
    BY <1>3, <1>5, <2>2, <2>4 DEF DrainInv
<1>9. QED
  BY <1>3, <1>7, <1>8

\* el_run calls with an empty C stack, and so with nothing owed to a sync turn.
LEMMA LoopCalls ==
    ASSUME Tasks!TypeOK, DrainInv, Tasks!Callback \/ Tasks!PhaseFive
    PROVE  cstack' \in Seq(Tasks!Activations) /\ DrainInv'
<1>1. cstack = <<>> /\ UNCHANGED <<nextTick, microtask, started, bySync>>
  BY DEF Tasks!Callback, Tasks!PhaseFive
<1>2. (Range(nextTick) \cup Range(microtask)) \cap bySync = {}
  BY <1>1, EmptyStack DEF DrainInv
<1>3. PICK f \in {"js", "native"} : cstack' \in {<<"thenTick", f>>, <<f>>, <<"after">>, <<"micro">>}
  BY DEF Tasks!Callback, Tasks!PhaseFive
<1>4. {f, "thenTick", "after", "micro"} \subseteq Tasks!Activations
  BY DEF Tasks!Activations
<1>5. CASE cstack' \in {<<f>>, <<"after">>, <<"micro">>}
  <2>1. cstack' \in Seq(Tasks!Activations) /\ Len(cstack') = 1
    <3>1. PICK a \in Tasks!Activations : cstack' = <<a>>
      BY <1>4, <1>5
    <3>2. QED
      BY <3>1
  <2>2. JsNests(cstack')
    BY <2>1 DEF JsNests
  <2>3. QED
    BY <1>1, <1>2, <2>1, <2>2 DEF DrainInv
<1>6. CASE cstack' = <<"thenTick", f>>
  <2>1. cstack' \in Seq(Tasks!Activations) /\ Len(cstack') = 2 /\ cstack'[1] = "thenTick"
    BY <1>4, <1>6
  <2>2. JsNests(cstack')
    BY <2>1 DEF JsNests, Code
  <2>3. QED
    BY <1>1, <1>2, <2>1, <2>2 DEF DrainInv
<1>7. QED
  BY <1>3, <1>5, <1>6

\* Every step of the queues, the drains and el_run keeps the types.
LEMMA NextTypes ==
    ASSUME Tasks!TypeOK, DrainInv, Tasks!Next
    PROVE  Tasks!TypeOK' /\ DrainInv'
<1> DEFINE Counters ==
             /\ phase \in {"script", "callbacks", "phase5", "top", "exited"}
             /\ ticks \in 0..MaxTicks /\ calls \in 0..MaxCalls /\ nested \in 0..MaxNested
           Lists ==
             /\ nextTick \in Seq(Ticks) /\ microtask \in Seq(Micros)
             /\ started \subseteq Tasks!Tasks /\ bySync \subseteq Tasks!Tasks
<1>1. Counters /\ Lists /\ cstack \in Seq(Tasks!Activations)
  BY DEF Tasks!TypeOK
<1>2. MaxTicks \in Nat /\ MaxCalls \in Nat /\ MaxNested \in Nat
  BY TurnsAssumption DEF Tasks!TaskAssumption
<1>3. Counters'
  <2>1. ticks' \in 0..MaxTicks
    BY <1>1, <1>2 DEF Tasks!Next, Tasks!EnqueueTick, Tasks!EnqueueMicro, Tasks!CallBack, Tasks!Return,
       Tasks!Drain, Tasks!DrainTick, Tasks!DrainMicro, Tasks!DrainLoop, Tasks!DrainThen, Tasks!LoopTop,
       Tasks!LeaveLoop, Tasks!StartTick, Tasks!Callback, Tasks!PhaseFive
  <2>2. calls' \in 0..MaxCalls
    BY <1>1, <1>2 DEF Tasks!Next, Tasks!EnqueueTick, Tasks!EnqueueMicro, Tasks!CallBack, Tasks!Return,
       Tasks!Drain, Tasks!DrainTick, Tasks!DrainMicro, Tasks!DrainLoop, Tasks!DrainThen, Tasks!LoopTop,
       Tasks!LeaveLoop, Tasks!StartTick, Tasks!Callback, Tasks!PhaseFive
  <2>3. nested' \in 0..MaxNested
    BY <1>1, <1>2 DEF Tasks!Next, Tasks!EnqueueTick, Tasks!EnqueueMicro, Tasks!CallBack, Tasks!Return,
       Tasks!Drain, Tasks!DrainTick, Tasks!DrainMicro, Tasks!DrainLoop, Tasks!DrainThen, Tasks!LoopTop,
       Tasks!LeaveLoop, Tasks!StartTick, Tasks!Callback, Tasks!PhaseFive
  <2>4. phase' \in {"script", "callbacks", "phase5", "top", "exited"}
    BY <1>1 DEF Tasks!Next, Tasks!EnqueueTick, Tasks!EnqueueMicro, Tasks!CallBack, Tasks!Return,
       Tasks!Drain, Tasks!DrainTick, Tasks!DrainMicro, Tasks!DrainLoop, Tasks!DrainThen, Tasks!LoopTop,
       Tasks!LeaveLoop, Tasks!StartTick, Tasks!Callback, Tasks!PhaseFive
  <2>5. QED
    BY <2>1, <2>2, <2>3, <2>4
<1>4. /\ Counters' /\ Lists' /\ cstack' \in Seq(Tasks!Activations) => Tasks!TypeOK'
  BY DEF Tasks!TypeOK
<1>5. ASSUME NEW t \in Ticks, Tasks!EnqueueTick(t) PROVE Tasks!TypeOK' /\ DrainInv'
  <2>1. /\ nextTick' = Append(nextTick, t) /\ bySync' \subseteq bySync \cup {t}
        /\ UNCHANGED <<microtask, cstack, started>>
    BY <1>5 DEF Tasks!EnqueueTick
  <2>2. Lists' /\ cstack' \in Seq(Tasks!Activations)
    BY <1>1, <2>1 DEF Tasks!Tasks
  <2>3. DrainInv'
    BY <1>5, EnqueueTickDrain
  <2>4. QED
    BY <1>3, <1>4, <2>2, <2>3
<1>6. ASSUME NEW t \in Micros, Tasks!EnqueueMicro(t) PROVE Tasks!TypeOK' /\ DrainInv'
  <2>1. /\ microtask' = Append(microtask, t) /\ bySync' \subseteq bySync \cup {t}
        /\ UNCHANGED <<nextTick, cstack, started>>
    BY <1>6 DEF Tasks!EnqueueMicro
  <2>2. Lists' /\ cstack' \in Seq(Tasks!Activations)
    BY <1>1, <2>1 DEF Tasks!Tasks
  <2>3. DrainInv'
    BY <1>6, EnqueueMicroDrain
  <2>4. QED
    BY <1>3, <1>4, <2>2, <2>3
<1>7. CASE Tasks!DrainTick
  <2>1. UNCHANGED <<microtask, bySync>>
    BY <1>7 DEF Tasks!DrainTick
  <2>2. /\ cstack' \in Seq(Tasks!Activations) /\ DrainInv'
        /\ nextTick' \in Seq(Ticks) /\ started' \subseteq started \cup Ticks
    BY <1>7, DrainTickDrain
  <2>3. Lists'
    BY <1>1, <2>1, <2>2 DEF Tasks!Tasks
  <2>4. QED
    BY <1>3, <1>4, <2>2, <2>3
<1>8. CASE Tasks!DrainMicro
  <2>1. UNCHANGED <<nextTick, bySync>>
    BY <1>8 DEF Tasks!DrainMicro
  <2>2. /\ cstack' \in Seq(Tasks!Activations) /\ DrainInv'
        /\ microtask' \in Seq(Micros) /\ started' \subseteq started \cup Micros
    BY <1>8, DrainMicroDrain
  <2>3. Lists'
    BY <1>1, <2>1, <2>2 DEF Tasks!Tasks
  <2>4. QED
    BY <1>3, <1>4, <2>2, <2>3
<1>9. CASE Tasks!CallBack \/ Tasks!Return \/ Tasks!DrainLoop \/ Tasks!DrainThen
           \/ Tasks!Callback \/ Tasks!PhaseFive
  <2>1. UNCHANGED <<nextTick, microtask, started, bySync>>
    BY <1>9 DEF Tasks!CallBack, Tasks!Return, Tasks!DrainLoop, Tasks!DrainThen, Tasks!Callback,
       Tasks!PhaseFive
  <2>2. cstack' \in Seq(Tasks!Activations) /\ DrainInv'
    BY <1>9, CallBackDrain, ReturnDrain, DrainLoopDrain, DrainThenDrain, LoopCalls
  <2>3. Lists'
    BY <1>1, <2>1
  <2>4. QED
    BY <1>3, <1>4, <2>2, <2>3
<1>10. CASE Tasks!LoopTop \/ Tasks!LeaveLoop \/ Tasks!StartTick
  <2>1. UNCHANGED <<nextTick, microtask, cstack, started, bySync>>
    BY <1>10 DEF Tasks!LoopTop, Tasks!LeaveLoop, Tasks!StartTick
  <2>2. DrainInv'
    BY <2>1 DEF DrainInv
  <2>3. Lists' /\ cstack' \in Seq(Tasks!Activations)
    BY <1>1, <2>1
  <2>4. QED
    BY <1>3, <1>4, <2>2, <2>3
<1>11. QED
  BY <1>5, <1>6, <1>7, <1>8, <1>9, <1>10 DEF Tasks!Next, Tasks!Drain

\* The main program is on the C stack before anything is queued.
LEMMA InitTypes == Tasks!Init => Tasks!TypeOK /\ DrainInv
<1>1. SUFFICES ASSUME Tasks!Init PROVE Tasks!TypeOK /\ DrainInv
  OBVIOUS
<1>2. MaxTicks \in Nat /\ MaxCalls \in Nat /\ MaxNested \in Nat
  BY TurnsAssumption DEF Tasks!TaskAssumption
<1>3. /\ cstack \in Seq(Tasks!Activations) /\ Len(cstack) = 2 /\ cstack[1] = "thenTick"
  BY <1>1 DEF Tasks!Init, Tasks!Activations
<1>4. ticks \in 0..MaxTicks /\ calls \in 0..MaxCalls /\ nested \in 0..MaxNested
  BY <1>1, <1>2 DEF Tasks!Init
<1>5. phase \in {"script", "callbacks", "phase5", "top", "exited"}
  BY <1>1 DEF Tasks!Init
<1>6. nextTick = <<>> /\ microtask = <<>> /\ started = {} /\ bySync = {}
  BY <1>1 DEF Tasks!Init
<1>7. Tasks!TypeOK
  BY <1>3, <1>4, <1>5, <1>6 DEF Tasks!TypeOK
<1>8. JsNests(cstack)
  BY <1>3 DEF JsNests, Code
<1>9. QED
  BY <1>6, <1>7, <1>8 DEF DrainInv

-----------------------------------------------------------------------------
(* Theorems *)

\* The invariant of the drains of vm.c, builtins.c and event_loop.c.
THEOREM DrainsKeepPromises == Tasks!Spec => [](Tasks!TypeOK /\ DrainInv)
<1>1. ASSUME Tasks!TypeOK /\ DrainInv, [Tasks!Next]_(Tasks!vars) PROVE (Tasks!TypeOK /\ DrainInv)'
  <2>1. CASE Tasks!Next
    BY <1>1, <2>1, NextTypes
  <2>2. CASE UNCHANGED Tasks!vars
    <3>1. UNCHANGED <<nextTick, microtask, cstack, phase, ticks, calls, nested, started, bySync>>
      BY <2>2 DEF Tasks!vars
    <3>2. Tasks!TypeOK'
      BY <1>1, <3>1 DEF Tasks!TypeOK
    <3>3. DrainInv'
      BY <1>1, <3>1 DEF DrainInv
    <3>4. QED
      BY <3>2, <3>3
  <2>3. QED
    BY <1>1, <2>1, <2>2
<1>2. QED
  BY <1>1, InitTypes, PTL DEF Tasks!Spec

\* No task ever starts while JS code is in progress below it on the C stack, and
\* whenever control is back in el_run nothing is left in either queue of what
\* a sync callback enqueued, for any number of tasks, callbacks and nested calls.
THEOREM EveryTurnDrains == Tasks!Spec => []TurnsDrain
<1>1. ASSUME Tasks!TypeOK, DrainInv PROVE TurnsDrain
  <2>1. cstack \in Seq(Tasks!Activations) /\ DOMAIN cstack = 1..Len(cstack) /\ Len(cstack) \in Nat
    BY <1>1 DEF Tasks!TypeOK
  <2>2. Tasks!RunToCompletion
    <3>1. SUFFICES ASSUME NEW n \in 1..Len(cstack), cstack[n] \in {"tick", "micro"},
                          NEW m \in 1..n, cstack[m] \in {"script", "js", "native"}
                   PROVE  FALSE
      BY <2>1 DEF Tasks!RunToCompletion
    <3>2. m # n
      BY <3>1
    <3>3. m \in 1..Len(cstack) /\ m < n
      BY <2>1, <3>2
    <3>4. cstack[n] = "js"
      BY <1>1, <3>1, <3>3 DEF DrainInv, JsNests, Code
    <3>5. QED
      BY <3>1, <3>4
  <2>3. Tasks!SyncTurnsDrain
    BY <1>1, EmptyStack, SameRange DEF DrainInv, Tasks!SyncTurnsDrain
  <2>4. QED
    BY <1>1, <2>2, <2>3 DEF TurnsDrain
<1>2. QED
  BY <1>1, DrainsKeepPromises, PTL

\* No microtask starts as long as a callback that a sync turn gave to
\* process.nextTick is in the queue.
THEOREM SyncTicksComeFirst == Tasks!Spec => SyncTicksFirst
<1>1. ASSUME Tasks!TypeOK, DrainInv, [Tasks!Next]_(Tasks!vars)
      PROVE  [Tasks!SyncTicksFirst]_(Tasks!vars)
  <2>1. SUFFICES ASSUME Tasks!Next, NEW t \in Micros, t \in started' \ started
                 PROVE  Range(nextTick) \cap bySync = {}
    BY <1>1, SameRange DEF Tasks!SyncTicksFirst
  <2>2. Tasks!DrainTick \/ Tasks!DrainMicro \/ UNCHANGED started
    BY <2>1 DEF Tasks!Next, Tasks!EnqueueTick, Tasks!EnqueueMicro, Tasks!CallBack, Tasks!Return,
       Tasks!Drain, Tasks!DrainLoop, Tasks!DrainThen, Tasks!LoopTop,
       Tasks!LeaveLoop, Tasks!StartTick, Tasks!Callback, Tasks!PhaseFive
  <2>3. ~Tasks!DrainTick
    <3>1. Ticks \cap Micros = {}
      BY TurnsAssumption DEF Tasks!TaskAssumption
    <3>2. Tasks!DrainTick => started' \subseteq started \cup Ticks
      BY <1>1, DrainTickDrain
    <3>3. QED
      BY <2>1, <3>1, <3>2
  <2>4. Tasks!DrainMicro
    BY <2>1, <2>2, <2>3
  <2>5. QED
    BY <1>1, <2>4, DrainMicroDrain
<1>2. QED
  BY <1>1, DrainsKeepPromises, PTL DEF Tasks!Spec, SyncTicksFirst

-----------------------------------------------------------------------------
(* Requests *)

Parts == {"bytes", "ok", "redirect", "garbage"}
Request == [st : {"none", "live", "refused", "failed", "calling", "freed"}, tls : BOOLEAN, shaken : BOOLEAN,
            unsent : 0..2, events : SUBSET {"IN", "OUT"}, read : Seq(Parts), calls : 0..1]
Answer == [data : Seq(Parts), sent : 0..3, end : {"open", "fin", "reset"}]
Promise == [st : {"none", "pending", "fulfilled", "rejected"},
            value : {"none", "error", "response"} \cup Reqs]

\* A request and the promise that waits for it: the promise of a request that is
\* out or could not be sent is pending, that of one called back is settled, and
\* what fulfilled a promise had a whole header.
Matched(q, p) ==
    /\ q.st = "none" => p.st = "none"
    /\ q.st \in {"live", "failed"} => p.st = "pending"
    /\ q.st = "refused" => p.st = "rejected"
    /\ q.st \in {"calling", "freed"} => p.st \in {"fulfilled", "rejected"}
    /\ q.calls = IF q.st \in {"calling", "freed"} THEN 1 ELSE 0
    /\ p.st = "fulfilled" => Len(q.read) >= 2

HttpInv ==
    /\ req \in [Reqs -> Request] /\ answers \in [Reqs -> Answer] /\ promise \in [Reqs -> Promise]
    /\ \A r \in Reqs : Matched(req[r], promise[r])

\* What a change of one request and its promise must show.
LEMMA RequestChanged ==
    ASSUME HttpInv, NEW r \in Reqs, NEW q \in Request, NEW p \in Promise, Matched(q, p),
           req' = [req EXCEPT ![r] = q], promise' = [promise EXCEPT ![r] = p],
           answers' \in [Reqs -> Answer]
    PROVE  HttpInv'
<1>1. req' \in [Reqs -> Request] /\ promise' \in [Reqs -> Promise]
  BY DEF HttpInv
<1>2. ASSUME NEW n \in Reqs PROVE Matched(req'[n], promise'[n])
  <2>1. CASE n = r
    <3>1. req'[n] = q /\ promise'[n] = p
      BY <2>1 DEF HttpInv
    <3>2. QED
      BY <3>1
  <2>2. CASE n # r
    <3>1. req'[n] = req[n] /\ promise'[n] = promise[n]
      BY <2>2 DEF HttpInv
    <3>2. Matched(req[n], promise[n])
      BY DEF HttpInv
    <3>3. QED
      BY <3>1, <3>2
  <2>3. QED
    BY <2>1, <2>2
<1>3. QED
  BY <1>1, <1>2 DEF HttpInv

\* fetch(): a request that is out or failed has a promise that is pending, one
\* that is refused a promise that is rejected.
LEMMA RequestStarted ==
    ASSUME NEW tls \in BOOLEAN, NEW how \in Http!Starts
    PROVE  /\ Http!Started(tls, how) \in Request /\ Http!Awaited(how) \in Promise
           /\ Matched(Http!Started(tls, how), Http!Awaited(how))
<1>1. PICK q : q = Http!Started(tls, how)
  OBVIOUS
<1>2. q = [st |-> how, tls |-> tls, shaken |-> FALSE, unsent |-> 2,
           events |-> {"OUT"}, read |-> <<>>, calls |-> 0]
  BY <1>1 DEF Http!Started, Http!NewReq
<1>3. q \in Request
  BY <1>2 DEF Request, Http!Starts
<1>4. PICK w : w = Http!Awaited(how)
  OBVIOUS
<1>5. w \in Promise /\ w.st = IF how = "refused" THEN "rejected" ELSE "pending"
  BY <1>4 DEF Http!Awaited, Http!None, Promise
<1>6. q.st = how /\ q.calls = 0 /\ how \in {"live", "refused", "failed"}
  BY <1>2 DEF Http!Starts
<1>7. Matched(q, w)
  BY <1>5, <1>6 DEF Matched
<1>8. QED
  BY <1>1, <1>3, <1>4, <1>5, <1>7

\* The callback is called for a request that is out, and settles its promise.
LEMMA RequestSettled ==
    ASSUME NEW q \in Request, NEW p \in Promise, Matched(q, p), q.st = "live",
           NEW u \in Promise, u.st \in {"fulfilled", "rejected"},
           u.st = "fulfilled" => Len(q.read) >= 2,
           NEW c, c = [q EXCEPT !.st = "calling", !.calls = @ + 1]
    PROVE  c \in Request /\ Matched(c, u)
<1>1. q.calls = 0
  BY DEF Matched
<1>2. c = [q EXCEPT !.st = "calling", !.calls = 1]
  <2>1. q.calls + 1 = 1
    BY <1>1
  <2>2. QED
    BY <2>1
<1>3. 1 \in 0..1
  OBVIOUS
<1>4. c \in Request
  BY <1>2, <1>3 DEF Request
<1>5. c.st = "calling" /\ c.calls = 1 /\ c.read = q.read
  BY <1>2 DEF Request
<1>6. QED
  BY <1>4, <1>5 DEF Matched

\* The callback of fetch.js, with the second request that a redirect makes.
LEMMA Delivered ==
    ASSUME HttpInv, NEW r \in Reqs, NEW o, req[r].st = "live", Http!Deliver(r, o),
           o # "error" => Len(req[r].read) >= 2, answers' = answers
    PROVE  HttpInv'
<1>t. /\ req \in [Reqs -> Request] /\ answers' \in [Reqs -> Answer] /\ promise \in [Reqs -> Promise]
      /\ req[r] \in Request /\ promise[r] \in Promise /\ Matched(req[r], promise[r])
  BY DEF HttpInv
<1>1. PICK c : c = [req[r] EXCEPT !.st = "calling", !.calls = @ + 1]
  OBVIOUS
<1>2. ASSUME NEW u \in Promise, u.st \in {"fulfilled", "rejected"},
             u.st = "fulfilled" => Len(req[r].read) >= 2
      PROVE  c \in Request /\ Matched(c, u)
  BY <1>t, <1>1, <1>2, RequestSettled
<1>3. CASE o = "error" /\ req' = [req EXCEPT ![r] = c]
           /\ promise' = [promise EXCEPT ![r] = [st |-> "rejected", value |-> "error"]]
  <2>1. PICK u : u = [st |-> "rejected", value |-> "error"]
    OBVIOUS
  <2>2. u \in Promise /\ u.st = "rejected"
    BY <2>1 DEF Promise
  <2>3. c \in Request /\ Matched(c, u)
    BY <1>2, <2>2
  <2>4. QED
    BY <1>t, <1>3, <2>1, <2>2, <2>3, RequestChanged
<1>4. CASE o = "ok" /\ req' = [req EXCEPT ![r] = c]
           /\ promise' = [promise EXCEPT ![r] = [st |-> "fulfilled", value |-> "response"]]
  <2>1. PICK u : u = [st |-> "fulfilled", value |-> "response"]
    OBVIOUS
  <2>2. u \in Promise /\ u.st = "fulfilled"
    BY <2>1 DEF Promise
  <2>3. c \in Request /\ Matched(c, u)
    BY <1>2, <1>4, <2>2
  <2>4. QED
    BY <1>t, <1>4, <2>1, <2>2, <2>3, RequestChanged
<1>5. ASSUME o = "redirect", NEW n \in Reqs, NEW tls \in BOOLEAN, NEW how \in Http!Starts,
             req[n].st = "none",
             req' = [req EXCEPT ![r] = c, ![n] = Http!Started(tls, how)],
             promise' = [promise EXCEPT ![r] = [st |-> "fulfilled", value |-> n],
                                        ![n] = Http!Awaited(how)]
      PROVE  HttpInv'
  <2>1. n # r
    BY <1>5
  <2>2. PICK u : u = [st |-> "fulfilled", value |-> n]
    OBVIOUS
  <2>3. u \in Promise /\ u.st = "fulfilled"
    BY <2>2 DEF Promise
  <2>4. c \in Request /\ Matched(c, u)
    BY <1>2, <1>5, <2>3
  <2>5. PICK q : q = Http!Started(tls, how)
    OBVIOUS
  <2>6. PICK w : w = Http!Awaited(how)
    OBVIOUS
  <2>8. q \in Request /\ w \in Promise /\ Matched(q, w)
    BY <2>5, <2>6, RequestStarted
  <2>9. /\ req' \in [Reqs -> Request] /\ req'[r] = c /\ req'[n] = q
        /\ \A m \in Reqs : m # r /\ m # n => req'[m] = req[m]
    BY <1>t, <1>5, <2>1, <2>4, <2>5, <2>8
  <2>10. /\ promise' \in [Reqs -> Promise] /\ promise'[r] = u /\ promise'[n] = w
         /\ \A m \in Reqs : m # r /\ m # n => promise'[m] = promise[m]
    BY <1>t, <1>5, <2>1, <2>2, <2>3, <2>6, <2>8
  <2>11. ASSUME NEW m \in Reqs PROVE Matched(req'[m], promise'[m])
    <3>1. CASE m = r
      BY <2>4, <2>9, <2>10, <3>1
    <3>2. CASE m = n
      BY <2>8, <2>9, <2>10, <3>2
    <3>3. CASE m # r /\ m # n
      <4>1. Matched(req[m], promise[m])
        BY DEF HttpInv
      <4>2. QED
        BY <2>9, <2>10, <3>3, <4>1
    <3>4. QED
      BY <3>1, <3>2, <3>3
  <2>12. QED
    BY <1>t, <2>9, <2>10, <2>11 DEF HttpInv
<1>6. PICK g : g = [req EXCEPT ![r].st = "calling", ![r].calls = @ + 1]
  OBVIOUS
<1>7. g = [req EXCEPT ![r] = c]
  BY <1>t, <1>1, <1>6
<1>8. CASE o = "error" /\ req' = g
           /\ promise' = [promise EXCEPT ![r] = [st |-> "rejected", value |-> "error"]]
  BY <1>3, <1>7, <1>8
<1>9. CASE o = "ok" /\ req' = g
           /\ promise' = [promise EXCEPT ![r] = [st |-> "fulfilled", value |-> "response"]]
  BY <1>4, <1>7, <1>9
<1>10. ASSUME o = "redirect", NEW n \in Reqs, NEW tls \in BOOLEAN, NEW how \in Http!Starts,
              req[n].st = "none",
              req' = [g EXCEPT ![n] = Http!Started(tls, how)],
              promise' = [promise EXCEPT ![r] = [st |-> "fulfilled", value |-> n],
                                         ![n] = Http!Awaited(how)]
       PROVE  HttpInv'
  <2>1. req' = [req EXCEPT ![r] = c, ![n] = Http!Started(tls, how)]
    BY <1>7, <1>10
  <2>2. QED
    BY <1>5, <1>10, <2>1
<1>11. \/ o = "error" /\ req' = g
          /\ promise' = [promise EXCEPT ![r] = [st |-> "rejected", value |-> "error"]]
       \/ o = "ok" /\ req' = g
          /\ promise' = [promise EXCEPT ![r] = [st |-> "fulfilled", value |-> "response"]]
       \/ o = "redirect" /\ \E n \in Reqs, tls \in BOOLEAN, how \in Http!Starts :
             /\ req[n].st = "none"
             /\ req' = [g EXCEPT ![n] = Http!Started(tls, how)]
             /\ promise' = [promise EXCEPT ![r] = [st |-> "fulfilled", value |-> n],
                                           ![n] = Http!Awaited(how)]
  BY <1>6 DEF Http!Deliver, Http!None
<1>12. QED
  BY <1>8, <1>9, <1>10, <1>11

\* A request with a whole header is the only one whose response is parsed.
LEMMA Parsed ==
    ASSUME HttpInv, NEW r \in Reqs, req[r].st = "live", Http!ParseAndCall(r), answers' = answers
    PROVE  HttpInv'
<1>1. PICK o : o = Http!Parse(r)
  OBVIOUS
<1>2. req[r].read \in Seq(Parts)
  BY DEF HttpInv, Request
<1>3. o # "error" => Len(req[r].read) >= 2
  BY <1>1, <1>2 DEF Http!Parse
<1>4. CASE Http!Deliver(r, o)
  BY <1>3, <1>4, Delivered
<1>5. CASE o = "redirect" /\ Http!Deliver(r, "ok")
  <2>1. Len(req[r].read) >= 2
    BY <1>3, <1>5
  <2>2. QED
    BY <1>5, <2>1, Delivered
<1>6. QED
  BY <1>1, <1>4, <1>5 DEF Http!ParseAndCall

\* A change of a live request that keeps it live, and of what is still to come
\* from the server, keeps the invariant.
LEMMA LiveChanged ==
    ASSUME HttpInv, NEW r \in Reqs, NEW q \in Request, req[r].st = "live",
           q.st = "live", q.calls = req[r].calls,
           req' = [req EXCEPT ![r] = q], promise' = promise, answers' \in [Reqs -> Answer]
    PROVE  HttpInv'
<1>1. promise[r] \in Promise /\ promise' = [promise EXCEPT ![r] = promise[r]]
  BY DEF HttpInv
<1>2. Matched(req[r], promise[r])
  BY DEF HttpInv
<1>3. promise[r].st = "pending" /\ q.calls = 0
  BY <1>2 DEF Matched
<1>4. Matched(q, promise[r])
  BY <1>3 DEF Matched
<1>5. QED
  BY <1>1, <1>4, RequestChanged

\* Every step of the HTTP client keeps the invariant.
LEMMA NextHttp ==
    ASSUME HttpInv, Http!Next
    PROVE  HttpInv'
<1>t. /\ req \in [Reqs -> Request] /\ answers \in [Reqs -> Answer] /\ promise \in [Reqs -> Promise]
  BY DEF HttpInv
<1>1. PICK r \in Reqs :
        \/ Http!Fetch(r) \/ Http!TlsHandshake(r) \/ Http!Hangup(r)
        \/ Http!SendRequest(r) \/ Http!Receive(r) \/ Http!Return(r)
        \/ Http!ServerSends(r) \/ Http!ServerEnds(r)
  BY DEF Http!Next, Http!System
<1>r. req[r] \in Request /\ promise[r] \in Promise /\ answers[r] \in Answer
      /\ Matched(req[r], promise[r])
  BY DEF HttpInv
<1>2. CASE Http!Fetch(r)
  <2>1. PICK tls \in BOOLEAN, how \in Http!Starts :
             /\ req' = [req EXCEPT ![r] = Http!Started(tls, how)]
             /\ promise' = [promise EXCEPT ![r] = Http!Awaited(how)]
    BY <1>2 DEF Http!Fetch
  <2>2. answers' \in [Reqs -> Answer]
    BY <1>2, <1>t DEF Http!Fetch
  <2>3. /\ Http!Started(tls, how) \in Request /\ Http!Awaited(how) \in Promise
        /\ Matched(Http!Started(tls, how), Http!Awaited(how))
    BY RequestStarted
  <2>4. QED
    BY <2>1, <2>2, <2>3, RequestChanged
<1>3. CASE Http!TlsHandshake(r)
  <2>1. req[r].st = "live" /\ answers' = answers
    BY <1>3 DEF Http!TlsHandshake
  <2>2. CASE Http!Deliver(r, "error")
    BY <2>1, <2>2, Delivered
  <2>3. ASSUME NEW e \in {"IN", "OUT"}, NEW done \in BOOLEAN,
               req' = [req EXCEPT ![r].shaken = done, ![r].events = IF done THEN {"OUT"} ELSE {e}],
               promise' = promise
        PROVE  HttpInv'
    <3>1. PICK q : q = [req[r] EXCEPT !.shaken = done, !.events = IF done THEN {"OUT"} ELSE {e}]
      OBVIOUS
    <3>2. q \in Request /\ q.st = "live" /\ q.calls = req[r].calls
      <4>1. 1 \in 0..2
        OBVIOUS
      <4>2. q \in Request
        BY <1>r, <3>1, <4>1 DEF Request
      <4>3. QED
        BY <1>r, <2>1, <3>1, <4>2 DEF Request
    <3>3. req' = [req EXCEPT ![r] = q]
      BY <1>t, <2>3, <3>1
    <3>4. QED
      BY <1>t, <2>1, <2>3, <3>2, <3>3, LiveChanged
  <2>4. QED
    BY <1>3, <2>2, <2>3 DEF Http!TlsHandshake
<1>4. CASE Http!Hangup(r)
  <2>1. req[r].st = "live" /\ answers' = answers /\ (Http!ParseAndCall(r) \/ Http!Deliver(r, "error"))
    BY <1>4 DEF Http!Hangup, Http!Connected
  <2>2. QED
    BY <2>1, Parsed, Delivered
<1>5. CASE Http!SendRequest(r)
  <2>1. req[r].st = "live" /\ answers' = answers
    BY <1>5 DEF Http!SendRequest, Http!Connected
  <2>2. CASE Http!Deliver(r, "error")
    BY <2>1, <2>2, Delivered
  <2>3. CASE req' = [req EXCEPT ![r].unsent = 1] /\ promise' = promise
    <3>1. PICK q : q = [req[r] EXCEPT !.unsent = 1]
      OBVIOUS
    <3>2. q \in Request /\ q.st = "live" /\ q.calls = req[r].calls
      <4>1. 1 \in 0..2
        OBVIOUS
      <4>2. q \in Request
        BY <1>r, <3>1, <4>1 DEF Request
      <4>3. QED
        BY <1>r, <2>1, <3>1, <4>2 DEF Request
    <3>3. req' = [req EXCEPT ![r] = q]
      BY <1>t, <2>3, <3>1
    <3>4. QED
      BY <1>t, <2>1, <2>3, <3>2, <3>3, LiveChanged
  <2>4. CASE req' = [req EXCEPT ![r].unsent = 0, ![r].events = {"IN"}] /\ promise' = promise
    <3>1. PICK q : q = [req[r] EXCEPT !.unsent = 0, !.events = {"IN"}]
      OBVIOUS
    <3>2. q \in Request /\ q.st = "live" /\ q.calls = req[r].calls
      <4>1. 0 \in 0..2
        OBVIOUS
      <4>2. q \in Request
        BY <1>r, <3>1, <4>1 DEF Request
      <4>3. QED
        BY <1>r, <2>1, <3>1, <4>2 DEF Request
    <3>3. req' = [req EXCEPT ![r] = q]
      BY <1>t, <2>4, <3>1
    <3>4. QED
      BY <1>t, <2>1, <2>4, <3>2, <3>3, LiveChanged
  <2>5. QED
    BY <1>5, <2>2, <2>3, <2>4 DEF Http!SendRequest
<1>6. CASE Http!Receive(r)
  <2>1. req[r].st = "live"
    BY <1>6 DEF Http!Receive, Http!Connected
  <2>2. CASE answers' = answers /\ (Http!ParseAndCall(r) \/ Http!Deliver(r, "error"))
    BY <2>1, <2>2, Parsed, Delivered
  <2>3. ASSUME NEW n \in 1..Len(answers[r].data),
               req' = [req EXCEPT ![r].read = @ \o SubSeq(answers[r].data, 1, n)],
               answers' = [answers EXCEPT ![r].data = SubSeq(@, n + 1, Len(@))],
               promise' = promise
        PROVE  HttpInv'
    <3>1. PICK d : d = answers[r].data
      OBVIOUS
    <3>2. d \in Seq(Parts) /\ req[r].read \in Seq(Parts)
      BY <1>r, <3>1 DEF Request, Answer
    <3>3. PICK a : a = SubSeq(d, 1, n)
      OBVIOUS
    <3>4. PICK b : b = SubSeq(d, n + 1, Len(d))
      OBVIOUS
    <3>5. a \in Seq(Parts) /\ b \in Seq(Parts)
      BY <2>3, <3>1, <3>2, <3>3, <3>4
    <3>6. PICK c : c = req[r].read \o a
      OBVIOUS
    <3>7. c \in Seq(Parts)
      BY <3>2, <3>5, <3>6
    <3>8. PICK q : q = [req[r] EXCEPT !.read = c]
      OBVIOUS
    <3>9. q \in Request /\ q.st = "live" /\ q.calls = req[r].calls
      BY <1>r, <2>1, <3>7, <3>8 DEF Request
    <3>10. req' = [req EXCEPT ![r] = q]
      BY <1>t, <2>3, <3>1, <3>3, <3>6, <3>8
    <3>11. PICK s : s = [answers[r] EXCEPT !.data = b]
      OBVIOUS
    <3>12. s \in Answer
      BY <1>r, <3>5, <3>11 DEF Answer
    <3>13. answers' = [answers EXCEPT ![r] = s]
      BY <1>t, <2>3, <3>1, <3>4, <3>11
    <3>14. answers' \in [Reqs -> Answer]
      BY <1>t, <3>12, <3>13
    <3>15. QED
      BY <2>1, <2>3, <3>9, <3>10, <3>14, LiveChanged
  <2>4. QED
    BY <1>6, <2>2, <2>3 DEF Http!Receive
<1>7. CASE Http!Return(r)
  <2>1. PICK q : q = [req[r] EXCEPT !.st = "freed", !.events = {}]
    OBVIOUS
  <2>2. /\ q \in Request /\ q.st = "freed" /\ q.calls = req[r].calls /\ q.read = req[r].read
    BY <1>r, <2>1 DEF Request
  <2>3. /\ req' = [req EXCEPT ![r] = q] /\ answers' = answers /\ req[r].st = "calling"
        /\ promise' = [promise EXCEPT ![r] = promise[r]]
    BY <1>t, <1>7, <2>1 DEF Http!Return
  <2>4. Matched(q, promise[r])
    BY <1>r, <2>2, <2>3 DEF Matched
  <2>5. QED
    BY <1>t, <1>r, <2>2, <2>3, <2>4, RequestChanged
<1>8. CASE Http!ServerSends(r) \/ Http!ServerEnds(r)
  <2>1. req' = req /\ promise' = promise
    BY <1>8 DEF Http!ServerSends, Http!ServerEnds
  <2>2. CASE Http!ServerSends(r)
    <3>1. PICK s \in Parts : answers' = [answers EXCEPT ![r].data = Append(@, s), ![r].sent = @ + 1]
      BY <2>2 DEF Http!ServerSends, Http!Statuses, Parts
    <3>2. answers[r].sent < 3 /\ answers[r].data \in Seq(Parts) /\ answers[r].sent \in 0..3
      BY <1>r, <2>2 DEF Http!ServerSends, Answer
    <3>3. PICK d : d = Append(answers[r].data, s)
      OBVIOUS
    <3>4. d \in Seq(Parts) /\ answers[r].sent + 1 \in 0..3
      BY <3>2, <3>3
    <3>5. PICK a : a = [answers[r] EXCEPT !.data = d, !.sent = answers[r].sent + 1]
      OBVIOUS
    <3>6. a \in Answer
      BY <1>r, <3>4, <3>5 DEF Answer
    <3>7. answers' = [answers EXCEPT ![r] = a]
      BY <1>t, <1>r, <3>1, <3>3, <3>5 DEF Answer
    <3>8. QED
      BY <1>t, <2>1, <3>6, <3>7 DEF HttpInv
  <2>3. CASE Http!ServerEnds(r)
    <3>1. PICK e \in {"fin", "reset"} : answers' = [answers EXCEPT ![r].end = e]
      BY <2>3 DEF Http!ServerEnds
    <3>2. answers' \in [Reqs -> Answer]
      BY <1>t, <3>1 DEF Answer
    <3>3. QED
      BY <1>t, <2>1, <3>2 DEF HttpInv
  <2>4. QED
    BY <1>8, <2>2, <2>3
<1>9. QED
  BY <1>1, <1>2, <1>3, <1>4, <1>5, <1>6, <1>7, <1>8

\* Before the first fetch() no request was called back and no promise settled.
LEMMA InitHttp == Http!Init => HttpInv
<1>1. SUFFICES ASSUME Http!Init PROVE HttpInv
  OBVIOUS
<1>2. req \in [Reqs -> Request] /\ \A r \in Reqs : req[r].st = "none" /\ req[r].calls = 0
  <2>1. PICK q : q = [st |-> "none", tls |-> FALSE, shaken |-> FALSE, unsent |-> 2,
                      events |-> {}, read |-> <<>>, calls |-> 0]
    OBVIOUS
  <2>2. q \in Request /\ q.st = "none" /\ q.calls = 0
    BY <2>1 DEF Request
  <2>3. [Http!NewReq(FALSE) EXCEPT !.st = Http!None, !.events = {}] = q
    <3>1. PICK a : a = [st |-> "live", tls |-> FALSE, shaken |-> FALSE, unsent |-> 2,
                        events |-> {"OUT"}, read |-> <<>>, calls |-> 0]
      OBVIOUS
    <3>2. PICK b : b = [a EXCEPT !.st = "none", !.events = {}]
      OBVIOUS
    <3>3. b = [st |-> "none", tls |-> FALSE, shaken |-> FALSE, unsent |-> 2,
               events |-> {}, read |-> <<>>, calls |-> 0]
      BY <3>1, <3>2
    <3>4. Http!NewReq(FALSE) = a /\ Http!None = "none"
      BY <3>1 DEF Http!NewReq, Http!None
    <3>5. b = q
      BY <2>1, <3>3
    <3>6. QED
      BY <3>2, <3>4, <3>5
  <2>4. req = [r \in Reqs |-> q]
    BY <1>1, <2>3 DEF Http!Init
  <2>5. QED
    BY <2>2, <2>4
<1>3. answers \in [Reqs -> Answer]
  BY <1>1 DEF Http!Init, Answer
<1>4. promise \in [Reqs -> Promise] /\ \A r \in Reqs : promise[r].st = "none"
  BY <1>1 DEF Http!Init, Http!None, Promise
<1>5. QED
  BY <1>2, <1>3, <1>4 DEF HttpInv, Matched

\* Whatever the server, the connection and the other requests do, the callback
\* of a request is called at most once and settles its promise; a promise settled
\* without it is rejected because fetch() refused the protocol; one whose connection
\* could not be set up stays pending; and a promise is fulfilled only by a response
\* with a whole header.
THEOREM RequestsSettleOnce == Http!Spec => []RequestsCalledBackOnce
<1>1. ASSUME HttpInv, [Http!Next]_(Http!vars) PROVE HttpInv'
  <2>1. CASE Http!Next
    BY <1>1, <2>1, NextHttp
  <2>2. CASE UNCHANGED Http!vars
    BY <1>1, <2>2 DEF Http!vars, HttpInv
  <2>3. QED
    BY <1>1, <2>1, <2>2
<1>2. ASSUME HttpInv PROVE RequestsCalledBackOnce
  <2>1. Http!TypeOK
    BY <1>2 DEF HttpInv, Http!TypeOK, Http!None, Http!Starts, Request, Answer, Promise
  <2>2. Http!CalledBackOnce
    BY <1>2 DEF HttpInv, Http!CalledBackOnce, Matched, Request
  <2>3. QED
    BY <2>1, <2>2 DEF RequestsCalledBackOnce
<1>3. QED
  BY <1>1, <1>2, InitHttp, PTL DEF Http!Spec

-----------------------------------------------------------------------------
(* Datagrams *)

Handle == [fd : {"unused", "open", "closed"}, listed : BOOLEAN, bound : BOOLEAN]
Log == [data : SUBSET Nat, closed : Nat, calls : Nat]
Packet == [to : Sockets, n : Nat]

\* A socket is in the event loop while its descriptor is open, and 'close' was
\* emitted when it is closed.
SocketInv ==
    /\ sock \in [Sockets -> Handle] /\ received \in [Sockets -> Log] /\ due \subseteq Sockets
    /\ \A s \in Sockets :
          /\ sock[s].listed <=> sock[s].fd = "open"
          /\ sock[s].fd = "closed" => received[s].closed = 1
          /\ sock[s].fd # "closed" => received[s].closed = 0

\* A datagram is under way once, and never both under way or in a receive
\* buffer and already delivered.
NumberInv ==
    /\ sends \in 0..MaxSends /\ net \subseteq Packet /\ inbox \in [Sockets -> SUBSET Nat]
    /\ \A d \in net : /\ d.n \in 1..sends
                      /\ d.n \notin inbox[d.to] /\ d.n \notin received[d.to].data
    /\ \A d, e \in net : d.n = e.n => d = e
    /\ \A s \in Sockets : /\ inbox[s] \subseteq 1..sends /\ received[s].data \subseteq 1..sends
                          /\ inbox[s] \cap received[s].data = {}

\* The receive buffers keep to their size, and every call of 'message' brought
\* a datagram of its own.
CountInv ==
    \A s \in Sockets : /\ Cardinality(inbox[s]) <= Buffer
                       /\ received[s].calls = Cardinality(received[s].data)

\* Cardinality is the same operator inside and outside the instance.
LEMMA SameCardinality == \A S : Dgram!Cardinality(S) = Cardinality(S)
  BY DEF Dgram!Cardinality, Cardinality

\* One datagram more, or less, in a set of them.
LEMMA OneDatagram ==
    ASSUME NEW k \in Nat, NEW S \in SUBSET (1..k), NEW n
    PROVE  /\ Cardinality(S) \in Nat
           /\ n \notin S => Cardinality(S \cup {n}) = Cardinality(S) + 1
           /\ Cardinality(S \ {n}) <= Cardinality(S)
<1>1. IsFiniteSet(S)
  <2>1. IsFiniteSet(1..k)
    BY FS_Interval
  <2>2. QED
    BY <2>1, FS_Subset
<1>2. Cardinality(S) \in Nat
  BY <1>1, FS_CardinalityType
<1>3. n \notin S => Cardinality(S \cup {n}) = Cardinality(S) + 1
  BY <1>1, FS_AddElement
<1>4. S \ {n} \subseteq S
  OBVIOUS
<1>5. Cardinality(S \ {n}) <= Cardinality(S)
  BY <1>1, <1>4, FS_Subset
<1>6. QED
  BY <1>2, <1>3, <1>5

\* send(): the number is new.
LEMMA SendDgram ==
    ASSUME SocketInv, NumberInv, CountInv, NEW s \in Sockets, NEW t \in Sockets, Dgram!Send(s, t)
    PROVE  SocketInv' /\ NumberInv' /\ CountInv'
<1>1. /\ sends < MaxSends /\ sends' = sends + 1 /\ UNCHANGED <<sock, inbox, due, received>>
      /\ net' \subseteq net \cup {[to |-> t, n |-> sends + 1]}
  BY DEF Dgram!Send
<1>2. sends \in Nat /\ MaxSends \in Nat /\ sends' \in 0..MaxSends
  BY <1>1, TransportAssumption DEF NumberInv, Dgram!DgramAssumption
<1>3. PICK p : p = [to |-> t, n |-> sends + 1]
  OBVIOUS
<1>4. p \in Packet /\ p.n = sends + 1 /\ p.to = t
  BY <1>2, <1>3 DEF Packet
<1>5. ASSUME NEW d \in net' PROVE d = p \/ d \in net
  BY <1>1, <1>3
<1>6. net' \subseteq Packet
  BY <1>4, <1>5 DEF NumberInv
<1>7. \A k \in 1..sends : k \in 1..(sends + 1) /\ k # sends + 1
  BY <1>2
<1>8. \A r \in Sockets : /\ inbox[r] \subseteq 1..(sends + 1) /\ received[r].data \subseteq 1..(sends + 1)
                         /\ sends + 1 \notin inbox[r] /\ sends + 1 \notin received[r].data
  BY <1>7 DEF NumberInv
<1>9. ASSUME NEW d \in net'
      PROVE  d.n \in 1..(sends + 1) /\ d.n \notin inbox[d.to] /\ d.n \notin received[d.to].data
  <2>1. CASE d = p
    <3>1. sends + 1 \in 1..(sends + 1)
      BY <1>2
    <3>2. QED
      BY <1>4, <1>8, <2>1, <3>1
  <2>2. CASE d \in net
    BY <1>7, <2>2 DEF NumberInv
  <2>3. QED
    BY <1>5, <2>1, <2>2
<1>10. ASSUME NEW d \in net', NEW e \in net', d.n = e.n PROVE d = e
  <2>1. \A c \in net : c.n # p.n
    BY <1>4, <1>7 DEF NumberInv
  <2>2. QED
    BY <1>5, <1>10, <2>1 DEF NumberInv
<1>11. NumberInv'
  BY <1>1, <1>2, <1>6, <1>8, <1>9, <1>10 DEF NumberInv
<1>12. SocketInv' /\ CountInv'
  BY <1>1 DEF SocketInv, CountInv
<1>13. QED
  BY <1>11, <1>12

\* The kernel puts a datagram in the buffer of its socket, or drops it.
LEMMA ArriveDgram ==
    ASSUME SocketInv, NumberInv, CountInv, NEW d \in net, Dgram!Arrive(d)
    PROVE  SocketInv' /\ NumberInv' /\ CountInv'
<1>1. net' = net \ {d} /\ UNCHANGED <<sock, sends, due, received>>
  BY DEF Dgram!Arrive
<1>2. d \in Packet /\ d.to \in Sockets /\ d.n \in 1..sends
  BY DEF NumberInv, Packet
<1>3. SocketInv'
  BY <1>1 DEF SocketInv
<1>4. CASE inbox' = inbox
  BY <1>1, <1>3, <1>4 DEF NumberInv, CountInv
<1>5. CASE /\ Cardinality(inbox[d.to]) < Buffer
           /\ inbox' = [inbox EXCEPT ![d.to] = @ \cup {d.n}]
  <2>1. PICK t : t = d.to
    OBVIOUS
  <2>2. PICK k : k = d.n
    OBVIOUS
  <2>3. /\ t \in Sockets /\ k \in 1..sends /\ sends \in Nat
        /\ k \notin inbox[t] /\ k \notin received[t].data
        /\ inbox \in [Sockets -> SUBSET Nat]
    BY <1>2, <2>1, <2>2 DEF NumberInv
  <2>4. /\ inbox'[t] = inbox[t] \cup {k} /\ \A s \in Sockets : s # t => inbox'[s] = inbox[s]
        /\ inbox' \in [Sockets -> SUBSET Nat]
    BY <1>5, <2>1, <2>2, <2>3
  <2>5. \A e \in net' : e \in net /\ e.n # k
    BY <1>1, <2>2 DEF NumberInv
  <2>6. ASSUME NEW e \in net' PROVE e.n \notin inbox'[e.to]
    <3>1. e.n \notin inbox[e.to] /\ e.n # k /\ e.to \in Sockets
      BY <2>5 DEF NumberInv, Packet
    <3>2. QED
      BY <2>4, <3>1
  <2>7. \A s \in Sockets : inbox'[s] \subseteq 1..sends /\ inbox'[s] \cap received[s].data = {}
    BY <2>3, <2>4 DEF NumberInv
  <2>8. NumberInv'
    BY <1>1, <2>4, <2>5, <2>6, <2>7 DEF NumberInv
  <2>9. inbox[t] \in SUBSET (1..sends) /\ Buffer \in Nat
    BY <2>3, TransportAssumption DEF NumberInv, Dgram!DgramAssumption
  <2>10. Cardinality(inbox[t]) \in Nat /\ Cardinality(inbox[t] \cup {k}) = Cardinality(inbox[t]) + 1
    BY <2>3, <2>9, OneDatagram
  <2>11. Cardinality(inbox'[t]) <= Buffer
    BY <1>5, <2>1, <2>4, <2>9, <2>10
  <2>12. CountInv'
    BY <1>1, <2>4, <2>11 DEF CountInv
  <2>13. QED
    BY <1>3, <2>8, <2>12
<1>6. QED
  BY <1>4, <1>5, SameCardinality DEF Dgram!Arrive

\* close(): the receive buffer goes with the descriptor.
LEMMA CloseDgram ==
    ASSUME SocketInv, NumberInv, CountInv, NEW s \in Sockets, Dgram!Close(s)
    PROVE  SocketInv' /\ NumberInv' /\ CountInv'
<1>1. /\ sock[s].fd = "open" /\ UNCHANGED <<net, sends, due>>
      /\ sock' = [sock EXCEPT ![s].fd = "closed", ![s].listed = FALSE]
      /\ inbox' = [inbox EXCEPT ![s] = {}]
      /\ received' = [received EXCEPT ![s].closed = @ + 1]
  BY DEF Dgram!Close
<1>2. /\ sock \in [Sockets -> Handle] /\ received \in [Sockets -> Log]
      /\ inbox \in [Sockets -> SUBSET Nat]
      /\ sock[s] \in Handle /\ received[s] \in Log /\ received[s].closed = 0
  BY <1>1 DEF SocketInv, NumberInv
<1>3. PICK h : h = [sock[s] EXCEPT !.fd = "closed", !.listed = FALSE]
  OBVIOUS
<1>4. h \in Handle /\ h.fd = "closed" /\ h.listed = FALSE
  BY <1>2, <1>3 DEF Handle
<1>5. PICK l : l = [received[s] EXCEPT !.closed = 1]
  OBVIOUS
<1>6. l \in Log /\ l.closed = 1 /\ l.data = received[s].data /\ l.calls = received[s].calls
  BY <1>2, <1>5 DEF Log
<1>7. /\ sock' = [sock EXCEPT ![s] = h] /\ received' = [received EXCEPT ![s] = l]
  <2>1. sock' = [sock EXCEPT ![s] = h]
    BY <1>1, <1>2, <1>3
  <2>2. [received[s] EXCEPT !.closed = @ + 1] = l
    BY <1>2, <1>5
  <2>3. received' = [received EXCEPT ![s] = l]
    BY <1>1, <1>2, <2>2
  <2>4. QED
    BY <2>1, <2>3
<1>8. /\ sock' \in [Sockets -> Handle] /\ sock'[s] = h
      /\ \A t \in Sockets : t # s => sock'[t] = sock[t]
  BY <1>2, <1>4, <1>7
<1>9. /\ received' \in [Sockets -> Log] /\ received'[s] = l
      /\ \A t \in Sockets : t # s => received'[t] = received[t]
  BY <1>2, <1>6, <1>7
<1>10. /\ inbox' \in [Sockets -> SUBSET Nat] /\ inbox'[s] = {}
       /\ \A t \in Sockets : t # s => inbox'[t] = inbox[t]
  BY <1>1, <1>2
<1>11. \A t \in Sockets : /\ received'[t].data = received[t].data
                          /\ received'[t].calls = received[t].calls
                          /\ inbox'[t] \subseteq inbox[t]
  BY <1>6, <1>9, <1>10
<1>12. SocketInv'
  <2>1. ASSUME NEW t \in Sockets
        PROVE  /\ sock'[t].listed <=> sock'[t].fd = "open"
               /\ sock'[t].fd = "closed" => received'[t].closed = 1
               /\ sock'[t].fd # "closed" => received'[t].closed = 0
    <3>1. CASE t = s
      BY <1>4, <1>6, <1>8, <1>9, <3>1
    <3>2. CASE t # s
      BY <1>8, <1>9, <3>2 DEF SocketInv
    <3>3. QED
      BY <3>1, <3>2
  <2>2. due' \subseteq Sockets
    BY <1>1 DEF SocketInv
  <2>3. QED
    BY <1>8, <1>9, <2>1, <2>2 DEF SocketInv
<1>13. NumberInv'
  <2>1. \A e \in net : e.to \in Sockets
    BY DEF NumberInv, Packet
  <2>2. \A e \in net : e.n \notin inbox'[e.to] /\ e.n \notin received'[e.to].data
    BY <1>11, <2>1 DEF NumberInv
  <2>3. \A t \in Sockets : /\ inbox'[t] \subseteq 1..sends /\ received'[t].data \subseteq 1..sends
                           /\ inbox'[t] \cap received'[t].data = {}
    BY <1>11 DEF NumberInv
  <2>4. QED
    BY <1>1, <1>10, <2>2, <2>3 DEF NumberInv
<1>14. CountInv'
  <2>1. Cardinality({}) <= Buffer
    BY FS_EmptySet, TransportAssumption DEF Dgram!DgramAssumption
  <2>2. \A t \in Sockets : Cardinality(inbox'[t]) <= Buffer
    BY <1>10, <2>1 DEF CountInv
  <2>3. QED
    BY <1>11, <2>2 DEF CountInv
<1>15. QED
  BY <1>12, <1>13, <1>14

\* dgram_io_cb: a datagram moves from the receive buffer to 'message'.
LEMMA CallbackDgram ==
    ASSUME SocketInv, NumberInv, CountInv, NEW s \in Sockets, Dgram!Callback(s)
    PROVE  SocketInv' /\ NumberInv' /\ CountInv'
<1>1. due' = due \ {s} /\ UNCHANGED <<sock, net, sends>>
  BY DEF Dgram!Callback
<1>2. CASE UNCHANGED <<inbox, received>>
  BY <1>1, <1>2 DEF SocketInv, NumberInv, CountInv
<1>3. ASSUME NEW n \in inbox[s], inbox' = [inbox EXCEPT ![s] = @ \ {n}],
             received' = [received EXCEPT ![s].data = @ \cup {n}, ![s].calls = @ + 1]
      PROVE  SocketInv' /\ NumberInv' /\ CountInv'
  <2>1. /\ received \in [Sockets -> Log] /\ inbox \in [Sockets -> SUBSET Nat] /\ sends \in Nat
        /\ received[s] \in Log /\ n \in Nat /\ n \in 1..sends /\ n \notin received[s].data
    BY <1>3 DEF SocketInv, NumberInv
  <2>2. PICK l : l = [received[s] EXCEPT !.data = @ \cup {n}, !.calls = @ + 1]
    OBVIOUS
  <2>3. /\ l \in Log /\ l.closed = received[s].closed /\ l.data = received[s].data \cup {n}
        /\ l.calls = received[s].calls + 1
    <3>1. /\ received[s].data \cup {n} \in SUBSET Nat /\ received[s].closed \in Nat
          /\ received[s].calls + 1 \in Nat
      BY <2>1 DEF Log
    <3>2. l = [data |-> received[s].data \cup {n}, closed |-> received[s].closed,
               calls |-> received[s].calls + 1]
      BY <2>1, <2>2 DEF Log
    <3>3. QED
      BY <3>1, <3>2 DEF Log
  <2>4. received' = [received EXCEPT ![s] = l]
    BY <1>3, <2>1, <2>2
  <2>5. /\ received' \in [Sockets -> Log] /\ received'[s] = l
        /\ \A t \in Sockets : t # s => received'[t] = received[t]
    BY <2>1, <2>3, <2>4
  <2>6. /\ inbox' \in [Sockets -> SUBSET Nat] /\ inbox'[s] = inbox[s] \ {n}
        /\ \A t \in Sockets : t # s => inbox'[t] = inbox[t]
    BY <1>3, <2>1
  <2>7. SocketInv'
    <3>1. \A t \in Sockets : received'[t].closed = received[t].closed
      BY <2>3, <2>5
    <3>2. QED
      BY <1>1, <2>5, <3>1 DEF SocketInv
  <2>8. NumberInv'
    <3>1. ASSUME NEW e \in net
          PROVE  e.n \notin inbox'[e.to] /\ e.n \notin received'[e.to].data
      <4>1. e.to \in Sockets /\ e.n \notin inbox[e.to] /\ e.n \notin received[e.to].data
        BY DEF NumberInv, Packet
      <4>2. CASE e.to = s
        <5>1. e.n # n
          BY <1>3, <4>1, <4>2
        <5>2. QED
          BY <2>3, <2>5, <2>6, <4>1, <4>2, <5>1
      <4>3. CASE e.to # s
        BY <2>5, <2>6, <4>1, <4>3
      <4>4. QED
        BY <4>2, <4>3
    <3>2. ASSUME NEW t \in Sockets
          PROVE  /\ inbox'[t] \subseteq 1..sends /\ received'[t].data \subseteq 1..sends
                 /\ inbox'[t] \cap received'[t].data = {}
      <4>1. /\ inbox[t] \subseteq 1..sends /\ received[t].data \subseteq 1..sends
            /\ inbox[t] \cap received[t].data = {}
        BY DEF NumberInv
      <4>2. CASE t = s
        BY <2>1, <2>3, <2>5, <2>6, <4>1, <4>2
      <4>3. CASE t # s
        BY <2>5, <2>6, <4>1, <4>3
      <4>4. QED
        BY <4>2, <4>3
    <3>3. QED
      BY <1>1, <2>6, <3>1, <3>2 DEF NumberInv
  <2>9. CountInv'
    <3>1. inbox[s] \in SUBSET (1..sends) /\ received[s].data \in SUBSET (1..sends)
      BY DEF NumberInv
    <3>2. /\ Cardinality(inbox[s]) \in Nat /\ Cardinality(inbox[s] \ {n}) <= Cardinality(inbox[s])
          /\ Cardinality(inbox[s] \ {n}) \in Nat
      <4>1. inbox[s] \ {n} \in SUBSET (1..sends)
        BY <3>1
      <4>2. QED
        BY <2>1, <3>1, <4>1, OneDatagram
    <3>3. Cardinality(received[s].data \cup {n}) = Cardinality(received[s].data) + 1
      BY <2>1, <3>1, OneDatagram
    <3>4. Buffer \in Nat /\ Cardinality(inbox[s]) <= Buffer
          /\ received[s].calls = Cardinality(received[s].data)
      BY TransportAssumption DEF CountInv, Dgram!DgramAssumption
    <3>5. Cardinality(inbox'[s]) <= Buffer
      BY <2>6, <3>2, <3>4
    <3>6. received'[s].calls = Cardinality(received'[s].data)
      BY <2>3, <2>5, <3>3, <3>4
    <3>7. QED
      BY <2>5, <2>6, <3>5, <3>6 DEF CountInv
  <2>10. QED
    BY <2>7, <2>8, <2>9
<1>4. QED
  BY <1>2, <1>3 DEF Dgram!Callback

\* Every step of the sockets, the network and the timers keeps the invariant.
LEMMA NextDgram ==
    ASSUME SocketInv, NumberInv, CountInv, Dgram!Next
    PROVE  SocketInv' /\ NumberInv' /\ CountInv'
<1>1. CASE Dgram!Poll \/ Dgram!Return \/ \E t \in timers : Dgram!Timer(t)
  <2>1. UNCHANGED <<sock, inbox, net, sends, received>> /\ (due' = due \/ due' \subseteq Sockets)
    BY <1>1 DEF Dgram!Poll, Dgram!Return, Dgram!Timer
  <2>2. QED
    BY <2>1 DEF SocketInv, NumberInv, CountInv
<1>2. ASSUME NEW s \in Sockets, Dgram!Create(s) \/ Dgram!Bind(s)
      PROVE  SocketInv' /\ NumberInv' /\ CountInv'
  <2>1. UNCHANGED <<inbox, net, sends, received, due>>
    BY <1>2 DEF Dgram!Create, Dgram!Bind
  <2>2. PICK h : h = sock'[s]
    OBVIOUS
  <2>3. sock \in [Sockets -> Handle] /\ sock[s] \in Handle
    BY DEF SocketInv
  <2>4. /\ sock' \in [Sockets -> Handle] /\ \A t \in Sockets : t # s => sock'[t] = sock[t]
        /\ h.listed <=> h.fd = "open"
        /\ h.fd = "open" /\ sock[s].fd # "closed"
    <3>1. CASE Dgram!Create(s)
      BY <2>2, <2>3, <3>1 DEF Dgram!Create, Handle
    <3>2. CASE Dgram!Bind(s)
      <4>1. sock[s].listed
        BY <3>2 DEF Dgram!Bind, SocketInv
      <4>2. QED
        BY <2>2, <2>3, <3>2, <4>1 DEF Dgram!Bind, Handle
    <3>3. QED
      BY <1>2, <3>1, <3>2
  <2>5. SocketInv'
    BY <2>1, <2>2, <2>4 DEF SocketInv
  <2>6. QED
    BY <2>1, <2>5 DEF NumberInv, CountInv
<1>3. QED
  BY <1>1, <1>2, SendDgram, ArriveDgram, CloseDgram, CallbackDgram DEF Dgram!Next

\* Before the first socket nothing is under way and nothing was delivered.
LEMMA InitDgram == Dgram!Init => SocketInv /\ NumberInv /\ CountInv
<1>1. SUFFICES ASSUME Dgram!Init PROVE SocketInv /\ NumberInv /\ CountInv
  OBVIOUS
<1>2. SocketInv
  BY <1>1 DEF Dgram!Init, SocketInv, Handle, Log
<1>3. NumberInv
  BY <1>1, TransportAssumption DEF Dgram!Init, NumberInv, Dgram!DgramAssumption
<1>4. Cardinality({}) = 0 /\ Buffer \in Nat
  BY FS_EmptySet, TransportAssumption DEF Dgram!DgramAssumption
<1>i. \A s \in Sockets : inbox[s] = {} /\ received[s].data = {} /\ received[s].calls = 0
  BY <1>1 DEF Dgram!Init
<1>5. CountInv
  <2>1. SUFFICES ASSUME NEW s \in Sockets
                 PROVE  /\ Cardinality(inbox[s]) <= Buffer
                        /\ received[s].calls = Cardinality(received[s].data)
    BY DEF CountInv
  <2>2. inbox[s] = {} /\ received[s].data = {} /\ received[s].calls = 0
    BY <1>i
  <2>3. QED
    BY <1>4, <2>2
<1>6. QED
  BY <1>2, <1>3, <1>5

\* However the network drops and reorders, and whichever callback closes which
\* socket, a datagram is delivered at most once, 'close' is emitted at most
\* once, and 'message' never follows it.
THEOREM DatagramsArriveOnce == Dgram!Spec => DatagramsOnce
<1> DEFINE Inv == SocketInv /\ NumberInv /\ CountInv
<1>1. Dgram!Init => Inv
  BY InitDgram
<1>2. ASSUME Inv, [Dgram!Next]_(Dgram!vars) PROVE Inv'
  <2>1. CASE Dgram!Next
    BY <1>2, <2>1, NextDgram
  <2>2. CASE UNCHANGED Dgram!vars
    BY <1>2, <2>2 DEF Dgram!vars, SocketInv, NumberInv, CountInv
  <2>3. QED
    BY <1>2, <2>1, <2>2
<1>3. ASSUME Inv PROVE Dgram!TypeOK /\ Dgram!DeliveredOnce
  <2>1. Dgram!TypeOK
    BY <1>3, SameCardinality DEF SocketInv, NumberInv, CountInv, Handle, Dgram!TypeOK
  <2>2. \A s \in Sockets : received[s].closed <= 1
    BY <1>3 DEF SocketInv
  <2>3. Dgram!DeliveredOnce
    BY <1>3, <2>2, SameCardinality DEF SocketInv, CountInv, Dgram!DeliveredOnce
  <2>4. QED
    BY <2>1, <2>3
<1>4. ASSUME Inv, Dgram!Next PROVE Dgram!NothingAfterClose
  <2>1. SUFFICES ASSUME NEW s \in Sockets, sock[s].fd = "closed" PROVE received'[s] = received[s]
    BY DEF Dgram!NothingAfterClose
  <2>2. received \in [Sockets -> Log] /\ ~sock[s].listed
    BY <1>4, <2>1 DEF SocketInv
  <2>3. \/ UNCHANGED received
        \/ \E t \in Sockets : Dgram!Close(t) \/ Dgram!Callback(t)
    BY <1>4 DEF Dgram!Next, Dgram!Poll, Dgram!Return, Dgram!Timer, Dgram!Create, Dgram!Bind,
       Dgram!Send, Dgram!Arrive
  <2>4. ASSUME NEW t \in Sockets, Dgram!Close(t) PROVE received'[s] = received[s]
    <3>1. t # s
      BY <2>1, <2>4 DEF Dgram!Close
    <3>2. QED
      BY <2>2, <2>4, <3>1 DEF Dgram!Close
  <2>5. ASSUME NEW t \in Sockets, Dgram!Callback(t) PROVE received'[s] = received[s]
    <3>1. CASE t = s
      BY <2>2, <2>5, <3>1 DEF Dgram!Callback
    <3>2. CASE t # s
      BY <2>2, <2>5, <3>2 DEF Dgram!Callback
    <3>3. QED
      BY <3>1, <3>2
  <2>6. QED
    BY <2>3, <2>4, <2>5
<1>5. ASSUME Inv, Inv', [Dgram!Next]_(Dgram!vars)
      PROVE  [Dgram!TypeOK' /\ Dgram!DeliveredOnce' /\ Dgram!NothingAfterClose]_(Dgram!vars)
  <2>1. Inv' => Dgram!TypeOK' /\ Dgram!DeliveredOnce'
    BY <1>3, PTL
  <2>2. QED
    BY <1>4, <1>5, <2>1
<1>6. QED
  BY <1>1, <1>2, <1>5, PTL DEF Dgram!Spec, DatagramsOnce

=============================================================================
