----------------------- MODULE ExecutionEngine_proofs -----------------------
(***************************************************************************)
(* Proofs about module ExecutionEngine, for every set of goroutines and    *)
(* hotkeys, every table of priorities and policies and every number of     *)
(* triggers.                                                               *)
(*                                                                         *)
(* The inductive invariant IInv adds to the properties what each of them   *)
(* leans on: the run queues seen through the set of their entries, who the *)
(* VM thread has in hand when it is past pickNext(), and which goroutines  *)
(* may be Done while their slice runs.  The lemmas on the queues come      *)
(* first, then what each method does, the invariant, and the life of a     *)
(* trigger under the merging policies.                                     *)
(***************************************************************************)
EXTENDS ExecutionEngine, SequenceTheorems, TLAPS

-----------------------------------------------------------------------------
(* One run queue without duplicates: what a purge, a push to the front, a  *)
(* push to the back and a pop do to its entries.                            *)

\* A queue over T that holds nobody twice.
Clean(q, T) == q \in Seq(T) /\ IsInjective(q)

\* The two ways the proofs below look at a clean queue: by position, and by
\* the set of its entries.
LEMMA CleanByPosition ==
    ASSUME NEW T, NEW q \in Seq(T)
    PROVE  /\ Len(q) \in Nat /\ DOMAIN q = 1..Len(q)
           /\ IsInjective(q) <=>
                \A j, k \in 1..Len(q) : q[j] = q[k] => j = k
           /\ \A x : x \in Range(q) <=> \E k \in 1..Len(q) : q[k] = x
<1>1. Len(q) \in Nat /\ DOMAIN q = 1..Len(q)
  BY LenProperties
<1>2. IsInjective(q) <=> \A j, k \in 1..Len(q) : q[j] = q[k] => j = k
  BY <1>1 DEF IsInjective
<1>3. \A x : x \in Range(q) <=> \E k \in 1..Len(q) : q[k] = x
  BY <1>1 DEF Range
<1> QED BY <1>1, <1>2, <1>3

\* Purge drops exactly g and keeps the rest free of duplicates.
LEMMA PurgeClean ==
    ASSUME NEW T, NEW q, Clean(q, T), NEW g
    PROVE  Clean(Purge(q, g), T) /\ Range(Purge(q, g)) = Range(q) \ {g}
<1> USE DEF Clean
<1>1. CASE g \notin Range(q)
  BY <1>1 DEF Purge
<1>2. CASE g \in Range(q)
  <2> DEFINE i == CHOOSE k \in DOMAIN q : q[k] = g
             a == SubSeq(q, 1, i - 1)
             b == SubSeq(q, i + 1, Len(q))
             r == a \o b
  <2>1. /\ Len(q) \in Nat /\ DOMAIN q = 1..Len(q)
        /\ \A j, k \in 1..Len(q) : q[j] = q[k] => j = k
        /\ \A k \in 1..Len(q) : q[k] \in T
        /\ \A x : x \in Range(q) <=> \E k \in 1..Len(q) : q[k] = x
    BY CleanByPosition, ElementOfSeq
  <2>2. i \in 1..Len(q) /\ q[i] = g
    BY <1>2, <2>1
  <2>3. Purge(q, g) = r
    BY <1>2 DEF Purge
  <2> HIDE DEF i
  <2>4. /\ a \in Seq(T) /\ Len(a) = i - 1
        /\ \A k \in 1..(i - 1) : a[k] = q[k]
    BY <2>1, <2>2, SubSeqProperties
  <2>5. /\ b \in Seq(T) /\ Len(b) = Len(q) - i
        /\ \A k \in 1..(Len(q) - i) : b[k] = q[i + k]
    <3>1. i + 1 \in Int /\ Len(q) \in Int /\ \A k \in (i + 1)..Len(q) : q[k] \in T
      BY <2>1, <2>2
    <3>2. /\ b \in Seq(T)
          /\ Len(b) = IF i + 1 <= Len(q) THEN Len(q) - (i + 1) + 1 ELSE 0
          /\ \A k \in 1..(Len(q) - (i + 1) + 1) : b[k] = q[(i + 1) + k - 1]
      BY <3>1, SubSeqProperties
    <3> HIDE DEF b
    <3>3. Len(b) = Len(q) - i
      <4> DEFINE n == Len(q)
      <4>1. n \in Nat /\ i \in Nat /\ i <= n
        BY <2>1, <2>2
      <4>2. Len(b) = IF i + 1 <= n THEN n - (i + 1) + 1 ELSE 0
        BY <3>2
      <4> HIDE DEF n
      <4>3. Len(b) = n - i
        BY <4>1, <4>2
      <4> QED BY <4>3 DEF n
    <3>4. ASSUME NEW k \in 1..(Len(q) - i) PROVE b[k] = q[i + k]
      <4>1. k \in 1..(Len(q) - (i + 1) + 1) /\ (i + 1) + k - 1 = i + k
        BY <2>1, <2>2
      <4> QED BY <3>2, <4>1
    <3> QED BY <3>2, <3>3, <3>4
  <2> HIDE DEF a, b
  <2>6. /\ r \in Seq(T) /\ Len(r) = Len(q) - 1
        /\ \A k \in 1..(Len(q) - 1) : r[k] = IF k < i THEN q[k] ELSE q[k + 1]
    <3>1. /\ r \in Seq(T) /\ Len(r) = Len(a) + Len(b)
          /\ \A k \in 1..(Len(a) + Len(b)) :
               r[k] = IF k <= Len(a) THEN a[k] ELSE b[k - Len(a)]
      BY <2>4, <2>5, ConcatProperties
    <3>2. ASSUME NEW k \in 1..(Len(q) - 1)
          PROVE  r[k] = IF k < i THEN q[k] ELSE q[k + 1]
      <4>1. CASE k < i
        BY <4>1, <3>1, <2>1, <2>2, <2>4, <2>5
      <4>2. CASE ~(k < i)
        <5>1. r[k] = b[k - (i - 1)]
          BY <4>2, <3>1, <2>1, <2>2, <2>4, <2>5
        <5>2. k - (i - 1) \in 1..(Len(q) - i) /\ i + (k - (i - 1)) = k + 1
          BY <4>2, <2>1, <2>2
        <5> QED BY <4>2, <5>1, <5>2, <2>5
      <4> QED BY <4>1, <4>2
    <3> QED BY <3>1, <3>2, <2>1, <2>2, <2>4, <2>5
  <2> HIDE DEF r
  <2>7. /\ IsInjective(r) <=> \A j, k \in 1..Len(r) : r[j] = r[k] => j = k
        /\ \A x : x \in Range(r) <=> \E k \in 1..Len(r) : r[k] = x
    BY <2>6, CleanByPosition
  <2>8. \A j, k \in 1..Len(r) : r[j] = r[k] => j = k
    BY <2>1, <2>2, <2>6
  <2>9. \A k \in 1..Len(r) : r[k] \in Range(q) /\ r[k] # g
    BY <2>1, <2>2, <2>6
  <2>10. ASSUME NEW x \in Range(q), x # g
         PROVE  \E k \in 1..Len(r) : r[k] = x
    <3>1. PICK k \in 1..Len(q) : q[k] = x
      BY <2>1
    <3>2. k # i
      BY <2>2, <2>10, <3>1
    <3>3. CASE k < i
      BY <3>1, <3>3, <2>1, <2>2, <2>6
    <3>4. CASE k > i
      <4>1. k - 1 \in 1..Len(r) /\ ~(k - 1 < i) /\ (k - 1) + 1 = k
        BY <3>4, <2>1, <2>2, <2>6
      <4> QED BY <3>1, <4>1, <2>6
    <3> QED BY <3>2, <3>3, <3>4, <2>1, <2>2
  <2>11. Range(r) = Range(q) \ {g}
    BY <2>7, <2>9, <2>10
  <2> QED BY <2>3, <2>6, <2>7, <2>8, <2>11
<1> QED BY <1>1, <1>2

\* A push to the back adds one entry; it must be new.
LEMMA AppendClean ==
    ASSUME NEW T, NEW q, Clean(q, T), NEW g \in T, g \notin Range(q)
    PROVE  Clean(Append(q, g), T) /\ Range(Append(q, g)) = Range(q) \cup {g}
<1> DEFINE r == Append(q, g)
<1>1. /\ Len(q) \in Nat
      /\ \A j, k \in 1..Len(q) : q[j] = q[k] => j = k
      /\ \A x : x \in Range(q) <=> \E k \in 1..Len(q) : q[k] = x
  BY CleanByPosition DEF Clean
<1>2. /\ r \in Seq(T) /\ Len(r) = Len(q) + 1
      /\ \A k \in 1..Len(q) : r[k] = q[k]
      /\ r[Len(q) + 1] = g
  BY AppendProperties DEF Clean
<1> HIDE DEF r
<1>3. /\ IsInjective(r) <=> \A j, k \in 1..Len(r) : r[j] = r[k] => j = k
      /\ \A x : x \in Range(r) <=> \E k \in 1..Len(r) : r[k] = x
  BY <1>2, CleanByPosition
<1>4. \A k \in 1..Len(r) : k \in 1..Len(q) \/ k = Len(q) + 1
  BY <1>1, <1>2
<1>5. 1..Len(q) \subseteq 1..Len(r) /\ Len(q) + 1 \in 1..Len(r)
  BY <1>1, <1>2
<1>6. \A j, k \in 1..Len(r) : r[j] = r[k] => j = k
  BY <1>1, <1>2, <1>4
<1>7. \A x : x \in Range(r) <=> x \in Range(q) \/ x = g
  BY <1>1, <1>2, <1>3, <1>4, <1>5
<1>8. Clean(r, T) /\ Range(r) = Range(q) \cup {g}
  BY <1>2, <1>3, <1>6, <1>7 DEF Clean
<1> QED BY <1>8 DEF r

\* So does a push to the front.
LEMMA PrependClean ==
    ASSUME NEW T, NEW q, Clean(q, T), NEW g \in T, g \notin Range(q)
    PROVE  Clean(<<g>> \o q, T) /\ Range(<<g>> \o q) = Range(q) \cup {g}
<1> DEFINE s == <<g>>
           r == s \o q
<1>1. /\ q \in Seq(T) /\ Len(q) \in Nat
      /\ \A j, k \in 1..Len(q) : q[j] = q[k] => j = k
      /\ \A x : x \in Range(q) <=> \E k \in 1..Len(q) : q[k] = x
  BY CleanByPosition DEF Clean
<1>2. s \in Seq(T) /\ Len(s) = 1 /\ s[1] = g
  OBVIOUS
<1> HIDE DEF s
<1>3. /\ r \in Seq(T) /\ Len(r) = Len(s) + Len(q)
      /\ \A k \in 1..(Len(s) + Len(q)) :
           r[k] = IF k <= Len(s) THEN s[k] ELSE q[k - Len(s)]
  <2>1. q \in Seq(T) /\ s \in Seq(T)
    BY <1>1, <1>2
  <2> QED BY <2>1, ConcatProperties
<1> HIDE DEF r
<1>4. Len(r) = Len(q) + 1 /\ r[1] = g
  BY <1>1, <1>2, <1>3
<1>5. \A k \in 1..Len(q) : k + 1 \in 1..Len(r) /\ r[k + 1] = q[k]
  BY <1>1, <1>2, <1>3
<1>6. \A k \in 1..Len(r) : k = 1 \/ (k - 1 \in 1..Len(q) /\ r[k] = q[k - 1])
  BY <1>1, <1>2, <1>3
<1>7. /\ IsInjective(r) <=> \A j, k \in 1..Len(r) : r[j] = r[k] => j = k
      /\ \A x : x \in Range(r) <=> \E k \in 1..Len(r) : r[k] = x
  BY <1>3, CleanByPosition
<1>8. \A j, k \in 1..Len(r) : r[j] = r[k] => j = k
  <2> SUFFICES ASSUME NEW j \in 1..Len(r), NEW k \in 1..Len(r), r[j] = r[k]
               PROVE  j = k
    OBVIOUS
  <2>1. CASE j = 1 /\ k # 1
    BY <2>1, <1>1, <1>4, <1>6
  <2>2. CASE j # 1 /\ k = 1
    BY <2>2, <1>1, <1>4, <1>6
  <2>3. CASE j # 1 /\ k # 1
    <3>1. /\ j - 1 \in 1..Len(q) /\ r[j] = q[j - 1]
          /\ k - 1 \in 1..Len(q) /\ r[k] = q[k - 1]
      BY <2>3, <1>6
    <3>2. j - 1 = k - 1
      BY <3>1, <1>1
    <3> QED BY <3>2
  <2> QED BY <2>1, <2>2, <2>3
<1>9. \A x : x \in Range(r) <=> x \in Range(q) \/ x = g
  <2>1. \A k \in 1..Len(r) : r[k] \in Range(q) \/ r[k] = g
    BY <1>1, <1>4, <1>6
  <2>2. g \in Range(r)
    BY <1>1, <1>4, <1>7
  <2>3. \A k \in 1..Len(q) : q[k] \in Range(r)
    BY <1>5, <1>7
  <2> QED BY <1>1, <1>7, <2>1, <2>2, <2>3
<1>10. Clean(r, T) /\ Range(r) = Range(q) \cup {g}
  BY <1>3, <1>7, <1>8, <1>9 DEF Clean
<1> QED BY <1>10 DEF r, s

\* A pop takes out the head and nothing else.
LEMMA TailClean ==
    ASSUME NEW T, NEW q, Clean(q, T), q # <<>>
    PROVE  /\ Head(q) \in T /\ Head(q) \in Range(q)
           /\ Clean(Tail(q), T) /\ Range(Tail(q)) = Range(q) \ {Head(q)}
<1> DEFINE r == Tail(q)
<1>1. /\ q \in Seq(T) /\ Len(q) \in Nat \ {0}
      /\ \A j, k \in 1..Len(q) : q[j] = q[k] => j = k
      /\ \A x : x \in Range(q) <=> \E k \in 1..Len(q) : q[k] = x
  BY CleanByPosition, EmptySeq DEF Clean
<1>2. Head(q) = q[1]
  BY <1>1
<1>3. /\ r \in Seq(T) /\ Len(r) = Len(q) - 1
      /\ \A k \in 1..Len(r) : r[k] = q[k + 1]
  BY <1>1, HeadTailProperties
<1> HIDE DEF r
<1>4. /\ IsInjective(r) <=> \A j, k \in 1..Len(r) : r[j] = r[k] => j = k
      /\ \A x : x \in Range(r) <=> \E k \in 1..Len(r) : r[k] = x
  BY <1>3, CleanByPosition
<1>5. \A k \in 1..Len(r) : k + 1 \in 1..Len(q) /\ k + 1 # 1
  BY <1>1, <1>3
<1>6. \A k \in 1..Len(q) : k = 1 \/ (k - 1 \in 1..Len(r) /\ r[k - 1] = q[k])
  BY <1>1, <1>3
<1>7. \A j, k \in 1..Len(r) : r[j] = r[k] => j = k
  BY <1>1, <1>3, <1>5
<1>8. 1 \in 1..Len(q)
  BY <1>1
<1>9. \A x : x \in Range(r) <=> x \in Range(q) /\ x # q[1]
  <2>1. \A k \in 1..Len(r) : r[k] \in Range(q) /\ r[k] # q[1]
    <3> SUFFICES ASSUME NEW k \in 1..Len(r)
                 PROVE  r[k] \in Range(q) /\ r[k] # q[1]
      OBVIOUS
    <3>1. k + 1 \in 1..Len(q) /\ k + 1 # 1 /\ r[k] = q[k + 1]
      BY <1>3, <1>5
    <3> QED BY <1>1, <1>8, <3>1
  <2>2. \A k \in 1..Len(q) : q[k] # q[1] => q[k] \in Range(r)
    BY <1>4, <1>6
  <2> QED BY <1>1, <1>4, <2>1, <2>2
<1>10. Clean(r, T) /\ Range(r) = Range(q) \ {Head(q)}
  BY <1>2, <1>3, <1>4, <1>7, <1>9 DEF Clean
<1>11. Head(q) \in Range(q) /\ Head(q) \in T
  BY <1>1, <1>2, <1>8, ElementOfSeq
<1> QED BY <1>10, <1>11 DEF r

-----------------------------------------------------------------------------
(* The three run queues together.                                           *)

\* The goroutines some run queue holds.
Entries(qs) == UNION {Range(qs[p]) : p \in Priorities}

\* Run queues without duplicates, each with goroutines of its own priority.
QueuesClean(qs) ==
    /\ qs \in [Priorities -> Seq(Goroutine)]
    /\ \A p \in Priorities :
        /\ Clean(qs[p], Goroutine)
        /\ \A g \in Range(qs[p]) : priority[g] = p

\* Being queued, as the specification says it and as the lemmas do.
LEMMA QueuedIsEntry == \A g : Queued(g) <=> g \in Entries(queue)
BY DEF Queued, Entries

\* Clean queues hold goroutines only.
LEMMA EntriesAreGoroutines ==
    ASSUME NEW qs, QueuesClean(qs)
    PROVE  Entries(qs) \subseteq Goroutine
<1> SUFFICES ASSUME NEW p \in Priorities, NEW g \in Range(qs[p])
             PROVE  g \in Goroutine
  BY DEF Entries
<1>1. qs[p] \in Seq(Goroutine)
  BY DEF QueuesClean
<1>2. PICK k \in 1..Len(qs[p]) : qs[p][k] = g
  BY <1>1, CleanByPosition
<1> QED BY <1>1, <1>2, ElementOfSeq

\* A goroutine that is queued at all is queued under its own priority.
LEMMA EntryHasPriority ==
    ASSUME NEW qs, QueuesClean(qs), NEW g
    PROVE  g \in Entries(qs) <=> g \in Goroutine /\ g \in Range(qs[priority[g]])
<1>1. \A h \in Goroutine : priority[h] \in Priorities
  BY SchedulerAssumption
<1> QED BY <1>1, EntriesAreGoroutines DEF QueuesClean, Entries

\* removeFromQueues() takes out that goroutine and no other.
LEMMA RemoveFromQueuesClean ==
    ASSUME QueuesClean(queue), NEW g
    PROVE  /\ QueuesClean(RemoveFromQueues(g))
           /\ Entries(RemoveFromQueues(g)) = Entries(queue) \ {g}
<1> DEFINE qs == RemoveFromQueues(g)
<1>1. /\ DOMAIN qs = Priorities
      /\ qs = [p \in Priorities |-> qs[p]]
      /\ \A p \in Priorities : qs[p] = Purge(queue[p], g)
  BY DEF RemoveFromQueues
<1>2. \A p \in Priorities :
        Clean(qs[p], Goroutine) /\ Range(qs[p]) = Range(queue[p]) \ {g}
  BY <1>1, PurgeClean DEF QueuesClean
<1> HIDE DEF qs
<1>3. QueuesClean(qs)
  BY <1>1, <1>2 DEF QueuesClean, Clean
<1>4. Entries(qs) = Entries(queue) \ {g}
  BY <1>2 DEF Entries
<1> QED BY <1>3, <1>4 DEF qs

\* What replacing one queue by a clean one does to all three.
LEMMA ReplaceQueueClean ==
    ASSUME NEW qs, QueuesClean(qs), NEW p \in Priorities, NEW q,
           Clean(q, Goroutine), \A g \in Range(q) : priority[g] = p
    PROVE  /\ QueuesClean([qs EXCEPT ![p] = q])
           /\ \A g : g \in Entries([qs EXCEPT ![p] = q]) <=>
                g \in Range(q) \/ (g \in Entries(qs) /\ g \notin Range(qs[p]))
<1> DEFINE new == [qs EXCEPT ![p] = q]
<1>1. /\ new \in [Priorities -> Seq(Goroutine)]
      /\ \A r \in Priorities : new[r] = IF r = p THEN q ELSE qs[r]
  BY DEF QueuesClean, Clean
<1> HIDE DEF new
<1>2. QueuesClean(new)
  BY <1>1 DEF QueuesClean
<1>3. \A r \in Priorities : r # p => \A g \in Range(qs[r]) : g \notin Range(qs[p])
  BY DEF QueuesClean
<1>4. \A g : g \in Entries(new) <=>
        g \in Range(q) \/ (g \in Entries(qs) /\ g \notin Range(qs[p]))
  <2> TAKE g
  <2>1. ASSUME g \in Entries(new)
        PROVE  g \in Range(q) \/ (g \in Entries(qs) /\ g \notin Range(qs[p]))
    <3>1. PICK r \in Priorities : g \in Range(new[r])
      BY <2>1 DEF Entries
    <3>2. CASE r = p
      BY <1>1, <3>1, <3>2
    <3>3. CASE r # p
      BY <1>1, <1>3, <3>1, <3>3 DEF Entries
    <3> QED BY <3>2, <3>3
  <2>2. ASSUME g \in Range(q)
        PROVE  g \in Entries(new)
    BY <1>1, <2>2 DEF Entries
  <2>3. ASSUME g \in Entries(qs), g \notin Range(qs[p])
        PROVE  g \in Entries(new)
    <3>1. PICK r \in Priorities : g \in Range(qs[r])
      BY <2>3 DEF Entries
    <3> QED BY <1>1, <2>3, <3>1 DEF Entries
  <2> QED BY <2>1, <2>2, <2>3
<1> QED BY <1>2, <1>4 DEF new

\* Pushing a goroutine that is in no queue, to the back or to the front of its
\* own, adds just that entry.
LEMMA PushClean ==
    ASSUME NEW qs, QueuesClean(qs), NEW g \in Goroutine, g \notin Entries(qs)
    PROVE  /\ QueuesClean(PushBack(qs, g))
           /\ Entries(PushBack(qs, g)) = Entries(qs) \cup {g}
           /\ QueuesClean(PushFront(qs, g))
           /\ Entries(PushFront(qs, g)) = Entries(qs) \cup {g}
<1> DEFINE p == priority[g]
           b == Append(qs[p], g)
           f == <<g>> \o qs[p]
<1>1. p \in Priorities
  BY SchedulerAssumption
<1>2. /\ Clean(qs[p], Goroutine) /\ g \notin Range(qs[p])
      /\ \A h \in Range(qs[p]) : priority[h] = p /\ h \in Entries(qs)
  BY <1>1 DEF QueuesClean, Entries
<1>3. Clean(b, Goroutine) /\ Range(b) = Range(qs[p]) \cup {g}
  BY <1>2, AppendClean
<1>4. Clean(f, Goroutine) /\ Range(f) = Range(qs[p]) \cup {g}
  BY <1>2, PrependClean
<1>5. PushBack(qs, g) = [qs EXCEPT ![p] = b] /\ PushFront(qs, g) = [qs EXCEPT ![p] = f]
  BY <1>1 DEF PushBack, PushFront, QueuesClean
<1>6. \A h \in Range(qs[p]) \cup {g} : priority[h] = p
  BY <1>2
<1> HIDE DEF b, f
<1>7. /\ QueuesClean([qs EXCEPT ![p] = b])
      /\ \A h : h \in Entries([qs EXCEPT ![p] = b]) <=>
           h \in Range(b) \/ (h \in Entries(qs) /\ h \notin Range(qs[p]))
  BY <1>1, <1>3, <1>6, ReplaceQueueClean
<1>8. /\ QueuesClean([qs EXCEPT ![p] = f])
      /\ \A h : h \in Entries([qs EXCEPT ![p] = f]) <=>
           h \in Range(f) \/ (h \in Entries(qs) /\ h \notin Range(qs[p]))
  BY <1>1, <1>4, <1>6, ReplaceQueueClean
<1> QED BY <1>2, <1>3, <1>4, <1>5, <1>7, <1>8

\* Taking the head of a queue, or moving it to the back.
LEMMA PopClean ==
    ASSUME NEW qs, QueuesClean(qs), NEW p \in Priorities, qs[p] # <<>>
    PROVE  /\ Head(qs[p]) \in Goroutine /\ Head(qs[p]) \in Entries(qs)
           /\ QueuesClean([qs EXCEPT ![p] = Tail(@)])
           /\ Entries([qs EXCEPT ![p] = Tail(@)]) = Entries(qs) \ {Head(qs[p])}
           /\ QueuesClean([qs EXCEPT ![p] = Append(Tail(@), Head(@))])
           /\ Entries([qs EXCEPT ![p] = Append(Tail(@), Head(@))]) = Entries(qs)
<1> DEFINE h == Head(qs[p])
           t == Tail(qs[p])
           r == Append(t, h)
<1>1. Clean(qs[p], Goroutine) /\ \A g \in Range(qs[p]) : priority[g] = p /\ g \in Entries(qs)
  BY DEF QueuesClean, Entries
<1>2. /\ h \in Goroutine /\ h \in Range(qs[p])
      /\ Clean(t, Goroutine) /\ Range(t) = Range(qs[p]) \ {h}
  BY <1>1, TailClean
<1>3. Clean(r, Goroutine) /\ Range(r) = Range(qs[p])
  <2>1. h \notin Range(t)
    BY <1>2
  <2>2. Clean(r, Goroutine) /\ Range(r) = Range(t) \cup {h}
    BY <1>2, <2>1, AppendClean
  <2> QED BY <1>2, <2>2
<1>4. /\ [qs EXCEPT ![p] = Tail(@)] = [qs EXCEPT ![p] = t]
      /\ [qs EXCEPT ![p] = Append(Tail(@), Head(@))] = [qs EXCEPT ![p] = r]
  BY DEF QueuesClean
<1> HIDE DEF h, t, r
<1>5. /\ QueuesClean([qs EXCEPT ![p] = t])
      /\ \A g : g \in Entries([qs EXCEPT ![p] = t]) <=>
           g \in Range(t) \/ (g \in Entries(qs) /\ g \notin Range(qs[p]))
  BY <1>1, <1>2, ReplaceQueueClean
<1>6. /\ QueuesClean([qs EXCEPT ![p] = r])
      /\ \A g : g \in Entries([qs EXCEPT ![p] = r]) <=>
           g \in Range(r) \/ (g \in Entries(qs) /\ g \notin Range(qs[p]))
  BY <1>1, <1>3, ReplaceQueueClean
<1>7. Entries([qs EXCEPT ![p] = t]) = Entries(qs) \ {h}
  BY <1>1, <1>2, <1>5
<1>8. Entries([qs EXCEPT ![p] = r]) = Entries(qs)
  BY <1>1, <1>3, <1>6
<1> DEFINE pop == [qs EXCEPT ![p] = Tail(@)]
           rot == [qs EXCEPT ![p] = Append(Tail(@), Head(@))]
<1>9. QueuesClean(pop) /\ Entries(pop) = Entries(qs) \ {h}
  BY <1>4, <1>5, <1>7
<1>10. QueuesClean(rot) /\ Entries(rot) = Entries(qs)
  BY <1>4, <1>6, <1>8
<1>11. h \in Goroutine /\ h \in Entries(qs)
  BY <1>1, <1>2
<1> HIDE DEF pop, rot
<1> QED BY <1>9, <1>10, <1>11 DEF h, pop, rot

-----------------------------------------------------------------------------
(* The invariant.                                                           *)

\* Only goroutines that exist are queued.
EntriesRegistered == Entries(queue) \subseteq Registered

\* A picked goroutine is runnable and in no queue; during a slice there is a
\* goroutine, and if it is already Done, stop() ended it and it is no longer
\* persistent.
InHand ==
    /\ pc = "picked" => /\ current \in Goroutine
                        /\ CanRun(current)
                        /\ current \notin Entries(queue)
    /\ pc = "slice" => /\ current \in Goroutine
                       /\ state[current] = "Done" => current \in Hotkey \ persistent

\* PendingWillRun, of the goroutines without a condition callback.
PlainPendingWillRun ==
    \A g \in Goroutine \ Conditional :
        CanRun(g) => g \in Entries(queue) \/ InHandFresh(g) \/ g \in stranded

\* NoLostWakeup at every point of the frame: whoever clears the eventfd is
\* about to empty the deferred queues.
WakeupComing ==
    (\E p \in DOMAIN deferred : deferred[p] # <<>>)
        => wakeFd \/ pushed # {} \/ pc \in {"frame", "swap"}

\* The inductive invariant.
IInv ==
    /\ EngineTypeOK
    /\ QueuesClean(queue)
    /\ EntriesRegistered
    /\ InHand
    /\ OneRunning
    /\ PlainPendingWillRun
    /\ SleeperWakeable
    /\ WakeupComing

-----------------------------------------------------------------------------
(* What each scheduler method does to the life-cycle states and the queues. *)

\* createPersistentHotkeyCallback() spawns and parks: the queues are as before.
LEMMA CreatePersistentHotkeyEffect ==
    ASSUME SchedulerTypeOK, QueuesClean(queue), EntriesRegistered,
           NEW g \in Hotkey, CreatePersistentHotkey(g)
    PROVE  /\ state[g] = "Unborn"
           /\ state' = [state EXCEPT ![g] = "Suspended"]
           /\ reason' = [reason EXCEPT ![g] = "HotkeyWait"]
           /\ persistent' = persistent \cup {g}
           /\ QueuesClean(queue') /\ Entries(queue') = Entries(queue)
<1> DEFINE p == priority[g]
           f == PushFront(queue, g)
<1>1. g \in Goroutine /\ p \in Priorities
  BY SchedulerAssumption
<1>2. g \notin Entries(queue)
  BY DEF EntriesRegistered, Registered, CreatePersistentHotkey, GoroutineState
<1>3. QueuesClean(f) /\ Entries(f) = Entries(queue) \cup {g}
  BY <1>1, <1>2, PushClean
<1>4. f \in [Priorities -> Seq(Goroutine)] /\ f = [queue EXCEPT ![p] = <<g>> \o @]
  BY <1>3 DEF QueuesClean, PushFront
<1>5. f[p] = <<g>> \o queue[p]
  BY <1>1, <1>4 DEF QueuesClean
<1>6. Clean(f[p], Goroutine) /\ \A h \in Range(f[p]) : priority[h] = p
  BY <1>1, <1>3 DEF QueuesClean
<1>7. /\ Clean(Purge(f[p], g), Goroutine)
      /\ Range(Purge(f[p], g)) = Range(f[p]) \ {g}
  BY <1>6, PurgeClean
<1> HIDE DEF f
<1>8. queue' = [f EXCEPT ![p] = Purge(f[p], g)]
  <2>1. queue' = [queue EXCEPT ![p] = Purge(f[p], g)]
    BY <1>5 DEF CreatePersistentHotkey
  <2> QED BY <2>1, <1>1, <1>4 DEF QueuesClean
<1> HIDE DEF p
<1>9. /\ QueuesClean([f EXCEPT ![p] = Purge(f[p], g)])
      /\ \A h : h \in Entries([f EXCEPT ![p] = Purge(f[p], g)]) <=>
           h \in Range(Purge(f[p], g)) \/ (h \in Entries(f) /\ h \notin Range(f[p]))
  BY <1>1, <1>3, <1>6, <1>7, ReplaceQueueClean
<1>10. g \in Range(f[p])
  BY <1>1, <1>3, EntryHasPriority DEF p
<1>11. \A h \in Range(f[p]) : h \in Entries(f)
  BY <1>1 DEF Entries
<1>12. Entries(queue') = Entries(queue)
  <2>1. \A h : h \in Entries(queue') <=> h \in Entries(f) /\ h # g
    BY <1>7, <1>8, <1>9, <1>10, <1>11
  <2>2. \A h : h \in Entries(f) /\ h # g <=> h \in Entries(queue)
    BY <1>2, <1>3
  <2> QED BY <2>1, <2>2
<1> QED BY <1>8, <1>9, <1>12 DEF CreatePersistentHotkey

\* spawn() adds one entry, that of the new goroutine.
LEMMA SpawnEffect ==
    ASSUME SchedulerTypeOK, QueuesClean(queue), EntriesRegistered,
           NEW g \in Goroutine, Spawn(g)
    PROVE  /\ state[g] = "Unborn"
           /\ state' = [state EXCEPT ![g] = "Created"]
           /\ QueuesClean(queue') /\ Entries(queue') = Entries(queue) \cup {g}
<1>1. g \notin Entries(queue)
  BY DEF EntriesRegistered, Registered, Spawn, GoroutineState
<1>2. /\ QueuesClean(PushBack(queue, g)) /\ QueuesClean(PushFront(queue, g))
      /\ Entries(PushBack(queue, g)) = Entries(queue) \cup {g}
      /\ Entries(PushFront(queue, g)) = Entries(queue) \cup {g}
  BY <1>1, PushClean
<1> QED BY <1>2 DEF Spawn

\* removeFromQueues() before a push makes the push sound.
LEMMA RequeueClean ==
    ASSUME QueuesClean(queue), NEW g \in Goroutine
    PROVE  LET back  == PushBack(RemoveFromQueues(g), g)
               front == PushFront(RemoveFromQueues(g), g)
           IN  /\ QueuesClean(back) /\ Entries(back) = Entries(queue) \cup {g}
               /\ QueuesClean(front) /\ Entries(front) = Entries(queue) \cup {g}
<1> DEFINE qs == RemoveFromQueues(g)
<1>1. QueuesClean(qs) /\ Entries(qs) = Entries(queue) \ {g}
  BY RemoveFromQueuesClean
<1> HIDE DEF qs
<1>2. /\ QueuesClean(PushBack(qs, g)) /\ QueuesClean(PushFront(qs, g))
      /\ Entries(PushBack(qs, g)) = Entries(qs) \cup {g}
      /\ Entries(PushFront(qs, g)) = Entries(qs) \cup {g}
  BY <1>1, PushClean
<1> QED BY <1>1, <1>2 DEF qs

\* unpark() makes a Suspended goroutine Runnable and queued, and leaves others alone.
LEMMA UnparkEffect ==
    ASSUME SchedulerTypeOK, QueuesClean(queue), NEW g \in Goroutine, Unpark(g)
    PROVE  /\ QueuesClean(queue')
           /\ wakeFd' \in BOOLEAN /\ wakeFd => wakeFd'
           /\ \/ /\ state[g] # "Suspended"
                 /\ UNCHANGED <<state, reason, queue>>
              \/ /\ state[g] = "Suspended"
                 /\ state' = [state EXCEPT ![g] = "Runnable"]
                 /\ reason' = [reason EXCEPT ![g] = "None"]
                 /\ Entries(queue') = Entries(queue) \cup {g}
BY RequeueClean DEF Unpark, SchedulerTypeOK

\* suspend() parks a goroutine that is not Done and takes it out of the queues.
LEMMA SuspendEffect ==
    ASSUME QueuesClean(queue), NEW g \in Goroutine, NEW r, SuspendGoroutine(g, r)
    PROVE  /\ QueuesClean(queue')
           /\ \/ /\ state[g] = "Done"
                 /\ UNCHANGED <<state, reason, queue>>
              \/ /\ state[g] # "Done"
                 /\ state' = [state EXCEPT ![g] = "Suspended"]
                 /\ reason' = [reason EXCEPT ![g] = r]
                 /\ Entries(queue') = Entries(queue) \ {g}
BY RemoveFromQueuesClean DEF SuspendGoroutine

\* The SUSPENDED result: suspend(), and a wait handle on whoever is parked as a
\* sleeper.
LEMMA HandleSuspendedEffect ==
    ASSUME SchedulerTypeOK, QueuesClean(queue), current \in Goroutine,
           NEW w \in FiberReason, HandleSuspended(w)
    PROVE  /\ QueuesClean(queue')
           /\ wait' \in [Goroutine -> Awaitable] /\ due' \subseteq Goroutine
           /\ \A h \in Goroutine \ {current} : wait'[h] = wait[h]
           /\ \/ /\ state[current] = "Done"
                 /\ UNCHANGED <<state, reason, queue>>
              \/ /\ state[current] # "Done"
                 /\ state' = [state EXCEPT ![current] = "Suspended"]
                 /\ \E r \in SuspensionReason :
                      /\ reason' = [reason EXCEPT ![current] = r]
                      /\ r = "SleepWait" => wait'[current] = "SLEEP"
                      /\ r = "HotkeyWait" => w = "HOTKEY_WAIT"
                 /\ Entries(queue') = Entries(queue) \ {current}
<1>1. /\ ReasonOf(w) \in SuspensionReason
      /\ ReasonOf(w) = "SleepWait" => w = "SLEEP"
      /\ ReasonOf(w) = "HotkeyWait" => w = "HOTKEY_WAIT"
  BY DEF ReasonOf, SuspensionReason, FiberReason, Awaitable
<1>2. /\ SuspendGoroutine(current, ReasonOf(w)) /\ due' = due \ {current}
      /\ wait' = IF w \in Blocking THEN [wait EXCEPT ![current] = w] ELSE wait
  BY DEF HandleSuspended
<1>3. /\ wait \in [Goroutine -> Awaitable] /\ due \subseteq Goroutine
      /\ w \in Blocking => w \in Awaitable
      /\ "SLEEP" \in Blocking
  BY DEF SchedulerTypeOK, Blocking, Awaitable
<1>4. w = "SLEEP" => wait'[current] = "SLEEP"
  BY <1>2, <1>3
<1>5. /\ wait' \in [Goroutine -> Awaitable] /\ due' \subseteq Goroutine
      /\ \A h \in Goroutine \ {current} : wait'[h] = wait[h]
  BY <1>2, <1>3
<1> HIDE DEF ReasonOf
<1> QED BY <1>1, <1>2, <1>4, <1>5, SuspendEffect

\* yield() requeues a goroutine that is not Done, once.
LEMMA YieldEffect ==
    ASSUME QueuesClean(queue), NEW g \in Goroutine, YieldGoroutine(g)
    PROVE  /\ QueuesClean(queue')
           /\ \/ /\ state[g] = "Done"
                 /\ UNCHANGED <<state, queue>>
              \/ /\ state[g] # "Done"
                 /\ state' = [state EXCEPT ![g] = "Runnable"]
                 /\ Entries(queue') = Entries(queue) \cup {g}
BY RequeueClean DEF YieldGoroutine

\* requeueFront() arms a goroutine that is not Done and queues it, once.
LEMMA RequeueFrontEffect ==
    ASSUME SchedulerTypeOK, QueuesClean(queue), NEW g \in Goroutine, RequeueFront(g)
    PROVE  /\ QueuesClean(queue')
           /\ wakeFd' \in BOOLEAN /\ wakeFd => wakeFd'
           /\ retrigger' \subseteq retrigger /\ spent' \subseteq spent
           /\ stranded \ {g} \subseteq stranded'
           /\ \/ /\ state[g] = "Done"
                 /\ UNCHANGED <<state, reason, wait, queue, stranded>>
              \/ /\ state[g] # "Done"
                 /\ state' = [state EXCEPT ![g] = "Created"]
                 /\ reason' = [reason EXCEPT ![g] = "None"]
                 /\ wait' = [wait EXCEPT ![g] = "NONE"]
                 /\ Entries(queue') = Entries(queue) \cup {g}
BY RequeueClean DEF RequeueFront, SchedulerTypeOK, fiberVars

\* wakeHotkey() re-arms, only sets the flag, or does nothing.
LEMMA WakeHotkeyEffect ==
    ASSUME SchedulerTypeOK, QueuesClean(queue), NEW g \in Hotkey, WakeHotkey(g)
    PROVE  /\ QueuesClean(queue')
           /\ wakeFd' \in BOOLEAN /\ wakeFd => wakeFd'
           /\ retrigger' \subseteq Hotkey /\ owed' \subseteq Hotkey
           /\ spent' \subseteq spent /\ stranded \ {g} \subseteq stranded'
           /\ \/ UNCHANGED <<state, reason, wait, queue, stranded>>
              \/ /\ state[g] \in {"Created", "Runnable", "Running", "Suspended"}
                 /\ state' = [state EXCEPT ![g] = "Created"]
                 /\ reason' = [reason EXCEPT ![g] = "None"]
                 /\ wait' = [wait EXCEPT ![g] = "NONE"]
                 /\ Entries(queue') = Entries(queue) \cup {g}
<1>1. g \in Goroutine
  BY SchedulerAssumption
<1>2. CASE /\ \/ Pending(g) /\ policy[g] \in {"Replace", "Queue"}
              \/ state[g] = "Suspended" /\ reason[g] = "HotkeyWait"
           /\ RequeueFront(g)
           /\ owed' = owed \cup {g}
  BY <1>1, <1>2, RequeueFrontEffect DEF Pending, SchedulerTypeOK
<1>3. CASE /\ UNCHANGED <<state, reason, wait, spent, queue, wakeFd, stranded>>
           /\ retrigger' \subseteq retrigger \cup {g}
           /\ owed' \subseteq owed \cup {g}
  BY <1>3 DEF SchedulerTypeOK, QueuesClean
<1> QED BY <1>2, <1>3 DEF WakeHotkey, fiberVars, history

-----------------------------------------------------------------------------
(* The run queues.                                                          *)

\* A step of one registered goroutine, which alone may be queued anew, keeps every
\* entry registered.
LEMMA QueuedStaysRegistered ==
    ASSUME SchedulerTypeOK, EntriesRegistered, NEW g \in Goroutine,
           NEW s \in GoroutineState, state' = [state EXCEPT ![g] = s],
           Entries(queue') \subseteq Entries(queue) \cup {g}
    PROVE  EntriesRegistered'
BY DEF SchedulerTypeOK, EntriesRegistered, Registered

\* The head of batch, when it is run.
LEMMA BatchHead ==
    ASSUME EngineTypeOK, batch # <<>>
    PROVE  /\ Head(batch).g \in Goroutine
           /\ Head(batch).op = "wake" => Head(batch).g \in Hotkey
           /\ Tail(batch) \in Seq(DeferredAction)
<1>1. Head(batch) \in DeferredAction /\ Tail(batch) \in Seq(DeferredAction)
  BY HeadTailProperties DEF EngineTypeOK
<1>2. Hotkey \subseteq Goroutine
  BY SchedulerAssumption
<1> QED BY <1>1, <1>2 DEF DeferredAction

\* handleReturned(), whichever way it goes, is one step of the goroutine that
\* returned.
LEMMA ReturnEffect ==
    ASSUME EngineTypeOK, QueuesClean(queue), current \in Goroutine,
           Rearm \/ ParkForTrigger \/ SleepUntilTick \/ Complete
    PROVE  /\ QueuesClean(queue')
           /\ wakeFd' \in BOOLEAN /\ wakeFd => wakeFd'
           /\ stranded \ {current} \subseteq stranded'
           /\ \/ /\ state[current] = "Done" /\ current \in persistent
                 /\ UNCHANGED <<state, reason, wait, queue>>
              \/ /\ current \in persistent /\ state[current] # "Done"
                 /\ state' = [state EXCEPT ![current] = "Created"]
                 /\ reason' = [reason EXCEPT ![current] = "None"]
                 /\ Entries(queue') = Entries(queue) \cup {current}
              \/ /\ current \in persistent
                 /\ state' = [state EXCEPT ![current] =
                                IF current \in Conditional THEN "Created" ELSE "Suspended"]
                 /\ reason' = [reason EXCEPT ![current] = "HotkeyWait"]
                 /\ UNCHANGED queue
              \/ /\ current \notin persistent /\ current \in Updater
                 /\ state' = [state EXCEPT ![current] = "Suspended"]
                 /\ reason' = [reason EXCEPT ![current] = "SleepWait"]
                 /\ wait' = [wait EXCEPT ![current] = "SLEEP"]
                 /\ UNCHANGED queue
              \/ /\ current \notin persistent
                 /\ state' = [state EXCEPT ![current] = "Done"]
                 /\ UNCHANGED <<reason, wait, queue>>
<1>1. SchedulerTypeOK
  BY DEF EngineTypeOK
<1>2. CASE Rearm
  BY <1>1, <1>2, RequeueFrontEffect DEF Rearm
<1>3. CASE ParkForTrigger
  BY <1>1, <1>3 DEF ParkForTrigger, SchedulerTypeOK
<1>4. CASE SleepUntilTick
  BY <1>1, <1>4 DEF SleepUntilTick, SchedulerTypeOK
<1>5. CASE Complete
  BY <1>1, <1>5 DEF Complete, SchedulerTypeOK
<1> QED BY <1>2, <1>3, <1>4, <1>5

\* The ends of a slice other than handleReturned() and handleError(): YIELD, and
\* SUSPENDED with the reason of the fiber.
YieldingEnd ==
    \/ SliceYields
    \/ BodyReturns /\ YieldGoroutine(current) /\ UNCHANGED <<reason, wait, due>>
SuspendingEnd ==
    \/ NothingToExecute
    \/ BodyReturns /\ HandleSuspended(fiberReason[current])
    \/ \E w \in SliceWait : SliceSuspends(w)

\* The four ways a slice ends.
LEMMA SliceEnds == EndSlice <=> YieldingEnd \/ SuspendingEnd \/ SliceReturns \/ SliceFails
BY DEF EndSlice, YieldingEnd, SuspendingEnd, BodyReturns

\* A YIELD requeues the goroutine and touches nothing else but its frames.
LEMMA YieldingEndEffect ==
    ASSUME YieldingEnd
    PROVE  /\ InSlice /\ current \in Goroutine /\ state[current] \in GoroutineState
           /\ YieldGoroutine(current) /\ pc' = "drain"
           /\ spent' = spent \/ spent' = spent \cup {current}
           /\ UNCHANGED <<reason, wait, due, fiberReason, persistent, retrigger, current,
                          deferred, wakeFd, owed, stranded, sliceDone, batch, scanVars,
                          outsideVars>>
BY DEF YieldingEnd, SliceYields, BodyReturns, BodyRuns, InSlice, Registered, Goto, fiberVars,
   history

\* A SUSPENDED leaves the goroutine with the reason it was parked by.
LEMMA SuspendingEndEffect ==
    ASSUME EngineTypeOK, SuspendingEnd
    PROVE  /\ InSlice /\ current \in Goroutine /\ state[current] \in GoroutineState
           /\ pc' = "drain"
           /\ \E w \in FiberReason :
                /\ HandleSuspended(w) /\ fiberReason' = [fiberReason EXCEPT ![current] = w]
                /\ w = "HOTKEY_WAIT" => fiberReason[current] = w
           /\ spent' = spent \/ spent' = spent \cup {current}
           /\ UNCHANGED <<persistent, retrigger, current, deferred, wakeFd, owed, stranded,
                          sliceDone, batch, scanVars, outsideVars>>
<1>1. fiberReason \in [Goroutine -> FiberReason]
  BY DEF EngineTypeOK, SchedulerTypeOK
<1>2. InSlice /\ current \in Goroutine /\ state[current] \in GoroutineState
  BY DEF SuspendingEnd, NothingToExecute, BodyReturns, SliceSuspends, BodyRuns, InSlice,
     Registered
<1>3. CASE NothingToExecute \/ (BodyReturns /\ HandleSuspended(fiberReason[current]))
  <2>1. /\ pc' = "drain" /\ HandleSuspended(fiberReason[current])
        /\ spent' = spent \/ spent' = spent \cup {current}
        /\ UNCHANGED <<fiberReason, persistent, retrigger, current, deferred, wakeFd, owed,
                       stranded, sliceDone, batch, scanVars, outsideVars>>
    BY <1>3 DEF NothingToExecute, BodyReturns, Goto, fiberVars, history
  <2>2. /\ fiberReason[current] \in FiberReason
        /\ fiberReason' = [fiberReason EXCEPT ![current] = fiberReason[current]]
    BY <1>1, <1>2, <2>1
  <2> QED BY <1>2, <2>1, <2>2
<1>4. CASE \E w \in SliceWait : SliceSuspends(w)
  <2>1. PICK w \in SliceWait : SliceSuspends(w)
    BY <1>4
  <2>2. w \in FiberReason /\ w # "HOTKEY_WAIT"
    BY EngineAssumption DEF Blocking, FiberReason, Awaitable
  <2>3. /\ pc' = "drain" /\ HandleSuspended(w)
        /\ fiberReason' = [fiberReason EXCEPT ![current] = w]
        /\ spent' = spent \/ spent' = spent \cup {current}
        /\ UNCHANGED <<persistent, retrigger, current, deferred, wakeFd, owed, stranded,
                       sliceDone, batch, scanVars, outsideVars>>
    BY <2>1 DEF SliceSuspends, Goto, history
  <2> QED BY <1>2, <2>2, <2>3
<1> QED BY <1>3, <1>4 DEF SuspendingEnd

\* Every step keeps the queues clean and their entries registered.
LEMMA QueuesStep ==
    ASSUME IInv, [Next]_vars
    PROVE  QueuesClean(queue') /\ EntriesRegistered'
<1>1. EngineTypeOK /\ SchedulerTypeOK /\ QueuesClean(queue) /\ EntriesRegistered
  BY DEF IInv, EngineTypeOK
<1>2. Hotkey \subseteq Goroutine
  BY SchedulerAssumption
<1>3. CASE UNCHANGED <<state, queue>>
  BY <1>1, <1>3 DEF EntriesRegistered, Registered
<1>4. ASSUME NEW g \in Goroutine, RegisterHotkey(g)
      PROVE  QueuesClean(queue') /\ EntriesRegistered'
  BY <1>1, <1>4, CreatePersistentHotkeyEffect, QueuedStaysRegistered
     DEF RegisterHotkey, GoroutineState
<1>5. ASSUME NEW g \in Goroutine, SpawnGoroutine(g)
      PROVE  QueuesClean(queue') /\ EntriesRegistered'
  BY <1>1, <1>5, SpawnEffect, QueuedStaysRegistered DEF SpawnGoroutine, GoroutineState
<1>6. ASSUME NEW h \in Hotkey, WakeHotkey(h)
      PROVE  QueuesClean(queue') /\ EntriesRegistered'
  BY <1>1, <1>2, <1>3, <1>6, WakeHotkeyEffect, QueuedStaysRegistered DEF GoroutineState
<1>7. ASSUME NEW g \in Goroutine, Unpark(g)
      PROVE  QueuesClean(queue') /\ EntriesRegistered'
  BY <1>1, <1>3, <1>7, UnparkEffect, QueuedStaysRegistered DEF GoroutineState
<1>8. CASE RunDeferred
  <2>1. batch # <<>>
    BY <1>8 DEF RunDeferred
  <2>2. CASE RunWake(Head(batch).g) /\ Head(batch).op = "wake"
    BY <1>1, <1>3, <1>6, <2>1, <2>2, BatchHead DEF RunWake
  <2>3. CASE RunFire(Head(batch).g)
    BY <1>1, <1>3, <1>7, <2>1, <2>3, BatchHead DEF RunFire
  <2> QED BY <1>8, <2>2, <2>3 DEF RunDeferred
<1>9. ASSUME NEW g \in Goroutine, WakeOneSleeper(g)
      PROVE  QueuesClean(queue') /\ EntriesRegistered'
  <2>1. /\ state' = [state EXCEPT ![g] = "Runnable"]
        /\ queue' = PushBack(RemoveFromQueues(g), g)
    BY <1>9 DEF WakeOneSleeper, WakeSleeper
  <2>2. QueuesClean(queue') /\ Entries(queue') = Entries(queue) \cup {g}
    BY <1>1, <2>1, RequeueClean
  <2> QED BY <1>1, <2>1, <2>2, QueuedStaysRegistered DEF GoroutineState
<1>10. CASE PickRunnable \/ DiscardDone \/ RotateParked
  <2>1. queue[scanAt] # <<>> /\ scanAt \in Priorities /\ UNCHANGED state
    BY <1>1, <1>10 DEF PickRunnable, DiscardDone, RotateParked, Scanning, goroutineVars,
       EngineTypeOK
  <2>2. \/ queue' = [queue EXCEPT ![scanAt] = Tail(@)]
        \/ queue' = [queue EXCEPT ![scanAt] = Append(Tail(@), Head(@))]
    BY <1>10 DEF PickRunnable, DiscardDone, RotateParked
  <2>3. QueuesClean(queue') /\ Entries(queue') \subseteq Entries(queue)
    <3> DEFINE pop == [queue EXCEPT ![scanAt] = Tail(@)]
               rot == [queue EXCEPT ![scanAt] = Append(Tail(@), Head(@))]
    <3>1. /\ QueuesClean(pop) /\ Entries(pop) \subseteq Entries(queue)
          /\ QueuesClean(rot) /\ Entries(rot) \subseteq Entries(queue)
      <4>1. /\ QueuesClean(pop) /\ Entries(pop) = Entries(queue) \ {Head(queue[scanAt])}
            /\ QueuesClean(rot) /\ Entries(rot) = Entries(queue)
        BY <1>1, <2>1, PopClean, Zenon
      <4> QED BY <4>1
    <3>2. queue' = pop \/ queue' = rot
      BY <2>2
    <3> HIDE DEF pop, rot
    <3> QED BY <3>1, <3>2
  <2> QED BY <1>1, <2>1, <2>3 DEF EntriesRegistered, Registered
<1>11. CASE ConditionFails \/ StartSlice
  <2>1. current \in Goroutine /\ UNCHANGED queue
    BY <1>11 DEF ConditionFails, StartSlice, IInv, InHand
  <2>2. PICK s \in GoroutineState : state' = [state EXCEPT ![current] = s]
    BY <1>11 DEF ConditionFails, StartSlice, GoroutineState
  <2> QED BY <1>1, <2>1, <2>2, QueuedStaysRegistered
<1>12. CASE StartReturns \/ SliceReturns
  <2>1. current \in Goroutine /\ (Rearm \/ ParkForTrigger \/ SleepUntilTick \/ Complete)
    BY <1>12 DEF StartReturns, SliceReturns, BodyRuns, InSlice, Registered, IInv, InHand
  <2>2. QueuesClean(queue') /\ Entries(queue') \subseteq Entries(queue) \cup {current}
    BY <1>1, <2>1, ReturnEffect
  <2>3. \/ UNCHANGED <<state, queue>>
        \/ \E s \in GoroutineState : state' = [state EXCEPT ![current] = s]
    BY <1>1, <2>1, ReturnEffect DEF GoroutineState
  <2> QED BY <1>1, <1>3, <2>1, <2>2, <2>3, QueuedStaysRegistered
<1>13. ASSUME NEW h \in Goroutine, BodyStops(h) \/ BodyRemoves(h)
       PROVE  QueuesClean(queue') /\ EntriesRegistered'
  <2>1. queue' = RemoveFromQueues(h)
    BY <1>13 DEF BodyStops, BodyRemoves, StopHotkeyGoroutine, RemoveHotkeyByAlias
  <2>2. QueuesClean(queue') /\ Entries(queue') = Entries(queue) \ {h}
    BY <1>1, <2>1, RemoveFromQueuesClean
  <2>3. \E s : state' = [state EXCEPT ![h] = s]
    BY <1>13 DEF BodyStops, BodyRemoves, StopHotkeyGoroutine, RemoveHotkeyByAlias
  <2> QED BY <1>1, <2>2, <2>3 DEF EntriesRegistered, Registered, SchedulerTypeOK
<1>14. CASE BodyExits
  <2>1. queue' = [p \in Priorities |-> <<>>]
    BY <1>14 DEF BodyExits, StopScheduler
  <2>2. Clean(<<>>, Goroutine) /\ Range(<<>>) = {}
    BY DEF Clean, IsInjective, Range
  <2>3. QueuesClean(queue') /\ Entries(queue') = {}
    BY <2>1, <2>2 DEF QueuesClean, Entries, Clean
  <2> QED BY <2>3 DEF EntriesRegistered
<1>15. CASE InSlice /\ YieldGoroutine(current)
  BY <1>1, <1>3, <1>15, YieldEffect, QueuedStaysRegistered
     DEF InSlice, Registered, GoroutineState
<1>16. ASSUME NEW w \in FiberReason, InSlice, HandleSuspended(w)
       PROVE  QueuesClean(queue') /\ EntriesRegistered'
  BY <1>1, <1>3, <1>16, HandleSuspendedEffect, QueuedStaysRegistered
     DEF InSlice, Registered, GoroutineState
<1>17. CASE SliceFails
  BY <1>1, <1>17, QueuedStaysRegistered
     DEF SliceFails, BodyRuns, InSlice, Registered, GoroutineState
<1>18. CASE DrainStep
  BY <1>3, <1>8, <1>18
     DEF DrainStep, PollReturns, BeginDrain, TakeDeferred, DrainDone, goroutineVars, schedVars
<1>19. CASE PickStep
  BY <1>3, <1>9, <1>10, <1>19 DEF PickStep, SleepersDone, NextQueue, NothingToPick, schedVars
<1>20. CASE EndSlice
  BY <1>1, <1>12, <1>15, <1>16, <1>17, <1>20, SliceEnds, YieldingEndEffect,
     SuspendingEndEffect
<1>21. CASE ScriptStep
  <2>1. ASSUME NEW g \in Goroutine, BodyTriggers(g) \/ BodyResumes(g) \/ BodySendsTo(g)
        PROVE  QueuesClean(queue') /\ EntriesRegistered'
    BY <1>1, <1>6, <1>7, <2>1
       DEF BodyTriggers, BodyResumes, BodySendsTo, SchedulerTypeOK
  <2> QED BY <1>4, <1>5, <1>13, <1>14, <1>21, <2>1 DEF ScriptStep
<1>22. CASE OutsideStep
  BY <1>3, <1>6, <1>22
     DEF OutsideStep, ProducerNotify, ProducerPush, DeadlinePasses, TimerFires, PolledTrigger,
         goroutineVars
<1>23. CASE UNCHANGED vars
  BY <1>3, <1>23 DEF vars, schedVars
<1>24. CASE StartThrows
  BY <1>3, <1>24 DEF StartThrows
<1> QED BY <1>11, <1>12, <1>18, <1>19, <1>20, <1>21, <1>22, <1>23, <1>24
        DEF Next, FrameStep, StartStep

-----------------------------------------------------------------------------
(* Types.                                                                   *)

\* Every step preserves the types; that of the queues is QueuesStep.
LEMMA TypeStep ==
    ASSUME IInv, [Next]_vars
    PROVE  EngineTypeOK'
<1>1. EngineTypeOK /\ SchedulerTypeOK /\ QueuesClean(queue) /\ EntriesRegistered
  BY DEF IInv, EngineTypeOK
<1>2. queue' \in [Priorities -> Seq(Goroutine)]
  BY QueuesStep DEF QueuesClean
<1>3. Hotkey \subseteq Goroutine /\ NoGoroutine \notin Goroutine
  BY SchedulerAssumption
<1> USE DEF LifeState, GoroutineState, FiberReason, fiberVars, history
<1>4. ASSUME NEW g \in Goroutine, RegisterHotkey(g) PROVE EngineTypeOK'
  BY <1>1, <1>2, <1>4
     DEF EngineTypeOK, SchedulerTypeOK, RegisterHotkey, CreatePersistentHotkey,
         SuspensionReason, engineVars, frameVars, scanVars, outsideVars
<1>5. ASSUME NEW g \in Goroutine, SpawnGoroutine(g) PROVE EngineTypeOK'
  BY <1>1, <1>2, <1>5
     DEF EngineTypeOK, SchedulerTypeOK, SpawnGoroutine, Spawn,
         engineVars, frameVars, scanVars, outsideVars
<1>6. ASSUME NEW h \in Hotkey, WakeHotkey(h)
      PROVE  /\ state' \in [Goroutine -> LifeState]
             /\ reason' \in [Goroutine -> SuspensionReason]
             /\ wait' \in [Goroutine -> Awaitable]
             /\ retrigger' \subseteq Hotkey /\ owed' \subseteq Hotkey
             /\ spent' \subseteq Goroutine /\ wakeFd' \in BOOLEAN
             /\ fiberReason' \in [Goroutine -> FiberReason] /\ stranded' \subseteq Goroutine
  BY <1>1, <1>3, <1>6
     DEF WakeHotkey, RequeueFront, SchedulerTypeOK, SuspensionReason, Awaitable
<1>7. ASSUME NEW g \in Goroutine, Unpark(g)
      PROVE  /\ state' \in [Goroutine -> LifeState]
             /\ reason' \in [Goroutine -> SuspensionReason]
             /\ wakeFd' \in BOOLEAN
  BY <1>1, <1>7 DEF Unpark, SchedulerTypeOK, SuspensionReason
<1>8. CASE RunDeferred
  <2>1. batch # <<>> /\ UNCHANGED <<due, persistent, current, deferred, pc, sliceDone,
                                    scanVars, outsideVars>>
    BY <1>8 DEF RunDeferred
  <2>2. batch' \in Seq(DeferredAction)
    BY <1>1, <1>8, BatchHead DEF RunDeferred
  <2>3. /\ state' \in [Goroutine -> LifeState]
        /\ reason' \in [Goroutine -> SuspensionReason]
        /\ wait' \in [Goroutine -> Awaitable]
        /\ retrigger' \subseteq Hotkey /\ owed' \subseteq Hotkey
        /\ spent' \subseteq Goroutine /\ wakeFd' \in BOOLEAN
        /\ fiberReason' \in [Goroutine -> FiberReason] /\ stranded' \subseteq Goroutine
    <3>1. CASE RunWake(Head(batch).g) /\ Head(batch).op = "wake"
      BY <1>1, <1>6, <2>1, <3>1, BatchHead DEF RunWake, SchedulerTypeOK
    <3>2. CASE RunFire(Head(batch).g)
      BY <1>1, <1>7, <2>1, <3>2, BatchHead DEF RunFire, SchedulerTypeOK
    <3> QED BY <1>8, <3>1, <3>2 DEF RunDeferred
  <2> QED BY <1>1, <1>2, <2>1, <2>2, <2>3
          DEF EngineTypeOK, SchedulerTypeOK, scanVars, outsideVars
<1>9. CASE PollReturns \/ BeginDrain \/ DrainDone
  BY <1>1, <1>2, <1>9
     DEF EngineTypeOK, SchedulerTypeOK, PollReturns, BeginDrain, DrainDone, Goto,
         goroutineVars, schedVars, frameVars, scanVars, outsideVars
<1>10. CASE TakeDeferred
  <2>1. /\ deferred["HOTKEY"] \in Seq(DeferredAction)
        /\ deferred["NORMAL"] \in Seq(DeferredAction)
    BY <1>1 DEF SchedulerTypeOK
  <2>2. batch' \in Seq(DeferredAction)
    BY <1>10, <2>1, ConcatProperties DEF TakeDeferred
  <2>3. deferred' \in [{"HOTKEY", "NORMAL"} -> Seq(DeferredAction)]
    BY <1>10, EmptySeq DEF TakeDeferred
  <2> QED BY <1>1, <1>2, <1>10, <2>2, <2>3
          DEF EngineTypeOK, SchedulerTypeOK, TakeDeferred, Goto, goroutineVars, scanVars,
              outsideVars
<1>11. ASSUME NEW g \in Goroutine, WakeOneSleeper(g) PROVE EngineTypeOK'
  BY <1>1, <1>2, <1>11
     DEF EngineTypeOK, SchedulerTypeOK, WakeOneSleeper, WakeSleeper, SuspensionReason,
         Awaitable, engineVars, frameVars, scanVars, outsideVars
<1>12. CASE SleepersDone \/ NextQueue \/ NothingToPick
  <2>1. \A p \in Priorities : Len(queue[p]) \in Nat
    BY <1>1, LenProperties DEF SchedulerTypeOK
  <2> QED BY <1>1, <1>2, <1>12, <2>1
          DEF EngineTypeOK, SchedulerTypeOK, SleepersDone, NextQueue, NothingToPick, Goto,
              Priorities, schedVars, scanVars, outsideVars
<1>13. CASE PickRunnable \/ DiscardDone \/ RotateParked
  <2>1. Front \in Goroutine
    BY <1>1, <1>13, HeadTailProperties
       DEF PickRunnable, DiscardDone, RotateParked, Scanning, Front, EngineTypeOK,
           SchedulerTypeOK
  <2> QED BY <1>1, <1>2, <1>13, <2>1
          DEF EngineTypeOK, SchedulerTypeOK, PickRunnable, DiscardDone, RotateParked,
              Scanning, Goto, goroutineVars, scanVars, outsideVars
<1>14. CASE ConditionFails
  BY <1>1, <1>2, <1>14
     DEF EngineTypeOK, SchedulerTypeOK, ConditionFails, SuspensionReason, Goto, scanVars,
         outsideVars
<1>15. CASE StartSlice
  BY <1>1, <1>2, <1>15
     DEF EngineTypeOK, SchedulerTypeOK, StartSlice, Awaitable, Goto, scanVars, outsideVars
<1>16. CASE StartReturns \/ SliceReturns
  <2>1. current \in Goroutine /\ (Rearm \/ ParkForTrigger \/ SleepUntilTick \/ Complete)
    BY <1>16 DEF StartReturns, SliceReturns, BodyRuns, InSlice, Registered, IInv, InHand
  <2>2. state' \in [Goroutine -> LifeState]
    BY <1>1, <2>1
       DEF Rearm, RequeueFront, ParkForTrigger, SleepUntilTick, Complete, SchedulerTypeOK
  <2>3. /\ retrigger' \subseteq Hotkey /\ spent' \subseteq Goroutine
        /\ due' \subseteq Goroutine /\ wakeFd' \in BOOLEAN
        /\ reason' \in [Goroutine -> SuspensionReason]
        /\ wait' \in [Goroutine -> Awaitable]
        /\ fiberReason' \in [Goroutine -> FiberReason] /\ stranded' \subseteq Goroutine
    BY <1>1, <2>1
       DEF Rearm, RequeueFront, ParkForTrigger, SleepUntilTick, Complete, SchedulerTypeOK,
           SuspensionReason, Awaitable
  <2> QED BY <1>1, <1>2, <1>16, <2>2, <2>3
          DEF EngineTypeOK, SchedulerTypeOK, StartReturns, SliceReturns, Goto, scanVars,
              outsideVars
<1>17. ASSUME NEW h \in Goroutine, BodyStops(h) \/ BodyRemoves(h) PROVE EngineTypeOK'
  BY <1>1, <1>2, <1>17
     DEF EngineTypeOK, SchedulerTypeOK, BodyStops, BodyRemoves, StopHotkeyGoroutine,
         RemoveHotkeyByAlias, engineVars, frameVars, scanVars, outsideVars
<1>18. CASE BodyExits
  BY <1>1, <1>2, <1>18
     DEF EngineTypeOK, SchedulerTypeOK, BodyExits, StopScheduler, Goto, scanVars, outsideVars
<1>19. CASE YieldingEnd
  <2>1. state' \in [Goroutine -> LifeState]
    BY <1>1, <1>19, YieldingEndEffect DEF YieldGoroutine, SchedulerTypeOK
  <2> QED BY <1>1, <1>2, <1>19, <2>1, YieldingEndEffect
          DEF EngineTypeOK, SchedulerTypeOK, scanVars, outsideVars
<1>20. CASE SuspendingEnd
  <2>1. PICK w \in FiberReason :
          HandleSuspended(w) /\ fiberReason' = [fiberReason EXCEPT ![current] = w]
    BY <1>1, <1>20, SuspendingEndEffect
  <2>2. /\ current \in Goroutine /\ pc' = "drain"
        /\ spent' \subseteq Goroutine
        /\ UNCHANGED <<persistent, retrigger, current, deferred, wakeFd, owed, stranded,
                       sliceDone, batch, scanVars, outsideVars>>
    BY <1>1, <1>20, SuspendingEndEffect DEF SchedulerTypeOK
  <2>3. /\ wait' \in [Goroutine -> Awaitable] /\ due' \subseteq Goroutine
        /\ state' \in [Goroutine -> LifeState]
        /\ reason' \in [Goroutine -> SuspensionReason]
    BY <1>1, <2>1, <2>2, HandleSuspendedEffect DEF SchedulerTypeOK
  <2>4. fiberReason' \in [Goroutine -> FiberReason]
    BY <1>1, <2>1 DEF SchedulerTypeOK
  <2> QED BY <1>1, <1>2, <2>2, <2>3, <2>4
          DEF EngineTypeOK, SchedulerTypeOK, scanVars, outsideVars
<1>21. CASE StartThrows
  <2>1. current \in Goroutine
    BY <1>21 DEF StartThrows, IInv, InHand
  <2> QED BY <1>1, <1>2, <1>21, <2>1
          DEF EngineTypeOK, SchedulerTypeOK, StartThrows, Goto, scanVars, outsideVars
<1>22. CASE SliceFails
  BY <1>1, <1>2, <1>22
     DEF EngineTypeOK, SchedulerTypeOK, SliceFails, Goto, scanVars, outsideVars
<1>23. ASSUME NEW g \in Goroutine,
              BodyTriggers(g) \/ BodyResumes(g) \/ BodySendsTo(g) \/ PolledTrigger(g)
       PROVE  EngineTypeOK'
  <2>1. CASE BodyTriggers(g) \/ PolledTrigger(g)
    <3>1. g \in Hotkey /\ WakeHotkey(g)
      BY <1>1, <2>1 DEF BodyTriggers, PolledTrigger, SchedulerTypeOK
    <3> QED BY <1>1, <1>2, <1>6, <2>1, <3>1
            DEF EngineTypeOK, SchedulerTypeOK, BodyTriggers, PolledTrigger, frameVars,
                scanVars
  <2>2. CASE BodyResumes(g) \/ BodySendsTo(g)
    BY <1>1, <1>2, <1>7, <2>2
       DEF EngineTypeOK, SchedulerTypeOK, BodyResumes, BodySendsTo, engineVars, frameVars,
           scanVars, outsideVars
  <2> QED BY <1>23, <2>1, <2>2
<1>24. ASSUME NEW t \in Producer, NEW h \in Goroutine, ProducerPush(t, h)
       PROVE  EngineTypeOK'
  <2>1. [op |-> "wake", g |-> h] \in DeferredAction
    BY <1>24 DEF ProducerPush, DeferredAction
  <2>2. deferred' \in [{"HOTKEY", "NORMAL"} -> Seq(DeferredAction)]
    BY <1>1, <1>24, <2>1, AppendProperties DEF ProducerPush, Defer, SchedulerTypeOK
  <2> QED BY <1>1, <1>2, <1>24, <2>2
          DEF EngineTypeOK, SchedulerTypeOK, ProducerPush, goroutineVars, frameVars, scanVars
<1>25. ASSUME NEW g \in Goroutine, TimerFires(g) PROVE EngineTypeOK'
  <2>1. [op |-> "fire", g |-> g] \in DeferredAction
    BY DEF DeferredAction
  <2>2. deferred' \in [{"HOTKEY", "NORMAL"} -> Seq(DeferredAction)]
    BY <1>1, <1>25, <2>1, AppendProperties DEF TimerFires, Defer, SchedulerTypeOK
  <2> QED BY <1>1, <1>2, <1>25, <2>2
          DEF EngineTypeOK, SchedulerTypeOK, TimerFires, goroutineVars, engineVars, frameVars,
              scanVars, outsideVars
<1>26. ASSUME NEW t \in Producer, ProducerNotify(t) PROVE EngineTypeOK'
  BY <1>1, <1>2, <1>26
     DEF EngineTypeOK, SchedulerTypeOK, ProducerNotify, goroutineVars, frameVars, scanVars
<1>27. ASSUME NEW g \in Goroutine, DeadlinePasses(g) PROVE EngineTypeOK'
  BY <1>1, <1>2, <1>27
     DEF EngineTypeOK, SchedulerTypeOK, DeadlinePasses, engineVars, frameVars, scanVars,
         outsideVars
<1>28. CASE UNCHANGED vars
  BY <1>1, <1>28
     DEF EngineTypeOK, SchedulerTypeOK, vars, schedVars, engineVars, frameVars, scanVars,
         outsideVars
<1>29. CASE FrameStep
  BY <1>8, <1>9, <1>10, <1>11, <1>12, <1>13, <1>14, <1>15, <1>16, <1>19, <1>20, <1>21,
     <1>22, <1>29, SliceEnds
     DEF FrameStep, DrainStep, PickStep, StartStep
<1>30. CASE ScriptStep
  BY <1>4, <1>5, <1>17, <1>18, <1>23, <1>30 DEF ScriptStep
<1>31. CASE OutsideStep
  BY <1>23, <1>24, <1>25, <1>26, <1>27, <1>31 DEF OutsideStep
<1> QED BY <1>28, <1>29, <1>30, <1>31 DEF Next

-----------------------------------------------------------------------------
(* Life cycles: who runs, who is pending, who sleeps, who is finished.      *)

\* The parts of the invariant about the life cycle, proved together.
Life == InHand /\ OneRunning /\ PlainPendingWillRun /\ SleeperWakeable

\* What DoneIsFinal says of one step.
FinalStep ==
    \A g \in Goroutine :
        /\ state[g] = "Done" => state'[g] \in {"Done", "Erased"}
        /\ state[g] = "Erased" => state'[g] = "Erased"

\* Where the VM thread has a goroutine in hand.
Picked == {"picked", "slice"}

\* A step that touches no goroutine, outside the part of the frame that has one
\* in hand or without leaving it.
LEMMA QuietLife ==
    ASSUME IInv, UNCHANGED <<state, reason, wait, persistent, stranded>>,
           Entries(queue') = Entries(queue),
           \/ UNCHANGED <<pc, current>>
           \/ pc \notin Picked /\ pc' \notin Picked
    PROVE  Life' /\ FinalStep
BY DEF IInv, Life, InHand, OneRunning, PlainPendingWillRun, InHandFresh, SleeperWakeable,
       FinalStep, Picked, CanRun

\* A step of one goroutine g, to state s: made while the frame stays where it
\* is, or by the goroutine in hand when the frame leaves it.
LEMMA LifeOfOne ==
    ASSUME IInv, NEW g \in Goroutine, NEW s,
           state' = [state EXCEPT ![g] = s],
           s # "Running",
           state[g] = "Done" => s \in {"Done", "Erased"},
           state[g] = "Erased" => s = "Erased",
           \/ UNCHANGED <<pc, current>> /\ pc # "picked"
           \/ pc \in Picked /\ g = current /\ pc' \notin Picked,
           s = "Done" => pc' # "slice" \/ g \in Hotkey \ persistent',
           \A h \in Goroutine \ {g} :
               /\ h \in Entries(queue) => h \in Entries(queue')
               /\ h \in stranded => h \in stranded'
               /\ reason'[h] = reason[h] /\ wait'[h] = wait[h]
               /\ h \in persistent' => h \in persistent,
           s \in {"Created", "Runnable"} => g \in Entries(queue') \cup Conditional,
           s = "Suspended" => (reason'[g] = "SleepWait" => wait'[g] = "SLEEP")
    PROVE  Life' /\ FinalStep
<1>1. /\ state \in [Goroutine -> LifeState]
      /\ \A h \in Goroutine : state'[h] = IF h = g THEN s ELSE state[h]
  BY DEF IInv, EngineTypeOK, SchedulerTypeOK
<1>2. FinalStep
  BY <1>1 DEF FinalStep
<1>3. InHand'
  BY <1>1 DEF IInv, InHand, Picked
<1>4. OneRunning'
  BY <1>1 DEF IInv, OneRunning, Picked
<1>5. PlainPendingWillRun'
  BY <1>1 DEF IInv, PlainPendingWillRun, InHandFresh, CanRun, Picked
<1>6. SleeperWakeable'
  BY <1>1 DEF IInv, SleeperWakeable
<1> QED BY <1>2, <1>3, <1>4, <1>5, <1>6 DEF Life

\* Every step keeps the invariants on life cycles, and revives nobody.
LEMMA LifeStep ==
    ASSUME IInv, [Next]_vars
    PROVE  Life' /\ FinalStep
<1>1. EngineTypeOK /\ SchedulerTypeOK /\ QueuesClean(queue) /\ EntriesRegistered
  BY DEF IInv, EngineTypeOK
<1>2. Hotkey \subseteq Goroutine /\ Updater \subseteq Goroutine \ Hotkey
  BY SchedulerAssumption, EngineAssumption
<1>3. /\ reason \in [Goroutine -> SuspensionReason] /\ wait \in [Goroutine -> Awaitable]
      /\ persistent \subseteq Hotkey
  BY <1>1 DEF SchedulerTypeOK
<1> USE DEF history
<1>4. ASSUME NEW g \in Goroutine, RegisterHotkey(g) PROVE Life' /\ FinalStep
  <2>1. /\ CreatePersistentHotkey(g) /\ g \in Hotkey /\ pc # "picked"
        /\ UNCHANGED <<pc, current, wait, stranded>>
    BY <1>4 DEF RegisterHotkey, ScriptRunning, engineVars, frameVars
  <2>2. /\ state[g] = "Unborn" /\ state' = [state EXCEPT ![g] = "Suspended"]
        /\ reason' = [reason EXCEPT ![g] = "HotkeyWait"]
        /\ persistent' = persistent \cup {g}
        /\ Entries(queue') = Entries(queue)
    BY <1>1, <2>1, CreatePersistentHotkeyEffect
  <2> QED BY <1>3, <2>1, <2>2, LifeOfOne
<1>5. ASSUME NEW g \in Goroutine, SpawnGoroutine(g) PROVE Life' /\ FinalStep
  <2>1. Spawn(g) /\ pc # "picked" /\ UNCHANGED <<pc, current, wait, reason, persistent, stranded>>
    BY <1>5 DEF SpawnGoroutine, ScriptRunning, engineVars, frameVars
  <2>2. /\ state[g] = "Unborn" /\ state' = [state EXCEPT ![g] = "Created"]
        /\ Entries(queue') = Entries(queue) \cup {g}
    BY <1>1, <2>1, SpawnEffect
  <2> QED BY <2>1, <2>2, LifeOfOne
<1>6. ASSUME NEW h \in Hotkey, WakeHotkey(h), UNCHANGED <<pc, current, persistent>>,
             pc # "picked"
      PROVE  Life' /\ FinalStep
  <2>1. CASE UNCHANGED <<state, reason, wait, queue, stranded>>
    BY <1>6, <2>1, QuietLife
  <2>2. CASE /\ state[h] \in {"Created", "Runnable", "Running", "Suspended"}
             /\ state' = [state EXCEPT ![h] = "Created"]
             /\ reason' = [reason EXCEPT ![h] = "None"]
             /\ wait' = [wait EXCEPT ![h] = "NONE"]
             /\ Entries(queue') = Entries(queue) \cup {h}
    <3>1. stranded \ {h} \subseteq stranded'
      BY <1>1, <1>6, WakeHotkeyEffect
    <3> QED BY <1>2, <1>3, <1>6, <2>2, <3>1, LifeOfOne
  <2> QED BY <1>1, <1>6, <2>1, <2>2, WakeHotkeyEffect
<1>7. ASSUME NEW g \in Goroutine, Unpark(g),
             UNCHANGED <<pc, current, persistent, wait, stranded>>,
             pc # "picked"
      PROVE  Life' /\ FinalStep
  <2>1. CASE UNCHANGED <<state, reason, queue>>
    BY <1>7, <2>1, QuietLife
  <2>2. CASE /\ state[g] = "Suspended"
             /\ state' = [state EXCEPT ![g] = "Runnable"]
             /\ reason' = [reason EXCEPT ![g] = "None"]
             /\ Entries(queue') = Entries(queue) \cup {g}
    BY <1>3, <1>7, <2>2, LifeOfOne
  <2> QED BY <1>1, <1>7, <2>1, <2>2, UnparkEffect
<1>8. CASE RunDeferred
  <2>1. /\ batch # <<>> /\ pc # "picked"
        /\ UNCHANGED <<pc, current, persistent>>
    BY <1>8 DEF RunDeferred
  <2>2. CASE RunWake(Head(batch).g) /\ Head(batch).op = "wake"
    BY <1>1, <1>6, <2>1, <2>2, BatchHead, QuietLife DEF RunWake
  <2>3. CASE RunFire(Head(batch).g)
    BY <1>1, <1>7, <2>1, <2>3, BatchHead, QuietLife DEF RunFire
  <2> QED BY <1>8, <2>2, <2>3 DEF RunDeferred
<1>9. CASE PollReturns \/ BeginDrain \/ TakeDeferred \/ DrainDone \/ SleepersDone
              \/ NextQueue \/ NothingToPick \/ UNCHANGED vars
  <2>1. UNCHANGED <<state, reason, wait, persistent, queue, stranded>>
    BY <1>9 DEF PollReturns, BeginDrain, TakeDeferred, DrainDone, SleepersDone, NextQueue,
       NothingToPick, vars, schedVars, goroutineVars
  <2>2. UNCHANGED <<pc, current>> \/ (pc \notin Picked /\ pc' \notin Picked)
    BY <1>9 DEF PollReturns, BeginDrain, TakeDeferred, DrainDone, SleepersDone, NextQueue,
       NothingToPick, vars, schedVars, engineVars, frameVars, Goto, Picked
  <2> QED BY <2>1, <2>2, QuietLife
<1>10. ASSUME NEW g \in Goroutine, WakeOneSleeper(g) PROVE Life' /\ FinalStep
  <2>1. /\ state[g] = "Suspended" /\ pc # "picked"
        /\ state' = [state EXCEPT ![g] = "Runnable"]
        /\ reason' = [reason EXCEPT ![g] = "None"]
        /\ wait' = [wait EXCEPT ![g] = "NONE"]
        /\ queue' = PushBack(RemoveFromQueues(g), g)
        /\ UNCHANGED <<pc, current, persistent, stranded>>
    BY <1>10 DEF WakeOneSleeper, WakeSleeper, engineVars, frameVars
  <2>2. Entries(queue') = Entries(queue) \cup {g}
    BY <1>1, <2>1, RequeueClean
  <2> QED BY <1>3, <2>1, <2>2, LifeOfOne
<1>11. CASE PickRunnable
  <2>1. /\ pc = "scan" /\ pc' = "picked" /\ current' = Head(queue[scanAt])
        /\ queue[scanAt] # <<>> /\ scanAt \in Priorities /\ CanRun(current')
        /\ queue' = [queue EXCEPT ![scanAt] = Tail(@)]
        /\ UNCHANGED <<state, reason, wait, persistent, stranded>>
    BY <1>1, <1>11
       DEF PickRunnable, Scanning, Front, Goto, goroutineVars, EngineTypeOK, CanRun
  <2>2. /\ Head(queue[scanAt]) \in Goroutine
        /\ Entries([queue EXCEPT ![scanAt] = Tail(@)])
             = Entries(queue) \ {Head(queue[scanAt])}
    BY <1>1, <2>1, PopClean, Zenon
  <2>3. current' \in Goroutine /\ Entries(queue') = Entries(queue) \ {current'}
    BY <2>1, <2>2
  <2> QED BY <2>1, <2>3
          DEF IInv, Life, InHand, OneRunning, PlainPendingWillRun, InHandFresh,
              SleeperWakeable, FinalStep, CanRun
<1>12. CASE DiscardDone
  <2>1. /\ queue[scanAt] # <<>> /\ scanAt \in Priorities
        /\ state[Head(queue[scanAt])] = "Done" /\ pc = "scan"
        /\ queue' = [queue EXCEPT ![scanAt] = Tail(@)]
        /\ UNCHANGED <<state, reason, wait, persistent, stranded, pc, current>>
    BY <1>1, <1>12 DEF DiscardDone, Scanning, Front, goroutineVars, EngineTypeOK
  <2>2. Entries([queue EXCEPT ![scanAt] = Tail(@)])
             = Entries(queue) \ {Head(queue[scanAt])}
    BY <1>1, <2>1, PopClean, Zenon
  <2>3. Entries(queue') = Entries(queue) \ {Head(queue[scanAt])}
    BY <2>1, <2>2
  <2> QED BY <2>1, <2>3
          DEF IInv, Life, InHand, OneRunning, PlainPendingWillRun, InHandFresh,
              SleeperWakeable, FinalStep, CanRun
<1>13. CASE RotateParked
  <2>1. /\ queue[scanAt] # <<>> /\ scanAt \in Priorities
        /\ queue' = [queue EXCEPT ![scanAt] = Append(Tail(@), Head(@))]
        /\ UNCHANGED <<state, reason, wait, persistent, stranded, pc, current>>
    BY <1>1, <1>13 DEF RotateParked, Scanning, goroutineVars, EngineTypeOK
  <2>2. Entries([queue EXCEPT ![scanAt] = Append(Tail(@), Head(@))]) = Entries(queue)
    BY <1>1, <2>1, PopClean, Zenon
  <2> QED BY <2>1, <2>2, QuietLife
<1>14. CASE ConditionFails
  <2>1. /\ pc = "picked" /\ pc' = "poll" /\ current \in Goroutine /\ CanRun(current)
        /\ state' = [state EXCEPT ![current] = "Suspended"]
        /\ reason' = [reason EXCEPT ![current] = "HotkeyWait"]
        /\ UNCHANGED <<wait, persistent, queue, stranded>>
    BY <1>14 DEF ConditionFails, Goto, IInv, InHand
  <2> QED BY <1>3, <2>1, LifeOfOne DEF Picked, CanRun
<1>15. CASE StartSlice
  <2>1. /\ pc = "picked" /\ pc' = "slice" /\ current \in Goroutine /\ CanRun(current)
        /\ state' = [state EXCEPT ![current] = "Running"]
        /\ wait' = wait \/ wait' = [wait EXCEPT ![current] = "NONE"]
        /\ UNCHANGED <<reason, persistent, queue, current, stranded>>
    BY <1>15 DEF StartSlice, Goto, IInv, InHand
  <2>2. \A h \in Goroutine :
          /\ state'[h] = IF h = current THEN "Running" ELSE state[h]
          /\ h # current => wait'[h] = wait[h]
    BY <1>1, <1>3, <2>1 DEF SchedulerTypeOK
  <2> QED BY <2>1, <2>2
          DEF IInv, Life, InHand, OneRunning, PlainPendingWillRun, InHandFresh,
              SleeperWakeable, FinalStep, CanRun
<1>16. CASE StartReturns \/ SliceReturns
  <2>1. /\ current \in Goroutine /\ (Rearm \/ ParkForTrigger \/ SleepUntilTick \/ Complete)
        /\ pc \in Picked /\ pc' \notin Picked /\ UNCHANGED persistent
        /\ state[current] \in GoroutineState
    BY <1>16 DEF StartReturns, SliceReturns, BodyRuns, InSlice, Registered, IInv, InHand,
       CanRun, GoroutineState, Goto, Picked
  <2>2. state[current] = "Done" => current \in Hotkey \ persistent
    BY <2>1 DEF IInv, InHand, Picked, CanRun
  <2>3. state[current] # "Erased"
    BY <2>1 DEF GoroutineState
  <2>4. \A h \in Goroutine \ {current} :
          wait'[h] = wait[h] /\ (h \in stranded => h \in stranded')
    BY <1>3, <2>1 DEF Rearm, RequeueFront, ParkForTrigger, SleepUntilTick, Complete
  <2>5. CASE /\ current \in persistent /\ state[current] # "Done"
             /\ state' = [state EXCEPT ![current] = "Created"]
             /\ reason' = [reason EXCEPT ![current] = "None"]
             /\ Entries(queue') = Entries(queue) \cup {current}
    BY <1>3, <2>1, <2>3, <2>4, <2>5, LifeOfOne
  <2>6. CASE /\ current \in persistent
             /\ state' = [state EXCEPT ![current] =
                            IF current \in Conditional THEN "Created" ELSE "Suspended"]
             /\ reason' = [reason EXCEPT ![current] = "HotkeyWait"]
             /\ UNCHANGED queue
    BY <1>3, <2>1, <2>2, <2>3, <2>4, <2>6, LifeOfOne
  <2>7. CASE /\ current \notin persistent /\ current \in Updater
             /\ state' = [state EXCEPT ![current] = "Suspended"]
             /\ reason' = [reason EXCEPT ![current] = "SleepWait"]
             /\ wait' = [wait EXCEPT ![current] = "SLEEP"]
             /\ UNCHANGED queue
    BY <1>2, <1>3, <2>1, <2>2, <2>3, <2>4, <2>7, LifeOfOne
  <2>8. CASE /\ current \notin persistent
             /\ state' = [state EXCEPT ![current] = "Done"]
             /\ UNCHANGED <<reason, wait, queue>>
    BY <2>1, <2>3, <2>4, <2>8, LifeOfOne DEF Picked
  <2> QED BY <1>1, <2>1, <2>2, <2>5, <2>6, <2>7, <2>8, ReturnEffect
<1>17. ASSUME NEW h \in Goroutine, BodyStops(h) PROVE Life' /\ FinalStep
  <2>1. /\ state[h] \in GoroutineState /\ h \in persistent /\ pc = "slice"
        /\ state' = [state EXCEPT ![h] = "Done"]
        /\ persistent' = persistent \ {h} /\ queue' = RemoveFromQueues(h)
        /\ UNCHANGED <<pc, current, reason, wait, stranded>>
    BY <1>17 DEF BodyStops, BodyRuns, InSlice, StopHotkeyGoroutine, Registered, engineVars,
       frameVars
  <2>2. Entries(queue') = Entries(queue) \ {h}
    BY <1>1, <2>1, RemoveFromQueuesClean
  <2> QED BY <1>3, <2>1, <2>2, LifeOfOne DEF GoroutineState
<1>18. ASSUME NEW h \in Goroutine, BodyRemoves(h) PROVE Life' /\ FinalStep
  <2>1. /\ pc = "slice"
        /\ state' = [state EXCEPT ![h] = "Erased"]
        /\ queue' = RemoveFromQueues(h)
        /\ UNCHANGED <<pc, current, reason, wait, persistent, stranded>>
    BY <1>18 DEF BodyRemoves, BodyRuns, InSlice, RemoveHotkeyByAlias, engineVars, frameVars
  <2>2. Entries(queue') = Entries(queue) \ {h}
    BY <1>1, <2>1, RemoveFromQueuesClean
  <2> QED BY <2>1, <2>2, LifeOfOne
<1>19. CASE BodyExits
  <2>1. /\ pc' = "stopped" /\ UNCHANGED <<reason, wait>>
        /\ \A g \in Goroutine : state'[g] =
             IF state[g] \in GoroutineState THEN "Erased" ELSE state[g]
    BY <1>19 DEF BodyExits, StopScheduler, Goto, Registered
  <2> QED BY <1>1, <2>1
          DEF Life, InHand, OneRunning, PlainPendingWillRun, SleeperWakeable, FinalStep,
              CanRun, SchedulerTypeOK, LifeState, GoroutineState
<1>20. CASE YieldingEnd
  <2>1. /\ YieldGoroutine(current) /\ current \in Goroutine
        /\ state[current] \in GoroutineState /\ pc \in Picked /\ pc' \notin Picked
        /\ UNCHANGED <<reason, wait, persistent, stranded>>
    BY <1>20, YieldingEndEffect DEF InSlice, Picked
  <2>2. CASE state[current] = "Done" /\ UNCHANGED <<state, queue>>
    <3>1. state' = [state EXCEPT ![current] = "Done"]
      BY <1>1, <2>2 DEF SchedulerTypeOK
    <3> QED BY <2>1, <2>2, <3>1, LifeOfOne DEF Picked
  <2>3. CASE /\ state[current] # "Done"
             /\ state' = [state EXCEPT ![current] = "Runnable"]
             /\ Entries(queue') = Entries(queue) \cup {current}
    BY <2>1, <2>3, LifeOfOne DEF GoroutineState
  <2> QED BY <1>1, <2>1, <2>2, <2>3, YieldEffect
<1>21. CASE SuspendingEnd
  <2>1. PICK w \in FiberReason : HandleSuspended(w)
    BY <1>1, <1>21, SuspendingEndEffect
  <2>2. /\ current \in Goroutine /\ state[current] \in GoroutineState
        /\ pc \in Picked /\ pc' \notin Picked /\ UNCHANGED <<persistent, stranded>>
    BY <1>1, <1>21, SuspendingEndEffect DEF InSlice, Picked
  <2>3. \A h \in Goroutine \ {current} : wait'[h] = wait[h]
    BY <1>1, <2>1, <2>2, HandleSuspendedEffect
  <2>4. CASE state[current] = "Done" /\ UNCHANGED <<state, reason, queue>>
    <3>1. state' = [state EXCEPT ![current] = "Done"]
      BY <1>1, <2>4 DEF SchedulerTypeOK
    <3> QED BY <2>2, <2>3, <2>4, <3>1, LifeOfOne DEF Picked
  <2>5. CASE /\ state[current] # "Done"
             /\ state' = [state EXCEPT ![current] = "Suspended"]
             /\ \E r \in SuspensionReason :
                  /\ reason' = [reason EXCEPT ![current] = r]
                  /\ r = "SleepWait" => wait'[current] = "SLEEP"
             /\ Entries(queue') = Entries(queue) \ {current}
    <3>1. /\ \A h \in Goroutine \ {current} : reason'[h] = reason[h]
          /\ reason'[current] = "SleepWait" => wait'[current] = "SLEEP"
      BY <1>3, <2>2, <2>5
    <3> QED BY <2>2, <2>3, <2>5, <3>1, LifeOfOne DEF GoroutineState
  <2>6. \/ state[current] = "Done" /\ UNCHANGED <<state, reason, queue>>
        \/ /\ state[current] # "Done"
           /\ state' = [state EXCEPT ![current] = "Suspended"]
           /\ \E r \in SuspensionReason :
                /\ reason' = [reason EXCEPT ![current] = r]
                /\ r = "SleepWait" => wait'[current] = "SLEEP"
           /\ Entries(queue') = Entries(queue) \ {current}
    BY <1>1, <2>1, <2>2, HandleSuspendedEffect
  <2> QED BY <2>4, <2>5, <2>6
<1>22. CASE StartThrows
  <2>1. /\ pc = "picked" /\ pc' = "poll" /\ stranded' = stranded \cup {current}
        /\ UNCHANGED <<state, reason, wait, persistent, queue>>
    BY <1>22 DEF StartThrows, Goto
  <2> QED BY <2>1
          DEF IInv, Life, InHand, OneRunning, PlainPendingWillRun, InHandFresh,
              SleeperWakeable, FinalStep, CanRun
<1>23. CASE SliceFails
  <2>1. /\ current \in Goroutine /\ state[current] \in GoroutineState
        /\ pc \in Picked /\ pc' \notin Picked
        /\ state' = [state EXCEPT ![current] = "Done"]
        /\ UNCHANGED <<reason, wait, persistent, queue, stranded>>
    BY <1>23 DEF SliceFails, BodyRuns, InSlice, Registered, Goto, Picked
  <2> QED BY <2>1, LifeOfOne DEF GoroutineState, Picked
<1>24. ASSUME NEW g \in Goroutine,
              BodyTriggers(g) \/ BodyResumes(g) \/ BodySendsTo(g) \/ PolledTrigger(g)
       PROVE  Life' /\ FinalStep
  <2>1. pc # "picked" /\ UNCHANGED <<pc, current, persistent>>
    BY <1>24 DEF BodyTriggers, BodyResumes, BodySendsTo, PolledTrigger, BodyRuns, InSlice,
       engineVars, frameVars
  <2>2. CASE BodyTriggers(g) \/ PolledTrigger(g)
    BY <1>3, <1>6, <2>1, <2>2 DEF BodyTriggers, PolledTrigger
  <2>3. CASE BodyResumes(g) \/ BodySendsTo(g)
    BY <1>7, <2>1, <2>3 DEF BodyResumes, BodySendsTo
  <2> QED BY <1>24, <2>2, <2>3
<1>25. CASE \/ \E t \in Producer : ProducerNotify(t) \/ \E h \in Goroutine : ProducerPush(t, h)
            \/ \E g \in Goroutine : DeadlinePasses(g) \/ TimerFires(g)
  BY <1>25, QuietLife
     DEF ProducerNotify, ProducerPush, DeadlinePasses, TimerFires, goroutineVars, engineVars,
         frameVars
<1>26. CASE FrameStep
  BY <1>8, <1>9, <1>10, <1>11, <1>12, <1>13, <1>14, <1>15, <1>16, <1>20, <1>21, <1>22,
     <1>23, <1>26, SliceEnds
     DEF FrameStep, DrainStep, PickStep, StartStep
<1>27. CASE ScriptStep
  BY <1>4, <1>5, <1>17, <1>18, <1>19, <1>24, <1>27 DEF ScriptStep
<1>28. CASE OutsideStep
  BY <1>24, <1>25, <1>28 DEF OutsideStep
<1> QED BY <1>9, <1>26, <1>27, <1>28 DEF Next

-----------------------------------------------------------------------------
(* Deferred actions and the eventfd.                                        *)

\* Every step of the drain and of schedule() keeps WakeupComing.
LEMMA WakeupStep ==
    ASSUME IInv, [Next]_vars
    PROVE  WakeupComing'
<1>1. EngineTypeOK /\ SchedulerTypeOK /\ QueuesClean(queue) /\ WakeupComing
  BY DEF IInv, EngineTypeOK
<1>3. CASE UNCHANGED <<deferred, pushed>> /\ (wakeFd => wakeFd')
              /\ (pc \in {"frame", "swap"} => pc' = pc)
  BY <1>1, <1>3 DEF WakeupComing
<1>4. CASE PollReturns \/ BeginDrain
  BY <1>4 DEF WakeupComing, PollReturns, BeginDrain, Goto
<1>5. CASE TakeDeferred
  BY <1>5 DEF WakeupComing, TakeDeferred
<1>6. CASE RunDeferred
  <2>1. /\ batch # <<>> /\ UNCHANGED <<deferred, pushed, pc>>
    BY <1>6 DEF RunDeferred, outsideVars
  <2>2. CASE RunWake(Head(batch).g) /\ Head(batch).op = "wake"
    <3>1. wakeFd => wakeFd'
      BY <2>2 DEF RunWake, WakeHotkey, RequeueFront
    <3> QED BY <1>3, <2>1, <3>1
  <2>3. CASE RunFire(Head(batch).g)
    <3>1. wakeFd => wakeFd'
      BY <2>3 DEF RunFire, Unpark
    <3> QED BY <1>3, <2>1, <3>1
  <2> QED BY <1>6, <2>2, <2>3 DEF RunDeferred
<1>7. CASE DrainDone \/ PickStep \/ ConditionFails \/ StartSlice \/ StartThrows
              \/ YieldingEnd \/ SuspendingEnd \/ SliceFails \/ BodyExits \/ UNCHANGED vars
  BY <1>3, <1>7
     DEF DrainDone, PickStep, SleepersDone, PickRunnable, DiscardDone, RotateParked, Scanning,
         NextQueue, NothingToPick, WakeOneSleeper, ConditionFails, StartSlice, StartThrows,
         YieldingEnd, SuspendingEnd, SliceYields, BodyReturns, NothingToExecute, SliceFails,
         SliceSuspends, BodyExits, BodyRuns, InSlice, Goto, vars, schedVars, engineVars,
         frameVars, outsideVars
<1>8. CASE StartReturns \/ SliceReturns
  <2>1. /\ current \in Goroutine /\ (Rearm \/ ParkForTrigger \/ SleepUntilTick \/ Complete)
        /\ UNCHANGED <<deferred, pushed>> /\ pc \notin {"frame", "swap"}
    BY <1>8 DEF StartReturns, SliceReturns, BodyRuns, InSlice, Registered, IInv, InHand,
       outsideVars
  <2>2. wakeFd => wakeFd'
    BY <2>1 DEF Rearm, RequeueFront, ParkForTrigger, SleepUntilTick, Complete
  <2> QED BY <1>3, <2>1, <2>2
<1>9. ASSUME NEW g \in Goroutine,
             \/ RegisterHotkey(g) \/ SpawnGoroutine(g) \/ BodyTriggers(g) \/ BodyStops(g)
             \/ BodyResumes(g) \/ BodyRemoves(g) \/ BodySendsTo(g) \/ PolledTrigger(g)
             \/ DeadlinePasses(g)
      PROVE  WakeupComing'
  <2>1. UNCHANGED <<deferred, pushed, pc>>
    BY <1>9 DEF RegisterHotkey, SpawnGoroutine, BodyTriggers, BodyStops, BodyResumes,
       BodyRemoves, BodySendsTo, PolledTrigger, DeadlinePasses, engineVars, frameVars,
       outsideVars
  <2>2. wakeFd => wakeFd'
    BY <1>9 DEF RegisterHotkey, SpawnGoroutine, BodyTriggers, BodyStops, BodyResumes,
       BodyRemoves, BodySendsTo, PolledTrigger, DeadlinePasses, WakeHotkey, RequeueFront,
       Unpark
  <2> QED BY <1>3, <2>1, <2>2
<1>10. ASSUME NEW t \in Producer, NEW h \in Goroutine, ProducerPush(t, h) PROVE WakeupComing'
  BY <1>10 DEF WakeupComing, ProducerPush
<1>11. ASSUME NEW t \in Producer, ProducerNotify(t) PROVE WakeupComing'
  BY <1>11 DEF WakeupComing, ProducerNotify
<1>12. ASSUME NEW g \in Goroutine, TimerFires(g) PROVE WakeupComing'
  BY <1>12 DEF WakeupComing, TimerFires
<1>13. CASE FrameStep
  BY <1>4, <1>5, <1>6, <1>7, <1>8, <1>13, SliceEnds DEF FrameStep, DrainStep, StartStep
<1> QED BY <1>7, <1>9, <1>10, <1>11, <1>12, <1>13 DEF Next, ScriptStep, OutsideStep

-----------------------------------------------------------------------------
(* Hotkeys whose policies merge a redundant trigger into the pending run.   *)
(* A Replace or Queue policy re-arms the goroutine in the middle of its own *)
(* slice; the results below are false there.                                *)

Merging == \A h \in Hotkey : policy[h] \in {"Drop", "Coalesce"}

\* NoDoneQueued, and what it leans on: the goroutine in its slice is in no run
\* queue, and nothing but an end has happened to it.
Apart ==
    /\ \A g \in Entries(queue) : state[g] # "Done"
    /\ pc = "slice" => /\ current \notin Entries(queue)
                       /\ state[current] \in {"Running", "Done", "Erased"}

Idle == {h \in Hotkey : state[h] = "Suspended" /\ reason[h] = "HotkeyWait"}

\* In line for a slice: in a run queue, or just popped.
InLine(h) == h \in Entries(queue) \/ InHandFresh(h)

\* The hotkeys with all in order: no wait handle is left on one that waits for a
\* trigger or is about to run; the fiber of one that is in line or in its run does
\* not say that it waits for a trigger, which is what the end of a slice would
\* park it by; and an accepted trigger is in the run queue or in the retrigger
\* flag, or was lost to a throw.
InOrder == {h \in Hotkey :
    /\ state[h] \in {"Unborn", "Created", "Running"} \/ h \in Idle => wait[h] = "NONE"
    /\ fiberReason[h] = "HOTKEY_WAIT" =>
        \/ state[h] \in {"Done", "Erased"} \/ h \in Idle
        \/ state[h] = "Created" /\ ~InLine(h)
    /\ h \in owed =>
        \/ state[h] \in {"Done", "Erased"} \/ h \in stranded
        \/ state[h] = "Created" /\ InLine(h)
        \/ h \in retrigger /\ (\/ state[h] \in {"Runnable", "Running"}
                               \/ state[h] = "Suspended" /\ h \notin Idle)}

AllInOrder == Hotkey \subseteq InOrder

\* wakeHotkey() re-arms idle hotkeys only.
LEMMA MergingWakeEffect ==
    ASSUME Merging, SchedulerTypeOK, QueuesClean(queue), NEW h \in Hotkey, WakeHotkey(h)
    PROVE  \/ UNCHANGED <<state, reason, wait, retrigger, fiberReason, queue, owed, stranded>>
           \/ /\ h \in Idle
              /\ state' = [state EXCEPT ![h] = "Created"]
              /\ reason' = [reason EXCEPT ![h] = "None"]
              /\ wait' = [wait EXCEPT ![h] = "NONE"]
              /\ fiberReason' = [fiberReason EXCEPT ![h] = "NONE"]
              /\ retrigger' = retrigger \ {h} /\ stranded' = stranded \ {h}
              /\ owed' = owed \cup {h}
              /\ Entries(queue') = Entries(queue) \cup {h}
           \/ /\ \/ Pending(h) /\ policy[h] = "Coalesce"
                 \/ state[h] = "Suspended" /\ h \notin Idle
              /\ retrigger' = retrigger \cup {h} /\ owed' = owed \cup {h}
              /\ UNCHANGED <<state, reason, wait, fiberReason, queue, stranded>>
<1>1. h \in Goroutine /\ policy[h] \in {"Drop", "Coalesce"}
  BY SchedulerAssumption DEF Merging
<1>2. CASE RequeueFront(h) /\ owed' = owed \cup {h} /\ h \in Idle
  <2>1. Entries(queue') = Entries(queue) \cup {h}
    BY <1>1, <1>2, RequeueClean DEF RequeueFront, Idle
  <2> QED BY <1>2, <2>1 DEF RequeueFront, Idle
<1>3. \/ UNCHANGED <<state, reason, wait, retrigger, fiberReason, queue, owed, stranded>>
      \/ RequeueFront(h) /\ owed' = owed \cup {h} /\ h \in Idle
      \/ /\ \/ Pending(h) /\ policy[h] = "Coalesce"
            \/ state[h] = "Suspended" /\ h \notin Idle
         /\ retrigger' = retrigger \cup {h} /\ owed' = owed \cup {h}
         /\ UNCHANGED <<state, reason, wait, fiberReason, queue, stranded>>
  BY <1>1 DEF WakeHotkey, Idle, fiberVars, history
<1> QED BY <1>2, <1>3

\* A step of one goroutine keeps Apart if it does not queue a Done one, nor
\* queue or re-arm the one in its slice.
LEMMA ApartOfOne ==
    ASSUME IInv, Apart, NEW g \in Goroutine, NEW s, state' = [state EXCEPT ![g] = s],
           Entries(queue') \subseteq Entries(queue) \cup {g},
           s = "Done" => g \notin Entries(queue'),
           pc' = "slice" =>
               /\ pc = "slice" /\ current' = current
               /\ g = current => /\ s \in {"Done", "Erased"}
                                 /\ g \notin Entries(queue')
    PROVE  Apart'
<1>1. Entries(queue) \subseteq Goroutine
  BY EntriesAreGoroutines DEF IInv
<1>2. \A h \in Goroutine : state'[h] = IF h = g THEN s ELSE state[h]
  BY DEF IInv, EngineTypeOK, SchedulerTypeOK
<1>3. pc = "slice" => current \in Goroutine
  BY DEF IInv, InHand
<1> QED BY <1>1, <1>2, <1>3 DEF Apart

\* A step that changes no state, queues nobody and picks nobody keeps it.
LEMMA ApartQuiet ==
    ASSUME Apart, UNCHANGED state, Entries(queue') \subseteq Entries(queue),
           pc' = "slice" => pc = "slice" /\ current' = current
    PROVE  Apart'
BY DEF Apart

\* Every step keeps Apart.
LEMMA ApartStep ==
    ASSUME Merging, IInv, Apart, [Next]_vars
    PROVE  Apart'
<1>1. EngineTypeOK /\ SchedulerTypeOK /\ QueuesClean(queue) /\ EntriesRegistered
  BY DEF IInv, EngineTypeOK
<1>2. Hotkey \subseteq Goroutine
  BY SchedulerAssumption
<1>3. CASE UNCHANGED <<state, queue>> /\ (UNCHANGED <<pc, current>> \/ pc' # "slice")
  BY <1>3, ApartQuiet
<1>4. ASSUME NEW g \in Goroutine, RegisterHotkey(g) PROVE Apart'
  <2>1. /\ CreatePersistentHotkey(g) /\ g \in Hotkey /\ UNCHANGED <<pc, current>>
    BY <1>4 DEF RegisterHotkey, engineVars, frameVars
  <2>2. /\ state[g] = "Unborn" /\ state' = [state EXCEPT ![g] = "Suspended"]
        /\ Entries(queue') = Entries(queue)
    BY <1>1, <2>1, CreatePersistentHotkeyEffect
  <2>3. pc = "slice" => g # current
    BY <2>2 DEF Apart
  <2> QED BY <2>1, <2>2, <2>3, ApartOfOne
<1>5. ASSUME NEW g \in Goroutine, SpawnGoroutine(g) PROVE Apart'
  <2>1. Spawn(g) /\ UNCHANGED <<pc, current>>
    BY <1>5 DEF SpawnGoroutine, engineVars, frameVars
  <2>2. /\ state[g] = "Unborn" /\ state' = [state EXCEPT ![g] = "Created"]
        /\ Entries(queue') = Entries(queue) \cup {g}
    BY <1>1, <2>1, SpawnEffect
  <2>3. pc = "slice" => g # current
    BY <2>2 DEF Apart
  <2> QED BY <2>1, <2>2, <2>3, ApartOfOne
<1>6. ASSUME NEW h \in Hotkey, WakeHotkey(h), UNCHANGED <<pc, current>>
      PROVE  Apart'
  <2>1. CASE /\ h \in Idle
             /\ state' = [state EXCEPT ![h] = "Created"]
             /\ Entries(queue') = Entries(queue) \cup {h}
    <3>1. pc = "slice" => h # current
      BY <2>1 DEF Apart, Idle
    <3> QED BY <1>2, <1>6, <2>1, <3>1, ApartOfOne
  <2> QED BY <1>1, <1>3, <1>6, <2>1, MergingWakeEffect
<1>7. ASSUME NEW g \in Goroutine, Unpark(g), UNCHANGED <<pc, current>>
      PROVE  Apart'
  <2>1. CASE /\ state[g] = "Suspended"
             /\ state' = [state EXCEPT ![g] = "Runnable"]
             /\ Entries(queue') = Entries(queue) \cup {g}
    <3>1. pc = "slice" => g # current
      BY <2>1 DEF Apart
    <3> QED BY <1>7, <2>1, <3>1, ApartOfOne
  <2> QED BY <1>1, <1>3, <1>7, <2>1, UnparkEffect
<1>8. CASE RunDeferred
  <2>1. batch # <<>> /\ UNCHANGED <<pc, current>>
    BY <1>8 DEF RunDeferred
  <2>2. CASE RunWake(Head(batch).g) /\ Head(batch).op = "wake"
    BY <1>1, <1>3, <1>6, <2>1, <2>2, BatchHead DEF RunWake
  <2>3. CASE RunFire(Head(batch).g)
    BY <1>1, <1>3, <1>7, <2>1, <2>3, BatchHead DEF RunFire
  <2> QED BY <1>8, <2>2, <2>3 DEF RunDeferred
<1>9. CASE \/ PollReturns \/ BeginDrain \/ TakeDeferred \/ DrainDone \/ SleepersDone
           \/ NextQueue \/ NothingToPick \/ StartThrows \/ UNCHANGED vars
  <2>1. UNCHANGED <<state, queue>>
    BY <1>9 DEF PollReturns, BeginDrain, TakeDeferred, DrainDone, SleepersDone, NextQueue,
       NothingToPick, StartThrows, vars, schedVars, goroutineVars
  <2>2. UNCHANGED <<pc, current>> \/ pc' # "slice"
    BY <1>9 DEF PollReturns, BeginDrain, TakeDeferred, DrainDone, SleepersDone, NextQueue,
       NothingToPick, StartThrows, vars, schedVars, engineVars, frameVars, Goto
  <2> QED BY <1>3, <2>1, <2>2
<1>10. ASSUME NEW g \in Goroutine, WakeOneSleeper(g) PROVE Apart'
  <2>1. /\ state' = [state EXCEPT ![g] = "Runnable"] /\ pc' # "slice"
        /\ queue' = PushBack(RemoveFromQueues(g), g)
    BY <1>10 DEF WakeOneSleeper, WakeSleeper, engineVars, frameVars
  <2>2. Entries(queue') = Entries(queue) \cup {g}
    BY <1>1, <2>1, RequeueClean
  <2> QED BY <2>1, <2>2, ApartOfOne
<1>11. CASE PickRunnable \/ DiscardDone \/ RotateParked
  <2>1. /\ queue[scanAt] # <<>> /\ scanAt \in Priorities /\ UNCHANGED state
        /\ pc' # "slice"
    BY <1>1, <1>11 DEF PickRunnable, DiscardDone, RotateParked, Scanning, goroutineVars,
       EngineTypeOK, Goto
  <2>2. \/ queue' = [queue EXCEPT ![scanAt] = Tail(@)]
        \/ queue' = [queue EXCEPT ![scanAt] = Append(Tail(@), Head(@))]
    BY <1>11 DEF PickRunnable, DiscardDone, RotateParked
  <2>3. Entries(queue') \subseteq Entries(queue)
    <3> DEFINE pop == [queue EXCEPT ![scanAt] = Tail(@)]
               rot == [queue EXCEPT ![scanAt] = Append(Tail(@), Head(@))]
    <3>1. /\ Entries(pop) = Entries(queue) \ {Head(queue[scanAt])}
          /\ Entries(rot) = Entries(queue)
      BY <1>1, <2>1, PopClean, Zenon
    <3>2. queue' = pop \/ queue' = rot
      BY <2>2
    <3> HIDE DEF pop, rot
    <3> QED BY <3>1, <3>2
  <2> QED BY <2>1, <2>3, ApartQuiet
<1>12. CASE ConditionFails
  <2>1. /\ current \in Goroutine /\ state' = [state EXCEPT ![current] = "Suspended"]
        /\ pc' # "slice" /\ UNCHANGED queue
    BY <1>12 DEF ConditionFails, Goto, IInv, InHand
  <2> QED BY <2>1, ApartOfOne
<1>13. CASE StartSlice
  <2>1. /\ current \in Goroutine /\ current \notin Entries(queue)
        /\ state' = [state EXCEPT ![current] = "Running"]
        /\ UNCHANGED <<queue, current>>
    BY <1>13 DEF StartSlice, IInv, InHand
  <2>2. \A h \in Goroutine : state'[h] = IF h = current THEN "Running" ELSE state[h]
    BY <1>1, <2>1 DEF SchedulerTypeOK
  <2>3. Entries(queue) \subseteq Goroutine
    BY <1>1, EntriesAreGoroutines
  <2> QED BY <2>1, <2>2, <2>3 DEF Apart
<1>14. CASE StartReturns \/ SliceReturns
  <2>1. /\ current \in Goroutine /\ (Rearm \/ ParkForTrigger \/ SleepUntilTick \/ Complete)
        /\ pc' # "slice" /\ current \notin Entries(queue)
    BY <1>14 DEF StartReturns, SliceReturns, BodyRuns, InSlice, IInv, InHand, Apart, Goto
  <2>2. \/ UNCHANGED <<state, queue>>
        \/ /\ state' = [state EXCEPT ![current] = "Created"]
           /\ Entries(queue') = Entries(queue) \cup {current}
        \/ /\ state' = [state EXCEPT ![current] =
                         IF current \in Conditional THEN "Created" ELSE "Suspended"]
           /\ UNCHANGED queue
        \/ /\ state' = [state EXCEPT ![current] = "Suspended"]
           /\ UNCHANGED queue
        \/ /\ state' = [state EXCEPT ![current] = "Done"]
           /\ UNCHANGED queue
    BY <1>1, <2>1, ReturnEffect
  <2> QED BY <1>3, <2>1, <2>2, ApartOfOne
<1>15. ASSUME NEW h \in Goroutine, BodyStops(h) \/ BodyRemoves(h) PROVE Apart'
  <2>1. /\ queue' = RemoveFromQueues(h) /\ UNCHANGED <<pc, current>>
    BY <1>15 DEF BodyStops, BodyRemoves, StopHotkeyGoroutine, RemoveHotkeyByAlias,
       engineVars, frameVars
  <2>2. Entries(queue') = Entries(queue) \ {h}
    BY <1>1, <2>1, RemoveFromQueuesClean
  <2>3. PICK s \in {"Done", "Erased"} : state' = [state EXCEPT ![h] = s]
    BY <1>15 DEF BodyStops, BodyRemoves, StopHotkeyGoroutine, RemoveHotkeyByAlias
  <2> QED BY <2>1, <2>2, <2>3, ApartOfOne DEF Apart
<1>16. CASE BodyExits
  <2>1. queue' = [p \in Priorities |-> <<>>] /\ pc' # "slice"
    BY <1>16 DEF BodyExits, StopScheduler, Goto
  <2>2. Entries(queue') = {}
    BY <2>1 DEF Entries, Range
  <2> QED BY <2>1, <2>2 DEF Apart
<1>17. CASE YieldingEnd
  <2>1. YieldGoroutine(current) /\ current \in Goroutine /\ pc' # "slice"
    BY <1>17, YieldingEndEffect
  <2> QED BY <1>1, <1>3, <2>1, YieldEffect, ApartOfOne
<1>18. CASE SuspendingEnd
  <2>1. PICK w \in FiberReason : HandleSuspended(w)
    BY <1>1, <1>18, SuspendingEndEffect
  <2>2. current \in Goroutine /\ pc' # "slice"
    BY <1>1, <1>18, SuspendingEndEffect
  <2> QED BY <1>1, <1>3, <2>1, <2>2, HandleSuspendedEffect, ApartOfOne
<1>19. CASE SliceFails
  <2>1. /\ current \in Goroutine /\ pc' # "slice" /\ current \notin Entries(queue)
        /\ state' = [state EXCEPT ![current] = "Done"] /\ UNCHANGED queue
    BY <1>19 DEF SliceFails, BodyRuns, InSlice, Registered, Goto, Apart
  <2> QED BY <2>1, ApartOfOne
<1>20. ASSUME NEW g \in Goroutine,
              BodyTriggers(g) \/ BodyResumes(g) \/ BodySendsTo(g) \/ PolledTrigger(g)
       PROVE  Apart'
  <2>1. UNCHANGED <<pc, current>>
    BY <1>20 DEF BodyTriggers, BodyResumes, BodySendsTo, PolledTrigger, engineVars, frameVars
  <2>2. CASE BodyTriggers(g) \/ PolledTrigger(g)
    BY <1>1, <1>6, <2>1, <2>2 DEF BodyTriggers, PolledTrigger, SchedulerTypeOK
  <2>3. CASE BodyResumes(g) \/ BodySendsTo(g)
    BY <1>7, <2>1, <2>3 DEF BodyResumes, BodySendsTo
  <2> QED BY <1>20, <2>2, <2>3
<1>21. CASE \/ \E t \in Producer : ProducerNotify(t) \/ \E h \in Goroutine : ProducerPush(t, h)
            \/ \E g \in Goroutine : DeadlinePasses(g) \/ TimerFires(g)
  BY <1>3, <1>21
     DEF ProducerNotify, ProducerPush, DeadlinePasses, TimerFires, goroutineVars, engineVars,
         frameVars
<1>22. CASE EndSlice
  BY <1>14, <1>17, <1>18, <1>19, <1>22, SliceEnds
<1>23. CASE FrameStep
  BY <1>8, <1>9, <1>10, <1>11, <1>12, <1>13, <1>14, <1>22, <1>23
     DEF FrameStep, DrainStep, PickStep, StartStep
<1>24. CASE ScriptStep
  BY <1>4, <1>5, <1>15, <1>16, <1>20, <1>24 DEF ScriptStep
<1>25. CASE OutsideStep
  BY <1>20, <1>21, <1>25 DEF OutsideStep
<1> QED BY <1>9, <1>23, <1>24, <1>25 DEF Next

\* A step of one goroutine g keeps the other hotkeys in order.
LEMMA OrderOfOne ==
    ASSUME AllInOrder, NEW g \in Goroutine,
           \A h \in Hotkey \ {g} :
               /\ state'[h] = state[h] /\ reason'[h] = reason[h] /\ wait'[h] = wait[h]
               /\ fiberReason'[h] = fiberReason[h]
               /\ h \in owed' => h \in owed
               /\ h \in retrigger => h \in retrigger'
               /\ h \in stranded => h \in stranded'
               /\ h \in Entries(queue) <=> h \in Entries(queue')
               /\ pc = "picked" /\ current = h <=> pc' = "picked" /\ current' = h,
           g \in Hotkey => g \in InOrder'
    PROVE  AllInOrder'
<1>1. ASSUME NEW h \in Hotkey \ {g} PROVE h \in InOrder'
  <2>1. h \in InOrder /\ (InLine(h)' <=> InLine(h)) /\ (h \in Idle' <=> h \in Idle)
    BY <1>1 DEF AllInOrder, InLine, InHandFresh, Idle
  <2> QED BY <1>1, <2>1 DEF InOrder
<1> QED BY <1>1 DEF AllInOrder

\* A step that touches no goroutine keeps all in order.
LEMMA OrderQuiet ==
    ASSUME AllInOrder, UNCHANGED <<state, reason, wait, retrigger, fiberReason, owed>>,
           stranded \subseteq stranded',
           \A h \in Hotkey :
               /\ InLine(h) => InLine(h)' \/ state[h] # "Created" \/ h \in stranded'
               /\ InLine(h)' => InLine(h)
    PROVE  AllInOrder'
<1>1. ASSUME NEW h \in Hotkey PROVE h \in InOrder'
  <2>1. h \in InOrder /\ (h \in Idle' <=> h \in Idle)
    BY <1>1 DEF AllInOrder, Idle
  <2> QED BY <1>1, <2>1 DEF InOrder
<1> QED BY <1>1 DEF AllInOrder

\* Every step keeps all in order, as long as no script calls resume(), which
\* makes a parked hotkey runnable without a frame to run.
LEMMA OrderStep ==
    ASSUME Merging, "resume" \notin Calls, IInv, Apart, AllInOrder, [Next]_vars
    PROVE  AllInOrder'
<1>1. EngineTypeOK /\ SchedulerTypeOK /\ QueuesClean(queue) /\ EntriesRegistered
  BY DEF IInv, EngineTypeOK
<1>2. Hotkey \subseteq Goroutine /\ Updater \cap Hotkey = {}
  BY SchedulerAssumption, EngineAssumption
<1>3. /\ state \in [Goroutine -> LifeState] /\ reason \in [Goroutine -> SuspensionReason]
      /\ wait \in [Goroutine -> Awaitable] /\ persistent \subseteq Hotkey
  BY <1>1 DEF SchedulerTypeOK
<1>24. fiberReason \in [Goroutine -> FiberReason]
  BY <1>1 DEF SchedulerTypeOK
<1> USE DEF fiberVars, history
<1>4. CASE /\ UNCHANGED <<state, reason, wait, retrigger, fiberReason, owed, stranded, queue>>
           /\ UNCHANGED <<pc, current>> \/ (pc # "picked" /\ pc' # "picked")
  BY <1>4, OrderQuiet DEF InLine, InHandFresh
<1>5. ASSUME NEW g \in Goroutine, RegisterHotkey(g) PROVE AllInOrder'
  <2>1. /\ CreatePersistentHotkey(g) /\ g \in Hotkey
        /\ fiberReason' = [fiberReason EXCEPT ![g] = "HOTKEY_WAIT"]
        /\ UNCHANGED <<pc, current, wait, retrigger, owed, stranded>>
    BY <1>5 DEF RegisterHotkey, CreatePersistentHotkey, engineVars, frameVars
  <2>2. /\ state[g] = "Unborn" /\ state' = [state EXCEPT ![g] = "Suspended"]
        /\ reason' = [reason EXCEPT ![g] = "HotkeyWait"]
        /\ Entries(queue') = Entries(queue)
    BY <1>1, <2>1, CreatePersistentHotkeyEffect
  <2>3. g \in InOrder'
    BY <1>3, <2>1, <2>2 DEF AllInOrder, InOrder, Idle
  <2> QED BY <1>3, <1>24, <2>1, <2>2, <2>3, OrderOfOne
<1>6. ASSUME NEW g \in Goroutine, SpawnGoroutine(g) PROVE AllInOrder'
  <2>1. Spawn(g) /\ g \notin Hotkey
        /\ UNCHANGED <<pc, current, reason, wait, retrigger, fiberReason, owed, stranded>>
    BY <1>6 DEF SpawnGoroutine, engineVars, frameVars
  <2>2. /\ state' = [state EXCEPT ![g] = "Created"]
        /\ Entries(queue') = Entries(queue) \cup {g}
    BY <1>1, <2>1, SpawnEffect
  <2> QED BY <1>3, <2>1, <2>2, OrderOfOne
<1>7. ASSUME NEW h \in Hotkey, WakeHotkey(h), UNCHANGED <<pc, current>>
      PROVE  AllInOrder'
  <2>1. CASE UNCHANGED <<state, reason, wait, retrigger, fiberReason, queue, owed, stranded>>
    BY <1>4, <1>7, <2>1
  <2>2. CASE /\ h \in Idle
             /\ state' = [state EXCEPT ![h] = "Created"]
             /\ reason' = [reason EXCEPT ![h] = "None"]
             /\ wait' = [wait EXCEPT ![h] = "NONE"]
             /\ fiberReason' = [fiberReason EXCEPT ![h] = "NONE"]
             /\ retrigger' = retrigger \ {h} /\ stranded' = stranded \ {h}
             /\ owed' = owed \cup {h}
             /\ Entries(queue') = Entries(queue) \cup {h}
    <3>1. h \in InOrder'
      BY <1>2, <1>3, <1>24, <2>2 DEF InOrder, Idle, InLine
    <3> QED BY <1>2, <1>3, <1>24, <1>7, <2>2, <3>1, OrderOfOne
  <2>3. CASE /\ \/ Pending(h) /\ policy[h] = "Coalesce"
                \/ state[h] = "Suspended" /\ h \notin Idle
             /\ retrigger' = retrigger \cup {h} /\ owed' = owed \cup {h}
             /\ UNCHANGED <<state, reason, wait, fiberReason, queue, stranded>>
    <3>1. state[h] = "Created" => InLine(h) \/ h \in stranded
      BY <1>2, <2>3, SchedulerAssumption
         DEF IInv, PlainPendingWillRun, CanRun, InLine, Idle
    <3>2. h \in InOrder'
      BY <1>7, <2>3, <3>1
         DEF AllInOrder, InOrder, Idle, Pending, InLine, InHandFresh
    <3> QED BY <1>2, <1>7, <2>3, <3>2, OrderOfOne
  <2> QED BY <1>1, <1>7, <2>1, <2>2, <2>3, MergingWakeEffect
<1>8. ASSUME NEW g \in Goroutine, Unpark(g), wait[g] # "NONE",
             UNCHANGED <<pc, current, wait, retrigger, fiberReason, owed, stranded>>
      PROVE  AllInOrder'
  <2>1. CASE UNCHANGED <<state, reason, queue>>
    BY <1>4, <1>8, <2>1
  <2>2. CASE /\ state[g] = "Suspended"
             /\ state' = [state EXCEPT ![g] = "Runnable"]
             /\ reason' = [reason EXCEPT ![g] = "None"]
             /\ Entries(queue') = Entries(queue) \cup {g}
    <3>1. g \in Hotkey => g \in InOrder'
      BY <1>3, <1>8, <2>2 DEF AllInOrder, InOrder, Idle
    <3> QED BY <1>3, <1>24, <1>8, <2>2, <3>1, OrderOfOne
  <2> QED BY <1>1, <1>8, <2>1, <2>2, UnparkEffect
<1>9. CASE RunDeferred
  <2>1. batch # <<>> /\ pc # "picked" /\ UNCHANGED <<pc, current>>
    BY <1>9 DEF RunDeferred
  <2>2. CASE RunWake(Head(batch).g) /\ Head(batch).op = "wake"
    BY <1>4, <1>7, <2>1, <2>2, BatchHead, <1>1 DEF RunWake
  <2>3. CASE RunFire(Head(batch).g)
    BY <1>1, <1>4, <1>8, <2>1, <2>3, BatchHead DEF RunFire
  <2> QED BY <1>9, <2>2, <2>3 DEF RunDeferred
<1>10. CASE \/ PollReturns \/ BeginDrain \/ TakeDeferred \/ DrainDone \/ SleepersDone
            \/ NextQueue \/ NothingToPick \/ UNCHANGED vars
  <2>1. UNCHANGED <<state, reason, wait, retrigger, fiberReason, owed, stranded, queue>>
    BY <1>10 DEF PollReturns, BeginDrain, TakeDeferred, DrainDone, SleepersDone, NextQueue,
       NothingToPick, vars, schedVars, goroutineVars
  <2>2. UNCHANGED <<pc, current>> \/ (pc # "picked" /\ pc' # "picked")
    BY <1>10 DEF PollReturns, BeginDrain, TakeDeferred, DrainDone, SleepersDone, NextQueue,
       NothingToPick, vars, schedVars, engineVars, frameVars, Goto
  <2> QED BY <1>4, <2>1, <2>2
<1>11. ASSUME NEW g \in Goroutine, WakeOneSleeper(g) PROVE AllInOrder'
  <2>1. /\ state[g] = "Suspended" /\ wait[g] = "SLEEP" /\ pc # "picked"
        /\ state' = [state EXCEPT ![g] = "Runnable"]
        /\ reason' = [reason EXCEPT ![g] = "None"]
        /\ wait' = [wait EXCEPT ![g] = "NONE"]
        /\ queue' = PushBack(RemoveFromQueues(g), g)
        /\ UNCHANGED <<pc, current, retrigger, fiberReason, owed, stranded>>
    BY <1>11 DEF WakeOneSleeper, WakeSleeper, engineVars, frameVars
  <2>2. Entries(queue') = Entries(queue) \cup {g}
    BY <1>1, <2>1, RequeueClean
  <2>3. g \in Hotkey => g \in InOrder'
    BY <1>3, <2>1, <2>2 DEF AllInOrder, InOrder, Idle
  <2> QED BY <1>3, <2>1, <2>2, <2>3, OrderOfOne
<1>12. CASE PickRunnable \/ DiscardDone \/ RotateParked
  <2> DEFINE f == Head(queue[scanAt])
             pop == [queue EXCEPT ![scanAt] = Tail(@)]
             rot == [queue EXCEPT ![scanAt] = Append(Tail(@), Head(@))]
  <2>1. /\ queue[scanAt] # <<>> /\ scanAt \in Priorities /\ pc = "scan"
        /\ UNCHANGED <<state, reason, wait, retrigger, fiberReason, owed, stranded>>
    BY <1>1, <1>12 DEF PickRunnable, DiscardDone, RotateParked, Scanning, goroutineVars,
       EngineTypeOK
  <2>2. \/ queue' = pop /\ pc' = "picked" /\ current' = f
        \/ queue' = pop /\ state[f] = "Done" /\ UNCHANGED pc
        \/ queue' = rot /\ UNCHANGED pc
    BY <1>12 DEF PickRunnable, DiscardDone, RotateParked, Goto, Front
  <2>3. Entries(pop) = Entries(queue) \ {f} /\ Entries(rot) = Entries(queue)
    BY <1>1, <2>1, PopClean, Zenon
  <2> HIDE DEF pop, rot
  <2>4. f \in Entries(queue)
    BY <1>1, <2>1, PopClean, Zenon
  <2> HIDE DEF f
  <2> QED BY <2>1, <2>2, <2>3, <2>4, OrderQuiet DEF InLine, InHandFresh
<1>13. CASE ConditionFails
  <2>1. PICK g \in Goroutine : g = current
    BY <1>13 DEF ConditionFails, IInv, InHand
  <2>2. /\ pc = "picked" /\ state[g] = "Created"
        /\ state' = [state EXCEPT ![g] = "Suspended"]
        /\ reason' = [reason EXCEPT ![g] = "HotkeyWait"]
        /\ fiberReason' = [fiberReason EXCEPT ![g] = "HOTKEY_WAIT"]
        /\ owed' = owed \ {g} /\ pc' = "poll"
        /\ UNCHANGED <<wait, retrigger, stranded, queue, current>>
    BY <1>13, <2>1 DEF ConditionFails, ConditionDue, Goto
  <2>3. g \in Hotkey => g \in InOrder'
    BY <1>3, <2>2 DEF AllInOrder, InOrder, Idle
  <2> QED BY <1>3, <1>24, <2>1, <2>2, <2>3, OrderOfOne
<1>14. CASE StartSlice
  <2>1. PICK g \in Goroutine : g = current
    BY <1>14 DEF StartSlice, IInv, InHand
  <2>2. /\ state[g] \in {"Created", "Runnable"}
        /\ state' = [state EXCEPT ![g] = "Running"]
        /\ pc = "picked" /\ pc' = "slice"
        /\ UNCHANGED <<reason, retrigger, fiberReason, stranded, queue, current>>
    BY <1>14, <2>1 DEF StartSlice, IInv, InHand, CanRun, Goto
  <2>3. \/ /\ state[g] = "Created" \/ g \in Updater
           /\ owed' = owed \ {g} /\ UNCHANGED wait
        \/ /\ state[g] = "Runnable"
           /\ wait' = [wait EXCEPT ![g] = "NONE"] /\ UNCHANGED owed
    BY <1>14, <2>1, <2>2 DEF StartSlice, Fresh
  <2>4. g \in Hotkey => g \in InOrder'
    BY <1>2, <1>3, <2>1, <2>2, <2>3 DEF AllInOrder, InOrder, Idle, InLine, InHandFresh
  <2>5. \A h \in Hotkey \ {g} :
          /\ state'[h] = state[h] /\ wait'[h] = wait[h]
          /\ h \in owed' => h \in owed
    BY <1>2, <1>3, <2>2, <2>3
  <2> QED BY <2>1, <2>2, <2>4, <2>5, OrderOfOne
<1>15. CASE StartReturns \/ SliceReturns
  <2>1. PICK g \in Goroutine : g = current
    BY <1>15 DEF StartReturns, SliceReturns, BodyRuns, InSlice, Registered, IInv, InHand
  <2>2. /\ Rearm \/ ParkForTrigger \/ SleepUntilTick \/ Complete
        /\ owed' \subseteq owed /\ pc' # "picked"
        /\ \/ owed' = owed \ {g} /\ (state[g] = "Created" \/ g \in Updater)
           \/ state[g] \in {"Running", "Done"} /\ UNCHANGED owed
    BY <1>15, <2>1 DEF StartReturns, SliceReturns, BodyRuns, InSlice, Registered, Apart,
       Fresh, GoroutineState, Goto
  <2>8. g \notin Entries(queue)
    BY <1>15, <2>1 DEF StartReturns, SliceReturns, BodyRuns, InSlice, IInv, InHand, Apart
  <2>3. g \in persistent => state[g] # "Done"
    BY <1>15, <2>1 DEF StartReturns, SliceReturns, BodyRuns, InSlice, IInv, InHand, CanRun
  <2>4. CASE Rearm
    <3>1. /\ RequeueFront(g) /\ state[g] # "Done"
      BY <2>1, <2>3, <2>4 DEF Rearm
    <3>2. /\ state' = [state EXCEPT ![g] = "Created"]
          /\ reason' = [reason EXCEPT ![g] = "None"]
          /\ wait' = [wait EXCEPT ![g] = "NONE"]
          /\ retrigger' = retrigger \ {g} /\ stranded' = stranded \ {g}
          /\ fiberReason' = [fiberReason EXCEPT ![g] = "NONE"]
          /\ queue' = PushFront(RemoveFromQueues(g), g)
      BY <3>1 DEF RequeueFront
    <3>3. Entries(queue') = Entries(queue) \cup {g}
      BY <1>1, <3>2, RequeueClean
    <3>4. g \in Hotkey => g \in InOrder'
      BY <1>3, <1>24, <3>2, <3>3 DEF InOrder, Idle, InLine
    <3> QED BY <1>3, <1>24, <2>1, <2>2, <3>2, <3>3, <3>4, OrderOfOne
  <2>5. CASE ParkForTrigger
    <3>1. /\ g \in persistent /\ g \notin retrigger
          /\ state' = [state EXCEPT ![g] = IF g \in Conditional THEN "Created"
                                                                ELSE "Suspended"]
          /\ reason' = [reason EXCEPT ![g] = "HotkeyWait"]
          /\ fiberReason' = [fiberReason EXCEPT ![g] = "HOTKEY_WAIT"]
          /\ UNCHANGED <<wait, retrigger, stranded, queue>>
      BY <2>1, <2>5 DEF ParkForTrigger
    <3>2. g \in Hotkey /\ g \in InOrder
      BY <1>3, <3>1 DEF AllInOrder
    <3>3. wait[g] = "NONE" /\ (g \in owed' => g \in stranded)
      BY <1>2, <2>2, <2>3, <3>1, <3>2 DEF InOrder
    <3>4. g \in InOrder'
      BY <1>3, <2>2, <2>8, <3>1, <3>2, <3>3 DEF InOrder, Idle, InLine, InHandFresh
    <3> QED BY <1>3, <1>24, <2>1, <2>2, <3>1, <3>4, OrderOfOne
  <2>6. CASE SleepUntilTick
    <3>1. /\ g \in Updater
          /\ state' = [state EXCEPT ![g] = "Suspended"]
          /\ reason' = [reason EXCEPT ![g] = "SleepWait"]
          /\ wait' = [wait EXCEPT ![g] = "SLEEP"]
          /\ UNCHANGED <<retrigger, fiberReason, stranded, queue>>
      BY <2>1, <2>6 DEF SleepUntilTick
    <3> QED BY <1>2, <1>3, <2>1, <2>2, <3>1, OrderOfOne
  <2>7. CASE Complete
    <3>1. /\ state' = [state EXCEPT ![g] = "Done"]
          /\ UNCHANGED <<reason, wait, retrigger, fiberReason, stranded, queue>>
      BY <2>1, <2>7 DEF Complete
    <3>2. g \in Hotkey => g \in InOrder'
      BY <1>3, <3>1 DEF InOrder, Idle
    <3> QED BY <1>3, <2>1, <2>2, <3>1, <3>2, OrderOfOne
  <2> QED BY <2>2, <2>4, <2>5, <2>6, <2>7
<1>16. ASSUME NEW h \in Goroutine, BodyStops(h) \/ BodyRemoves(h) PROVE AllInOrder'
  <2>1. /\ queue' = RemoveFromQueues(h) /\ pc = "slice"
        /\ UNCHANGED <<reason, wait, retrigger, fiberReason, owed, stranded, pc, current>>
    BY <1>16 DEF BodyStops, BodyRemoves, BodyRuns, InSlice, StopHotkeyGoroutine,
       RemoveHotkeyByAlias, engineVars, frameVars
  <2>2. Entries(queue') = Entries(queue) \ {h}
    BY <1>1, <2>1, RemoveFromQueuesClean
  <2>3. PICK s \in {"Done", "Erased"} : state' = [state EXCEPT ![h] = s]
    BY <1>16 DEF BodyStops, BodyRemoves, StopHotkeyGoroutine, RemoveHotkeyByAlias
  <2>4. h \in Hotkey => h \in InOrder'
    BY <1>3, <2>1, <2>3 DEF InOrder, Idle
  <2> QED BY <1>3, <2>1, <2>2, <2>3, <2>4, OrderOfOne
<1>17. CASE BodyExits
  <2>1. /\ UNCHANGED <<reason, wait, retrigger, fiberReason, owed, stranded>>
        /\ \A g \in Goroutine : state'[g] =
             IF state[g] \in GoroutineState THEN "Erased" ELSE state[g]
    BY <1>17 DEF BodyExits, StopScheduler, Registered
  <2>2. ASSUME NEW h \in Hotkey PROVE h \in InOrder'
    <3>1. h \in Goroutine /\ state[h] \in LifeState /\ h \in InOrder
      BY <1>2, <1>3 DEF AllInOrder
    <3>2. state[h] = "Unborn" => /\ wait[h] = "NONE" /\ fiberReason[h] # "HOTKEY_WAIT"
                                 /\ h \in owed => h \in stranded
      BY <3>1 DEF InOrder, Idle
    <3>3. state'[h] = "Erased" \/ (state[h] = "Unborn" /\ state'[h] = "Unborn")
      BY <2>1, <3>1 DEF LifeState, GoroutineState
    <3> QED BY <2>1, <3>2, <3>3 DEF InOrder, Idle
  <2> QED BY <2>2 DEF AllInOrder
<1>18. CASE YieldingEnd \/ SuspendingEnd \/ SliceFails
  <2>1. PICK g \in Goroutine : g = current
    BY <1>1, <1>18, YieldingEndEffect, SuspendingEndEffect
       DEF SliceFails, BodyRuns, InSlice, Registered
  <2>2. /\ state[g] \in {"Running", "Done"} /\ pc = "slice" /\ pc' = "drain"
        /\ UNCHANGED <<retrigger, owed, stranded>>
    BY <1>1, <1>18, <2>1, YieldingEndEffect, SuspendingEndEffect
       DEF SliceFails, BodyRuns, InSlice, Registered, Apart, GoroutineState, Goto
  <2>3. CASE YieldingEnd
    <3>1. YieldGoroutine(g) /\ UNCHANGED <<reason, wait, fiberReason>>
      BY <2>1, <2>3, YieldingEndEffect
    <3>2. CASE state[g] = "Done"
      <4>1. UNCHANGED <<state, queue>>
        BY <3>1, <3>2 DEF YieldGoroutine
      <4> QED BY <1>4, <2>2, <3>1, <4>1
    <3>3. CASE state[g] = "Running"
      <4>1. /\ state' = [state EXCEPT ![g] = "Runnable"]
            /\ Entries(queue') = Entries(queue) \cup {g}
        BY <1>1, <3>1, <3>3, YieldEffect
      <4>2. g \in Hotkey => g \in InOrder'
        BY <1>3, <2>2, <3>1, <3>3, <4>1 DEF AllInOrder, InOrder, Idle
      <4> QED BY <1>3, <2>2, <3>1, <4>1, <4>2, OrderOfOne
    <3> QED BY <2>2, <3>2, <3>3
  <2>4. CASE SuspendingEnd
    <3>1. PICK w \in FiberReason :
            /\ HandleSuspended(w) /\ fiberReason' = [fiberReason EXCEPT ![g] = w]
            /\ w = "HOTKEY_WAIT" => fiberReason[g] = w
      BY <1>1, <2>1, <2>4, SuspendingEndEffect
    <3>2. \A h \in Goroutine \ {g} : wait'[h] = wait[h] /\ fiberReason'[h] = fiberReason[h]
      BY <1>1, <1>24, <2>1, <3>1, HandleSuspendedEffect
    <3>3. CASE state[g] = "Done"
      <4>1. UNCHANGED <<state, reason, queue>>
        BY <1>1, <2>1, <3>1, <3>3, HandleSuspendedEffect
      <4>2. g \in Hotkey => g \in InOrder'
        BY <3>3, <4>1 DEF InOrder, Idle
      <4> QED BY <1>2, <2>1, <2>2, <3>2, <4>1, <4>2, OrderOfOne
    <3>4. CASE state[g] = "Running"
      <4>1. PICK r \in SuspensionReason :
              /\ state' = [state EXCEPT ![g] = "Suspended"]
              /\ reason' = [reason EXCEPT ![g] = r]
              /\ r = "HotkeyWait" => w = "HOTKEY_WAIT"
              /\ Entries(queue') = Entries(queue) \ {g}
        BY <1>1, <2>1, <3>1, <3>4, HandleSuspendedEffect
      <4>2. g \in Hotkey => g \in InOrder /\ fiberReason[g] # "HOTKEY_WAIT"
        BY <3>4 DEF AllInOrder, InOrder, Idle
      <4>3. fiberReason'[g] = w /\ reason'[g] = r /\ state'[g] = "Suspended"
        BY <1>3, <1>24, <3>1, <4>1
      <4>4. g \in Hotkey => g \in InOrder'
        BY <2>2, <3>1, <3>4, <4>1, <4>2, <4>3 DEF InOrder, Idle
      <4>5. \A h \in Hotkey \ {g} : state'[h] = state[h] /\ reason'[h] = reason[h]
        BY <1>2, <1>3, <4>1
      <4> QED BY <1>2, <2>1, <2>2, <3>2, <4>1, <4>4, <4>5, OrderOfOne
    <3> QED BY <2>2, <3>3, <3>4
  <2>5. CASE SliceFails
    <3>1. /\ state' = [state EXCEPT ![g] = "Done"]
          /\ UNCHANGED <<reason, wait, fiberReason, queue>>
      BY <2>1, <2>5 DEF SliceFails
    <3>2. g \in Hotkey => g \in InOrder'
      BY <1>3, <3>1 DEF InOrder, Idle
    <3> QED BY <1>3, <2>2, <3>1, <3>2, OrderOfOne
  <2> QED BY <1>18, <2>3, <2>4, <2>5
<1>19. ASSUME NEW g \in Goroutine,
              BodyTriggers(g) \/ BodyResumes(g) \/ BodySendsTo(g) \/ PolledTrigger(g)
       PROVE  AllInOrder'
  <2>1. UNCHANGED <<pc, current>>
    BY <1>19 DEF BodyTriggers, BodyResumes, BodySendsTo, PolledTrigger, engineVars, frameVars
  <2>2. CASE BodyTriggers(g) \/ PolledTrigger(g)
    BY <1>3, <1>7, <2>1, <2>2 DEF BodyTriggers, PolledTrigger
  <2>3. CASE BodySendsTo(g)
    BY <1>8, <2>1, <2>3 DEF BodySendsTo
  <2> QED BY <1>19, <2>2, <2>3 DEF BodyResumes
<1>20. CASE \/ \E t \in Producer : ProducerNotify(t) \/ \E h \in Goroutine : ProducerPush(t, h)
            \/ \E g \in Goroutine : DeadlinePasses(g) \/ TimerFires(g)
  BY <1>4, <1>20
     DEF ProducerNotify, ProducerPush, DeadlinePasses, TimerFires, goroutineVars, engineVars,
         frameVars
<1>25. CASE StartThrows
  <2>1. /\ pc = "picked" /\ pc' = "poll" /\ stranded' = stranded \cup {current}
        /\ UNCHANGED <<state, reason, wait, retrigger, fiberReason, owed, queue>>
    BY <1>25 DEF StartThrows, Goto
  <2> QED BY <2>1, OrderQuiet DEF InLine, InHandFresh
<1>21. CASE FrameStep
  BY <1>9, <1>10, <1>11, <1>12, <1>13, <1>14, <1>15, <1>18, <1>21, <1>25,
     SliceEnds
     DEF FrameStep, DrainStep, PickStep, StartStep
<1>22. CASE ScriptStep
  BY <1>5, <1>6, <1>16, <1>17, <1>19, <1>22 DEF ScriptStep
<1>23. CASE OutsideStep
  BY <1>19, <1>20, <1>23 DEF OutsideStep
<1> QED BY <1>10, <1>21, <1>22, <1>23 DEF Next

-----------------------------------------------------------------------------
(* The theorems.                                                            *)

\* The empty scheduler satisfies the invariant.
LEMMA InitInvariant == Init => IInv
<1> SUFFICES ASSUME Init PROVE IInv
  OBVIOUS
<1> USE DEF Init, SchedulerInit
<1>1. EngineTypeOK
  BY EmptySeq DEF EngineTypeOK, SchedulerTypeOK, LifeState, SuspensionReason, Awaitable,
     FiberReason, Priorities
<1>2. Clean(<<>>, Goroutine) /\ Range(<<>>) = {}
  BY DEF Clean, IsInjective, Range
<1>3. QueuesClean(queue) /\ Entries(queue) = {}
  BY <1>2 DEF QueuesClean, Entries, Clean
<1>4. EntriesRegistered /\ InHand /\ OneRunning /\ PlainPendingWillRun /\ SleeperWakeable
  BY <1>3 DEF EntriesRegistered, InHand, OneRunning, PlainPendingWillRun, CanRun,
     SleeperWakeable
<1>5. WakeupComing
  BY DEF WakeupComing
<1> QED BY <1>1, <1>3, <1>4, <1>5 DEF IInv

\* The invariant is inductive.
LEMMA NextInvariant == IInv /\ [Next]_vars => IInv'
BY TypeStep, QueuesStep, LifeStep, WakeupStep DEF IInv, Life

\* The strengthened invariant holds in every reachable state.
THEOREM Inductive == Spec => []IInv
BY InitInvariant, NextInvariant, PTL DEF Spec

\* Every variable keeps its type through every operation of the scheduler.
THEOREM TypeCorrect == Spec => []EngineTypeOK
<1>1. IInv => EngineTypeOK
  BY DEF IInv
<1> QED BY <1>1, Inductive, PTL

\* pickNext() never meets a freed goroutine, one queued twice, or one in a
\* queue that is not its own.
THEOREM QueuesAlwaysSound == Spec => []QueuesSound
<1>1. IInv => QueuesSound
  BY DEF IInv, QueuesSound, QueuesClean, Clean, EntriesRegistered, Entries
<1> QED BY <1>1, Inductive, PTL

\* At most one goroutine is Running, and it is the one the frame executes.
THEOREM OnlyCurrentRuns == Spec => []OneRunning
<1>1. IInv => OneRunning
  BY DEF IInv
<1> QED BY <1>1, Inductive, PTL

\* No sleeper is out of the sleep sweep's sight.
THEOREM SleepersWakeable == Spec => []SleeperWakeable
<1>1. IInv => SleeperWakeable
  BY DEF IInv
<1> QED BY <1>1, Inductive, PTL

\* No interleaving of schedule() with the drain leaves an action behind a poll
\* that nothing will interrupt.
THEOREM NoWakeupIsLost == Spec => []NoLostWakeup
<1>1. IInv => NoLostWakeup
  BY DEF IInv, WakeupComing, NoLostWakeup
<1> QED BY <1>1, Inductive, PTL

\* Without condition callbacks, a trigger dropped because one is already pending is
\* dropped rightly, the pending run being in a queue, unless a start has thrown:
\* the catch in executeFrame() is the only step that leaves a goroutine pending and
\* in no queue.
THEOREM PendingAlwaysRuns ==
    ASSUME Conditional = {}
    PROVE  Spec => []PendingWillRun
<1>1. IInv => PendingWillRun
  BY QueuedIsEntry DEF IInv, PlainPendingWillRun, PendingWillRun
<1> QED BY <1>1, Inductive, PTL

\* No step revives a goroutine that is Done or freed, whatever stop(), remove(),
\* the policies or the end of a slice do in whatever order.
THEOREM DoneStaysDone == Spec => DoneIsFinal
<1>1. IInv /\ [Next]_vars =>
        [\A g \in Goroutine :
            /\ state[g] = "Done" => state'[g] \in {"Done", "Erased"}
            /\ state[g] = "Erased" => state'[g] = "Erased"]_vars
  BY LifeStep DEF FinalStep
<1> QED BY <1>1, Inductive, PTL DEF Spec, DoneIsFinal

\* Where no policy re-arms a running hotkey, whoever ends a goroutine leaves
\* none of it in a run queue: pickNext() never pops a Done one.
THEOREM DoneIsNeverQueued ==
    ASSUME Merging
    PROVE  Spec => []NoDoneQueued
<1>1. Init => Apart
  BY DEF Init, SchedulerInit, Apart, Entries, Range
<1>2. IInv /\ Apart /\ [Next]_vars => Apart'
  BY ApartStep
<1>3. Apart => NoDoneQueued
  BY QueuedIsEntry DEF Apart, NoDoneQueued
<1> QED BY <1>1, <1>2, <1>3, Inductive, PTL DEF Spec

\* Under the same policies and without resume(), no interleaving of triggers,
\* slices, sleeps, stops and removals takes an accepted trigger off the record: it
\* stays in the run queue or in the retrigger flag of a hotkey that is not parked
\* for its next trigger, also when the body leaves by a RETURN that is taken for a
\* wait.  Only a start that throws loses one.
THEOREM AcceptedTriggerIsKept ==
    ASSUME Merging, "resume" \notin Calls
    PROVE  Spec => []TriggerKept
<1>1. Init => Apart /\ AllInOrder
  BY SchedulerAssumption
     DEF Init, SchedulerInit, Apart, AllInOrder, InOrder, Idle, Entries, Range
<1>2. IInv /\ Apart /\ AllInOrder /\ [Next]_vars => Apart' /\ AllInOrder'
  BY ApartStep, OrderStep
<1>3. IInv /\ AllInOrder => TriggerKept
  <2> SUFFICES ASSUME IInv, AllInOrder, NEW h \in owed
               PROVE  \/ state[h] \in {"Done", "Erased"}
                      \/ h \in stranded
                      \/ state[h] = "Created" /\ (Queued(h) \/ InHandFresh(h))
                      \/ /\ h \in retrigger
                         /\ \/ state[h] \in {"Runnable", "Running"}
                            \/ state[h] = "Suspended" /\ reason[h] # "HotkeyWait"
    BY DEF TriggerKept
  <2>1. h \in Hotkey /\ h \in InOrder
    BY DEF IInv, EngineTypeOK, SchedulerTypeOK, AllInOrder
  <2> QED BY <2>1, QueuedIsEntry DEF InOrder, InLine, Idle
<1> QED BY <1>1, <1>2, <1>3, Inductive, PTL DEF Spec
=============================================================================
