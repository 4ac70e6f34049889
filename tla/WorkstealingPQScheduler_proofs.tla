------------------- MODULE WorkstealingPQScheduler_proofs -------------------
(***************************************************************************)
(* Proofs about WorkstealingPQScheduler, for any set of workers, any       *)
(* decision tree and any bound on its depth.  To the generic scheduler of  *)
(* RFSCDriver_proofs the queues of all workers are one set of work items;  *)
(* what has to be shown here is that popping, stealing and pushing treat   *)
(* the queues as such a set: no work item is ever in two places, and none  *)
(* is overwritten when a thief receives its loot.                          *)
(***************************************************************************)
EXTENDS WorkstealingPQScheduler, RFSCDriver_proofs, WellFoundedInduction

(* The provers that a leaf is tried with, unless it names its own.         *)
USE SMTT(10), Z3T(10), Zenon

Injective(s) == \A i, j \in 1..Len(s) : s[i] = s[j] => i = j

(* ToSet(s) are the elements at the positions of the sequence s.           *)
LEMMA ToSetMembers ==
  ASSUME NEW S, NEW s \in Seq(S), NEW x
  PROVE  x \in ToSet(s) <=> \E i \in 1..Len(s) : x = s[i]
BY DEF ToSet

(* The tail of a deque.                                                    *)
LEMMA TailPositions ==
  ASSUME NEW S, NEW s \in Seq(S), s # << >>
  PROVE  \E r \in Seq(S) : /\ r = Tail(s) /\ Len(r) = Len(s) - 1
                           /\ \A i \in 1..Len(r) : r[i] = s[i + 1]
<1>1. /\ Tail(s) \in Seq(S) /\ Len(Tail(s)) = Len(s) - 1
      /\ \A i \in 1..Len(Tail(s)) : Tail(s)[i] = s[i + 1]
  OBVIOUS
<1> QED
  BY <1>1, Zenon

(* What pop() leaves of a deque s without repetitions: r, all but the      *)
(* first element.                                                          *)
LEMMA TailOfInjective ==
  ASSUME NEW S, NEW s \in Seq(S), s # << >>, Injective(s),
         NEW r \in Seq(S), Len(r) = Len(s) - 1,
         \A i \in 1..Len(r) : r[i] = s[i + 1]
  PROVE  /\ Injective(r)
         /\ s[1] \in ToSet(s)
         /\ \A x : x \in ToSet(r) <=> x \in ToSet(s) /\ x # s[1]
<1>1. Len(s) \in Nat /\ Len(s) > 0
  OBVIOUS
<1>2. Injective(r)
  BY <1>1 DEF Injective
<1>3. s[1] \in ToSet(s)
  BY <1>1, ToSetMembers
<1>4. ASSUME NEW x \in ToSet(r)
      PROVE  x \in ToSet(s) /\ x # s[1]
  <2>1. PICK i \in 1..Len(r) : x = r[i]
    BY <1>4, ToSetMembers
  <2>2. i + 1 \in 1..Len(s) /\ x = s[i + 1] /\ i + 1 # 1 /\ 1 \in 1..Len(s)
    BY <1>1, <2>1
  <2>3. x # s[1]
    BY <2>2 DEF Injective
  <2> QED
    BY <2>2, <2>3, ToSetMembers
<1>5. ASSUME NEW x \in ToSet(s), x # s[1]
      PROVE  x \in ToSet(r)
  <2>1. PICK i \in 1..Len(s) : x = s[i]
    BY <1>5, ToSetMembers
  <2>2. i - 1 \in 1..Len(r) /\ x = r[i - 1]
    BY <1>1, <1>5, <2>1
  <2> QED
    BY <2>2, ToSetMembers
<1> QED
  BY <1>2, <1>3, <1>4, <1>5

(* steal() cuts a deque s in two, the first half, a, rounded down.         *)
Halves(s, a, b) ==
  /\ a = SubSeq(s, 1, Len(s) - (Len(s) + 1) \div 2)
  /\ b = SubSeq(s, Len(s) - (Len(s) + 1) \div 2 + 1, Len(s))
  /\ b # << >> /\ Len(a) + Len(b) = Len(s)
  /\ \A i \in 1..Len(a) : a[i] = s[i]
  /\ \A i \in 1..Len(b) : b[i] = s[Len(a) + i]

(* A deque that is not empty can be cut so.                                *)
LEMMA CutPositions ==
  ASSUME NEW S, NEW s \in Seq(S), s # << >>
  PROVE  \E a, b \in Seq(S) : Halves(s, a, b)
<1>1. Len(s) \in Nat /\ Len(s) > 0
  OBVIOUS
<1>2. PICK k \in Nat : k = Len(s) - (Len(s) + 1) \div 2 /\ k < Len(s)
  <2>1. (Len(s) + 1) \div 2 \in Int
    BY <1>1
  <2>2. 0 < (Len(s) + 1) \div 2 /\ (Len(s) + 1) \div 2 <= Len(s)
    BY <1>1
  <2> QED
    BY <1>1, <2>1, <2>2
<1>3. /\ SubSeq(s, 1, k) \in Seq(S) /\ Len(SubSeq(s, 1, k)) = k
      /\ \A i \in 1..k : SubSeq(s, 1, k)[i] = s[i]
  <2>1. k \in 0..Len(s)
    BY <1>1, <1>2
  <2> QED
    BY <1>1, <2>1
<1>4. /\ SubSeq(s, k + 1, Len(s)) \in Seq(S)
      /\ Len(SubSeq(s, k + 1, Len(s))) = Len(s) - k
      /\ \A i \in 1..(Len(s) - k) : SubSeq(s, k + 1, Len(s))[i] = s[k + i]
  BY <1>1, <1>2
<1>5. PICK a \in Seq(S) : a = SubSeq(s, 1, k) /\ Len(a) = k /\ \A i \in 1..k : a[i] = s[i]
  BY <1>3, Zenon
<1>6. PICK b \in Seq(S) : /\ b = SubSeq(s, k + 1, Len(s)) /\ Len(b) = Len(s) - k
                          /\ \A i \in 1..(Len(s) - k) : b[i] = s[k + i]
  BY <1>4, Zenon
<1>7. b # << >> /\ Len(a) + Len(b) = Len(s)
  <2>1. Len(a) = k /\ Len(b) = Len(s) - k
    BY <1>5, <1>6, Zenon
  <2>2. Len(b) > 0
    BY <1>1, <1>2, <2>1
  <2> QED
    BY <1>1, <2>1, <2>2
<1>8. /\ a = SubSeq(s, 1, Len(s) - (Len(s) + 1) \div 2)
      /\ b = SubSeq(s, Len(s) - (Len(s) + 1) \div 2 + 1, Len(s))
  BY <1>2, <1>5, <1>6, Zenon
<1>9. /\ \A i \in 1..Len(a) : a[i] = s[i]
      /\ \A i \in 1..Len(b) : b[i] = s[Len(a) + i]
  BY <1>5, <1>6, Zenon
<1> QED
  BY <1>7, <1>8, <1>9, Zenon DEF Halves

(* Cutting a deque s without repetitions, as steal() does, leaves two, a   *)
(* and b, that have none and share nothing.                                *)
LEMMA CutOfInjective ==
  ASSUME NEW S, NEW s \in Seq(S), Injective(s),
         NEW a \in Seq(S), NEW b \in Seq(S), Len(a) + Len(b) = Len(s),
         \A i \in 1..Len(a) : a[i] = s[i],
         \A i \in 1..Len(b) : b[i] = s[Len(a) + i]
  PROVE  /\ Injective(a) /\ Injective(b)
         /\ \A x : x \in ToSet(s) <=> x \in ToSet(a) \/ x \in ToSet(b)
         /\ \A x : ~(x \in ToSet(a) /\ x \in ToSet(b))
<1>0. Len(s) \in Nat /\ Len(a) \in Nat /\ Len(b) \in Nat
  OBVIOUS
<1>1. Injective(a) /\ Injective(b)
  <2>1. ASSUME NEW i \in 1..Len(a), NEW j \in 1..Len(a), a[i] = a[j] PROVE i = j
    <3>1. i \in 1..Len(s) /\ j \in 1..Len(s) /\ s[i] = s[j]
      BY <1>0, <2>1
    <3> QED
      BY <3>1 DEF Injective
  <2>2. ASSUME NEW i \in 1..Len(b), NEW j \in 1..Len(b), b[i] = b[j] PROVE i = j
    <3>1. /\ Len(a) + i \in 1..Len(s) /\ Len(a) + j \in 1..Len(s)
          /\ s[Len(a) + i] = s[Len(a) + j]
      BY <1>0, <2>2
    <3>2. Len(a) + i = Len(a) + j
      BY <3>1, Zenon DEF Injective
    <3> QED
      BY <1>0, <3>2
  <2> QED
    BY <2>1, <2>2 DEF Injective
<1>2. ASSUME NEW x \in ToSet(a)
      PROVE  \E i \in 1..Len(s) : x = s[i] /\ i <= Len(a)
  <2>1. PICK i \in 1..Len(a) : x = a[i]
    BY <1>2, ToSetMembers
  <2> QED
    BY <1>0, <2>1
<1>3. ASSUME NEW x \in ToSet(b)
      PROVE  \E i \in 1..Len(s) : x = s[i] /\ i > Len(a)
  <2>1. PICK i \in 1..Len(b) : x = b[i]
    BY <1>3, ToSetMembers
  <2>2. Len(a) + i \in 1..Len(s) /\ Len(a) + i > Len(a) /\ x = s[Len(a) + i]
    BY <1>0, <2>1
  <2> QED
    BY <2>2
<1>4. ASSUME NEW x \in ToSet(s) PROVE x \in ToSet(a) \/ x \in ToSet(b)
  <2>1. PICK i \in 1..Len(s) : x = s[i]
    BY <1>4, ToSetMembers
  <2>2. CASE i <= Len(a)
    <3>1. i \in 1..Len(a) /\ x = a[i]
      BY <1>0, <2>1, <2>2
    <3> QED
      BY <3>1, ToSetMembers
  <2>3. CASE i > Len(a)
    <3>1. i - Len(a) \in 1..Len(b) /\ Len(a) + (i - Len(a)) = i
      BY <1>0, <2>3
    <3>2. x = b[i - Len(a)]
      BY <2>1, <3>1
    <3> QED
      BY <3>1, <3>2, ToSetMembers
  <2> QED
    BY <1>0, <2>2, <2>3
<1>5. ASSUME NEW x, x \in ToSet(a), x \in ToSet(b) PROVE FALSE
  <2>1. PICK i \in 1..Len(s) : x = s[i] /\ i <= Len(a)
    BY <1>2, <1>5
  <2>2. PICK j \in 1..Len(s) : x = s[j] /\ j > Len(a)
    BY <1>3, <1>5
  <2>3. i = j
    BY <2>1, <2>2, Zenon DEF Injective
  <2> QED
    BY <1>0, <2>1, <2>2, <2>3
<1> QED
  BY <1>1, <1>2, <1>3, <1>4, <1>5, ToSetMembers

(* What push() makes of a deque s that does not hold the work item yet: r, *)
(* with the work item at its end.                                          *)
LEMMA AppendOfInjective ==
  ASSUME NEW S, NEW s \in Seq(S), Injective(s), NEW n \in S, n \notin ToSet(s),
         NEW r \in Seq(S), Len(r) = Len(s) + 1, r[Len(s) + 1] = n,
         \A i \in 1..Len(s) : r[i] = s[i]
  PROVE  /\ Injective(r)
         /\ \A x : x \in ToSet(r) <=> x \in ToSet(s) \/ x = n
<1>1. Len(s) \in Nat
  OBVIOUS
<1>2. \A i \in 1..Len(s) : s[i] # n
  BY ToSetMembers
<1>3. Injective(r)
  BY <1>1, <1>2 DEF Injective
<1>4. ASSUME NEW x \in ToSet(r) PROVE x \in ToSet(s) \/ x = n
  <2>1. PICK i \in 1..Len(r) : x = r[i]
    BY <1>4, ToSetMembers
  <2>2. i \in 1..Len(s) \/ i = Len(s) + 1
    BY <1>1
  <2> QED
    BY <2>1, <2>2, ToSetMembers
<1>5. ASSUME NEW x, x \in ToSet(s) \/ x = n PROVE x \in ToSet(r)
  <2>1. CASE x = n
    <3>1. Len(s) + 1 \in 1..Len(r)
      BY <1>1
    <3> QED
      BY <2>1, <3>1, ToSetMembers
  <2>2. CASE x \in ToSet(s)
    <3>1. PICK i \in 1..Len(s) : x = s[i]
      BY <2>2, ToSetMembers
    <3>2. i \in 1..Len(r) /\ x = r[i]
      BY <1>1, <3>1
    <3> QED
      BY <3>2, ToSetMembers
  <2> QED
    BY <1>5, <2>1, <2>2
<1> QED
  BY <1>3, <1>4, <1>5

-----------------------------------------------------------------------------
(* The deepest and the shallowest deque.                                   *)

Below == {p \in Nat \X Nat : p[1] < p[2]}

(* The order of the natural numbers is the library's well-founded one.     *)
LEMMA BelowWellFounded == IsWellFoundedOn(Below, Nat)
<1>1. Below = OpToRel(<, Nat)
  BY DEF Below, OpToRel
<1> QED
  BY <1>1, NatLessThanWellFounded, Zenon

(* A non-empty set of depths has a largest and a smallest element, which   *)
(* Max and Min choose.                                                     *)
LEMMA MaxMinDepth ==
  ASSUME NEW D, D \subseteq Depths, D # {}
  PROVE  Max(D) \in D /\ Min(D) \in D
<1>0. MaxDepth \in Nat /\ \A d \in D : d \in Int /\ -1 <= d /\ d <= MaxDepth
  BY DepthAssumption DEF DepthAssumption, Depths
<1>1. Max(D) \in D
  <2> DEFINE T == {k \in Nat : \E d \in D : k = MaxDepth - d}
  <2>1. T # {} /\ T \subseteq Nat
    <3>1. PICK d \in D : TRUE
      OBVIOUS
    <3>2. MaxDepth - d \in T
      BY <1>0, <3>1
    <3> QED
      BY <3>2
  <2>2. PICK k \in T : \A j \in T : ~(<<j, k>> \in Below)
    BY <2>1, WFMin, BelowWellFounded, Zenon
  <2>3. PICK d \in D : k = MaxDepth - d
    OBVIOUS
  <2>4. ASSUME NEW e \in D PROVE d >= e
    <3>1. MaxDepth - e \in T
      BY <1>0
    <3>2. ~(MaxDepth - e < k)
      BY <2>1, <2>2, <3>1, Zenon DEF Below
    <3> QED
      BY <1>0, <2>3, <3>2
  <2> QED
    BY <2>4 DEF Max
<1>2. Min(D) \in D
  <2> DEFINE T == {k \in Nat : \E d \in D : k = d + 1}
  <2>1. T # {} /\ T \subseteq Nat
    <3>1. PICK d \in D : TRUE
      OBVIOUS
    <3>2. d + 1 \in T
      BY <1>0, <3>1
    <3> QED
      BY <3>2
  <2>2. PICK k \in T : \A j \in T : ~(<<j, k>> \in Below)
    BY <2>1, WFMin, BelowWellFounded, Zenon
  <2>3. PICK d \in D : k = d + 1
    OBVIOUS
  <2>4. ASSUME NEW e \in D PROVE d <= e
    <3>1. e + 1 \in T
      BY <1>0
    <3>2. ~(e + 1 < k)
      BY <2>1, <2>2, <3>1, Zenon DEF Below
    <3> QED
      BY <1>0, <2>3, <3>2
  <2> QED
    BY <2>4 DEF Min
<1> QED
  BY <1>1, <1>2

-----------------------------------------------------------------------------
(* The queues as sets of work items.                                       *)

Queues == work_queue \in [Workers -> [Depths -> Seq(Nodes)]]

(* No work item is twice in a deque, nor in two of them.                   *)
Separate ==
  /\ \A t \in Workers, d \in Depths : Injective(work_queue[t][d])
  /\ \A t, u \in Workers, d, e \in Depths : t # u \/ d # e =>
       \A x : ~(x \in ToSet(work_queue[t][d]) /\ x \in ToSet(work_queue[u][e]))

(* A thief, and a worker that sleeps, has looked at its own queue, which   *)
(* only it fills.                                                          *)
Thieves ==
  /\ others \in [Workers -> SUBSET Workers]
  /\ \A t \in Workers : /\ t \notin others[t]
                        /\ pc[t] \in {"scan", "wait"} =>
                             \A d \in Depths : work_queue[t][d] = << >>

(* A work item is queued when it is in some deque of some worker.          *)
LEMMA QueuedMembers ==
  \A x : x \in AllQueued <=>
           \E t \in Workers, d \in Depths : x \in ToSet(work_queue[t][d])
BY DEF AllQueued, Queued

(* The work items queued after a step.                                     *)
LEMMA QueuedMembersNext ==
  \A x : x \in AllQueued' <=>
           \E t \in Workers, d \in Depths : x \in ToSet(work_queue'[t][d])
BY DEF AllQueued, Queued

(* An empty deque holds nothing.                                           *)
LEMMA EmptyDeque == \A x : x \notin ToSet(<< >>)
BY DEF ToSet

(* pop() takes one work item out of the queues.                            *)
LEMMA PopTakesOne ==
  ASSUME Queues, Separate, NEW t \in Workers, ~empty(work_queue[t]),
         work_queue' = [work_queue EXCEPT ![t] = pop(work_queue[t])]
  PROVE  /\ Queues' /\ Separate'
         /\ popped(work_queue[t]) \in AllQueued
         /\ AllQueued' = AllQueued \ {popped(work_queue[t])}
         /\ \A u \in Workers, d \in Depths :
              work_queue[u][d] = << >> => work_queue'[u][d] = << >>
<1>1. PICK m : m = Max(Used(work_queue[t]))
  OBVIOUS
<1>2. m \in Depths /\ work_queue[t][m] # << >>
  <2>1. Used(work_queue[t]) # {} /\ Used(work_queue[t]) \subseteq Depths
    BY DEF empty, Used
  <2>2. m \in Used(work_queue[t])
    BY <1>1, <2>1, MaxMinDepth
  <2> QED
    BY <2>2 DEF Used
<1>3. PICK s \in Seq(Nodes) : s = work_queue[t][m]
  BY <1>2 DEF Queues
<1>4. PICK r \in Seq(Nodes) : /\ r = Tail(s) /\ Len(r) = Len(s) - 1
                              /\ \A i \in 1..Len(r) : r[i] = s[i + 1]
  <2>1. s # << >>
    BY <1>2, <1>3
  <2> QED
    BY <2>1, TailPositions, Zenon
<1>5. work_queue' = [work_queue EXCEPT ![t] = [work_queue[t] EXCEPT ![m] = r]]
  BY <1>1, <1>3, <1>4 DEF pop
<1>6. /\ \A u \in Workers, d \in Depths :
           u # t \/ d # m => work_queue'[u][d] = work_queue[u][d]
      /\ work_queue'[t][m] = r
  BY <1>2, <1>5 DEF Queues
<1>7. Queues'
  <2>1. [work_queue[t] EXCEPT ![m] = r] \in [Depths -> Seq(Nodes)]
    BY Zenon DEF Queues
  <2> QED
    BY <1>5, <2>1, Zenon DEF Queues
<1>8. popped(work_queue[t]) = s[1]
  BY <1>1, <1>2, <1>3 DEF popped
<1>9. /\ Injective(r) /\ s[1] \in ToSet(s)
      /\ \A x : x \in ToSet(r) <=> x \in ToSet(s) /\ x # s[1]
  <2>1. Injective(s)
    BY <1>2, <1>3 DEF Separate
  <2>2. s # << >>
    BY <1>2, <1>3
  <2>3. Len(r) = Len(s) - 1 /\ \A i \in 1..Len(r) : r[i] = s[i + 1]
    BY <1>4
  <2> QED
    BY <2>1, <2>2, <2>3, TailOfInjective
<1>10. \A u \in Workers, d \in Depths : \A x :
         x \in ToSet(work_queue'[u][d]) => x \in ToSet(work_queue[u][d])
  BY <1>3, <1>6, <1>9
<1>11. Separate'
  <2>1. \A u \in Workers, d \in Depths : Injective(work_queue'[u][d])
    BY <1>6, <1>9 DEF Separate
  <2>2. ASSUME NEW u \in Workers, NEW v \in Workers, NEW d \in Depths,
               NEW e \in Depths, u # v \/ d # e, NEW x
        PROVE  ~(x \in ToSet(work_queue'[u][d]) /\ x \in ToSet(work_queue'[v][e]))
    BY <1>10, <2>2, ZenonT(60) DEF Separate
  <2> QED
    BY <2>1, <2>2, Zenon DEF Separate
<1>12. s[1] \in AllQueued
  BY <1>2, <1>3, <1>9, QueuedMembers
<1>13. AllQueued' = AllQueued \ {s[1]}
  <2>1. ASSUME NEW x, x \in AllQueued, x # s[1] PROVE x \in AllQueued'
    <3>1. PICK u \in Workers, d \in Depths : x \in ToSet(work_queue[u][d])
      BY <2>1, QueuedMembers
    <3>2. x \in ToSet(work_queue'[u][d])
      BY <1>3, <1>6, <1>9, <2>1, <3>1
    <3> QED
      BY <3>2, QueuedMembersNext
  <2>2. ASSUME NEW x, x \in AllQueued' PROVE x \in AllQueued /\ x # s[1]
    <3>1. PICK u \in Workers, d \in Depths : x \in ToSet(work_queue'[u][d])
      BY <2>2, QueuedMembersNext
    <3>2. x \in ToSet(work_queue[u][d])
      BY <1>10, <3>1
    <3>3. x # s[1]
      BY <1>2, <1>3, <1>6, <1>9, <3>1 DEF Separate
    <3> QED
      BY <3>2, <3>3, QueuedMembers
  <2> QED
    BY <2>1, <2>2
<1>14. \A u \in Workers, d \in Depths :
         work_queue[u][d] = << >> => work_queue'[u][d] = << >>
  BY <1>2, <1>6
<1> QED
  BY <1>7, <1>8, <1>11, <1>12, <1>13, <1>14

(* What a steal does to the deques: the victim v keeps a, the first part   *)
(* of its shallowest deque s, and the thief t, whose queue was empty, gets *)
(* the rest but for the first of it, n, which is its next work item.       *)
Robbed(t, v, m, s, a, n, r) ==
  /\ m \in Depths
  /\ s \in Seq(Nodes) /\ s = work_queue[v][m]
  /\ a \in Seq(Nodes) /\ r \in Seq(Nodes)
  /\ Injective(a) /\ Injective(r)
  /\ n = popped(steal(work_queue[t], work_queue[v]))
  /\ \A x : x \in ToSet(s) <=> x \in ToSet(a) \/ x \in ToSet(r) \/ x = n
  /\ \A x : ~(x \in ToSet(a) /\ x \in ToSet(r))
  /\ n \notin ToSet(a) /\ n \notin ToSet(r)
  /\ pop(steal(work_queue[t], work_queue[v])) = [work_queue[t] EXCEPT ![m] = r]
  /\ afterSteal(work_queue[v]) = [work_queue[v] EXCEPT ![m] = a]

(* steal() and the pop() that follows it.                                  *)
LEMMA StealRobs ==
  ASSUME Queues, Separate, NEW t \in Workers, NEW v \in Workers,
         \A d \in Depths : work_queue[t][d] = << >>, ~empty(work_queue[v])
  PROVE  \E m, s, a, n, r : Robbed(t, v, m, s, a, n, r)
<1>0. work_queue[t] \in [Depths -> Seq(Nodes)] /\ work_queue[v] \in [Depths -> Seq(Nodes)]
  BY DEF Queues
<1>1. PICK m : m = Min(Used(work_queue[v]))
  OBVIOUS
<1>2. m \in Depths /\ work_queue[v][m] # << >>
  <2>1. Used(work_queue[v]) # {} /\ Used(work_queue[v]) \subseteq Depths
    BY DEF empty, Used
  <2>2. m \in Used(work_queue[v])
    BY <1>1, <2>1, MaxMinDepth
  <2> QED
    BY <2>2 DEF Used
<1>3. PICK s \in Seq(Nodes) : s = work_queue[v][m] /\ s # << >> /\ Injective(s)
  BY <1>0, <1>2 DEF Separate
<1>4. PICK a, b \in Seq(Nodes) : Halves(s, a, b)
  BY <1>3, CutPositions, Zenon
<1>5. /\ Injective(a) /\ Injective(b)
      /\ \A x : x \in ToSet(s) <=> x \in ToSet(a) \/ x \in ToSet(b)
      /\ \A x : ~(x \in ToSet(a) /\ x \in ToSet(b))
  <2>1. Injective(s)
    BY <1>3
  <2>2. /\ Len(a) + Len(b) = Len(s)
        /\ \A i \in 1..Len(a) : a[i] = s[i]
        /\ \A i \in 1..Len(b) : b[i] = s[Len(a) + i]
    BY <1>4, Zenon DEF Halves
  <2> QED
    BY <2>1, <2>2, CutOfInjective, ZenonT(60)
<1>6. b # << >>
  BY <1>4, Zenon DEF Halves
<1>7. PICK r \in Seq(Nodes) : /\ r = Tail(b) /\ Len(r) = Len(b) - 1
                              /\ \A i \in 1..Len(r) : r[i] = b[i + 1]
  BY <1>6, TailPositions, Zenon
<1>8. /\ Injective(r) /\ b[1] \in ToSet(b)
      /\ \A x : x \in ToSet(r) <=> x \in ToSet(b) /\ x # b[1]
  <2>1. Len(r) = Len(b) - 1 /\ \A i \in 1..Len(r) : r[i] = b[i + 1]
    BY <1>7
  <2> QED
    BY <1>5, <1>6, <2>1, TailOfInjective, Zenon
<1>9. stolen(work_queue[v]) = b
  BY <1>1, <1>3, <1>4, Zenon DEF stolen, Halves
<1>10. steal(work_queue[t], work_queue[v]) = [work_queue[t] EXCEPT ![m] = b]
  BY <1>1, <1>9, Zenon DEF steal
<1>11. PICK q \in [Depths -> Seq(Nodes)] :
         /\ q = steal(work_queue[t], work_queue[v])
         /\ q = [work_queue[t] EXCEPT ![m] = b]
  BY <1>0, <1>10, ZenonT(60)
<1>12. Used(q) = {m} /\ q[m] = b
  BY <1>0, <1>2, <1>6, <1>11 DEF Used
<1>13. Max(Used(q)) = m
  <2>1. Max({m}) \in {m}
    BY <1>2, MaxMinDepth, Zenon
  <2> QED
    BY <1>12, <2>1
<1>14. popped(q) = b[1]
  BY <1>6, <1>12, <1>13 DEF popped
<1>15. pop(q) = [work_queue[t] EXCEPT ![m] = r]
  <2>1. pop(q) = [q EXCEPT ![m] = r]
    BY <1>7, <1>12, <1>13, Zenon DEF pop
  <2> QED
    BY <1>0, <1>2, <1>11, <2>1
<1>16. afterSteal(work_queue[v]) = [work_queue[v] EXCEPT ![m] = a]
  BY <1>1, <1>3, <1>4, Zenon DEF afterSteal, Halves
<1>17. Robbed(t, v, m, s, a, b[1], r)
  BY <1>2, <1>3, <1>5, <1>8, <1>11, <1>14, <1>15, <1>16, Zenon DEF Robbed
<1> QED
  BY <1>17

(* A steal, too, takes one work item out of the queues and moves others,   *)
(* without losing or doubling any.                                         *)
LEMMA StealTakesOne ==
  ASSUME Queues, Separate, NEW t \in Workers, NEW v \in Workers, t # v,
         \A d \in Depths : work_queue[t][d] = << >>, ~empty(work_queue[v]),
         NEW q, q = steal(work_queue[t], work_queue[v]),
         work_queue' = [work_queue EXCEPT ![t] = pop(q),
                                          ![v] = afterSteal(work_queue[v])]
  PROVE  /\ Queues' /\ Separate'
         /\ popped(q) \in AllQueued
         /\ AllQueued' = AllQueued \ {popped(q)}
         /\ \A u \in Workers, d \in Depths :
              u # t /\ work_queue[u][d] = << >> => work_queue'[u][d] = << >>
<1>1. PICK m, s, a, n, r : Robbed(t, v, m, s, a, n, r)
  BY StealRobs
<1>2. /\ m \in Depths /\ s \in Seq(Nodes) /\ a \in Seq(Nodes) /\ r \in Seq(Nodes)
      /\ s = work_queue[v][m] /\ n = popped(q)
  BY <1>1 DEF Robbed
<1>3. /\ Injective(a) /\ Injective(r)
      /\ \A x : x \in ToSet(s) <=> x \in ToSet(a) \/ x \in ToSet(r) \/ x = n
      /\ \A x : ~(x \in ToSet(a) /\ x \in ToSet(r))
      /\ n \notin ToSet(a) /\ n \notin ToSet(r)
  BY <1>1 DEF Robbed
<1>4. work_queue' = [work_queue EXCEPT ![t] = [work_queue[t] EXCEPT ![m] = r],
                                       ![v] = [work_queue[v] EXCEPT ![m] = a]]
  BY <1>1, Zenon DEF Robbed
<1>5. /\ \A u \in Workers, d \in Depths :
           (u # t /\ u # v) \/ d # m => work_queue'[u][d] = work_queue[u][d]
      /\ work_queue'[t][m] = r /\ work_queue'[v][m] = a
  BY <1>2, <1>4 DEF Queues
<1>6. Queues'
  <2>1. /\ [work_queue[t] EXCEPT ![m] = r] \in [Depths -> Seq(Nodes)]
        /\ [work_queue[v] EXCEPT ![m] = a] \in [Depths -> Seq(Nodes)]
    BY <1>2 DEF Queues
  <2> QED
    BY <1>4, <2>1, ZenonT(60) DEF Queues
<1>7. \A x : x \notin ToSet(work_queue[t][m])
  BY <1>2, EmptyDeque
<1>8. Separate'
  <2>1. \A u \in Workers, d \in Depths : Injective(work_queue'[u][d])
    BY <1>3, <1>5, ZenonT(60) DEF Separate
  <2>2. ASSUME NEW u \in Workers, NEW d \in Depths, u # t \/ d # m, NEW x,
               x \in ToSet(work_queue'[u][d])
        PROVE  x \in ToSet(work_queue[u][d]) /\ x \notin ToSet(r)
    <3>1. CASE u = v /\ d = m
      BY <1>2, <1>3, <1>5, <2>2, <3>1
    <3>2. CASE u # v \/ d # m
      <4>1. x \in ToSet(work_queue[u][d])
        BY <1>5, <2>2, <3>2
      <4>2. x \notin ToSet(work_queue[v][m])
        BY <1>2, <3>2, <4>1, Zenon DEF Separate
      <4> QED
        BY <1>2, <1>3, <4>1, <4>2
    <3> QED
      BY <3>1, <3>2
  <2>3. ASSUME NEW u \in Workers, NEW w \in Workers, NEW d \in Depths,
               NEW e \in Depths, u # w \/ d # e, NEW x,
               x \in ToSet(work_queue'[u][d]), x \in ToSet(work_queue'[w][e])
        PROVE  FALSE
    <3>1. CASE u = t /\ d = m
      <4>1. x \in ToSet(r) /\ (w # t \/ e # m)
        BY <1>5, <2>3, <3>1
      <4> QED
        BY <2>2, <2>3, <4>1
    <3>2. CASE w = t /\ e = m
      <4>1. x \in ToSet(r) /\ (u # t \/ d # m)
        BY <1>5, <2>3, <3>2
      <4> QED
        BY <2>2, <2>3, <4>1
    <3>3. CASE (u # t \/ d # m) /\ (w # t \/ e # m)
      <4>1. x \in ToSet(work_queue[u][d]) /\ x \in ToSet(work_queue[w][e])
        BY <2>2, <2>3, <3>3
      <4> QED
        BY <2>3, <4>1 DEF Separate
    <3> QED
      BY <3>1, <3>2, <3>3
  <2> QED
    BY <2>1, <2>3, Zenon DEF Separate
<1>9. n \in AllQueued
  BY <1>2, <1>3, QueuedMembers
<1>10. AllQueued' = AllQueued \ {n}
  <2>1. ASSUME NEW x, x \in AllQueued, x # n PROVE x \in AllQueued'
    <3>1. PICK u \in Workers, d \in Depths : x \in ToSet(work_queue[u][d])
      BY <2>1, QueuedMembers
    <3>2. CASE u = v /\ d = m
      BY <1>2, <1>3, <1>5, <2>1, <3>1, <3>2, QueuedMembersNext, ZenonT(60)
    <3>3. CASE (u # t /\ u # v) \/ d # m
      BY <1>5, <3>1, <3>3, QueuedMembersNext, ZenonT(60)
    <3> QED
      BY <1>7, <3>1, <3>2, <3>3
  <2>2. ASSUME NEW x, x \in AllQueued' PROVE x \in AllQueued /\ x # n
    <3>1. PICK u \in Workers, d \in Depths : x \in ToSet(work_queue'[u][d])
      BY <2>2, QueuedMembersNext, Zenon
    <3>2. CASE u = t /\ d = m
      BY <1>2, <1>3, <1>5, <3>1, <3>2, QueuedMembers
    <3>3. CASE u = v /\ d = m
      BY <1>2, <1>3, <1>5, <3>1, <3>3, QueuedMembers
    <3>4. CASE (u # t /\ u # v) \/ d # m
      <4>1. x \in ToSet(work_queue[u][d])
        BY <1>5, <3>1, <3>4
      <4>2. x \notin ToSet(work_queue[v][m])
        BY <1>2, <3>4, <4>1, Zenon DEF Separate
      <4> QED
        BY <1>2, <1>3, <4>1, <4>2, QueuedMembers
    <3> QED
      BY <3>2, <3>3, <3>4
  <2> QED
    BY <2>1, <2>2
<1>11. ASSUME NEW u \in Workers, NEW d \in Depths, u # t, work_queue[u][d] = << >>
       PROVE  work_queue'[u][d] = << >>
  <2>1. ~(u = v /\ d = m)
    <3>1. n \in ToSet(s)
      BY <1>3
    <3> QED
      BY <1>2, <1>11, <3>1, EmptyDeque
  <2> QED
    BY <1>5, <1>11, <2>1, ZenonT(60)
<1> QED
  BY <1>2, <1>6, <1>8, <1>9, <1>10, <1>11, ZenonT(60)

Appended(s, n, r) ==
  /\ r = Append(s, n) /\ Len(r) = Len(s) + 1
  /\ r[Len(s) + 1] = n
  /\ \A i \in 1..Len(s) : r[i] = s[i]

(* The deque after a push.                                                 *)
LEMMA AppendPositions ==
  ASSUME NEW S, NEW s \in Seq(S), NEW n \in S
  PROVE  \E r \in Seq(S) : Appended(s, n, r)
<1>1. /\ Append(s, n) \in Seq(S) /\ Len(Append(s, n)) = Len(s) + 1
      /\ Append(s, n)[Len(s) + 1] = n
      /\ \A i \in 1..Len(s) : Append(s, n)[i] = s[i]
  OBVIOUS
<1> QED
  BY <1>1, Zenon DEF Appended

(* push() adds a work item that was not queued.                            *)
LEMMA PushAddsOne ==
  ASSUME Queues, Separate, NEW t \in Workers, NEW n \in Nodes, n \notin AllQueued,
         work_queue' = [work_queue EXCEPT ![t] = push(work_queue[t], n)]
  PROVE  /\ Queues' /\ Separate'
         /\ AllQueued' = AllQueued \cup {n}
         /\ \A u \in Workers : u # t => work_queue'[u] = work_queue[u]
<1>1. PICK m \in Depths : m = depth(n)
  BY DepthAssumption DEF DepthAssumption, depth
<1>2. PICK s \in Seq(Nodes) : s = work_queue[t][m]
  BY DEF Queues
<1>3. PICK r \in Seq(Nodes) : Appended(s, n, r)
  BY AppendPositions, Zenon
<1>4. work_queue' = [work_queue EXCEPT ![t] = [work_queue[t] EXCEPT ![m] = r]]
  BY <1>1, <1>2, <1>3, Zenon DEF push, Appended
<1>5. /\ \A u \in Workers, d \in Depths :
           u # t \/ d # m => work_queue'[u][d] = work_queue[u][d]
      /\ work_queue'[t][m] = r
      /\ \A u \in Workers : u # t => work_queue'[u] = work_queue[u]
  BY <1>4 DEF Queues
<1>6. Queues'
  <2>1. [work_queue[t] EXCEPT ![m] = r] \in [Depths -> Seq(Nodes)]
    BY DEF Queues
  <2> QED
    BY <1>4, <2>1, ZenonT(60) DEF Queues
<1>7. /\ Injective(r)
      /\ \A x : x \in ToSet(r) <=> x \in ToSet(s) \/ x = n
  <2>1. Injective(s) /\ n \notin ToSet(s)
    BY <1>2, QueuedMembers DEF Separate
  <2>2. /\ Len(r) = Len(s) + 1 /\ r[Len(s) + 1] = n
        /\ \A i \in 1..Len(s) : r[i] = s[i]
    BY <1>3 DEF Appended
  <2> QED
    BY <2>1, <2>2, AppendOfInjective
<1>8. \A u \in Workers, d \in Depths : \A x : x \in ToSet(work_queue'[u][d]) <=>
        x \in ToSet(work_queue[u][d]) \/ (u = t /\ d = m /\ x = n)
  BY <1>2, <1>5, <1>7
<1>9. Separate'
  <2>1. \A u \in Workers, d \in Depths : Injective(work_queue'[u][d])
    BY <1>5, <1>7 DEF Separate
  <2>2. ASSUME NEW u \in Workers, NEW v \in Workers, NEW d \in Depths,
               NEW e \in Depths, u # v \/ d # e, NEW x,
               x \in ToSet(work_queue'[u][d]), x \in ToSet(work_queue'[v][e])
        PROVE  FALSE
    <3>1. CASE x = n
      <4>1. ~(x \in ToSet(work_queue[u][d])) /\ ~(x \in ToSet(work_queue[v][e]))
        BY <3>1, QueuedMembers
      <4>2. u = t /\ d = m /\ v = t /\ e = m
        BY <1>8, <2>2, <4>1
      <4> QED
        BY <2>2, <4>2
    <3>2. CASE x # n
      <4>1. x \in ToSet(work_queue[u][d]) /\ x \in ToSet(work_queue[v][e])
        BY <1>8, <2>2, <3>2
      <4> QED
        BY <2>2, <4>1 DEF Separate
    <3> QED
      BY <3>1, <3>2
  <2> QED
    BY <2>1, <2>2, ZenonT(60) DEF Separate
<1>10. AllQueued' = AllQueued \cup {n}
  <2>1. ASSUME NEW x, x \in AllQueued' PROVE x \in AllQueued \/ x = n
    <3>1. PICK u \in Workers, d \in Depths : x \in ToSet(work_queue'[u][d])
      BY <2>1, QueuedMembersNext
    <3>2. x \in ToSet(work_queue[u][d]) \/ x = n
      BY <1>8, <3>1
    <3> QED
      BY <3>2, QueuedMembers
  <2>2. ASSUME NEW x, x \in AllQueued PROVE x \in AllQueued'
    <3>1. PICK u \in Workers, d \in Depths : x \in ToSet(work_queue[u][d])
      BY <2>2, QueuedMembers
    <3>2. x \in ToSet(work_queue'[u][d])
      BY <1>8, <3>1
    <3> QED
      BY <3>2, QueuedMembersNext
  <2>3. n \in AllQueued'
    <3>1. n \in ToSet(work_queue'[t][m])
      BY <1>8
    <3> QED
      BY <3>1, QueuedMembersNext
  <2> QED
    BY <2>1, <2>2, <2>3
<1> QED
  BY <1>5, <1>6, <1>9, <1>10

-----------------------------------------------------------------------------
(* The steps.                                                              *)

(* The thief that looks for a victim is the worker that keeps the big      *)
(* mutex, so that halt(), which needs it, waits for the thief.             *)
BigMutex ==
  /\ mutex \in Workers \cup {NoNode}
  /\ \A t \in Workers : mutex = t <=> pc[t] = "scan"
  /\ mutex # NoNode => ~halting

Inv ==
  /\ IInv(AllQueued) /\ Queues /\ Separate /\ Thieves
  /\ BigMutex /\ Parked
  /\ Execution[Root] \in KnownBy(AllQueued)

(* dequeue() from the worker's own queue.                                  *)
LEMMA OwnStep ==
  ASSUME Inv, NEW t \in Workers, pc[t] \in {"dequeue", "steal"},
         ~empty(work_queue[t]),
         work_item' = [work_item EXCEPT ![t] = popped(work_queue[t])],
         work_queue' = [work_queue EXCEPT ![t] = pop(work_queue[t])],
         Goto(t, "check"),
         UNCHANGED <<Erroneous, todo, sibling, errors, children_unf_set,
                     pruned_subtree, outstanding_jobs, halting, cv_waiters,
                     state_mutex, error_trace, explored, dropped, others>>
  PROVE  SchedulerStep(t, AllQueued, AllQueued') /\ Queues' /\ Separate' /\ Thieves'
<1>1. /\ Queues' /\ Separate'
      /\ popped(work_queue[t]) \in AllQueued
      /\ AllQueued' = AllQueued \ {popped(work_queue[t])}
      /\ \A u \in Workers, d \in Depths :
           work_queue[u][d] = << >> => work_queue'[u][d] = << >>
  BY PopTakesOne, Zenon DEF Inv
<1>2. Take(t, AllQueued, AllQueued')
  BY <1>1, ZenonT(60) DEF Take
<1>3. \A u \in Workers : pc'[u] \in {"scan", "wait"} => pc[u] \in {"scan", "wait"}
  BY DEF Goto, Inv, IInv, DriverTypeOK
<1>4. Thieves'
  BY <1>1, <1>3, Zenon DEF Inv, Thieves
<1> QED
  BY <1>1, <1>2, <1>4 DEF SchedulerStep

(* A thief that finds work.                                                *)
LEMMA StealStep ==
  ASSUME Inv, NEW t \in Workers, pc[t] = "scan", NEW v \in others[t],
         ~empty(work_queue[v]),
         NEW q, q = steal(work_queue[t], work_queue[v]),
         work_item' = [work_item EXCEPT ![t] = popped(q)],
         work_queue' = [work_queue EXCEPT ![t] = pop(q),
                                          ![v] = afterSteal(work_queue[v])],
         others' = [others EXCEPT ![t] = {}],
         Goto(t, "check"),
         UNCHANGED <<Erroneous, todo, sibling, errors, children_unf_set,
                     pruned_subtree, outstanding_jobs, halting, cv_waiters,
                     state_mutex, error_trace, explored, dropped>>
  PROVE  SchedulerStep(t, AllQueued, AllQueued') /\ Queues' /\ Separate' /\ Thieves'
<1>0. v \in Workers /\ v # t /\ \A d \in Depths : work_queue[t][d] = << >>
  BY Zenon DEF Inv, Thieves
<1>1. /\ Queues' /\ Separate'
      /\ popped(q) \in AllQueued
      /\ AllQueued' = AllQueued \ {popped(q)}
      /\ \A u \in Workers, d \in Depths :
           u # t /\ work_queue[u][d] = << >> => work_queue'[u][d] = << >>
  BY <1>0, StealTakesOne, Zenon DEF Inv
<1>2. Take(t, AllQueued, AllQueued')
  BY <1>1, Zenon DEF Take
<1>3. \A u \in Workers : pc'[u] \in {"scan", "wait"} => pc[u] \in {"scan", "wait"} /\ u # t
  BY DEF Goto, Inv, IInv, DriverTypeOK
<1>4. Thieves'
  BY <1>1, <1>3, Zenon DEF Inv, Thieves
<1> QED
  BY <1>1, <1>2, <1>4, Zenon DEF SchedulerStep

(* enqueue() to the worker's own queue.                                    *)
LEMMA PushStep ==
  ASSUME Inv, NEW t \in Workers, Push(t)
  PROVE  SchedulerStep(t, AllQueued, AllQueued') /\ Queues' /\ Separate' /\ Thieves'
<1>0. sibling[t] \in Nodes /\ sibling[t] \notin AllQueued
  BY DEF Push, Inv, IInv, DriverTypeOK, Shape, Placed
<1>1. work_queue' = [work_queue EXCEPT ![t] = push(work_queue[t], sibling[t])]
  BY DEF Push, own
<1>2. /\ Queues' /\ Separate'
      /\ AllQueued' = AllQueued \cup {sibling[t]}
      /\ \A u \in Workers : u # t => work_queue'[u] = work_queue[u]
  BY <1>0, <1>1, PushAddsOne, Zenon DEF Inv
<1>3. Put(t, AllQueued, AllQueued')
  <2>1. notify_one \subseteq SUBSET cv_waiters
    BY DEF notify_one
  <2> QED
    BY <1>2, <2>1, Zenon DEF Put, Push
<1>4. \A u \in Workers : pc'[u] \in {"scan", "wait"} => pc[u] \in {"scan", "wait"} /\ u # t
  BY DEF Push
<1>5. Thieves'
  <2>1. others' = others
    BY DEF Push
  <2>2. ASSUME NEW u \in Workers, pc'[u] \in {"scan", "wait"}, NEW d \in Depths
        PROVE  work_queue'[u][d] = << >>
    <3>1. pc[u] \in {"scan", "wait"} /\ work_queue'[u] = work_queue[u]
      BY <1>2, <1>4, <2>2
    <3> QED
      BY <3>1 DEF Inv, Thieves
  <2> QED
    BY <2>1, <2>2 DEF Inv, Thieves
<1> QED
  BY <1>2, <1>3, <1>5, Zenon DEF SchedulerStep

(* Steps that leave the queues alone.                                      *)
LEMMA QueuesStay ==
  ASSUME Inv, work_queue' = work_queue
  PROVE  Queues' /\ Separate' /\ AllQueued' = AllQueued
<1>1. Queues' /\ Separate'
  BY DEF Inv, Queues, Separate
<1>2. AllQueued' = AllQueued
  BY DEF AllQueued, Queued
<1> QED
  BY <1>1, <1>2

(* Every step of this scheduler is one of the generic scheduler, and keeps *)
(* the queues separate.                                                    *)
LEMMA StepIsSchedulerStep ==
  ASSUME Inv, NEW t \in Workers, Step(t) \/ SpuriousWakeup(t)
  PROVE  SchedulerStep(t, AllQueued, AllQueued') /\ Queues' /\ Separate' /\ Thieves'
<1>a. /\ pc \in [Workers -> Labels] /\ cv_waiters \subseteq Workers /\ Shape
      /\ Thieves
  BY DEF Inv, IInv, DriverTypeOK
<1>1. CASE DequeueHalting(t) \/ DequeueNothing(t) \/ StealHalting(t)
  <2>1. PICK l \in {"done", "steal"} :
          /\ pc[t] \in {"dequeue", "steal"} /\ Goto(t, l)
          /\ UNCHANGED <<Erroneous, work_item, todo, sibling, errors,
                         children_unf_set, pruned_subtree, outstanding_jobs, halting,
                         cv_waiters, state_mutex, error_trace, explored, dropped,
                         work_queue, others>>
    BY <1>1 DEF DequeueHalting, DequeueNothing, StealHalting
  <2>2. Queues' /\ Separate' /\ AllQueued' = AllQueued
    BY <2>1, QueuesStay
  <2>3. cv_waiters' = cv_waiters \ {t}
    BY <2>1, <1>a DEF Shape
  <2>4. Roam(t, AllQueued, AllQueued')
    BY <2>1, <2>2, <2>3 DEF Roam, Idle
  <2>5. Thieves'
    BY <2>1, <1>a DEF Thieves, Goto
  <2> QED
    BY <2>2, <2>4, <2>5 DEF SchedulerStep
<1>2. CASE DequeueOwn(t)
  BY <1>2, OwnStep, ZenonT(60) DEF DequeueOwn
<1>3. CASE StealBegin(t)
  <2>1. CASE ~empty(work_queue[t])
    BY <1>3, <2>1, OwnStep DEF StealBegin
  <2>2. CASE empty(work_queue[t])
    <3>1. /\ pc[t] = "steal" /\ Goto(t, "scan")
          /\ others' = [others EXCEPT ![t] = Workers \ {t}]
          /\ UNCHANGED <<Erroneous, work_item, todo, sibling, errors,
                         children_unf_set, pruned_subtree, outstanding_jobs, halting,
                         cv_waiters, state_mutex, error_trace, explored, dropped,
                         work_queue>>
      BY <1>3, <2>2 DEF StealBegin
    <3>2. Queues' /\ Separate' /\ AllQueued' = AllQueued
      BY <3>1, QueuesStay
    <3>3. cv_waiters' = cv_waiters \ {t}
      BY <3>1, <1>a, Zenon DEF Shape
    <3>4. Roam(t, AllQueued, AllQueued')
      BY <3>1, <3>2, <3>3 DEF Roam, Idle
    <3>5. \A d \in Depths : work_queue[t][d] = << >>
      BY <2>2 DEF empty, Used
    <3>6. Thieves'
      BY <3>1, <3>5, <1>a DEF Thieves, Goto
    <3> QED
      BY <3>2, <3>4, <3>6 DEF SchedulerStep
  <2> QED
    BY <2>1, <2>2
<1>4. CASE StealFrom(t)
  <2>0. PICK v \in others[t] :
         IF empty(work_queue[v])
         THEN /\ others' = [others EXCEPT ![t] = @ \ {v}]
              /\ UNCHANGED <<pc, work_item, work_queue, mutex>>
         ELSE LET q == steal(work_queue[t], work_queue[v]) IN
              /\ work_item' = [work_item EXCEPT ![t] = popped(q)]
              /\ work_queue' = [work_queue EXCEPT ![t] = pop(q),
                                                  ![v] = afterSteal(@)]
              /\ others' = [others EXCEPT ![t] = {}]
              /\ mutex' = NoNode
              /\ Goto(t, "check")
    BY <1>4 DEF StealFrom
  <2>1. CASE ~empty(work_queue[v])
    <3>1. PICK q : q = steal(work_queue[t], work_queue[v])
      OBVIOUS
    <3>2. /\ work_item' = [work_item EXCEPT ![t] = popped(q)]
          /\ work_queue' = [work_queue EXCEPT ![t] = pop(q),
                                              ![v] = afterSteal(@)]
          /\ others' = [others EXCEPT ![t] = {}]
          /\ Goto(t, "check")
      BY <2>0, <2>1, <3>1
    <3>3. work_queue' = [work_queue EXCEPT ![t] = pop(q),
                                           ![v] = afterSteal(work_queue[v])]
      <4>1. t # v
        BY <1>a DEF Thieves
      <4> QED
        BY <3>2, <4>1
    <3> QED
      BY <1>4, <2>1, <3>1, <3>2, <3>3, StealStep, Zenon DEF StealFrom
  <2>2. CASE empty(work_queue[v])
    <3>1. /\ pc[t] = "scan" /\ others' = [others EXCEPT ![t] = others[t] \ {v}]
          /\ UNCHANGED <<Erroneous, pc, work_item, todo, sibling, errors,
                         children_unf_set, pruned_subtree, outstanding_jobs, halting,
                         cv_waiters, state_mutex, error_trace, explored, dropped,
                         work_queue>>
      BY <1>4, <2>0, <2>2 DEF StealFrom
    <3>2. Queues' /\ Separate' /\ AllQueued' = AllQueued
      BY <3>1, QueuesStay
    <3>3. cv_waiters' = cv_waiters \ {t} /\ Goto(t, "scan")
      BY <3>1, <1>a, Zenon DEF Shape, Goto
    <3>4. Roam(t, AllQueued, AllQueued')
      BY <3>1, <3>2, <3>3 DEF Roam, Idle
    <3>5. Thieves'
      BY <3>1, <1>a DEF Thieves
    <3> QED
      BY <3>2, <3>4, <3>5, Zenon DEF SchedulerStep
  <2> QED
    BY <2>1, <2>2
<1>5. CASE StealWait(t)
  <2>1. Queues' /\ Separate' /\ AllQueued' = AllQueued
    BY <1>5, QueuesStay DEF StealWait
  <2>2. Roam(t, AllQueued, AllQueued')
    BY <1>5, <2>1 DEF StealWait, Roam, Idle
  <2>3. Thieves'
    BY <1>5, <1>a DEF StealWait, Thieves, Goto
  <2> QED
    BY <2>1, <2>2, <2>3 DEF SchedulerStep
<1>6. CASE Push(t)
  BY <1>6, PushStep
<1>7. CASE SpuriousWakeup(t)
  <2>1. Queues' /\ Separate' /\ AllQueued' = AllQueued
    BY <1>7, QueuesStay DEF SpuriousWakeup
  <2>2. pc[t] = "wait"
    BY <1>7, <1>a DEF SpuriousWakeup, Shape
  <2>3. Roam(t, AllQueued, AllQueued')
    BY <1>7, <2>1, <2>2 DEF SpuriousWakeup, Roam, Idle
  <2>4. Thieves'
    BY <1>7, <1>a, Zenon DEF SpuriousWakeup, Thieves, Goto
  <2> QED
    BY <2>1, <2>3, <2>4 DEF SchedulerStep
<1>8. CASE (DriverStep(t) \/ Halt(t, "steal")) /\ UNCHANGED <<work_queue, mutex, others>>
  <2>1. Queues' /\ Separate' /\ AllQueued' = AllQueued
    BY <1>8, QueuesStay
  <2>2. \A u \in Workers : pc'[u] \in {"scan", "wait"} => pc[u] \in {"scan", "wait"}
    BY <1>8, <1>a, Zenon DEF DriverStep, SkipPruned, Accept, RunOnce, TryAlloc, FetchAdd,
                EndPrefixes, Finish, Halt, Goto
  <2>3. Thieves'
    BY <1>8, <1>a, <2>2 DEF Thieves
  <2> QED
    BY <1>8, <2>1, <2>3 DEF SchedulerStep
<1> QED
  BY <1>1, <1>2, <1>3, <1>4, <1>5, <1>6, <1>7, <1>8 DEF Step

(* dequeue() keeps the big mutex while it scans, and it waits, and returns *)
(* nothing, as halting says.                                               *)
LEMMA StepKeepsParked ==
  ASSUME Inv, NEW t \in Workers, Step(t) \/ SpuriousWakeup(t)
  PROVE  BigMutex' /\ Parked'
<1>a. /\ pc \in [Workers -> Labels] /\ cv_waiters \subseteq Workers
      /\ \A u \in Workers : u \in cv_waiters => pc[u] = "wait"
      /\ SchedulerStep(t, AllQueued, AllQueued')
  BY StepIsSchedulerStep DEF Inv, IInv, DriverTypeOK, Shape
<1>b. BigMutex /\ NoNode \notin Workers
  BY MutexAssumption DEF MutexAssumption, Inv
<1>1. CASE StealBegin(t)
  <2>1. /\ pc[t] = "steal" /\ mutex = NoNode /\ ~halting /\ halting' = halting
        /\ \/ mutex' = t /\ pc' = [pc EXCEPT ![t] = "scan"]
           \/ mutex' = mutex /\ pc' = [pc EXCEPT ![t] = "check"]
    BY <1>1 DEF StealBegin, Goto
  <2>2. BigMutex'
    BY <2>1, <1>a, <1>b DEF BigMutex
  <2>3. pc'[t] \notin {"wait", "done"}
    BY <2>1, <1>a
  <2> QED
    BY <2>2, <2>3, <1>a, StepParked DEF Inv
<1>2. CASE StealFrom(t)
  <2>1. /\ pc[t] = "scan" /\ halting' = halting
        /\ \/ mutex' = mutex /\ pc' = pc
           \/ mutex' = NoNode /\ pc' = [pc EXCEPT ![t] = "check"]
    BY <1>2 DEF StealFrom, Goto
  <2>2. BigMutex'
    BY <2>1, <1>a, <1>b DEF BigMutex
  <2>3. pc'[t] \notin {"wait", "done"}
    BY <2>1, <1>a
  <2> QED
    BY <2>2, <2>3, <1>a, StepParked DEF Inv
<1>3. CASE StealWait(t)
  <2>1. /\ pc[t] = "scan" /\ halting' = halting /\ mutex' = NoNode
        /\ pc' = [pc EXCEPT ![t] = "wait"]
    BY <1>3 DEF StealWait, Goto
  <2>2. BigMutex' /\ ~halting
    BY <2>1, <1>a, <1>b DEF BigMutex
  <2>3. pc'[t] = "wait"
    BY <2>1, <1>a
  <2> QED
    BY <2>2, <2>3, <1>a, StepParked DEF Inv
<1>4. CASE Halt(t, "steal") /\ mutex = NoNode /\ mutex' = mutex
  <2>1. \A u \in Workers : pc'[u] = "scan" => pc[u] = "scan"
    BY <1>4 DEF Halt
  <2>2. BigMutex'
    BY <1>4, <2>1, <1>b DEF BigMutex
  <2>3. pc'[t] \notin {"wait", "done"}
    BY <1>4 DEF Halt
  <2> QED
    BY <2>2, <2>3, <1>a, StepParked DEF Inv
<1>5. CASE ~StealBegin(t) /\ ~StealFrom(t) /\ ~StealWait(t) /\ ~Halt(t, "steal")
  <2>1. /\ mutex' = mutex /\ halting' = halting
        /\ pc[t] # "scan" /\ pc'[t] \notin {"scan", "wait"}
        /\ pc'[t] = "done" => halting
    BY <1>5, <1>a, Zenon DEF Step, DequeueHalting, DequeueOwn, DequeueNothing, StealHalting, Push,
           SpuriousWakeup, DriverStep, SkipPruned, Accept, RunOnce, TryAlloc, FetchAdd,
           EndPrefixes, Finish, Goto
  <2>2. \A u \in Workers : u # t =>
          pc'[u] = pc[u] \/ (u \in cv_waiters /\ pc'[u] = "steal")
    BY <1>5, <1>a, Zenon DEF Step, DequeueHalting, DequeueOwn, DequeueNothing, StealHalting, Push,
           notify_one, SpuriousWakeup, DriverStep, SkipPruned, Accept, RunOnce, TryAlloc,
           FetchAdd, EndPrefixes, Finish, Goto
  <2>3. \A u \in Workers : pc'[u] = "scan" <=> pc[u] = "scan"
    BY <2>1, <2>2, <1>a
  <2>4. BigMutex'
    BY <2>1, <2>3, <1>b DEF BigMutex
  <2> QED
    BY <2>1, <2>4, <1>a, StepParked DEF Inv
<1>6. Halt(t, "steal") => mutex = NoNode /\ mutex' = mutex
  BY <1>a, Zenon DEF Step, DequeueHalting, DequeueOwn, DequeueNothing, StealHalting, StealBegin,
         StealFrom, StealWait, Push, SpuriousWakeup, DriverStep, SkipPruned, Accept, RunOnce,
         TryAlloc, FetchAdd, EndPrefixes, Finish, Halt
<1> QED
  BY <1>1, <1>2, <1>3, <1>4, <1>5, <1>6

-----------------------------------------------------------------------------
(* The theorems.                                                           *)

(* With the root in the queue of worker 0 the invariant holds.             *)
LEMMA InitInv == Init => Inv /\ AllQueued = {Root}
<1> SUFFICES ASSUME Init PROVE Inv /\ AllQueued = {Root}
  OBVIOUS
<1>0. 0 \in Workers /\ -1 \in Depths /\ Root \in Nodes
  BY DepthAssumption, DriverAssumption DEF DepthAssumption, DriverAssumption, Depths
<1>1. /\ \A t \in Workers, d \in Depths :
           t # 0 \/ d # -1 => work_queue[t][d] = << >>
      /\ work_queue[0][-1] = <<Root>>
  BY <1>0 DEF Init, EmptyQueue
<1>2. Queues
  <2>1. EmptyQueue \in [Depths -> Seq(Nodes)]
    BY DEF EmptyQueue
  <2>2. <<Root>> \in Seq(Nodes)
    BY <1>0
  <2>3. [EmptyQueue EXCEPT ![-1] = <<Root>>] \in [Depths -> Seq(Nodes)]
    BY <2>1, <2>2, ZenonT(60)
  <2> QED
    BY <1>0, <2>1, <2>3 DEF Init, Queues
<1>3. \A x : x \notin ToSet(<< >>) /\ (x \in ToSet(<<Root>>) <=> x = Root)
  BY DEF ToSet
<1>4. \A t \in Workers, d \in Depths : \A x :
        x \in ToSet(work_queue[t][d]) <=> t = 0 /\ d = -1 /\ x = Root
  BY <1>1, <1>3
<1>5. Separate
  <2>1. Injective(<< >>) /\ Injective(<<Root>>)
    BY DEF Injective
  <2>2. \A t \in Workers, d \in Depths : Injective(work_queue[t][d])
    BY <1>1, <2>1
  <2>3. \A t, u \in Workers, d, e \in Depths : t # u \/ d # e =>
          \A x : ~(x \in ToSet(work_queue[t][d]) /\ x \in ToSet(work_queue[u][e]))
    BY <1>4
  <2> QED
    BY <2>2, <2>3 DEF Separate
<1>6. AllQueued = {Root}
  <2>1. \A x : x \in AllQueued <=> x = Root
    BY <1>0, <1>4, QueuedMembers
  <2> QED
    BY <2>1
<1>7. Thieves
  BY DEF Init, DriverInit, Thieves
<1>8. IInv(AllQueued) /\ Parked /\ Execution[Root] \in KnownBy(AllQueued)
  BY <1>6, InitIInv, InitParked, RootIsKnown DEF Init
<1>9. BigMutex
  BY MutexAssumption DEF MutexAssumption, Init, DriverInit, BigMutex
<1> QED
  BY <1>2, <1>5, <1>6, <1>7, <1>8, <1>9 DEF Inv

(* Every step keeps the invariant.                                         *)
LEMMA NextInv == Inv /\ [Next]_vars => Inv'
<1> SUFFICES ASSUME Inv, [Next]_vars PROVE Inv'
  OBVIOUS
<1>1. ASSUME NEW t \in Workers, Step(t) \/ SpuriousWakeup(t) PROVE Inv'
  <2>1. SchedulerStep(t, AllQueued, AllQueued') /\ Queues' /\ Separate' /\ Thieves'
    BY <1>1, StepIsSchedulerStep
  <2>2. IInv(AllQueued)'
    BY <2>1, StepIInv DEF Inv
  <2>3. BigMutex' /\ Parked'
    BY <1>1, StepKeepsParked
  <2>4. (Execution[Root] \in KnownBy(AllQueued))'
    BY <2>1, KnownStaysKnown DEF Inv
  <2> QED
    BY <2>1, <2>2, <2>3, <2>4 DEF Inv
<1>2. ASSUME UNCHANGED vars PROVE Inv'
  <2>1. /\ UNCHANGED driverVars /\ work_queue' = work_queue
        /\ others' = others /\ mutex' = mutex
    BY <1>2 DEF vars
  <2>2. Queues' /\ Separate' /\ AllQueued' = AllQueued
    BY <2>1, QueuesStay
  <2>3. IInv(AllQueued)' /\ Parked' /\ KnownBy(AllQueued)' = KnownBy(AllQueued)
    BY <2>1, <2>2, StutterIInv, StutterParked DEF Inv
  <2>4. Thieves' /\ BigMutex'
    BY <2>1 DEF Inv, Thieves, BigMutex, driverVars
  <2> QED
    BY <2>2, <2>3, <2>4 DEF Inv
<1> QED
  BY <1>1, <1>2 DEF Next

(* The inductive invariant holds throughout run_rfsc_parallel.             *)
THEOREM Invariance == Spec => []Inv
BY InitInv, NextInv, PTL DEF Spec

(* Whatever the number of workers, the decision tree and the order of the  *)
(* thefts, outstanding_jobs counts the jobs, and no steal loses a queued   *)
(* work item or leaves it in two places.                                   *)
THEOREM JobAccountingHolds == Spec => []JobAccounting
<1>1. Inv => JobAccounting
  <2> SUFFICES ASSUME Inv PROVE JobAccounting
    OBVIOUS
  <2>1. outstanding_jobs = Cardinality(AllQueued \cup Busy \cup dropped)
    BY DEF Inv, IInv, Accounting, Jobs
  <2>2. ASSUME NEW t \in Workers, NEW u \in Workers,
               NEW d \in Depths, NEW e \in Depths,
               NEW i \in 1..Len(work_queue[t][d]), NEW j \in 1..Len(work_queue[u][e]),
               work_queue[t][d][i] = work_queue[u][e][j]
        PROVE  t = u /\ d = e /\ i = j
    <3>1. work_queue[t][d] \in Seq(Nodes) /\ work_queue[u][e] \in Seq(Nodes)
      BY DEF Inv, Queues
    <3>2. work_queue[t][d][i] \in ToSet(work_queue[t][d])
      BY <3>1, ToSetMembers
    <3>3. work_queue[t][d][i] \in ToSet(work_queue[u][e])
      BY <2>2, <3>1, ToSetMembers
    <3>4. t = u /\ d = e
      BY <3>2, <3>3, Zenon DEF Inv, Separate
    <3>5. Injective(work_queue[t][d])
      BY DEF Inv, Separate
    <3> QED
      BY <2>2, <3>4, <3>5 DEF Injective
  <2> QED
    BY <2>1, <2>2 DEF JobAccounting
<1> QED
  BY <1>1, Invariance, PTL

(* Unless an error was found, the workers are told to halt only when       *)
(* nothing is queued, executing or about to be queued.                     *)
HaltOnlyWhenExhausted ==
  (halting \/ \E t \in Workers : pc[t] = "halt") /\ error_trace = NoNode =>
     AllQueued = {} /\ Busy = {}

(* run_rfsc_parallel never halts its workers too early: a job that a thief *)
(* is moving from one queue to another still counts.                       *)
THEOREM NeverHaltsEarly == Spec => []HaltOnlyWhenExhausted
<1>1. Inv => HaltOnlyWhenExhausted
  BY DriverAssumption DEF DriverAssumption, Inv, IInv, Exhausted, Jobs, HaltOnlyWhenExhausted
<1> QED
  BY <1>1, Invariance, PTL

(* No two workers hold the same work item, and none is held while it is in *)
(* some worker's queue.                                                    *)
OneOwner ==
  /\ AllQueued \cap Busy = {}
  /\ \A t, u \in Workers : t # u => Held(t) \cap Held(u) = {}

(* Whoever steals from whom, a work item is in one place.                  *)
THEOREM SingleOwnership == Spec => []OneOwner
<1>1. Inv => OneOwner
  BY BusyMembers DEF Inv, IInv, Placed, OneOwner, Held, Holds
<1> QED
  BY <1>1, Invariance, PTL

(* No complete execution is explored twice.                                *)
NoDuplicateExploration == \A n \in Nodes : explored[n] <= 1

(* Whichever workers race to discover an execution, it is explored once.   *)
THEOREM ExploredOnce == Spec => []NoDuplicateExploration
<1>1. Inv => NoDuplicateExploration
  BY DEF Inv, IInv, Unexplored, NoDuplicateExploration
<1> QED
  BY <1>1, Invariance, PTL

(* If an execution failed then, once the workers have returned, a failing  *)
(* execution is in res.error_trace.                                        *)
ErrorReported ==
  AllDone /\ Explored \cap Erroneous # {} =>
    error_trace \in Explored \cap Erroneous

(* An error that any worker met is reported by run_rfsc_parallel.          *)
THEOREM ErrorsAreReported == Spec => []ErrorReported
<1>1. Inv => ErrorReported
  <2> SUFFICES ASSUME Inv, AllDone, Explored \cap Erroneous # {}
               PROVE  error_trace \in Explored \cap Erroneous
    BY DEF ErrorReported
  <2>1. \A t \in Workers : pc[t] \notin Ran
    BY DEF AllDone, Ran, Computing
  <2> QED
    BY <2>1 DEF Inv, IInv, Blame
<1> QED
  BY <1>1, Invariance, PTL

(* No work sits in the queue of a sleeping worker: whatever is queued is   *)
(* in the queue of a worker that is awake or has returned.                 *)
NoWorkAsleep == \A t \in Workers : pc[t] = "wait" => Queued(t) = {}

(* A thief can miss the notification of work that is pushed while it is    *)
(* scanning, but that work is then in the queue of a worker that is awake. *)
THEOREM SleepersHaveNoWork == Spec => []NoWorkAsleep
<1>1. Inv => NoWorkAsleep
  <2> SUFFICES ASSUME Inv, NEW t \in Workers, pc[t] = "wait" PROVE Queued(t) = {}
    BY DEF NoWorkAsleep
  <2>1. \A d \in Depths : work_queue[t][d] = << >>
    BY DEF Inv, Thieves
  <2> QED
    BY <2>1, EmptyDeque DEF Queued
<1> QED
  BY <1>1, Invariance, PTL

(* What worker t needs to take its next step: not to sleep in cv.wait, not *)
(* to have returned, and to get the mutex it asks for, state.mutex at the  *)
(* end of a job, the big one before it steals or halts the others.         *)
Runnable(t) ==
  /\ pc[t] \notin {"wait", "done"}
  /\ pc[t] = "finish" => state_mutex = NoNode
  /\ pc[t] \in {"steal", "halt"} => mutex = NoNode

(* Some worker can go on, without a spurious wake-up, until all have       *)
(* returned.  The exception is --keep-going after reset() has skipped a    *)
(* pruned work item, which outstanding_jobs counts for ever.               *)
Progress ==
  AllDone \/ (KeepGoing /\ dropped # {}) \/ \E t \in Workers : Runnable(t)

(* The workers never all wait for each other, on cv or for the two         *)
(* mutexes, of which halt() needs both.                                    *)
THEOREM NeverStuck == Spec => []Progress
<1>1. Inv => Progress
  <2> SUFFICES ASSUME Inv, ~AllDone, ~(KeepGoing /\ dropped # {}),
                      \A t \in Workers : ~Runnable(t)
               PROVE  FALSE
    BY DEF Progress
  <2>1. mutex = NoNode
    <3>1. mutex \in Workers \cup {NoNode} /\ \A t \in Workers : mutex = t <=> pc[t] = "scan"
      BY DEF Inv, BigMutex
    <3>2. \A t \in Workers : pc[t] # "scan"
      BY DEF Runnable
    <3> QED
      BY <3>1, <3>2
  <2>2. state_mutex = NoNode
    <3>1. state_mutex \in Workers \cup {NoNode} /\ \A t \in Workers : pc[t] # "halt"
      BY <2>1, Zenon DEF Inv, IInv, DriverTypeOK, Runnable
    <3> QED
      BY <3>1 DEF Inv, Parked
  <2>3. \A t \in Workers : pc[t] \in {"wait", "done"}
    BY <2>1, <2>2 DEF Runnable
  <2>4. AllQueued # {} /\ \A t \in Workers : pc[t] = "wait"
    BY <2>3, AllAsleep, Zenon DEF Inv, AllDone
  <2>5. \A t \in Workers : Queued(t) = {}
    <3>1. \A t \in Workers, d \in Depths : work_queue[t][d] = << >>
      BY <2>4 DEF Inv, Thieves
    <3> QED
      BY <3>1, EmptyDeque DEF Queued
  <2> QED
    BY <2>4, <2>5 DEF AllQueued
<1> QED
  BY <1>1, Invariance, PTL

(* When all workers have returned and no error was found, the execution    *)
(* from the root was explored, and every feasible alternative of every     *)
(* explored execution is on the path of an explored execution.             *)
CompleteAtEnd ==
  AllDone /\ error_trace = NoNode =>
    /\ Execution[Root] \in Explored
    /\ \A p \in Explored : \A s \in Siblings(p) \cap Feasible :
         \E q \in Explored : s \in PathTo(q)

(* run_rfsc_parallel returns without an error only when there is nothing   *)
(* left to explore.                                                        *)
THEOREM Completeness == Spec => []CompleteAtEnd
<1>1. Inv => CompleteAtEnd
  <2> SUFFICES ASSUME Inv, AllDone, error_trace = NoNode
               PROVE  /\ Execution[Root] \in Explored
                      /\ \A p \in Explored : \A s \in Siblings(p) \cap Feasible :
                           \E q \in Explored : s \in PathTo(q)
    BY DEF CompleteAtEnd
  <2>1. halting
    BY DriverAssumption DEF DriverAssumption, Inv, Parked, AllDone
  <2> QED
    BY <2>1, ExhaustedIsComplete DEF Inv
<1> QED
  BY <1>1, Invariance, PTL

(* At first only the execution from the root is known.                     *)
LEMMA InitRefines == Init => Promise!Init
<1> SUFFICES ASSUME Init PROVE Promise!Init
  OBVIOUS
<1>1. Explored = {} /\ Verdict = "none" /\ Erroneous \in Failures
  BY DEF Init, DriverInit, Explored, Verdict
<1>2. Busy = {} /\ dropped = {} /\ AllQueued = {<< >>}
  BY InitInv DEF Init, DriverInit, Busy, Held, Root
<1>3. \A u \in Workers : sibling[u] = NoNode
  BY DEF Init, DriverInit
<1>4. KnownBy(AllQueued) = {Execution[<< >>]}
  BY <1>1, <1>2, <1>3, Zenon DEF KnownBy
<1> QED
  BY <1>1, <1>4 DEF Promise!Init

(* Every step is one that the promise allows, or leaves what it speaks of. *)
LEMMA NextRefines == Inv /\ [Next]_vars => [Promise!Next]_(Promise!vars)
<1> SUFFICES ASSUME Inv, [Next]_vars PROVE [Promise!Next]_(Promise!vars)
  OBVIOUS
<1>1. PICK K : K = KnownBy(AllQueued)
  OBVIOUS
<1>2. PICK L : L = KnownBy(AllQueued)'
  OBVIOUS
<1>3. ASSUME NEW t \in Workers, Step(t) \/ SpuriousWakeup(t)
      PROVE  [Promise!Next]_(Promise!vars)
  <2>1. SchedulerStep(t, AllQueued, AllQueued')
    BY <1>3, StepIsSchedulerStep DEF Inv
  <2>2. /\ Erroneous' = Erroneous
        /\ \/ Explores(K, L) \/ Discovers(K, L) \/ Exhausts(K, L)
           \/ Fails(K, L) \/ Stutters(K, L)
    BY <1>1, <1>2, <2>1, StepRefines DEF Inv
  <2>3. CASE Explores(K, L)
    BY <1>1, <1>2, <2>2, <2>3 DEF Explores, Promise!Next, Promise!Explore
  <2>4. CASE Discovers(K, L)
    BY <1>1, <1>2, <2>2, <2>4
       DEF Discovers, Reaches, PathTo, Promise!Next, Promise!Discover,
           Promise!Covered, Promise!PathTo
  <2>5. CASE Exhausts(K, L)
    BY <1>1, <1>2, <2>2, <2>5
       DEF Exhausts, Reaches, PathTo, Promise!Next, Promise!Exhaust,
           Promise!Covered, Promise!PathTo
  <2>6. CASE Fails(K, L)
    BY <1>1, <1>2, <2>2, <2>6 DEF Fails, Promise!Next, Promise!Fail
  <2>7. CASE Stutters(K, L)
    BY <1>1, <1>2, <2>2, <2>7 DEF Stutters, Promise!vars
  <2> QED
    BY <2>2, <2>3, <2>4, <2>5, <2>6, <2>7
<1>4. ASSUME UNCHANGED vars PROVE [Promise!Next]_(Promise!vars)
  <2>1. UNCHANGED driverVars /\ AllQueued' = AllQueued
    BY <1>4 DEF vars, AllQueued, Queued
  <2>2. /\ UNCHANGED Erroneous /\ Explored' = Explored /\ Verdict' = Verdict
        /\ KnownBy(AllQueued)' = KnownBy(AllQueued)
    BY <2>1, StutterIInv DEF Inv
  <2> QED
    BY <2>2 DEF Promise!vars
<1> QED
  BY <1>3, <1>4 DEF Next

(* For any set of workers and any decision tree, run_rfsc_parallel with    *)
(* this scheduler implements Exploration: what is known is explored once,  *)
(* only uncovered alternatives become work items, and "exhausted" is       *)
(* reached only when every known execution was explored and none of them   *)
(* has an uncovered alternative.                                           *)
THEOREM Refinement == Spec => ImplementsExploration
<1>1. Spec => Promise!Spec
  BY InitRefines, NextRefines, Invariance, PTL DEF Spec, Promise!Spec
<1> QED
  BY <1>1 DEF ImplementsExploration
=============================================================================
