----------------------- MODULE ParallelRadixJoinProofs -----------------------
(***************************************************************************)
(* The parallel radix join, for every number of threads, relations of any  *)
(* size and any number of radix bits: no task gets lost in a queue, and    *)
(* what the threads partition together, the relations in the first pass    *)
(* and the skewed clusters after it, is complete and never overwritten,    *)
(* and the regions that threads partition or join alone are apart; and     *)
(* every variable has its type.                                            *)
(*                                                                         *)
(* First the queues, then sums and places, where the threads are between   *)
(* the barriers, the invariant of a partition, who has a claim to which    *)
(* region, and the types, which rest on all of these.                      *)
(***************************************************************************)
EXTENDS ParallelRadixJoin, FoldTheorems

-----------------------------------------------------------------------------
(* What can be reached along links nx of the slots S.  Waiting is a        *)
(* recursive function that follows the links round by round; a proof needs *)
(* what it amounts to, the least set that holds where it begins and where  *)
(* its links lead.                                                         *)

Links(S) == [S -> S \cup {NULL}]

Closed(nx, C) == \A c \in C : nx[c] # NULL => nx[c] \in C

Reach(nx, R) ==
  {c \in DOMAIN nx : \A C \in SUBSET (DOMAIN nx) : R \subseteq C /\ Closed(nx, C) => c \in C}

(* One round: the slots that are linked from R and not in it. *)
Further(nx, R) == {nx[c] : c \in R} \ (R \cup {NULL})

Follow(nx) ==
  CHOOSE follow : follow = [reached \in SUBSET (DOMAIN nx) |->
    IF Further(nx, reached) = {} THEN reached ELSE follow[reached \cup Further(nx, reached)]]

LEMMA ReachFacts ==
  ASSUME NEW S, NEW nx \in Links(S), NEW R \in SUBSET S
  PROVE  /\ Reach(nx, R) \in SUBSET S /\ R \subseteq Reach(nx, R)
         /\ Closed(nx, Reach(nx, R))
         /\ Further(nx, R) = {} => Reach(nx, R) = R
         /\ Further(nx, R) \in SUBSET S
         /\ Reach(nx, R \cup Further(nx, R)) = Reach(nx, R)
<1> USE DEF Links
<1>0. DOMAIN nx = S
  OBVIOUS
<1>1. Further(nx, R) \in SUBSET S
  BY DEF Further
<1>2. Reach(nx, R) \in SUBSET S /\ R \subseteq Reach(nx, R)
  BY DEF Reach
<1>3. Closed(nx, Reach(nx, R))
  BY DEF Reach, Closed
<1>4. ASSUME Further(nx, R) = {}
      PROVE  Reach(nx, R) = R
  <2>1. Closed(nx, R)
    BY <1>4 DEF Closed, Further
  <2>2. QED
    BY <1>2, <2>1 DEF Reach
<1>5. \A C \in SUBSET S :
        R \subseteq C /\ Closed(nx, C) <=> R \cup Further(nx, R) \subseteq C /\ Closed(nx, C)
  BY DEF Closed, Further
<1>6. Reach(nx, R \cup Further(nx, R)) = Reach(nx, R)
  BY <1>0, <1>5 DEF Reach
<1>7. QED
  BY <1>1, <1>2, <1>3, <1>4, <1>6

(* There is one function that follows the links as Waiting does, and it    *)
(* ends at the least closed set.                                           *)
LEMMA FollowIsReach ==
  ASSUME NEW S, IsFiniteSet(S), NEW nx \in Links(S), NEW R \in SUBSET S
  PROVE  Follow(nx)[R] = Reach(nx, R)
<1> DEFINE Round(f, Q) == IF Further(nx, Q) = {} THEN Q ELSE f[Q \cup Further(nx, Q)]
           g == [Q \in SUBSET S |-> Reach(nx, Q)]
           f == Follow(nx)
<1>0. DOMAIN nx = S
  BY DEF Links
<1>1. g = [Q \in SUBSET S |-> Round(g, Q)]
  <2>1. \A Q \in SUBSET S : Reach(nx, Q) = Round(g, Q)
    BY ReachFacts
  <2>2. QED
    BY <2>1
<1>2. f = [Q \in SUBSET S |-> Round(f, Q)]
  BY <1>0, <1>1 DEF Follow
<1> HIDE DEF f
<1> DEFINE T == {Q \in SUBSET S : f[Q] # Reach(nx, Q)}
<1>3. T = {}
  <2> SUFFICES ASSUME T # {}
               PROVE  FALSE
    OBVIOUS
  <2>1. T \in SUBSET (SUBSET S)
    OBVIOUS
  <2>2. \E Q \in T : \A P \in T : Q \subseteq P => P = Q
    <3> HIDE DEF T
    <3>1. QED
      BY <2>1, LargestSet
  <2> PICK Q \in T : \A P \in T : Q \subseteq P => P = Q
    BY <2>2
  <2>3. Q \in SUBSET S /\ f[Q] # Reach(nx, Q)
    OBVIOUS
  <2>4. f[Q] = Round(f, Q)
    BY <1>2, <2>3
  <2>5. CASE Further(nx, Q) = {}
    BY <2>3, <2>4, <2>5, ReachFacts
  <2>6. CASE Further(nx, Q) # {}
    <3> DEFINE P == Q \cup Further(nx, Q)
    <3>1. P \in SUBSET S /\ Q \subseteq P /\ P # Q
      BY <2>3, <2>6, ReachFacts DEF Further
    <3>2. f[P] = Reach(nx, P)
      BY <3>1
    <3>3. QED
      BY <2>3, <2>4, <2>6, <3>2, ReachFacts
  <2>7. QED
    BY <2>5, <2>6
<1>4. QED
  BY <1>3 DEF f

LEMMA WaitingIsReach ==
  ASSUME NEW q, IsFiniteSet(DOMAIN q.next), q.next \in Links(DOMAIN q.next),
         q.head \in DOMAIN q.next \cup {NULL}
  PROVE  Waiting(q) = Reach(q.next, {q.head} \ {NULL})
<1>1. Waiting(q) = Follow(q.next)[{q.head} \ {NULL}]
  BY DEF Waiting, Follow, Further
<1>2. {q.head} \ {NULL} \in SUBSET (DOMAIN q.next)
  OBVIOUS
<1>3. QED
  BY <1>1, <1>2, FollowIsReach

-----------------------------------------------------------------------------
(* No slot is linked back to itself: what it is linked to is older.        *)
Acyclic(nx) == \A c \in DOMAIN nx : c \notin Reach(nx, {nx[c]} \ {NULL})

(* From a slot on: the slot, and what is reached from the next one. *)
LEMMA ReachStep ==
  ASSUME NEW S, NULL \notin S, NEW nx \in Links(S), NEW h \in S
  PROVE  Reach(nx, {h}) = {h} \cup Reach(nx, {nx[h]} \ {NULL})
<1> DEFINE N == {nx[h]} \ {NULL}
<1>1. N \in SUBSET S /\ {h} \in SUBSET S /\ DOMAIN nx = S
  BY DEF Links
<1>2. /\ Reach(nx, N) \in SUBSET S /\ N \subseteq Reach(nx, N) /\ Closed(nx, Reach(nx, N))
      /\ Reach(nx, {h}) \in SUBSET S /\ {h} \subseteq Reach(nx, {h}) /\ Closed(nx, Reach(nx, {h}))
  <2> HIDE DEF N
  <2>1. Reach(nx, N) \in SUBSET S /\ N \subseteq Reach(nx, N) /\ Closed(nx, Reach(nx, N))
    BY <1>1, ReachFacts, ZenonT(60)
  <2> DEFINE H == {h}
  <2>2. Reach(nx, H) \in SUBSET S /\ H \subseteq Reach(nx, H) /\ Closed(nx, Reach(nx, H))
    <3>1. H \in SUBSET S
      OBVIOUS
    <3> HIDE DEF H
    <3>2. QED
      BY <3>1, ReachFacts, Zenon
  <2>3. QED
    BY <2>1, <2>2
<1>3. Closed(nx, {h} \cup Reach(nx, N))
  BY <1>2 DEF Closed
<1>4. Reach(nx, {h}) \subseteq {h} \cup Reach(nx, N)
  BY <1>1, <1>2, <1>3 DEF Reach
<1>5. N \subseteq Reach(nx, {h})
  BY <1>2 DEF Closed
<1>6. Reach(nx, N) \subseteq Reach(nx, {h})
  BY <1>1, <1>2, <1>5 DEF Reach
<1>7. QED
  BY <1>2, <1>4, <1>6

(* A new slot that nothing is linked to changes nothing for the others.    *)
LEMMA ReachExtended ==
  ASSUME NEW S, NULL \notin S, NEW nx \in Links(S), NEW s, s \notin S, s # NULL,
         NEW h \in S \cup {NULL},
         NEW mx \in Links(S \cup {s}), mx[s] = h, \A c \in S : mx[c] = nx[c],
         NEW R \in SUBSET S
  PROVE  Reach(mx, R) = Reach(nx, R)
<1>1. DOMAIN nx = S /\ DOMAIN mx = S \cup {s} /\ R \in SUBSET (S \cup {s})
  BY DEF Links
<1>2. /\ Reach(nx, R) \in SUBSET S /\ R \subseteq Reach(nx, R) /\ Closed(nx, Reach(nx, R))
      /\ Reach(mx, R) \in SUBSET (S \cup {s}) /\ R \subseteq Reach(mx, R) /\ Closed(mx, Reach(mx, R))
  <2> DEFINE S1 == S \cup {s}
  <2>0. nx \in Links(S) /\ R \in SUBSET S /\ mx \in Links(S1) /\ R \in SUBSET S1
    OBVIOUS
  <2> HIDE DEF S1
  <2>1. Reach(nx, R) \in SUBSET S /\ R \subseteq Reach(nx, R) /\ Closed(nx, Reach(nx, R))
    BY <2>0, ReachFacts, Zenon
  <2>2. Reach(mx, R) \in SUBSET S1 /\ R \subseteq Reach(mx, R) /\ Closed(mx, Reach(mx, R))
    BY <2>0, ReachFacts, Zenon
  <2>3. QED
    BY <2>1, <2>2 DEF S1
<1>3. Closed(mx, Reach(nx, R))
  BY <1>2 DEF Closed
<1>4. Reach(mx, R) \subseteq Reach(nx, R)
  BY <1>1, <1>2, <1>3 DEF Reach
<1>5. Closed(nx, Reach(mx, R))
  BY <1>2, <1>4 DEF Closed
<1>6. Reach(mx, R) \in SUBSET S
  BY <1>2, <1>4
<1>7. Reach(nx, R) \subseteq Reach(mx, R)
  BY <1>1, <1>2, <1>5, <1>6 DEF Reach
<1>8. QED
  BY <1>4, <1>7

LEMMA AcyclicExtended ==
  ASSUME NEW S, NULL \notin S, NEW nx \in Links(S), NEW s, s \notin S, s # NULL,
         NEW h \in S \cup {NULL},
         NEW mx \in Links(S \cup {s}), mx[s] = h, \A c \in S : mx[c] = nx[c],
         Acyclic(nx)
  PROVE  Acyclic(mx)
<1>1. DOMAIN nx = S /\ DOMAIN mx = S \cup {s}
  BY DEF Links
<1>2. ASSUME NEW c \in S \cup {s}
      PROVE  c \notin Reach(mx, {mx[c]} \ {NULL})
  <2> DEFINE N == {mx[c]} \ {NULL}
  <2>1. N \in SUBSET S
    BY DEF Links
  <2>2. Reach(mx, N) = Reach(nx, N)
    BY <2>1, ReachExtended
  <2>3. Reach(nx, N) \in SUBSET S
    <3> HIDE DEF N
    <3>1. QED
      BY <2>1, ReachFacts, Zenon
  <2>4. CASE c = s
    BY <2>2, <2>3, <2>4
  <2>5. CASE c \in S
    BY <1>1, <2>2, <2>5 DEF Acyclic
  <2>6. QED
    BY <2>4, <2>5
<1>3. QED
  BY <1>1, <1>2 DEF Acyclic

-----------------------------------------------------------------------------
(* The queues.                                                             *)

QueueRecord(q) ==
  q = [head |-> q.head, count |-> q.count, curr |-> q.curr, task |-> q.task, next |-> q.next]

(* The slots that are linked are among those handed out, the links lead    *)
(* from newer tasks to older ones, and the tasks that wait are counted.    *)
QueueInv(q) ==
  /\ QueueRecord(q)
  /\ q.curr \in Nat
  /\ DOMAIN q.next \subseteq 1 .. q.curr /\ DOMAIN q.task = DOMAIN q.next
  /\ q.next \in Links(DOMAIN q.next)
  /\ q.head \in DOMAIN q.next \cup {NULL}
  /\ Acyclic(q.next)
  /\ q.count = Cardinality(Waiting(q))

LEMMA QueueFacts ==
  ASSUME NEW q, QueueInv(q)
  PROVE  /\ IsFiniteSet(DOMAIN q.next) /\ NULL \notin DOMAIN q.next
         /\ Waiting(q) = Reach(q.next, {q.head} \ {NULL})
         /\ Waiting(q) \in SUBSET (DOMAIN q.next) /\ IsFiniteSet(Waiting(q))
         /\ q.count \in Nat
<1> USE DEF QueueInv
<1>1. IsFiniteSet(1 .. q.curr)
  BY FS_Interval
<1>2. IsFiniteSet(DOMAIN q.next)
  BY <1>1, FS_Subset
<1>3. NULL \notin DOMAIN q.next
  BY DEF NULL
<1>4. Waiting(q) = Reach(q.next, {q.head} \ {NULL})
  BY <1>2, WaitingIsReach
<1> DEFINE S == DOMAIN q.next
           R == {q.head} \ {NULL}
<1>5. R \in SUBSET S /\ q.next \in Links(S)
  OBVIOUS
<1>6. Reach(q.next, R) \in SUBSET S
  <2> HIDE DEF S, R
  <2>1. QED
    BY <1>5, ReachFacts, Zenon
<1>7. IsFiniteSet(Waiting(q))
  BY <1>2, <1>4, <1>6, FS_Subset
<1>8. q.count \in Nat
  BY <1>7, FS_CardinalityType
<1>9. QED
  BY <1>2, <1>3, <1>4, <1>6, <1>7, <1>8

LEMMA EmptyQueueCorrect == QueueInv(EmptyQueue) /\ Waiting(EmptyQueue) = {}
<1> DEFINE q == EmptyQueue
<1>1. /\ q.head = NULL /\ q.count = 0 /\ q.curr = 0 /\ q.task = <<>> /\ q.next = <<>>
      /\ QueueRecord(q)
  BY DEF EmptyQueue, QueueRecord
<1> HIDE DEF q
<1>2. DOMAIN q.next = {} /\ DOMAIN q.task = {}
  BY <1>1
<1>3. q.next \in Links({})
  BY <1>1 DEF Links
<1>4. IsFiniteSet({}) /\ Cardinality({}) = 0
  BY FS_EmptySet
<1>5. Waiting(q) = Reach(q.next, {})
  <2>1. Waiting(q) = Reach(q.next, {q.head} \ {NULL})
    BY <1>1, <1>2, <1>3, <1>4, WaitingIsReach
  <2>2. {q.head} \ {NULL} = {}
    BY <1>1
  <2>3. QED
    BY <2>1, <2>2
<1>6. Waiting(q) = {}
  BY <1>2, <1>5 DEF Reach
<1>7. Acyclic(q.next)
  BY <1>2 DEF Acyclic
<1>8. QueueInv(q)
  BY <1>1, <1>2, <1>3, <1>4, <1>6, <1>7 DEF QueueInv
<1>9. QED
  BY <1>6, <1>8 DEF q

(* task_queue_get_slot(): the slot was never linked, and becomes one of    *)
(* those handed out.                                                       *)
LEMMA GetSlotCorrect ==
  ASSUME NEW q, QueueInv(q)
  PROVE  LET r == AfterGetSlot(q)
         IN  /\ QueueInv(r) /\ Waiting(r) = Waiting(q)
             /\ r.curr = q.curr + 1 /\ r.next = q.next /\ r.task = q.task
             /\ FreeSlot(q) \in 1 .. r.curr /\ FreeSlot(q) \notin 1 .. q.curr
<1> DEFINE r == AfterGetSlot(q)
<1>1. q.curr \in Nat /\ QueueRecord(q)
  BY DEF QueueInv
<1>2. /\ r.head = q.head /\ r.count = q.count /\ r.curr = q.curr + 1 /\ r.task = q.task
      /\ r.next = q.next /\ QueueRecord(r)
  BY <1>1 DEF AfterGetSlot, QueueRecord
<1> HIDE DEF r
<1>3. Waiting(r) = Waiting(q)
  BY <1>2 DEF Waiting
<1>4. QueueInv(r)
  BY <1>1, <1>2, <1>3 DEF QueueInv
<1>5. FreeSlot(q) \in 1 .. r.curr /\ FreeSlot(q) \notin 1 .. q.curr
  BY <1>1, <1>2 DEF FreeSlot
<1>6. QED
  BY <1>2, <1>3, <1>4, <1>5 DEF r

(* task_queue_add() of a slot that was handed out and is not linked yet.   *)
LEMMA AddCorrect ==
  ASSUME NEW q, QueueInv(q), NEW s \in 1 .. q.curr, s \notin DOMAIN q.next, NEW task
  PROVE  LET r == AfterAdd(q, s, task)
         IN  /\ QueueInv(r) /\ Waiting(r) = Waiting(q) \cup {s} /\ s \notin Waiting(q)
             /\ r.curr = q.curr /\ DOMAIN r.next = DOMAIN q.next \cup {s}
             /\ r.task[s] = task /\ \A c \in DOMAIN q.task : r.task[c] = q.task[c]
<1> DEFINE r == AfterAdd(q, s, task)
<1>0. QueueRecord(q) /\ q.curr \in Nat
  BY DEF QueueInv
<1>1. /\ r.head = s /\ r.count = q.count + 1 /\ r.curr = q.curr
      /\ r.task = With(q.task, s, task) /\ r.next = With(q.next, s, q.head) /\ QueueRecord(r)
  <2>1. PICK h, c, k, tk, nx : q = [head |-> h, count |-> c, curr |-> k, task |-> tk, next |-> nx]
    BY <1>0 DEF QueueRecord
  <2>2. r = [head |-> s, count |-> c + 1, curr |-> k, task |-> With(tk, s, task),
             next |-> With(nx, s, h)]
    <3>1. PICK tk2, nx2, c2 : tk2 = With(tk, s, task) /\ nx2 = With(nx, s, h) /\ c2 = c + 1
      OBVIOUS
    <3>2. q.task = tk /\ q.next = nx /\ q.head = h /\ q.count = c
      BY <2>1
    <3>3. r = [q EXCEPT !.task = tk2, !.next = nx2, !.head = s, !.count = c2]
      BY <3>1, <3>2 DEF AfterAdd
    <3> HIDE DEF r
    <3>4. r = [head |-> s, count |-> c2, curr |-> k, task |-> tk2, next |-> nx2]
      BY <2>1, <3>3
    <3>5. QED
      BY <3>1, <3>4
  <2> HIDE DEF r
  <2>3. QED
    BY <2>1, <2>2 DEF QueueRecord
<1> HIDE DEF r
<1> DEFINE S == DOMAIN q.next
<1>2. /\ NULL \notin S /\ q.next \in Links(S) /\ q.head \in S \cup {NULL} /\ Acyclic(q.next)
      /\ s \notin S /\ s # NULL /\ DOMAIN q.task = S /\ S \subseteq 1 .. q.curr
      /\ IsFiniteSet(S) /\ Waiting(q) = Reach(q.next, {q.head} \ {NULL})
      /\ Waiting(q) \in SUBSET S /\ IsFiniteSet(Waiting(q))
  BY QueueFacts DEF QueueInv, NULL
<1>3. /\ DOMAIN r.next = S \cup {s} /\ DOMAIN r.task = S \cup {s}
      /\ r.next[s] = q.head /\ \A c \in S : r.next[c] = q.next[c]
      /\ r.task[s] = task /\ \A c \in S : r.task[c] = q.task[c]
  BY <1>1, <1>2 DEF With
<1>4. r.next \in Links(S \cup {s})
  BY <1>1, <1>2 DEF With, Links
<1>5. Acyclic(r.next)
  <2> HIDE DEF S
  <2>1. QED
    BY <1>2, <1>3, <1>4, AcyclicExtended
<1>6. IsFiniteSet(S \cup {s})
  BY <1>2, FS_AddElement
<1>7. Waiting(r) = Reach(r.next, {s})
  <2>1. IsFiniteSet(DOMAIN r.next) /\ r.next \in Links(DOMAIN r.next) /\ r.head \in DOMAIN r.next \cup {NULL}
    BY <1>1, <1>3, <1>4, <1>6
  <2>2. Waiting(r) = Reach(r.next, {r.head} \ {NULL})
    BY <2>1, WaitingIsReach
  <2>3. {r.head} \ {NULL} = {s}
    BY <1>1, <1>2
  <2>4. QED
    BY <2>2, <2>3
<1>8. Waiting(r) = {s} \cup Waiting(q)
  <2> DEFINE T == S \cup {s}
             R == {q.head} \ {NULL}
  <2>1. NULL \notin T /\ r.next \in Links(T) /\ s \in T
    BY <1>2, <1>4
  <2>2. R \in SUBSET S
    BY <1>2
  <2>3. Reach(r.next, {s}) = {s} \cup Reach(r.next, {r.next[s]} \ {NULL})
    <3> HIDE DEF T
    <3>1. QED
      BY <2>1, ReachStep, Zenon
  <2>4. Reach(r.next, R) = Reach(q.next, R)
    <3>1. PICK nx, mx, h : nx = q.next /\ mx = r.next /\ h = q.head
      OBVIOUS
    <3>2. NULL \notin S /\ nx \in Links(S) /\ s \notin S /\ s # NULL /\ h \in S \cup {NULL}
      BY <1>2, <3>1
    <3>3. mx \in Links(S \cup {s}) /\ mx[s] = h /\ \A c \in S : mx[c] = nx[c]
      BY <1>3, <1>4, <3>1
    <3> HIDE DEF S, R
    <3>4. Reach(mx, R) = Reach(nx, R)
      BY <2>2, <3>2, <3>3, ReachExtended
    <3>5. QED
      BY <3>1, <3>4
  <2>5. QED
    BY <1>2, <1>3, <1>7, <2>3, <2>4
<1>9. Cardinality(Waiting(r)) = Cardinality(Waiting(q)) + 1
  <2>1. s \notin Waiting(q)
    BY <1>2
  <2>2. Waiting(r) = Waiting(q) \cup {s}
    BY <1>8
  <2>3. QED
    BY <1>2, <2>1, <2>2, FS_AddElement
<1>10. q.count = Cardinality(Waiting(q))
  BY DEF QueueInv
<1>11. QueueInv(r)
  BY <1>0, <1>1, <1>2, <1>3, <1>4, <1>5, <1>9, <1>10 DEF QueueInv
<1>12. QED
  BY <1>1, <1>2, <1>3, <1>8, <1>11 DEF r

LEMMA NewCorrect ==
  ASSUME NEW q, QueueInv(q), NEW task
  PROVE  LET r == AfterNew(q, task)
         IN  /\ QueueInv(r) /\ r.curr = q.curr + 1
             /\ FreeSlot(q) \notin 1 .. q.curr
             /\ Waiting(r) = Waiting(q) \cup {FreeSlot(q)} /\ FreeSlot(q) \notin Waiting(q)
             /\ DOMAIN r.next = DOMAIN q.next \cup {FreeSlot(q)}
             /\ r.task[FreeSlot(q)] = task /\ \A c \in DOMAIN q.task : r.task[c] = q.task[c]
<1>1. PICK p, s, r : p = AfterGetSlot(q) /\ s = FreeSlot(q) /\ r = AfterAdd(p, s, task)
  OBVIOUS
<1>2. /\ QueueInv(p) /\ Waiting(p) = Waiting(q)
      /\ p.curr = q.curr + 1 /\ p.next = q.next /\ p.task = q.task
      /\ s \in 1 .. p.curr /\ s \notin 1 .. q.curr
  BY <1>1, GetSlotCorrect
<1>3. s \notin DOMAIN p.next
  BY <1>2 DEF QueueInv
<1>4. /\ QueueInv(r) /\ Waiting(r) = Waiting(p) \cup {s} /\ s \notin Waiting(p)
      /\ r.curr = p.curr /\ DOMAIN r.next = DOMAIN p.next \cup {s}
      /\ r.task[s] = task /\ \A c \in DOMAIN p.task : r.task[c] = p.task[c]
  BY <1>1, <1>2, <1>3, AddCorrect
<1>5. r = AfterNew(q, task)
  BY <1>1 DEF AfterNew
<1>6. QED
  BY <1>1, <1>2, <1>4, <1>5

(* task_queue_get_atomic() of a queue in which a task waits: the one at    *)
(* the head does not wait any more, and no other is cut off.               *)
LEMMA GetCorrect ==
  ASSUME NEW q, QueueInv(q), q.count # 0
  PROVE  LET r == AfterGet(q)
         IN  /\ QueueInv(r) /\ q.head \in Waiting(q) /\ Waiting(r) = Waiting(q) \ {q.head}
             /\ r.curr = q.curr /\ r.next = q.next /\ r.task = q.task
<1> DEFINE r == AfterGet(q)
<1>0. QueueRecord(q)
  BY DEF QueueInv
<1>1. /\ r.head = q.next[q.head] /\ r.count = q.count - 1 /\ r.curr = q.curr
      /\ r.task = q.task /\ r.next = q.next /\ QueueRecord(r)
  <2>1. PICK h, c, k, tk, nx : q = [head |-> h, count |-> c, curr |-> k, task |-> tk, next |-> nx]
    BY <1>0 DEF QueueRecord
  <2>2. r = [head |-> nx[h], count |-> c - 1, curr |-> k, task |-> tk, next |-> nx]
    <3>1. PICK h2, c2 : h2 = nx[h] /\ c2 = c - 1
      OBVIOUS
    <3>2. q.next = nx /\ q.head = h /\ q.count = c
      BY <2>1
    <3>3. r = [q EXCEPT !.head = h2, !.count = c2]
      BY <3>1, <3>2 DEF AfterGet
    <3> HIDE DEF r
    <3>4. r = [head |-> h2, count |-> c2, curr |-> k, task |-> tk, next |-> nx]
      BY <2>1, <3>3
    <3>5. QED
      BY <3>1, <3>4
  <2> HIDE DEF r
  <2>3. QED
    BY <2>1, <2>2 DEF QueueRecord
<1> HIDE DEF r
<1> DEFINE S == DOMAIN q.next
<1>2. /\ NULL \notin S /\ q.next \in Links(S) /\ q.head \in S \cup {NULL} /\ Acyclic(q.next)
      /\ IsFiniteSet(S) /\ Waiting(q) = Reach(q.next, {q.head} \ {NULL})
      /\ Waiting(q) \in SUBSET S /\ IsFiniteSet(Waiting(q)) /\ q.count = Cardinality(Waiting(q))
      /\ q.count \in Nat
  BY QueueFacts DEF QueueInv
<1>3. q.head \in S
  <2> SUFFICES ASSUME q.head = NULL PROVE FALSE
    BY <1>2
  <2>1. {q.head} \ {NULL} = {}
    OBVIOUS
  <2>2. Reach(q.next, {}) = {}
    <3>1. Closed(q.next, {})
      BY DEF Closed
    <3>2. \A c \in Reach(q.next, {}) : c \in {}
      BY <3>1 DEF Reach
    <3>3. QED
      BY <3>2
  <2>3. QED
    BY <1>2, <2>1, <2>2, FS_EmptySet
<1>4. r.head \in S \cup {NULL}
  BY <1>1, <1>2, <1>3 DEF Links
<1>5. Waiting(r) = Reach(q.next, {r.head} \ {NULL})
  BY <1>1, <1>2, <1>4, WaitingIsReach
<1>6. Waiting(q) = {q.head} \cup Waiting(r)
  <2>1. Reach(q.next, {q.head}) = {q.head} \cup Reach(q.next, {q.next[q.head]} \ {NULL})
    <3>1. PICK nx, h : nx = q.next /\ h = q.head
      OBVIOUS
    <3>2. NULL \notin S /\ nx \in Links(S) /\ h \in S
      BY <1>2, <1>3, <3>1
    <3> HIDE DEF S
    <3>3. Reach(nx, {h}) = {h} \cup Reach(nx, {nx[h]} \ {NULL})
      BY <3>2, ReachStep, SMTT(30)
    <3>4. QED
      BY <3>1, <3>3
  <2>2. {q.head} \ {NULL} = {q.head}
    BY <1>2, <1>3
  <2>3. QED
    BY <1>1, <1>2, <1>5, <2>1, <2>2
<1>7. q.head \notin Waiting(r)
  BY <1>1, <1>2, <1>3, <1>5 DEF Acyclic
<1>8. q.head \in Waiting(q) /\ Waiting(r) = Waiting(q) \ {q.head}
  BY <1>6, <1>7
<1>9. Cardinality(Waiting(r)) = Cardinality(Waiting(q)) - 1
  BY <1>2, <1>8, FS_RemoveElement, ZenonT(60)
<1>10. QueueInv(r)
  <2>1. DOMAIN q.next \subseteq 1 .. q.curr /\ DOMAIN q.task = DOMAIN q.next /\ q.curr \in Nat
    BY DEF QueueInv
  <2>2. QED
    BY <1>1, <1>2, <1>4, <1>9, <2>1 DEF QueueInv
<1>11. QED
  BY <1>1, <1>8, <1>10 DEF r

-----------------------------------------------------------------------------
(* The queues of the nodes.                                                *)

(* A slot that a thread has been given and not linked yet. *)
SlotHeld(t) ==
  LET q == joinQueue[NumaId(t)]
  IN  slot[t] \in 1 .. q.curr /\ slot[t] \notin DOMAIN q.next

QueuesInv ==
  /\ numNuma \in Nat \ {0}
  /\ DOMAIN pc = Threads /\ DOMAIN slot = Threads
  /\ DOMAIN partQueue = Nodes /\ DOMAIN joinQueue = Nodes
  /\ \A n \in Nodes : QueueInv(partQueue[n]) /\ QueueInv(joinQueue[n])
  /\ QueueInv(skewQueue)
  /\ \A t \in Threads : pc[t] = "add" => SlotHeld(t)
  /\ \A t, u \in Threads :
       pc[t] = "add" /\ pc[u] = "add" /\ NumaId(t) = NumaId(u) /\ t # u => slot[t] # slot[u]

LEMMA NumaIdType ==
  ASSUME numNuma \in Nat \ {0}, NEW t \in Threads
  PROVE  NumaId(t) \in Nodes
<1>1. t \in Nat
  BY RadixJoinAssumption DEF Threads
<1>2. PICK m : m = numNuma
  OBVIOUS
<1>3. m \in Nat \ {0}
  BY <1>2
<1>4. t % m \in 0 .. (m - 1)
  BY <1>1, <1>3
<1>5. QED
  BY <1>2, <1>3, <1>4 DEF NumaId, Nodes

(* A step that touches no queue and brings no thread to the point where it *)
(* holds a slot.                                                           *)
LEMMA QueuesUntouched ==
  ASSUME QueuesInv, NEW t,
         (\E l : l # "add" /\ pc' = [pc EXCEPT ![t] = l]) \/ pc' = pc,
         UNCHANGED <<numNuma, slot, partQueue, joinQueue, skewQueue>>
  PROVE  QueuesInv'
<1>1. Nodes' = Nodes /\ \A u \in Threads : NumaId(u)' = NumaId(u)
  BY DEF Nodes, NumaId
<1>2. DOMAIN pc' = Threads /\ \A u \in Threads : pc'[u] = "add" => pc[u] = "add"
  BY DEF QueuesInv
<1>3. \A u \in Threads : SlotHeld(u)' <=> SlotHeld(u)
  BY <1>1 DEF SlotHeld
<1>4. QED
  BY <1>1, <1>2, <1>3 DEF QueuesInv

(* Queues that have got new tasks: what holds of their slots still does. *)
Grows(q, r) ==
  /\ QueueInv(r) /\ r.curr >= q.curr
  /\ \A s \in 1 .. q.curr : s \notin DOMAIN q.next => s \notin DOMAIN r.next

LEMMA QueuesGrow ==
  ASSUME QueuesInv, NEW t \in Threads,
         (\E l : l # "add" /\ pc' = [pc EXCEPT ![t] = l]) \/ pc' = pc,
         UNCHANGED <<numNuma, slot>>,
         DOMAIN partQueue' = Nodes, DOMAIN joinQueue' = Nodes,
         \A n \in Nodes : QueueInv(partQueue'[n]) /\ Grows(joinQueue[n], joinQueue'[n]),
         QueueInv(skewQueue')
  PROVE  QueuesInv'
<1>1. Nodes' = Nodes /\ \A u \in Threads : NumaId(u)' = NumaId(u) /\ NumaId(u) \in Nodes
  <2>1. Nodes' = Nodes /\ \A u \in Threads : NumaId(u)' = NumaId(u)
    BY DEF Nodes, NumaId
  <2>2. QED
    BY <2>1, NumaIdType DEF QueuesInv
<1>2. DOMAIN pc' = Threads /\ \A u \in Threads : pc'[u] = "add" => pc[u] = "add"
  BY DEF QueuesInv
<1>3. ASSUME NEW u \in Threads, SlotHeld(u)
      PROVE  SlotHeld(u)'
  <2>1. PICK n \in Nodes : n = NumaId(u) /\ n = NumaId(u)'
    BY <1>1
  <2>2. PICK q, r : q = joinQueue[n] /\ r = joinQueue'[n]
    OBVIOUS
  <2>3. Grows(q, r) /\ q.curr \in Nat /\ r.curr \in Nat
    BY <2>2 DEF QueuesInv, QueueInv, Grows
  <2>4. slot[u] \in 1 .. q.curr /\ slot[u] \notin DOMAIN q.next
    BY <1>3, <2>1, <2>2 DEF SlotHeld
  <2>5. slot[u] \in 1 .. r.curr /\ slot[u] \notin DOMAIN r.next
    BY <2>3, <2>4 DEF Grows
  <2>6. QED
    BY <2>1, <2>2, <2>5 DEF SlotHeld
<1>4. \A n \in Nodes : QueueInv(joinQueue'[n])
  BY DEF Grows
<1>5. QED
  BY <1>1, <1>2, <1>3, <1>4 DEF QueuesInv

LEMMA GrowsSame ==
  ASSUME NEW q, QueueInv(q)
  PROVE  Grows(q, q)
BY DEF Grows, QueueInv

LEMMA GrowsNew ==
  ASSUME NEW q, QueueInv(q), NEW task
  PROVE  Grows(q, AfterNew(q, task))
<1>1. PICK r : r = AfterNew(q, task)
  OBVIOUS
<1>2. QueueInv(r) /\ r.curr = q.curr + 1 /\ FreeSlot(q) \notin 1 .. q.curr
      /\ DOMAIN r.next = DOMAIN q.next \cup {FreeSlot(q)}
  BY <1>1, NewCorrect
<1>3. q.curr \in Nat
  BY DEF QueueInv
<1>4. QED
  BY <1>1, <1>2, <1>3 DEF Grows

LEMMA GrowsGet ==
  ASSUME NEW q, QueueInv(q), q.count # 0
  PROVE  Grows(q, AfterGet(q))
<1>1. PICK r : r = AfterGet(q)
  OBVIOUS
<1>2. QueueInv(r) /\ r.curr = q.curr /\ r.next = q.next
  BY <1>1, GetCorrect
<1>3. q.curr \in Nat
  BY DEF QueueInv
<1>4. QED
  BY <1>1, <1>2, <1>3 DEF Grows

-----------------------------------------------------------------------------
(* The pieces of a large cluster, added one after the other.               *)

AddedRound(q, task, f, k) == IF k = 0 THEN q ELSE AfterNew(f[k - 1], Piece(task, k - 1))

Added(q, task) ==
  CHOOSE added : added = [k \in 0 .. NThreads |-> AddedRound(q, task, added, k)]

LEMMA AddedExists ==
  ASSUME NEW q, NEW task
  PROVE  \A m \in Nat : \E f : f = [k \in 0 .. m |-> AddedRound(q, task, f, k)]
<1> DEFINE Has(m) == \E f : f = [k \in 0 .. m |-> AddedRound(q, task, f, k)]
           B == {m \in Nat : ~ Has(m)}
<1>1. SUFFICES ASSUME B # {}
               PROVE  FALSE
  OBVIOUS
<1>2. PICK m \in B : \A k \in B : m <= k
  <2>1. B \in SUBSET Nat
    OBVIOUS
  <2> HIDE DEF B
  <2>2. QED
    BY <1>1, <2>1, SmallestNumber
<1>3. CASE m = 0
  <2> DEFINE f == [k \in 0 .. 0 |-> q]
  <2>1. f = [k \in 0 .. 0 |-> AddedRound(q, task, f, k)]
    BY DEF AddedRound
  <2>2. QED
    BY <1>3, <2>1
<1>4. CASE m # 0
  <2>1. m - 1 \in Nat /\ m \in Nat /\ ~ Has(m)
    BY <1>4
  <2>2. Has(m - 1)
    BY <1>2, <2>1
  <2>3. PICK f : f = [k \in 0 .. (m - 1) |-> AddedRound(q, task, f, k)]
    BY <2>2
  <2> DEFINE g == [k \in 0 .. m |-> IF k = m THEN AddedRound(q, task, f, m) ELSE f[k]]
  <2>4. \A k \in 0 .. m : g[k] = AddedRound(q, task, g, k)
    <3> SUFFICES ASSUME NEW k \in 0 .. m PROVE g[k] = AddedRound(q, task, g, k)
      OBVIOUS
    <3>1. k # 0 => g[k - 1] = f[k - 1]
      BY <2>1
    <3>2. CASE k = m
      BY <1>4, <3>1, <3>2 DEF AddedRound
    <3>3. CASE k # m
      <4>1. k \in 0 .. (m - 1)
        BY <2>1, <3>3
      <4>2. f[k] = AddedRound(q, task, f, k)
        BY <2>3, <4>1
      <4>3. QED
        BY <3>1, <3>3, <4>2 DEF AddedRound
    <3>4. QED
      BY <3>2, <3>3
  <2>5. g = [k \in 0 .. m |-> AddedRound(q, task, g, k)]
    BY <2>4
  <2>6. Has(m)
    <3> HIDE DEF g
    <3>1. QED
      BY <2>5
  <2>7. QED
    BY <2>1, <2>6
<1>5. QED
  BY <1>3, <1>4

LEMMA AddedEquation ==
  ASSUME NEW q, NEW task
  PROVE  LET f == Added(q, task)
         IN  f[0] = q /\ \A k \in 1 .. NThreads : f[k] = AfterNew(f[k - 1], Piece(task, k - 1))
<1> DEFINE f == Added(q, task)
<1>0. NThreads \in Nat \ {0}
  BY RadixJoinAssumption
<1>1. \E g : g = [k \in 0 .. NThreads |-> AddedRound(q, task, g, k)]
  BY <1>0, AddedExists
<1>2. f = [k \in 0 .. NThreads |-> AddedRound(q, task, f, k)]
  BY <1>1 DEF Added
<1> HIDE DEF f
<1>3. \A k \in 0 .. NThreads : f[k] = AddedRound(q, task, f, k)
  BY <1>2
<1>4. f[0] = q
  BY <1>0, <1>3 DEF AddedRound
<1>5. \A k \in 1 .. NThreads : f[k] = AfterNew(f[k - 1], Piece(task, k - 1))
  BY <1>0, <1>3 DEF AddedRound
<1>6. QED
  BY <1>4, <1>5 DEF f

LEMMA AddedCorrect ==
  ASSUME NEW q, QueueInv(q), NEW task
  PROVE  QueueInv(Added(q, task)[NThreads])
<1>1. PICK f : f = Added(q, task)
  OBVIOUS
<1>2. f[0] = q /\ \A k \in 1 .. NThreads : f[k] = AfterNew(f[k - 1], Piece(task, k - 1))
  BY <1>1, AddedEquation
<1>3. NThreads \in Nat \ {0}
  BY RadixJoinAssumption
<1> DEFINE B == {k \in 0 .. NThreads : ~ QueueInv(f[k])}
<1>4. B = {}
  <2> SUFFICES ASSUME B # {} PROVE FALSE
    OBVIOUS
  <2>1. B \in SUBSET Nat
    OBVIOUS
  <2>2. \E m \in B : \A k \in B : m <= k
    <3> HIDE DEF B
    <3>1. QED
      BY <2>1, SmallestNumber
  <2>3. PICK m \in B : \A k \in B : m <= k
    BY <2>2
  <2>4. m # 0
    BY <1>2
  <2>5. m \in 1 .. NThreads /\ m - 1 \in 0 .. NThreads /\ m - 1 < m
    BY <1>3, <2>4
  <2>6. QueueInv(f[m - 1])
    BY <2>3, <2>5
  <2>7. QueueInv(AfterNew(f[m - 1], Piece(task, m - 1)))
    BY <2>6, NewCorrect
  <2>8. QED
    BY <1>2, <2>5, <2>7
<1>5. QED
  BY <1>1, <1>3, <1>4

-----------------------------------------------------------------------------
(* The steps that use a queue.                                             *)

LEMMA CreateTaskKeepsQueues ==
  ASSUME QueuesInv, NEW t \in Threads, CreateTask(t)
  PROVE  QueuesInv'
<1> USE DEF Goto, inputs, pass2
<1>1. (\E l : l # "add" /\ pc' = [pc EXCEPT ![t] = l]) \/ pc' = pc
  BY DEF CreateTask
<1>2. UNCHANGED <<numNuma, slot, joinQueue>>
  BY DEF CreateTask
<1>3. PICK task : \/ partQueue' = partQueue
                  \/ \E node \in Nodes : partQueue' = [partQueue EXCEPT ![node] = AfterNew(@, task)]
  BY DEF CreateTask
<1>4. DOMAIN partQueue' = Nodes /\ \A n \in Nodes : QueueInv(partQueue'[n])
  <2>1. \A n \in Nodes : QueueInv(partQueue[n]) /\ QueueInv(AfterNew(partQueue[n], task))
    BY NewCorrect DEF QueuesInv
  <2>2. DOMAIN partQueue = Nodes
    BY DEF QueuesInv
  <2>3. QED
    BY <1>3, <2>1, <2>2
<1>5. QueueInv(skewQueue')
  <2>1. QueueInv(skewQueue) /\ QueueInv(AfterNew(skewQueue, Pass1Task(t, cur[t])))
    BY NewCorrect DEF QueuesInv
  <2>2. QED
    BY <2>1 DEF CreateTask
<1>6. DOMAIN joinQueue' = Nodes /\ \A n \in Nodes : Grows(joinQueue[n], joinQueue'[n])
  BY <1>2, GrowsSame DEF QueuesInv
<1>7. QED
  BY <1>1, <1>2, <1>4, <1>5, <1>6, QueuesGrow

LEMMA TakePartTaskKeepsQueues ==
  ASSUME QueuesInv, NEW t \in Threads, TakePartTask(t)
  PROVE  QueuesInv'
<1> USE DEF Goto, inputs, skewVars
<1>1. PICK n \in Nodes : n = NumaId(t)
  BY NumaIdType DEF QueuesInv
<1>2. /\ pc' = [pc EXCEPT ![t] = "cluster"]
      /\ UNCHANGED <<numNuma, slot, joinQueue, skewQueue>>
      /\ partQueue[n].count > 0
      /\ partQueue' = [partQueue EXCEPT ![n] = AfterGet(partQueue[n])]
  BY <1>1 DEF TakePartTask
<1>3. QueueInv(AfterGet(partQueue[n]))
  BY <1>2, GetCorrect DEF QueuesInv
<1>4. DOMAIN partQueue' = Nodes /\ \A m \in Nodes : QueueInv(partQueue'[m])
  BY <1>2, <1>3 DEF QueuesInv
<1>5. DOMAIN joinQueue' = Nodes /\ \A m \in Nodes : Grows(joinQueue[m], joinQueue'[m])
  BY <1>2, GrowsSame DEF QueuesInv
<1>6. QueueInv(skewQueue')
  BY <1>2 DEF QueuesInv
<1>7. QED
  BY <1>2, <1>4, <1>5, <1>6, QueuesGrow

LEMMA GetJoinSlotKeepsQueues ==
  ASSUME QueuesInv, NEW t \in Threads, GetJoinSlot(t)
  PROVE  QueuesInv'
<1> USE DEF Goto, inputs, skewVars
<1>1. PICK n \in Nodes : n = NumaId(t)
  BY NumaIdType DEF QueuesInv
<1>2. PICK q, r : q = joinQueue[n] /\ r = AfterGetSlot(q)
  OBVIOUS
<1>3. /\ pc' = [pc EXCEPT ![t] = "add"] /\ slot' = [slot EXCEPT ![t] = FreeSlot(q)]
      /\ joinQueue' = [joinQueue EXCEPT ![n] = r]
      /\ UNCHANGED <<numNuma, partQueue, skewQueue>>
  BY <1>1, <1>2 DEF GetJoinSlot
<1>4. Nodes' = Nodes /\ \A u \in Threads : NumaId(u)' = NumaId(u) /\ NumaId(u) \in Nodes
  <2>1. Nodes' = Nodes /\ \A u \in Threads : NumaId(u)' = NumaId(u)
    BY <1>3 DEF Nodes, NumaId
  <2>2. QED
    BY <2>1, NumaIdType DEF QueuesInv
<1>5. QueueInv(q) /\ q.curr \in Nat /\ DOMAIN q.next \subseteq 1 .. q.curr
  BY <1>2 DEF QueuesInv, QueueInv
<1>6. /\ QueueInv(r) /\ r.curr = q.curr + 1 /\ r.next = q.next
      /\ FreeSlot(q) \in 1 .. r.curr /\ FreeSlot(q) \notin 1 .. q.curr
  BY <1>2, <1>5, GetSlotCorrect
<1>7. joinQueue'[n] = r /\ \A m \in Nodes : m # n => joinQueue'[m] = joinQueue[m]
  BY <1>3 DEF QueuesInv
<1>8. \A m \in Nodes : QueueInv(joinQueue'[m])
  BY <1>6, <1>7 DEF QueuesInv
<1>9. ASSUME NEW u \in Threads, pc'[u] = "add"
      PROVE  SlotHeld(u)'
  <2>1. CASE u = t
    <3>1. slot'[u] = FreeSlot(q)
      BY <1>3, <2>1 DEF QueuesInv
    <3>2. NumaId(u)' = n /\ joinQueue'[n] = r
      BY <1>1, <1>4, <1>7, <2>1
    <3>3. QED
      BY <1>5, <1>6, <3>1, <3>2 DEF SlotHeld
  <2>2. CASE u # t
    <3>1. pc[u] = "add" /\ slot'[u] = slot[u]
      BY <1>3, <1>9, <2>2 DEF QueuesInv
    <3>2. SlotHeld(u)
      BY <3>1 DEF QueuesInv
    <3>3. PICK m \in Nodes : m = NumaId(u) /\ m = NumaId(u)'
      BY <1>4
    <3>4. CASE m = n
      <4>1. slot[u] \in 1 .. q.curr /\ slot[u] \notin DOMAIN q.next
        BY <1>2, <3>2, <3>3, <3>4 DEF SlotHeld
      <4>2. slot[u] \in 1 .. r.curr /\ slot[u] \notin DOMAIN r.next
        BY <1>5, <1>6, <4>1
      <4>3. QED
        BY <1>7, <3>1, <3>3, <3>4, <4>2 DEF SlotHeld
    <3>5. CASE m # n
      BY <1>7, <3>1, <3>2, <3>3, <3>5 DEF SlotHeld
    <3>6. QED
      BY <3>4, <3>5
  <2>3. QED
    BY <2>1, <2>2
<1>10. ASSUME NEW u \in Threads, NEW v \in Threads, pc'[u] = "add", pc'[v] = "add",
              NumaId(u)' = NumaId(v)', u # v
       PROVE  slot'[u] # slot'[v]
  <2>1. \A w \in Threads : w # t /\ pc'[w] = "add" => pc[w] = "add" /\ slot'[w] = slot[w]
    BY <1>3 DEF QueuesInv
  <2>2. \A w \in Threads : w # t /\ pc'[w] = "add" /\ NumaId(w)' = n => slot'[w] \in 1 .. q.curr
    BY <1>2, <1>4, <2>1 DEF QueuesInv, SlotHeld
  <2>3. slot'[t] = FreeSlot(q) /\ NumaId(t)' = n
    BY <1>1, <1>3, <1>4 DEF QueuesInv
  <2>4. CASE u # t /\ v # t
    BY <1>4, <1>10, <2>1, <2>4 DEF QueuesInv
  <2>5. CASE u = t
    BY <1>6, <1>10, <2>2, <2>3, <2>5
  <2>6. CASE v = t
    BY <1>6, <1>10, <2>2, <2>3, <2>6
  <2>7. QED
    BY <2>4, <2>5, <2>6
<1>11. DOMAIN pc' = Threads /\ DOMAIN slot' = Threads /\ DOMAIN joinQueue' = Nodes
  BY <1>3 DEF QueuesInv
<1>12. QED
  BY <1>3, <1>4, <1>8, <1>9, <1>10, <1>11 DEF QueuesInv

(* The slot that a thread holds is in nobody else's hands: it is linked,   *)
(* and the slots that the others hold are still not.                       *)
LEMMA AddJoinTaskKeepsQueues ==
  ASSUME QueuesInv, NEW t \in Threads, AddJoinTask(t)
  PROVE  QueuesInv'
<1> USE DEF Goto, inputs, skewVars
<1>1. PICK n \in Nodes : n = NumaId(t)
  BY NumaIdType DEF QueuesInv
<1>2. PICK task, s, q, r : /\ task = Pass2Task(t, cur[t]) /\ s = slot[t]
                           /\ q = joinQueue[n] /\ r = AfterAdd(q, s, task)
  OBVIOUS
<1>3. /\ pc[t] = "add" /\ pc' = [pc EXCEPT ![t] = "emit"]
      /\ joinQueue' = [joinQueue EXCEPT ![n] = r]
      /\ UNCHANGED <<numNuma, slot, partQueue, skewQueue>>
  BY <1>1, <1>2 DEF AddJoinTask
<1>4. Nodes' = Nodes /\ \A u \in Threads : NumaId(u)' = NumaId(u) /\ NumaId(u) \in Nodes
  <2>1. Nodes' = Nodes /\ \A u \in Threads : NumaId(u)' = NumaId(u)
    BY <1>3 DEF Nodes, NumaId
  <2>2. QED
    BY <2>1, NumaIdType DEF QueuesInv
<1>5. QueueInv(q) /\ s \in 1 .. q.curr /\ s \notin DOMAIN q.next
  BY <1>1, <1>2, <1>3 DEF QueuesInv, SlotHeld
<1>6. QueueInv(r) /\ r.curr = q.curr /\ DOMAIN r.next = DOMAIN q.next \cup {s}
  BY <1>2, <1>5, AddCorrect
<1>7. joinQueue'[n] = r /\ \A m \in Nodes : m # n => joinQueue'[m] = joinQueue[m]
  BY <1>3 DEF QueuesInv
<1>8. \A m \in Nodes : QueueInv(joinQueue'[m])
  BY <1>6, <1>7 DEF QueuesInv
<1>9. \A u \in Threads : pc'[u] = "add" => u # t /\ pc[u] = "add"
  BY <1>3 DEF QueuesInv
<1>10. ASSUME NEW u \in Threads, pc'[u] = "add"
       PROVE  SlotHeld(u)'
  <2>1. u # t /\ pc[u] = "add" /\ SlotHeld(u)
    BY <1>9, <1>10 DEF QueuesInv
  <2>2. PICK m \in Nodes : m = NumaId(u) /\ m = NumaId(u)'
    BY <1>4
  <2>3. CASE m = n
    <3>1. slot[u] \in 1 .. q.curr /\ slot[u] \notin DOMAIN q.next
      BY <1>2, <2>1, <2>2, <2>3 DEF SlotHeld
    <3>2. slot[u] # s
      BY <1>1, <1>2, <1>3, <2>1, <2>2, <2>3 DEF QueuesInv
    <3>3. slot[u] \in 1 .. r.curr /\ slot[u] \notin DOMAIN r.next
      BY <1>6, <3>1, <3>2
    <3>4. QED
      BY <1>3, <1>7, <2>2, <2>3, <3>3 DEF SlotHeld
  <2>4. CASE m # n
    BY <1>3, <1>7, <2>1, <2>2, <2>4 DEF SlotHeld
  <2>5. QED
    BY <2>3, <2>4
<1>11. \A u, v \in Threads :
         pc'[u] = "add" /\ pc'[v] = "add" /\ NumaId(u)' = NumaId(v)' /\ u # v => slot'[u] # slot'[v]
  BY <1>3, <1>4, <1>9 DEF QueuesInv
<1>12. DOMAIN pc' = Threads /\ DOMAIN slot' = Threads /\ DOMAIN joinQueue' = Nodes
  BY <1>3 DEF QueuesInv
<1>13. QED
  BY <1>3, <1>4, <1>8, <1>10, <1>11, <1>12 DEF QueuesInv

LEMMA NextSkewTaskKeepsQueues ==
  ASSUME QueuesInv, NEW t \in Threads, NextSkewTask(t)
  PROVE  QueuesInv'
<1> USE DEF Goto, inputs, pass2, skewVars
<1>1. pc' = [pc EXCEPT ![t] = "wait_skew"] /\ UNCHANGED <<numNuma, slot, partQueue, joinQueue>>
  BY DEF NextSkewTask
<1>2. skewQueue' = skewQueue \/ (skewQueue.count # 0 /\ skewQueue' = AfterGet(skewQueue))
  BY DEF NextSkewTask
<1>3. QueueInv(skewQueue')
  BY <1>2, GetCorrect DEF QueuesInv
<1>4. /\ DOMAIN partQueue' = Nodes /\ DOMAIN joinQueue' = Nodes
      /\ \A n \in Nodes : QueueInv(partQueue'[n]) /\ Grows(joinQueue[n], joinQueue'[n])
  BY <1>1, GrowsSame DEF QueuesInv
<1>5. QED
  BY <1>1, <1>3, <1>4, QueuesGrow

LEMMA CreateJoinTaskKeepsQueues ==
  ASSUME QueuesInv, NEW t \in Threads, CreateJoinTask(t)
  PROVE  QueuesInv'
<1> USE DEF Goto, inputs, pass2, skewVars
<1>1. PICK n \in Nodes : n = NumaId(t)
  BY NumaIdType DEF QueuesInv
<1>2. PICK task : task = SkewJoinTask(t, cur[t])
  OBVIOUS
<1>3. UNCHANGED <<pc, numNuma, slot, skewQueue>>
  BY DEF CreateJoinTask
<1>4. \/ /\ partQueue' = [partQueue EXCEPT ![n] = Added(partQueue[n], task)[NThreads]]
         /\ joinQueue' = joinQueue
      \/ /\ joinQueue' = [joinQueue EXCEPT ![n] = AfterNew(joinQueue[n], task)]
         /\ partQueue' = partQueue
      \/ joinQueue' = joinQueue /\ partQueue' = partQueue
  BY <1>1, <1>2 DEF CreateJoinTask, Added, AddedRound
<1>5. /\ QueueInv(partQueue[n]) /\ QueueInv(joinQueue[n])
      /\ DOMAIN partQueue = Nodes /\ DOMAIN joinQueue = Nodes
  BY DEF QueuesInv
<1>6. DOMAIN partQueue' = Nodes /\ \A m \in Nodes : QueueInv(partQueue'[m])
  <2>1. QueueInv(Added(partQueue[n], task)[NThreads])
    BY <1>5, AddedCorrect
  <2>2. QED
    BY <1>4, <1>5, <2>1 DEF QueuesInv
<1>7. DOMAIN joinQueue' = Nodes /\ \A m \in Nodes : Grows(joinQueue[m], joinQueue'[m])
  <2>1. Grows(joinQueue[n], AfterNew(joinQueue[n], task))
    BY <1>5, GrowsNew
  <2>2. \A m \in Nodes : Grows(joinQueue[m], joinQueue[m])
    BY GrowsSame DEF QueuesInv
  <2>3. QED
    BY <1>4, <1>5, <2>1, <2>2
<1>8. QED
  BY <1>3, <1>6, <1>7, QueuesGrow DEF QueuesInv

LEMMA MoveLargeTaskKeepsQueues ==
  ASSUME QueuesInv, NEW t \in Threads, MoveLargeTask(t)
  PROVE  QueuesInv'
<1> USE DEF Goto, inputs, pass2, skewVars
<1>1. PICK n \in Nodes : n = NumaId(t)
  BY NumaIdType DEF QueuesInv
<1>2. PICK task : task = partQueue[n].task[partQueue[n].head]
  OBVIOUS
<1>3. /\ UNCHANGED <<pc, numNuma, slot, skewQueue>>
      /\ partQueue[n].count > 0
      /\ partQueue' = [partQueue EXCEPT ![n] = AfterGet(partQueue[n])]
      /\ joinQueue' = [joinQueue EXCEPT ![n] = AfterNew(joinQueue[n], task)]
  BY <1>1, <1>2 DEF MoveLargeTask
<1>4. QueueInv(AfterGet(partQueue[n])) /\ Grows(joinQueue[n], AfterNew(joinQueue[n], task))
  BY <1>3, GetCorrect, GrowsNew DEF QueuesInv
<1>5. DOMAIN partQueue' = Nodes /\ \A m \in Nodes : QueueInv(partQueue'[m])
  BY <1>3, <1>4 DEF QueuesInv
<1>6. \A m \in Nodes : Grows(joinQueue[m], joinQueue[m])
  BY GrowsSame DEF QueuesInv
<1>7. DOMAIN joinQueue' = Nodes /\ \A m \in Nodes : Grows(joinQueue[m], joinQueue'[m])
  BY <1>3, <1>4, <1>6 DEF QueuesInv
<1>8. QED
  BY <1>3, <1>5, <1>7, QueuesGrow DEF QueuesInv

LEMMA TakeJoinTaskKeepsQueues ==
  ASSUME QueuesInv, NEW t \in Threads, TakeJoinTask(t)
  PROVE  QueuesInv'
<1> USE DEF Goto, inputs, skewVars
<1>1. PICK n \in Nodes : n = NumaId(t)
  BY NumaIdType DEF QueuesInv
<1>2. /\ pc' = [pc EXCEPT ![t] = "join"] /\ UNCHANGED <<numNuma, slot, partQueue, skewQueue>>
      /\ joinQueue[n].count > 0
      /\ joinQueue' = [joinQueue EXCEPT ![n] = AfterGet(joinQueue[n])]
  BY <1>1 DEF TakeJoinTask
<1>3. Grows(joinQueue[n], AfterGet(joinQueue[n]))
  BY <1>2, GrowsGet DEF QueuesInv
<1>4. \A m \in Nodes : Grows(joinQueue[m], joinQueue[m])
  BY GrowsSame DEF QueuesInv
<1>5. DOMAIN joinQueue' = Nodes /\ \A m \in Nodes : Grows(joinQueue[m], joinQueue'[m])
  BY <1>2, <1>3, <1>4 DEF QueuesInv
<1>6. DOMAIN partQueue' = Nodes /\ \A m \in Nodes : QueueInv(partQueue'[m])
  BY <1>2 DEF QueuesInv
<1>7. QED
  BY <1>2, <1>5, <1>6, QueuesGrow DEF QueuesInv

-----------------------------------------------------------------------------

LEMMA QueuesInvInit == Init => QueuesInv
<1> SUFFICES ASSUME Init PROVE QueuesInv
  OBVIOUS
<1>1. numNuma \in Nat \ {0}
  BY RadixJoinAssumption DEF Init
<1>2. QueueInv(EmptyQueue)
  BY EmptyQueueCorrect
<1>3. /\ partQueue = [n \in Nodes |-> EmptyQueue] /\ joinQueue = [n \in Nodes |-> EmptyQueue]
      /\ skewQueue = EmptyQueue /\ pc = [t \in Threads |-> "unborn"]
      /\ slot = [t \in Threads |-> NULL]
  BY DEF Init
<1>4. QED
  BY <1>1, <1>2, <1>3 DEF QueuesInv

LEMMA QueuesInvStep == QueuesInv /\ [Next]_vars => QueuesInv'
<1> USE DEF Goto, inputs, mainVars, pass1, pass2, queues, skewVars
<1> SUFFICES ASSUME QueuesInv, [Next]_vars PROVE QueuesInv'
  OBVIOUS
<1> DEFINE Elsewhere(t) == /\ (\E l : l # "add" /\ pc' = [pc EXCEPT ![t] = l]) \/ pc' = pc
                           /\ UNCHANGED <<numNuma, slot, partQueue, joinQueue, skewQueue>>
<1>1. ASSUME NEW t, Elsewhere(t)
      PROVE  QueuesInv'
  <2>1. QED
    BY <1>1, QueuesUntouched
<1>3. CASE UNCHANGED vars
  BY <1>1, <1>3 DEF vars
<1>4. CASE Finished
  BY <1>1, <1>4 DEF Finished, vars
<1>5. CASE Main
  <2>1. CASE Spawn
    BY <1>1, <2>1 DEF Spawn
  <2>2. CASE Join
    BY <1>1, <2>2 DEF Join
  <2>3. CASE RadixCluster
    BY <1>1, <2>3 DEF RadixCluster
  <2>4. CASE JoinCluster
    BY <1>1, <2>4 DEF JoinCluster
  <2>5. CASE Return
    BY <1>1, <2>5 DEF Return
  <2>6. QED
    BY <1>5, <2>1, <2>2, <2>3, <2>4, <2>5 DEF Main
<1>6. ASSUME NEW t \in Threads, Thread(t)
      PROVE  QueuesInv'
  <2>1. CASE Start(t)
    BY <1>1, <2>1 DEF Start
  <2>2. CASE Pass1(t)
    <3>1. Elsewhere(t)
      BY <2>2 DEF Pass1, BeginPass1, Count, BeginScatter, Scatter, EndScatterR, EndScatterS
    <3>2. QED
      BY <1>1, <3>1
  <2>3. CASE Tasks(t)
    <3>1. CASE BeginTasks(t)
      BY <1>1, <3>1 DEF BeginTasks
    <3>2. CASE CreateTask(t)
      BY <3>2, CreateTaskKeepsQueues
    <3>3. CASE EndTasks(t)
      BY <1>1, <3>3 DEF EndTasks
    <3>4. QED
      BY <2>3, <3>1, <3>2, <3>3 DEF Tasks
  <2>4. CASE Pass2(t)
    <3>1. CASE BeginPass2(t)
      BY <1>1, <3>1 DEF BeginPass2
    <3>2. CASE TakePartTask(t)
      BY <3>2, TakePartTaskKeepsQueues
    <3>3. CASE ClusterRelation(t)
      BY <1>1, <3>3 DEF ClusterRelation
    <3>4. CASE GetJoinSlot(t)
      BY <3>4, GetJoinSlotKeepsQueues
    <3>5. CASE AddJoinTask(t)
      BY <3>5, AddJoinTaskKeepsQueues
    <3>6. CASE SkipCluster(t)
      BY <1>1, <3>6 DEF SkipCluster
    <3>7. CASE EndPartTask(t)
      BY <1>1, <3>7 DEF EndPartTask
    <3>8. CASE EndPass2(t)
      BY <1>1, <3>8 DEF EndPass2
    <3>9. QED
      BY <2>4, <3>1, <3>2, <3>3, <3>4, <3>5, <3>6, <3>7, <3>8 DEF Pass2
  <2>5. CASE Skew(t)
    <3>1. CASE NextSkewTask(t)
      BY <3>1, NextSkewTaskKeepsQueues
    <3>2. CASE SeeSkewTask(t) \/ AllocateAgain(t) \/ PartitionAgain(t)
      <4>1. Elsewhere(t)
        BY <3>2 DEF SeeSkewTask, AllocateAgain, PartitionAgain
      <4>2. QED
        BY <1>1, <4>1
    <3>3. CASE BeginJoinTasks(t) \/ EndJoinTasks(t) \/ EndSkew(t)
      <4>1. Elsewhere(t)
        BY <3>3 DEF BeginJoinTasks, EndJoinTasks, EndSkew
      <4>2. QED
        BY <1>1, <4>1
    <3>4. CASE CreateJoinTask(t)
      BY <3>4, CreateJoinTaskKeepsQueues
    <3>5. CASE MoveLargeTask(t)
      BY <3>5, MoveLargeTaskKeepsQueues
    <3>6. QED
      BY <2>5, <3>1, <3>2, <3>3, <3>4, <3>5 DEF Skew
  <2>6. CASE Joins(t)
    <3>1. CASE TakeJoinTask(t)
      BY <3>1, TakeJoinTaskKeepsQueues
    <3>2. CASE RunJoin(t)
      BY <1>1, <3>2 DEF RunJoin
    <3>3. CASE BeginJoin(t) \/ EndJoin(t) \/ Exit(t)
      <4>1. Elsewhere(t)
        BY <3>3 DEF BeginJoin, EndJoin, Exit
      <4>2. QED
        BY <1>1, <4>1
    <3>4. QED
      BY <2>6, <3>1, <3>2, <3>3 DEF Joins
  <2>7. QED
    BY <1>6, <2>1, <2>2, <2>3, <2>4, <2>5, <2>6 DEF Thread
<1>7. QED
  BY <1>3, <1>4, <1>5, <1>6 DEF Next

(* The count by which a thread decides that a queue is empty is the number *)
(* of tasks that wait in it, in every one of the task queues, however the  *)
(* threads of a node take their turns at handing out slots, linking them   *)
(* and taking tasks.                                                       *)
THEOREM QueuesCountedCorrect == Spec => []QueuesCounted
<1>1. Init => QueuesInv
  BY QueuesInvInit
<1>2. QueuesInv /\ [Next]_vars => QueuesInv'
  BY QueuesInvStep
<1>3. QueuesInv => QueuesCounted
  BY DEF QueuesInv, QueuesCounted, QueueInv
<1>4. QED
  BY <1>1, <1>2, <1>3, PTL DEF Spec

-----------------------------------------------------------------------------
(* Placement by histograms.  The places of a cluster are given out in the  *)
(* order of the positions; the next one, for position p, is Next.          *)

Earlier(digit, P, c, p) == {q \in P : q < p /\ digit[q] = c}
Before(digit, P, c, p) == Below(digit, P, c) + Cardinality(Earlier(digit, P, c, p))

LEMMA BelowFacts ==
  ASSUME NEW P \in SUBSET Int, IsFiniteSet(P), NEW F \in Nat, NEW digit,
         \A p \in P : digit[p] \in 0 .. (F - 1)
  PROVE  /\ \A c \in Nat : Below(digit, P, c) \in Nat
         /\ \A c \in Nat : Below(digit, P, c + 1)
                             = Below(digit, P, c) + Cardinality({p \in P : digit[p] = c})
         /\ \A c, d \in Nat : c <= d => Below(digit, P, c) <= Below(digit, P, d)
         /\ Below(digit, P, 0) = 0 /\ Below(digit, P, F) = Cardinality(P)
<1> DEFINE Smaller(c) == {p \in P : digit[p] < c}
           Of(c) == {p \in P : digit[p] = c}
<1>0. \A p \in P : digit[p] \in Int /\ 0 <= digit[p] /\ digit[p] < F
  OBVIOUS
<1>1. \A c : IsFiniteSet(Smaller(c)) /\ IsFiniteSet(Of(c)) /\ Below(digit, P, c) = Cardinality(Smaller(c))
  <2>1. ASSUME NEW c PROVE IsFiniteSet(Smaller(c)) /\ IsFiniteSet(Of(c))
    <3>1. Smaller(c) \in SUBSET P /\ Of(c) \in SUBSET P
      OBVIOUS
    <3>2. QED
      BY <3>1, FS_Subset
  <2>2. QED
    BY <2>1 DEF Below
<1>2. \A c \in Nat : Below(digit, P, c) \in Nat
  BY <1>1, FS_CardinalityType
<1>3. ASSUME NEW c \in Nat
      PROVE  Below(digit, P, c + 1) = Below(digit, P, c) + Cardinality(Of(c))
  <2>1. Smaller(c + 1) = Smaller(c) \cup Of(c) /\ Smaller(c) \cap Of(c) = {}
    <3>1. \A p \in P : /\ digit[p] < c + 1 <=> digit[p] < c \/ digit[p] = c
                       /\ ~ (digit[p] < c /\ digit[p] = c)
      BY <1>0
    <3>2. QED
      BY <3>1
  <2>2. PICK a, b : a = Smaller(c) /\ b = Of(c)
    OBVIOUS
  <2>3. Cardinality(a \cup b) = Cardinality(a) + Cardinality(b)
    BY <1>1, <2>1, <2>2, DisjointSizes
  <2>4. QED
    BY <1>1, <2>1, <2>2, <2>3
<1>4. ASSUME NEW c \in Nat, NEW d \in Nat, c <= d
      PROVE  Below(digit, P, c) <= Below(digit, P, d)
  <2>1. Smaller(c) \in SUBSET Smaller(d)
    <3>1. \A p \in P : digit[p] < c => digit[p] < d
      BY <1>0, <1>4
    <3>2. QED
      BY <3>1
  <2>2. PICK a, b : a = Smaller(c) /\ b = Smaller(d)
    OBVIOUS
  <2>3. Cardinality(a) <= Cardinality(b)
    BY <1>1, <2>1, <2>2, FS_Subset
  <2>4. QED
    BY <1>1, <2>2, <2>3
<1>5. Smaller(0) = {} /\ Smaller(F) = P
  <2>1. \A p \in P : digit[p] < F /\ ~ (digit[p] < 0)
    BY <1>0
  <2>2. QED
    BY <2>1
<1>6. QED
  BY <1>1, <1>2, <1>3, <1>4, <1>5, FS_EmptySet

(* Going past a position gives out a place of its digit and no other. *)
LEMMA BeforeNext ==
  ASSUME NEW P \in SUBSET Int, IsFiniteSet(P), NEW F \in Nat, NEW digit,
         \A p \in P : digit[p] \in 0 .. (F - 1),
         NEW c \in Nat, NEW p \in P
  PROVE  /\ Before(digit, P, c, p) \in Nat /\ Before(digit, P, c, p + 1) \in Nat
         /\ Before(digit, P, c, p + 1)
              = IF digit[p] = c THEN Before(digit, P, c, p) + 1 ELSE Before(digit, P, c, p)
<1>1. \A q \in Int : Earlier(digit, P, c, q) \in SUBSET P
  BY DEF Earlier
<1>2. \A q \in Int : IsFiniteSet(Earlier(digit, P, c, q)) /\ Cardinality(Earlier(digit, P, c, q)) \in Nat
  BY <1>1, FS_Subset, FS_CardinalityType
<1>3. Below(digit, P, c) \in Nat
  BY BelowFacts
<1>4. Earlier(digit, P, c, p + 1)
        = IF digit[p] = c THEN Earlier(digit, P, c, p) \cup {p} ELSE Earlier(digit, P, c, p)
  <2>1. \A q \in P : q < p + 1 <=> q < p \/ q = p
    OBVIOUS
  <2>2. QED
    BY <2>1 DEF Earlier
<1>5. p \notin Earlier(digit, P, c, p)
  BY DEF Earlier
<1>6. PICK a : a = Earlier(digit, P, c, p)
  OBVIOUS
<1>7. IsFiniteSet(a) /\ p \notin a
  BY <1>2, <1>5, <1>6
<1>8. Cardinality(a \cup {p}) = Cardinality(a) + 1
  BY <1>7, FS_AddElement
<1>9. QED
  BY <1>2, <1>3, <1>4, <1>6, <1>8 DEF Before

(* At the first position nothing of a cluster has been given out, behind   *)
(* the last one all of it.                                                 *)
LEMMA BeforeEnds ==
  ASSUME NEW P \in SUBSET Int, IsFiniteSet(P), NEW F \in Nat, NEW digit,
         \A p \in P : digit[p] \in 0 .. (F - 1),
         NEW c \in Nat, NEW p \in Int, \A q \in P : q >= p
  PROVE  Before(digit, P, c, p) = Below(digit, P, c)
<1>1. Earlier(digit, P, c, p) = {}
  <2>1. \A q \in P : ~ (q < p)
    OBVIOUS
  <2>2. QED
    BY <2>1 DEF Earlier
<1>2. Below(digit, P, c) \in Nat
  BY BelowFacts
<1>3. QED
  BY <1>1, <1>2, FS_EmptySet DEF Before

(* Each tuple has a place in the cluster of its digit, no two the same.    *)
LEMMA PlaceInCluster ==
  ASSUME NEW P \in SUBSET Int, IsFiniteSet(P), NEW F \in Nat, NEW digit,
         \A p \in P : digit[p] \in 0 .. (F - 1), NEW p \in P
  PROVE  /\ Place(digit, P, 0, p) = Before(digit, P, digit[p], p)
         /\ Place(digit, P, 0, p) \in Nat
         /\ Below(digit, P, digit[p]) <= Place(digit, P, 0, p)
         /\ Place(digit, P, 0, p) < Below(digit, P, digit[p] + 1)
         /\ Place(digit, P, 0, p) < Cardinality(P)
<1> DEFINE c == digit[p]
           Of == {q \in P : digit[q] = c}
           a == Earlier(digit, P, c, p)
<1>1. c \in Nat /\ c + 1 <= F
  OBVIOUS
<1>2. /\ Below(digit, P, c) \in Nat /\ Below(digit, P, c + 1) = Below(digit, P, c) + Cardinality(Of)
      /\ Below(digit, P, c + 1) <= Cardinality(P)
  BY <1>1, BelowFacts
<1>3. Of \in SUBSET P /\ a \in SUBSET Of /\ p \in Of /\ p \notin a
  BY DEF Earlier
<1>4. Place(digit, P, 0, p) = Below(digit, P, c) + Cardinality(a)
  <2>1. c * 0 = 0
    BY <1>1
  <2>2. IsFiniteSet(a) /\ Cardinality(a) \in Nat
    BY <1>3, FS_Subset, FS_CardinalityType
  <2>3. QED
    BY <1>2, <2>1, <2>2 DEF Place, Earlier
<1> HIDE DEF Of, a, c
<1>5. IsFiniteSet(Of)
  BY <1>3, FS_Subset
<1>6. IsFiniteSet(a) /\ Cardinality(a) \in Nat /\ Cardinality(Of) \in Nat
  BY <1>3, <1>5, FS_Subset, FS_CardinalityType
<1>7. Cardinality(a) < Cardinality(Of)
  <2>1. a \cup {p} \in SUBSET Of
    BY <1>3
  <2>2. Cardinality(a \cup {p}) = Cardinality(a) + 1
    BY <1>3, <1>6, FS_AddElement
  <2>3. Cardinality(a \cup {p}) <= Cardinality(Of)
    BY <1>5, <2>1, FS_Subset
  <2>4. QED
    BY <1>6, <2>2, <2>3
<1>8. Cardinality(P) \in Nat
  BY FS_CardinalityType
<1> USE DEF a, c
<1>9. QED
  BY <1>1, <1>2, <1>4, <1>6, <1>7, <1>8 DEF Before

LEMMA PlacesDiffer ==
  ASSUME NEW P \in SUBSET Int, IsFiniteSet(P), NEW F \in Nat, NEW digit,
         \A p \in P : digit[p] \in 0 .. (F - 1), NEW p \in P, NEW q \in P, p # q
  PROVE  Place(digit, P, 0, p) # Place(digit, P, 0, q)
<1>1. ASSUME NEW i \in P, NEW j \in P, digit[i] < digit[j]
      PROVE  Place(digit, P, 0, i) # Place(digit, P, 0, j)
  <2>1. PICK c, d \in Nat : c = digit[i] /\ d = digit[j]
    OBVIOUS
  <2>2. c + 1 \in Nat /\ c + 1 <= d
    BY <1>1, <2>1
  <2>3. Below(digit, P, c + 1) <= Below(digit, P, d) /\ Below(digit, P, c + 1) \in Nat /\ Below(digit, P, d) \in Nat
    BY <2>2, BelowFacts
  <2>4. Place(digit, P, 0, i) < Below(digit, P, c + 1) /\ Below(digit, P, d) <= Place(digit, P, 0, j)
    BY <2>1, PlaceInCluster
  <2>5. Place(digit, P, 0, i) \in Nat /\ Place(digit, P, 0, j) \in Nat
    BY PlaceInCluster
  <2>6. QED
    BY <2>3, <2>4, <2>5
<1>2. ASSUME NEW i \in P, NEW j \in P, digit[i] = digit[j], i < j
      PROVE  Place(digit, P, 0, i) # Place(digit, P, 0, j)
  <2> DEFINE c == digit[i]
             a == Earlier(digit, P, c, i)
             b == Earlier(digit, P, c, j)
  <2>1. a \in SUBSET P /\ b \in SUBSET P /\ i \notin a /\ a \cup {i} \in SUBSET b
    <3>1. \A r \in P : r < i => r < j
      BY <1>2
    <3>2. i \in Int /\ ~ (i < i) /\ i < j
      BY <1>2
    <3>3. QED
      BY <1>2, <3>1, <3>2 DEF Earlier
  <2>2. Place(digit, P, 0, i) = Below(digit, P, c) + Cardinality(a)
        /\ Place(digit, P, 0, j) = Below(digit, P, c) + Cardinality(b)
    BY <1>2, PlaceInCluster DEF Before
  <2>3. c \in Nat
    OBVIOUS
  <2>4. Below(digit, P, c) \in Nat
    BY <2>3, BelowFacts
  <2> HIDE DEF a, b, c
  <2>5. IsFiniteSet(a) /\ IsFiniteSet(b) /\ Cardinality(a) \in Nat /\ Cardinality(b) \in Nat
    BY <2>1, FS_Subset, FS_CardinalityType
  <2>6. Cardinality(a \cup {i}) = Cardinality(a) + 1
    BY <2>1, <2>5, FS_AddElement
  <2>7. Cardinality(a \cup {i}) <= Cardinality(b)
    BY <2>1, <2>5, FS_Subset
  <2>8. QED
    BY <2>2, <2>4, <2>5, <2>6, <2>7
<1>3. digit[p] \in Int /\ digit[q] \in Int /\ p \in Int /\ q \in Int
  OBVIOUS
<1>4. digit[p] < digit[q] \/ digit[q] < digit[p] \/ (digit[p] = digit[q] /\ (p < q \/ q < p))
  BY <1>3
<1>5. QED
  BY <1>1, <1>2, <1>4

(* Every place of a cluster is given to a tuple of its digit. *)
LEMMA PlacesCover ==
  ASSUME NEW P \in SUBSET Int, IsFiniteSet(P), NEW F \in Nat, NEW digit,
         \A p \in P : digit[p] \in 0 .. (F - 1), NEW k \in 0 .. (Cardinality(P) - 1)
  PROVE  \E p \in P : Place(digit, P, 0, p) = k
<1> DEFINE T == 0 .. (Cardinality(P) - 1)
           f == [p \in P |-> Place(digit, P, 0, p)]
<1>1. Cardinality(P) \in Nat
  BY FS_CardinalityType
<1>2. \A p \in P : Place(digit, P, 0, p) \in T
  <2>1. ASSUME NEW p \in P
        PROVE  Place(digit, P, 0, p) \in T
    <3>1. Place(digit, P, 0, p) \in Nat /\ Place(digit, P, 0, p) < Cardinality(P)
      BY PlaceInCluster
    <3>2. QED
      BY <1>1, <3>1
  <2>2. QED
    BY <2>1
<1>3. \A p, q \in P : f[p] = f[q] => p = q
  BY PlacesDiffer
<1>4. f \in Injection(P, T)
  <2>1. f \in [P -> T]
    BY <1>2
  <2> HIDE DEF f, T
  <2>2. QED
    BY <2>1, <1>3 DEF Injection, IsInjective
<1>5. IsFiniteSet(T) /\ Cardinality(T) = Cardinality(P)
  BY <1>1, FS_Interval
<1>6. f \in Surjection(P, T)
  <2> HIDE DEF f, T
  <2>1. QED
    BY <1>4, <1>5, FS_Injection
<1>7. \A j \in T : \E p \in P : f[p] = j
  <2> HIDE DEF f, T
  <2>1. QED
    BY <1>6 DEF Surjection
<1>8. QED
  BY <1>7

LEMMA ClusterCovered ==
  ASSUME NEW P \in SUBSET Int, IsFiniteSet(P), NEW F \in Nat, NEW digit,
         \A p \in P : digit[p] \in 0 .. (F - 1), NEW c \in 0 .. (F - 1),
         NEW k \in Below(digit, P, c) .. (Below(digit, P, c + 1) - 1)
  PROVE  \E p \in P : Place(digit, P, 0, p) = k /\ digit[p] = c
<1>1. c \in Nat /\ c + 1 \in Nat /\ c + 1 <= F /\ F \in Nat
  OBVIOUS
<1>2. /\ Below(digit, P, c) \in Nat /\ Below(digit, P, c + 1) \in Nat
      /\ Below(digit, P, c + 1) <= Cardinality(P) /\ Cardinality(P) \in Nat
  <2>1. /\ Below(digit, P, c) \in Nat /\ Below(digit, P, c + 1) \in Nat
        /\ Below(digit, P, c + 1) <= Below(digit, P, F) /\ Below(digit, P, F) = Cardinality(P)
    BY <1>1, BelowFacts
  <2>2. QED
    BY <2>1, FS_CardinalityType
<1>3. k \in 0 .. (Cardinality(P) - 1)
  BY <1>2
<1>4. PICK p \in P : Place(digit, P, 0, p) = k
  BY <1>3, PlacesCover
<1>5. PICK d \in Nat : d = digit[p] /\ d + 1 \in Nat
  OBVIOUS
<1>6. Below(digit, P, d) <= k /\ k < Below(digit, P, d + 1)
  BY <1>4, <1>5, PlaceInCluster
<1>7. d + 1 <= c => Below(digit, P, d + 1) <= Below(digit, P, c)
  BY <1>1, <1>5, BelowFacts
<1>8. c + 1 <= d => Below(digit, P, c + 1) <= Below(digit, P, d)
  BY <1>1, <1>5, BelowFacts
<1>9. Below(digit, P, d) \in Nat /\ Below(digit, P, d + 1) \in Nat
  BY <1>5, BelowFacts
<1>10. c = d
  BY <1>1, <1>2, <1>5, <1>6, <1>7, <1>8, <1>9
<1>11. QED
  BY <1>4, <1>5, <1>10

-----------------------------------------------------------------------------
(* The shares of the threads.                                              *)

IsPart(part) == part.at \in Nat /\ part.num \in Nat

LEMMA ShareFacts ==
  ASSUME NEW part, IsPart(part), NEW i \in Threads
  PROVE  /\ IsPart(Share(part, i))
         /\ part.at <= Share(part, i).at
         /\ Share(part, i).at + Share(part, i).num <= part.at + part.num
         /\ i = 0 => Share(part, i).at = part.at
         /\ i = NThreads - 1 => Share(part, i).at + Share(part, i).num = part.at + part.num
         /\ \A j \in Threads :
              /\ i < j => Share(part, i).at + Share(part, i).num <= Share(part, j).at
              /\ j = i + 1 => Share(part, i).at + Share(part, i).num = Share(part, j).at
<1>1. PICK k, at, num, n : k = part.num \div NThreads /\ at = part.at /\ num = part.num /\ n = NThreads
  OBVIOUS
<1>2. at \in Nat /\ num \in Nat /\ n \in Nat \ {0} /\ k = num \div n
  BY <1>1, RadixJoinAssumption DEF IsPart
<1>3. k \in Nat /\ k * n <= num
  BY <1>2
<1>4. \A j \in Threads : j \in Nat /\ j <= n - 1
  BY <1>1, <1>2 DEF Threads
<1>5. \A j \in Threads : Share(part, j) = [at |-> at + j * k, num |-> IF j = n - 1 THEN num - j * k ELSE k]
  BY <1>1 DEF Share
<1>6. \A j \in Threads : j * k \in Nat /\ j * k + k = (j + 1) * k /\ (j + 1) * k <= k * n
  BY <1>2, <1>3, <1>4
<1>7. \A j \in Threads : Share(part, j).at = at + j * k /\ Share(part, j).num = IF j = n - 1 THEN num - j * k ELSE k
  BY <1>5
<1>8. ASSUME NEW j \in Threads, i < j
      PROVE  i # n - 1 /\ (i + 1) * k <= j * k /\ (j = i + 1 => (i + 1) * k = j * k)
  <2>1. i + 1 <= j /\ i \in Nat /\ j \in Nat
    BY <1>4, <1>8
  <2>2. QED
    BY <1>2, <1>3, <1>4, <2>1
<1>9. i = 0 => i * k = 0
  BY <1>3
<1>10. IsPart(Share(part, i))
  BY <1>2, <1>3, <1>6, <1>7 DEF IsPart
<1>11. part.at <= Share(part, i).at
  BY <1>1, <1>2, <1>6, <1>7
<1>12. Share(part, i).at + Share(part, i).num <= part.at + part.num
  BY <1>1, <1>2, <1>3, <1>6, <1>7
<1>13. i = 0 => Share(part, i).at = part.at
  BY <1>1, <1>2, <1>7, <1>9
<1>14. i = NThreads - 1 => Share(part, i).at + Share(part, i).num = part.at + part.num
  BY <1>1, <1>2, <1>6, <1>7
<1>15. ASSUME NEW j \in Threads, i < j
       PROVE  /\ Share(part, i).at + Share(part, i).num <= Share(part, j).at
              /\ j = i + 1 => Share(part, i).at + Share(part, i).num = Share(part, j).at
  BY <1>2, <1>3, <1>6, <1>7, <1>8, <1>15
<1>16. \A j \in Threads : j = i + 1 => i < j
  BY <1>4
<1>17. QED
  BY <1>10, <1>11, <1>12, <1>13, <1>14, <1>15, <1>16

LEMMA ThreadsFinite == IsFiniteSet(Threads) /\ Threads \subseteq Nat /\ 0 \in Threads
<1>1. NThreads - 1 \in Int /\ NThreads \in Nat \ {0}
  BY RadixJoinAssumption
<1>2. QED
  BY <1>1, FS_Interval DEF Threads

(* The shares cover the whole: the last thread whose share begins at or    *)
(* before a position owns it.                                              *)
LEMMA SharesCover ==
  ASSUME NEW part, IsPart(part), NEW p \in Positions(part)
  PROVE  \E i \in Threads : p \in Positions(Share(part, i))
<1> DEFINE Open == {i \in Threads : p < Share(part, i).at + Share(part, i).num}
<1>1. p \in Int /\ part.at <= p /\ p < part.at + part.num
  BY DEF Positions, IsPart
<1>2. \A i \in Threads : Share(part, i).at \in Nat /\ Share(part, i).num \in Nat
  BY ShareFacts DEF IsPart
<1>3. NThreads - 1 \in Threads
  BY RadixJoinAssumption DEF Threads
<1>4. Open # {}
  BY <1>1, <1>2, <1>3, ShareFacts
<1>5. Open \in SUBSET Nat
  BY ThreadsFinite
<1> HIDE DEF Open
<1>6. PICK i \in Open : \A k \in Open : i <= k
  BY <1>4, <1>5, SmallestNumber
<1> USE DEF Open
<1>7. i \in Threads /\ i \in Nat /\ p < Share(part, i).at + Share(part, i).num
  BY ThreadsFinite
<1>8. Share(part, i).at <= p
  <2>1. CASE i = 0
    BY <1>1, <1>7, <2>1, ShareFacts
  <2>2. CASE i # 0
    <3>1. PICK h : h = i - 1
      OBVIOUS
    <3>2. h \in Threads /\ h \in Nat /\ i = h + 1
      BY <1>7, <2>2, <3>1, RadixJoinAssumption DEF Threads
    <3>3. Share(part, h).at + Share(part, h).num = Share(part, i).at
      BY <1>7, <3>2, ShareFacts
    <3>4. h \notin Open
      BY <1>6, <1>7, <3>2
    <3>5. QED
      BY <1>1, <1>2, <1>7, <3>2, <3>3, <3>4
  <2>3. QED
    BY <2>1, <2>2
<1>9. QED
  BY <1>1, <1>2, <1>7, <1>8 DEF Positions

(* A position is before the share of thread t if and only if the thread    *)
(* that owns it is.                                                        *)
LEMMA OwnersInOrder ==
  ASSUME NEW part, IsPart(part), NEW i \in Threads, NEW t \in Threads,
         NEW p \in Positions(Share(part, i))
  PROVE  /\ p \in Positions(part)
         /\ p < Share(part, t).at <=> i < t
         /\ p \in Positions(Share(part, t)) => i = t
<1>1. /\ Share(part, i).at \in Nat /\ Share(part, i).num \in Nat
      /\ Share(part, t).at \in Nat /\ Share(part, t).num \in Nat
      /\ part.at \in Nat /\ part.num \in Nat
  BY ShareFacts DEF IsPart
<1>2. p \in Int /\ Share(part, i).at <= p /\ p < Share(part, i).at + Share(part, i).num
  BY <1>1 DEF Positions
<1>3. i \in Nat /\ t \in Nat
  BY ThreadsFinite
<1>4. part.at <= Share(part, i).at /\ Share(part, i).at + Share(part, i).num <= part.at + part.num
  BY ShareFacts
<1>5. i < t => Share(part, i).at + Share(part, i).num <= Share(part, t).at
  BY ShareFacts
<1>6. t < i => Share(part, t).at + Share(part, t).num <= Share(part, i).at
  BY ShareFacts
<1>7. p \in Positions(Share(part, t)) => Share(part, t).at <= p /\ p < Share(part, t).at + Share(part, t).num
  BY <1>1 DEF Positions
<1>8. p \in Positions(part)
  BY <1>1, <1>2, <1>4 DEF Positions
<1>9. QED
  BY <1>1, <1>2, <1>3, <1>5, <1>6, <1>7, <1>8

-----------------------------------------------------------------------------
(* Fanouts and padding.                                                    *)

LEMMA FanOutTypes ==
  /\ FanOut1 \in Nat \ {0} /\ FanOut2 \in Nat \ {0} /\ FanOut \in Nat \ {0}
  /\ SmallPaddingTuples = 0 /\ PaddingTuples = 0 /\ Padding = 0
<1>1. FanOut1 \in Nat \ {0} /\ FanOut2 \in Nat \ {0}
  BY PowerType, RadixAssumption DEF FanOut1, FanOut2
<1>2. SmallPaddingTuples = 0
  BY DEF SmallPaddingTuples
<1>3. PaddingTuples = 0
  BY <1>1, <1>2 DEF PaddingTuples
<1>4. QED
  BY <1>1, <1>2, <1>3 DEF FanOut, Padding

LEMMA DigitType ==
  ASSUME NEW k \in Nat, NEW r \in Nat, NEW m \in Nat \ {0}
  PROVE  Digit(k, r, m) \in 0 .. (m - 1)
<1>1. PICK y : y = 2 ^ r
  OBVIOUS
<1>2. y \in Nat \ {0}
  BY <1>1, PowerType
<1>3. (k \div y) % m \in 0 .. (m - 1)
  BY <1>2
<1>4. QED
  BY <1>1, <1>3 DEF Digit

LEMMA PositionsFacts ==
  ASSUME NEW part, IsPart(part)
  PROVE  Positions(part) \in SUBSET Int /\ IsFiniteSet(Positions(part)) /\ Cardinality(Positions(part)) = part.num
<1>1. PICK a, n : a = part.at /\ n = part.num
  OBVIOUS
<1>2. a \in Nat /\ n \in Nat /\ a \in Int /\ a + n - 1 \in Int
  BY <1>1 DEF IsPart
<1>3. IsFiniteSet(a .. (a + n - 1)) /\ Cardinality(a .. (a + n - 1)) = IF a > a + n - 1 THEN 0 ELSE a + n - 1 - a + 1
  BY <1>2, FS_Interval
<1>4. QED
  BY <1>1, <1>2, <1>3 DEF Positions

-----------------------------------------------------------------------------
(* The places that a thread computes from everybody's histograms.          *)

(* The histogram of everybody's share is counted. *)
Histograms(x, whole, digit, F) ==
  \A i \in Threads :
    hist[x][i] = [c \in 0 .. (F - 1) |-> Below(digit, Positions(Share(whole, i)), c + 1)]

LEMMA HistSumSize ==
  ASSUME NEW x, NEW whole, IsPart(whole), NEW F \in Nat, NEW digit,
         Histograms(x, whole, digit, F),
         NEW c \in 0 .. (F - 1), NEW T \in SUBSET Threads
  PROVE  HistSum(x, c, T)
           = Cardinality({p \in Positions(whole) :
                            digit[p] < c + 1 /\ \E i \in T : p \in Positions(Share(whole, i))})
<1> DEFINE A == [i \in T |-> {p \in Positions(Share(whole, i)) : digit[p] < c + 1}]
           f == [i \in T |-> hist[x][i][c]]
           All == {p \in Positions(whole) :
                     digit[p] < c + 1 /\ \E i \in T : p \in Positions(Share(whole, i))}
<1>1. IsFiniteSet(T)
  BY ThreadsFinite, FS_Subset
<1>2. \A i \in T : IsFiniteSet(A[i]) /\ Cardinality(A[i]) \in Nat /\ f[i] = Cardinality(A[i])
  <2>1. ASSUME NEW i \in T
        PROVE  IsFiniteSet(A[i]) /\ Cardinality(A[i]) \in Nat /\ f[i] = Cardinality(A[i])
    <3>1. i \in Threads
      OBVIOUS
    <3>2. IsPart(Share(whole, i))
      BY <3>1, ShareFacts
    <3>3. IsFiniteSet(Positions(Share(whole, i)))
      BY <3>2, PositionsFacts
    <3>4. A[i] \in SUBSET Positions(Share(whole, i))
      OBVIOUS
    <3>5. f[i] = Below(digit, Positions(Share(whole, i)), c + 1)
      BY <3>1 DEF Histograms
    <3>6. IsFiniteSet(A[i]) /\ Cardinality(A[i]) \in Nat
      BY <3>3, <3>4, FS_Subset, FS_CardinalityType
    <3>7. QED
      BY <3>5, <3>6 DEF Below
  <2>2. QED
    BY <2>1
<1>3. f \in [T -> Nat]
  <2>1. \A i \in T : f[i] \in Nat
    BY <1>2
  <2>2. QED
    BY <2>1
<1>4. \A i, j \in T : i # j => A[i] \cap A[j] = {}
  <2>1. ASSUME NEW i \in T, NEW j \in T, NEW p, p \in A[i], p \in A[j]
        PROVE  i = j
    <3>1. p \in Positions(Share(whole, i)) /\ p \in Positions(Share(whole, j)) /\ i \in Threads /\ j \in Threads
      BY <2>1
    <3>2. QED
      BY <3>1, OwnersInOrder
  <2>2. QED
    BY <2>1
<1>5. UNION {A[i] : i \in T} = All
  <2>1. \A i \in T : \A p \in Positions(Share(whole, i)) : p \in Positions(whole)
    BY OwnersInOrder
  <2>2. QED
    BY <2>1
<1> HIDE DEF A, f
<1>6. SumFunctionOnSet(f, T) = Cardinality(UNION {A[i] : i \in T})
  BY <1>1, <1>2, <1>3, <1>4, SumOfSizes
<1>7. QED
  BY <1>5, <1>6 DEF HistSum, f

LEMMA ClusterStartCorrect ==
  ASSUME NEW x, NEW whole, IsPart(whole), NEW F \in Nat, NEW digit,
         \A p \in Positions(whole) : digit[p] \in 0 .. (F - 1),
         Histograms(x, whole, digit, F),
         NEW c \in 0 .. (F - 1), NEW t \in Threads
  PROVE  ClusterStart(t, x, c) = Before(digit, Positions(whole), c, Share(whole, t).at)
<1> DEFINE P == Positions(whole)
           s == Share(whole, t).at
           Small == {p \in P : digit[p] < c /\ p < s}
           Large == {p \in P : digit[p] < c /\ ~ (p < s)}
           Smaller == {p \in P : digit[p] < c}
           E == Earlier(digit, P, c, s)
           First == {p \in P : digit[p] < c + 1 /\ p < s}
<1>1. P \in SUBSET Int /\ IsFiniteSet(P)
  BY PositionsFacts
<1>2. c \in Nat /\ s \in Int /\ t \in Nat /\ c < F /\ NThreads \in Nat
  BY ShareFacts, ThreadsFinite, RadixJoinAssumption DEF IsPart
<1>3. \A p \in P : /\ digit[p] \in Int /\ digit[p] >= 0
                   /\ digit[p] < c + 1 <=> digit[p] < c \/ digit[p] = c
                   /\ ~ (digit[p] < c /\ digit[p] = c)
  BY <1>2
<1>4. 0 .. (t - 1) \in SUBSET Threads /\ t .. (NThreads - 1) \in SUBSET Threads
  BY <1>2 DEF Threads
<1>5. \A p \in P : p < s <=> \E i \in 0 .. (t - 1) : p \in Positions(Share(whole, i))
  <2>1. ASSUME NEW p \in P
        PROVE  p < s <=> \E i \in 0 .. (t - 1) : p \in Positions(Share(whole, i))
    <3>1. PICK i \in Threads : p \in Positions(Share(whole, i))
      BY SharesCover
    <3>2. p < s <=> i < t
      BY <3>1, OwnersInOrder
    <3>3. i < t <=> i \in 0 .. (t - 1)
      BY <1>2, ThreadsFinite
    <3>4. \A j \in 0 .. (t - 1) : p \in Positions(Share(whole, j)) => i = j
      BY <1>4, <3>1, OwnersInOrder
    <3>5. QED
      BY <3>1, <3>2, <3>3, <3>4
  <2>2. QED
    BY <2>1
<1>6. \A p \in P : ~ (p < s) <=> \E i \in t .. (NThreads - 1) : p \in Positions(Share(whole, i))
  <2>1. ASSUME NEW p \in P
        PROVE  ~ (p < s) <=> \E i \in t .. (NThreads - 1) : p \in Positions(Share(whole, i))
    <3>1. PICK i \in Threads : p \in Positions(Share(whole, i))
      BY SharesCover
    <3>2. p < s <=> i < t
      BY <3>1, OwnersInOrder
    <3>3. ~ (i < t) <=> i \in t .. (NThreads - 1)
      BY <1>2 DEF Threads
    <3>4. \A j \in t .. (NThreads - 1) : p \in Positions(Share(whole, j)) => i = j
      BY <1>4, <3>1, OwnersInOrder
    <3>5. QED
      BY <3>1, <3>2, <3>3, <3>4
  <2>2. QED
    BY <2>1
<1>7. HistSum(x, c, 0 .. (t - 1)) = Cardinality(First)
  <2>1. PICK T : T = 0 .. (t - 1)
    OBVIOUS
  <2>2. HistSum(x, c, T)
          = Cardinality({p \in P : digit[p] < c + 1 /\ \E i \in T : p \in Positions(Share(whole, i))})
    <3>1. T \in SUBSET Threads
      BY <1>4, <2>1
    <3>2. QED
      BY <3>1, HistSumSize
  <2>3. {p \in P : digit[p] < c + 1 /\ \E i \in T : p \in Positions(Share(whole, i))} = First
    BY <1>5, <2>1
  <2>4. QED
    BY <2>1, <2>2, <2>3
<1>8. c # 0 => HistSum(x, c - 1, t .. (NThreads - 1)) = Cardinality(Large)
  <2>1. SUFFICES ASSUME c # 0 PROVE HistSum(x, c - 1, t .. (NThreads - 1)) = Cardinality(Large)
    OBVIOUS
  <2>2. PICK T, b : T = t .. (NThreads - 1) /\ b = c - 1
    OBVIOUS
  <2>3. b \in 0 .. (F - 1) /\ b + 1 = c
    BY <1>2, <2>1, <2>2
  <2>4. HistSum(x, b, T)
          = Cardinality({p \in P : digit[p] < b + 1 /\ \E i \in T : p \in Positions(Share(whole, i))})
    <3>1. T \in SUBSET Threads
      BY <1>4, <2>2
    <3>2. QED
      BY <2>3, <3>1, HistSumSize
  <2>5. {p \in P : digit[p] < b + 1 /\ \E i \in T : p \in Positions(Share(whole, i))} = Large
    BY <1>6, <2>2, <2>3
  <2>6. QED
    BY <2>2, <2>4, <2>5
<1>9. c = 0 => Large = {}
  <2>1. c = 0 => \A p \in P : ~ (digit[p] < c)
    BY <1>3
  <2>2. QED
    BY <2>1
<1>10. First = Small \cup E /\ Small \cap E = {}
  BY <1>3 DEF Earlier
<1>11. Smaller = Small \cup Large /\ Small \cap Large = {}
  OBVIOUS
<1>12. Small \in SUBSET P /\ Large \in SUBSET P /\ E \in SUBSET P
  BY DEF Earlier
<1>13. Before(digit, P, c, s) = Cardinality(Smaller) + Cardinality(E)
  BY DEF Before, Below
<1>14. ClusterStart(t, x, c) = HistSum(x, c, 0 .. (t - 1))
         + (IF c = 0 THEN 0 ELSE HistSum(x, c - 1, t .. (NThreads - 1))) + c * Padding
  BY DEF ClusterStart
<1> HIDE DEF P, s, Small, Large, Smaller, E, First
<1>15. /\ IsFiniteSet(Small) /\ Cardinality(Small) \in Nat
       /\ IsFiniteSet(Large) /\ Cardinality(Large) \in Nat
       /\ IsFiniteSet(E) /\ Cardinality(E) \in Nat
  BY <1>1, <1>12, FS_Subset, FS_CardinalityType
<1>16. /\ Cardinality(First) = Cardinality(Small) + Cardinality(E)
       /\ Cardinality(Smaller) = Cardinality(Small) + Cardinality(Large)
  BY <1>10, <1>11, <1>15, DisjointSizes
<1>17. (IF c = 0 THEN 0 ELSE HistSum(x, c - 1, t .. (NThreads - 1))) = Cardinality(Large)
  BY <1>8, <1>9, FS_EmptySet
<1>18. c * Padding = 0
  BY <1>2, FanOutTypes
<1>19. ClusterStart(t, x, c) = Cardinality(First) + Cardinality(Large)
  BY <1>7, <1>14, <1>15, <1>16, <1>17, <1>18
<1>20. Before(digit, P, c, s) = ClusterStart(t, x, c)
  BY <1>13, <1>15, <1>16, <1>19
<1> USE DEF P, s
<1>21. QED
  BY <1>20

-----------------------------------------------------------------------------
(* Where the threads are, by the barriers they have left.  A partition     *)
(* that all threads make together takes three: R is counted, R is          *)
(* scattered and S counted, S is scattered.  Of the relations these begin  *)
(* at the first barrier, of a skewed cluster at every fifth from the       *)
(* seventh.                                                                *)

Counting == {"count", "wait_count", "scatter"}

InStage(k, n) == k = n \/ (k > 5 /\ k % 5 = n + 1)

(* A thread t at label l, working on relation x, has left k waits and      *)
(* begun a.                                                                *)
Phase(t, l, x, k, a) ==
  /\ l \in Labels /\ x \in Rel /\ k \in Nat /\ a \in {k, k + 1}
  /\ l \in {"unborn", "start", "wait_start"} => k = 0 /\ x = "R" /\ (a = k + 1 <=> l = "wait_start")
  /\ l \in {"count", "wait_count"} => InStage(k, IF x = "R" THEN 1 ELSE 2)
  /\ l = "scatter" => InStage(k, IF x = "R" THEN 2 ELSE 3)
  /\ l \in Counting => (a = k + 1 <=> l = "wait_count") /\ (k > 5 => skew)
  /\ l = "wait_scatter" => k = 3 /\ a = k + 1
  /\ l \in {"create", "created", "wait_tasks"} => k = 4 /\ (a = k + 1 <=> l = "wait_tasks")
  /\ l \in {"create", "create_join"} => t = 0
  /\ l \in {"partition", "cluster", "emit", "add"} => k = 5 /\ a = k
  /\ l \in SkewLabels => skew
  /\ l \in {"skew", "wait_skew", "create_join"} =>
       k >= 5 /\ k % 5 = 0 /\ (a = k + 1 <=> l = "wait_skew") /\ (l # "wait_skew" => k > 5)
  /\ l \in {"allocate", "wait_allocate", "move"} =>
       k > 5 /\ k % 5 = 1 /\ (a = k + 1 <=> l = "wait_allocate")
  /\ l = "wait_allocate" => x = "R"
  /\ l = "wait_again" => k > 5 /\ k % 5 = 4 /\ a = k + 1
  /\ l = "wait_partition" => a = k + 1 /\ IF skew THEN k > 5 /\ k % 5 = 1 ELSE k = 5
  /\ l \in {"next", "join", "wait_join"} =>
       (a = k + 1 <=> l = "wait_join") /\ IF skew THEN k > 5 /\ k % 5 = 2 ELSE k = 6
  /\ l = "exited" => a = k /\ IF skew THEN k > 5 /\ k % 5 = 3 ELSE k = 7
  /\ l = "undefined" => a = k /\ ((k = 4 /\ t = 0) \/ IF skew THEN k > 5 /\ k % 5 = 2 ELSE k = 6)

(* A thread that partitions a skewed cluster with the others; one that     *)
(* is still at the relations; and one that has left all partitioning.      *)
AtSkewed(t, l, k) ==
  \/ l \in {"allocate", "wait_allocate", "create_join"} \/ (l = "wait_again" /\ t = 0)
  \/ l \in Counting /\ k > 5
AtRelations(l, k) ==
  \/ l \in {"unborn", "start", "wait_start", "wait_scatter", "create", "created"}
  \/ l \in Counting /\ k <= 5
Late(l) == l \in {"move", "wait_partition", "next", "join", "wait_join", "exited", "undefined"}

(* Whether they are at a skewed cluster is as thread 0 has announced it.   *)
Announced(t, l, k) ==
  /\ Again => skew
  /\ AtSkewed(t, l, k) => Again
  /\ AtRelations(l, k) \/ Late(l) => ~Again

PhaseInv(t) == Phase(t, pc[t], side[t], left[t], arrived[t]) /\ Announced(t, pc[t], left[t])

MainInv ==
  /\ mainPc \in {"spawn", "join", "cluster", "serial_join", "done"}
  /\ mainPc \in {"cluster", "serial_join"} => \A t \in Threads : pc[t] = "unborn"
  /\ mainPc \in {"spawn", "join"} => mainI \in Threads
  /\ mainPc = "spawn" => \A t \in Threads : pc[t] = "unborn" <=> t >= mainI
  /\ mainPc = "join" => \A t \in Threads : pc[t] # "unborn" /\ (t < mainI => pc[t] = "exited")
  /\ mainPc = "done" => \A t \in Threads : pc[t] \in {"unborn", "exited"}

OrderInv ==
  /\ DOMAIN pc = Threads /\ DOMAIN side = Threads /\ DOMAIN left = Threads /\ DOMAIN arrived = Threads
  /\ MainInv
  /\ \A t \in Threads : PhaseInv(t)
  /\ \A t, u \in Threads : left[t] <= arrived[u]

(* What the steps of a thread do at the barrier, and where they lead it.   *)
ArriveMove(t, l, x, m, y) ==
  \/ l = "start" /\ m = "wait_start" /\ y = x
  \/ l = "count" /\ m = "wait_count" /\ y = x
  \/ l = "scatter" /\ x = "S" /\ m = (IF Again THEN "wait_again" ELSE "wait_scatter") /\ y = x
  \/ l \in {"create", "created"} /\ m = "wait_tasks" /\ y = x
  \/ l = "partition" /\ ~skew /\ m = "wait_partition" /\ y = x
  \/ (l = "skew" \/ (l = "partition" /\ skew)) /\ m = "wait_skew" /\ y = x
  \/ l = "allocate" /\ m = "wait_allocate" /\ y = "R"
  \/ l = "move" /\ m = "wait_partition" /\ y = x
  \/ l = "next" /\ m = "wait_join" /\ y = x

LeaveMove(t, l, x, m, y) ==
  /\ y = x
  /\ \/ l = "wait_start" /\ m = "count"
     \/ l = "wait_count" /\ m = "scatter"
     \/ l = "wait_scatter" /\ m = (IF t = 0 THEN "create" ELSE "created")
     \/ l = "wait_tasks" /\ m = "partition"
     \/ l = "wait_skew" /\ m = (IF Again THEN "allocate" ELSE "move")
     \/ l = "wait_allocate" /\ m = "count"
     \/ l = "wait_again" /\ m = (IF t = 0 THEN "create_join" ELSE "skew")
     \/ l = "wait_partition" /\ m = "next"
     \/ l = "wait_join" /\ m = "exited"

StayMove(t, l, x, m, y) ==
  \/ l = "scatter" /\ m = "scatter" /\ y = x
  \/ l = "scatter" /\ x = "R" /\ m = "count" /\ y = "S"
  \/ l = "create" /\ m \in {"create", "undefined"} /\ y = x
  \/ l = "partition" /\ m = "cluster" /\ y = "R"
  \/ l \in {"cluster", "emit", "add"} /\ m \in {"cluster", "emit", "add", "partition"} /\ y \in {x, "S"}
  \/ l = "create_join" /\ m \in {"create_join", "skew"} /\ y = x
  \/ l = "move" /\ m = "move" /\ y = x
  \/ l \in {"next", "join"} /\ m \in {"next", "join", "undefined"} /\ y = x

LEMMA ArriveKeepsPhase ==
  ASSUME NEW t, NEW l, NEW x, NEW k, NEW m, NEW y, Phase(t, l, x, k, k), Announced(t, l, k),
         ArriveMove(t, l, x, m, y)
  PROVE  Phase(t, m, y, k, k + 1)
BY DEF Phase, Announced, ArriveMove, AtSkewed, AtRelations, Late, InStage, Counting, Labels,
       Pass1Labels, Pass2Labels, SkewLabels, JoinLabels, Rel

LEMMA ArriveKeepsAnnounced ==
  ASSUME NEW t, NEW l, NEW x, NEW k, NEW m, NEW y, Phase(t, l, x, k, k), Announced(t, l, k),
         ArriveMove(t, l, x, m, y)
  PROVE  Announced(t, m, k)
BY DEF Phase, Announced, ArriveMove, AtSkewed, AtRelations, Late, InStage, Counting, Labels,
       Pass1Labels, Pass2Labels, SkewLabels, JoinLabels, Rel

LEMMA LeaveKeepsPhase ==
  ASSUME NEW t, NEW l, NEW x, NEW k, NEW m, NEW y, Phase(t, l, x, k, k + 1), Announced(t, l, k),
         LeaveMove(t, l, x, m, y)
  PROVE  Phase(t, m, y, k + 1, k + 1) /\ Announced(t, m, k + 1)
BY DEF Phase, Announced, LeaveMove, AtSkewed, AtRelations, Late, InStage, Counting, Labels,
       Pass1Labels, Pass2Labels, SkewLabels, JoinLabels, Rel

LEMMA StayKeepsPhase ==
  ASSUME NEW t, NEW l, NEW x, NEW k, NEW a, NEW m, NEW y, Phase(t, l, x, k, a), Announced(t, l, k),
         StayMove(t, l, x, m, y)
  PROVE  Phase(t, m, y, k, a) /\ Announced(t, m, k)
BY DEF Phase, Announced, StayMove, AtSkewed, AtRelations, Late, InStage, Counting, Labels,
       Pass1Labels, Pass2Labels, SkewLabels, JoinLabels, Rel

(* The value of a function at t may change, the others do not. *)
Frame(f, g, t) == DOMAIN g = DOMAIN f /\ \A u \in DOMAIN f : u # t => g[u] = f[u]

Arrives(t) ==
  /\ arrived[t] = left[t] /\ arrived'[t] = arrived[t] + 1 /\ left'[t] = left[t]
  /\ ArriveMove(t, pc[t], side[t], pc'[t], side'[t])
Leaves(t) ==
  /\ left[t] < arrived[t] /\ left'[t] = left[t] + 1 /\ arrived'[t] = arrived[t]
  /\ \A u \in Threads : arrived[u] >= arrived[t]
  /\ LeaveMove(t, pc[t], side[t], pc'[t], side'[t])
Stays(t) ==
  /\ left'[t] = left[t] /\ arrived'[t] = arrived[t]
  /\ StayMove(t, pc[t], side[t], pc'[t], side'[t])

Moves(t) ==
  /\ Frame(pc, pc', t) /\ Frame(side, side', t) /\ Frame(left, left', t) /\ Frame(arrived, arrived', t)
  /\ Arrives(t) \/ Leaves(t) \/ Stays(t)

Domains == DOMAIN pc = Threads /\ DOMAIN side = Threads /\ DOMAIN left = Threads /\ DOMAIN arrived = Threads

LEMMA ThreadMoves ==
  ASSUME Domains, NEW t \in Threads, Thread(t), side[t] \in Rel
  PROVE  Moves(t)
<1> USE DEF Domains, Moves, Frame, Goto
<1>1. CASE Start(t) \/ Count(t) \/ EndScatterS(t) \/ EndTasks(t)
  <2>1. Arrives(t)
    BY <1>1 DEF Start, Count, EndScatterS, EndTasks, Sync!Arrive, Arrives, ArriveMove
  <2>2. QED
    BY <1>1, <2>1 DEF Start, Count, EndScatterS, EndTasks, Sync!Arrive
<1>2. CASE EndPass2(t) \/ NextSkewTask(t) \/ AllocateAgain(t) \/ EndSkew(t) \/ EndJoin(t)
  <2>1. Arrives(t)
    BY <1>2 DEF EndPass2, NextSkewTask, AllocateAgain, EndSkew, EndJoin, Sync!Arrive, Arrives, ArriveMove
  <2>2. QED
    BY <1>2, <2>1 DEF EndPass2, NextSkewTask, AllocateAgain, EndSkew, EndJoin, Sync!Arrive
<1>3. CASE BeginPass1(t) \/ BeginScatter(t) \/ BeginTasks(t) \/ BeginPass2(t) \/ SeeSkewTask(t)
  <2>1. Leaves(t)
    BY <1>3 DEF BeginPass1, BeginScatter, BeginTasks, BeginPass2, SeeSkewTask, Sync!Leave, Leaves, LeaveMove
  <2>2. QED
    BY <1>3, <2>1 DEF BeginPass1, BeginScatter, BeginTasks, BeginPass2, SeeSkewTask, Sync!Leave
<1>4. CASE PartitionAgain(t) \/ BeginJoinTasks(t) \/ BeginJoin(t) \/ Exit(t)
  <2>1. Leaves(t)
    BY <1>4 DEF PartitionAgain, BeginJoinTasks, BeginJoin, Exit, Sync!Leave, Leaves, LeaveMove
  <2>2. QED
    BY <1>4, <2>1 DEF PartitionAgain, BeginJoinTasks, BeginJoin, Exit, Sync!Leave
<1>5. CASE Scatter(t) \/ EndScatterR(t) \/ CreateTask(t) \/ TakePartTask(t)
  <2>1. Stays(t) /\ UNCHANGED <<left, arrived>>
    BY <1>5 DEF Scatter, EndScatterR, CreateTask, TakePartTask, Stays, StayMove, barrier
  <2>2. QED
    BY <1>5, <2>1 DEF Scatter, EndScatterR, CreateTask, TakePartTask
<1>6. CASE ClusterRelation(t) \/ GetJoinSlot(t) \/ AddJoinTask(t) \/ SkipCluster(t) \/ EndPartTask(t)
  <2>1. Stays(t) /\ UNCHANGED <<left, arrived>>
    BY <1>6 DEF ClusterRelation, GetJoinSlot, AddJoinTask, SkipCluster, EndPartTask, Stays, StayMove, barrier, Rel
  <2>2. QED
    BY <1>6, <2>1 DEF ClusterRelation, GetJoinSlot, AddJoinTask, SkipCluster, EndPartTask
<1>7. CASE CreateJoinTask(t) \/ EndJoinTasks(t) \/ MoveLargeTask(t) \/ TakeJoinTask(t) \/ RunJoin(t)
  <2>1. Stays(t) /\ UNCHANGED <<left, arrived>>
    BY <1>7 DEF CreateJoinTask, EndJoinTasks, MoveLargeTask, TakeJoinTask, RunJoin, Stays, StayMove, barrier
  <2>2. QED
    BY <1>7, <2>1 DEF CreateJoinTask, EndJoinTasks, MoveLargeTask, TakeJoinTask, RunJoin
<1>8. QED
  BY <1>1, <1>2, <1>3, <1>4, <1>5, <1>6, <1>7 DEF Thread, Pass1, Tasks, Pass2, Skew, Joins

(* The phases are the same as long as nothing else is announced. *)
LEMMA PhaseStill ==
  ASSUME NEW CONSTANT t, NEW CONSTANT l, NEW CONSTANT x, NEW CONSTANT k, NEW CONSTANT a, skew' = skew
  PROVE  /\ Phase(t, l, x, k, a)' <=> Phase(t, l, x, k, a)
         /\ skewtask' = skewtask => (Announced(t, l, k)' <=> Announced(t, l, k))
<1>1. Phase(t, l, x, k, a)' <=> Phase(t, l, x, k, a)
  BY DEF Phase, InStage
<1>2. skewtask' = skewtask => (Announced(t, l, k)' <=> Announced(t, l, k))
  BY DEF Announced, Again, AtSkewed, AtRelations, Late
<1>3. QED
  BY <1>1, <1>2

(* What thread 0 announces while the others wait for it, or are still at   *)
(* the last barrier, concerns nobody else yet.                             *)
LEMMA NobodyConcerned ==
  ASSUME NEW t, NEW l, NEW x, NEW k, NEW a, Phase(t, l, x, k, a),
         NEW m, NEW y, NEW n, NEW b, Phase(0, m, y, n, b),
         m = "skew" \/ (m = "partition" /\ skew), k <= b, n <= a, t # 0
  PROVE  ~AtSkewed(t, l, k) /\ ~AtRelations(l, k) /\ ~Late(l)
BY DEF Phase, AtSkewed, AtRelations, Late, InStage, Counting, Labels, Pass1Labels, Pass2Labels,
       SkewLabels, JoinLabels

LEMMA OrderStep ==
  ASSUME OrderInv, NEW t \in Threads, Thread(t)
  PROVE  /\ OrderInv' /\ Moves(t)
         /\ UNCHANGED <<skew, numNuma, jf, key, mainPc, mainI, args, result>>
         /\ skewtask' = skewtask \/ (t = 0 /\ NextSkewTask(t))
<1>1. /\ UNCHANGED <<skew, numNuma, jf, key, mainPc, mainI, args, result>>
      /\ skewtask' = skewtask \/ (t = 0 /\ NextSkewTask(t))
  <2>1. CASE Start(t) \/ Pass1(t) \/ Tasks(t)
    BY <2>1 DEF Start, Pass1, BeginPass1, Count, BeginScatter, Scatter, EndScatterR, EndScatterS,
                Tasks, BeginTasks, CreateTask, EndTasks, inputs, mainVars, queues, skewVars
  <2>2. CASE Pass2(t)
    BY <2>2 DEF Pass2, BeginPass2, TakePartTask, ClusterRelation, GetJoinSlot, AddJoinTask,
                SkipCluster, EndPartTask, EndPass2, inputs, mainVars, queues, skewVars
  <2>3. CASE Skew(t)
    BY <2>3 DEF Skew, NextSkewTask, SeeSkewTask, AllocateAgain, PartitionAgain, BeginJoinTasks,
                CreateJoinTask, EndJoinTasks, MoveLargeTask, EndSkew, inputs, mainVars, queues, skewVars
  <2>4. CASE Joins(t)
    BY <2>4 DEF Joins, BeginJoin, TakeJoinTask, RunJoin, EndJoin, Exit, inputs, mainVars, queues, skewVars
  <2>5. QED
    BY <2>1, <2>2, <2>3, <2>4 DEF Thread
<1>2. Domains /\ PhaseInv(t) /\ side[t] \in Rel
  BY DEF OrderInv, Domains, PhaseInv, Phase
<1>3. Moves(t)
  BY <1>2, ThreadMoves
<1>4. PICK l, x, k, a : l = pc[t] /\ x = side[t] /\ k = left[t] /\ a = arrived[t]
  OBVIOUS
<1>5. PICK m, y, n, b : m = pc'[t] /\ y = side'[t] /\ n = left'[t] /\ b = arrived'[t]
  OBVIOUS
<1>6. Phase(t, l, x, k, a) /\ Announced(t, l, k) /\ k \in Nat /\ a \in {k, k + 1}
  BY <1>2, <1>4 DEF PhaseInv, Phase
<1>7. Phase(t, m, y, n, b) /\ Announced(t, m, n) /\ n \in Nat
  <2>1. CASE Arrives(t)
    <3>1. a = k /\ b = k + 1 /\ n = k /\ ArriveMove(t, l, x, m, y)
      BY <1>4, <1>5, <1>6, <2>1 DEF Arrives
    <3>2. Phase(t, m, y, k, k + 1)
      BY <1>6, <3>1, ArriveKeepsPhase
    <3>3. Announced(t, m, k)
      BY <1>6, <3>1, ArriveKeepsAnnounced
    <3>4. QED
      BY <1>6, <3>1, <3>2, <3>3
  <2>2. CASE Leaves(t)
    <3>1. a = k + 1 /\ b = k + 1 /\ n = k + 1 /\ LeaveMove(t, l, x, m, y)
      BY <1>4, <1>5, <1>6, <2>2 DEF Leaves
    <3>2. Phase(t, m, y, k + 1, k + 1) /\ Announced(t, m, k + 1)
      BY <1>6, <3>1, LeaveKeepsPhase
    <3>3. QED
      BY <1>6, <3>1, <3>2
  <2>3. CASE Stays(t)
    <3>1. b = a /\ n = k /\ StayMove(t, l, x, m, y)
      BY <1>4, <1>5, <2>3 DEF Stays
    <3>2. QED
      BY <1>6, <3>1, StayKeepsPhase
  <2>4. QED
    BY <1>3, <2>1, <2>2, <2>3 DEF Moves
<1>8. l # "unborn" /\ m # "unborn" /\ l # "exited"
  BY <1>3, <1>4, <1>5 DEF Moves, Arrives, Leaves, Stays, ArriveMove, LeaveMove, StayMove
<1>9. Domains' /\ \A u \in Threads : u # t =>
        pc'[u] = pc[u] /\ side'[u] = side[u] /\ left'[u] = left[u] /\ arrived'[u] = arrived[u]
  BY <1>2, <1>3 DEF Moves, Frame, Domains
<1>10. Threads \subseteq Nat /\ mainI' = mainI /\ mainPc' = mainPc
  BY <1>1, ThreadsFinite
<1>11. MainInv'
  <2>1. mainPc \notin {"cluster", "serial_join", "done"}
    BY <1>4, <1>8 DEF OrderInv, MainInv
  <2>2. mainPc = "spawn" => \A u \in Threads : pc'[u] = "unborn" <=> u >= mainI
    BY <1>4, <1>5, <1>8, <1>9 DEF OrderInv, MainInv
  <2>3. mainPc = "join" => \A u \in Threads : pc'[u] # "unborn" /\ (u < mainI => pc'[u] = "exited")
    BY <1>4, <1>5, <1>8, <1>9 DEF OrderInv, MainInv
  <2>4. mainPc \in {"spawn", "join"} /\ mainI \in Threads
    BY <2>1 DEF OrderInv, MainInv
  <2>5. QED
    BY <1>10, <2>1, <2>2, <2>3, <2>4 DEF MainInv
<1>12. \A u, v \in Threads : left'[u] <= arrived'[v]
  <2>1. \A u, v \in Threads : left[u] <= arrived[v] /\ left[u] \in Nat /\ arrived[v] \in Nat
    BY DEF OrderInv, PhaseInv, Phase
  <2>2. arrived'[t] >= arrived[t] /\ (left'[t] = left[t] \/ \A v \in Threads : left'[t] <= arrived[v])
    <3>1. CASE Leaves(t)
      <4>1. left'[t] = k + 1 /\ a = k + 1 /\ arrived'[t] = a
        BY <1>4, <1>6, <3>1 DEF Leaves
      <4>2. \A v \in Threads : arrived[v] >= a
        BY <1>4, <3>1 DEF Leaves
      <4>3. QED
        BY <1>4, <1>6, <2>1, <4>1, <4>2
    <3>2. CASE Arrives(t) \/ Stays(t)
      BY <2>1, <3>2 DEF Arrives, Stays
    <3>3. QED
      BY <1>3, <3>1, <3>2 DEF Moves
  <2>3. left'[t] <= arrived'[t]
    BY <1>5, <1>7 DEF Phase
  <2>4. arrived'[t] \in Nat
    BY <1>5, <1>7 DEF Phase
  <2>5. QED
    BY <1>9, <2>1, <2>2, <2>3, <2>4
<1>13. ASSUME NEW u \in Threads
       PROVE  PhaseInv(u)'
  <2>1. PICK lu, xu, ku, au : lu = pc'[u] /\ xu = side'[u] /\ ku = left'[u] /\ au = arrived'[u]
    OBVIOUS
  <2>2. Phase(u, lu, xu, ku, au) /\ Announced(u, lu, ku)
    BY <1>5, <1>7, <1>9, <2>1 DEF OrderInv, PhaseInv
  <2>3. Phase(u, lu, xu, ku, au)'
    BY <1>1, <2>2, PhaseStill
  <2>4. Announced(u, lu, ku)'
    <3>1. CASE skewtask' = skewtask
      BY <1>1, <2>2, <3>1, PhaseStill
    <3>2. CASE t = 0 /\ NextSkewTask(t)
      <4>1. m = "wait_skew" /\ (l = "skew" \/ (l = "partition" /\ skew))
        BY <1>2, <1>4, <1>5, <3>2 DEF NextSkewTask, Goto, Domains
      <4>2. skew
        BY <1>6, <4>1 DEF Phase, SkewLabels
      <4>3. ~AtSkewed(u, lu, ku) /\ ~AtRelations(lu, ku) /\ ~Late(lu)
        <5>1. CASE u = t
          BY <1>5, <2>1, <3>2, <4>1, <5>1 DEF AtSkewed, AtRelations, Late, Counting
        <5>2. CASE u # t
          <6>1. ku <= a /\ k <= au
            BY <1>4, <1>9, <2>1, <5>2 DEF OrderInv
          <6>2. QED
            BY <1>6, <2>2, <3>2, <4>1, <5>2, <6>1, NobodyConcerned
        <5>3. QED
          BY <5>1, <5>2
      <4>4. skew' /\ ~AtSkewed(u, lu, ku)' /\ ~AtRelations(lu, ku)' /\ ~Late(lu)'
        BY <1>1, <4>2, <4>3 DEF AtSkewed, AtRelations, Late, Counting
      <4>5. QED
        BY <4>4 DEF Announced
    <3>3. QED
      BY <1>1, <3>1, <3>2
  <2>5. QED
    BY <2>1, <2>3, <2>4 DEF PhaseInv
<1>14. QED
  BY <1>1, <1>3, <1>9, <1>11, <1>12, <1>13 DEF OrderInv, Domains

LEMMA InitOrderInv == Init => OrderInv
<1>1. SUFFICES ASSUME Init PROVE OrderInv
  OBVIOUS
<1>2. Domains /\ ~Again
  BY <1>1 DEF Init, Domains, Sync!BarrierInit, Again
<1>3. MainInv
  <2>1. mainPc \in {"spawn", "cluster"} /\ mainI = 0 /\ \A t \in Threads : pc[t] = "unborn"
    BY <1>1 DEF Init
  <2>2. \A t \in Threads : t >= 0
    BY ThreadsFinite
  <2>3. QED
    BY <2>1, <2>2, ThreadsFinite DEF MainInv
<1>4. ASSUME NEW t \in Threads
      PROVE  pc[t] = "unborn" /\ side[t] = "R" /\ left[t] = 0 /\ arrived[t] = 0
  BY <1>1 DEF Init, Sync!BarrierInit
<1>5. \A t \in Threads : PhaseInv(t)
  BY <1>2, <1>4 DEF PhaseInv, Phase, Announced, AtSkewed, Labels, SkewLabels, Rel, Counting
<1>6. QED
  BY <1>2, <1>3, <1>4, <1>5 DEF OrderInv, Domains

LEMMA MainKeepsOrder ==
  ASSUME OrderInv, Main
  PROVE  OrderInv'
<1>1. /\ UNCHANGED <<skew, skewtask, side, left, arrived>>
      /\ pc' = pc \/ (mainPc = "spawn" /\ pc' = [pc EXCEPT ![mainI] = "start"])
  BY DEF Main, Spawn, Join, RadixCluster, JoinCluster, Return, inputs, queues, skewVars, barrier, Goto
<1>2. Domains /\ MainInv /\ Threads \subseteq Nat /\ NThreads \in Nat
  BY ThreadsFinite, RadixJoinAssumption DEF OrderInv, Domains
<1>3. Domains'
  BY <1>1, <1>2 DEF Domains
<1>4. ASSUME NEW t \in Threads
      PROVE  PhaseInv(t)'
  <2>1. PICK l, x, k, a : l = pc'[t] /\ x = side[t] /\ k = left[t] /\ a = arrived[t]
    OBVIOUS
  <2>2. pc'[t] = pc[t] \/ (pc[t] = "unborn" /\ pc'[t] = "start")
    BY <1>1, <1>2 DEF Domains, MainInv
  <2>3. Phase(t, pc[t], x, k, a) /\ Announced(t, pc[t], k)
    BY <2>1 DEF OrderInv, PhaseInv
  <2>4. Phase(t, l, x, k, a) /\ Announced(t, l, k)
    <3>1. CASE pc'[t] = pc[t]
      BY <2>1, <2>3, <3>1
    <3>2. CASE pc[t] = "unborn" /\ pc'[t] = "start"
      BY <2>1, <2>3, <3>2 DEF Phase, Announced, AtSkewed, AtRelations, Late, Counting, Labels, SkewLabels
    <3>3. QED
      BY <2>2, <3>1, <3>2
  <2>5. Phase(t, l, x, k, a)' /\ Announced(t, l, k)'
    BY <1>1, <2>4, PhaseStill
  <2>6. QED
    BY <1>1, <2>1, <2>5 DEF PhaseInv
<1>5. MainInv'
  <2> USE DEF MainInv
  <2>1. CASE Spawn
    <3>1. \A t \in Threads : pc'[t] = IF t = mainI THEN "start" ELSE pc[t]
      BY <1>2, <2>1 DEF Spawn, Goto, Domains
    <3>2. /\ mainPc = "spawn" /\ mainI \in Threads /\ \A t \in Threads : pc[t] = "unborn" <=> t >= mainI
          /\ mainI' = IF mainI = NThreads - 1 THEN 0 ELSE mainI + 1
          /\ mainPc' = IF mainI = NThreads - 1 THEN "join" ELSE "spawn"
      BY <1>2, <2>1 DEF Spawn
    <3>3. mainI' \in Threads
      BY <1>2, <3>2 DEF Threads
    <3>4. \A t \in Threads : t <= NThreads - 1
      BY DEF Threads
    <3>5. CASE mainI = NThreads - 1
      <4>1. \A t \in Threads : pc'[t] # "unborn" /\ ~ (t < mainI')
        BY <1>2, <3>1, <3>2, <3>4, <3>5
      <4>2. QED
        BY <3>2, <3>3, <3>5, <4>1
    <3>6. CASE mainI # NThreads - 1
      <4>1. \A t \in Threads : pc'[t] = "unborn" <=> t >= mainI'
        BY <1>2, <3>1, <3>2, <3>6
      <4>2. QED
        BY <3>2, <3>3, <3>6, <4>1
    <3>7. QED
      BY <3>5, <3>6
  <2>2. CASE Join
    <3>1. /\ pc' = pc /\ mainPc = "join" /\ pc[mainI] = "exited" /\ mainI \in Threads
          /\ \A t \in Threads : pc[t] # "unborn" /\ (t < mainI => pc[t] = "exited")
          /\ mainI' = IF mainI = NThreads - 1 THEN 0 ELSE mainI + 1
          /\ mainPc' = IF mainI = NThreads - 1 THEN "done" ELSE "join"
      BY <1>2, <2>2 DEF Join
    <3>2. \A t \in Threads : t <= NThreads - 1 /\ t \in Nat
      BY <1>2 DEF Threads
    <3>3. CASE mainI = NThreads - 1
      <4>1. \A t \in Threads : t = mainI \/ t < mainI
        BY <3>2, <3>3
      <4>2. \A t \in Threads : pc'[t] = "exited"
        BY <3>1, <4>1
      <4>3. QED
        BY <3>1, <3>3, <4>2
    <3>4. CASE mainI # NThreads - 1
      <4>1. mainI' \in Threads /\ \A t \in Threads : t < mainI' => t = mainI \/ t < mainI
        BY <1>2, <3>1, <3>2, <3>4 DEF Threads
      <4>2. QED
        BY <3>1, <3>4, <4>1
    <3>5. QED
      BY <3>3, <3>4
  <2>3. CASE RadixCluster \/ JoinCluster \/ Return
    <3>1. mainPc \in {"cluster", "serial_join"} /\ pc' = pc /\ mainPc' \in {"cluster", "serial_join", "done"}
      BY <2>3 DEF RadixCluster, JoinCluster, Return
    <3>2. QED
      BY <1>2, <3>1
  <2>4. QED
    BY <2>1, <2>2, <2>3 DEF Main
<1>6. \A t, u \in Threads : left'[t] <= arrived'[u]
  BY <1>1 DEF OrderInv
<1>7. QED
  BY <1>3, <1>4, <1>5, <1>6 DEF OrderInv, Domains

LEMMA StutterKeepsOrder ==
  ASSUME OrderInv, UNCHANGED vars
  PROVE  OrderInv'
BY DEF OrderInv, MainInv, PhaseInv, Phase, Announced, AtSkewed, AtRelations, Late, InStage, Again,
       vars, inputs, mainVars, queues, skewVars, barrier

LEMMA OrderInvStep == OrderInv /\ [Next]_vars => OrderInv'
<1>1. SUFFICES ASSUME OrderInv, [Next]_vars PROVE OrderInv'
  OBVIOUS
<1>2. CASE Main
  BY <1>1, <1>2, MainKeepsOrder
<1>3. ASSUME NEW t \in Threads, Thread(t)
      PROVE  OrderInv'
  BY <1>1, <1>3, OrderStep
<1>4. CASE UNCHANGED vars
  BY <1>1, <1>4, StutterKeepsOrder
<1>5. QED
  BY <1>1, <1>2, <1>3, <1>4 DEF Next, Finished

-----------------------------------------------------------------------------
(* What the threads partition, into what digits, and where they put it.    *)

Places(x) == Positions(Whole(x))
Own(t, x) == Share(Whole(x), t)
TheDigits(x) == [p \in Places(x) |-> DigitOf(x, From(x)[p])]
PlaceOf(x, p) == Whole(x).at + Place(TheDigits(x), Places(x), 0, p)
To(x) == IF Again THEN rel[x] ELSE tmp[x]

Parallel == mainPc \in {"spawn", "join"}

(* Thread 0 is at a partition or makes tasks of it. *)
Active ==
  pc[0] \in {"unborn", "start", "wait_start", "wait_allocate", "count", "wait_count", "scatter",
             "wait_scatter", "wait_again", "create", "create_join"}

(* How far a thread at label l, working on relation s, is with relation x: *)
(* whether it has counted its share, knows the boundaries, is done.        *)
Behind(l) == l \in {"wait_scatter", "wait_again", "create", "create_join"}
Counted(l, s, x) ==
  \/ Behind(l)
  \/ l \in {"wait_count", "scatter"} /\ (x = "R" \/ s = "S")
  \/ l = "count" /\ s = "S" /\ x = "R"
Uncounted(l, s, x) ==
  \/ l \in {"unborn", "start", "wait_start", "wait_allocate"}
  \/ l = "count" /\ (s = "R" \/ x = "S")
  \/ l \in {"wait_count", "scatter"} /\ s = "R" /\ x = "S"
Planned(l, s, x) ==
  \/ Behind(l)
  \/ l = "scatter" /\ (x = "R" \/ s = "S")
  \/ l \in {"count", "wait_count"} /\ s = "S" /\ x = "R"
Ended(l, s, x) ==
  \/ Behind(l) \/ l \in {"created", "wait_tasks", "skew", "wait_skew"}
  \/ l \in Counting /\ s = "S" /\ x = "R"

Scattered(t, x, p) ==
  \/ Ended(pc[t], side[t], x)
  \/ pc[t] = "scatter" /\ side[t] = x /\ p < Own(t, x).at + cur[t]

Joining(l) == l \in {"next", "join", "wait_join", "exited", "undefined"}

(* A task within the relations. *)
Region(task) == \A x \in Rel : IsPart(task[x]) /\ task[x].at + task[x].num <= Size(x)

ShapeInv ==
  /\ DOMAIN rel = Rel /\ DOMAIN tmp = Rel
  /\ \A x \in Rel : /\ DOMAIN rel[x] = 0 .. (Size(x) - 1) /\ DOMAIN tmp[x] = 0 .. (Size(x) - 1)
                    /\ key[x] \in [0 .. (Size(x) - 1) -> Keys]
  /\ DOMAIN hist = Rel /\ \A x \in Rel : DOMAIN hist[x] = Threads
  /\ DOMAIN output = Threads /\ \A t \in Threads : DOMAIN output[t] = Rel
  /\ DOMAIN dst = Threads /\ DOMAIN cur = Threads /\ DOMAIN args = Threads
  /\ \A t \in Threads : cur[t] \in Nat
  /\ \A t \in Threads : pc[t] # "unborn" =>
       args[t] = [x \in Rel |-> Share([at |-> 0, num |-> Size(x)], t)]

SkewInv ==
  /\ \A s \in DOMAIN skewQueue.task : Region(skewQueue.task[s])
  /\ Region(skewtask)

(* The tuples that are partitioned: R and S are in their arrays until the  *)
(* second pass, and in the temporary ones from the first pass to the join. *)
InputInv ==
  /\ Parallel /\ (\A t \in Threads : left[t] < 5) =>
       \A x \in Rel : \A i \in 0 .. (Size(x) - 1) : rel[x][i] = i
  /\ Parallel /\ left[0] >= 4 /\ (\A t \in Threads : ~Joining(pc[t])) =>
       \A x \in Rel : \A i \in 0 .. (Size(x) - 1) : tmp[x][i] \in 0 .. (Size(x) - 1)

HistogramInv ==
  Parallel => \A t \in Threads, x \in Rel :
    /\ Uncounted(pc[t], side[t], x) => hist[x][t] = [c \in 0 .. (FanOut - 1) |-> 0]
    /\ Active /\ Counted(pc[t], side[t], x) =>
         hist[x][t] = [c \in 0 .. (FanOut - 1) |-> Below(TheDigits(x), Positions(Own(t, x)), c + 1)]

(* The boundaries that thread 0 makes tasks from. *)
BoundaryInv ==
  Parallel => \A x \in Rel :
    Active /\ Planned(pc[0], side[0], x) =>
      output[0][x] = [c \in 0 .. FanOut |-> Below(TheDigits(x), Places(x), c)]

(* Where the next tuple of each digit goes. *)
CursorInv ==
  \A t \in Threads : pc[t] = "scatter" =>
    LET x == side[t]
    IN  /\ cur[t] <= Own(t, x).num
        /\ dst[t] = [c \in 0 .. (FanOut - 1) |->
                       Before(TheDigits(x), Places(x), c, Own(t, x).at + cur[t])]

(* What has been scattered is at its place, *)
PlacedInv ==
  Parallel /\ Active /\ pc[0] # "wait_allocate" =>
    \A t \in Threads, x \in Rel : \A p \in Positions(Own(t, x)) :
      Scattered(t, x, p) => To(x)[PlaceOf(x, p)] = From(x)[p]

(* and no other place of the temporary arrays is written in the first pass. *)
WrittenInv ==
  Parallel /\ Active /\ ~Again =>
    \A x \in Rel : \A q \in DOMAIN tmp[x] : tmp[x][q] # Garbage =>
      \E t \in Threads : \E p \in Positions(Own(t, x)) : Scattered(t, x, p) /\ q = PlaceOf(x, p)

PartitionInv ==
  /\ QueuesInv /\ OrderInv /\ ShapeInv /\ SkewInv /\ InputInv
  /\ HistogramInv /\ BoundaryInv /\ CursorInv /\ PlacedInv /\ WrittenInv

-----------------------------------------------------------------------------
(* Which steps change what.                                                *)

LEMMA Changes ==
  ASSUME NEW t \in Threads, Thread(t)
  PROVE  /\ rel' = rel \/ (Scatter(t) /\ Again) \/ ClusterRelation(t)
         /\ tmp' = tmp \/ (Scatter(t) /\ ~Again) \/ RunJoin(t)
         /\ hist' = hist \/ Count(t) \/ AllocateAgain(t)
         /\ output' = output \/ BeginScatter(t) \/ AllocateAgain(t)
         /\ dst' = dst \/ BeginScatter(t) \/ Scatter(t)
         /\ skewQueue' = skewQueue \/ CreateTask(t) \/ NextSkewTask(t)
<1> USE DEF arrays, pass1, queues, skewVars
<1>1. CASE Start(t) \/ BeginPass1(t) \/ Count(t) \/ BeginScatter(t) \/ EndScatterR(t) \/ EndScatterS(t)
  BY <1>1 DEF Start, BeginPass1, Count, BeginScatter, EndScatterR, EndScatterS
<1>2. CASE Scatter(t)
  BY <1>2 DEF Scatter
<1>3. CASE Tasks(t)
  BY <1>3 DEF Tasks, BeginTasks, CreateTask, EndTasks
<1>4. CASE BeginPass2(t) \/ TakePartTask(t) \/ ClusterRelation(t) \/ EndPass2(t)
  BY <1>4 DEF BeginPass2, TakePartTask, ClusterRelation, EndPass2
<1>5. CASE GetJoinSlot(t) \/ AddJoinTask(t) \/ SkipCluster(t) \/ EndPartTask(t)
  BY <1>5 DEF GetJoinSlot, AddJoinTask, SkipCluster, EndPartTask
<1>6. CASE NextSkewTask(t) \/ SeeSkewTask(t) \/ AllocateAgain(t) \/ PartitionAgain(t)
  BY <1>6 DEF NextSkewTask, SeeSkewTask, AllocateAgain, PartitionAgain
<1>7. CASE BeginJoinTasks(t) \/ CreateJoinTask(t) \/ EndJoinTasks(t) \/ MoveLargeTask(t) \/ EndSkew(t)
  BY <1>7 DEF BeginJoinTasks, CreateJoinTask, EndJoinTasks, MoveLargeTask, EndSkew
<1>8. CASE Joins(t)
  BY <1>8 DEF Joins, BeginJoin, TakeJoinTask, RunJoin, EndJoin, Exit
<1>9. QED
  BY <1>1, <1>2, <1>3, <1>4, <1>5, <1>6, <1>7, <1>8 DEF Thread, Pass1, Pass2, Skew

LEMMA WholeFacts ==
  ASSUME SkewInv, NEW x \in Rel
  PROVE  /\ IsPart(Whole(x)) /\ Whole(x).at + Whole(x).num <= Size(x)
         /\ Places(x) \subseteq 0 .. (Size(x) - 1)
         /\ Places(x) \in SUBSET Int /\ IsFiniteSet(Places(x)) /\ Cardinality(Places(x)) = Whole(x).num
         /\ Size(x) \in Nat
<1>1. Size(x) \in Nat
  BY RadixJoinAssumption DEF Size
<1>2. IsPart(Whole(x)) /\ Whole(x).at + Whole(x).num <= Size(x)
  BY <1>1 DEF SkewInv, Region, Whole, IsPart
<1>3. Places(x) \subseteq 0 .. (Size(x) - 1)
  BY <1>1, <1>2 DEF Places, Positions, IsPart
<1>4. QED
  BY <1>1, <1>2, <1>3, PositionsFacts DEF Places

LEMMA MyPartIsOwn ==
  ASSUME ShapeInv, NEW t \in Threads, NEW x \in Rel, pc[t] # "unborn"
  PROVE  MyPart(t, x) = Own(t, x)
BY DEF ShapeInv, MyPart, Own, Whole

LEMMA ThreadParallel ==
  ASSUME OrderInv, NEW t \in Threads, Thread(t)
  PROVE  Parallel /\ Parallel' /\ OrderInv'
<1>1. OrderInv' /\ Moves(t) /\ mainPc' = mainPc
  BY OrderStep
<1>2. pc[t] # "unborn" /\ pc[t] # "exited"
  BY <1>1 DEF Moves, Arrives, Leaves, Stays, ArriveMove, LeaveMove, StayMove
<1>3. mainPc \in {"spawn", "join"}
  BY <1>2 DEF OrderInv, MainInv
<1>4. QED
  BY <1>1, <1>3 DEF Parallel

(* Where thread 0 is at a partition, and where the others then are. *)
LEMMA AtThePartition ==
  OrderInv /\ Active =>
    /\ ~Again => arrived[0] <= 4 /\ AtRelations(pc[0], left[0])
    /\ Again => left[0] > 5 /\ AtSkewed(0, pc[0], left[0])
<1>0. SUFFICES ASSUME OrderInv, Active
               PROVE  /\ ~Again => arrived[0] <= 4 /\ AtRelations(pc[0], left[0])
                      /\ Again => left[0] > 5 /\ AtSkewed(0, pc[0], left[0])
  OBVIOUS
<1>1. PhaseInv(0)
  BY <1>0, ThreadsFinite DEF OrderInv
<1>2. PICK l, x, k, a : l = pc[0] /\ x = side[0] /\ k = left[0] /\ a = arrived[0]
  OBVIOUS
<1>3. Phase(0, l, x, k, a) /\ Announced(0, l, k)
  BY <1>1, <1>2 DEF PhaseInv
<1>4. l \in {"unborn", "start", "wait_start", "wait_allocate", "count", "wait_count", "scatter",
             "wait_scatter", "wait_again", "create", "create_join"}
  BY <1>0, <1>2 DEF Active
<1>5. AtRelations(l, k) => a <= 4
  BY <1>3 DEF Phase, AtRelations, Counting, InStage
<1>6. AtSkewed(0, l, k) => k > 5
  BY <1>3 DEF Phase, AtSkewed, Counting
<1>7. AtRelations(l, k) \/ AtSkewed(0, l, k)
  BY <1>3, <1>4 DEF Phase, AtRelations, AtSkewed, Counting
<1>8. QED
  BY <1>2, <1>3, <1>5, <1>6, <1>7 DEF Announced

(* Nobody is ahead of thread 0 by more than a barrier. *)
CountersActive == \A t \in Threads : pc[t] \in Counting => Active

LEMMA CountingActive == OrderInv => CountersActive
<1>1. SUFFICES ASSUME OrderInv, NEW t \in Threads, pc[t] \in Counting
               PROVE  Active
  BY DEF CountersActive
<1>2. PhaseInv(0) /\ PhaseInv(t) /\ left[0] <= arrived[t] /\ left[t] <= arrived[0]
  BY <1>1, ThreadsFinite DEF OrderInv
<1>3. PICK l, x, k, a : l = pc[t] /\ x = side[t] /\ k = left[t] /\ a = arrived[t]
  OBVIOUS
<1>4. PICK m, y, n, b : m = pc[0] /\ y = side[0] /\ n = left[0] /\ b = arrived[0]
  OBVIOUS
<1>5. Phase(t, l, x, k, a) /\ Announced(t, l, k) /\ Phase(0, m, y, n, b) /\ Announced(0, m, n)
  BY <1>2, <1>3, <1>4 DEF PhaseInv
<1>6. n <= a /\ k <= b
  BY <1>2, <1>3, <1>4
<1>7. CASE k <= 5
  <2>1. k \in {1, 2, 3} /\ a <= 3
    BY <1>1, <1>3, <1>5, <1>7 DEF Phase, InStage, Counting
  <2>2. m \in {"unborn", "start", "wait_start", "count", "wait_count", "scatter", "wait_scatter"}
    BY <1>5, <1>6, <2>1 DEF Phase, Labels, Pass1Labels, Pass2Labels, SkewLabels, JoinLabels
  <2>3. QED
    BY <1>4, <2>2 DEF Active
<1>8. CASE k > 5
  <2>1. Again
    BY <1>1, <1>3, <1>5, <1>8 DEF Announced, AtSkewed
  <2>2. ~Late(m) /\ ~AtRelations(m, n)
    BY <1>5, <2>1 DEF Announced
  <2>3. k % 5 \in {2, 3, 4} /\ a \in {k, k + 1} /\ (k % 5 = 4 => a = k)
    BY <1>1, <1>3, <1>5, <1>8 DEF Phase, InStage, Counting
  <2>4. m \notin {"skew", "wait_skew", "allocate"}
    BY <1>5, <1>6, <1>8, <2>3 DEF Phase
  <2>5. m \notin {"created", "wait_tasks", "partition", "cluster", "emit", "add"}
    BY <1>5, <1>6, <1>8, <2>3 DEF Phase
  <2>6. QED
    BY <1>4, <1>5, <2>2, <2>4, <2>5 DEF Phase, Active, Late, AtRelations, Labels, Pass1Labels, Pass2Labels, SkewLabels, JoinLabels
<1>9. QED
  BY <1>5, <1>7, <1>8 DEF Phase

(* What is partitioned is a permutation of the tuples that have to be: R   *)
(* and S as they came, or a skewed cluster that the first pass has made.   *)
LEMMA FromValid ==
  ASSUME OrderInv, ShapeInv, SkewInv, InputInv, Parallel, Active, NEW x \in Rel
  PROVE  /\ \A p \in Places(x) : From(x)[p] \in 0 .. (Size(x) - 1)
         /\ \A p \in Places(x) : TheDigits(x)[p] \in 0 .. (FanOut - 1)
         /\ ~Again => \A p \in 0 .. (Size(x) - 1) : From(x)[p] = p
<1>1. Places(x) \subseteq 0 .. (Size(x) - 1) /\ Size(x) \in Nat
  BY WholeFacts
<1>2. ~Again => \A p \in 0 .. (Size(x) - 1) : From(x)[p] = p
  <2>1. SUFFICES ASSUME ~Again PROVE \A p \in 0 .. (Size(x) - 1) : From(x)[p] = p
    OBVIOUS
  <2>2. \A t \in Threads : left[t] < 5
    <3>1. arrived[0] <= 4
      BY <2>1, AtThePartition
    <3>2. \A t \in Threads : left[t] <= arrived[0] /\ left[t] \in Nat /\ arrived[0] \in Nat
      BY ThreadsFinite DEF OrderInv, PhaseInv, Phase
    <3>3. QED
      BY <3>1, <3>2
  <2>3. QED
    BY <2>1, <2>2 DEF InputInv, From
<1>3. \A p \in 0 .. (Size(x) - 1) : From(x)[p] \in 0 .. (Size(x) - 1)
  <2>1. CASE ~Again
    BY <1>2, <2>1
  <2>2. CASE Again
    <3>1. left[0] >= 4
      <4>1. left[0] > 5
        BY <2>2, AtThePartition
      <4>2. left[0] \in Nat
        BY ThreadsFinite DEF OrderInv, PhaseInv, Phase
      <4>3. QED
        BY <4>1, <4>2
    <3>2. \A t \in Threads : ~Joining(pc[t])
      BY <2>2 DEF OrderInv, PhaseInv, Announced, Late, Joining
    <3>3. QED
      BY <2>2, <3>1, <3>2 DEF InputInv, From
  <2>3. QED
    BY <2>1, <2>2
<1>4. ASSUME NEW p \in Places(x)
      PROVE  TheDigits(x)[p] \in 0 .. (FanOut - 1)
  <2>1. PICK tuple : tuple = From(x)[p]
    OBVIOUS
  <2>2. tuple \in 0 .. (Size(x) - 1)
    BY <1>1, <1>3, <2>1
  <2>3. key[x][tuple] \in Nat
    BY <2>2, RadixJoinAssumption DEF ShapeInv
  <2>4. PICK k \in Nat : k = key[x][tuple]
    BY <2>3
  <2>5. TheDigits(x)[p] = IF Again THEN Digit(k, Bits1, FanOut2) ELSE Digit(k, 0, FanOut1)
    BY <2>1, <2>4 DEF TheDigits, DigitOf
  <2>6. Digit(k, Bits1, FanOut2) \in 0 .. (FanOut2 - 1) /\ Digit(k, 0, FanOut1) \in 0 .. (FanOut1 - 1)
    BY DigitType, FanOutTypes, RadixAssumption
  <2>7. QED
    BY <2>5, <2>6 DEF FanOut
<1>5. QED
  BY <1>1, <1>2, <1>3, <1>4

(* While thread 0 is at a partition, what is partitioned does not change.  *)
LEMMA ContextStill ==
  ASSUME OrderInv, NEW t \in Threads, Thread(t), Active'
  PROVE  /\ UNCHANGED <<skewtask, key, Again, FanOut>>
         /\ \A x \in Rel : UNCHANGED <<From(x), Whole(x), Places(x), TheDigits(x)>>
         /\ \A x \in Rel, u \in Threads : UNCHANGED Own(u, x)
         /\ \A x \in Rel : \A p : UNCHANGED PlaceOf(x, p)
<1>1. OrderInv' /\ Moves(t) /\ key' = key /\ (skewtask' = skewtask \/ (t = 0 /\ NextSkewTask(t)))
  BY OrderStep
<1>2. skewtask' = skewtask
  <2>1. t = 0 /\ NextSkewTask(t) => pc'[0] = "wait_skew"
    BY DEF NextSkewTask, Goto, OrderInv
  <2>2. QED
    BY <1>1, <2>1 DEF Active
<1>3. UNCHANGED <<skewtask, key, Again, FanOut>>
  BY <1>1, <1>2 DEF Again, FanOut
<1>4. PhaseInv(t)
  BY DEF OrderInv
<1>5. OrderInv' /\ Active' => (~Again => arrived[0] <= 4 /\ AtRelations(pc[0], left[0]))'
  BY AtThePartition, PTL
<1>6. ASSUME ClusterRelation(t) PROVE Again
  <2>1. SUFFICES ASSUME ~Again PROVE FALSE
    OBVIOUS
  <2>2. pc[t] = "cluster" /\ left[t] = 5
    BY <1>4, <1>6 DEF ClusterRelation, PhaseInv, Phase
  <2>3. UNCHANGED arrived
    BY <1>6 DEF ClusterRelation, barrier
  <2>4. left[t] <= arrived[0] /\ arrived[0] \in Nat
    BY ThreadsFinite DEF OrderInv, PhaseInv, Phase
  <2>5. QED
    BY <1>1, <1>3, <1>5, <2>1, <2>2, <2>3, <2>4
<1>7. ASSUME RunJoin(t) PROVE ~Again
  BY <1>4, <1>7 DEF RunJoin, PhaseInv, Announced, Late
<1>8. ASSUME NEW x \in Rel
      PROVE  UNCHANGED From(x)
  BY <1>3, <1>6, <1>7, Changes DEF From
<1>9. ASSUME NEW x \in Rel
      PROVE  UNCHANGED <<Whole(x), Places(x)>>
  BY <1>3 DEF Whole, Places, Positions, Size
<1>10. ASSUME NEW x \in Rel
       PROVE  UNCHANGED TheDigits(x)
  BY <1>3, <1>8, <1>9, <1>10 DEF TheDigits, DigitOf
<1>11. ASSUME NEW x \in Rel, NEW u \in Threads
       PROVE  UNCHANGED Own(u, x)
  BY <1>9, <1>11 DEF Own, Share
<1>12. ASSUME NEW x \in Rel, NEW p
       PROVE  UNCHANGED PlaceOf(x, p)
  BY <1>9, <1>10, <1>12 DEF PlaceOf, Place, Below
<1>13. QED
  BY <1>3, <1>8, <1>9, <1>10, <1>11, <1>12

(* What is partitioned is put into its place by scattering only.           *)
LEMMA ToStill ==
  ASSUME OrderInv, NEW t \in Threads, Thread(t), Active', ~Scatter(t)
  PROVE  \A x \in Rel : UNCHANGED To(x)
<1>1. OrderInv' /\ Moves(t) /\ UNCHANGED Again
  BY OrderStep, ContextStill
<1>2. PhaseInv(t) /\ left[0] <= arrived[t] /\ left[t] <= arrived[0] /\ arrived[0] \in Nat /\ left[0] \in Nat
  BY ThreadsFinite DEF OrderInv, PhaseInv, Phase
<1>3. OrderInv' /\ Active' =>
        /\ (~Again => arrived[0] <= 4 /\ AtRelations(pc[0], left[0]))'
        /\ (Again => left[0] > 5 /\ AtSkewed(0, pc[0], left[0]))'
  BY AtThePartition, PTL
<1>4. ASSUME ClusterRelation(t) PROVE ~Again
  <2>1. pc[t] = "cluster" /\ left[t] = 5 /\ arrived[t] = 5
    BY <1>2, <1>4 DEF ClusterRelation, PhaseInv, Phase
  <2>2. UNCHANGED left
    BY <1>4 DEF ClusterRelation, barrier
  <2>3. QED
    BY <1>1, <1>2, <1>3, <2>1, <2>2
<1>5. ASSUME RunJoin(t) PROVE Again
  <2>1. pc[t] = "join" /\ left[t] > 5
    BY <1>2, <1>5 DEF RunJoin, PhaseInv, Phase
  <2>2. UNCHANGED arrived
    BY <1>5 DEF RunJoin, barrier
  <2>3. left[t] \in Nat
    BY <1>2 DEF PhaseInv, Phase
  <2>4. QED
    BY <1>1, <1>2, <1>3, <2>1, <2>2, <2>3
<1>6. QED
  BY <1>1, <1>4, <1>5, Changes DEF To

(* What a thread does at these labels.                                     *)
LEMMA Acts ==
  ASSUME NEW t \in Threads, Thread(t)
  PROVE  /\ pc[t] = "count" => Count(t)
         /\ pc[t] = "wait_count" => BeginScatter(t)
         /\ pc[t] = "scatter" => Scatter(t) \/ EndScatterR(t) \/ EndScatterS(t)
         /\ pc[t] = "allocate" => AllocateAgain(t)
         /\ AllocateAgain(t) => pc[t] = "allocate"
         /\ Count(t) => pc[t] = "count"
         /\ BeginScatter(t) => pc[t] = "wait_count"
         /\ Scatter(t) => pc[t] = "scatter"
<1>1. CASE Start(t) \/ BeginPass1(t) \/ Count(t) \/ BeginScatter(t) \/ EndScatterR(t) \/ EndScatterS(t)
  BY <1>1 DEF Start, BeginPass1, Count, BeginScatter, EndScatterR, EndScatterS, Scatter, AllocateAgain
<1>2. CASE Scatter(t) \/ AllocateAgain(t)
  BY <1>2 DEF Scatter, AllocateAgain, Count, BeginScatter
<1>3. CASE Tasks(t)
  BY <1>3 DEF Tasks, BeginTasks, CreateTask, EndTasks, Scatter, AllocateAgain, Count, BeginScatter
<1>4. CASE BeginPass2(t) \/ TakePartTask(t) \/ ClusterRelation(t) \/ EndPass2(t)
  BY <1>4 DEF BeginPass2, TakePartTask, ClusterRelation, EndPass2, Scatter, AllocateAgain, Count, BeginScatter
<1>5. CASE GetJoinSlot(t) \/ AddJoinTask(t) \/ SkipCluster(t) \/ EndPartTask(t)
  BY <1>5 DEF GetJoinSlot, AddJoinTask, SkipCluster, EndPartTask, Scatter, AllocateAgain, Count, BeginScatter
<1>6. CASE NextSkewTask(t) \/ SeeSkewTask(t) \/ PartitionAgain(t)
  BY <1>6 DEF NextSkewTask, SeeSkewTask, PartitionAgain, Scatter, AllocateAgain, Count, BeginScatter
<1>7. CASE BeginJoinTasks(t) \/ CreateJoinTask(t) \/ EndJoinTasks(t) \/ MoveLargeTask(t) \/ EndSkew(t)
  BY <1>7 DEF BeginJoinTasks, CreateJoinTask, EndJoinTasks, MoveLargeTask, EndSkew, Scatter, AllocateAgain, Count, BeginScatter
<1>8. CASE Joins(t)
  BY <1>8 DEF Joins, BeginJoin, TakeJoinTask, RunJoin, EndJoin, Exit, Scatter, AllocateAgain, Count, BeginScatter
<1>9. QED
  BY <1>1, <1>2, <1>3, <1>4, <1>5, <1>6, <1>7, <1>8 DEF Thread, Pass1, Pass2, Skew

(* The labels of the other threads stay. *)
LEMMA OthersStay ==
  ASSUME OrderInv, NEW t \in Threads, Thread(t), NEW u \in Threads, u # t
  PROVE  UNCHANGED <<pc[u], side[u], left[u], arrived[u]>>
BY OrderStep DEF Moves, Frame, OrderInv

(* Thread 0 comes to another partition only by allocating again. *)
LEMMA BecomesActive ==
  ASSUME OrderInv, NEW t \in Threads, Thread(t), ~Active, Active'
  PROVE  t = 0 /\ AllocateAgain(t) /\ pc[0] = "allocate" /\ pc'[0] = "wait_allocate"
<1>1. Moves(t)
  BY OrderStep
<1>2. t = 0
  BY OthersStay, ThreadsFinite DEF Active
<1>3. pc[0] = "allocate" /\ pc'[0] = "wait_allocate"
  BY <1>1, <1>2 DEF Moves, Arrives, Leaves, Stays, ArriveMove, LeaveMove, StayMove, Active
<1>4. QED
  BY <1>2, <1>3, Acts

LEMMA HistFrame ==
  ASSUME ShapeInv, NEW t \in Threads, Thread(t), NEW u \in Threads, NEW x \in Rel,
         u # t \/ ~ (AllocateAgain(t) \/ (Count(t) /\ x = side[t]))
  PROVE  hist'[x][u] = hist[x][u]
<1>1. DOMAIN hist = Rel /\ DOMAIN hist[x] = Threads
  BY DEF ShapeInv
<1>2. CASE Count(t)
  BY <1>1, <1>2 DEF Count, AllocateAgain
<1>3. CASE AllocateAgain(t)
  BY <1>1, <1>3 DEF AllocateAgain
<1>4. QED
  BY <1>2, <1>3, Changes

LEMMA NobodyCounted ==
  ASSUME NEW y, NEW n, Phase(0, "allocate", y, n, n),
         NEW u, NEW l, NEW s, NEW k, NEW a, Phase(u, l, s, k, a), k <= n, n <= a, NEW x
  PROVE  ~ (u # 0 /\ Counted(l, s, x))
BY DEF Phase, InStage, Counting, Counted, Behind, Labels, Pass1Labels, Pass2Labels, SkewLabels, JoinLabels

LEMMA UncountedStill ==
  ASSUME OrderInv, NEW t \in Threads, Thread(t), NEW u \in Threads, NEW x,
         Uncounted(pc'[u], side'[u], x)
  PROVE  skewtask' = skewtask
<1>1. SUFFICES ASSUME t = 0, NextSkewTask(t) PROVE FALSE
  BY OrderStep
<1>2. pc'[t] = "wait_skew" /\ (pc[t] = "skew" \/ (pc[t] = "partition" /\ skew))
  BY <1>1 DEF NextSkewTask, Goto, OrderInv
<1>3. u # t
  BY <1>2 DEF Uncounted
<1>4. UNCHANGED <<pc[u], side[u], left[u], arrived[u]>>
  BY <1>3, OthersStay
<1>5. PhaseInv(u) /\ PhaseInv(0) /\ left[u] <= arrived[0] /\ left[0] <= arrived[u]
  BY ThreadsFinite DEF OrderInv
<1>6. PICK l, s, k, a : l = pc[u] /\ s = side[u] /\ k = left[u] /\ a = arrived[u]
  OBVIOUS
<1>7. PICK m, y, n, b : m = pc[0] /\ y = side[0] /\ n = left[0] /\ b = arrived[0]
  OBVIOUS
<1>8. Phase(u, l, s, k, a) /\ Phase(0, m, y, n, b) /\ k <= b /\ n <= a
  BY <1>5, <1>6, <1>7 DEF PhaseInv
<1>9. m = "skew" \/ (m = "partition" /\ skew)
  BY <1>1, <1>2, <1>7
<1>10. ~AtSkewed(u, l, k) /\ ~AtRelations(l, k)
  BY <1>1, <1>3, <1>8, <1>9, NobodyConcerned
<1>11. k \in Nat
  BY <1>8 DEF Phase
<1>12. Uncounted(l, s, x)
  BY <1>4, <1>6
<1>13. QED
  BY <1>10, <1>11, <1>12 DEF Uncounted, AtSkewed, AtRelations, Counting

LEMMA HistogramStep ==
  ASSUME OrderInv, ShapeInv, SkewInv, InputInv, HistogramInv, NEW t \in Threads, Thread(t)
  PROVE  HistogramInv'
<1>1. /\ OrderInv' /\ Moves(t) /\ Parallel
  BY OrderStep, ThreadParallel
<1>2. \A u \in Threads : side[u] \in Rel /\ side'[u] \in Rel
  BY <1>1 DEF OrderInv, PhaseInv, Phase
<1>3. ASSUME NEW u \in Threads, NEW x \in Rel, Uncounted(pc'[u], side'[u], x)
      PROVE  hist'[x][u] = [c \in 0 .. (FanOut' - 1) |-> 0]
  <2>1. FanOut' = FanOut
    <3>1. skewtask' = skewtask
      BY <1>3, UncountedStill
    <3>2. QED
      BY <3>1 DEF FanOut, Again
  <2>2. CASE u # t
    <3>1. Uncounted(pc[u], side[u], x)
      BY <1>3, <2>2, OthersStay
    <3>2. hist[x][u] = [c \in 0 .. (FanOut - 1) |-> 0]
      BY <1>1, <3>1 DEF HistogramInv
    <3>3. hist'[x][u] = hist[x][u]
      BY <2>2, HistFrame
    <3>4. QED
      BY <2>1, <3>2, <3>3
  <2>3. CASE u = t /\ AllocateAgain(t)
    <3>1. hist'[x][t] = [c \in 0 .. (FanOut2 - 1) |-> 0]
      BY <2>3 DEF AllocateAgain, ShapeInv
    <3>2. pc'[t] = "wait_allocate"
      BY <2>3 DEF AllocateAgain, Goto, OrderInv
    <3>3. Again'
      BY <1>1, <3>2 DEF OrderInv, PhaseInv, Announced, AtSkewed
    <3>4. QED
      BY <2>3, <3>1, <3>3 DEF FanOut
  <2>4. CASE u = t /\ ~AllocateAgain(t)
    <3>1. pc[t] # "allocate"
      BY <2>4, Acts
    <3>2. Phase(t, pc[t], side[t], left[t], arrived[t])
      BY DEF OrderInv, PhaseInv
    <3>3. Uncounted(pc[t], side[t], x)
      BY <1>1, <1>2, <1>3, <2>4, <3>1, <3>2
         DEF Moves, Arrives, Leaves, Stays, ArriveMove, LeaveMove, StayMove, Uncounted, Rel, Phase
    <3>4. ~ (Count(t) /\ x = side[t])
      <4>1. SUFFICES ASSUME Count(t), x = side[t] PROVE FALSE
        OBVIOUS
      <4>2. pc'[t] = "wait_count" /\ side'[t] = side[t]
        BY <4>1 DEF Count, Goto, OrderInv
      <4>3. QED
        BY <1>2, <1>3, <2>4, <4>1, <4>2 DEF Uncounted, Rel
    <3>5. QED
      BY <1>1, <2>1, <2>4, <3>3, <3>4, HistFrame DEF HistogramInv
  <2>5. QED
    BY <2>2, <2>3, <2>4
<1>4. ASSUME NEW u \in Threads, NEW x \in Rel, Active', Counted(pc'[u], side'[u], x)
      PROVE  (hist[x][u] = [c \in 0 .. (FanOut - 1) |-> Below(TheDigits(x), Positions(Own(u, x)), c + 1)])'
  <2>1. PICK d, P, F : d = TheDigits(x) /\ P = Positions(Own(u, x)) /\ F = FanOut
    OBVIOUS
  <2>2. d = TheDigits(x)' /\ P = Positions(Own(u, x))' /\ F = FanOut'
    BY <1>4, <2>1, ContextStill DEF Positions
  <2>3. SUFFICES hist'[x][u] = [c \in 0 .. (F - 1) |-> Below(d, P, c + 1)]
    BY <2>2 DEF Below
  <2>4. Active
    <3>1. SUFFICES ASSUME ~Active PROVE FALSE
      OBVIOUS
    <3>2. t = 0 /\ pc[0] = "allocate" /\ pc'[0] = "wait_allocate"
      BY <1>4, <3>1, BecomesActive
    <3>3. u # 0
      BY <1>4, <3>2 DEF Counted, Behind
    <3>4. Counted(pc[u], side[u], x)
      BY <1>4, <3>2, <3>3, OthersStay
    <3>5. PhaseInv(u) /\ PhaseInv(0) /\ left[u] <= arrived[0] /\ left[0] <= arrived[u]
      BY ThreadsFinite DEF OrderInv
    <3>6. PICK l, s, k, a : l = pc[u] /\ s = side[u] /\ k = left[u] /\ a = arrived[u]
      OBVIOUS
    <3>7. PICK y, n : y = side[0] /\ n = left[0]
      OBVIOUS
    <3>8. arrived[0] = n
      BY <3>2, <3>5, <3>7 DEF PhaseInv, Phase
    <3>9. Phase(u, l, s, k, a) /\ Phase(0, "allocate", y, n, n) /\ k <= n /\ n <= a
      BY <3>2, <3>5, <3>6, <3>7, <3>8 DEF PhaseInv
    <3>10. QED
      BY <3>3, <3>4, <3>6, <3>9, NobodyCounted
  <2>5. Counted(pc[u], side[u], x) => hist[x][u] = [c \in 0 .. (F - 1) |-> Below(d, P, c + 1)]
    BY <1>1, <2>1, <2>4 DEF HistogramInv
  <2>6. CASE u # t
    <3>1. Counted(pc[u], side[u], x)
      BY <1>4, <2>6, OthersStay
    <3>2. QED
      BY <2>5, <2>6, <3>1, HistFrame
  <2>7. CASE u = t /\ Count(t) /\ x = side[t]
    <3>1. pc[t] = "count"
      BY <2>7, Acts
    <3>2. hist[x][t] = [c \in 0 .. (F - 1) |-> 0]
      <4>1. Uncounted(pc[t], side[t], x)
        BY <1>2, <2>7, <3>1 DEF Uncounted, Rel
      <4>2. QED
        BY <1>1, <2>1, <4>1 DEF HistogramInv
    <3>3. MyPart(t, x) = Own(t, x)
      BY <3>1, MyPartIsOwn
    <3> DEFINE e == [p \in P |-> DigitOf(x, From(x)[p])]
    <3>4. hist'[x][t] = [c \in 0 .. (F - 1) |-> 0 + Below(e, P, c + 1)]
      BY <2>1, <2>7, <3>2, <3>3 DEF Count, ShapeInv
    <3>5. IsPart(Whole(x)) /\ IsPart(Own(t, x))
      BY WholeFacts, ShareFacts DEF Own
    <3>6. P \subseteq Places(x)
      BY <2>1, <2>7, <3>5, OwnersInOrder DEF Own, Places
    <3>7. P \in SUBSET Int /\ IsFiniteSet(P)
      BY <2>1, <2>7, <3>5, PositionsFacts
    <3>8. \A p \in P : e[p] = d[p]
      BY <2>1, <3>6 DEF TheDigits
    <3>9. \A c : Below(e, P, c) = Below(d, P, c)
      BY <3>8 DEF Below
    <3>10. \A c \in 0 .. (F - 1) : 0 + Below(d, P, c + 1) = Below(d, P, c + 1)
      <4>1. \A p \in P : d[p] \in 0 .. (F - 1)
        BY <1>1, <2>1, <2>4, <3>6, FromValid
      <4>2. F \in Nat
        BY <2>1, FanOutTypes
      <4>3. \A c \in Nat : Below(d, P, c) \in Nat
        BY <3>7, <4>1, <4>2, BelowFacts
      <4>4. \A c \in 0 .. (F - 1) : c + 1 \in Nat
        OBVIOUS
      <4>5. QED
        BY <4>3, <4>4
    <3>11. QED
      BY <2>7, <3>4, <3>9, <3>10
  <2>8. CASE u = t /\ ~ (Count(t) /\ x = side[t])
    <3>1. ~AllocateAgain(t)
      <4>1. AllocateAgain(t) => pc'[t] = "wait_allocate"
        BY DEF AllocateAgain, Goto, OrderInv
      <4>2. QED
        BY <1>4, <2>8, <4>1 DEF Counted, Behind
    <3>2. ~ (pc[t] = "count" /\ x = side[t])
      BY <2>8, Acts
    <3>3. Phase(t, pc[t], side[t], left[t], arrived[t])
      BY DEF OrderInv, PhaseInv
    <3>4. Counted(pc[t], side[t], x)
      BY <1>1, <1>2, <1>4, <2>8, <3>2, <3>3
         DEF Moves, Arrives, Leaves, Stays, ArriveMove, LeaveMove, StayMove, Counted, Behind, Rel, Phase
    <3>5. QED
      BY <2>5, <2>8, <3>1, <3>4, HistFrame
  <2>9. QED
    BY <2>6, <2>7, <2>8
<1>5. QED
  BY <1>3, <1>4 DEF HistogramInv

(* Who begins to scatter finds everybody's histogram counted. *)
LEMMA EverybodyCounted ==
  ASSUME NEW t, NEW s, NEW k, Phase(t, "wait_count", s, k, k + 1),
         NEW u, NEW l, NEW y, NEW n, NEW b, Phase(u, l, y, n, b), k + 1 <= b, n <= k + 1,
         k > 5 => ~Late(l)
  PROVE  Counted(l, y, s)
BY DEF Phase, InStage, Counting, Counted, Behind, Late, Rel, Labels, Pass1Labels, Pass2Labels,
       SkewLabels, JoinLabels

LEMMA StartsCorrect ==
  ASSUME OrderInv, ShapeInv, SkewInv, InputInv, HistogramInv, NEW t \in Threads, BeginScatter(t),
         NEW x \in Rel, x = side[t], Parallel
  PROVE  /\ Active /\ pc[t] = "wait_count"
         /\ \A c \in 0 .. (FanOut - 1) :
              ClusterStart(t, x, c) = Before(TheDigits(x), Places(x), c, Own(t, x).at)
<1>1. pc[t] = "wait_count" /\ left[t] < arrived[t] /\ \A u \in Threads : arrived[u] >= arrived[t]
  BY DEF BeginScatter, Sync!Leave
<1>2. Active
  BY <1>1, CountingActive DEF CountersActive, Counting
<1>3. ASSUME NEW u \in Threads
      PROVE  hist[x][u] = [c \in 0 .. (FanOut - 1) |->
                             Below(TheDigits(x), Positions(Own(u, x)), c + 1)]
  <2>1. PhaseInv(u) /\ PhaseInv(t) /\ left[u] <= arrived[t]
    BY DEF OrderInv
  <2>2. PICK k, l, y, n, b : k = left[t] /\ l = pc[u] /\ y = side[u] /\ n = left[u] /\ b = arrived[u]
    OBVIOUS
  <2>3. arrived[t] = k + 1 /\ Phase(t, "wait_count", x, k, k + 1) /\ Phase(u, l, y, n, b)
    <3>1. arrived[t] = k + 1
      BY <1>1, <2>1, <2>2 DEF PhaseInv, Phase, Counting
    <3>2. QED
      BY <1>1, <2>1, <2>2, <3>1 DEF PhaseInv
  <2>4. k + 1 <= b /\ n <= k + 1
    BY <1>1, <2>1, <2>2, <2>3 DEF Phase
  <2>5. k > 5 => ~Late(l)
    <3>1. k > 5 => Again
      BY <1>1, <2>1, <2>2 DEF PhaseInv, Announced, AtSkewed, Counting
    <3>2. QED
      BY <2>1, <2>2, <3>1 DEF PhaseInv, Announced
  <2>6. Counted(pc[u], side[u], x)
    BY <2>2, <2>3, <2>4, <2>5, EverybodyCounted
  <2>7. QED
    BY <1>2, <2>6 DEF HistogramInv
<1>4. PICK whole, d, F : whole = Whole(x) /\ d = TheDigits(x) /\ F = FanOut
  OBVIOUS
<1>5. Histograms(x, whole, d, F)
  BY <1>3, <1>4 DEF Histograms, Own
<1>6. IsPart(whole) /\ F \in Nat /\ Places(x) = Positions(whole)
  BY <1>4, WholeFacts, FanOutTypes DEF Places
<1>7. \A p \in Positions(whole) : d[p] \in 0 .. (F - 1)
  BY <1>2, <1>4, <1>6, FromValid
<1>8. \A c \in 0 .. (F - 1) : ClusterStart(t, x, c) = Before(d, Positions(whole), c, Share(whole, t).at)
  BY <1>5, <1>6, <1>7, ClusterStartCorrect
<1>9. QED
  BY <1>1, <1>2, <1>4, <1>6, <1>8 DEF Own

LEMMA BoundaryStep ==
  ASSUME OrderInv, ShapeInv, SkewInv, InputInv, HistogramInv, BoundaryInv, NEW t \in Threads, Thread(t)
  PROVE  BoundaryInv'
<1>1. OrderInv' /\ Moves(t) /\ Parallel
  BY OrderStep, ThreadParallel
<1>2. SUFFICES ASSUME NEW x \in Rel, Active', Planned(pc'[0], side'[0], x)
               PROVE  (output[0][x] = [c \in 0 .. FanOut |-> Below(TheDigits(x), Places(x), c)])'
  BY DEF BoundaryInv
<1>3. PICK d, P, F : d = TheDigits(x) /\ P = Places(x) /\ F = FanOut
  OBVIOUS
<1>4. d = TheDigits(x)' /\ P = Places(x)' /\ F = FanOut'
  BY <1>2, <1>3, ContextStill
<1>5. SUFFICES output'[0][x] = [c \in 0 .. F |-> Below(d, P, c)]
  BY <1>4 DEF Below
<1>6. Active
  BY <1>2, BecomesActive DEF Planned, Behind
<1>7. DOMAIN output = Threads /\ (\A u \in Threads : DOMAIN output[u] = Rel) /\ 0 \in Threads /\ side[0] \in Rel
  BY ThreadsFinite DEF ShapeInv, OrderInv, PhaseInv, Phase
<1>8. Planned(pc[0], side[0], x) => output[0][x] = [c \in 0 .. F |-> Below(d, P, c)]
  BY <1>1, <1>3, <1>6 DEF BoundaryInv
<1>9. ~ (t = 0 /\ AllocateAgain(t))
  <2>1. t = 0 /\ AllocateAgain(t) => pc'[0] = "wait_allocate"
    BY DEF AllocateAgain, Goto, OrderInv
  <2>2. QED
    BY <1>2, <2>1 DEF Planned, Behind
<1>10. CASE t = 0 /\ BeginScatter(t) /\ x = side[0]
  <2>1. \A c \in 0 .. (F - 1) : ClusterStart(0, x, c) = Before(d, P, c, Own(0, x).at)
    BY <1>1, <1>3, <1>10, StartsCorrect
  <2>2. \A p \in P : d[p] \in 0 .. (F - 1)
    BY <1>1, <1>3, <1>6, FromValid
  <2>3. P \in SUBSET Int /\ IsFiniteSet(P) /\ Cardinality(P) = Whole(x).num /\ IsPart(Whole(x))
    BY <1>3, WholeFacts
  <2>4. F \in Nat /\ Padding = 0
    BY <1>3, FanOutTypes
  <2>5. Own(0, x).at = Whole(x).at /\ Whole(x).at \in Int /\ \A p \in P : p >= Whole(x).at
    <3>1. Own(0, x).at = Whole(x).at
      BY <1>7, <2>3, ShareFacts DEF Own
    <3>2. QED
      BY <1>3, <2>3, <3>1 DEF Places, Positions, IsPart
  <2>6. ASSUME NEW c \in 0 .. (F - 1)
        PROVE  ClusterStart(0, x, c) = Below(d, P, c)
    <3>1. c \in Nat
      OBVIOUS
    <3>2. Before(d, P, c, Own(0, x).at) = Below(d, P, c)
      BY <2>2, <2>3, <2>4, <2>5, <3>1, BeforeEnds
    <3>3. QED
      BY <2>1, <3>2
  <2>7. Below(d, P, F) = Whole(x).num + F * Padding
    <3>1. Below(d, P, F) = Cardinality(P)
      BY <2>2, <2>3, <2>4, BelowFacts
    <3>2. Whole(x).num \in Nat /\ F * Padding = 0
      BY <2>3, <2>4 DEF IsPart
    <3>3. QED
      BY <2>3, <3>1, <3>2
  <2>8. output'[0][x] = [c \in 0 .. F |-> IF c = F THEN Whole(x).num + F * Padding
                                          ELSE [e \in 0 .. (F - 1) |-> ClusterStart(0, x, e)][c]]
    BY <1>3, <1>7, <1>10 DEF BeginScatter, PlanScatter
  <2>9. \A c \in 0 .. F : c # F => c \in 0 .. (F - 1)
    BY <2>4
  <2>10. QED
    BY <2>6, <2>7, <2>8, <2>9
<1>11. CASE ~ (t = 0 /\ BeginScatter(t) /\ x = side[0])
  <2>1. output'[0][x] = output[0][x]
    <3>1. CASE BeginScatter(t)
      BY <1>7, <1>11, <3>1 DEF BeginScatter, PlanScatter
    <3>2. CASE AllocateAgain(t)
      BY <1>7, <1>9, <3>2 DEF AllocateAgain
    <3>3. QED
      BY <3>1, <3>2, Changes
  <2>2. Planned(pc[0], side[0], x)
    <3>1. CASE t # 0
      BY <1>2, <1>7, <3>1, OthersStay
    <3>2. CASE t = 0
      <4>1. ~ (pc[0] = "wait_count" /\ x = side[0])
        BY <1>11, <3>2, Acts
      <4>2. Phase(0, pc[0], side[0], left[0], arrived[0])
        BY <1>7 DEF OrderInv, PhaseInv
      <4>3. side'[0] \in Rel
        BY <1>1, <1>7 DEF OrderInv, PhaseInv, Phase
      <4>4. QED
        BY <1>1, <1>2, <1>7, <3>2, <4>1, <4>2, <4>3
           DEF Moves, Arrives, Leaves, Stays, ArriveMove, LeaveMove, StayMove, Planned, Behind, Rel, Phase
    <3>3. QED
      BY <3>1, <3>2
  <2>3. QED
    BY <1>8, <2>1, <2>2
<1>12. QED
  BY <1>10, <1>11

(* The next tuple goes to its place. *)
LEMMA ScatterEffect ==
  ASSUME OrderInv, ShapeInv, SkewInv, InputInv, CursorInv, NEW t \in Threads, Thread(t), Scatter(t),
         NEW x \in Rel, x = side[t], NEW p, p = Own(t, x).at + cur[t]
  PROVE  /\ Active /\ Active' /\ pc[t] = "scatter" /\ pc' = pc /\ side' = side
         /\ p \in Positions(Own(t, x)) /\ p \in Places(x) /\ cur[t] < Own(t, x).num
         /\ PlaceOf(x, p) \in 0 .. (Size(x) - 1)
         /\ \A q \in 0 .. (Size(x) - 1) :
              To(x)'[q] = IF q = PlaceOf(x, p) THEN From(x)[p] ELSE To(x)[q]
         /\ \A y \in Rel : y # x => To(y)' = To(y)
         /\ cur'[t] = cur[t] + 1 /\ \A u \in Threads : u # t => cur'[u] = cur[u]
         /\ dst' = [dst EXCEPT ![t][TheDigits(x)[p]] = @ + 1]
<1>1. pc[t] = "scatter" /\ pc' = pc /\ side' = side
  BY DEF Scatter
<1>2. Active /\ Active' /\ Parallel /\ UNCHANGED Again
  <2>1. Active /\ Active'
    BY <1>1, CountingActive DEF CountersActive, Counting, Active
  <2>2. QED
    BY <2>1, ContextStill, ThreadParallel
<1>3. MyPart(t, x) = Own(t, x)
  BY <1>1, MyPartIsOwn
<1>4. IsPart(Whole(x)) /\ IsPart(Own(t, x)) /\ Whole(x).at + Whole(x).num <= Size(x) /\ Size(x) \in Nat
  BY WholeFacts, ShareFacts DEF Own
<1>5. cur[t] < Own(t, x).num /\ cur[t] \in Nat
  BY <1>3 DEF Scatter, ShapeInv
<1>6. p \in Positions(Own(t, x))
  BY <1>4, <1>5 DEF Positions, IsPart
<1>7. p \in Places(x)
  BY <1>4, <1>6, OwnersInOrder DEF Own, Places
<1>8. PICK d, P, F : d = TheDigits(x) /\ P = Places(x) /\ F = FanOut
  OBVIOUS
<1>9. \A q \in P : d[q] \in 0 .. (F - 1)
  BY <1>2, <1>8, FromValid
<1>10. F \in Nat /\ P \in SUBSET Int /\ IsFiniteSet(P) /\ Cardinality(P) = Whole(x).num
  BY <1>8, FanOutTypes, WholeFacts
<1>11. /\ Place(d, P, 0, p) = Before(d, P, d[p], p) /\ Place(d, P, 0, p) \in Nat
       /\ Place(d, P, 0, p) < Cardinality(P)
  BY <1>7, <1>8, <1>9, <1>10, PlaceInCluster
<1>12. dst[t] = [c \in 0 .. (F - 1) |-> Before(d, P, c, p)]
  BY <1>1, <1>8 DEF CursorInv
<1>13. d[p] \in 0 .. (F - 1) /\ d[p] = DigitOf(x, From(x)[p])
  BY <1>7, <1>8, <1>9 DEF TheDigits
<1>14. PlaceOf(x, p) = Whole(x).at + dst[t][d[p]]
  BY <1>8, <1>11, <1>12, <1>13 DEF PlaceOf
<1>15. PlaceOf(x, p) \in 0 .. (Size(x) - 1)
  <2>1. PlaceOf(x, p) = Whole(x).at + Place(d, P, 0, p)
    BY <1>8 DEF PlaceOf
  <2>2. QED
    BY <1>4, <1>10, <1>11, <2>1 DEF IsPart
<1>16. /\ IF Again THEN rel' = [rel EXCEPT ![x][PlaceOf(x, p)] = From(x)[p]] /\ UNCHANGED tmp
                   ELSE tmp' = [tmp EXCEPT ![x][PlaceOf(x, p)] = From(x)[p]] /\ UNCHANGED rel
       /\ dst' = [dst EXCEPT ![t][d[p]] = @ + 1]
       /\ cur' = [cur EXCEPT ![t] = @ + 1]
  BY <1>3, <1>13, <1>14 DEF Scatter
<1>17. \A q \in 0 .. (Size(x) - 1) :
         To(x)'[q] = IF q = PlaceOf(x, p) THEN From(x)[p] ELSE To(x)[q]
  <2>1. PICK place, tuple, a : place = PlaceOf(x, p) /\ tuple = From(x)[p] /\ a = To(x)
    OBVIOUS
  <2>2. DOMAIN a = 0 .. (Size(x) - 1)
    BY <2>1 DEF To, ShapeInv
  <2>3. To(x)' = [a EXCEPT ![place] = tuple]
    BY <1>2, <1>16, <2>1 DEF To, ShapeInv
  <2>4. QED
    BY <1>15, <2>1, <2>2, <2>3
<1>18. \A y \in Rel : y # x => To(y)' = To(y)
  BY <1>2, <1>16 DEF To, ShapeInv
<1>19. cur'[t] = cur[t] + 1 /\ \A u \in Threads : u # t => cur'[u] = cur[u]
  BY <1>16 DEF ShapeInv
<1>20. QED
  BY <1>1, <1>2, <1>5, <1>6, <1>7, <1>8, <1>15, <1>16, <1>17, <1>18, <1>19

(* Only the thread's own cursors move. *)
LEMMA CursorFrame ==
  ASSUME ShapeInv, NEW t \in Threads, Thread(t), NEW u \in Threads, u # t
  PROVE  cur'[u] = cur[u] /\ dst'[u] = dst[u]
<1> USE DEF ShapeInv, pass1
<1>1. CASE Start(t) \/ BeginPass1(t) \/ Count(t) \/ BeginScatter(t) \/ EndScatterR(t) \/ EndScatterS(t)
  BY <1>1 DEF Start, BeginPass1, Count, BeginScatter, EndScatterR, EndScatterS, PlanScatter
<1>2. CASE Scatter(t)
  BY <1>2 DEF Scatter
<1>3. CASE Tasks(t)
  BY <1>3 DEF Tasks, BeginTasks, CreateTask, EndTasks
<1>4. CASE BeginPass2(t) \/ TakePartTask(t) \/ ClusterRelation(t) \/ EndPass2(t)
  BY <1>4 DEF BeginPass2, TakePartTask, ClusterRelation, EndPass2
<1>5. CASE GetJoinSlot(t) \/ AddJoinTask(t) \/ SkipCluster(t) \/ EndPartTask(t)
  BY <1>5 DEF GetJoinSlot, AddJoinTask, SkipCluster, EndPartTask, NextCluster
<1>6. CASE NextSkewTask(t) \/ SeeSkewTask(t) \/ AllocateAgain(t) \/ PartitionAgain(t)
  BY <1>6 DEF NextSkewTask, SeeSkewTask, AllocateAgain, PartitionAgain
<1>7. CASE BeginJoinTasks(t) \/ CreateJoinTask(t) \/ EndJoinTasks(t) \/ MoveLargeTask(t) \/ EndSkew(t)
  BY <1>7 DEF BeginJoinTasks, CreateJoinTask, EndJoinTasks, MoveLargeTask, EndSkew
<1>8. CASE Joins(t)
  BY <1>8 DEF Joins, BeginJoin, TakeJoinTask, RunJoin, EndJoin, Exit
<1>9. QED
  BY <1>1, <1>2, <1>3, <1>4, <1>5, <1>6, <1>7, <1>8 DEF Thread, Pass1, Pass2, Skew

LEMMA CursorStep ==
  ASSUME OrderInv, ShapeInv, SkewInv, InputInv, HistogramInv, CursorInv, NEW t \in Threads, Thread(t)
  PROVE  CursorInv'
<1>1. OrderInv' /\ Moves(t) /\ Parallel
  BY OrderStep, ThreadParallel
<1>2. SUFFICES ASSUME NEW u \in Threads, pc'[u] = "scatter", NEW x, x = side'[u]
               PROVE  (/\ cur[u] <= Own(u, x).num
                       /\ dst[u] = [c \in 0 .. (FanOut - 1) |->
                                      Before(TheDigits(x), Places(x), c, Own(u, x).at + cur[u])])'
  BY DEF CursorInv
<1>3. x \in Rel
  BY <1>1, <1>2 DEF OrderInv, PhaseInv, Phase
<1>4. Active'
  <2>1. OrderInv' => CountersActive'
    BY CountingActive, PTL
  <2>2. QED
    BY <1>1, <1>2, <2>1 DEF CountersActive, Counting
<1>5. PICK d, P, F, own : d = TheDigits(x) /\ P = Places(x) /\ F = FanOut /\ own = Own(u, x)
  OBVIOUS
<1>6. d = TheDigits(x)' /\ P = Places(x)' /\ F = FanOut' /\ own = Own(u, x)'
  BY <1>3, <1>4, <1>5, ContextStill
<1>7. SUFFICES /\ cur'[u] <= own.num
               /\ dst'[u] = [c \in 0 .. (F - 1) |-> Before(d, P, c, own.at + cur'[u])]
  BY <1>6 DEF Before, Below, Earlier
<1>8. IsPart(own) /\ P \in SUBSET Int /\ IsFiniteSet(P) /\ F \in Nat
  BY <1>3, <1>5, WholeFacts, ShareFacts, FanOutTypes DEF Own
<1>9. CASE u # t
  <2>1. pc[u] = "scatter" /\ x = side[u] /\ cur'[u] = cur[u] /\ dst'[u] = dst[u]
    BY <1>2, <1>9, OthersStay, CursorFrame
  <2>2. QED
    BY <1>5, <2>1 DEF CursorInv
<1>10. CASE u = t /\ Scatter(t)
  <2>1. x = side[t] /\ pc[t] = "scatter"
    BY <1>2, <1>10 DEF Scatter
  <2>2. PICK p : p = Own(t, x).at + cur[t]
    OBVIOUS
  <2>3. /\ Active /\ p \in P /\ cur[t] < own.num /\ cur'[t] = cur[t] + 1
        /\ dst' = [dst EXCEPT ![t][d[p]] = @ + 1]
    BY <1>3, <1>5, <1>10, <2>1, <2>2, ScatterEffect
  <2>4. \A q \in P : d[q] \in 0 .. (F - 1)
    BY <1>1, <1>3, <1>5, <2>3, FromValid
  <2>5. dst[t] = [c \in 0 .. (F - 1) |-> Before(d, P, c, p)]
    BY <1>5, <1>10, <2>1, <2>2 DEF CursorInv
  <2>6. ASSUME NEW c \in 0 .. (F - 1)
        PROVE  dst'[t][c] = Before(d, P, c, p + 1)
    <3>1. Before(d, P, c, p + 1) = IF d[p] = c THEN Before(d, P, c, p) + 1 ELSE Before(d, P, c, p)
      <4>1. c \in Nat
        OBVIOUS
      <4>2. QED
        BY <1>8, <2>3, <2>4, <4>1, BeforeNext
    <3>2. QED
      BY <2>3, <2>5, <3>1 DEF ShapeInv
  <2>7. dst'[t] = [c \in 0 .. (F - 1) |-> dst'[t][c]]
    <3>1. PICK g, e : g = dst[t] /\ e = d[p]
      OBVIOUS
    <3>2. dst'[t] = [g EXCEPT ![e] = @ + 1]
      BY <2>3, <3>1 DEF ShapeInv
    <3>3. QED
      BY <2>5, <3>1, <3>2
  <2>8. own.at + cur'[t] = p + 1 /\ cur'[t] <= own.num
    <3>1. PICK k, at, num : k = cur[t] /\ at = own.at /\ num = own.num
      OBVIOUS
    <3>2. k \in Nat /\ at \in Nat /\ num \in Nat
      BY <1>8, <3>1 DEF ShapeInv, IsPart
    <3>3. p = at + k /\ k < num /\ cur'[t] = k + 1
      BY <1>5, <1>10, <2>2, <2>3, <3>1
    <3>4. QED
      BY <3>1, <3>2, <3>3
  <2>9. QED
    BY <1>10, <2>6, <2>7, <2>8
<1>11. CASE u = t /\ BeginScatter(t)
  <2>1. x = side[t] /\ cur'[t] = 0
    BY <1>2, <1>11 DEF BeginScatter, PlanScatter, ShapeInv
  <2>2. \A c \in 0 .. (F - 1) : ClusterStart(t, x, c) = Before(d, P, c, own.at)
    BY <1>1, <1>3, <1>5, <1>11, <2>1, StartsCorrect
  <2>3. dst'[t] = [c \in 0 .. (F - 1) |-> ClusterStart(t, x, c)]
    BY <1>5, <1>11, <2>1 DEF BeginScatter, PlanScatter, ShapeInv
  <2>4. own.at + 0 = own.at /\ 0 <= own.num
    BY <1>8 DEF IsPart
  <2>5. QED
    BY <1>11, <2>1, <2>2, <2>3, <2>4
<1>12. CASE u = t /\ ~Scatter(t) /\ ~BeginScatter(t)
  <2>1. pc[t] = "scatter" \/ pc[t] = "wait_count"
    BY <1>1, <1>2, <1>12 DEF Moves, Arrives, Leaves, Stays, ArriveMove, LeaveMove, StayMove
  <2>2. EndScatterR(t) \/ EndScatterS(t)
    BY <1>12, <2>1, Acts
  <2>3. pc'[t] # "scatter"
    BY <2>2 DEF EndScatterR, EndScatterS, Goto, OrderInv
  <2>4. QED
    BY <1>2, <1>12, <2>3
<1>13. QED
  BY <1>9, <1>10, <1>11, <1>12

LEMMA NobodyScattered ==
  ASSUME NEW y, NEW n, Phase(0, "wait_allocate", y, n, n + 1),
         NEW u, NEW l, NEW s, NEW k, NEW a, Phase(u, l, s, k, a), k <= n + 1, n + 1 <= a, NEW x
  PROVE  u # 0 => ~Ended(l, s, x) /\ l # "scatter"
BY DEF Phase, InStage, Counting, Ended, Behind, Labels, Pass1Labels, Pass2Labels, SkewLabels, JoinLabels

(* The end of a thread's scattering: it has gone through its share. *)
LEMMA EndScatter ==
  ASSUME OrderInv, ShapeInv, NEW t \in Threads, Thread(t), ~Scatter(t), pc[t] = "scatter"
  PROVE  /\ pc'[t] # "scatter" /\ cur[t] = Own(t, side[t]).num /\ side[t] \in Rel
         /\ side[t] = "R" => pc'[t] = "count" /\ side'[t] = "S"
         /\ side[t] = "S" => pc'[t] \in {"wait_scatter", "wait_again"}
<1>1. EndScatterR(t) \/ EndScatterS(t)
  BY Acts
<1>2. DOMAIN pc = Threads /\ DOMAIN side = Threads
  BY DEF OrderInv
<1>3. MyPart(t, "R") = Own(t, "R") /\ MyPart(t, "S") = Own(t, "S")
  BY MyPartIsOwn DEF Rel
<1>4. CASE EndScatterR(t)
  BY <1>2, <1>3, <1>4 DEF EndScatterR, Goto, Rel
<1>5. CASE EndScatterS(t)
  BY <1>2, <1>3, <1>5 DEF EndScatterS, Goto, Rel
<1>6. QED
  BY <1>1, <1>4, <1>5

LEMMA NothingElseScattered ==
  ASSUME OrderInv, ShapeInv, SkewInv, NEW t \in Threads, Thread(t), ~Scatter(t), Active',
         pc'[0] # "wait_allocate",
         NEW u \in Threads, NEW x \in Rel, NEW p \in Positions(Own(u, x)), Scattered(u, x, p)'
  PROVE  Scattered(u, x, p)
<1>1. OrderInv' /\ Moves(t)
  BY OrderStep
<1>2. Own(u, x)' = Own(u, x)
  BY ContextStill
<1>3. IsPart(Own(u, x)) /\ p \in Int /\ Own(u, x).at <= p /\ p < Own(u, x).at + Own(u, x).num
  BY WholeFacts, ShareFacts DEF Own, Positions, IsPart
<1>4. Ended(pc'[u], side'[u], x) \/ (pc'[u] = "scatter" /\ side'[u] = x /\ p < Own(u, x).at + cur'[u])
  BY <1>2 DEF Scattered
<1>5. CASE u # t
  BY <1>4, <1>5, OthersStay, CursorFrame DEF Scattered
<1>6. CASE u = t
  <2>1. CASE pc[t] = "scatter"
    <3>1. /\ pc'[t] # "scatter" /\ cur[t] = Own(t, side[t]).num /\ side[t] \in Rel
          /\ side[t] = "R" => pc'[t] = "count" /\ side'[t] = "S"
      BY <2>1, EndScatter
    <3>2. CASE x = side[t]
      BY <1>3, <1>6, <2>1, <3>1, <3>2 DEF Scattered
    <3>3. CASE x # side[t]
      <4>1. x = "R" /\ side[t] = "S"
        BY <1>4, <1>6, <3>1, <3>3 DEF Ended, Behind, Counting, Rel
      <4>2. QED
        BY <1>6, <2>1, <4>1 DEF Scattered, Ended, Counting
    <3>4. QED
      BY <3>2, <3>3
  <2>2. CASE pc[t] # "scatter" /\ pc'[t] = "scatter"
    <3>1. pc[t] = "wait_count" /\ side'[t] = side[t]
      BY <1>1, <2>2 DEF Moves, Arrives, Leaves, Stays, ArriveMove, LeaveMove, StayMove
    <3>2. cur'[t] = 0
      BY <3>1, Acts DEF BeginScatter, PlanScatter, ShapeInv
    <3>3. ~ (p < Own(u, x).at + cur'[u])
      BY <1>3, <1>6, <3>2 DEF IsPart
    <3>4. QED
      BY <1>4, <1>6, <2>2, <3>1, <3>3 DEF Scattered, Ended, Counting, Behind
  <2>3. CASE pc[t] # "scatter" /\ pc'[t] # "scatter"
    <3>1. Phase(t, pc[t], side[t], left[t], arrived[t]) /\ side'[t] \in Rel
      BY <1>1 DEF OrderInv, PhaseInv, Phase
    <3>2. Ended(pc'[t], side'[t], x)
      BY <1>4, <1>6, <2>3
    <3>3. ~ (pc[t] = "partition" /\ pc'[t] = "wait_skew")
      <4>1. SUFFICES ASSUME pc[t] = "partition", pc'[t] = "wait_skew" PROVE FALSE
        OBVIOUS
      <4>2. t # 0
        BY <4>1 DEF Active
      <4>3. Active
        BY <4>2, OthersStay, ThreadsFinite DEF Active
      <4>4. left[t] = 5 /\ arrived[t] = 5
        BY <3>1, <4>1 DEF Phase
      <4>5. left[t] <= arrived[0] /\ left[0] <= arrived[t] /\ left[0] \in Nat /\ arrived[0] \in Nat
        BY ThreadsFinite DEF OrderInv, PhaseInv, Phase
      <4>6. QED
        BY <4>3, <4>4, <4>5, AtThePartition
    <3>4. Ended(pc[t], side[t], x)
      BY <1>1, <2>3, <3>1, <3>2, <3>3
         DEF Moves, Arrives, Leaves, Stays, ArriveMove, LeaveMove, StayMove, Ended, Behind, Rel,
             Phase, Counting
    <3>5. QED
      BY <1>6, <3>4 DEF Scattered
  <2>4. QED
    BY <2>1, <2>2, <2>3
<1>7. QED
  BY <1>5, <1>6

LEMMA ScatteredStays ==
  ASSUME OrderInv, ShapeInv, SkewInv, InputInv, CursorInv, NEW t \in Threads, Thread(t), Active', ~Again',
         NEW u \in Threads, NEW x \in Rel, NEW p \in Positions(Own(u, x)), Scattered(u, x, p)
  PROVE  Scattered(u, x, p)'
<1>1. OrderInv' /\ Moves(t)
  BY OrderStep
<1>2. Own(u, x)' = Own(u, x) /\ ~Again
  BY ContextStill
<1>3. IsPart(Own(u, x)) /\ p \in Int /\ cur[u] \in Nat
  BY WholeFacts, ShareFacts DEF Own, Positions, IsPart, ShapeInv
<1>4. SUFFICES Ended(pc'[u], side'[u], x)
                 \/ (pc'[u] = "scatter" /\ side'[u] = x /\ p < Own(u, x).at + cur'[u])
  BY <1>2 DEF Scattered
<1>5. CASE u # t
  BY <1>5, OthersStay, CursorFrame DEF Scattered
<1>6. CASE u = t /\ Scatter(t)
  <2>1. pc' = pc /\ side' = side /\ cur'[t] = cur[t] + 1
    BY <1>6 DEF Scatter, ShapeInv
  <2>2. p < Own(u, x).at + cur[u] => p < Own(u, x).at + (cur[u] + 1)
    BY <1>3 DEF IsPart
  <2>3. QED
    BY <1>6, <2>1, <2>2 DEF Scattered
<1>7. CASE u = t /\ ~Scatter(t) /\ pc[t] = "scatter"
  <2>1. /\ side[t] \in Rel
        /\ side[t] = "R" => pc'[t] = "count" /\ side'[t] = "S"
        /\ side[t] = "S" => pc'[t] \in {"wait_scatter", "wait_again"}
    BY <1>7, EndScatter
  <2>2. side[t] = "R" => x = "R"
    BY <1>7 DEF Scattered, Ended, Behind
  <2>3. QED
    BY <1>7, <2>1, <2>2 DEF Ended, Behind, Counting, Rel
<1>8. CASE u = t /\ pc[t] # "scatter"
  <2>1. Ended(pc[t], side[t], x)
    BY <1>8 DEF Scattered
  <2>2. Phase(t, pc[t], side[t], left[t], arrived[t])
    BY DEF OrderInv, PhaseInv
  <2>3. OrderInv' /\ Active' => (~Again => arrived[0] <= 4 /\ AtRelations(pc[0], left[0]))'
    <3>1. OrderInv' /\ Active' =>
            /\ (~Again => arrived[0] <= 4 /\ AtRelations(pc[0], left[0]))'
            /\ (Again => left[0] > 5 /\ AtSkewed(0, pc[0], left[0]))'
      BY AtThePartition, PTL
    <3>2. QED
      BY <3>1
  <2>4. arrived'[0] <= 4
    BY <1>1, <2>3
  <2>5. pc[t] \notin {"wait_tasks", "wait_skew"}
    <3>1. SUFFICES ASSUME pc[t] \in {"wait_tasks", "wait_skew"} PROVE FALSE
      OBVIOUS
    <3>2. Leaves(t)
      BY <1>1, <3>1 DEF Moves, Arrives, Stays, ArriveMove, StayMove
    <3>3. arrived[0] >= arrived[t] /\ arrived'[0] = arrived[0]
      BY <1>1, <3>2, ThreadsFinite DEF Leaves, Moves, Frame, OrderInv
    <3>4. arrived[t] >= 5 /\ arrived[t] \in Nat /\ arrived[0] \in Nat
      BY <2>2, <3>1, ThreadsFinite DEF Phase, OrderInv, PhaseInv
    <3>5. QED
      BY <2>4, <3>3, <3>4
  <2>6. pc'[t] # "undefined"
    <3>1. SUFFICES ASSUME pc'[t] = "undefined" PROVE FALSE
      OBVIOUS
    <3>2. pc[t] = "create"
      BY <1>1, <2>1, <3>1 DEF Moves, Arrives, Leaves, Stays, ArriveMove, LeaveMove, StayMove, Ended, Behind, Counting
    <3>3. t = 0
      BY <2>2, <3>2 DEF Phase
    <3>4. QED
      BY <3>1, <3>3 DEF Active
  <2>7. Ended(pc'[t], side'[t], x)
    BY <1>1, <1>8, <2>1, <2>2, <2>5, <2>6
       DEF Moves, Arrives, Leaves, Stays, ArriveMove, LeaveMove, StayMove, Ended, Behind, Counting
  <2>8. QED
    BY <1>8, <2>7
<1>9. QED
  BY <1>5, <1>6, <1>7, <1>8

(* Tuples at different positions have different places. *)
LEMMA PlacesApart ==
  ASSUME OrderInv, ShapeInv, SkewInv, InputInv, Parallel, Active,
         NEW x \in Rel, NEW p \in Places(x), NEW q \in Places(x), p # q
  PROVE  PlaceOf(x, p) # PlaceOf(x, q)
<1>1. PICK d, P, F, at : d = TheDigits(x) /\ P = Places(x) /\ F = FanOut /\ at = Whole(x).at
  OBVIOUS
<1>2. \A r \in P : d[r] \in 0 .. (F - 1)
  BY <1>1, FromValid
<1>3. F \in Nat /\ P \in SUBSET Int /\ IsFiniteSet(P) /\ at \in Nat
  BY <1>1, FanOutTypes, WholeFacts DEF IsPart
<1>4. Place(d, P, 0, p) # Place(d, P, 0, q)
  BY <1>1, <1>2, <1>3, PlacesDiffer
<1>5. Place(d, P, 0, p) \in Nat /\ Place(d, P, 0, q) \in Nat
  BY <1>1, <1>2, <1>3, PlaceInCluster
<1>6. PICK i, j \in Nat : i = Place(d, P, 0, p) /\ j = Place(d, P, 0, q)
  BY <1>5
<1>7. at + i # at + j
  BY <1>3, <1>4, <1>6
<1>8. QED
  BY <1>1, <1>6, <1>7 DEF PlaceOf

(* Positions of a share are places of the whole. *)
LEMMA OwnPlaces ==
  ASSUME SkewInv, NEW u \in Threads, NEW x \in Rel, NEW p \in Positions(Own(u, x))
  PROVE  p \in Places(x)
<1>1. IsPart(Whole(x))
  BY WholeFacts
<1>2. QED
  BY <1>1, OwnersInOrder DEF Own, Places

LEMMA PlaceInArray ==
  ASSUME OrderInv, ShapeInv, SkewInv, InputInv, Parallel, Active, NEW x \in Rel, NEW p \in Places(x)
  PROVE  PlaceOf(x, p) \in Places(x) /\ PlaceOf(x, p) \in 0 .. (Size(x) - 1)
<1>1. PICK d, P, F, at, num : d = TheDigits(x) /\ P = Places(x) /\ F = FanOut /\ at = Whole(x).at /\ num = Whole(x).num
  OBVIOUS
<1>2. \A r \in P : d[r] \in 0 .. (F - 1)
  BY <1>1, FromValid
<1>3. /\ F \in Nat /\ P \in SUBSET Int /\ IsFiniteSet(P) /\ Cardinality(P) = num
      /\ at \in Nat /\ num \in Nat /\ P \subseteq 0 .. (Size(x) - 1)
  BY <1>1, FanOutTypes, WholeFacts DEF IsPart
<1>4. Place(d, P, 0, p) \in Nat /\ Place(d, P, 0, p) < Cardinality(P)
  BY <1>1, <1>2, <1>3, PlaceInCluster
<1>5. PlaceOf(x, p) = at + Place(d, P, 0, p)
  BY <1>1 DEF PlaceOf
<1>6. PlaceOf(x, p) \in at .. (at + num - 1)
  BY <1>3, <1>4, <1>5
<1>7. QED
  BY <1>1, <1>3, <1>6 DEF Places, Positions

(* At the second pass of thread 0 nothing has been scattered yet. *)
LEMMA AgainFromScratch ==
  ASSUME OrderInv, NEW t \in Threads, Thread(t), t = 0, pc[0] = "wait_allocate", pc'[0] # "wait_allocate",
         NEW u \in Threads, NEW x \in Rel, NEW p, Scattered(u, x, p)'
  PROVE  FALSE
<1>1. OrderInv' /\ Moves(t)
  BY OrderStep
<1>2. pc'[0] = "count" /\ Leaves(t) /\ side'[0] = side[0]
  BY <1>1 DEF Moves, Arrives, Leaves, Stays, ArriveMove, LeaveMove, StayMove
<1>3. PhaseInv(0) /\ PhaseInv(u) /\ left[u] <= arrived[0] /\ arrived[u] >= arrived[0]
  BY <1>2, ThreadsFinite DEF OrderInv, Leaves
<1>4. CASE u = 0
  <2>1. side[0] = "R"
    BY <1>3 DEF PhaseInv, Phase
  <2>2. QED
    BY <1>2, <1>4, <2>1 DEF Scattered, Ended, Behind
<1>5. CASE u # 0
  <2>1. PICK l, s, k, a : l = pc[u] /\ s = side[u] /\ k = left[u] /\ a = arrived[u]
    OBVIOUS
  <2>2. PICK y, n : y = side[0] /\ n = left[0]
    OBVIOUS
  <2>3. arrived[0] = n + 1
    BY <1>3, <2>2 DEF PhaseInv, Phase
  <2>4. Phase(0, "wait_allocate", y, n, n + 1) /\ Phase(u, l, s, k, a) /\ k <= n + 1 /\ n + 1 <= a
    <3>1. k <= n + 1 /\ n + 1 <= a
      <4>1. a \in Nat /\ n \in Nat
        BY <1>3, <2>1, <2>2 DEF PhaseInv, Phase
      <4>2. QED
        BY <1>3, <2>1, <2>2, <2>3, <4>1
    <3>2. QED
      BY <1>3, <2>1, <2>2, <2>3, <3>1 DEF PhaseInv
  <2>5. ~Ended(l, s, x) /\ l # "scatter"
    BY <1>5, <2>4, NobodyScattered
  <2>6. pc'[u] = l /\ side'[u] = s
    BY <1>5, <2>1, OthersStay
  <2>7. QED
    BY <2>5, <2>6 DEF Scattered
<1>6. QED
  BY <1>4, <1>5

LEMMA PlacedStep ==
  ASSUME OrderInv, ShapeInv, SkewInv, InputInv, CursorInv, PlacedInv, NEW t \in Threads, Thread(t)
  PROVE  PlacedInv'
<1>1. OrderInv' /\ Moves(t) /\ Parallel
  BY OrderStep, ThreadParallel
<1>2. SUFFICES ASSUME Active', pc'[0] # "wait_allocate",
                      NEW u \in Threads, NEW x \in Rel, NEW p \in Positions(Own(u, x))',
                      Scattered(u, x, p)'
               PROVE  To(x)'[PlaceOf(x, p)'] = From(x)'[p]
  BY DEF PlacedInv
<1>3. /\ p \in Positions(Own(u, x)) /\ PlaceOf(x, p)' = PlaceOf(x, p) /\ From(x)' = From(x)
  BY <1>2, ContextStill DEF Positions
<1>4. p \in Places(x)
  BY <1>3, OwnPlaces
<1>5. CASE Scatter(t)
  <2>1. PICK y, o : y \in Rel /\ y = side[t] /\ o = Own(t, y).at + cur[t]
    BY DEF OrderInv, PhaseInv, Phase
  <2>2. /\ Active /\ pc' = pc /\ side' = side /\ o \in Places(y) /\ o \in Positions(Own(t, y))
        /\ \A q \in 0 .. (Size(y) - 1) :
             To(y)'[q] = IF q = PlaceOf(y, o) THEN From(y)[o] ELSE To(y)[q]
        /\ \A z \in Rel : z # y => To(z)' = To(z)
        /\ cur'[t] = cur[t] + 1 /\ \A v \in Threads : v # t => cur'[v] = cur[v]
    BY <1>5, <2>1, ScatterEffect
  <2>3. Scattered(u, x, p) => To(x)[PlaceOf(x, p)] = From(x)[p]
    BY <1>1, <1>2, <1>3, <2>2 DEF PlacedInv
  <2>4. CASE x # y
    <3>1. Scattered(u, x, p)
      <4>1. Own(u, x)' = Own(u, x)
        BY <1>2, ContextStill
      <4>2. CASE u = t
        BY <1>2, <2>1, <2>2, <2>4, <4>2 DEF Scattered
      <4>3. CASE u # t
        BY <1>2, <2>2, <4>1, <4>3 DEF Scattered
      <4>4. QED
        BY <4>2, <4>3
    <3>2. QED
      BY <1>3, <2>2, <2>3, <2>4, <3>1
  <2>5. CASE x = y /\ p = o
    <3>1. PlaceOf(x, p) \in 0 .. (Size(x) - 1)
      BY <1>1, <1>4, <2>2, PlaceInArray
    <3>2. QED
      BY <1>3, <2>2, <2>5, <3>1
  <2>6. CASE x = y /\ p # o
    <3>1. Scattered(u, x, p)
      <4>1. Own(u, x)' = Own(u, x)
        BY <1>2, ContextStill
      <4>2. CASE u = t
        <5>1. CASE Ended(pc[t], side[t], x)
          BY <4>2, <5>1 DEF Scattered
        <5>2. CASE ~Ended(pc[t], side[t], x)
          <6>1. pc[t] = "scatter" /\ side[t] = x /\ p < Own(t, x).at + cur'[t]
            BY <1>2, <2>2, <4>1, <4>2, <5>2 DEF Scattered
          <6>2. PICK k, at : k = cur[t] /\ at = Own(t, x).at
            OBVIOUS
          <6>3. k \in Nat /\ at \in Nat /\ p \in Int
            BY <1>3, <6>2, WholeFacts, ShareFacts DEF ShapeInv, Own, IsPart, Positions
          <6>4. p < at + (k + 1) /\ p # at + k
            BY <2>1, <2>2, <2>6, <6>1, <6>2
          <6>5. p < at + k
            BY <6>3, <6>4
          <6>6. QED
            BY <4>2, <6>1, <6>2, <6>5 DEF Scattered
        <5>3. QED
          BY <5>1, <5>2
      <4>3. CASE u # t
        BY <1>2, <2>2, <4>1, <4>3 DEF Scattered
      <4>4. QED
        BY <4>2, <4>3
    <3>2. PlaceOf(x, p) # PlaceOf(x, o)
      BY <1>1, <1>4, <2>2, <2>6, PlacesApart
    <3>3. PlaceOf(x, p) \in 0 .. (Size(x) - 1)
      BY <1>1, <1>4, <2>2, PlaceInArray
    <3>4. QED
      BY <1>3, <2>2, <2>3, <2>6, <3>1, <3>2, <3>3
  <2>7. QED
    BY <2>4, <2>5, <2>6
<1>6. CASE ~Scatter(t)
  <2>1. To(x)' = To(x)
    BY <1>2, <1>6, ToStill
  <2>2. Scattered(u, x, p)
    BY <1>2, <1>3, <1>6, NothingElseScattered
  <2>3. Active
    BY <1>2, BecomesActive
  <2>4. pc[0] # "wait_allocate"
    <3>1. CASE t = 0
      BY <1>2, <3>1, AgainFromScratch
    <3>2. CASE t # 0
      BY <1>2, <3>2, OthersStay, ThreadsFinite
    <3>3. QED
      BY <3>1, <3>2
  <2>5. QED
    BY <1>1, <1>3, <2>1, <2>2, <2>3, <2>4 DEF PlacedInv
<1>7. QED
  BY <1>5, <1>6

LEMMA WrittenStep ==
  ASSUME OrderInv, ShapeInv, SkewInv, InputInv, CursorInv, WrittenInv, NEW t \in Threads, Thread(t)
  PROVE  WrittenInv'
<1>1. OrderInv' /\ Moves(t) /\ Parallel
  BY OrderStep, ThreadParallel
<1>2. SUFFICES ASSUME Active', ~Again', NEW x \in Rel, NEW q \in DOMAIN tmp'[x], tmp'[x][q] # Garbage
               PROVE  \E u \in Threads : \E p \in Positions(Own(u, x))' :
                        Scattered(u, x, p)' /\ q = PlaceOf(x, p)'
  BY DEF WrittenInv
<1>3. /\ ~Again
      /\ \A u \in Threads : Positions(Own(u, x))' = Positions(Own(u, x))
      /\ \A p : PlaceOf(x, p)' = PlaceOf(x, p)
  BY <1>2, ContextStill DEF Positions
<1>4. Active
  <2>1. SUFFICES ASSUME ~Active PROVE FALSE
    OBVIOUS
  <2>2. pc'[0] = "wait_allocate"
    BY <1>2, <2>1, BecomesActive
  <2>3. QED
    BY <1>1, <1>2, <2>2, ThreadsFinite DEF OrderInv, PhaseInv, Announced, AtSkewed
<1>5. CASE q \in DOMAIN tmp[x] /\ tmp[x][q] # Garbage
  <2>1. PICK u \in Threads : \E p \in Positions(Own(u, x)) : Scattered(u, x, p) /\ q = PlaceOf(x, p)
    BY <1>1, <1>3, <1>4, <1>5 DEF WrittenInv
  <2>2. PICK p \in Positions(Own(u, x)) : Scattered(u, x, p) /\ q = PlaceOf(x, p)
    BY <2>1
  <2>3. Scattered(u, x, p)'
    BY <1>2, <2>2, ScatteredStays
  <2>4. QED
    BY <1>3, <2>2, <2>3
<1>6. CASE ~ (q \in DOMAIN tmp[x] /\ tmp[x][q] # Garbage)
  <2>1. Scatter(t)
    <3>1. SUFFICES ASSUME ~Scatter(t) PROVE FALSE
      OBVIOUS
    <3>2. To(x)' = To(x)
      BY <1>2, <3>1, ToStill
    <3>3. To(x)' = tmp'[x] /\ To(x) = tmp[x]
      BY <1>2, <1>3 DEF To
    <3>4. QED
      BY <1>2, <1>6, <3>2, <3>3
  <2>2. PICK y, o : y \in Rel /\ y = side[t] /\ o = Own(t, y).at + cur[t]
    BY DEF OrderInv, PhaseInv, Phase
  <2>3. /\ pc[t] = "scatter" /\ pc' = pc /\ side' = side /\ o \in Positions(Own(t, y))
        /\ \A r \in 0 .. (Size(y) - 1) :
             To(y)'[r] = IF r = PlaceOf(y, o) THEN From(y)[o] ELSE To(y)[r]
        /\ \A z \in Rel : z # y => To(z)' = To(z)
        /\ cur'[t] = cur[t] + 1
    BY <2>1, <2>2, ScatterEffect
  <2>4. To(x)' = tmp'[x] /\ To(x) = tmp[x] /\ tmp' = [tmp EXCEPT ![y] = tmp'[y]]
    BY <1>2, <1>3, <2>1, <2>2 DEF To, Scatter
  <2>5. x = y
    BY <1>2, <1>6, <2>3, <2>4
  <2>6. DOMAIN tmp'[x] = 0 .. (Size(x) - 1) /\ DOMAIN tmp[x] = 0 .. (Size(x) - 1)
    BY <1>3, <2>1, <2>2, <2>5 DEF Scatter, ShapeInv
  <2>7. q = PlaceOf(x, o)
    BY <1>2, <1>6, <2>3, <2>4, <2>5, <2>6
  <2>8. Scattered(t, x, o)'
    <3>1. Own(t, x)' = Own(t, x)
      BY <1>2, ContextStill
    <3>2. PICK k, at : k = cur[t] /\ at = Own(t, x).at
      OBVIOUS
    <3>3. k \in Nat /\ at \in Nat
      BY <3>2, WholeFacts, ShareFacts DEF ShapeInv, Own, IsPart
    <3>4. o < at + (k + 1)
      BY <2>2, <2>5, <3>2, <3>3
    <3>5. QED
      BY <2>2, <2>3, <2>5, <3>1, <3>2, <3>4 DEF Scattered
  <2>9. QED
    BY <1>3, <2>3, <2>5, <2>7, <2>8
<1>7. QED
  BY <1>5, <1>6

(* The index of a loop is a natural number. *)
LEMMA CurType ==
  ASSUME ShapeInv, NEW t \in Threads, Thread(t)
  PROVE  DOMAIN cur' = Threads /\ \A u \in Threads : cur'[u] \in Nat
<1> USE DEF ShapeInv
<1>1. cur' = cur \/ cur' = [cur EXCEPT ![t] = 0] \/ cur' = [cur EXCEPT ![t] = cur[t] + 1]
  <2>1. CASE Start(t) \/ Pass1(t)
    BY <2>1 DEF Start, Pass1, BeginPass1, Count, BeginScatter, PlanScatter, Scatter, EndScatterR, EndScatterS
  <2>2. CASE Tasks(t)
    BY <2>2 DEF Tasks, BeginTasks, CreateTask, EndTasks
  <2>3. CASE Pass2(t)
    BY <2>3 DEF Pass2, BeginPass2, TakePartTask, ClusterRelation, GetJoinSlot, AddJoinTask,
                SkipCluster, NextCluster, EndPartTask, EndPass2
  <2>4. CASE Skew(t)
    BY <2>4 DEF Skew, NextSkewTask, SeeSkewTask, AllocateAgain, PartitionAgain, BeginJoinTasks,
                CreateJoinTask, EndJoinTasks, MoveLargeTask, EndSkew
  <2>5. CASE Joins(t)
    BY <2>5 DEF Joins, BeginJoin, TakeJoinTask, RunJoin, EndJoin, Exit
  <2>6. QED
    BY <2>1, <2>2, <2>3, <2>4, <2>5 DEF Thread
<1>2. cur[t] \in Nat /\ DOMAIN cur = Threads
  OBVIOUS
<1>3. QED
  BY <1>1, <1>2

LEMMA ShapeStep ==
  ASSUME OrderInv, ShapeInv, NEW t \in Threads, Thread(t)
  PROVE  ShapeInv'
<1>1. OrderInv' /\ Moves(t) /\ key' = key /\ args' = args
  BY OrderStep
<1>2. \A x \in Rel : Size(x)' = Size(x)
  BY DEF Size
<1>3. DOMAIN rel' = Rel /\ \A x \in Rel : DOMAIN rel'[x] = 0 .. (Size(x) - 1)
  <2>1. CASE Scatter(t) /\ Again
    BY <2>1 DEF Scatter, ShapeInv
  <2>2. CASE ClusterRelation(t)
    BY <2>2 DEF ClusterRelation, Clustered, ShapeInv
  <2>3. QED
    BY <2>1, <2>2, Changes DEF ShapeInv
<1>4. DOMAIN tmp' = Rel /\ \A x \in Rel : DOMAIN tmp'[x] = 0 .. (Size(x) - 1)
  <2>1. CASE Scatter(t) /\ ~Again
    BY <2>1 DEF Scatter, ShapeInv
  <2>2. CASE RunJoin(t)
    BY <2>2 DEF RunJoin, Clustered, ShapeInv
  <2>3. QED
    BY <2>1, <2>2, Changes DEF ShapeInv
<1>5. DOMAIN hist' = Rel /\ \A x \in Rel : DOMAIN hist'[x] = Threads
  <2>1. CASE Count(t)
    BY <2>1 DEF Count, ShapeInv
  <2>2. CASE AllocateAgain(t)
    BY <2>2 DEF AllocateAgain, ShapeInv
  <2>3. QED
    BY <2>1, <2>2, Changes DEF ShapeInv
<1>6. DOMAIN output' = Threads /\ \A u \in Threads : DOMAIN output'[u] = Rel
  <2>1. CASE BeginScatter(t)
    BY <2>1 DEF BeginScatter, PlanScatter, ShapeInv
  <2>2. CASE AllocateAgain(t)
    BY <2>2 DEF AllocateAgain, ShapeInv
  <2>3. QED
    BY <2>1, <2>2, Changes DEF ShapeInv
<1>7. DOMAIN dst' = Threads
  BY Changes DEF BeginScatter, PlanScatter, Scatter, ShapeInv
<1>8. \A u \in Threads : pc'[u] # "unborn" => pc[u] # "unborn"
  <2>1. pc[t] # "unborn"
    BY <1>1 DEF Moves, Arrives, Leaves, Stays, ArriveMove, LeaveMove, StayMove
  <2>2. QED
    BY <2>1, OthersStay
<1>9. \A u \in Threads : pc'[u] # "unborn" =>
        args'[u] = [x \in Rel |-> Share([at |-> 0, num |-> Size(x)], u)]
  BY <1>1, <1>8 DEF ShapeInv
<1>10. QED
  BY <1>1, <1>3, <1>4, <1>5, <1>6, <1>7, <1>9, CurType DEF ShapeInv, Size, Share

(* A cluster that thread 0 makes a task of is a region of the relations.   *)
LEMMA TaskIsRegion ==
  ASSUME OrderInv, ShapeInv, SkewInv, InputInv, BoundaryInv, Parallel, pc[0] = "create",
         NEW c \in 0 .. (FanOut1 - 1)
  PROVE  Region(Pass1Task(0, c))
<1>1. Active /\ ~Again
  BY ThreadsFinite DEF Active, OrderInv, PhaseInv, Announced, AtRelations
<1>2. FanOut = FanOut1 /\ FanOut1 \in Nat /\ PaddingTuples = 0
  BY <1>1, FanOutTypes DEF FanOut
<1>3. ASSUME NEW x \in Rel
      PROVE  IsPart(Pass1Task(0, c)[x]) /\ Pass1Task(0, c)[x].at + Pass1Task(0, c)[x].num <= Size(x)
  <2>1. PICK d, P, F : d = TheDigits(x) /\ P = Places(x) /\ F = FanOut
    OBVIOUS
  <2>2. output[0][x] = [e \in 0 .. F |-> Below(d, P, e)]
    BY <1>1, <2>1 DEF BoundaryInv, Planned, Behind
  <2>3. \A p \in P : d[p] \in 0 .. (F - 1)
    BY <1>1, <2>1, FromValid
  <2>4. F \in Nat /\ P \in SUBSET Int /\ IsFiniteSet(P) /\ Cardinality(P) = Size(x) /\ Size(x) \in Nat
    BY <1>1, <1>2, <2>1, WholeFacts DEF Whole
  <2>5. c \in Nat /\ c + 1 \in Nat /\ c <= c + 1 /\ c + 1 <= F /\ c \in 0 .. F /\ c + 1 \in 0 .. F
    BY <1>2, <2>1
  <2>6. /\ Below(d, P, c) \in Nat /\ Below(d, P, c + 1) \in Nat
        /\ Below(d, P, c) <= Below(d, P, c + 1)
        /\ Below(d, P, c + 1) <= Below(d, P, F) /\ Below(d, P, F) = Size(x)
    BY <2>3, <2>4, <2>5, BelowFacts
  <2>7. Pass1Task(0, c)[x] = [at |-> Below(d, P, c), num |-> Below(d, P, c + 1) - Below(d, P, c) - 0]
    BY <1>2, <2>2, <2>5 DEF Pass1Task
  <2>8. PICK i, j \in Nat : i = Below(d, P, c) /\ j = Below(d, P, c + 1)
    BY <2>6
  <2>9. Pass1Task(0, c)[x].at = i /\ Pass1Task(0, c)[x].num = j - i - 0 /\ i <= j /\ j <= Size(x)
    BY <2>6, <2>7, <2>8
  <2>10. QED
    BY <2>4, <2>8, <2>9 DEF IsPart
<1>4. QED
  BY <1>3 DEF Region

LEMMA SkewStep ==
  ASSUME QueuesInv, OrderInv, ShapeInv, SkewInv, InputInv, BoundaryInv, NEW t \in Threads, Thread(t)
  PROVE  SkewInv'
<1>1. OrderInv' /\ Moves(t) /\ Parallel /\ QueueInv(skewQueue)
      /\ (skewtask' = skewtask \/ (t = 0 /\ NextSkewTask(t)))
  BY OrderStep, ThreadParallel DEF QueuesInv
<1>2. \A task : Region(task)' <=> Region(task)
  BY DEF Region, Size
<1>3. Region(skewtask')
  <2>1. CASE skewtask' = skewtask
    BY <2>1 DEF SkewInv
  <2>2. CASE t = 0 /\ NextSkewTask(t) /\ skewQueue.count = 0
    <3>1. skewtask' = NoTask
      BY <2>2 DEF NextSkewTask
    <3>2. \A x \in Rel : NoTask[x] = NoPart /\ Size(x) \in Nat
      BY RadixJoinAssumption DEF NoTask, Size
    <3>3. QED
      BY <3>1, <3>2 DEF Region, NoPart, IsPart
  <2>3. CASE t = 0 /\ NextSkewTask(t) /\ skewQueue.count # 0
    <3>1. skewtask' = skewQueue.task[skewQueue.head]
      BY <2>3 DEF NextSkewTask
    <3>2. skewQueue.head \in Waiting(skewQueue) /\ Waiting(skewQueue) \in SUBSET (DOMAIN skewQueue.next)
      BY <1>1, <2>3, GetCorrect, QueueFacts
    <3>3. skewQueue.head \in DOMAIN skewQueue.task
      BY <1>1, <3>2 DEF QueueInv
    <3>4. QED
      BY <3>1, <3>3 DEF SkewInv
  <2>4. QED
    BY <1>1, <2>1, <2>2, <2>3
<1>4. ASSUME NEW s \in DOMAIN skewQueue'.task
      PROVE  Region(skewQueue'.task[s])
  <2>1. CASE skewQueue' = skewQueue
    BY <1>4, <2>1 DEF SkewInv
  <2>2. CASE CreateTask(t) /\ skewQueue' # skewQueue
    <3>1. PICK task : task = Pass1Task(t, cur[t])
      OBVIOUS
    <3>2. pc[t] = "create" /\ cur[t] < FanOut1 /\ skewQueue' = AfterNew(skewQueue, task)
      BY <2>2, <3>1 DEF CreateTask
    <3>3. t = 0
      BY <3>2 DEF OrderInv, PhaseInv, Phase
    <3>4. cur[t] \in 0 .. (FanOut1 - 1)
      BY <3>2, FanOutTypes DEF ShapeInv
    <3>5. Region(task)
      BY <1>1, <3>1, <3>2, <3>3, <3>4, TaskIsRegion
    <3>6. PICK q, r : q = skewQueue /\ r = AfterNew(q, task)
      OBVIOUS
    <3>7. /\ QueueInv(q) /\ QueueInv(r) /\ DOMAIN r.next = DOMAIN q.next \cup {FreeSlot(q)}
          /\ r.task[FreeSlot(q)] = task /\ \A c \in DOMAIN q.task : r.task[c] = q.task[c]
      BY <1>1, <3>6, NewCorrect
    <3>8. DOMAIN r.task = DOMAIN q.task \cup {FreeSlot(q)}
      BY <3>7 DEF QueueInv
    <3>9. QED
      BY <1>4, <3>2, <3>5, <3>6, <3>7, <3>8 DEF SkewInv
  <2>3. CASE NextSkewTask(t) /\ skewQueue' # skewQueue
    <3>1. skewQueue.count # 0 /\ skewQueue' = AfterGet(skewQueue)
      BY <2>3 DEF NextSkewTask, skewVars
    <3>2. skewQueue'.task = skewQueue.task
      BY <1>1, <3>1, GetCorrect
    <3>3. QED
      BY <1>4, <3>2 DEF SkewInv
  <2>4. QED
    BY <2>1, <2>2, <2>3, Changes
<1>5. QED
  BY <1>2, <1>3, <1>4 DEF SkewInv

(* When thread 0 goes on to make tasks, everybody has scattered all. *)
LEMMA EverybodyEnded ==
  ASSUME NEW u, NEW l, NEW s, NEW k, NEW a, Phase(u, l, s, k, a), k <= 4, 4 <= a, u # 0, NEW x
  PROVE  Ended(l, s, x)
BY DEF Phase, InStage, Counting, Ended, Behind, Labels, Pass1Labels, Pass2Labels, SkewLabels, JoinLabels

LEMMA EverybodyEndedAgain ==
  ASSUME NEW y, NEW n, Phase(0, "create_join", y, n, n),
         NEW u, NEW l, NEW s, NEW k, NEW a, Phase(u, l, s, k, a), k <= n, n <= a, u # 0,
         ~Late(l), ~AtRelations(l, k), NEW x
  PROVE  Ended(l, s, x)
BY DEF Phase, InStage, Counting, Ended, Behind, Late, AtRelations, Labels, Pass1Labels, Pass2Labels, SkewLabels, JoinLabels

(* Then every tuple is at its place. *)
LEMMA AllPlaced ==
  ASSUME SkewInv, PlacedInv, Parallel, Active, pc[0] # "wait_allocate",
         NEW x \in Rel, \A u \in Threads : Ended(pc[u], side[u], x)
  PROVE  \A p \in Places(x) : To(x)[PlaceOf(x, p)] = From(x)[p]
<1>1. SUFFICES ASSUME NEW p \in Places(x)
               PROVE  To(x)[PlaceOf(x, p)] = From(x)[p]
  OBVIOUS
<1>2. IsPart(Whole(x))
  BY WholeFacts
<1>3. PICK u \in Threads : p \in Positions(Own(u, x))
  BY <1>1, <1>2, SharesCover DEF Places, Own
<1>4. Scattered(u, x, p)
  BY DEF Scattered
<1>5. QED
  BY <1>3, <1>4 DEF PlacedInv

(* Every position is a tuple's place. *)
LEMMA EveryPlaceTaken ==
  ASSUME OrderInv, ShapeInv, SkewInv, InputInv, Parallel, Active, NEW x \in Rel, NEW i \in Places(x)
  PROVE  \E p \in Places(x) : PlaceOf(x, p) = i
<1>1. PICK d, P, F, at, num : d = TheDigits(x) /\ P = Places(x) /\ F = FanOut /\ at = Whole(x).at /\ num = Whole(x).num
  OBVIOUS
<1>2. \A r \in P : d[r] \in 0 .. (F - 1)
  BY <1>1, FromValid
<1>3. /\ F \in Nat /\ P \in SUBSET Int /\ IsFiniteSet(P) /\ Cardinality(P) = num
      /\ at \in Nat /\ num \in Nat /\ P = at .. (at + num - 1)
  BY <1>1, FanOutTypes, WholeFacts DEF IsPart, Places, Positions
<1>4. PICK k : k = i - at
  OBVIOUS
<1>5. k \in 0 .. (Cardinality(P) - 1) /\ i = at + k
  <2>1. i \in at .. (at + num - 1)
    BY <1>1, <1>3
  <2>2. QED
    BY <1>3, <1>4, <2>1
<1>6. \E p \in P : Place(d, P, 0, p) = k
  <2>1. F \in Nat /\ P \in SUBSET Int /\ IsFiniteSet(P)
    BY <1>3
  <2>2. k \in 0 .. (Cardinality(P) - 1)
    BY <1>5
  <2>3. QED
    BY <1>2, <2>1, <2>2, PlacesCover
<1>7. QED
  BY <1>1, <1>5, <1>6 DEF PlaceOf

LEMMA InputStep ==
  ASSUME OrderInv, ShapeInv, SkewInv, InputInv, PlacedInv, NEW t \in Threads, Thread(t)
  PROVE  InputInv'
<1>1. OrderInv' /\ Moves(t) /\ Parallel
  BY OrderStep, ThreadParallel
<1>2. \A x \in Rel : Size(x)' = Size(x) /\ Size(x) \in Nat
  BY RadixJoinAssumption DEF Size
<1>3. /\ \A u \in Threads : left[u] \in Nat /\ left'[u] \in Nat /\ left'[u] >= left[u] /\ left'[u] <= left[u] + 1
      /\ PhaseInv(t) /\ PhaseInv(0) /\ 0 \in Threads /\ left[0] <= arrived[t] /\ arrived[t] \in Nat
  <2>1. \A u \in Threads : left[u] \in Nat /\ (u # t => left'[u] = left[u])
    BY OthersStay DEF OrderInv, PhaseInv, Phase
  <2>2. left'[t] = left[t] \/ left'[t] = left[t] + 1
    BY <1>1 DEF Moves, Arrives, Leaves, Stays
  <2>3. \A u \in Threads : left'[u] \in Nat /\ left'[u] >= left[u] /\ left'[u] <= left[u] + 1
    <3>1. SUFFICES ASSUME NEW u \in Threads
                   PROVE  left'[u] \in Nat /\ left'[u] >= left[u] /\ left'[u] <= left[u] + 1
      OBVIOUS
    <3>2. left'[u] = left[u] \/ left'[u] = left[u] + 1
      BY <2>1, <2>2
    <3>3. QED
      BY <2>1, <3>2
  <2>4. QED
    BY <2>1, <2>3, ThreadsFinite DEF OrderInv, PhaseInv, Phase
<1>4. ASSUME \A u \in Threads : left'[u] < 5
      PROVE  \A x \in Rel : \A i \in 0 .. (Size(x) - 1) : rel'[x][i] = i
  <2>1. \A u \in Threads : left[u] < 5
    BY <1>3, <1>4
  <2>2. ~ClusterRelation(t)
    <3>1. ClusterRelation(t) => left[t] = 5
      BY <1>3 DEF ClusterRelation, PhaseInv, Phase
    <3>2. QED
      BY <2>1, <3>1
  <2>3. ~ (Scatter(t) /\ Again)
    <3>1. Scatter(t) /\ Again => left[t] > 5
      BY <1>3 DEF Scatter, PhaseInv, Phase, Announced, AtRelations, Counting
    <3>2. QED
      BY <1>3, <2>1, <3>1
  <2>4. rel' = rel
    BY <2>2, <2>3, Changes
  <2>5. QED
    BY <1>1, <2>1, <2>4 DEF InputInv
<1>5. ASSUME left'[0] >= 4, \A u \in Threads : ~Joining(pc'[u])
      PROVE  \A x \in Rel : \A i \in 0 .. (Size(x) - 1) : tmp'[x][i] \in 0 .. (Size(x) - 1)
  <2>1. \A u \in Threads : ~Joining(pc[u])
    <3>1. ~Joining(pc[t])
      BY <1>1, <1>5 DEF Joining, Moves, Arrives, Leaves, Stays, ArriveMove, LeaveMove, StayMove
    <3>2. QED
      BY <1>5, <3>1, OthersStay
  <2>2. ~RunJoin(t)
    BY <2>1 DEF RunJoin, Joining
  <2>3. CASE left[0] >= 4
    <3>1. ~ (Scatter(t) /\ ~Again)
      <4>1. Scatter(t) /\ ~Again => arrived[t] <= 3
        BY <1>3 DEF Scatter, PhaseInv, Phase, Announced, AtSkewed, Counting, InStage
      <4>2. QED
        BY <1>3, <2>3, <4>1
    <3>2. tmp' = tmp
      BY <2>2, <3>1, Changes
    <3>3. QED
      BY <1>1, <2>1, <2>3, <3>2 DEF InputInv
  <2>4. CASE left[0] < 4
    <3>1. left[0] = 3 /\ left'[0] = 4
      BY <1>3, <1>5, <2>4
    <3>2. t = 0 /\ Leaves(0)
      <4>1. t = 0
        BY <1>3, <3>1, OthersStay
      <4>2. QED
        BY <1>1, <3>1, <4>1 DEF Moves, Arrives, Stays
    <3>3. arrived[0] = 4 /\ pc[0] = "wait_scatter" /\ \A u \in Threads : arrived[u] >= 4
      <4>1. arrived[0] = 4
        BY <1>3, <3>1, <3>2 DEF Leaves, PhaseInv, Phase
      <4>2. pc[0] = "wait_scatter"
        BY <1>1, <1>3, <3>1, <3>2, <4>1 DEF Leaves, LeaveMove, PhaseInv, Phase, InStage, Counting, SkewLabels
      <4>3. QED
        BY <3>2, <4>1, <4>2 DEF Leaves
    <3>4. Active /\ ~Again
      BY <1>3, <3>3 DEF Active, PhaseInv, Announced, AtRelations
    <3>5. tmp' = tmp
      <4>1. ~Scatter(t)
        BY <3>2, <3>3 DEF Scatter
      <4>2. QED
        BY <2>2, <4>1, Changes
    <3>6. ASSUME NEW x \in Rel, NEW i \in 0 .. (Size(x) - 1)
          PROVE  tmp'[x][i] \in 0 .. (Size(x) - 1)
      <4>1. ASSUME NEW u \in Threads
            PROVE  Ended(pc[u], side[u], x)
        <5>1. CASE u = 0
          BY <3>3, <5>1 DEF Ended, Behind
        <5>2. CASE u # 0
          <6>1. PICK l, s, k, a : l = pc[u] /\ s = side[u] /\ k = left[u] /\ a = arrived[u]
            OBVIOUS
          <6>2. Phase(u, l, s, k, a) /\ k <= 4
            BY <3>3, <6>1, ThreadsFinite DEF OrderInv, PhaseInv
          <6>3. 4 <= a
            BY <3>3, <6>1, <6>2 DEF Phase
          <6>4. QED
            BY <5>2, <6>1, <6>2, <6>3, EverybodyEnded
        <5>3. QED
          BY <5>1, <5>2
      <4>2. \A p \in Places(x) : tmp[x][PlaceOf(x, p)] = rel[x][p]
        <5>1. To(x) = tmp[x] /\ From(x) = rel[x]
          BY <3>4 DEF To, From
        <5>2. QED
          BY <1>1, <3>3, <3>4, <4>1, <5>1, AllPlaced
      <4>3. Places(x) = 0 .. (Size(x) - 1)
        BY <1>2, <3>4 DEF Places, Positions, Whole
      <4>4. PICK p \in Places(x) : PlaceOf(x, p) = i
        BY <1>1, <3>4, <3>6, <4>3, EveryPlaceTaken
      <4>5. rel[x][p] = p
        BY <1>1, <3>4, <4>3, FromValid DEF From
      <4>6. QED
        BY <3>5, <4>2, <4>3, <4>4, <4>5
    <3>7. QED
      BY <3>6
  <2>5. QED
    BY <1>3, <2>3, <2>4
<1>6. QED
  BY <1>2, <1>4, <1>5 DEF InputInv, Size

-----------------------------------------------------------------------------
(* The main thread.                                                        *)

Quiet ==
  /\ UNCHANGED <<skew, key, rel, tmp, side, cur, hist, output, dst, skewQueue, skewtask, left, arrived>>
  /\ Parallel' => Parallel

(* A step that starts a thread, or none. *)
Starts ==
  /\ DOMAIN args' = Threads
  /\ \A t \in Threads :
       \/ pc'[t] = pc[t] /\ args'[t] = args[t]
       \/ /\ pc[t] = "unborn" /\ pc'[t] = "start"
          /\ args'[t] = [x \in Rel |-> Share([at |-> 0, num |-> Size(x)], t)]

LEMMA QuietContext ==
  ASSUME Quiet, Starts
  PROVE  /\ UNCHANGED <<Again, FanOut>>
         /\ \A x \in Rel : UNCHANGED <<Size(x), From(x), To(x), Whole(x), Places(x), TheDigits(x)>>
         /\ \A x \in Rel, u \in Threads : UNCHANGED Own(u, x)
         /\ \A x \in Rel : \A p : UNCHANGED PlaceOf(x, p)
         /\ UNCHANGED Active
<1>1. UNCHANGED <<skewtask, key, rel, tmp>>
  BY DEF Quiet
<1>2. UNCHANGED <<Again, FanOut>>
  BY <1>1 DEF Again, FanOut
<1>3. ASSUME NEW x \in Rel
      PROVE  UNCHANGED <<Size(x), From(x), To(x), Whole(x), Places(x)>>
  BY <1>1, <1>2 DEF Size, From, To, Whole, Places, Positions
<1>4. ASSUME NEW x \in Rel
      PROVE  UNCHANGED TheDigits(x)
  BY <1>1, <1>2, <1>3 DEF TheDigits, DigitOf
<1>5. ASSUME NEW x \in Rel, NEW u \in Threads
      PROVE  UNCHANGED Own(u, x)
  BY <1>3 DEF Own, Share
<1>6. ASSUME NEW x \in Rel, NEW p
      PROVE  UNCHANGED PlaceOf(x, p)
  BY <1>3, <1>4 DEF PlaceOf, Place, Below
<1>7. UNCHANGED Active
  BY ThreadsFinite DEF Starts, Active
<1>8. QED
  BY <1>2, <1>3, <1>4, <1>5, <1>6, <1>7

LEMMA QuietLabels ==
  ASSUME Starts, NEW u \in Threads, NEW s, NEW x
  PROVE  /\ Uncounted(pc'[u], s, x) <=> Uncounted(pc[u], s, x)
         /\ Counted(pc'[u], s, x) <=> Counted(pc[u], s, x)
         /\ Planned(pc'[u], s, x) <=> Planned(pc[u], s, x)
         /\ Ended(pc'[u], s, x) <=> Ended(pc[u], s, x)
         /\ Joining(pc'[u]) <=> Joining(pc[u])
         /\ pc'[u] = "scatter" <=> pc[u] = "scatter"
<1>1. CASE pc'[u] = pc[u]
  BY <1>1
<1>2. CASE pc[u] = "unborn" /\ pc'[u] = "start"
  BY <1>2 DEF Uncounted, Counted, Planned, Ended, Joining, Behind, Counting
<1>3. QED
  BY <1>1, <1>2 DEF Starts

LEMMA QuietStep ==
  ASSUME OrderInv, ShapeInv, SkewInv, InputInv, HistogramInv, BoundaryInv, CursorInv, PlacedInv,
         WrittenInv, Quiet, Starts
  PROVE  /\ ShapeInv' /\ SkewInv' /\ InputInv' /\ HistogramInv'
         /\ BoundaryInv' /\ CursorInv' /\ PlacedInv' /\ WrittenInv'
<1>1. /\ UNCHANGED <<skew, key, rel, tmp, side, cur, hist, output, dst, skewQueue, skewtask, left, arrived>>
      /\ Parallel' => Parallel
  BY DEF Quiet
<1>2. /\ UNCHANGED <<Again, FanOut, Active>>
      /\ \A x \in Rel : UNCHANGED <<Size(x), From(x), To(x), Whole(x), Places(x), TheDigits(x)>>
      /\ \A x \in Rel, u \in Threads : UNCHANGED Own(u, x)
      /\ \A x \in Rel : \A p : UNCHANGED PlaceOf(x, p)
  BY QuietContext
<1>3. ShapeInv'
  <2>1. \A u \in Threads : pc'[u] # "unborn" =>
          args'[u] = [x \in Rel |-> Share([at |-> 0, num |-> Size(x)], u)]
    BY DEF Starts, ShapeInv
  <2>2. \A u \in Threads : pc'[u] # "unborn" =>
          args'[u] = [x \in Rel |-> Share([at |-> 0, num |-> Size(x)], u)]'
    BY <2>1 DEF Share, Size
  <2>3. DOMAIN args' = Threads
    BY DEF Starts
  <2>4. QED
    BY <1>1, <1>2, <2>2, <2>3 DEF ShapeInv, Size
<1>4. SkewInv'
  BY <1>1, <1>2 DEF SkewInv, Region
<1>5. InputInv'
  <2>1. \A u \in Threads : Joining(pc'[u]) <=> Joining(pc[u])
    BY QuietLabels
  <2>2. QED
    BY <1>1, <1>2, <2>1 DEF InputInv
<1>6. HistogramInv'
  <2>1. SUFFICES ASSUME Parallel', NEW u \in Threads, NEW x \in Rel
                 PROVE  /\ Uncounted(pc'[u], side'[u], x) => hist'[x][u] = [c \in 0 .. (FanOut' - 1) |-> 0]
                        /\ Active' /\ Counted(pc'[u], side'[u], x) =>
                             hist'[x][u] = [c \in 0 .. (FanOut' - 1) |->
                                             Below(TheDigits(x)', Positions(Own(u, x)'), c + 1)]
    BY DEF HistogramInv, Positions, Below
  <2>2. /\ Uncounted(pc'[u], side'[u], x) <=> Uncounted(pc[u], side[u], x)
        /\ Counted(pc'[u], side'[u], x) <=> Counted(pc[u], side[u], x)
    BY <1>1, QuietLabels
  <2>3. PICK d, own, F : d = TheDigits(x) /\ own = Own(u, x) /\ F = FanOut
    OBVIOUS
  <2>4. TheDigits(x)' = d /\ Own(u, x)' = own /\ FanOut' = F
    BY <1>2, <2>3
  <2>5. SUFFICES /\ Uncounted(pc'[u], side'[u], x) => hist'[x][u] = [c \in 0 .. (F - 1) |-> 0]
                 /\ Active' /\ Counted(pc'[u], side'[u], x) =>
                      hist'[x][u] = [c \in 0 .. (F - 1) |-> Below(d, Positions(own), c + 1)]
    BY <2>4
  <2>6. Parallel /\ (Active' <=> Active) /\ hist' = hist
    BY <1>1, <1>2, <2>1
  <2>7. /\ Uncounted(pc[u], side[u], x) => hist[x][u] = [c \in 0 .. (F - 1) |-> 0]
        /\ Active /\ Counted(pc[u], side[u], x) =>
             hist[x][u] = [c \in 0 .. (F - 1) |-> Below(d, Positions(own), c + 1)]
    <3>1. /\ Uncounted(pc[u], side[u], x) => hist[x][u] = [c \in 0 .. (FanOut - 1) |-> 0]
          /\ Active /\ Counted(pc[u], side[u], x) =>
               hist[x][u] = [c \in 0 .. (FanOut - 1) |-> Below(TheDigits(x), Positions(Own(u, x)), c + 1)]
      BY <2>6 DEF HistogramInv
    <3>2. QED
      BY <2>3, <3>1
  <2>8. QED
    BY <2>2, <2>6, <2>7
<1>7. BoundaryInv'
  <2>1. SUFFICES ASSUME Parallel', NEW x \in Rel, Active', Planned(pc'[0], side'[0], x)
                 PROVE  output'[0][x] = [c \in 0 .. FanOut' |-> Below(TheDigits(x)', Places(x)', c)]
    BY DEF BoundaryInv, Below
  <2>2. Planned(pc[0], side[0], x)
    BY <1>1, <2>1, QuietLabels, ThreadsFinite
  <2>3. UNCHANGED TheDigits(x) /\ UNCHANGED Places(x)
    BY <1>2
  <2>4. QED
    BY <1>1, <1>2, <2>1, <2>2, <2>3 DEF BoundaryInv
<1>8. CursorInv'
  <2>1. SUFFICES ASSUME NEW u \in Threads, pc'[u] = "scatter", NEW x, x = side'[u]
                 PROVE  (/\ cur[u] <= Own(u, x).num
                         /\ dst[u] = [c \in 0 .. (FanOut - 1) |->
                                        Before(TheDigits(x), Places(x), c, Own(u, x).at + cur[u])])'
    BY DEF CursorInv
  <2>2. x \in Rel /\ x = side[u] /\ pc[u] = "scatter"
    BY <1>1, <2>1, QuietLabels DEF OrderInv, PhaseInv, Phase
  <2>3. PICK d, P, F, own : d = TheDigits(x) /\ P = Places(x) /\ F = FanOut /\ own = Own(u, x)
    OBVIOUS
  <2>4. d = TheDigits(x)' /\ P = Places(x)' /\ F = FanOut' /\ own = Own(u, x)'
    BY <1>2, <2>2, <2>3
  <2>5. SUFFICES /\ cur'[u] <= own.num
                 /\ dst'[u] = [c \in 0 .. (F - 1) |-> Before(d, P, c, own.at + cur'[u])]
    BY <2>4 DEF Before, Below, Earlier
  <2>6. cur'[u] = cur[u] /\ dst'[u] = dst[u]
    BY <1>1
  <2>7. QED
    BY <2>2, <2>3, <2>6 DEF CursorInv
<1>9. ASSUME NEW u \in Threads, NEW x \in Rel, NEW p
      PROVE  Scattered(u, x, p)' <=> Scattered(u, x, p)
  BY <1>1, <1>2, QuietLabels DEF Scattered
<1>10. \A u \in Threads, x \in Rel : Positions(Own(u, x))' = Positions(Own(u, x))
  BY <1>2 DEF Positions
<1>11. PlacedInv'
  <2>1. SUFFICES ASSUME Parallel', Active', pc'[0] # "wait_allocate",
                        NEW u \in Threads, NEW x \in Rel, NEW p \in Positions(Own(u, x))',
                        Scattered(u, x, p)'
                 PROVE  To(x)'[PlaceOf(x, p)'] = From(x)'[p]
    BY DEF PlacedInv
  <2>2. /\ p \in Positions(Own(u, x)) /\ PlaceOf(x, p)' = PlaceOf(x, p) /\ From(x)' = From(x)
        /\ To(x)' = To(x) /\ Scattered(u, x, p)
    BY <1>2, <1>9, <1>10, <2>1
  <2>3. Parallel /\ Active /\ pc[0] # "wait_allocate"
    BY <1>1, <1>2, <2>1, ThreadsFinite DEF Starts
  <2>4. QED
    BY <2>2, <2>3 DEF PlacedInv
<1>12. WrittenInv'
  <2>1. SUFFICES ASSUME Parallel', Active', ~Again', NEW x \in Rel, NEW q \in DOMAIN tmp'[x], tmp'[x][q] # Garbage
                 PROVE  \E u \in Threads : \E p \in Positions(Own(u, x))' :
                          Scattered(u, x, p)' /\ q = PlaceOf(x, p)'
    BY DEF WrittenInv
  <2>2. PICK u \in Threads : \E p \in Positions(Own(u, x)) : Scattered(u, x, p) /\ q = PlaceOf(x, p)
    BY <1>1, <1>2, <2>1 DEF WrittenInv
  <2>3. PICK p \in Positions(Own(u, x)) : Scattered(u, x, p) /\ q = PlaceOf(x, p)
    BY <2>2
  <2>4. PlaceOf(x, p)' = PlaceOf(x, p) /\ Scattered(u, x, p)'
    BY <1>2, <1>9, <2>3
  <2>5. QED
    BY <1>10, <2>3, <2>4
<1>13. QED
  BY <1>3, <1>4, <1>5, <1>6, <1>7, <1>8, <1>11, <1>12

(* RJ() partitions in the main thread alone. *)
LEMMA SerialStep ==
  ASSUME OrderInv, ShapeInv, SkewInv, RadixCluster \/ JoinCluster \/ Return
  PROVE  /\ ShapeInv' /\ SkewInv' /\ InputInv' /\ HistogramInv'
         /\ BoundaryInv' /\ CursorInv' /\ PlacedInv' /\ WrittenInv'
<1>1. /\ UNCHANGED <<pc, args, key, hist, output, dst, cur, skewQueue, skewtask>>
      /\ \A t \in Threads : pc[t] = "unborn"
      /\ ~Parallel'
  BY DEF RadixCluster, JoinCluster, Return, OrderInv, MainInv, Parallel, inputs, pass1, queues, skewVars
<1>2. \A x \in Rel : Size(x)' = Size(x)
  BY DEF Size
<1>3. /\ DOMAIN rel' = Rel /\ DOMAIN tmp' = Rel
      /\ \A x \in Rel : DOMAIN rel'[x] = 0 .. (Size(x) - 1) /\ DOMAIN tmp'[x] = 0 .. (Size(x) - 1)
  <2>1. CASE RadixCluster
    <3>1. PICK x \in Rel : \E from, digit, P :
            \/ tmp' = [tmp EXCEPT ![x] = Clustered(@, from, digit, P, 0, 0)] /\ UNCHANGED rel
            \/ rel' = [rel EXCEPT ![x] = Clustered(@, from, digit, P, 0, 0)] /\ UNCHANGED tmp
      BY <2>1 DEF RadixCluster, Rel
    <3>2. QED
      BY <3>1 DEF ShapeInv, Clustered
  <2>2. CASE JoinCluster \/ Return
    BY <2>2 DEF JoinCluster, Return, arrays, ShapeInv
  <2>3. QED
    BY <2>1, <2>2
<1>4. ShapeInv'
  BY <1>1, <1>2, <1>3 DEF ShapeInv
<1>5. SkewInv'
  BY <1>1, <1>2 DEF SkewInv, Region
<1>6. InputInv' /\ HistogramInv' /\ BoundaryInv' /\ PlacedInv' /\ WrittenInv'
  BY <1>1 DEF InputInv, HistogramInv, BoundaryInv, PlacedInv, WrittenInv
<1>7. CursorInv'
  BY <1>1 DEF CursorInv
<1>8. QED
  BY <1>4, <1>5, <1>6, <1>7

LEMMA PartitionInvInit == Init => PartitionInv
<1>1. SUFFICES ASSUME Init PROVE PartitionInv
  OBVIOUS
<1>2. QueuesInv /\ OrderInv
  BY <1>1, QueuesInvInit, InitOrderInv
<1>3. /\ \A t \in Threads : pc[t] = "unborn" /\ left[t] = 0 /\ cur[t] = 0 /\ 0 \in Threads
      /\ ~Again /\ FanOut = FanOut1
  BY <1>1, ThreadsFinite DEF Init, Sync!BarrierInit, Again, FanOut
<1>4. ASSUME NEW x \in Rel
      PROVE  Room(x) = Size(x) /\ Size(x) \in Nat
  <2>1. PICK n \in Nat : n = Size(x)
    BY RadixJoinAssumption DEF Size
  <2>2. PICK f \in Nat : f = FanOut1
    BY FanOutTypes
  <2>3. Room(x) = n + 0 * f
    BY <2>1, <2>2, FanOutTypes DEF Room
  <2>4. QED
    BY <2>1, <2>2, <2>3
<1>5. ShapeInv
  <2>1. /\ DOMAIN rel = Rel /\ DOMAIN tmp = Rel
        /\ \A x \in Rel : DOMAIN rel[x] = 0 .. (Size(x) - 1) /\ DOMAIN tmp[x] = 0 .. (Size(x) - 1)
    BY <1>1, <1>4 DEF Init
  <2>2. \A x \in Rel : key[x] \in [0 .. (Size(x) - 1) -> Keys]
    <3>1. PICK input \in Inputs : key = [x \in Rel |-> IF x = "R" THEN input.r ELSE input.s]
      BY <1>1 DEF Init
    <3>2. input.r \in [0 .. (NumR - 1) -> Keys] /\ input.s \in [0 .. (NumS - 1) -> Keys]
      BY RadixJoinAssumption
    <3>3. QED
      BY <3>1, <3>2 DEF Size, Rel
  <2>3. /\ DOMAIN hist = Rel /\ \A x \in Rel : DOMAIN hist[x] = Threads
        /\ DOMAIN output = Threads /\ \A t \in Threads : DOMAIN output[t] = Rel
        /\ DOMAIN dst = Threads /\ DOMAIN cur = Threads /\ DOMAIN args = Threads
    BY <1>1 DEF Init
  <2>4. QED
    BY <1>3, <2>1, <2>2, <2>3 DEF ShapeInv
<1>6. SkewInv
  <2>1. skewtask = NoTask /\ DOMAIN skewQueue.task = {}
    BY <1>1 DEF Init, EmptyQueue
  <2>2. Region(NoTask)
    BY <1>4 DEF Region, IsPart, NoTask, NoPart
  <2>3. QED
    BY <2>1, <2>2 DEF SkewInv
<1>7. InputInv
  <2>1. \A x \in Rel : \A i \in 0 .. (Size(x) - 1) : rel[x][i] = i
    BY <1>1, <1>4 DEF Init
  <2>2. ~ (left[0] >= 4)
    BY <1>3, ThreadsFinite
  <2>3. QED
    BY <2>1, <2>2 DEF InputInv
<1>8. HistogramInv
  <2>1. \A t \in Threads, x \in Rel : hist[x][t] = [c \in 0 .. (FanOut - 1) |-> 0]
    BY <1>1, <1>3 DEF Init
  <2>2. \A t \in Threads, x \in Rel : ~Counted(pc[t], side[t], x)
    BY <1>3 DEF Counted, Behind
  <2>3. QED
    BY <2>1, <2>2 DEF HistogramInv
<1>9. BoundaryInv
  BY <1>3, ThreadsFinite DEF BoundaryInv, Planned, Behind
<1>10. CursorInv
  BY <1>3 DEF CursorInv
<1>11. PlacedInv
  BY <1>3 DEF PlacedInv, Scattered, Ended, Behind, Counting
<1>12. WrittenInv
  BY <1>1 DEF Init, WrittenInv
<1>13. QED
  BY <1>2, <1>5, <1>6, <1>7, <1>8, <1>9, <1>10, <1>11, <1>12 DEF PartitionInv

LEMMA PartitionInvStep == PartitionInv /\ [Next]_vars => PartitionInv'
<1>1. SUFFICES ASSUME PartitionInv, [Next]_vars PROVE PartitionInv'
  OBVIOUS
<1>2. QueuesInv' /\ OrderInv'
  BY <1>1, QueuesInvStep, OrderInvStep DEF PartitionInv
<1>3. /\ QueuesInv /\ OrderInv /\ ShapeInv /\ SkewInv /\ InputInv
      /\ HistogramInv /\ BoundaryInv /\ CursorInv /\ PlacedInv /\ WrittenInv
  BY <1>1 DEF PartitionInv
<1>4. SUFFICES /\ ShapeInv' /\ SkewInv' /\ InputInv' /\ HistogramInv'
               /\ BoundaryInv' /\ CursorInv' /\ PlacedInv' /\ WrittenInv'
  BY <1>2 DEF PartitionInv
<1>5. CASE Spawn
  <2>1. Quiet
    BY <1>5 DEF Spawn, Quiet, Parallel, inputs, arrays, pass1, queues, skewVars, barrier
  <2>2. Starts
    <3>1. mainI \in Threads /\ pc[mainI] = "unborn"
      <4>1. mainI \in Threads /\ (pc[mainI] = "unborn" <=> mainI >= mainI)
        BY <1>3, <1>5 DEF Spawn, OrderInv, MainInv
      <4>2. mainI \in Nat
        BY <4>1, ThreadsFinite
      <4>3. QED
        BY <4>1, <4>2
    <3>2. QED
      BY <1>3, <1>5, <3>1 DEF Spawn, Starts, Goto, OrderInv, ShapeInv
  <2>3. QED
    BY <1>3, <2>1, <2>2, QuietStep
<1>6. CASE Join
  <2>1. Quiet /\ Starts
    BY <1>3, <1>6 DEF Join, Quiet, Starts, Parallel, ShapeInv, inputs, arrays, pass1, queues, skewVars, barrier
  <2>2. QED
    BY <1>3, <2>1, QuietStep
<1>7. CASE RadixCluster \/ JoinCluster \/ Return
  BY <1>3, <1>7, SerialStep
<1>8. CASE UNCHANGED vars
  <2>1. Quiet /\ Starts
    BY <1>3, <1>8 DEF vars, mainVars, Quiet, Starts, Parallel, ShapeInv, inputs, arrays, pass1, queues, skewVars, barrier
  <2>2. QED
    BY <1>3, <2>1, QuietStep
<1>9. ASSUME NEW t \in Threads, Thread(t)
      PROVE  /\ ShapeInv' /\ SkewInv' /\ InputInv' /\ HistogramInv'
             /\ BoundaryInv' /\ CursorInv' /\ PlacedInv' /\ WrittenInv'
  BY <1>3, <1>9, ShapeStep, SkewStep, InputStep, HistogramStep, BoundaryStep, CursorStep, PlacedStep, WrittenStep
<1>10. QED
  BY <1>1, <1>5, <1>6, <1>7, <1>8, <1>9 DEF Next, Main, Finished

LEMMA PartitionInvCorrect == Spec => []PartitionInv
<1>1. Init => PartitionInv
  BY PartitionInvInit
<1>2. PartitionInv /\ [Next]_vars => PartitionInv'
  BY PartitionInvStep
<1>3. QED
  BY <1>1, <1>2, PTL DEF Spec

-----------------------------------------------------------------------------

(* A tuple that is written to the temporary array has been scattered       *)
(* there, and the next tuple of a thread has not been.                     *)
LEMMA NotOverwritten ==
  ASSUME PartitionInv, NEW t \in Threads, Thread(t), Scatter(t), ~Again,
         NEW x \in Rel, NEW q \in DOMAIN tmp[x], tmp[x][q] # Garbage
  PROVE  tmp'[x][q] = tmp[x][q]
<1>1. OrderInv /\ ShapeInv /\ SkewInv /\ InputInv /\ CursorInv /\ WrittenInv /\ Parallel
  BY ThreadParallel DEF PartitionInv
<1>2. PICK y, o : y \in Rel /\ y = side[t] /\ o = Own(t, y).at + cur[t]
  BY <1>1 DEF OrderInv, PhaseInv, Phase
<1>3. /\ Active /\ Active' /\ pc[t] = "scatter" /\ o \in Positions(Own(t, y)) /\ o \in Places(y)
      /\ \A r \in 0 .. (Size(y) - 1) :
           To(y)'[r] = IF r = PlaceOf(y, o) THEN From(y)[o] ELSE To(y)[r]
      /\ \A z \in Rel : z # y => To(z)' = To(z)
  BY <1>1, <1>2, ScatterEffect
<1>4. To(x)' = tmp'[x] /\ To(x) = tmp[x]
  <2>1. ~Again'
    BY <1>1, <1>3, ContextStill
  <2>2. QED
    BY <2>1 DEF To
<1>5. CASE x # y
  BY <1>3, <1>4, <1>5
<1>6. CASE x = y
  <2>1. PICK u \in Threads : \E p \in Positions(Own(u, x)) : Scattered(u, x, p) /\ q = PlaceOf(x, p)
    BY <1>1, <1>3 DEF WrittenInv
  <2>2. PICK p \in Positions(Own(u, x)) : Scattered(u, x, p) /\ q = PlaceOf(x, p)
    BY <2>1
  <2>3. p # o
    <3>1. SUFFICES ASSUME p = o PROVE FALSE
      OBVIOUS
    <3>2. IsPart(Whole(x))
      BY <1>1, WholeFacts
    <3>3. u = t
      BY <1>3, <1>6, <2>2, <3>1, <3>2, OwnersInOrder DEF Own
    <3>4. ~Ended(pc[t], side[t], x)
      BY <1>2, <1>3, <1>6 DEF Ended, Behind
    <3>5. o < Own(t, x).at + cur[t]
      BY <2>2, <3>1, <3>3, <3>4 DEF Scattered
    <3>6. PICK k, at : k = cur[t] /\ at = Own(t, x).at
      OBVIOUS
    <3>7. k \in Nat /\ at \in Nat
      BY <1>1, <3>2, <3>6, ShareFacts DEF ShapeInv, Own, IsPart
    <3>8. QED
      BY <1>2, <1>6, <3>5, <3>6, <3>7
  <2>4. p \in Places(x)
    BY <1>1, <2>2, OwnPlaces
  <2>5. PlaceOf(x, p) # PlaceOf(x, o)
    BY <1>1, <1>3, <1>6, <2>3, <2>4, PlacesApart
  <2>6. q \in 0 .. (Size(x) - 1)
    BY <1>1 DEF ShapeInv
  <2>7. QED
    BY <1>3, <1>4, <1>6, <2>2, <2>5, <2>6
<1>7. QED
  BY <1>5, <1>6

(* However the threads take their turns, the places that each computes for *)
(* itself from everybody's histograms are its own: in the first pass no    *)
(* thread ever writes a tuple over one that another, or itself, has put    *)
(* into the temporary array.                                               *)
THEOREM ScatterOverwritesNothingCorrect == Spec => ScatterOverwritesNothing
<1>1. PartitionInv /\ [Next]_vars =>
        [\A t \in Threads : pc[t] = "scatter" /\ ~Again /\ cur'[t] # cur[t] =>
           \A x \in Rel : \A p \in DOMAIN tmp[x] :
             tmp[x][p] # Garbage => tmp'[x][p] = tmp[x][p]]_vars
  <2>1. SUFFICES ASSUME PartitionInv, Next, NEW t \in Threads, pc[t] = "scatter", ~Again, cur'[t] # cur[t],
                        NEW x \in Rel, NEW p \in DOMAIN tmp[x], tmp[x][p] # Garbage
                 PROVE  tmp'[x][p] = tmp[x][p]
    OBVIOUS
  <2>2. ~Main /\ ~Finished
    BY <2>1 DEF Main, Spawn, Join, RadixCluster, JoinCluster, Return, Finished, vars
  <2>3. PICK u \in Threads : Thread(u)
    BY <2>1, <2>2 DEF Next
  <2>4. u = t
    BY <2>1, <2>3, CursorFrame DEF PartitionInv
  <2>5. Scatter(t)
    <3>1. Scatter(t) \/ EndScatterR(t) \/ EndScatterS(t)
      BY <2>1, <2>3, <2>4, Acts
    <3>2. QED
      BY <2>1, <3>1 DEF EndScatterR, EndScatterS
  <2>6. QED
    BY <2>1, <2>3, <2>4, <2>5, NotOverwritten
<1>2. QED
  BY <1>1, PartitionInvCorrect, PTL DEF Spec, ScatterOverwritesNothing

(* What thread 0 makes tasks of: by its boundaries, cluster c of relation x. *)
Cluster(x, c) ==
  [at |-> Whole(x).at + output[0][x][c], num |-> output[0][x][c + 1] - output[0][x][c]]

LEMMA ClusterHolds ==
  ASSUME PartitionInv, Parallel, pc[0] \in {"create", "create_join"}, NEW x \in Rel,
         NEW c \in 0 .. (FanOut - 1), NEW q \in Positions(Cluster(x, c))
  PROVE  \E p \in Places(x) : q = PlaceOf(x, p) /\ DigitOf(x, From(x)[p]) = c
<1>1. /\ OrderInv /\ ShapeInv /\ SkewInv /\ InputInv /\ BoundaryInv
      /\ Active /\ Planned(pc[0], side[0], x)
  BY DEF PartitionInv, Active, Planned, Behind
<1>2. PICK d, P, F, at : d = TheDigits(x) /\ P = Places(x) /\ F = FanOut /\ at = Whole(x).at
  OBVIOUS
<1>3. \A p \in P : d[p] \in 0 .. (F - 1)
  BY <1>1, <1>2, FromValid
<1>4. F \in Nat /\ P \in SUBSET Int /\ IsFiniteSet(P) /\ at \in Nat
  BY <1>1, <1>2, FanOutTypes, WholeFacts DEF IsPart
<1>5. output[0][x] = [e \in 0 .. F |-> Below(d, P, e)]
  BY <1>1, <1>2 DEF BoundaryInv
<1>6. c \in Nat /\ c \in 0 .. (F - 1) /\ c \in 0 .. F /\ c + 1 \in 0 .. F
  BY <1>2, <1>4
<1>7. PICK i, j \in Nat : i = Below(d, P, c) /\ j = Below(d, P, c + 1)
  <2>1. \A e \in Nat : Below(d, P, e) \in Nat
    BY <1>3, <1>4, BelowFacts
  <2>2. c \in Nat /\ c + 1 \in Nat
    BY <1>6
  <2>3. QED
    BY <2>1, <2>2
<1>8. Cluster(x, c) = [at |-> at + i, num |-> j - i]
  BY <1>2, <1>5, <1>6, <1>7 DEF Cluster
<1>9. PICK k : k = q - at
  OBVIOUS
<1>10. q \in (at + i) .. (at + i + (j - i) - 1)
  BY <1>8 DEF Positions
<1>11. k \in i .. (j - 1) /\ q = at + k
  BY <1>4, <1>7, <1>9, <1>10
<1>12. \E p \in P : Place(d, P, 0, p) = k /\ d[p] = c
  <2>1. k \in Below(d, P, c) .. (Below(d, P, c + 1) - 1)
    BY <1>7, <1>11
  <2>2. QED
    BY <1>3, <1>4, <1>6, <2>1, ClusterCovered
<1>13. PICK p \in P : Place(d, P, 0, p) = k /\ d[p] = c
  BY <1>12
<1>14. q = PlaceOf(x, p)
  BY <1>2, <1>11, <1>13 DEF PlaceOf
<1>15. DigitOf(x, From(x)[p]) = c
  BY <1>2, <1>13 DEF TheDigits
<1>16. QED
  BY <1>2, <1>14, <1>15

LEMMA TasksOfAll ==
  ASSUME PartitionInv, Parallel, pc[0] \in {"create", "create_join"}, NEW x \in Rel
  PROVE  \A p \in Places(x) : To(x)[PlaceOf(x, p)] = From(x)[p] /\ PlaceOf(x, p) \in 0 .. (Size(x) - 1)
<1>1. OrderInv /\ ShapeInv /\ SkewInv /\ InputInv /\ PlacedInv /\ Active /\ 0 \in Threads
  BY ThreadsFinite DEF PartitionInv, Active
<1>2. PICK m, y, n, b : m = pc[0] /\ y = side[0] /\ n = left[0] /\ b = arrived[0]
  OBVIOUS
<1>3. Phase(0, m, y, n, b) /\ Announced(0, m, n)
  BY <1>1, <1>2 DEF OrderInv, PhaseInv
<1>4. n \in Nat /\ b = n /\ (m = "create" => n = 4 /\ ~Again) /\ (m = "create_join" => Again)
  BY <1>2, <1>3 DEF Phase, Announced, AtSkewed, AtRelations, SkewLabels
<1>5. ASSUME NEW u \in Threads
      PROVE  Ended(pc[u], side[u], x)
  <2>1. PICK l, s, k, a : l = pc[u] /\ s = side[u] /\ k = left[u] /\ a = arrived[u]
    OBVIOUS
  <2>2. Phase(u, l, s, k, a) /\ Announced(u, l, k) /\ k <= n /\ n <= a
    BY <1>1, <1>2, <1>4, <2>1 DEF OrderInv, PhaseInv
  <2>3. CASE u = 0
    BY <2>3 DEF Ended, Behind
  <2>4. CASE u # 0 /\ m = "create"
    BY <1>4, <2>1, <2>2, <2>4, EverybodyEnded
  <2>5. CASE u # 0 /\ m = "create_join"
    <3>1. ~Late(l) /\ ~AtRelations(l, k)
      BY <1>4, <2>2, <2>5 DEF Announced
    <3>2. Phase(0, "create_join", y, n, n)
      BY <1>3, <1>4, <2>5
    <3>3. QED
      BY <2>1, <2>2, <2>5, <3>1, <3>2, EverybodyEndedAgain
  <2>6. QED
    BY <1>2, <2>3, <2>4, <2>5
<1>6. \A p \in Places(x) : To(x)[PlaceOf(x, p)] = From(x)[p]
  BY <1>1, <1>5, AllPlaced
<1>7. QED
  BY <1>1, <1>6, PlaceInArray

LEMMA CreatesOfAll ==
  ASSUME PartitionInv, Parallel, pc[0] = "create", NEW x \in Rel
  PROVE  Partitioned(x, DOMAIN key[x], tmp[x],
                     [c \in 0 .. (FanOut1 - 1) |-> Pass1Task(0, c)],
                     [i \in DOMAIN key[x] |-> Digit(key[x][i], 0, FanOut1)])
<1>1. OrderInv /\ ShapeInv /\ SkewInv /\ InputInv /\ BoundaryInv /\ Active /\ ~Again
  BY ThreadsFinite DEF PartitionInv, Active, OrderInv, PhaseInv, Announced, AtRelations
<1>2. /\ DOMAIN key[x] = 0 .. (Size(x) - 1) /\ DOMAIN tmp[x] = 0 .. (Size(x) - 1)
      /\ Places(x) = 0 .. (Size(x) - 1) /\ FanOut = FanOut1 /\ To(x) = tmp[x] /\ Size(x) \in Nat
  <2>1. Size(x) \in Nat
    BY <1>1, WholeFacts
  <2>2. Places(x) = 0 .. (Size(x) - 1)
    BY <1>1, <2>1 DEF Places, Positions, Whole
  <2>3. QED
    BY <1>1, <2>1, <2>2 DEF ShapeInv, FanOut, To
<1>3. \A i \in 0 .. (Size(x) - 1) : From(x)[i] = i
  BY <1>1, FromValid
<1>4. \A i \in 0 .. (Size(x) - 1) : tmp[x][PlaceOf(x, i)] = i /\ PlaceOf(x, i) \in DOMAIN tmp[x]
  BY <1>2, <1>3, TasksOfAll
<1>5. ASSUME NEW c \in 0 .. (FanOut1 - 1), NEW q \in Positions(Pass1Task(0, c)[x])
      PROVE  tmp[x][q] \in DOMAIN key[x] /\ Digit(key[x][tmp[x][q]], 0, FanOut1) = c
  <2>1. Positions(Pass1Task(0, c)[x]) = Positions(Cluster(x, c))
    <3>1. output[0][x] = [e \in 0 .. FanOut |-> Below(TheDigits(x), Places(x), e)]
      BY <1>1 DEF BoundaryInv, Planned, Behind
    <3>2. \A e \in Nat : Below(TheDigits(x), Places(x), e) \in Nat
      <4>1. Places(x) \in SUBSET Int /\ IsFiniteSet(Places(x)) /\ FanOut \in Nat
        BY <1>1, WholeFacts, FanOutTypes
      <4>2. \A p \in Places(x) : TheDigits(x)[p] \in 0 .. (FanOut - 1)
        BY <1>1, FromValid
      <4>3. QED
        BY <4>1, <4>2, BelowFacts
    <3>3. c \in 0 .. FanOut /\ c + 1 \in 0 .. FanOut /\ c \in Nat /\ c + 1 \in Nat
      BY <1>2, FanOutTypes
    <3>4. PICK i, j \in Nat : i = output[0][x][c] /\ j = output[0][x][c + 1]
      BY <3>1, <3>2, <3>3
    <3>5. Pass1Task(0, c)[x] = [at |-> i, num |-> j - i - 0]
      BY <3>4, FanOutTypes DEF Pass1Task
    <3>6. Cluster(x, c) = [at |-> 0 + i, num |-> j - i]
      BY <1>1, <3>4 DEF Cluster, Whole
    <3>7. QED
      BY <3>4, <3>5, <3>6
  <2>2. PICK p \in Places(x) : q = PlaceOf(x, p) /\ DigitOf(x, From(x)[p]) = c
    BY <1>2, <2>1, ClusterHolds
  <2>3. tmp[x][q] = p /\ From(x)[p] = p /\ p \in DOMAIN key[x]
    BY <1>2, <1>3, <1>4, <2>2
  <2>4. QED
    BY <1>1, <2>2, <2>3 DEF DigitOf
<1>6. DOMAIN key[x] \subseteq {tmp[x][p] : p \in DOMAIN tmp[x]}
  BY <1>2, <1>4
<1>7. QED
  BY <1>5, <1>6 DEF Partitioned

LEMMA CreatesOfAllAgain ==
  ASSUME PartitionInv, Parallel, pc[0] = "create_join", NEW x \in Rel
  PROVE  Partitioned(x, {tmp[x][p] : p \in Positions(skewtask[x])}, rel[x],
                     [c \in 0 .. (FanOut2 - 1) |-> SkewJoinTask(0, c)],
                     [i \in DOMAIN key[x] |-> Digit(key[x][i], Bits1, FanOut2)])
<1>1. OrderInv /\ ShapeInv /\ SkewInv /\ InputInv /\ BoundaryInv /\ Active /\ Again
  BY ThreadsFinite DEF PartitionInv, Active, OrderInv, PhaseInv, Announced, AtSkewed
<1>2. /\ DOMAIN key[x] = 0 .. (Size(x) - 1) /\ DOMAIN rel[x] = 0 .. (Size(x) - 1)
      /\ Places(x) = Positions(skewtask[x]) /\ FanOut = FanOut2 /\ To(x) = rel[x] /\ From(x) = tmp[x]
      /\ Whole(x) = skewtask[x]
  BY <1>1 DEF ShapeInv, FanOut, To, From, Places, Whole
<1>3. \A p \in Positions(skewtask[x]) : tmp[x][p] \in DOMAIN key[x]
  BY <1>1, <1>2, FromValid
<1>4. \A p \in Positions(skewtask[x]) : rel[x][PlaceOf(x, p)] = tmp[x][p] /\ PlaceOf(x, p) \in DOMAIN rel[x]
  BY <1>2, TasksOfAll
<1>5. ASSUME NEW c \in 0 .. (FanOut2 - 1), NEW q \in Positions(SkewJoinTask(0, c)[x])
      PROVE  \E p \in Positions(skewtask[x]) : rel[x][q] = tmp[x][p] /\ Digit(key[x][tmp[x][p]], Bits1, FanOut2) = c
  <2>1. Positions(SkewJoinTask(0, c)[x]) = Positions(Cluster(x, c))
    <3>1. output[0][x] = [e \in 0 .. FanOut |-> Below(TheDigits(x), Places(x), e)]
      BY <1>1 DEF BoundaryInv, Planned, Behind
    <3>2. \A e \in Nat : Below(TheDigits(x), Places(x), e) \in Nat
      <4>1. Places(x) \in SUBSET Int /\ IsFiniteSet(Places(x)) /\ FanOut \in Nat
        BY <1>1, WholeFacts, FanOutTypes
      <4>2. \A p \in Places(x) : TheDigits(x)[p] \in 0 .. (FanOut - 1)
        BY <1>1, FromValid
      <4>3. QED
        BY <4>1, <4>2, BelowFacts
    <3>3. c \in 0 .. FanOut /\ c + 1 \in 0 .. FanOut /\ c \in Nat /\ c + 1 \in Nat
      BY <1>2, FanOutTypes
    <3>4. PICK i, j \in Nat : i = output[0][x][c] /\ j = output[0][x][c + 1]
      BY <3>1, <3>2, <3>3
    <3>5. SkewJoinTask(0, c)[x] = [at |-> skewtask[x].at + i, num |-> j - i - 0]
      BY <3>4, FanOutTypes DEF SkewJoinTask
    <3>6. Cluster(x, c) = [at |-> skewtask[x].at + i, num |-> j - i]
      BY <1>2, <3>4 DEF Cluster
    <3>7. QED
      BY <3>4, <3>5, <3>6
  <2>2. PICK p \in Places(x) : q = PlaceOf(x, p) /\ DigitOf(x, From(x)[p]) = c
    BY <1>2, <2>1, ClusterHolds
  <2>3. QED
    BY <1>1, <1>2, <1>4, <2>2 DEF DigitOf
<1>6. {tmp[x][p] : p \in Positions(skewtask[x])} \subseteq {rel[x][p] : p \in DOMAIN rel[x]}
  BY <1>4
<1>7. QED
  BY <1>3, <1>5, <1>6 DEF Partitioned

(* When thread 0 makes tasks of the clusters that all the threads have     *)
(* made together, of the relations in the first pass or of a skewed        *)
(* cluster, every tuple is at its place and every cluster holds the tuples *)
(* of its digit, whatever the numbers of threads, tuples and radix bits.   *)
THEOREM PartitionCompleteCorrect == Spec => []PartitionComplete
<1>1. PartitionInv => PartitionComplete
  <2>1. SUFFICES ASSUME PartitionInv, NEW x \in Rel, pc[0] \in {"create", "create_join"}
                 PROVE  /\ pc[0] = "create" =>
                             Partitioned(x, DOMAIN key[x], tmp[x],
                                         [c \in 0 .. (FanOut1 - 1) |-> Pass1Task(0, c)],
                                         [i \in DOMAIN key[x] |-> Digit(key[x][i], 0, FanOut1)])
                        /\ pc[0] = "create_join" =>
                             Partitioned(x, {tmp[x][p] : p \in Positions(skewtask[x])}, rel[x],
                                         [c \in 0 .. (FanOut2 - 1) |-> SkewJoinTask(0, c)],
                                         [i \in DOMAIN key[x] |-> Digit(key[x][i], Bits1, FanOut2)])
    BY DEF PartitionComplete
  <2>2. Parallel
    BY <2>1, ThreadsFinite DEF PartitionInv, OrderInv, MainInv, Parallel
  <2>3. QED
    BY <2>1, <2>2, CreatesOfAll, CreatesOfAllAgain
<1>2. QED
  BY <1>1, PartitionInvCorrect, PTL

-----------------------------------------------------------------------------
(* Who has a claim to which region: the tasks in the queues, those that    *)
(* threads work on, and what thread 0 has still to make tasks of.  In      *)
(* every step a claim stays, goes, or is divided among others.             *)

AtPass2(t) == pc[t] \in {"cluster", "emit", "add"}

(* The part of the task of thread t that no join task was made of yet. *)
Rest(t) ==
  [x \in Rel |->
     IF pc[t] \in {"emit", "add"}
     THEN [at |-> held[t][x].at + offset[t][x], num |-> held[t][x].num - offset[t][x]]
     ELSE held[t][x]]

(* The clusters that thread 0 has not made tasks of yet. *)
Pending == Active \/ (Again /\ pc[0] \in {"wait_skew", "allocate"})
Unmade ==
  [x \in Rel |->
     IF pc[0] \in {"create", "create_join"}
     THEN [at |-> Whole(x).at + output[0][x][cur[0]], num |-> Whole(x).num - output[0][x][cur[0]]]
     ELSE Whole(x)]

Claims ==
  {<<"part", a[1], a[2]>> : a \in OpenTasks(partQueue)}
    \cup {<<"join", a[1], a[2]>> : a \in OpenTasks(joinQueue)}
    \cup {<<"skew", 0, s>> : s \in Waiting(skewQueue)}
    \cup {<<"held", t, 0>> : t \in Working}
    \cup (IF Pending THEN {<<"unmade", 0, 0>>} ELSE {})

TaskOf(e) ==
  CASE e[1] = "part" -> partQueue[e[2]].task[e[3]]
    [] e[1] = "join" -> joinQueue[e[2]].task[e[3]]
    [] e[1] = "skew" -> skewQueue.task[e[3]]
    [] e[1] = "held" -> Rest(e[2])
    [] OTHER -> Unmade

(* The claims that can be those of pieces of a large cluster. *)
Sharing(e) ==
  /\ skew /\ left[0] > 5
  /\ \/ e[1] = "join"
     \/ e[1] = "part" /\ e[2] = NumaId(0)
     \/ e[1] = "held" /\ pc[e[2]] = "join"

Pieces(a, b) == a["R"] = b["R"] /\ Positions(a["S"]) \cap Positions(b["S"]) = {}

ClaimsInv ==
  \A d, e \in Claims : d # e =>
    \/ Apart(TaskOf(d), TaskOf(e))
    \/ Sharing(d) /\ Sharing(e) /\ Pieces(TaskOf(d), TaskOf(e))

(* The tasks of pass 2 as they were taken are apart from each other and    *)
(* from those that wait.                                                   *)
TakenInv ==
  \A t \in Threads : AtPass2(t) =>
    /\ \A u \in Threads : u # t /\ AtPass2(u) => Apart(held[t], held[u])
    /\ \A n \in Nodes : \A s \in Waiting(partQueue[n]) : Apart(held[t], partQueue[n].task[s])

(* A thread joins only when all the pieces are join tasks. *)
MovedLabels == {"wait_partition", "next", "join", "wait_join", "exited"}
Moved == pc[0] \in MovedLabels \/ (pc[0] = "undefined" /\ left[0] > 5)
MovedInv == skew /\ Moved => Waiting(partQueue[NumaId(0)]) = {}

IsTask(task) == task \in [Rel -> Part] /\ \A x \in Rel : task[x].at + task[x].num <= Size(x)

TasksInv ==
  /\ \A n \in Nodes : \A s \in DOMAIN partQueue[n].task : IsTask(partQueue[n].task[s])
  /\ \A n \in Nodes : \A s \in DOMAIN joinQueue[n].task : IsTask(joinQueue[n].task[s])
  /\ \A s \in DOMAIN skewQueue.task : IsTask(skewQueue.task[s])
  /\ DOMAIN held = Threads /\ \A t \in Threads : IsTask(held[t])
  /\ IsTask(skewtask)

(* The clusters that a thread has counted are those of some digits of its  *)
(* region, and its offsets are behind the ones it has gone through.        *)
Sizes(digit, P) == [c \in 0 .. (FanOut2 - 1) |-> Cardinality({p \in P : digit[p] = c})]

Divided(t, x) ==
  \E digit \in [Positions(held[t][x]) -> 0 .. (FanOut2 - 1)] :
    /\ counts[t][x] = Sizes(digit, Positions(held[t][x]))
    /\ pc[t] # "cluster" => offset[t][x] = Below(digit, Positions(held[t][x]), cur[t])

CountsInv ==
  /\ DOMAIN counts = Threads /\ \A t \in Threads : DOMAIN counts[t] = Rel
  /\ DOMAIN offset = Threads /\ \A t \in Threads : DOMAIN offset[t] = Rel
  /\ \A t \in Threads :
       /\ pc[t] = "cluster" /\ side[t] = "S" => Divided(t, "R")
       /\ pc[t] \in {"emit", "add"} =>
            cur[t] \in 0 .. FanOut2 /\ \A x \in Rel : Divided(t, x)
       /\ pc[t] = "add" => cur[t] < FanOut2

TaskInv == ClaimsInv /\ TakenInv /\ MovedInv /\ TasksInv /\ CountsInv

-----------------------------------------------------------------------------

Within(a, b) == \A x \in Rel : Positions(a[x]) \subseteq Positions(b[x])

LEMMA ApartWithin ==
  ASSUME NEW a, NEW b, Apart(a, b)
  PROVE  Apart(b, a) /\ \A c : Within(c, a) => Apart(c, b) /\ Apart(b, c)
BY DEF Apart, Within

LEMMA PiecesBothWays ==
  ASSUME NEW a, NEW b, Pieces(a, b)
  PROVE  Pieces(b, a)
BY DEF Pieces

IsClaim(e) ==
  \/ \E n \in Nodes : \E s \in Waiting(partQueue[n]) : e = <<"part", n, s>>
  \/ \E n \in Nodes : \E s \in Waiting(joinQueue[n]) : e = <<"join", n, s>>
  \/ \E s \in Waiting(skewQueue) : e = <<"skew", 0, s>>
  \/ \E t \in Threads : t \in Working /\ e = <<"held", t, 0>>
  \/ Pending /\ e = <<"unmade", 0, 0>>
AllClaims == \A e : e \in Claims <=> IsClaim(e)

LEMMA ClaimsMembers == AllClaims
<1>1. ASSUME NEW queue, NEW k
      PROVE  \A e : e \in {<<k, a[1], a[2]>> : a \in OpenTasks(queue)} <=>
                      \E n \in Nodes : \E s \in Waiting(queue[n]) : e = <<k, n, s>>
  <2>1. \A a : a \in OpenTasks(queue) <=> \E n \in Nodes : \E s \in Waiting(queue[n]) : a = <<n, s>>
    BY DEF OpenTasks
  <2>2. ASSUME NEW a \in OpenTasks(queue)
        PROVE  \E n \in Nodes : \E s \in Waiting(queue[n]) : <<k, a[1], a[2]>> = <<k, n, s>>
    <3>1. PICK n \in Nodes : \E s \in Waiting(queue[n]) : a = <<n, s>>
      BY <2>1
    <3>2. PICK s \in Waiting(queue[n]) : a = <<n, s>>
      BY <3>1
    <3>3. a[1] = n /\ a[2] = s
      BY <3>2
    <3>4. QED
      BY <3>3
  <2>3. ASSUME NEW n \in Nodes, NEW s \in Waiting(queue[n])
        PROVE  <<k, n, s>> \in {<<k, a[1], a[2]>> : a \in OpenTasks(queue)}
    <3>1. <<n, s>> \in OpenTasks(queue)
      BY <2>1
    <3>2. <<k, <<n, s>>[1], <<n, s>>[2]>> = <<k, n, s>>
      OBVIOUS
    <3>3. QED
      BY <3>1, <3>2
  <2>4. QED
    BY <2>2, <2>3
<1>2. Working \subseteq Threads
  BY DEF Working
<1>3. QED
  BY <1>1, <1>2 DEF Claims, AllClaims, IsClaim

LEMMA TaskOfClaim ==
  /\ \A n, s : TaskOf(<<"part", n, s>>) = partQueue[n].task[s]
  /\ \A n, s : TaskOf(<<"join", n, s>>) = joinQueue[n].task[s]
  /\ \A n, s : TaskOf(<<"skew", n, s>>) = skewQueue.task[s]
  /\ \A t, s : TaskOf(<<"held", t, s>>) = Rest(t)
  /\ \A n, s : TaskOf(<<"unmade", n, s>>) = Unmade
BY DEF TaskOf

(* Claims that stay as they are keep apart from each other, and from those *)
(* that a claim o is divided into: these lie within it.                    *)
LEMMA ClaimsDivided ==
  ASSUME ClaimsInv, NEW o, NEW N,
         \A e \in Claims' : e \notin N =>
           /\ e \in Claims /\ e # o /\ TaskOf(e)' = TaskOf(e)
           /\ Sharing(e) => Sharing(e)',
         \A e \in Claims' : e \in N =>
           /\ o \in Claims /\ Within(TaskOf(e)', TaskOf(o))
           /\ Sharing(o) => Sharing(e)' /\ TaskOf(e)' = TaskOf(o),
         \A d, e \in Claims' : d \in N /\ e \in N /\ d # e =>
           \/ Apart(TaskOf(d)', TaskOf(e)')
           \/ Sharing(d)' /\ Sharing(e)' /\ Pieces(TaskOf(d)', TaskOf(e)')
  PROVE  ClaimsInv'
<1> DEFINE Good(d, e) ==
             \/ Apart(TaskOf(d)', TaskOf(e)')
             \/ Sharing(d)' /\ Sharing(e)' /\ Pieces(TaskOf(d)', TaskOf(e)')
<1>1. ASSUME NEW d \in Claims', NEW e \in Claims', d \notin N, e \notin N, d # e
      PROVE  Good(d, e)
  BY <1>1 DEF ClaimsInv
<1>2. ASSUME NEW d \in Claims', NEW e \in Claims', d \notin N, e \in N
      PROVE  Good(d, e) /\ Good(e, d)
  <2>1. d \in Claims /\ o \in Claims /\ d # o /\ TaskOf(d)' = TaskOf(d)
    BY <1>2
  <2>2. CASE Apart(TaskOf(d), TaskOf(o))
    <3>1. Apart(TaskOf(o), TaskOf(d)) /\ Within(TaskOf(e)', TaskOf(o))
      BY <1>2, <2>2, ApartWithin
    <3>2. Apart(TaskOf(e)', TaskOf(d)) /\ Apart(TaskOf(d), TaskOf(e)')
      BY <3>1, ApartWithin
    <3>3. QED
      BY <2>1, <3>2
  <2>3. CASE Sharing(d) /\ Sharing(o) /\ Pieces(TaskOf(d), TaskOf(o))
    <3>1. Sharing(d)' /\ Sharing(e)' /\ TaskOf(e)' = TaskOf(o)
      BY <1>2, <2>3
    <3>2. Pieces(TaskOf(d)', TaskOf(e)')
      BY <2>1, <2>3, <3>1
    <3>3. Pieces(TaskOf(e)', TaskOf(d)')
      BY <3>2, PiecesBothWays
    <3>4. QED
      BY <3>1, <3>2, <3>3
  <2>4. QED
    BY <2>1, <2>2, <2>3 DEF ClaimsInv
<1>3. ASSUME NEW d \in Claims', NEW e \in Claims', d # e
      PROVE  Good(d, e)
  <2>1. CASE d \in N /\ e \in N
    BY <1>3, <2>1
  <2>2. CASE ~ (d \in N /\ e \in N)
    BY <1>1, <1>2, <1>3, <2>2
  <2>3. QED
    BY <2>1, <2>2
<1> HIDE DEF Good
<1>4. \A d, e \in Claims' : d # e => Good(d, e)
  BY <1>3
<1>5. QED
  BY <1>4 DEF ClaimsInv, Good

(* What a step leaves as it is: of each kind the claims that are not in N, *)
(* and o is not among them.                                                *)
PartKept(N, o) ==
  \A n \in Nodes : \A s \in Waiting(partQueue'[n]) : <<"part", n, s>> \notin N =>
    /\ s \in Waiting(partQueue[n]) /\ partQueue'[n].task[s] = partQueue[n].task[s]
    /\ <<"part", n, s>> # o
JoinKept(N, o) ==
  \A n \in Nodes : \A s \in Waiting(joinQueue'[n]) : <<"join", n, s>> \notin N =>
    /\ s \in Waiting(joinQueue[n]) /\ joinQueue'[n].task[s] = joinQueue[n].task[s]
    /\ <<"join", n, s>> # o
SkewKept(N, o) ==
  \A s \in Waiting(skewQueue') : <<"skew", 0, s>> \notin N =>
    /\ s \in Waiting(skewQueue) /\ skewQueue'.task[s] = skewQueue.task[s]
    /\ <<"skew", 0, s>> # o
HeldKept(N, o) ==
  \A u \in Threads : u \in Working' /\ <<"held", u, 0>> \notin N =>
    /\ u \in Working /\ Rest(u)' = Rest(u) /\ (pc[u] = "join" => pc'[u] = "join")
    /\ <<"held", u, 0>> # o
UnmadeKept(N, o) ==
  Pending' /\ <<"unmade", 0, 0>> \notin N =>
    Pending /\ Unmade' = Unmade /\ <<"unmade", 0, 0>> # o

LEMMA ClaimsStep ==
  ASSUME ClaimsInv, skew' = skew, numNuma' = numNuma,
         left[0] \in Nat, left'[0] \in Nat, left[0] <= left'[0], NEW N, NEW o,
         PartKept(N, o), JoinKept(N, o), SkewKept(N, o), HeldKept(N, o), UnmadeKept(N, o),
         \A e \in Claims' : e \in N =>
           /\ o \in Claims /\ Within(TaskOf(e)', TaskOf(o))
           /\ Sharing(o) => Sharing(e)' /\ TaskOf(e)' = TaskOf(o),
         \A d, e \in Claims' : d \in N /\ e \in N /\ d # e =>
           \/ Apart(TaskOf(d)', TaskOf(e)')
           \/ Sharing(d)' /\ Sharing(e)' /\ Pieces(TaskOf(d)', TaskOf(e)')
  PROVE  ClaimsInv'
<1>1. Nodes' = Nodes /\ NumaId(0)' = NumaId(0)
  BY DEF Nodes, NumaId
<1>2. left[0] > 5 => left'[0] > 5
  OBVIOUS
<1>3. ASSUME NEW e \in Claims', e \notin N
      PROVE  /\ e \in Claims /\ e # o /\ TaskOf(e)' = TaskOf(e)
             /\ Sharing(e) => Sharing(e)'
  <2>1. \/ \E n \in Nodes : \E s \in Waiting(partQueue'[n]) : e = <<"part", n, s>>
        \/ \E n \in Nodes : \E s \in Waiting(joinQueue'[n]) : e = <<"join", n, s>>
        \/ \E s \in Waiting(skewQueue') : e = <<"skew", 0, s>>
        \/ \E u \in Threads : u \in Working' /\ e = <<"held", u, 0>>
        \/ Pending' /\ e = <<"unmade", 0, 0>>
    <3>1. AllClaims'
      BY ClaimsMembers, PTL
    <3>2. IsClaim(e)'
      BY <1>3, <3>1 DEF AllClaims
    <3>3. QED
      BY <1>1, <3>2 DEF IsClaim
  <2>2. CASE \E n \in Nodes : \E s \in Waiting(partQueue'[n]) : e = <<"part", n, s>>
    <3>1. PICK n \in Nodes : \E s \in Waiting(partQueue'[n]) : e = <<"part", n, s>>
      BY <2>2
    <3>2. PICK s \in Waiting(partQueue'[n]) : e = <<"part", n, s>>
      BY <3>1
    <3>3. s \in Waiting(partQueue[n]) /\ partQueue'[n].task[s] = partQueue[n].task[s] /\ e # o
      BY <1>3, <3>2 DEF PartKept
    <3>4. e \in Claims
      BY <3>2, <3>3, ClaimsMembers DEF AllClaims, IsClaim
    <3>5. e[1] = "part" /\ e[2] = n /\ e[3] = s
      BY <3>2
    <3>6. QED
      BY <1>1, <1>2, <3>3, <3>4, <3>5 DEF TaskOf, Sharing
  <2>3. CASE \E n \in Nodes : \E s \in Waiting(joinQueue'[n]) : e = <<"join", n, s>>
    <3>1. PICK n \in Nodes : \E s \in Waiting(joinQueue'[n]) : e = <<"join", n, s>>
      BY <2>3
    <3>2. PICK s \in Waiting(joinQueue'[n]) : e = <<"join", n, s>>
      BY <3>1
    <3>3. s \in Waiting(joinQueue[n]) /\ joinQueue'[n].task[s] = joinQueue[n].task[s] /\ e # o
      BY <1>3, <3>2 DEF JoinKept
    <3>4. e \in Claims
      BY <3>2, <3>3, ClaimsMembers DEF AllClaims, IsClaim
    <3>5. e[1] = "join" /\ e[2] = n /\ e[3] = s
      BY <3>2
    <3>6. QED
      BY <1>1, <1>2, <3>3, <3>4, <3>5 DEF TaskOf, Sharing
  <2>4. CASE \E s \in Waiting(skewQueue') : e = <<"skew", 0, s>>
    <3>2. PICK s \in Waiting(skewQueue') : e = <<"skew", 0, s>>
      BY <2>4
    <3>3. s \in Waiting(skewQueue) /\ skewQueue'.task[s] = skewQueue.task[s] /\ e # o
      BY <1>3, <3>2 DEF SkewKept
    <3>4. e \in Claims
      BY <3>2, <3>3, ClaimsMembers DEF AllClaims, IsClaim
    <3>5. e[1] = "skew" /\ e[3] = s
      BY <3>2
    <3>6. QED
      BY <3>3, <3>4, <3>5 DEF TaskOf, Sharing
  <2>5. CASE \E u \in Threads : u \in Working' /\ e = <<"held", u, 0>>
    <3>2. PICK u \in Threads : u \in Working' /\ e = <<"held", u, 0>>
      BY <2>5
    <3>3. u \in Working /\ Rest(u)' = Rest(u) /\ (pc[u] = "join" => pc'[u] = "join") /\ e # o
      BY <1>3, <3>2 DEF HeldKept
    <3>4. e \in Claims
      BY <3>2, <3>3, ClaimsMembers DEF AllClaims, IsClaim
    <3>5. e[1] = "held" /\ e[2] = u
      BY <3>2
    <3>6. TaskOf(e) = Rest(u) /\ TaskOf(e)' = Rest(u)'
      BY <3>5 DEF TaskOf
    <3>7. QED
      BY <1>2, <3>3, <3>4, <3>5, <3>6 DEF Sharing
  <2>6. CASE Pending' /\ e = <<"unmade", 0, 0>>
    <3>1. Pending /\ Unmade' = Unmade /\ e # o
      BY <1>3, <2>6 DEF UnmadeKept
    <3>2. e \in Claims
      BY <2>6, <3>1, ClaimsMembers DEF AllClaims, IsClaim
    <3>3. e[1] = "unmade"
      BY <2>6
    <3>4. TaskOf(e) = Unmade /\ TaskOf(e)' = Unmade'
      BY <3>3 DEF TaskOf
    <3>5. QED
      BY <3>1, <3>2, <3>3, <3>4 DEF Sharing
  <2>7. QED
    BY <2>1, <2>2, <2>3, <2>4, <2>5, <2>6
<1>4. QED
  BY <1>3, ClaimsDivided

-----------------------------------------------------------------------------
(* Steps that touch no task and bring no thread to one: at most those of   *)
(* thread t, or of none.                                                   *)

ActiveLabels ==
  {"unborn", "start", "wait_start", "wait_allocate", "count", "wait_count", "scatter",
   "wait_scatter", "wait_again", "create", "create_join"}

CalmLabels(l, m) ==
  /\ m \notin {"create", "create_join", "wait_skew"}
  /\ m \in ActiveLabels =>
       l = "allocate" \/ l \in ActiveLabels \ {"create", "create_join"}
  /\ m = "allocate" => l = "wait_skew"
  /\ m = "undefined" => l = "join"
  /\ skew /\ m \in MovedLabels => l \in MovedLabels \/ partQueue[NumaId(0)].count = 0

Calm(t) ==
  /\ UNCHANGED <<skew, numNuma, partQueue, joinQueue, skewQueue, skewtask, held, counts, offset>>
  /\ t \in Threads => pc'[t] \notin {"cluster", "emit", "add", "join"}
  /\ IF t = 0 THEN CalmLabels(pc[0], pc'[0])
     ELSE pc'[0] = pc[0] /\ cur'[0] = cur[0] /\ output'[0] = output[0] /\ left'[0] = left[0]
  /\ \A u \in Threads : u # t => pc'[u] = pc[u] /\ side'[u] = side[u] /\ cur'[u] = cur[u]

(* The steps that do something to a task. *)
Handles(t) ==
  \/ t = 0 /\ (BeginTasks(t) \/ BeginJoinTasks(t))
  \/ CreateTask(t) \/ CreateJoinTask(t) \/ (t = 0 /\ NextSkewTask(t)) \/ MoveLargeTask(t)
  \/ TakePartTask(t) \/ ClusterRelation(t) \/ GetJoinSlot(t) \/ AddJoinTask(t) \/ SkipCluster(t)
  \/ TakeJoinTask(t)

LEMMA ThreadCalm ==
  ASSUME OrderInv, ShapeInv, NEW t \in Threads, Thread(t), ~Handles(t)
  PROVE  Calm(t)
<1> USE DEF inputs, pass2, queues, skewVars, Goto, OrderInv, CalmLabels, ActiveLabels, MovedLabels
<1>1. \A u \in Threads : u # t => pc'[u] = pc[u] /\ side'[u] = side[u] /\ cur'[u] = cur[u]
  BY OthersStay, CursorFrame
<1>2. t # 0 => pc'[0] = pc[0] /\ cur'[0] = cur[0] /\ output'[0] = output[0] /\ left'[0] = left[0]
  <2>1. t # 0 => output'[0] = output[0]
    BY Changes, ThreadsFinite DEF ShapeInv, BeginScatter, PlanScatter, AllocateAgain
  <2>2. t # 0 => left'[0] = left[0]
    BY OthersStay, ThreadsFinite
  <2>3. QED
    BY <1>1, <2>1, <2>2, ThreadsFinite
<1>3. CASE Start(t) \/ Pass1(t)
  BY <1>1, <1>2, <1>3 DEF Calm, Start, Pass1, BeginPass1, Count, BeginScatter, Scatter, EndScatterR, EndScatterS
<1>4. CASE BeginTasks(t) \/ EndTasks(t)
  BY <1>1, <1>2, <1>4 DEF Calm, Handles, BeginTasks, EndTasks
<1>5. CASE BeginPass2(t) \/ EndPartTask(t) \/ EndPass2(t)
  BY <1>1, <1>2, <1>5 DEF Calm, BeginPass2, EndPartTask, EndPass2
<1>6. CASE NextSkewTask(t) \/ SeeSkewTask(t) \/ AllocateAgain(t) \/ PartitionAgain(t)
  BY <1>1, <1>2, <1>6 DEF Calm, Handles, NextSkewTask, SeeSkewTask, AllocateAgain, PartitionAgain
<1>7. CASE BeginJoinTasks(t) \/ EndJoinTasks(t) \/ EndSkew(t)
  BY <1>1, <1>2, <1>7 DEF Calm, Handles, BeginJoinTasks, EndJoinTasks, EndSkew
<1>8. CASE BeginJoin(t) \/ RunJoin(t) \/ EndJoin(t) \/ Exit(t)
  BY <1>1, <1>2, <1>8 DEF Calm, BeginJoin, RunJoin, EndJoin, Exit
<1>9. QED
  BY <1>3, <1>4, <1>5, <1>6, <1>7, <1>8
     DEF Handles, Thread, Tasks, Pass2, Skew, Joins

(* No claim to start with. *)
Nothing == <<"none", 0, 0>>

LEMMA RestStill ==
  ASSUME NEW u, held'[u] = held[u], offset'[u] = offset[u],
         pc'[u] = pc[u] \/ (pc[u] \in {"emit", "add"} /\ pc'[u] \in {"emit", "add"})
  PROVE  Rest(u)' = Rest(u)
BY DEF Rest

LEMMA UnmadeStill ==
  ASSUME skewtask' = skewtask,
         (pc'[0] = pc[0] /\ cur'[0] = cur[0] /\ output'[0] = output[0])
           \/ {pc[0], pc'[0]} \cap {"create", "create_join"} = {}
  PROVE  Unmade' = Unmade
<1>1. \A x \in Rel : Whole(x)' = Whole(x)
  BY DEF Whole, Again, Size
<1>2. QED
  BY <1>1 DEF Unmade

LEMMA CalmKeepsUnmade ==
  ASSUME OrderInv, NEW t, Calm(t)
  PROVE  UnmadeKept({}, Nothing)
<1>1. PhaseInv(0)
  BY ThreadsFinite DEF OrderInv
<1>2. Again' = Again
  BY DEF Calm, Again
<1>3. SUFFICES ASSUME Pending' PROVE Pending /\ Unmade' = Unmade
  BY DEF UnmadeKept, Nothing
<1>4. CASE t # 0
  BY <1>2, <1>3, <1>4, UnmadeStill DEF Calm, Pending, Active
<1>5. CASE t = 0
  <2>1. CalmLabels(pc[0], pc'[0])
    BY <1>5 DEF Calm
  <2>2. Pending
    BY <1>1, <1>2, <1>3, <2>1 DEF CalmLabels, ActiveLabels, Pending, Active, PhaseInv, Announced, AtSkewed
  <2>3. {pc[0], pc'[0]} \cap {"create", "create_join"} = {}
    BY <1>3, <2>1 DEF CalmLabels, ActiveLabels, Pending, Active
  <2>4. QED
    BY <2>2, <2>3, UnmadeStill DEF Calm
<1>6. QED
  BY <1>4, <1>5

LEMMA QueuesStill ==
  ASSUME NEW N, NEW k, NEW i, k \notin {"part", "join", "skew"},
         UNCHANGED <<partQueue, joinQueue, skewQueue>>
  PROVE  PartKept(N, <<k, i, 0>>) /\ JoinKept(N, <<k, i, 0>>) /\ SkewKept(N, <<k, i, 0>>)
BY DEF PartKept, JoinKept, SkewKept

LEMMA CalmKeepsClaims ==
  ASSUME OrderInv, ClaimsInv, NEW t, Calm(t), left'[0] >= left[0], left'[0] \in Nat
  PROVE  ClaimsInv'
<1>1. skew' = skew /\ numNuma' = numNuma /\ left[0] \in Nat
  BY ThreadsFinite DEF Calm, OrderInv, PhaseInv, Phase
<1>2. PartKept({}, Nothing) /\ JoinKept({}, Nothing) /\ SkewKept({}, Nothing)
  BY QueuesStill DEF Calm, Nothing
<1>3. UnmadeKept({}, Nothing)
  BY CalmKeepsUnmade
<1>4. HeldKept({}, Nothing)
  <2>1. SUFFICES ASSUME NEW u \in Threads, u \in Working'
                 PROVE  u \in Working /\ Rest(u)' = Rest(u) /\ (pc[u] = "join" => pc'[u] = "join")
    BY DEF HeldKept, Nothing
  <2>2. u # t /\ pc'[u] = pc[u]
    BY <2>1 DEF Calm, Working
  <2>3. QED
    BY <2>1, <2>2, RestStill DEF Calm, Working
<1>5. QED
  BY <1>1, <1>2, <1>3, <1>4, ClaimsStep

LEMMA NothingWaits ==
  ASSUME NEW q, QueueInv(q), q.count = 0
  PROVE  Waiting(q) = {}
BY QueueFacts, FS_EmptySet DEF QueueInv

LEMMA CalmKeepsRest ==
  ASSUME OrderInv, QueuesInv, TakenInv, MovedInv, TasksInv, CountsInv, NEW t, Calm(t)
  PROVE  TakenInv' /\ MovedInv' /\ TasksInv' /\ CountsInv'
<1>1. /\ UNCHANGED <<skew, partQueue, joinQueue, skewQueue, skewtask, held, counts, offset, Nodes, NumaId(0)>>
      /\ \A task : IsTask(task)' <=> IsTask(task)
  BY DEF Calm, Nodes, NumaId, IsTask, Size
<1>2. \A u \in Threads : AtPass2(u)' => AtPass2(u) /\ u # t /\ pc'[u] = pc[u] /\ cur'[u] = cur[u]
  BY DEF Calm, AtPass2
<1>3. TakenInv'
  BY <1>1, <1>2 DEF TakenInv
<1>4. MovedInv'
  <2>1. SUFFICES ASSUME skew, Moved'
                 PROVE  Waiting(partQueue[NumaId(0)]) = {}
    BY <1>1 DEF MovedInv
  <2>2. CASE Moved
    BY <2>1, <2>2 DEF MovedInv
  <2>3. CASE ~Moved
    <3>1. partQueue[NumaId(0)].count = 0
      BY <2>1, <2>3 DEF Calm, CalmLabels, Moved, MovedLabels
    <3>2. QueueInv(partQueue[NumaId(0)])
      BY NumaIdType, ThreadsFinite DEF QueuesInv
    <3>3. QED
      BY <3>1, <3>2, NothingWaits
  <2>4. QED
    BY <2>2, <2>3
<1>5. TasksInv'
  BY <1>1 DEF TasksInv
<1>6. \A u \in Threads, x \in Rel : AtPass2(u)' /\ Divided(u, x) => Divided(u, x)'
  <2>1. SUFFICES ASSUME NEW u \in Threads, NEW x \in Rel, AtPass2(u)', Divided(u, x)
                 PROVE  Divided(u, x)'
    OBVIOUS
  <2>2. pc'[u] = pc[u] /\ cur'[u] = cur[u]
    BY <1>2, <2>1
  <2>3. QED
    BY <1>1, <2>1, <2>2 DEF Divided
<1>7. CountsInv'
  <2>1. DOMAIN counts' = DOMAIN counts /\ DOMAIN offset' = DOMAIN offset /\ counts' = counts /\ offset' = offset
    BY <1>1
  <2>2. ASSUME NEW u \in Threads, pc'[u] = "cluster" /\ side'[u] = "S"
        PROVE  Divided(u, "R")'
    <3>1. pc[u] = "cluster" /\ AtPass2(u)' /\ u # t
      BY <1>2, <2>2 DEF AtPass2
    <3>2. side[u] = "S"
      BY <2>2, <3>1 DEF Calm
    <3>3. QED
      BY <1>6, <3>1, <3>2 DEF CountsInv, Rel
  <2>3. QED
    BY <1>2, <1>6, <2>1, <2>2 DEF CountsInv, AtPass2
<1>8. QED
  BY <1>3, <1>4, <1>5, <1>7

LEMMA MainCalm ==
  ASSUME OrderInv, Main \/ UNCHANGED vars
  PROVE  \E t : Calm(t) /\ left' = left
<1> USE DEF inputs, pass1, pass2, queues, skewVars, barrier
<1>1. CASE Spawn
  <2>1. mainI \in Threads /\ pc[mainI] = "unborn"
    <3>1. mainI \in Threads /\ (pc[mainI] = "unborn" <=> mainI >= mainI)
      BY <1>1 DEF Spawn, OrderInv, MainInv
    <3>2. mainI \in Nat
      BY <3>1, ThreadsFinite
    <3>3. QED
      BY <3>1, <3>2
  <2>2. pc' = [pc EXCEPT ![mainI] = "start"] /\ DOMAIN pc = Threads /\ UNCHANGED <<side, cur, output>>
    BY <1>1 DEF Spawn, Goto, OrderInv
  <2>3. Calm(mainI)
    BY <1>1, <2>1, <2>2, ThreadsFinite DEF Calm, CalmLabels, ActiveLabels, MovedLabels, Spawn
  <2>4. QED
    BY <1>1, <2>3 DEF Spawn
<1>2. CASE Join \/ RadixCluster \/ JoinCluster \/ Return \/ UNCHANGED vars
  <2>1. UNCHANGED <<skew, numNuma, partQueue, joinQueue, skewQueue, skewtask, held, counts, offset,
                    pc, side, cur, output, left>>
    BY <1>2 DEF Join, RadixCluster, JoinCluster, Return, vars
  <2>2. -1 \notin Threads
    BY ThreadsFinite
  <2>3. Calm(-1)
    BY <2>1, <2>2 DEF Calm
  <2>4. QED
    BY <2>1, <2>3
<1>3. QED
  BY <1>1, <1>2 DEF Main

LEMMA CalmKeepsTasks ==
  ASSUME OrderInv, QueuesInv, TaskInv, NEW t, Calm(t), left'[0] >= left[0], left'[0] \in Nat
  PROVE  TaskInv'
BY CalmKeepsClaims, CalmKeepsRest DEF TaskInv

LEMMA NoTaskIsTask == IsTask(NoTask)
<1>1. \A x \in Rel : Size(x) \in Nat
  BY RadixJoinAssumption DEF Size
<1>2. NoTask \in [Rel -> Part] /\ \A x \in Rel : NoTask[x].at = 0 /\ NoTask[x].num = 0
  BY DEF NoTask, NoPart, Part
<1>3. QED
  BY <1>1, <1>2 DEF IsTask

LEMMA TaskInvInit == Init => TaskInv
<1>1. SUFFICES ASSUME Init PROVE TaskInv
  OBVIOUS
<1>2. numNuma \in Nat \ {0} /\ Threads \subseteq Nat
  BY <1>1, ThreadsFinite, RadixJoinAssumption DEF Init
<1>3. /\ \A n \in Nodes : partQueue[n] = EmptyQueue /\ joinQueue[n] = EmptyQueue
      /\ skewQueue = EmptyQueue /\ skewtask = NoTask
      /\ held = [t \in Threads |-> NoTask]
      /\ \A t \in Threads : pc[t] = "unborn"
  BY <1>1 DEF Init
<1>4. ASSUME NEW d \in Claims
      PROVE  d = <<"unmade", 0, 0>>
  <2>1. IsClaim(d)
    BY <1>4, ClaimsMembers DEF AllClaims
  <2>2. QED
    BY <1>3, <2>1, EmptyQueueCorrect DEF IsClaim, Working
<1>5. ClaimsInv
  BY <1>4 DEF ClaimsInv
<1>6. TakenInv
  BY <1>3 DEF TakenInv, AtPass2
<1>7. MovedInv
  BY <1>3, ThreadsFinite DEF MovedInv, Moved, MovedLabels
<1>8. IsTask(NoTask)
  BY NoTaskIsTask
<1>9. DOMAIN EmptyQueue.task = {}
  BY DEF EmptyQueue
<1>10. TasksInv
  BY <1>3, <1>8, <1>9 DEF TasksInv
<1>11. CountsInv
  <2>1. /\ counts = [t \in Threads |-> [x \in Rel |-> [c \in 0 .. (FanOut2 - 1) |-> 0]]]
        /\ offset = [t \in Threads |-> [x \in Rel |-> 0]]
    BY <1>1 DEF Init
  <2>2. QED
    BY <1>3, <2>1 DEF CountsInv
<1>12. QED
  BY <1>5, <1>6, <1>7, <1>10, <1>11 DEF TaskInv

-----------------------------------------------------------------------------
(* A cluster and what comes behind it are apart parts of what was left.    *)

From2(part, i) == [at |-> part.at + i, num |-> part.num - i]

LEMMA SplitPart ==
  ASSUME NEW part, IsPart(part), NEW i \in Nat, NEW j \in Nat, i <= j, j <= part.num,
         NEW now, now.at = part.at + i, now.num = j - i
  PROVE  /\ IsPart(now) /\ now.at + now.num <= part.at + part.num
         /\ Positions(now) \subseteq Positions(From2(part, i))
         /\ Positions(From2(part, j)) \subseteq Positions(From2(part, i))
         /\ Positions(now) \cap Positions(From2(part, j)) = {}
<1>1. PICK a, n \in Nat : a = part.at /\ n = part.num
  BY DEF IsPart
<1>2. Positions(now) = (a + i) .. (a + i + (j - i) - 1)
  BY <1>1 DEF Positions
<1>3. /\ Positions(From2(part, i)) = (a + i) .. (a + i + (n - i) - 1)
      /\ Positions(From2(part, j)) = (a + j) .. (a + j + (n - j) - 1)
  BY <1>1 DEF Positions, From2
<1>4. IsPart(now) /\ now.at + now.num <= a + n
  BY <1>1 DEF IsPart
<1>5. ASSUME NEW p
      PROVE  /\ p \in Positions(now) <=> p \in Int /\ a + i <= p /\ p < a + j
             /\ p \in Positions(From2(part, i)) <=> p \in Int /\ a + i <= p /\ p < a + n
             /\ p \in Positions(From2(part, j)) <=> p \in Int /\ a + j <= p /\ p < a + n
  <2>1. p \in Positions(now) <=> p \in Int /\ a + i <= p /\ p < a + j
    BY <1>2
  <2>2. p \in Positions(From2(part, i)) <=> p \in Int /\ a + i <= p /\ p < a + n
    BY <1>3
  <2>3. p \in Positions(From2(part, j)) <=> p \in Int /\ a + j <= p /\ p < a + n
    BY <1>3
  <2>4. QED
    BY <2>1, <2>2, <2>3
<1>6. \A p \in Int : a + j <= p => a + i <= p /\ ~ (p < a + j)
  BY <1>1
<1>7. \A p \in Int : p < a + j => p < a + n
  BY <1>1
<1>8. QED
  BY <1>1, <1>4, <1>5, <1>6, <1>7

LEMMA Boundaries ==
  ASSUME OrderInv, ShapeInv, SkewInv, InputInv, BoundaryInv, Parallel,
         pc[0] \in {"wait_scatter", "wait_again", "create", "create_join"},
         NEW x \in Rel, NEW c \in 0 .. FanOut
  PROVE  /\ output[0][x][c] \in Nat /\ output[0][x][c] <= Whole(x).num
         /\ c < FanOut => output[0][x][c] <= output[0][x][c + 1]
<1>1. Active /\ Planned(pc[0], side[0], x)
  BY DEF Active, Planned, Behind
<1>2. PICK d, P, F : d = TheDigits(x) /\ P = Places(x) /\ F = FanOut
  OBVIOUS
<1>3. output[0][x] = [e \in 0 .. F |-> Below(d, P, e)]
  BY <1>1, <1>2 DEF BoundaryInv
<1>4. \A p \in P : d[p] \in 0 .. (F - 1)
  BY <1>1, <1>2, FromValid
<1>5. F \in Nat /\ P \in SUBSET Int /\ IsFiniteSet(P) /\ Cardinality(P) = Whole(x).num
  BY <1>2, FanOutTypes, WholeFacts
<1>6. /\ \A e \in Nat : Below(d, P, e) \in Nat
      /\ \A e, f \in Nat : e <= f => Below(d, P, e) <= Below(d, P, f)
      /\ Below(d, P, F) = Whole(x).num
  BY <1>4, <1>5, BelowFacts
<1>7. c \in Nat /\ c <= F /\ output[0][x][c] = Below(d, P, c)
  BY <1>2, <1>3, <1>5
<1>8. c < F => output[0][x][c + 1] = Below(d, P, c + 1) /\ c + 1 \in Nat /\ c <= c + 1
  BY <1>3, <1>5, <1>7
<1>9. QED
  BY <1>2, <1>5, <1>6, <1>7, <1>8

UnmadeFrom(c) == [x \in Rel |-> From2(Whole(x), output[0][x][c])]

LEMMA NextUnmade ==
  ASSUME OrderInv, ShapeInv, SkewInv, InputInv, BoundaryInv, Parallel,
         pc[0] \in {"create", "create_join"}, NEW c \in 0 .. (FanOut - 1), NEW task,
         \A x \in Rel : /\ task[x].at = Whole(x).at + output[0][x][c]
                        /\ task[x].num = output[0][x][c + 1] - output[0][x][c]
  PROVE  /\ \A x \in Rel : IsPart(task[x]) /\ task[x].at + task[x].num <= Size(x)
         /\ Within(task, UnmadeFrom(c)) /\ Within(UnmadeFrom(c + 1), UnmadeFrom(c))
         /\ Apart(task, UnmadeFrom(c + 1))
<1>1. ASSUME NEW x \in Rel
      PROVE  /\ IsPart(task[x]) /\ task[x].at + task[x].num <= Size(x)
             /\ Positions(task[x]) \subseteq Positions(UnmadeFrom(c)[x])
             /\ Positions(UnmadeFrom(c + 1)[x]) \subseteq Positions(UnmadeFrom(c)[x])
             /\ Positions(task[x]) \cap Positions(UnmadeFrom(c + 1)[x]) = {}
  <2>1. FanOut \in Nat /\ c \in 0 .. FanOut /\ c + 1 \in 0 .. FanOut /\ c < FanOut
    BY FanOutTypes
  <2>2. PICK i, j \in Nat : i = output[0][x][c] /\ j = output[0][x][c + 1] /\ i <= j /\ j <= Whole(x).num
    BY <2>1, Boundaries
  <2>3. IsPart(Whole(x)) /\ Whole(x).at + Whole(x).num <= Size(x) /\ Size(x) \in Nat
    BY WholeFacts
  <2>4. UnmadeFrom(c)[x] = From2(Whole(x), i) /\ UnmadeFrom(c + 1)[x] = From2(Whole(x), j)
    BY <2>2 DEF UnmadeFrom
  <2>5. task[x].at = Whole(x).at + i /\ task[x].num = j - i
    BY <2>2
  <2>6. /\ IsPart(task[x]) /\ task[x].at + task[x].num <= Whole(x).at + Whole(x).num
        /\ Positions(task[x]) \subseteq Positions(From2(Whole(x), i))
        /\ Positions(From2(Whole(x), j)) \subseteq Positions(From2(Whole(x), i))
        /\ Positions(task[x]) \cap Positions(From2(Whole(x), j)) = {}
    BY <2>2, <2>3, <2>5, SplitPart
  <2>7. task[x].at + task[x].num <= Size(x)
    BY <2>3, <2>6 DEF IsPart
  <2>8. QED
    BY <2>4, <2>6, <2>7
<1>2. QED
  BY <1>1 DEF Within, Apart

-----------------------------------------------------------------------------
(* What keeps the parts of the invariant that a step is not about.         *)

LEMMA TakenFrame ==
  ASSUME TakenInv, numNuma' = numNuma,
         \A u \in Threads : AtPass2(u)' => AtPass2(u) /\ held'[u] = held[u],
         \A n \in Nodes : \A s \in Waiting(partQueue'[n]) :
           s \in Waiting(partQueue[n]) /\ partQueue'[n].task[s] = partQueue[n].task[s]
  PROVE  TakenInv'
<1>1. Nodes' = Nodes
  BY DEF Nodes
<1>2. QED
  BY <1>1 DEF TakenInv

LEMMA CountsFrame ==
  ASSUME CountsInv, counts' = counts, offset' = offset,
         \A u \in Threads : AtPass2(u)' =>
           pc'[u] = pc[u] /\ side'[u] = side[u] /\ cur'[u] = cur[u] /\ held'[u] = held[u]
  PROVE  CountsInv'
<1>1. ASSUME NEW u \in Threads, NEW x \in Rel, AtPass2(u)', Divided(u, x)
      PROVE  Divided(u, x)'
  BY <1>1 DEF Divided
<1>2. ASSUME NEW u \in Threads
      PROVE  /\ pc'[u] = "cluster" /\ side'[u] = "S" => Divided(u, "R")'
             /\ pc'[u] \in {"emit", "add"} =>
                  cur'[u] \in 0 .. FanOut2 /\ \A x \in Rel : Divided(u, x)'
             /\ pc'[u] = "add" => cur'[u] < FanOut2
  BY <1>1 DEF CountsInv, AtPass2, Rel
<1>3. QED
  BY <1>2 DEF CountsInv

LEMMA MovedFrame ==
  ASSUME MovedInv, skew' = skew, numNuma' = numNuma,
         skew /\ Moved' =>
           /\ Moved
           /\ Waiting(partQueue'[NumaId(0)]) \subseteq Waiting(partQueue[NumaId(0)])
  PROVE  MovedInv'
<1>1. NumaId(0)' = NumaId(0)
  BY DEF NumaId
<1>2. QED
  BY <1>1 DEF MovedInv

LEMMA TaskOfClaimNext ==
  /\ \A n, s : TaskOf(<<"part", n, s>>)' = partQueue'[n].task[s]
  /\ \A n, s : TaskOf(<<"join", n, s>>)' = joinQueue'[n].task[s]
  /\ \A n, s : TaskOf(<<"skew", n, s>>)' = skewQueue'.task[s]
  /\ \A t, s : TaskOf(<<"held", t, s>>)' = Rest(t)'
  /\ \A n, s : TaskOf(<<"unmade", n, s>>)' = Unmade'
BY DEF TaskOf

LEMMA SharingKinds ==
  /\ \A n, s : ~Sharing(<<"skew", n, s>>) /\ ~Sharing(<<"unmade", n, s>>)
  /\ \A n, s : Sharing(<<"join", n, s>>) <=> skew /\ left[0] > 5
  /\ \A n, s : Sharing(<<"part", n, s>>) <=> skew /\ left[0] > 5 /\ n = NumaId(0)
  /\ \A t, s : Sharing(<<"held", t, s>>) <=> skew /\ left[0] > 5 /\ pc[t] = "join"
BY DEF Sharing

LEMMA SharingKindsNext ==
  ASSUME skew' = skew, numNuma' = numNuma
  PROVE  /\ \A n, s : Sharing(<<"join", n, s>>)' <=> skew /\ left'[0] > 5
         /\ \A n, s : Sharing(<<"part", n, s>>)' <=> skew /\ left'[0] > 5 /\ n = NumaId(0)
         /\ \A t, s : Sharing(<<"held", t, s>>)' <=> skew /\ left'[0] > 5 /\ pc'[t] = "join"
BY DEF Sharing, NumaId

LEMMA BeginKeepsTasks ==
  ASSUME OrderInv, ShapeInv, SkewInv, InputInv, BoundaryInv, Parallel, TaskInv,
         BeginTasks(0) \/ BeginJoinTasks(0), Thread(0)
  PROVE  TaskInv'
<1> USE DEF inputs, pass1, pass2, queues, skewVars, Goto
<1>0. 0 \in Threads
  BY ThreadsFinite
<1>1. /\ UNCHANGED <<skew, numNuma, partQueue, joinQueue, skewQueue, skewtask, held, counts, offset, output, side>>
      /\ pc[0] \in {"wait_scatter", "wait_again"} /\ pc'[0] \in {"create", "create_join"} /\ cur'[0] = 0
  BY <1>0 DEF BeginTasks, BeginJoinTasks, OrderInv, ShapeInv
<1>2. \A u \in Threads : u # 0 => pc'[u] = pc[u] /\ cur'[u] = cur[u]
  BY <1>0, OthersStay, CursorFrame
<1>3. left[0] \in Nat /\ left'[0] \in Nat /\ left[0] <= left'[0]
  <2>1. OrderInv'
    BY <1>0, OrderStep
  <2>2. left[0] \in Nat /\ left'[0] = left[0] + 1
    BY <1>0 DEF OrderInv, PhaseInv, Phase, BeginTasks, BeginJoinTasks, Sync!Leave
  <2>3. QED
    BY <2>2
<1> DEFINE o == <<"unmade", 0, 0>>
<1>4. ClaimsInv'
  <2>1. PartKept({o}, o) /\ JoinKept({o}, o) /\ SkewKept({o}, o)
    BY <1>1, QueuesStill
  <2>2. UnmadeKept({o}, o)
    BY DEF UnmadeKept
  <2>3. HeldKept({o}, o)
    <3>1. SUFFICES ASSUME NEW u \in Threads, u \in Working'
                   PROVE  u \in Working /\ Rest(u)' = Rest(u) /\ (pc[u] = "join" => pc'[u] = "join")
      BY DEF HeldKept
    <3>2. pc'[u] = pc[u]
      BY <1>1, <1>2, <3>1 DEF Working
    <3>3. QED
      BY <1>1, <3>1, <3>2, RestStill DEF Working
  <2>4. o \in Claims
    <3>1. Pending
      BY <1>1 DEF Pending, Active
    <3>2. QED
      BY <3>1, ClaimsMembers DEF AllClaims, IsClaim
  <2>5. Within(Unmade', Unmade)
    <3>1. SUFFICES ASSUME NEW x \in Rel PROVE Positions(Unmade'[x]) \subseteq Positions(Unmade[x])
      BY DEF Within
    <3>2. 0 \in 0 .. FanOut
      BY FanOutTypes
    <3>3. PICK j \in Nat : j = output[0][x][0] /\ j <= Whole(x).num
      BY <1>1, <3>2, Boundaries
    <3>4. Whole(x)' = Whole(x)
      BY <1>1 DEF Whole, Again, Size
    <3>5. Unmade[x] = Whole(x) /\ Unmade'[x] = From2(Whole(x), j)
      BY <1>1, <3>3, <3>4 DEF Unmade, From2
    <3>6. PICK a, n \in Nat : a = Whole(x).at /\ n = Whole(x).num
      BY WholeFacts DEF IsPart
    <3>7. Positions(Unmade[x]) = a .. (a + n - 1) /\ Positions(Unmade'[x]) = (a + j) .. (a + j + (n - j) - 1)
      BY <3>3, <3>5, <3>6 DEF Positions, From2
    <3>8. ASSUME NEW p \in (a + j) .. (a + j + (n - j) - 1)
          PROVE  p \in a .. (a + n - 1)
      BY <3>3, <3>6
    <3>9. QED
      BY <3>7, <3>8
  <2>6. TaskOf(o) = Unmade /\ TaskOf(o)' = Unmade' /\ ~Sharing(o)
    BY TaskOfClaim, TaskOfClaimNext, SharingKinds
  <2> HIDE DEF o
  <2>7. QED
    BY <1>1, <1>3, <2>1, <2>2, <2>3, <2>4, <2>5, <2>6, ClaimsStep DEF TaskInv
<1>5. \A u \in Threads : AtPass2(u)' =>
        AtPass2(u) /\ pc'[u] = pc[u] /\ cur'[u] = cur[u]
  BY <1>1, <1>2 DEF AtPass2
<1>6. TakenInv' /\ CountsInv'
  BY <1>1, <1>5, TakenFrame, CountsFrame DEF TaskInv
<1>7. MovedInv'
  BY <1>1 DEF MovedInv, Moved, MovedLabels
<1>8. TasksInv'
  BY <1>1 DEF TaskInv, TasksInv, Nodes, IsTask, Size
<1>9. QED
  BY <1>4, <1>6, <1>7, <1>8 DEF TaskInv

-----------------------------------------------------------------------------
(* A queue that has taken a task into slot s; one that gave away its head. *)

Took(q, r, s, task) ==
  /\ Waiting(q) \subseteq DOMAIN q.task /\ Waiting(r) = Waiting(q) \cup {s} /\ s \notin Waiting(q)
  /\ DOMAIN r.task = DOMAIN q.task \cup {s}
  /\ r.task[s] = task /\ \A c \in DOMAIN q.task : r.task[c] = q.task[c]
Gave(q, r) ==
  /\ Waiting(q) \subseteq DOMAIN q.task
  /\ q.head \in Waiting(q) /\ Waiting(r) = Waiting(q) \ {q.head} /\ r.task = q.task

LEMMA NewTakes ==
  ASSUME NEW q, QueueInv(q), NEW task
  PROVE  Took(q, AfterNew(q, task), FreeSlot(q), task)
<1>1. PICK r, s : r = AfterNew(q, task) /\ s = FreeSlot(q)
  OBVIOUS
<1>2. /\ QueueInv(r) /\ Waiting(r) = Waiting(q) \cup {s} /\ s \notin Waiting(q)
      /\ DOMAIN r.next = DOMAIN q.next \cup {s}
      /\ r.task[s] = task /\ \A c \in DOMAIN q.task : r.task[c] = q.task[c]
  BY <1>1, NewCorrect
<1>3. DOMAIN r.task = DOMAIN r.next /\ DOMAIN q.task = DOMAIN q.next /\ Waiting(q) \in SUBSET (DOMAIN q.next)
  BY <1>2, QueueFacts DEF QueueInv
<1>4. QED
  BY <1>1, <1>2, <1>3 DEF Took

LEMMA AddTakes ==
  ASSUME NEW q, QueueInv(q), NEW s \in 1 .. q.curr, s \notin DOMAIN q.next, NEW task
  PROVE  Took(q, AfterAdd(q, s, task), s, task)
<1>1. PICK r : r = AfterAdd(q, s, task)
  OBVIOUS
<1>2. /\ QueueInv(r) /\ Waiting(r) = Waiting(q) \cup {s} /\ s \notin Waiting(q)
      /\ DOMAIN r.next = DOMAIN q.next \cup {s}
      /\ r.task[s] = task /\ \A c \in DOMAIN q.task : r.task[c] = q.task[c]
  BY <1>1, AddCorrect
<1>3. DOMAIN r.task = DOMAIN r.next /\ DOMAIN q.task = DOMAIN q.next /\ Waiting(q) \in SUBSET (DOMAIN q.next)
  BY <1>2, QueueFacts DEF QueueInv
<1>4. QED
  BY <1>1, <1>2, <1>3 DEF Took

LEMMA GetGives ==
  ASSUME NEW q, QueueInv(q), q.count # 0
  PROVE  Gave(q, AfterGet(q))
<1>1. PICK r : r = AfterGet(q)
  OBVIOUS
<1>2. q.head \in Waiting(q) /\ Waiting(r) = Waiting(q) \ {q.head} /\ r.task = q.task
  BY <1>1, GetCorrect
<1>3. DOMAIN q.task = DOMAIN q.next /\ Waiting(q) \in SUBSET (DOMAIN q.next)
  BY QueueFacts DEF QueueInv
<1>4. QED
  BY <1>1, <1>2, <1>3 DEF Gave

LEMMA PartTook ==
  ASSUME NEW n \in Nodes, NEW s, NEW task, Took(partQueue[n], partQueue'[n], s, task),
         \A m \in Nodes : m # n => partQueue'[m] = partQueue[m],
         NEW N, <<"part", n, s>> \in N, NEW k, NEW i, k # "part"
  PROVE  PartKept(N, <<k, i, 0>>)
BY DEF PartKept, Took

LEMMA JoinTook ==
  ASSUME NEW n \in Nodes, NEW s, NEW task, Took(joinQueue[n], joinQueue'[n], s, task),
         \A m \in Nodes : m # n => joinQueue'[m] = joinQueue[m],
         NEW N, <<"join", n, s>> \in N, NEW k, NEW i, NEW j, k # "join"
  PROVE  JoinKept(N, <<k, i, j>>)
BY DEF JoinKept, Took

LEMMA SkewTook ==
  ASSUME NEW s, NEW task, Took(skewQueue, skewQueue', s, task),
         NEW N, <<"skew", 0, s>> \in N, NEW k, NEW i, k # "skew"
  PROVE  SkewKept(N, <<k, i, 0>>)
BY DEF SkewKept, Took

LEMMA PartGave ==
  ASSUME NEW n \in Nodes, Gave(partQueue[n], partQueue'[n]),
         \A m \in Nodes : m # n => partQueue'[m] = partQueue[m], NEW N
  PROVE  PartKept(N, <<"part", n, partQueue[n].head>>)
BY DEF PartKept, Gave

LEMMA JoinGave ==
  ASSUME NEW n \in Nodes, Gave(joinQueue[n], joinQueue'[n]),
         \A m \in Nodes : m # n => joinQueue'[m] = joinQueue[m], NEW N
  PROVE  JoinKept(N, <<"join", n, joinQueue[n].head>>)
BY DEF JoinKept, Gave

LEMMA SkewGave ==
  ASSUME Gave(skewQueue, skewQueue'), NEW N
  PROVE  SkewKept(N, <<"skew", 0, skewQueue.head>>)
BY DEF SkewKept, Gave

LEMMA OneStill ==
  ASSUME NEW N, NEW k, NEW i, NEW j
  PROVE  /\ partQueue' = partQueue /\ k # "part" => PartKept(N, <<k, i, j>>)
         /\ joinQueue' = joinQueue /\ k # "join" => JoinKept(N, <<k, i, j>>)
         /\ skewQueue' = skewQueue /\ k # "skew" => SkewKept(N, <<k, i, j>>)
BY DEF PartKept, JoinKept, SkewKept

(* The threads that work on a task go on with it, but perhaps thread t. *)
LEMMA HeldStill ==
  ASSUME NEW t, \A u \in Threads : u # t => pc'[u] = pc[u] /\ held'[u] = held[u] /\ offset'[u] = offset[u],
         NEW N, <<"held", t, 0>> \in N \/ t \notin Threads \/ t \notin Working',
         NEW k, NEW i, NEW j, k # "held" \/ i = t
  PROVE  HeldKept(N, <<k, i, j>>)
<1>1. SUFFICES ASSUME NEW u \in Threads, u \in Working', <<"held", u, 0>> \notin N
               PROVE  /\ u \in Working /\ Rest(u)' = Rest(u) /\ (pc[u] = "join" => pc'[u] = "join")
                      /\ <<"held", u, 0>> # <<k, i, j>>
  BY DEF HeldKept
<1>2. u # t
  BY <1>1
<1>3. pc'[u] = pc[u] /\ held'[u] = held[u] /\ offset'[u] = offset[u]
  BY <1>1, <1>2
<1>4. Rest(u)' = Rest(u)
  BY <1>3, RestStill
<1>5. QED
  BY <1>1, <1>2, <1>3, <1>4 DEF Working

(* Thread 0 makes a task, or some, of the first cluster that is left.      *)
LEMMA UnmadeSplits ==
  ASSUME ClaimsInv, skew' = skew, numNuma' = numNuma, left'[0] = left[0], left[0] \in Nat, Pending,
         NEW task, Within(task, Unmade), Within(Unmade', Unmade), Apart(task, Unmade'),
         NEW E, <<"unmade", 0, 0>> \notin E,
         \A e \in Claims' : e \in E => Within(TaskOf(e)', task),
         \A d, e \in Claims' : d \in E /\ e \in E /\ d # e =>
           \/ Apart(TaskOf(d)', TaskOf(e)')
           \/ Sharing(d)' /\ Sharing(e)' /\ Pieces(TaskOf(d)', TaskOf(e)'),
         PartKept(E \cup {<<"unmade", 0, 0>>}, <<"unmade", 0, 0>>),
         JoinKept(E \cup {<<"unmade", 0, 0>>}, <<"unmade", 0, 0>>),
         SkewKept(E \cup {<<"unmade", 0, 0>>}, <<"unmade", 0, 0>>),
         HeldKept(E \cup {<<"unmade", 0, 0>>}, <<"unmade", 0, 0>>)
  PROVE  ClaimsInv'
<1> DEFINE o == <<"unmade", 0, 0>>
           N == E \cup {o}
<1>1. TaskOf(o) = Unmade /\ TaskOf(o)' = Unmade' /\ ~Sharing(o)
  BY TaskOfClaim, TaskOfClaimNext, SharingKinds
<1>2. o \in Claims
  BY ClaimsMembers DEF AllClaims, IsClaim
<1>3. UnmadeKept(N, o)
  BY DEF UnmadeKept
<1>4. \A a, b, c : Within(a, b) /\ Within(b, c) => Within(a, c)
  BY DEF Within
<1> HIDE DEF o
<1>5. ASSUME NEW e \in Claims', e \in N
      PROVE  o \in Claims /\ Within(TaskOf(e)', TaskOf(o))
  BY <1>1, <1>2, <1>4, <1>5
<1>6. ASSUME NEW e \in Claims', e \in E
      PROVE  Apart(TaskOf(e)', TaskOf(o)') /\ Apart(TaskOf(o)', TaskOf(e)')
  <2>1. Within(TaskOf(e)', task)
    BY <1>6
  <2>2. QED
    BY <1>1, <2>1, ApartWithin
<1>7. ASSUME NEW d \in Claims', NEW e \in Claims', d \in N, e \in N, d # e
      PROVE  \/ Apart(TaskOf(d)', TaskOf(e)')
             \/ Sharing(d)' /\ Sharing(e)' /\ Pieces(TaskOf(d)', TaskOf(e)')
  BY <1>6, <1>7
<1>8. left[0] <= left'[0] /\ left'[0] \in Nat
  OBVIOUS
<1>9. PartKept(N, o) /\ JoinKept(N, o) /\ SkewKept(N, o) /\ HeldKept(N, o)
  BY DEF o
<1> HIDE DEF N
<1>10. QED
  BY <1>1, <1>3, <1>5, <1>7, <1>8, <1>9, ClaimsStep

-----------------------------------------------------------------------------
(* The tasks of the clusters of the first pass.                            *)

LEMMA TookIsTask ==
  ASSUME NEW q, NEW r, NEW s, NEW task, Took(q, r, s, task), IsTask(task),
         \A c \in DOMAIN q.task : IsTask(q.task[c])
  PROVE  \A c \in DOMAIN r.task : IsTask(r.task[c])
BY DEF Took

(* While thread 0 makes tasks nobody is at one of the second pass.         *)
LEMMA NobodyAtPass2 ==
  ASSUME OrderInv, NEW u \in Threads, pc[0] = "create" \/ left[0] > 5
  PROVE  ~AtPass2(u)
<1>1. Phase(0, pc[0], side[0], left[0], arrived[0]) /\ Phase(u, pc[u], side[u], left[u], arrived[u])
      /\ left[0] <= arrived[u] /\ left[u] <= arrived[0]
  BY ThreadsFinite DEF OrderInv, PhaseInv
<1>2. SUFFICES ASSUME pc[u] \in {"cluster", "emit", "add"} PROVE FALSE
  BY DEF AtPass2
<1>3. left[u] = 5 /\ arrived[u] = 5
  BY <1>1, <1>2 DEF Phase
<1>4. pc[0] = "create" => left[0] = 4 /\ arrived[0] = 4
  BY <1>1 DEF Phase
<1>5. left[0] \in Nat
  BY <1>1 DEF Phase
<1>6. QED
  BY <1>1, <1>3, <1>4, <1>5

LEMMA Pass1TaskFacts ==
  ASSUME OrderInv, ShapeInv, SkewInv, InputInv, BoundaryInv, Parallel, pc[0] = "create",
         NEW c \in 0 .. (FanOut1 - 1), NEW task, task = Pass1Task(0, c)
  PROVE  /\ IsTask(task) /\ ~Again
         /\ Within(task, UnmadeFrom(c)) /\ Within(UnmadeFrom(c + 1), UnmadeFrom(c))
         /\ Apart(task, UnmadeFrom(c + 1))
<1>1. ~Again
  BY ThreadsFinite DEF OrderInv, PhaseInv, Announced, AtRelations
<1>2. FanOut = FanOut1 /\ FanOut1 \in Nat /\ c \in 0 .. FanOut /\ c + 1 \in 0 .. FanOut
  BY <1>1, FanOutTypes DEF FanOut
<1>3. ASSUME NEW x \in Rel
      PROVE  /\ task[x] = [at |-> output[0][x][c], num |-> output[0][x][c + 1] - output[0][x][c]]
             /\ task[x].at = Whole(x).at + output[0][x][c]
             /\ task[x].num = output[0][x][c + 1] - output[0][x][c]
  <2>1. PICK i, j \in Nat : i = output[0][x][c] /\ j = output[0][x][c + 1]
    BY <1>2, Boundaries
  <2>2. task[x] = [at |-> i, num |-> j - i - 0]
    BY <2>1, FanOutTypes DEF Pass1Task
  <2>3. Whole(x).at = 0
    BY <1>1 DEF Whole
  <2>4. QED
    BY <2>1, <2>2, <2>3
<1>4. /\ \A x \in Rel : IsPart(task[x]) /\ task[x].at + task[x].num <= Size(x)
      /\ Within(task, UnmadeFrom(c)) /\ Within(UnmadeFrom(c + 1), UnmadeFrom(c))
      /\ Apart(task, UnmadeFrom(c + 1))
  <2>1. \A x \in Rel : /\ task[x].at = Whole(x).at + output[0][x][c]
                       /\ task[x].num = output[0][x][c + 1] - output[0][x][c]
    BY <1>3
  <2>2. c \in 0 .. (FanOut - 1) /\ pc[0] \in {"create", "create_join"}
    BY <1>2
  <2>3. QED
    BY <2>1, <2>2, NextUnmade
<1>5. task \in [Rel -> Part]
  <2>1. ASSUME NEW x \in Rel
        PROVE  task[x] \in Part
    <3>1. PICK a, n : a = output[0][x][c] /\ n = output[0][x][c + 1] - output[0][x][c]
      OBVIOUS
    <3>2. task[x] = [at |-> a, num |-> n]
      BY <1>3, <3>1
    <3>3. a \in Nat /\ n \in Nat
      BY <1>4, <3>2 DEF IsPart
    <3>4. QED
      BY <3>2, <3>3 DEF Part
  <2>2. QED
    BY <2>1 DEF Pass1Task
<1>6. QED
  BY <1>1, <1>4, <1>5 DEF IsTask

LEMMA UnmadeAt ==
  ASSUME pc[0] \in {"create", "create_join"}
  PROVE  Unmade = UnmadeFrom(cur[0])
BY DEF Unmade, UnmadeFrom, From2

LEMMA UnmadeAtNext ==
  ASSUME pc'[0] \in {"create", "create_join"}, skewtask' = skewtask, output' = output
  PROVE  Unmade' = UnmadeFrom(cur'[0])
<1>1. \A x \in Rel : Whole(x)' = Whole(x)
  BY DEF Whole, Again, Size
<1>2. QED
  BY <1>1 DEF Unmade, UnmadeFrom, From2

LEMMA CreateTaskKeepsTasks ==
  ASSUME QueuesInv, OrderInv, ShapeInv, SkewInv, InputInv, BoundaryInv, Parallel, TaskInv,
         NEW t \in Threads, CreateTask(t), Thread(t)
  PROVE  TaskInv'
<1> USE DEF inputs, pass1, pass2, queues, skewVars, barrier, Goto
<1>0. t = 0 /\ pc[0] = "create" /\ 0 \in Threads
  BY ThreadsFinite DEF OrderInv, PhaseInv, Phase, CreateTask
<1>1. PICK c, task, o : c = cur[0] /\ task = Pass1Task(0, c) /\ o = <<"unmade", 0, 0>>
  OBVIOUS
<1>2. c \in 0 .. (FanOut1 - 1) /\ c \in Nat
  BY <1>0, <1>1, FanOutTypes DEF CreateTask, ShapeInv
<1>3. /\ IsTask(task)
      /\ Within(task, UnmadeFrom(c)) /\ Within(UnmadeFrom(c + 1), UnmadeFrom(c))
      /\ Apart(task, UnmadeFrom(c + 1))
  BY <1>0, <1>1, <1>2, Pass1TaskFacts
<1>4. UNCHANGED <<skew, numNuma, joinQueue, skewtask, held, counts, offset, output, left>>
  BY DEF CreateTask
<1>5. \A u \in Threads : u # 0 => pc'[u] = pc[u] /\ cur'[u] = cur[u]
  BY <1>0, OthersStay, CursorFrame
<1>6. left[0] \in Nat /\ left'[0] = left[0]
  BY <1>0, <1>4 DEF OrderInv, PhaseInv, Phase
<1>7. Pending /\ Unmade = UnmadeFrom(c)
  BY <1>0, <1>1, UnmadeAt DEF Pending, Active
<1>8. pc'[0] = "create" => cur'[0] = c + 1 /\ Unmade' = UnmadeFrom(c + 1)
  <2>1. pc'[0] = "create" => cur'[0] = c + 1
    BY <1>0, <1>1 DEF CreateTask, OrderInv, ShapeInv
  <2>2. QED
    BY <1>4, <2>1, UnmadeAtNext
<1>9. \/ \E n \in Nodes : /\ partQueue' = [partQueue EXCEPT ![n] = AfterNew(partQueue[n], task)]
                          /\ skewQueue' = skewQueue /\ pc'[0] = "create"
      \/ partQueue' = partQueue /\ skewQueue' = AfterNew(skewQueue, task) /\ pc'[0] = "create"
      \/ partQueue' = partQueue /\ skewQueue' = skewQueue /\ pc'[0] = "create"
      \/ partQueue' = partQueue /\ skewQueue' = skewQueue /\ pc'[0] = "undefined"
  <2>1. t = 0 /\ DOMAIN pc = Threads /\ task = Pass1Task(t, cur[t])
    BY <1>0, <1>1 DEF OrderInv
  <2>2. CASE BothSides(task) /\ ~(skew /\ Exceeds(task, SkewThreshold))
    BY <1>0, <2>1, <2>2 DEF CreateTask
  <2>3. CASE ~(BothSides(task) /\ ~(skew /\ Exceeds(task, SkewThreshold)))
    BY <1>0, <2>1, <2>3 DEF CreateTask
  <2>4. QED
    BY <2>2, <2>3
<1>10. /\ DOMAIN partQueue = Nodes /\ Nodes' = Nodes /\ \A n \in Nodes : QueueInv(partQueue[n])
       /\ QueueInv(skewQueue)
  BY <1>4 DEF QueuesInv, Nodes
<1>11. \A N : HeldKept(N, o) /\ JoinKept(N, o)
  <2>1. pc'[0] \notin {"cluster", "emit", "add", "join"}
    BY <1>9
  <2>2. ASSUME NEW N PROVE HeldKept(N, <<"unmade", 0, 0>>)
    BY <1>4, <1>5, <2>1, HeldStill DEF Working
  <2>3. QED
    BY <1>1, <1>4, <2>2, OneStill
<1>12. \A a, b : Within(a, a)
  BY DEF Within
<1>13. ClaimsInv /\ TasksInv
  BY DEF TaskInv
<1>14. ASSUME pc'[0] = "create", NEW e, e # o, TaskOf(e)' = task, NEW E, E \in {{e}, {}},
              PartKept(E \cup {o}, o), SkewKept(E \cup {o}, o)
       PROVE  ClaimsInv'
  <2>1. /\ Within(task, Unmade) /\ Within(Unmade', Unmade) /\ Apart(task, Unmade')
    BY <1>3, <1>7, <1>8, <1>14
  <2>2. \A d \in Claims' : d \in E => Within(TaskOf(d)', task)
    BY <1>12, <1>14
  <2>3. \A d, f \in Claims' : d \in E /\ f \in E /\ d # f =>
          \/ Apart(TaskOf(d)', TaskOf(f)')
          \/ Sharing(d)' /\ Sharing(f)' /\ Pieces(TaskOf(d)', TaskOf(f)')
    BY <1>14
  <2>4. PartKept(E \cup {o}, o) /\ SkewKept(E \cup {o}, o) /\ HeldKept(E \cup {o}, o) /\ JoinKept(E \cup {o}, o)
        /\ o \notin E
    BY <1>11, <1>14
  <2>5. QED
    BY <1>1, <1>4, <1>6, <1>7, <1>13, <2>1, <2>2, <2>3, <2>4, UnmadeSplits
<1> DEFINE Goal ==
      /\ ClaimsInv'
      /\ \A m \in Nodes : \A r \in DOMAIN partQueue'[m].task : IsTask(partQueue'[m].task[r])
      /\ \A r \in DOMAIN skewQueue'.task : IsTask(skewQueue'.task[r])
<1>15. ASSUME NEW n \in Nodes, partQueue' = [partQueue EXCEPT ![n] = AfterNew(partQueue[n], task)],
              skewQueue' = skewQueue, pc'[0] = "create"
       PROVE  Goal
  <2>1. PICK s, e : s = FreeSlot(partQueue[n]) /\ e = <<"part", n, s>>
    OBVIOUS
  <2>2. Took(partQueue[n], partQueue'[n], s, task) /\ \A m \in Nodes : m # n => partQueue'[m] = partQueue[m]
    BY <1>10, <1>15, <2>1, NewTakes
  <2>3. TaskOf(e)' = task /\ o # e
    BY <1>1, <2>1, <2>2, TaskOfClaimNext DEF Took
  <2>4. PICK E : E = {e}
    OBVIOUS
  <2>5. PartKept(E \cup {o}, o) /\ SkewKept(E \cup {o}, o)
    <3>1. <<"part", n, s>> \in E \cup {o}
      BY <2>1, <2>4
    <3>2. QED
      BY <1>1, <1>15, <2>2, <3>1, PartTook, OneStill
  <2>6. ClaimsInv'
    BY <1>14, <1>15, <2>3, <2>4, <2>5
  <2>7. \A m \in Nodes : \A r \in DOMAIN partQueue'[m].task : IsTask(partQueue'[m].task[r])
    BY <1>3, <1>13, <2>2, TookIsTask DEF TasksInv
  <2>8. QED
    BY <1>13, <1>15, <2>6, <2>7 DEF TasksInv
<1>16. ASSUME partQueue' = partQueue, skewQueue' = AfterNew(skewQueue, task), pc'[0] = "create"
       PROVE  Goal
  <2>1. PICK s, e : s = FreeSlot(skewQueue) /\ e = <<"skew", 0, s>>
    OBVIOUS
  <2>2. Took(skewQueue, skewQueue', s, task)
    BY <1>10, <1>16, <2>1, NewTakes
  <2>3. TaskOf(e)' = task /\ o # e
    BY <1>1, <2>1, <2>2, TaskOfClaimNext DEF Took
  <2>4. PICK E : E = {e}
    OBVIOUS
  <2>5. PartKept(E \cup {o}, o) /\ SkewKept(E \cup {o}, o)
    <3>1. <<"skew", 0, s>> \in E \cup {o}
      BY <2>1, <2>4
    <3>2. QED
      BY <1>1, <1>16, <2>2, <3>1, SkewTook, OneStill
  <2>6. ClaimsInv'
    BY <1>14, <1>16, <2>3, <2>4, <2>5
  <2>7. \A r \in DOMAIN skewQueue'.task : IsTask(skewQueue'.task[r])
    BY <1>3, <1>13, <2>2, TookIsTask DEF TasksInv
  <2>8. QED
    BY <1>13, <1>16, <2>6, <2>7 DEF TasksInv
<1>17. ASSUME partQueue' = partQueue, skewQueue' = skewQueue
       PROVE  Goal
  <2>1. \A N : PartKept(N, o) /\ SkewKept(N, o)
    BY <1>1, <1>17, OneStill
  <2>2. ASSUME pc'[0] = "create"
        PROVE  ClaimsInv'
    <3>1. PICK E : E = {o}
      OBVIOUS
    <3>2. UnmadeKept(E, o)
      BY <1>1, <3>1 DEF UnmadeKept
    <3>3. TaskOf(o) = Unmade /\ TaskOf(o)' = Unmade' /\ ~Sharing(o) /\ o \in Claims
      BY <1>1, <1>7, TaskOfClaim, TaskOfClaimNext, SharingKinds, ClaimsMembers DEF AllClaims, IsClaim
    <3>4. Within(Unmade', Unmade)
      BY <1>3, <1>7, <1>8, <2>2
    <3>5. PartKept(E, o) /\ SkewKept(E, o) /\ HeldKept(E, o) /\ JoinKept(E, o)
      BY <1>11, <2>1
    <3>6. \A e \in Claims' : e \in E =>
            /\ o \in Claims /\ Within(TaskOf(e)', TaskOf(o))
            /\ Sharing(o) => Sharing(e)' /\ TaskOf(e)' = TaskOf(o)
      BY <3>1, <3>3, <3>4
    <3>7. \A d, e \in Claims' : ~(d \in E /\ e \in E /\ d # e)
      BY <3>1
    <3>8. left[0] <= left'[0] /\ left'[0] \in Nat
      BY <1>6
    <3>9. QED
      BY <1>4, <1>6, <1>13, <3>2, <3>5, <3>6, <3>7, <3>8, ClaimsStep
  <2>3. ASSUME pc'[0] = "undefined"
        PROVE  ClaimsInv'
    <3>1. PICK E : E = {}
      OBVIOUS
    <3>2. ~Pending'
      BY <2>3 DEF Pending, Active
    <3>3. UnmadeKept(E, o)
      BY <3>2 DEF UnmadeKept
    <3>5. PartKept(E, o) /\ SkewKept(E, o) /\ HeldKept(E, o) /\ JoinKept(E, o)
      BY <1>11, <2>1
    <3>6. \A e \in Claims' : e \notin E
      BY <3>1
    <3>8. left[0] <= left'[0] /\ left'[0] \in Nat
      BY <1>6
    <3>9. QED
      BY <1>4, <1>6, <1>13, <3>3, <3>5, <3>6, <3>8, ClaimsStep
  <2>4. QED
    BY <1>9, <1>13, <1>17, <2>2, <2>3 DEF TasksInv
<1>18. Goal
  BY <1>9, <1>15, <1>16, <1>17
<1>19. TasksInv'
  BY <1>4, <1>10, <1>13, <1>18 DEF TasksInv, IsTask, Size
<1>20. \A u \in Threads : ~AtPass2(u)'
  <2>1. pc'[0] \notin {"cluster", "emit", "add", "join"}
    BY <1>9
  <2>2. QED
    BY <1>0, <1>5, <2>1, NobodyAtPass2 DEF AtPass2
<1>21. TakenInv'
  BY <1>20 DEF TakenInv
<1>22. CountsInv'
  BY <1>4, <1>20, CountsFrame DEF TaskInv
<1>23. MovedInv'
  <2>1. left'[0] = 4
    BY <1>0, <1>6 DEF OrderInv, PhaseInv, Phase
  <2>2. ~Moved'
    BY <1>9, <2>1 DEF Moved, MovedLabels
  <2>3. QED
    BY <2>2 DEF MovedInv
<1>24. QED
  BY <1>18, <1>19, <1>21, <1>22, <1>23 DEF TaskInv

-----------------------------------------------------------------------------
(* The join tasks of the clusters of a skewed one, whole or in pieces.     *)

(* The queue after the pieces up to k are added to q. *)
AfterPieces(q, task, r, k) ==
  /\ QueueInv(r) /\ r.curr = q.curr + k
  /\ \A s \in Waiting(r) : s \in Waiting(q) \/ \E j \in 0 .. (k - 1) : s = q.curr + 1 + j
  /\ \A s \in DOMAIN r.task :
       \/ s \in DOMAIN q.task /\ r.task[s] = q.task[s]
       \/ \E j \in 0 .. (k - 1) : s = q.curr + 1 + j /\ r.task[s] = Piece(task, j)

LEMMA PiecesTaken ==
  ASSUME NEW q, QueueInv(q), NEW task
  PROVE  AfterPieces(q, task, Added(q, task)[NThreads], NThreads)
<1>1. PICK f : f = Added(q, task)
  OBVIOUS
<1>2. f[0] = q /\ \A k \in 1 .. NThreads : f[k] = AfterNew(f[k - 1], Piece(task, k - 1))
  BY <1>1, AddedEquation
<1>3. NThreads \in Nat \ {0} /\ q.curr \in Nat
  BY RadixJoinAssumption DEF QueueInv
<1>4. AfterPieces(q, task, f[0], 0)
  BY <1>2, <1>3 DEF AfterPieces
<1>5. ASSUME NEW k \in 1 .. NThreads, AfterPieces(q, task, f[k - 1], k - 1)
      PROVE  AfterPieces(q, task, f[k], k)
  <2>1. PICK p, r, s, v : p = f[k - 1] /\ r = f[k] /\ s = FreeSlot(p) /\ v = Piece(task, k - 1)
    OBVIOUS
  <2>2. QueueInv(p) /\ r = AfterNew(p, v) /\ p.curr = q.curr + (k - 1)
    BY <1>2, <1>5, <2>1 DEF AfterPieces
  <2>3. QueueInv(r) /\ r.curr = p.curr + 1
    BY <2>2, NewCorrect
  <2>4. Took(p, r, s, v)
    BY <2>1, <2>2, NewTakes
  <2>5. s = q.curr + 1 + (k - 1) /\ r.curr = q.curr + k /\ k - 1 \in 0 .. (k - 1)
    BY <1>3, <2>1, <2>2, <2>3 DEF FreeSlot
  <2>6. \A j \in 0 .. (k - 1 - 1) : j \in 0 .. (k - 1)
    BY <1>3
  <2>7. ASSUME NEW c \in Waiting(r)
        PROVE  c \in Waiting(q) \/ \E j \in 0 .. (k - 1) : c = q.curr + 1 + j
    <3>1. c \in Waiting(p) \/ c = s
      BY <2>4 DEF Took
    <3>2. c \in Waiting(p) => c \in Waiting(q) \/ \E j \in 0 .. (k - 1 - 1) : c = q.curr + 1 + j
      BY <1>5, <2>1 DEF AfterPieces
    <3>3. QED
      BY <2>5, <2>6, <3>1, <3>2
  <2>8. ASSUME NEW c \in DOMAIN r.task
        PROVE  \/ c \in DOMAIN q.task /\ r.task[c] = q.task[c]
               \/ \E j \in 0 .. (k - 1) : c = q.curr + 1 + j /\ r.task[c] = Piece(task, j)
    <3>1. CASE c = s
      BY <2>1, <2>4, <2>5, <3>1 DEF Took
    <3>2. CASE c # s
      <4>1. c \in DOMAIN p.task /\ r.task[c] = p.task[c]
        BY <2>4, <3>2 DEF Took
      <4>2. \/ c \in DOMAIN q.task /\ p.task[c] = q.task[c]
            \/ \E j \in 0 .. (k - 1 - 1) : c = q.curr + 1 + j /\ p.task[c] = Piece(task, j)
        BY <1>5, <2>1, <4>1 DEF AfterPieces
      <4>3. QED
        BY <2>6, <4>1, <4>2
    <3>3. QED
      BY <3>1, <3>2
  <2>9. QED
    BY <2>1, <2>3, <2>5, <2>7, <2>8 DEF AfterPieces
<1>6. \A k \in 0 .. NThreads : AfterPieces(q, task, f[k], k)
  <2> DEFINE B == {k \in 0 .. NThreads : ~AfterPieces(q, task, f[k], k)}
  <2>1. SUFFICES ASSUME B # {} PROVE FALSE
    OBVIOUS
  <2>2. B \in SUBSET Nat
    OBVIOUS
  <2>3. \E m \in B : \A k \in B : m <= k
    <3> HIDE DEF B
    <3>1. QED
      BY <2>1, <2>2, SmallestNumber
  <2>4. PICK m \in B : \A k \in B : m <= k
    BY <2>3
  <2>5. m # 0
    BY <1>4
  <2>6. m \in 1 .. NThreads /\ m - 1 \in 0 .. NThreads /\ ~(m <= m - 1)
    BY <1>3, <2>5
  <2>7. m - 1 \notin B
    <3> HIDE DEF B
    <3>1. QED
      BY <2>4, <2>6
  <2>8. AfterPieces(q, task, f[m - 1], m - 1)
    BY <2>6, <2>7
  <2>9. QED
    BY <1>5, <2>4, <2>6, <2>8
<1>7. QED
  BY <1>1, <1>3, <1>6

LEMMA PieceFacts ==
  ASSUME NEW task, IsTask(task), NEW i \in Threads
  PROVE  /\ IsTask(Piece(task, i)) /\ Within(Piece(task, i), task)
         /\ \A j \in Threads : i # j => Pieces(Piece(task, i), Piece(task, j))
<1>1. task \in [Rel -> Part] /\ "R" \in Rel /\ "S" \in Rel /\ Rel = {"R", "S"}
  BY DEF IsTask, Rel
<1>2. IsPart(task["S"])
  BY <1>1 DEF Part, IsPart
<1>3. \A j \in Threads : /\ Piece(task, j)["S"] = Share(task["S"], j)
                         /\ Piece(task, j)["R"] = task["R"]
  BY <1>1 DEF Piece
<1>4. Share(task["S"], i) \in Part /\ Share(task["S"], i).at + Share(task["S"], i).num <= Size("S")
  <2>1. IsPart(Share(task["S"], i))
    BY <1>2, ShareFacts
  <2>2. Share(task["S"], i) = [at |-> Share(task["S"], i).at, num |-> Share(task["S"], i).num]
    BY DEF Share
  <2>3. Share(task["S"], i) \in Part
    BY <2>1, <2>2 DEF Part, IsPart
  <2>4. PICK a, n \in Nat : a = Share(task["S"], i).at /\ n = Share(task["S"], i).num
    BY <2>1 DEF IsPart
  <2>5. PICK b, m \in Nat : b = task["S"].at /\ m = task["S"].num
    BY <1>2 DEF IsPart
  <2>6. a + n <= b + m
    BY <1>2, <2>4, <2>5, ShareFacts
  <2>7. b + m <= Size("S") /\ Size("S") \in Nat
    BY <1>1, <2>5, RadixJoinAssumption DEF IsTask, Size
  <2>8. QED
    BY <2>3, <2>4, <2>6, <2>7
<1>5. IsTask(Piece(task, i))
  <2>1. Piece(task, i) \in [Rel -> Part]
    BY <1>1, <1>4 DEF Piece
  <2>2. QED
    BY <1>1, <1>3, <1>4, <2>1 DEF IsTask
<1>6. Within(Piece(task, i), task)
  <2>1. Positions(Share(task["S"], i)) \subseteq Positions(task["S"])
    BY <1>2, OwnersInOrder
  <2>2. QED
    BY <1>1, <1>3, <2>1 DEF Within
<1>7. ASSUME NEW j \in Threads, i # j
      PROVE  Pieces(Piece(task, i), Piece(task, j))
  <2>1. Positions(Share(task["S"], i)) \cap Positions(Share(task["S"], j)) = {}
    BY <1>2, <1>7, OwnersInOrder
  <2>2. QED
    BY <1>3, <2>1 DEF Pieces
<1>8. QED
  BY <1>5, <1>6, <1>7

LEMMA SkewTaskFacts ==
  ASSUME OrderInv, ShapeInv, SkewInv, InputInv, BoundaryInv, Parallel, pc[0] = "create_join",
         NEW c \in 0 .. (FanOut2 - 1), NEW task, task = SkewJoinTask(0, c)
  PROVE  /\ IsTask(task) /\ skew /\ left[0] > 5
         /\ Within(task, UnmadeFrom(c)) /\ Within(UnmadeFrom(c + 1), UnmadeFrom(c))
         /\ Apart(task, UnmadeFrom(c + 1))
<1>1. Again /\ skew /\ left[0] > 5
  BY ThreadsFinite DEF OrderInv, PhaseInv, Phase, Announced, AtSkewed, SkewLabels
<1>2. FanOut = FanOut2 /\ FanOut2 \in Nat /\ c \in 0 .. FanOut /\ c + 1 \in 0 .. FanOut
  BY <1>1, FanOutTypes DEF FanOut
<1>3. ASSUME NEW x \in Rel
      PROVE  /\ task[x] = [at |-> Whole(x).at + output[0][x][c], num |-> output[0][x][c + 1] - output[0][x][c]]
             /\ task[x].at = Whole(x).at + output[0][x][c]
             /\ task[x].num = output[0][x][c + 1] - output[0][x][c]
  <2>1. PICK i, j \in Nat : i = output[0][x][c] /\ j = output[0][x][c + 1]
    BY <1>2, Boundaries
  <2>2. task[x] = [at |-> Whole(x).at + i, num |-> j - i - 0]
    BY <1>1, <2>1, FanOutTypes DEF SkewJoinTask, Whole
  <2>3. QED
    BY <2>1, <2>2
<1>4. /\ \A x \in Rel : IsPart(task[x]) /\ task[x].at + task[x].num <= Size(x)
      /\ Within(task, UnmadeFrom(c)) /\ Within(UnmadeFrom(c + 1), UnmadeFrom(c))
      /\ Apart(task, UnmadeFrom(c + 1))
  <2>1. \A x \in Rel : /\ task[x].at = Whole(x).at + output[0][x][c]
                       /\ task[x].num = output[0][x][c + 1] - output[0][x][c]
    BY <1>3
  <2>2. c \in 0 .. (FanOut - 1) /\ pc[0] \in {"create", "create_join"}
    BY <1>2
  <2>3. QED
    BY <2>1, <2>2, NextUnmade
<1>5. task \in [Rel -> Part]
  <2>1. ASSUME NEW x \in Rel
        PROVE  task[x] \in Part
    <3>1. PICK a, n : a = Whole(x).at + output[0][x][c] /\ n = output[0][x][c + 1] - output[0][x][c]
      OBVIOUS
    <3>2. task[x] = [at |-> a, num |-> n]
      BY <1>3, <3>1
    <3>3. a \in Nat /\ n \in Nat
      BY <1>4, <3>2 DEF IsPart
    <3>4. QED
      BY <3>2, <3>3 DEF Part
  <2>2. QED
    BY <2>1 DEF SkewJoinTask
<1>6. QED
  BY <1>1, <1>4, <1>5 DEF IsTask

(* The claims to the pieces of one large cluster. *)
PieceClaims(n, q) == {<<"part", n, q.curr + 1 + j>> : j \in Threads}

LEMMA PiecesClaimed ==
  ASSUME NEW n \in Nodes, n = NumaId(0), QueueInv(partQueue[n]), numNuma' = numNuma,
         NEW task, AfterPieces(partQueue[n], task, partQueue'[n], NThreads),
         \A m \in Nodes : m # n => partQueue'[m] = partQueue[m],
         NEW E, E = PieceClaims(n, partQueue[n]), NEW N, E \subseteq N, NEW k, NEW i, k # "part"
  PROVE  /\ PartKept(N, <<k, i, 0>>)
         /\ \A e \in Claims' : e \in E =>
              \E j \in Threads : e = <<"part", n, partQueue[n].curr + 1 + j>> /\ TaskOf(e)' = Piece(task, j)
<1>1. PICK q, r : q = partQueue[n] /\ r = partQueue'[n]
  OBVIOUS
<1>2. /\ QueueInv(q) /\ QueueInv(r)
      /\ \A s \in Waiting(r) : s \in Waiting(q) \/ \E j \in 0 .. (NThreads - 1) : s = q.curr + 1 + j
      /\ \A s \in DOMAIN r.task :
           \/ s \in DOMAIN q.task /\ r.task[s] = q.task[s]
           \/ \E j \in 0 .. (NThreads - 1) : s = q.curr + 1 + j /\ r.task[s] = Piece(task, j)
  BY <1>1 DEF AfterPieces
<1>3. Threads = 0 .. (NThreads - 1) /\ Threads \subseteq Nat
  BY ThreadsFinite DEF Threads
<1>4. /\ DOMAIN q.task \subseteq 1 .. q.curr /\ q.curr \in Nat
      /\ Waiting(q) \subseteq DOMAIN q.task /\ Waiting(r) \subseteq DOMAIN r.task
  BY <1>2, QueueFacts DEF QueueInv
<1>5. \A j \in Threads : q.curr + 1 + j \notin DOMAIN q.task
  BY <1>3, <1>4
<1>6. ASSUME NEW s \in Waiting(r), <<"part", n, s>> \notin N
      PROVE  s \in Waiting(q) /\ r.task[s] = q.task[s]
  <2>1. \A j \in Threads : s # q.curr + 1 + j
    BY <1>1, <1>6 DEF PieceClaims
  <2>2. QED
    BY <1>2, <1>3, <1>4, <1>6, <2>1
<1>7. PartKept(N, <<k, i, 0>>)
  BY <1>1, <1>6 DEF PartKept
<1>8. ASSUME NEW e \in Claims', e \in E
      PROVE  \E j \in Threads : e = <<"part", n, q.curr + 1 + j>> /\ TaskOf(e)' = Piece(task, j)
  <2>1. PICK j \in Threads : e = <<"part", n, q.curr + 1 + j>>
    BY <1>1, <1>8 DEF PieceClaims
  <2>2. PICK s : s = q.curr + 1 + j
    OBVIOUS
  <2>3. s \in Waiting(r)
    <3>1. AllClaims'
      BY ClaimsMembers, PTL
    <3>2. IsClaim(e)'
      BY <1>8, <3>1 DEF AllClaims
    <3>3. e = <<"part", n, s>>
      BY <2>1, <2>2
    <3>4. QED
      BY <1>1, <3>2, <3>3 DEF IsClaim
  <2>4. s \in DOMAIN r.task /\ s \notin DOMAIN q.task
    BY <1>4, <1>5, <2>2, <2>3
  <2>5. PICK h \in Threads : s = q.curr + 1 + h /\ r.task[s] = Piece(task, h)
    BY <1>2, <1>3, <2>4
  <2>6. TaskOf(e)' = r.task[s]
    BY <1>1, <2>1, <2>2, TaskOfClaimNext
  <2>7. QED
    BY <2>1, <2>2, <2>5, <2>6
<1>9. QED
  BY <1>1, <1>7, <1>8

LEMMA CreateJoinTaskKeepsTasks ==
  ASSUME QueuesInv, OrderInv, ShapeInv, SkewInv, InputInv, BoundaryInv, Parallel, TaskInv,
         NEW t \in Threads, CreateJoinTask(t), Thread(t)
  PROVE  TaskInv'
<1> USE DEF inputs, pass1, pass2, queues, skewVars, barrier
<1>0. t = 0 /\ pc[0] = "create_join" /\ 0 \in Threads
  BY ThreadsFinite DEF OrderInv, PhaseInv, Phase, CreateJoinTask
<1>1. PICK c, task, o, n : c = cur[0] /\ task = SkewJoinTask(0, c) /\ o = <<"unmade", 0, 0>> /\ n = NumaId(0)
  OBVIOUS
<1>2. c \in 0 .. (FanOut2 - 1) /\ c \in Nat
  BY <1>0, <1>1, FanOutTypes DEF CreateJoinTask, ShapeInv
<1>3. /\ IsTask(task) /\ skew /\ left[0] > 5
      /\ Within(task, UnmadeFrom(c)) /\ Within(UnmadeFrom(c + 1), UnmadeFrom(c))
      /\ Apart(task, UnmadeFrom(c + 1))
  BY <1>0, <1>1, <1>2, SkewTaskFacts
<1>4. /\ UNCHANGED <<pc, skew, numNuma, skewQueue, skewtask, held, counts, offset, output, left>>
      /\ cur'[0] = c + 1
  BY <1>0, <1>1 DEF CreateJoinTask, ShapeInv
<1>5. \A u \in Threads : u # 0 => pc'[u] = pc[u] /\ cur'[u] = cur[u]
  BY <1>0, OthersStay, CursorFrame
<1>6. left[0] \in Nat /\ left'[0] = left[0]
  BY <1>0, <1>4 DEF OrderInv, PhaseInv, Phase
<1>7. Pending /\ Unmade = UnmadeFrom(c) /\ Unmade' = UnmadeFrom(c + 1)
  BY <1>0, <1>1, <1>4, UnmadeAt, UnmadeAtNext DEF Pending, Active
<1>8. n \in Nodes
  BY <1>0, <1>1, NumaIdType DEF QueuesInv
<1>9. \/ /\ partQueue' = [partQueue EXCEPT ![n] = Added(partQueue[n], task)[NThreads]]
         /\ joinQueue' = joinQueue
      \/ /\ joinQueue' = [joinQueue EXCEPT ![n] = AfterNew(joinQueue[n], task)]
         /\ partQueue' = partQueue
      \/ joinQueue' = joinQueue /\ partQueue' = partQueue
  <2>1. t = 0 /\ task = SkewJoinTask(t, cur[t]) /\ n = NumaId(t)
    BY <1>0, <1>1
  <2>2. QED
    BY <2>1 DEF CreateJoinTask, Added, AddedRound
<1>10. /\ DOMAIN partQueue = Nodes /\ DOMAIN joinQueue = Nodes /\ Nodes' = Nodes
       /\ QueueInv(partQueue[n]) /\ QueueInv(joinQueue[n])
  BY <1>4, <1>8 DEF QueuesInv, Nodes
<1>11. \A N : HeldKept(N, o) /\ SkewKept(N, o)
  <2>1. ASSUME NEW N PROVE HeldKept(N, <<"unmade", 0, 0>>)
    <3>1. \A u \in Threads : u # -1 => pc'[u] = pc[u] /\ held'[u] = held[u] /\ offset'[u] = offset[u]
      BY <1>4
    <3>2. -1 \notin Threads
      BY ThreadsFinite
    <3>3. QED
      BY <3>1, <3>2, HeldStill
  <2>2. QED
    BY <1>1, <1>4, <2>1, OneStill
<1>12. \A a, b : Within(a, a)
  BY DEF Within
<1>13. ClaimsInv /\ TasksInv
  BY DEF TaskInv
<1>14. /\ Within(task, Unmade) /\ Within(Unmade', Unmade) /\ Apart(task, Unmade')
  BY <1>3, <1>7
<1>15. ASSUME NEW E, o \notin E, PartKept(E \cup {o}, o), JoinKept(E \cup {o}, o),
              \A e \in Claims' : e \in E => Within(TaskOf(e)', task),
              \A d, e \in Claims' : d \in E /\ e \in E /\ d # e =>
                \/ Apart(TaskOf(d)', TaskOf(e)')
                \/ Sharing(d)' /\ Sharing(e)' /\ Pieces(TaskOf(d)', TaskOf(e)')
       PROVE  ClaimsInv'
  <2>1. HeldKept(E \cup {o}, o) /\ SkewKept(E \cup {o}, o)
    BY <1>11
  <2>2. QED
    BY <1>1, <1>4, <1>6, <1>7, <1>13, <1>14, <1>15, <2>1, UnmadeSplits
<1> DEFINE Goal ==
      /\ ClaimsInv'
      /\ \A m \in Nodes : \A r \in DOMAIN partQueue'[m].task : IsTask(partQueue'[m].task[r])
      /\ \A m \in Nodes : \A r \in DOMAIN joinQueue'[m].task : IsTask(joinQueue'[m].task[r])
<1>16. ASSUME partQueue' = [partQueue EXCEPT ![n] = Added(partQueue[n], task)[NThreads]],
              joinQueue' = joinQueue
       PROVE  Goal
  <2>1. PICK E : E = PieceClaims(n, partQueue[n])
    OBVIOUS
  <2>2. AfterPieces(partQueue[n], task, partQueue'[n], NThreads) /\ \A m \in Nodes : m # n => partQueue'[m] = partQueue[m]
    BY <1>8, <1>10, <1>16, PiecesTaken
  <2>3. o \notin E
    BY <1>1, <2>1 DEF PieceClaims
  <2>4. /\ PartKept(E \cup {o}, o)
        /\ \A e \in Claims' : e \in E =>
             \E j \in Threads : e = <<"part", n, partQueue[n].curr + 1 + j>> /\ TaskOf(e)' = Piece(task, j)
    <3>1. E \subseteq E \cup {o} /\ numNuma' = numNuma
      BY <1>4
    <3>2. QED
      BY <1>1, <1>8, <1>10, <2>1, <2>2, <3>1, PiecesClaimed
  <2>5. JoinKept(E \cup {o}, o)
    BY <1>1, <1>16, OneStill
  <2>6. \A e \in Claims' : e \in E => Within(TaskOf(e)', task)
    BY <1>3, <2>4, PieceFacts
  <2>7. ASSUME NEW d \in Claims', NEW e \in Claims', d \in E, e \in E, d # e
        PROVE  Sharing(d)' /\ Sharing(e)' /\ Pieces(TaskOf(d)', TaskOf(e)')
    <3>1. PICK i \in Threads : d = <<"part", n, partQueue[n].curr + 1 + i>> /\ TaskOf(d)' = Piece(task, i)
      BY <2>4, <2>7
    <3>2. PICK j \in Threads : e = <<"part", n, partQueue[n].curr + 1 + j>> /\ TaskOf(e)' = Piece(task, j)
      BY <2>4, <2>7
    <3>3. i # j
      BY <2>7, <3>1, <3>2
    <3>4. Pieces(TaskOf(d)', TaskOf(e)')
      BY <1>3, <3>1, <3>2, <3>3, PieceFacts
    <3>5. skew /\ left'[0] > 5 /\ skew' = skew /\ numNuma' = numNuma
      BY <1>3, <1>4
    <3>6. Sharing(d)' /\ Sharing(e)'
      BY <1>1, <3>1, <3>2, <3>5, SharingKindsNext
    <3>7. QED
      BY <3>4, <3>6
  <2>8. ClaimsInv'
    BY <1>15, <2>3, <2>4, <2>5, <2>6, <2>7
  <2>9. ASSUME NEW m \in Nodes, NEW r \in DOMAIN partQueue'[m].task
        PROVE  IsTask(partQueue'[m].task[r])
    BY <1>3, <1>13, <2>2, <2>9, PieceFacts DEF TasksInv, AfterPieces, Threads
  <2>10. QED
    BY <1>13, <1>16, <2>8, <2>9 DEF TasksInv
<1>17. ASSUME joinQueue' = [joinQueue EXCEPT ![n] = AfterNew(joinQueue[n], task)], partQueue' = partQueue
       PROVE  Goal
  <2>1. PICK s, e : s = FreeSlot(joinQueue[n]) /\ e = <<"join", n, s>>
    OBVIOUS
  <2>2. Took(joinQueue[n], joinQueue'[n], s, task) /\ \A m \in Nodes : m # n => joinQueue'[m] = joinQueue[m]
    BY <1>8, <1>10, <1>17, <2>1, NewTakes
  <2>3. TaskOf(e)' = task /\ o # e
    BY <1>1, <2>1, <2>2, TaskOfClaimNext DEF Took
  <2>4. PICK E : E = {e}
    OBVIOUS
  <2>5. PartKept(E \cup {o}, o) /\ JoinKept(E \cup {o}, o)
    <3>1. <<"join", n, s>> \in E \cup {o}
      BY <2>1, <2>4
    <3>2. QED
      BY <1>1, <1>8, <1>17, <2>2, <3>1, JoinTook, OneStill
  <2>6. ClaimsInv'
    BY <1>12, <1>15, <2>3, <2>4, <2>5
  <2>7. \A m \in Nodes : \A r \in DOMAIN joinQueue'[m].task : IsTask(joinQueue'[m].task[r])
    BY <1>3, <1>13, <2>2, TookIsTask DEF TasksInv
  <2>8. QED
    BY <1>13, <1>17, <2>6, <2>7 DEF TasksInv
<1>18. ASSUME joinQueue' = joinQueue, partQueue' = partQueue
       PROVE  Goal
  <2>1. PICK E : E = {}
    OBVIOUS
  <2>2. PartKept(E \cup {o}, o) /\ JoinKept(E \cup {o}, o)
    BY <1>1, <1>18, OneStill
  <2>3. ClaimsInv'
    BY <1>15, <2>1, <2>2
  <2>4. QED
    BY <1>13, <1>18, <2>3 DEF TasksInv
<1>19. Goal
  BY <1>9, <1>16, <1>17, <1>18
<1>20. TasksInv'
  BY <1>4, <1>10, <1>13, <1>19 DEF TasksInv, IsTask, Size
<1>21. \A u \in Threads : ~AtPass2(u)'
  BY <1>3, <1>4, NobodyAtPass2 DEF AtPass2
<1>22. TakenInv'
  BY <1>21 DEF TakenInv
<1>23. CountsInv'
  BY <1>4, <1>21, CountsFrame DEF TaskInv
<1>24. MovedInv'
  BY <1>0, <1>4 DEF MovedInv, Moved, MovedLabels
<1>25. QED
  BY <1>19, <1>20, <1>22, <1>23, <1>24 DEF TaskInv

-----------------------------------------------------------------------------
(* A task goes from one hand to another, or is held on to.                 *)

LEMMA ClaimMoves ==
  ASSUME ClaimsInv, skew' = skew, numNuma' = numNuma,
         left[0] \in Nat, left'[0] \in Nat, left[0] <= left'[0], NEW e, NEW o, o \in Claims,
         PartKept({e}, o), JoinKept({e}, o), SkewKept({e}, o), HeldKept({e}, o), UnmadeKept({e}, o),
         e \in Claims' =>
           /\ Within(TaskOf(e)', TaskOf(o))
           /\ Sharing(o) => Sharing(e)' /\ TaskOf(e)' = TaskOf(o)
  PROVE  ClaimsInv'
<1>1. PICK N : N = {e}
  OBVIOUS
<1>2. PartKept(N, o) /\ JoinKept(N, o) /\ SkewKept(N, o) /\ HeldKept(N, o) /\ UnmadeKept(N, o)
  BY <1>1
<1>3. \A d \in Claims' : d \in N =>
        /\ o \in Claims /\ Within(TaskOf(d)', TaskOf(o))
        /\ Sharing(o) => Sharing(d)' /\ TaskOf(d)' = TaskOf(o)
  BY <1>1
<1>4. \A c, d \in Claims' : ~(c \in N /\ d \in N /\ c # d)
  BY <1>1
<1>5. QED
  BY <1>2, <1>3, <1>4, ClaimsStep

(* What is not made tasks of yet stays so, unless thread 0 does it. *)
LEMMA UnmadeUntouched ==
  ASSUME skewtask' = skewtask, output' = output,
         \/ pc'[0] = pc[0] /\ cur'[0] = cur[0]
         \/ pc'[0] \in {"partition", "cluster", "emit", "add", "next", "join"},
         NEW N, NEW k, NEW i, NEW j, k # "unmade"
  PROVE  UnmadeKept(N, <<k, i, j>>)
<1>1. SUFFICES ASSUME Pending' PROVE Pending /\ Unmade' = Unmade
  BY DEF UnmadeKept
<1>2. pc'[0] = pc[0] /\ cur'[0] = cur[0]
  BY <1>1 DEF Pending, Active
<1>3. QED
  BY <1>1, <1>2, UnmadeStill DEF Pending, Active, Again

LEMMA CountsOthers ==
  ASSUME CountsInv, NEW t,
         DOMAIN counts' = Threads, \A u \in Threads : DOMAIN counts'[u] = Rel,
         DOMAIN offset' = Threads, \A u \in Threads : DOMAIN offset'[u] = Rel,
         \A u \in Threads : u # t /\ AtPass2(u)' =>
           /\ pc'[u] = pc[u] /\ side'[u] = side[u] /\ cur'[u] = cur[u] /\ held'[u] = held[u]
           /\ counts'[u] = counts[u] /\ offset'[u] = offset[u],
         pc'[t] = "cluster" /\ side'[t] = "S" => Divided(t, "R")',
         pc'[t] \in {"emit", "add"} =>
           cur'[t] \in 0 .. FanOut2 /\ \A x \in Rel : Divided(t, x)',
         pc'[t] = "add" => cur'[t] < FanOut2
  PROVE  CountsInv'
<1>1. ASSUME NEW u \in Threads, u # t, NEW x \in Rel, AtPass2(u)', Divided(u, x)
      PROVE  Divided(u, x)'
  BY <1>1 DEF Divided
<1>2. ASSUME NEW u \in Threads
      PROVE  /\ pc'[u] = "cluster" /\ side'[u] = "S" => Divided(u, "R")'
             /\ pc'[u] \in {"emit", "add"} =>
                  cur'[u] \in 0 .. FanOut2 /\ \A x \in Rel : Divided(u, x)'
             /\ pc'[u] = "add" => cur'[u] < FanOut2
  <2>1. CASE u = t
    BY <2>1
  <2>2. CASE u # t
    BY <1>1, <2>2 DEF CountsInv, AtPass2, Rel
  <2>3. QED
    BY <2>1, <2>2
<1>3. QED
  BY <1>2 DEF CountsInv

LEMMA NextSkewTaskKeepsTasks ==
  ASSUME QueuesInv, OrderInv, ShapeInv, TaskInv, NextSkewTask(0), Thread(0)
  PROVE  TaskInv'
<1> USE DEF inputs, pass1, pass2, skewVars, Goto
<1>0. 0 \in Threads
  BY ThreadsFinite
<1>1. /\ UNCHANGED <<skew, numNuma, partQueue, joinQueue, held, counts, offset, output, left, side, cur>>
      /\ pc'[0] = "wait_skew" /\ pc[0] \in {"partition", "skew"}
  BY <1>0 DEF NextSkewTask, OrderInv, Sync!Arrive
<1>2. \A u \in Threads : u # 0 => pc'[u] = pc[u]
  BY <1>0, OthersStay
<1>3. left[0] \in Nat /\ left'[0] \in Nat /\ left[0] <= left'[0]
  BY <1>0, <1>1 DEF OrderInv, PhaseInv, Phase
<1>4. ClaimsInv /\ TasksInv /\ QueueInv(skewQueue)
  BY DEF TaskInv, QueuesInv
<1>5. \A N, k, i, j : k # "held" => HeldKept(N, <<k, i, j>>)
  <2>1. ASSUME NEW N, NEW k, NEW i, NEW j, k # "held"
        PROVE  HeldKept(N, <<k, i, j>>)
    BY <1>1, <1>2, <2>1, HeldStill DEF Working
  <2>2. QED
    BY <2>1
<1>6. Pending' => Again'
  BY <1>1 DEF Pending, Active
<1> DEFINE Goal == ClaimsInv' /\ IsTask(skewtask') /\ skewQueue'.task = skewQueue.task
<1>7. ASSUME skewQueue.count = 0 PROVE Goal
  <2>1. skewtask' = NoTask /\ skewQueue' = skewQueue
    BY <1>7 DEF NextSkewTask
  <2>2. ~Pending'
    BY <1>6, <2>1 DEF Again
  <2>3. PICK N, o : N = {} /\ o = Nothing
    OBVIOUS
  <2>4. PartKept(N, o) /\ JoinKept(N, o) /\ SkewKept(N, o) /\ HeldKept(N, o)
    BY <1>1, <1>5, <2>1, <2>3, OneStill DEF Nothing
  <2>5. UnmadeKept(N, o)
    BY <2>2 DEF UnmadeKept
  <2>6. ClaimsInv'
    BY <1>1, <1>3, <1>4, <2>3, <2>4, <2>5, ClaimsStep
  <2>7. QED
    BY <2>1, <2>6, NoTaskIsTask
<1>8. ASSUME skewQueue.count # 0 PROVE Goal
  <2>1. PICK s, task : s = skewQueue.head /\ task = skewQueue.task[s]
    OBVIOUS
  <2>2. skewtask' = task /\ skewQueue' = AfterGet(skewQueue)
    BY <1>8, <2>1 DEF NextSkewTask
  <2>3. Gave(skewQueue, skewQueue')
    BY <1>4, <1>8, <2>2, GetGives
  <2>4. s \in Waiting(skewQueue) /\ skewQueue'.task = skewQueue.task /\ s \in DOMAIN skewQueue.task
    BY <2>1, <2>3 DEF Gave
  <2>5. IsTask(task)
    BY <1>4, <2>1, <2>4 DEF TasksInv
  <2>6. PICK e, o : e = <<"unmade", 0, 0>> /\ o = <<"skew", 0, s>>
    OBVIOUS
  <2>7. o \in Claims /\ TaskOf(o) = task /\ ~Sharing(o) /\ TaskOf(e)' = Unmade'
    BY <2>1, <2>4, <2>6, ClaimsMembers, TaskOfClaim, TaskOfClaimNext, SharingKinds DEF AllClaims, IsClaim
  <2>8. PartKept({e}, o) /\ JoinKept({e}, o) /\ SkewKept({e}, o) /\ HeldKept({e}, o) /\ UnmadeKept({e}, o)
    <3>1. PartKept({e}, o) /\ JoinKept({e}, o)
      BY <1>1, <2>6, OneStill
    <3>2. SkewKept({e}, o)
      BY <2>1, <2>3, <2>6, SkewGave
    <3>3. HeldKept({e}, o)
      BY <1>5, <2>6
    <3>4. UnmadeKept({e}, o)
      BY <2>6 DEF UnmadeKept
    <3>5. QED
      BY <3>1, <3>2, <3>3, <3>4
  <2>9. e \in Claims' =>
          /\ Within(TaskOf(e)', TaskOf(o))
          /\ Sharing(o) => Sharing(e)' /\ TaskOf(e)' = TaskOf(o)
    <3>1. SUFFICES ASSUME e \in Claims' PROVE Within(Unmade', task)
      BY <2>7
    <3>2. Pending'
      <4>1. AllClaims'
        BY ClaimsMembers, PTL
      <4>2. IsClaim(e)'
        BY <3>1, <4>1 DEF AllClaims
      <4>3. QED
        BY <2>6, <4>2 DEF IsClaim
    <3>3. \A x \in Rel : Unmade'[x] = task[x]
      BY <1>1, <1>6, <2>2, <3>2 DEF Unmade, Whole
    <3>4. QED
      BY <3>3 DEF Within
  <2>10. ClaimsInv'
    BY <1>1, <1>3, <1>4, <2>7, <2>8, <2>9, ClaimMoves
  <2>11. QED
    BY <2>2, <2>4, <2>5, <2>10
<1>9. Goal
  BY <1>7, <1>8
<1>10. TasksInv'
  BY <1>1, <1>4, <1>9 DEF TasksInv, Nodes, IsTask, Size
<1>11. \A u \in Threads : AtPass2(u)' => AtPass2(u) /\ pc'[u] = pc[u]
  BY <1>1, <1>2 DEF AtPass2
<1>12. TakenInv' /\ CountsInv'
  BY <1>1, <1>11, TakenFrame, CountsFrame DEF TaskInv
<1>13. MovedInv'
  BY <1>1 DEF MovedInv, Moved, MovedLabels
<1>14. QED
  BY <1>9, <1>10, <1>12, <1>13 DEF TaskInv

(* Thread t takes the first task of a queue of its node. *)
LEMMA HeldFromQueue ==
  ASSUME NEW t \in Threads, \A u \in Threads : u # t => pc'[u] = pc[u],
         NEW task, DOMAIN held = Threads, held' = [held EXCEPT ![t] = task], offset' = offset,
         pc'[t] \in {"cluster", "join"}, NEW N, <<"held", t, 0>> \in N, NEW k, NEW i, NEW j, k # "held"
  PROVE  /\ HeldKept(N, <<k, i, j>>) /\ Within(Rest(t)', task)
         /\ task \in [Rel -> Part] => Rest(t)' = task
<1>1. \A u \in Threads : u # t => held'[u] = held[u] /\ offset'[u] = offset[u]
  OBVIOUS
<1>2. HeldKept(N, <<k, i, j>>)
  BY <1>1, HeldStill
<1>3. held'[t] = task
  OBVIOUS
<1>4. Rest(t)' = [x \in Rel |-> task[x]]
  BY <1>3 DEF Rest
<1>5. QED
  BY <1>2, <1>4 DEF Within

LEMMA MoveLargeTaskKeepsTasks ==
  ASSUME QueuesInv, OrderInv, ShapeInv, TaskInv, NEW t \in Threads, MoveLargeTask(t), Thread(t)
  PROVE  TaskInv'
<1> USE DEF inputs, pass1, pass2, queues, skewVars, barrier
<1>0. t = 0 /\ pc[0] = "move" /\ 0 \in Threads
  BY ThreadsFinite DEF MoveLargeTask
<1>1. PICK n, s, h, task, e, o :
        /\ n = NumaId(0) /\ s = FreeSlot(joinQueue[n]) /\ h = partQueue[n].head
        /\ task = partQueue[n].task[h] /\ e = <<"join", n, s>> /\ o = <<"part", n, h>>
  OBVIOUS
<1>2. UNCHANGED <<pc, skew, numNuma, skewQueue, skewtask, held, counts, offset, output, left, side, cur>>
  BY DEF MoveLargeTask
<1>3. left[0] \in Nat /\ left'[0] = left[0] /\ skew /\ left[0] > 5
  BY <1>0, <1>2 DEF OrderInv, PhaseInv, Phase, SkewLabels
<1>4. n \in Nodes /\ Nodes' = Nodes
  BY <1>0, <1>1, <1>2, NumaIdType DEF QueuesInv, Nodes
<1>5. /\ partQueue[n].count > 0
      /\ partQueue' = [partQueue EXCEPT ![n] = AfterGet(partQueue[n])]
      /\ joinQueue' = [joinQueue EXCEPT ![n] = AfterNew(joinQueue[n], task)]
  BY <1>0, <1>1 DEF MoveLargeTask
<1>6. /\ DOMAIN partQueue = Nodes /\ DOMAIN joinQueue = Nodes
      /\ QueueInv(partQueue[n]) /\ QueueInv(joinQueue[n]) /\ partQueue[n].count # 0
  BY <1>4, <1>5, QueueFacts DEF QueuesInv
<1>7. Gave(partQueue[n], partQueue'[n]) /\ \A m \in Nodes : m # n => partQueue'[m] = partQueue[m]
  BY <1>4, <1>5, <1>6, GetGives
<1>8. Took(joinQueue[n], joinQueue'[n], s, task) /\ \A m \in Nodes : m # n => joinQueue'[m] = joinQueue[m]
  BY <1>1, <1>4, <1>5, <1>6, NewTakes
<1>9. h \in Waiting(partQueue[n]) /\ h \in DOMAIN partQueue[n].task
  BY <1>1, <1>7 DEF Gave
<1>10. ClaimsInv /\ TasksInv /\ IsTask(task)
  BY <1>1, <1>4, <1>9 DEF TaskInv, TasksInv
<1>11. o \in Claims /\ TaskOf(o) = task /\ TaskOf(e)' = task /\ Sharing(e)'
  <2>1. o \in Claims
    BY <1>1, <1>4, <1>9, ClaimsMembers DEF AllClaims, IsClaim
  <2>2. TaskOf(o) = task
    BY <1>1, TaskOfClaim
  <2>3. TaskOf(e)' = task
    BY <1>1, <1>8, TaskOfClaimNext DEF Took
  <2>4. Sharing(e)'
    BY <1>1, <1>2, <1>3, SharingKindsNext
  <2>5. QED
    BY <2>1, <2>2, <2>3, <2>4
<1>12. PartKept({e}, o) /\ JoinKept({e}, o) /\ SkewKept({e}, o) /\ HeldKept({e}, o) /\ UnmadeKept({e}, o)
  <2>1. PartKept({e}, o)
    BY <1>1, <1>4, <1>7, PartGave
  <2>2. JoinKept({e}, o)
    <3>1. <<"join", n, s>> \in {e}
      BY <1>1
    <3>2. QED
      BY <1>1, <1>4, <1>8, <3>1, JoinTook
  <2>3. SkewKept({e}, o)
    BY <1>1, <1>2, OneStill
  <2>4. HeldKept({e}, o)
    <3>1. -1 \notin Threads
      BY ThreadsFinite
    <3>2. \A u \in Threads : u # -1 => pc'[u] = pc[u] /\ held'[u] = held[u] /\ offset'[u] = offset[u]
      BY <1>2
    <3>3. QED
      BY <1>1, <3>1, <3>2, HeldStill
  <2>5. UnmadeKept({e}, o)
    BY <1>1, <1>2, UnmadeUntouched
  <2>6. QED
    BY <2>1, <2>2, <2>3, <2>4, <2>5
<1>13. ClaimsInv'
  <2>1. e \in Claims' =>
          /\ Within(TaskOf(e)', TaskOf(o))
          /\ Sharing(o) => Sharing(e)' /\ TaskOf(e)' = TaskOf(o)
    BY <1>11 DEF Within
  <2>2. left'[0] \in Nat /\ left[0] <= left'[0]
    BY <1>3
  <2>3. QED
    BY <1>2, <1>3, <1>10, <1>11, <1>12, <2>1, <2>2, ClaimMoves
<1>14. TasksInv'
  <2>1. \A m \in Nodes : \A r \in DOMAIN joinQueue'[m].task : IsTask(joinQueue'[m].task[r])
    BY <1>8, <1>10, TookIsTask DEF TasksInv
  <2>2. \A m \in Nodes : partQueue'[m].task = partQueue[m].task
    BY <1>7 DEF Gave
  <2>3. QED
    BY <1>2, <1>4, <1>10, <2>1, <2>2 DEF TasksInv, IsTask, Size
<1>15. \A m \in Nodes : \A c \in Waiting(partQueue'[m]) :
         c \in Waiting(partQueue[m]) /\ partQueue'[m].task[c] = partQueue[m].task[c]
  BY <1>7 DEF Gave
<1>16. TakenInv' /\ CountsInv'
  BY <1>2, <1>15, TakenFrame, CountsFrame DEF TaskInv, AtPass2
<1>17. MovedInv'
  BY <1>0, <1>2 DEF MovedInv, Moved, MovedLabels
<1>18. QED
  BY <1>13, <1>14, <1>16, <1>17 DEF TaskInv

LEMMA TakeJoinTaskKeepsTasks ==
  ASSUME QueuesInv, OrderInv, ShapeInv, TaskInv, NEW t \in Threads, TakeJoinTask(t), Thread(t)
  PROVE  TaskInv'
<1> USE DEF inputs, pass1, skewVars, barrier, Goto
<1>0. pc[t] = "next" /\ pc'[t] = "join" /\ 0 \in Threads
  BY ThreadsFinite DEF TakeJoinTask, OrderInv
<1>1. PICK n, h, task, e, o :
        /\ n = NumaId(t) /\ h = joinQueue[n].head
        /\ task = joinQueue[n].task[h] /\ e = <<"held", t, 0>> /\ o = <<"join", n, h>>
  OBVIOUS
<1>2. UNCHANGED <<skew, numNuma, partQueue, skewQueue, skewtask, counts, offset, output, left, side, cur>>
  BY DEF TakeJoinTask
<1>3. left[0] \in Nat /\ left'[0] = left[0]
  BY <1>0, <1>2 DEF OrderInv, PhaseInv, Phase
<1>4. n \in Nodes /\ Nodes' = Nodes
  BY <1>0, <1>1, <1>2, NumaIdType DEF QueuesInv, Nodes
<1>5. /\ joinQueue[n].count > 0
      /\ held' = [held EXCEPT ![t] = task]
      /\ joinQueue' = [joinQueue EXCEPT ![n] = AfterGet(joinQueue[n])]
  BY <1>0, <1>1 DEF TakeJoinTask
<1>6. DOMAIN joinQueue = Nodes /\ QueueInv(joinQueue[n]) /\ joinQueue[n].count # 0
  BY <1>4, <1>5, QueueFacts DEF QueuesInv
<1>7. Gave(joinQueue[n], joinQueue'[n]) /\ \A m \in Nodes : m # n => joinQueue'[m] = joinQueue[m]
  BY <1>4, <1>5, <1>6, GetGives
<1>8. \A u \in Threads : u # t => pc'[u] = pc[u]
  BY OthersStay
<1>9. h \in Waiting(joinQueue[n]) /\ h \in DOMAIN joinQueue[n].task
  BY <1>1, <1>7 DEF Gave
<1>10. ClaimsInv /\ TasksInv /\ IsTask(task) /\ DOMAIN held = Threads /\ task \in [Rel -> Part]
  BY <1>1, <1>4, <1>9 DEF TaskInv, TasksInv, IsTask
<1>11. HeldKept({e}, o) /\ Rest(t)' = task
  <2>1. <<"held", t, 0>> \in {e}
    BY <1>1
  <2>2. QED
    BY <1>0, <1>1, <1>2, <1>5, <1>8, <1>10, <2>1, HeldFromQueue
<1>12. /\ o \in Claims /\ TaskOf(o) = task /\ TaskOf(e)' = task
       /\ Sharing(o) => Sharing(e)'
  <2>1. o \in Claims
    BY <1>1, <1>4, <1>9, ClaimsMembers DEF AllClaims, IsClaim
  <2>2. TaskOf(o) = task
    BY <1>1, TaskOfClaim
  <2>3. TaskOf(e)' = task
    BY <1>1, <1>11, TaskOfClaimNext
  <2>4. Sharing(o) => Sharing(e)'
    BY <1>0, <1>1, <1>2, <1>3, SharingKinds, SharingKindsNext
  <2>5. QED
    BY <2>1, <2>2, <2>3, <2>4
<1>13. PartKept({e}, o) /\ JoinKept({e}, o) /\ SkewKept({e}, o) /\ UnmadeKept({e}, o)
  <2>1. PartKept({e}, o) /\ SkewKept({e}, o)
    BY <1>1, <1>2, OneStill
  <2>2. JoinKept({e}, o)
    BY <1>1, <1>4, <1>7, JoinGave
  <2>3. UnmadeKept({e}, o)
    BY <1>0, <1>1, <1>2, <1>8, UnmadeUntouched
  <2>4. QED
    BY <2>1, <2>2, <2>3
<1>14. ClaimsInv'
  <2>1. e \in Claims' =>
          /\ Within(TaskOf(e)', TaskOf(o))
          /\ Sharing(o) => Sharing(e)' /\ TaskOf(e)' = TaskOf(o)
    BY <1>12 DEF Within
  <2>2. left'[0] \in Nat /\ left[0] <= left'[0]
    BY <1>3
  <2>3. QED
    BY <1>2, <1>3, <1>10, <1>11, <1>12, <1>13, <2>1, <2>2, ClaimMoves
<1>15. TasksInv'
  <2>1. \A m \in Nodes : joinQueue'[m].task = joinQueue[m].task
    BY <1>7 DEF Gave
  <2>2. DOMAIN held' = Threads /\ \A u \in Threads : IsTask(held'[u])
    BY <1>5, <1>10 DEF TasksInv
  <2>3. QED
    BY <1>2, <1>4, <1>10, <2>1, <2>2 DEF TasksInv
<1>16. \A u \in Threads : AtPass2(u)' => AtPass2(u) /\ pc'[u] = pc[u] /\ held'[u] = held[u]
  BY <1>0, <1>5, <1>8, <1>10 DEF AtPass2
<1>17. TakenInv' /\ CountsInv'
  BY <1>2, <1>16, TakenFrame, CountsFrame DEF TaskInv
<1>18. MovedInv'
  <2>1. Moved' => Moved
    BY <1>0, <1>2, <1>8 DEF Moved, MovedLabels
  <2>2. QED
    BY <1>2, <2>1, MovedFrame DEF TaskInv
<1>19. QED
  BY <1>14, <1>15, <1>17, <1>18 DEF TaskInv

LEMMA TakePartTaskKeepsTasks ==
  ASSUME QueuesInv, OrderInv, ShapeInv, TaskInv, NEW t \in Threads, TakePartTask(t), Thread(t)
  PROVE  TaskInv'
<1> USE DEF inputs, pass1, skewVars, barrier, Goto
<1>0. pc[t] = "partition" /\ pc'[t] = "cluster" /\ side'[t] = "R" /\ 0 \in Threads
  BY ThreadsFinite DEF TakePartTask, OrderInv
<1>1. PICK n, h, task, e, o :
        /\ n = NumaId(t) /\ h = partQueue[n].head
        /\ task = partQueue[n].task[h] /\ e = <<"held", t, 0>> /\ o = <<"part", n, h>>
  OBVIOUS
<1>2. UNCHANGED <<skew, numNuma, joinQueue, skewQueue, skewtask, counts, offset, output, left, cur>>
  BY DEF TakePartTask
<1>3. left[0] \in Nat /\ left'[0] = left[0] /\ ~(left[0] > 5)
  <2>1. left[0] \in Nat /\ left[0] <= arrived[t] /\ arrived[t] = 5
    BY <1>0 DEF OrderInv, PhaseInv, Phase
  <2>2. QED
    BY <1>2, <2>1
<1>4. n \in Nodes /\ Nodes' = Nodes
  BY <1>0, <1>1, <1>2, NumaIdType DEF QueuesInv, Nodes
<1>5. /\ partQueue[n].count > 0
      /\ held' = [held EXCEPT ![t] = task]
      /\ partQueue' = [partQueue EXCEPT ![n] = AfterGet(partQueue[n])]
  BY <1>0, <1>1 DEF TakePartTask
<1>6. DOMAIN partQueue = Nodes /\ QueueInv(partQueue[n]) /\ partQueue[n].count # 0
  BY <1>4, <1>5, QueueFacts DEF QueuesInv
<1>7. Gave(partQueue[n], partQueue'[n]) /\ \A m \in Nodes : m # n => partQueue'[m] = partQueue[m]
  BY <1>4, <1>5, <1>6, GetGives
<1>8. \A u \in Threads : u # t => pc'[u] = pc[u] /\ side'[u] = side[u]
  BY OthersStay DEF TakePartTask, OrderInv
<1>9. h \in Waiting(partQueue[n]) /\ h \in DOMAIN partQueue[n].task
  BY <1>1, <1>7 DEF Gave
<1>10. ClaimsInv /\ TasksInv /\ IsTask(task) /\ DOMAIN held = Threads /\ task \in [Rel -> Part]
  BY <1>1, <1>4, <1>9 DEF TaskInv, TasksInv, IsTask
<1>11. HeldKept({e}, o) /\ Rest(t)' = task
  <2>1. <<"held", t, 0>> \in {e}
    BY <1>1
  <2>2. QED
    BY <1>0, <1>1, <1>2, <1>5, <1>8, <1>10, <2>1, HeldFromQueue
<1>12. o \in Claims /\ TaskOf(o) = task /\ TaskOf(e)' = task /\ ~Sharing(o)
  <2>1. o \in Claims
    BY <1>1, <1>4, <1>9, ClaimsMembers DEF AllClaims, IsClaim
  <2>2. TaskOf(o) = task
    BY <1>1, TaskOfClaim
  <2>3. TaskOf(e)' = task
    BY <1>1, <1>11, TaskOfClaimNext
  <2>4. ~Sharing(o)
    BY <1>3 DEF Sharing
  <2>5. QED
    BY <2>1, <2>2, <2>3, <2>4
<1>13. PartKept({e}, o) /\ JoinKept({e}, o) /\ SkewKept({e}, o) /\ UnmadeKept({e}, o)
  <2>1. JoinKept({e}, o) /\ SkewKept({e}, o)
    BY <1>1, <1>2, OneStill
  <2>2. PartKept({e}, o)
    BY <1>1, <1>4, <1>7, PartGave
  <2>3. UnmadeKept({e}, o)
    BY <1>0, <1>1, <1>2, <1>8, UnmadeUntouched
  <2>4. QED
    BY <2>1, <2>2, <2>3
<1>14. ClaimsInv'
  <2>1. e \in Claims' =>
          /\ Within(TaskOf(e)', TaskOf(o))
          /\ Sharing(o) => Sharing(e)' /\ TaskOf(e)' = TaskOf(o)
    BY <1>12 DEF Within
  <2>2. left'[0] \in Nat /\ left[0] <= left'[0]
    BY <1>3
  <2>3. QED
    BY <1>2, <1>3, <1>10, <1>11, <1>12, <1>13, <2>1, <2>2, ClaimMoves
<1>15. TasksInv'
  <2>1. \A m \in Nodes : partQueue'[m].task = partQueue[m].task
    BY <1>7 DEF Gave
  <2>2. DOMAIN held' = Threads /\ \A u \in Threads : IsTask(held'[u])
    BY <1>5, <1>10 DEF TasksInv
  <2>3. QED
    BY <1>2, <1>4, <1>10, <2>1, <2>2 DEF TasksInv
<1>16. \A m \in Nodes : \A s \in Waiting(partQueue'[m]) :
         /\ s \in Waiting(partQueue[m]) /\ partQueue'[m].task[s] = partQueue[m].task[s]
         /\ m # n \/ s # h
  BY <1>1, <1>7 DEF Gave
<1>17. \A u \in Threads : u # t /\ AtPass2(u)' =>
         AtPass2(u) /\ pc'[u] = pc[u] /\ side'[u] = side[u] /\ held'[u] = held[u]
  BY <1>5, <1>8, <1>10 DEF AtPass2
<1>18. held'[t] = task
  BY <1>5, <1>10
<1>19. TakenInv'
  <2>1. ASSUME NEW u \in Threads, u # t, AtPass2(u)'
        PROVE  Apart(held[u], task) /\ Apart(task, held[u])
    <3>1. Apart(held[u], task)
      BY <1>1, <1>4, <1>9, <1>17, <2>1 DEF TaskInv, TakenInv
    <3>2. QED
      BY <3>1, ApartWithin
  <2>2. ASSUME NEW m \in Nodes, NEW s \in Waiting(partQueue'[m])
        PROVE  Apart(task, partQueue'[m].task[s])
    <3>1. PICK d : d = <<"part", m, s>>
      OBVIOUS
    <3>2. d \in Claims /\ d # o
      BY <1>1, <1>16, <2>2, <3>1, ClaimsMembers DEF AllClaims, IsClaim
    <3>3. TaskOf(d) = partQueue'[m].task[s]
      BY <1>16, <2>2, <3>1, TaskOfClaim
    <3>4. QED
      BY <1>10, <1>12, <3>2, <3>3 DEF ClaimsInv
  <2>3. ASSUME NEW u \in Threads, AtPass2(u)'
        PROVE  /\ \A v \in Threads : v # u /\ AtPass2(v)' => Apart(held'[u], held'[v])
               /\ \A m \in Nodes : \A s \in Waiting(partQueue'[m]) : Apart(held'[u], partQueue'[m].task[s])
    <3>1. CASE u = t
      BY <1>17, <1>18, <2>1, <2>2, <3>1
    <3>2. CASE u # t
      <4>1. held'[u] = held[u] /\ AtPass2(u)
        BY <1>17, <2>3, <3>2
      <4>2. ASSUME NEW v \in Threads, v # u, AtPass2(v)'
            PROVE  Apart(held'[u], held'[v])
        <5>1. CASE v = t
          BY <1>18, <2>1, <2>3, <3>2, <4>1, <5>1
        <5>2. CASE v # t
          BY <1>17, <4>1, <4>2, <5>2 DEF TaskInv, TakenInv
        <5>3. QED
          BY <5>1, <5>2
      <4>3. QED
        BY <1>16, <4>1, <4>2 DEF TaskInv, TakenInv
    <3>3. QED
      BY <3>1, <3>2
  <2>4. QED
    BY <1>4, <2>3 DEF TakenInv
<1>20. CountsInv'
  <2>1. CountsInv
    BY DEF TaskInv
  <2>2. DOMAIN counts = Threads /\ DOMAIN offset = Threads
        /\ \A u \in Threads : DOMAIN counts[u] = Rel /\ DOMAIN offset[u] = Rel
    BY <2>1 DEF CountsInv
  <2>3. QED
    BY <1>0, <1>2, <1>17, <2>1, <2>2, CountsOthers
<1>21. MovedInv'
  <2>1. Moved' => Moved
    BY <1>0, <1>2, <1>8 DEF Moved, MovedLabels
  <2>2. NumaId(0) \in Nodes
    BY <1>0, NumaIdType DEF QueuesInv
  <2>3. Waiting(partQueue'[NumaId(0)]) \subseteq Waiting(partQueue[NumaId(0)])
    BY <1>16, <2>2
  <2>4. QED
    BY <1>2, <2>1, <2>3, MovedFrame DEF TaskInv
<1>22. QED
  BY <1>14, <1>15, <1>19, <1>20, <1>21 DEF TaskInv

-----------------------------------------------------------------------------
(* A thread clusters its task and makes join tasks of the clusters.        *)

(* Where the cluster at hand ends, and what is behind it. *)
ClusterEnd(t) == [x \in Rel |-> offset[t][x] + counts[t][x][cur[t]]]
BehindCluster(t) == [x \in Rel |-> From2(held[t][x], ClusterEnd(t)[x])]

DividedAt(t, x, at, c) ==
  \E digit \in [Positions(held[t][x]) -> 0 .. (FanOut2 - 1)] :
    /\ counts[t][x] = Sizes(digit, Positions(held[t][x]))
    /\ at = Below(digit, Positions(held[t][x]), c)

(* The next cluster of the task and what is behind it are apart parts of   *)
(* what was left.                                                          *)
LEMMA HeldCluster ==
  ASSUME TasksInv, CountsInv, NEW t \in Threads, pc[t] \in {"emit", "add"}, cur[t] < FanOut2,
         NEW task, task = Pass2Task(t, cur[t])
  PROVE  /\ IsTask(task) /\ Within(task, Rest(t))
         /\ Within(BehindCluster(t), Rest(t)) /\ Apart(task, BehindCluster(t))
         /\ cur[t] \in Nat /\ cur[t] + 1 \in 0 .. FanOut2
         /\ \A x \in Rel : DividedAt(t, x, ClusterEnd(t)[x], cur[t] + 1)
<1> PICK c, after, next : c = cur[t] /\ after = ClusterEnd(t) /\ next = BehindCluster(t)
  OBVIOUS
<1>0. /\ c = cur[t] /\ after = ClusterEnd(t) /\ next = BehindCluster(t)
      /\ \A x \in Rel : after[x] = offset[t][x] + counts[t][x][c]
      /\ \A x \in Rel : next[x] = From2(held[t][x], after[x])
  BY DEF ClusterEnd, BehindCluster
<1>1. FanOut2 \in Nat /\ SmallPaddingTuples = 0
  BY FanOutTypes
<1>2. c \in 0 .. (FanOut2 - 1) /\ c \in Nat /\ c + 1 \in 0 .. FanOut2 /\ c + 1 \in Nat /\ c + 1 <= FanOut2
  BY <1>0, <1>1 DEF CountsInv
<1>3. ASSUME NEW x \in Rel
      PROVE  /\ IsPart(task[x]) /\ task[x] \in Part /\ task[x].at + task[x].num <= Size(x)
             /\ Positions(task[x]) \subseteq Positions(Rest(t)[x])
             /\ Positions(next[x]) \subseteq Positions(Rest(t)[x])
             /\ Positions(task[x]) \cap Positions(next[x]) = {}
             /\ DividedAt(t, x, after[x], c + 1)
  <2>1. Divided(t, x)
    BY DEF CountsInv
  <2>2. PICK digit \in [Positions(held[t][x]) -> 0 .. (FanOut2 - 1)] :
          /\ counts[t][x] = Sizes(digit, Positions(held[t][x]))
          /\ offset[t][x] = Below(digit, Positions(held[t][x]), c)
    BY <1>0, <2>1 DEF Divided
  <2>3. PICK part, P, i, j : /\ part = held[t][x] /\ P = Positions(held[t][x])
                             /\ i = Below(digit, P, c) /\ j = Below(digit, P, c + 1)
    OBVIOUS
  <2>4. IsPart(part) /\ part.at + part.num <= Size(x) /\ Size(x) \in Nat
    BY <2>3, RadixJoinAssumption DEF TasksInv, IsTask, Part, IsPart, Size
  <2>5. P \in SUBSET Int /\ IsFiniteSet(P) /\ Cardinality(P) = part.num
    BY <2>3, <2>4, PositionsFacts
  <2>6. \A p \in P : digit[p] \in 0 .. (FanOut2 - 1)
    BY <2>2, <2>3
  <2>7. /\ i \in Nat /\ j \in Nat /\ j = i + Cardinality({p \in P : digit[p] = c})
        /\ i <= j /\ j <= Below(digit, P, FanOut2) /\ Below(digit, P, FanOut2) = part.num
    <3>1. /\ \A d \in Nat : Below(digit, P, d) \in Nat
          /\ \A d \in Nat : Below(digit, P, d + 1) = Below(digit, P, d) + Cardinality({p \in P : digit[p] = d})
          /\ \A d, f \in Nat : d <= f => Below(digit, P, d) <= Below(digit, P, f)
          /\ Below(digit, P, FanOut2) = Cardinality(P)
      <4>1. PICK F \in Nat : F = FanOut2
        BY <1>1
      <4>2. \A p \in P : digit[p] \in 0 .. (F - 1)
        BY <2>6, <4>1
      <4>3. /\ \A d \in Nat : Below(digit, P, d) \in Nat
            /\ \A d \in Nat : Below(digit, P, d + 1) = Below(digit, P, d) + Cardinality({p \in P : digit[p] = d})
            /\ \A d, f \in Nat : d <= f => Below(digit, P, d) <= Below(digit, P, f)
            /\ Below(digit, P, F) = Cardinality(P)
        BY <2>5, <4>2, BelowFacts
      <4>4. QED
        BY <4>1, <4>3
    <3>2. c <= c + 1
      BY <1>2
    <3>3. QED
      BY <1>1, <1>2, <2>3, <2>5, <3>1, <3>2
  <2>8. counts[t][x][c] = Cardinality({p \in P : digit[p] = c}) /\ offset[t][x] = i
    BY <1>2, <2>2, <2>3 DEF Sizes
  <2>9. after[x] = j /\ Cardinality({p \in P : digit[p] = c}) \in Int
    <3>1. Cardinality({p \in P : digit[p] = c}) \in Nat
      <4>1. {p \in P : digit[p] = c} \in SUBSET P
        OBVIOUS
      <4>2. QED
        BY <2>5, <4>1, FS_Subset, FS_CardinalityType
    <3>2. QED
      BY <1>0, <2>7, <2>8, <3>1
  <2>10. PICK a, n \in Nat : a = part.at /\ n = part.num
    BY <2>4 DEF IsPart
  <2>11. task[x] = [at |-> a + i, num |-> j - i]
    <3>1. task[x] = [at |-> held[t][x].at + offset[t][x] + c * SmallPaddingTuples, num |-> counts[t][x][c]]
      BY <1>0 DEF Pass2Task
    <3>2. a + i + c * SmallPaddingTuples = a + i
      BY <1>1, <1>2, <2>7
    <3>3. counts[t][x][c] = j - i
      BY <2>7, <2>8, <2>9
    <3>4. QED
      BY <2>3, <2>8, <2>10, <3>1, <3>2, <3>3
  <2>12. /\ IsPart(task[x]) /\ task[x].at + task[x].num <= part.at + part.num
         /\ Positions(task[x]) \subseteq Positions(From2(part, i))
         /\ Positions(From2(part, j)) \subseteq Positions(From2(part, i))
         /\ Positions(task[x]) \cap Positions(From2(part, j)) = {}
    <3>1. PICK now : now = task[x]
      OBVIOUS
    <3>2. now.at = part.at + i /\ now.num = j - i /\ j <= part.num /\ i \in Nat /\ j \in Nat /\ i <= j
      BY <2>7, <2>10, <2>11, <3>1
    <3>3. QED
      BY <2>4, <3>1, <3>2, SplitPart
  <2>13. Rest(t)[x] = From2(part, i) /\ next[x] = From2(part, j)
    BY <1>0, <2>3, <2>8, <2>9 DEF Rest, From2
  <2>14. task[x] \in Part /\ task[x].at + task[x].num <= Size(x)
    BY <2>4, <2>11, <2>12 DEF Part, IsPart
  <2>15. QED
    <3>1. DividedAt(t, x, after[x], c + 1)
      BY <2>2, <2>3, <2>9 DEF DividedAt
    <3>2. QED
      BY <2>3, <2>12, <2>13, <2>14, <3>1
<1>4. IsTask(task)
  BY <1>3 DEF IsTask, Pass2Task
<1>5. QED
  BY <1>0, <1>2, <1>3, <1>4 DEF Within, Apart

(* After a cluster the next one. *)
LEMMA ClusterDone ==
  ASSUME TasksInv, CountsInv, ShapeInv, NEW t \in Threads, pc[t] \in {"emit", "add"}, cur[t] < FanOut2,
         NEW task, task = Pass2Task(t, cur[t]), NextCluster(t), pc'[t] = "emit",
         held' = held, counts' = counts
  PROVE  /\ IsTask(task) /\ Within(task, Rest(t)) /\ Within(Rest(t)', Rest(t)) /\ Apart(task, Rest(t)')
         /\ cur'[t] \in 0 .. FanOut2 /\ \A x \in Rel : Divided(t, x)'
<1>1. /\ IsTask(task) /\ Within(task, Rest(t))
      /\ Within(BehindCluster(t), Rest(t)) /\ Apart(task, BehindCluster(t))
      /\ cur[t] \in Nat /\ cur[t] + 1 \in 0 .. FanOut2
      /\ \A x \in Rel : DividedAt(t, x, ClusterEnd(t)[x], cur[t] + 1)
  BY HeldCluster
<1>2. offset'[t] = ClusterEnd(t) /\ cur'[t] = cur[t] + 1
  BY DEF NextCluster, CountsInv, ShapeInv, ClusterEnd
<1>3. Rest(t)' = BehindCluster(t)
  BY <1>2 DEF Rest, From2, BehindCluster
<1>4. ASSUME NEW x \in Rel
      PROVE  Divided(t, x)'
  BY <1>1, <1>2 DEF Divided, DividedAt
<1>5. QED
  BY <1>1, <1>2, <1>3, <1>4

(* A thread that works on its task, and nobody else on it. *)
LEMMA WorkerKeepsRest ==
  ASSUME TaskInv, NEW t \in Threads, AtPass2(t), AtPass2(t)',
         \A u \in Threads : u # t => pc'[u] = pc[u],
         UNCHANGED <<skew, numNuma, partQueue, skewQueue, skewtask, held, left>>,
         0 \in Threads
  PROVE  TakenInv' /\ MovedInv'
<1>1. \A u \in Threads : AtPass2(u)' => AtPass2(u) /\ held'[u] = held[u]
  BY DEF AtPass2
<1>2. TakenInv'
  BY <1>1, TakenFrame DEF TaskInv
<1>3. Moved' => Moved
  BY DEF Moved, MovedLabels, AtPass2
<1>4. MovedInv'
  BY <1>3, MovedFrame DEF TaskInv
<1>5. QED
  BY <1>2, <1>4

LEMMA SkipClusterKeepsTasks ==
  ASSUME QueuesInv, OrderInv, ShapeInv, TaskInv, NEW t \in Threads, SkipCluster(t), Thread(t)
  PROVE  TaskInv'
<1> USE DEF inputs, pass1, queues, skewVars, barrier
<1>0. pc[t] = "emit" /\ pc' = pc /\ cur[t] < FanOut2 /\ NextCluster(t) /\ 0 \in Threads
  BY ThreadsFinite DEF SkipCluster
<1>1. PICK e, task : e = <<"held", t, 0>> /\ task = Pass2Task(t, cur[t])
  OBVIOUS
<1>2. UNCHANGED <<skew, numNuma, partQueue, joinQueue, skewQueue, skewtask, counts, held, output, left, side>>
  BY DEF SkipCluster
<1>3. left[0] \in Nat /\ left'[0] \in Nat /\ left[0] <= left'[0]
  BY <1>0, <1>2 DEF OrderInv, PhaseInv, Phase
<1>4. ClaimsInv /\ TasksInv /\ CountsInv
  BY DEF TaskInv
<1>5. /\ Within(Rest(t)', Rest(t))
      /\ cur'[t] \in 0 .. FanOut2 /\ \A x \in Rel : Divided(t, x)'
  BY <1>0, <1>1, <1>2, <1>4, ClusterDone
<1>6. \A u \in Threads : u # t => cur'[u] = cur[u] /\ offset'[u] = offset[u]
  BY <1>0, <1>4 DEF NextCluster, CountsInv, ShapeInv
<1>7. e \in Claims /\ TaskOf(e) = Rest(t) /\ TaskOf(e)' = Rest(t)' /\ ~Sharing(e)
  <2>1. t \in Working
    BY <1>0 DEF Working
  <2>2. QED
    BY <1>0, <1>1, <2>1, ClaimsMembers, TaskOfClaim, TaskOfClaimNext, SharingKinds DEF AllClaims, IsClaim
<1>8. PartKept({e}, e) /\ JoinKept({e}, e) /\ SkewKept({e}, e) /\ HeldKept({e}, e) /\ UnmadeKept({e}, e)
  <2>1. PartKept({e}, e) /\ JoinKept({e}, e) /\ SkewKept({e}, e)
    BY <1>1, <1>2, OneStill
  <2>2. HeldKept({e}, e)
    <3>1. <<"held", t, 0>> \in {e} /\ \A u \in Threads : u # t => pc'[u] = pc[u] /\ held'[u] = held[u] /\ offset'[u] = offset[u]
      BY <1>0, <1>1, <1>2, <1>6
    <3>2. QED
      BY <1>1, <3>1, HeldStill
  <2>3. UnmadeKept({e}, e)
    <3>1. (pc'[0] = pc[0] /\ cur'[0] = cur[0]) \/ pc'[0] = "emit"
      BY <1>0, <1>6
    <3>2. QED
      BY <1>1, <1>2, <3>1, UnmadeUntouched
  <2>4. QED
    BY <2>1, <2>2, <2>3
<1>9. ClaimsInv'
  BY <1>2, <1>3, <1>4, <1>5, <1>7, <1>8, ClaimMoves
<1>10. TasksInv'
  BY <1>2, <1>4 DEF TasksInv, Nodes, IsTask, Size
<1>11. CountsInv'
  <2>1. DOMAIN counts' = Threads /\ \A u \in Threads : DOMAIN counts'[u] = Rel
    BY <1>2, <1>4 DEF CountsInv
  <2>2. DOMAIN offset' = Threads /\ \A u \in Threads : DOMAIN offset'[u] = Rel
    BY <1>0, <1>4 DEF CountsInv, NextCluster
  <2>3. QED
    BY <1>0, <1>2, <1>4, <1>5, <1>6, <2>1, <2>2, CountsOthers
<1>12. TakenInv' /\ MovedInv'
  BY <1>0, <1>2, WorkerKeepsRest DEF AtPass2
<1>13. QED
  BY <1>9, <1>10, <1>11, <1>12 DEF TaskInv

LEMMA GetJoinSlotKeepsTasks ==
  ASSUME QueuesInv, OrderInv, ShapeInv, TaskInv, NEW t \in Threads, GetJoinSlot(t), Thread(t)
  PROVE  TaskInv'
<1> USE DEF inputs, pass1, skewVars, barrier, Goto
<1>0. pc[t] = "emit" /\ pc'[t] = "add" /\ cur[t] < FanOut2 /\ 0 \in Threads
  BY ThreadsFinite DEF GetJoinSlot, OrderInv
<1>1. PICK n, N, o : n = NumaId(t) /\ N = {} /\ o = Nothing
  OBVIOUS
<1>2. UNCHANGED <<skew, numNuma, partQueue, skewQueue, skewtask, counts, held, offset, output, left, side, cur>>
  BY DEF GetJoinSlot
<1>3. left[0] \in Nat /\ left'[0] \in Nat /\ left[0] <= left'[0]
  BY <1>0, <1>2 DEF OrderInv, PhaseInv, Phase
<1>4. ClaimsInv /\ TasksInv /\ CountsInv
  BY DEF TaskInv
<1>5. n \in Nodes /\ Nodes' = Nodes
  BY <1>0, <1>1, <1>2, NumaIdType DEF QueuesInv, Nodes
<1>6. /\ Waiting(joinQueue'[n]) = Waiting(joinQueue[n]) /\ joinQueue'[n].task = joinQueue[n].task
      /\ \A m \in Nodes : m # n => joinQueue'[m] = joinQueue[m]
  <2>1. joinQueue' = [joinQueue EXCEPT ![n] = AfterGetSlot(joinQueue[n])]
    BY <1>1 DEF GetJoinSlot
  <2>2. DOMAIN joinQueue = Nodes /\ QueueInv(joinQueue[n])
    BY <1>5 DEF QueuesInv
  <2>3. joinQueue'[n] = AfterGetSlot(joinQueue[n])
    BY <1>5, <2>1, <2>2
  <2>4. Waiting(AfterGetSlot(joinQueue[n])) = Waiting(joinQueue[n]) /\ AfterGetSlot(joinQueue[n]).task = joinQueue[n].task
    BY <2>2, GetSlotCorrect
  <2>5. QED
    BY <1>5, <2>1, <2>2, <2>3, <2>4
<1>7. \A u \in Threads : u # t => pc'[u] = pc[u]
  BY OthersStay
<1>8. PartKept(N, o) /\ JoinKept(N, o) /\ SkewKept(N, o) /\ HeldKept(N, o) /\ UnmadeKept(N, o)
  <2>1. PartKept(N, o) /\ SkewKept(N, o)
    BY <1>1, <1>2, OneStill DEF Nothing
  <2>2. JoinKept(N, o)
    BY <1>1, <1>6 DEF JoinKept, Nothing
  <2>3. HeldKept(N, o)
    <3>1. SUFFICES ASSUME NEW u \in Threads, u \in Working'
                   PROVE  u \in Working /\ Rest(u)' = Rest(u) /\ (pc[u] = "join" => pc'[u] = "join")
      BY <1>1 DEF HeldKept, Nothing
    <3>2. pc'[u] = pc[u] \/ (pc[u] \in {"emit", "add"} /\ pc'[u] \in {"emit", "add"})
      BY <1>0, <1>7
    <3>3. QED
      BY <1>2, <3>1, <3>2, RestStill DEF Working
  <2>4. UnmadeKept(N, o)
    <3>1. (pc'[0] = pc[0] /\ cur'[0] = cur[0]) \/ pc'[0] = "add"
      BY <1>0, <1>2, <1>7
    <3>2. QED
      BY <1>1, <1>2, <3>1, UnmadeUntouched DEF Nothing
  <2>5. QED
    BY <2>1, <2>2, <2>3, <2>4
<1>9. ClaimsInv'
  <2>1. \A d \in Claims' : d \notin N
    BY <1>1
  <2>2. QED
    BY <1>2, <1>3, <1>4, <1>8, <2>1, ClaimsStep
<1>10. TasksInv'
  <2>1. \A m \in Nodes : joinQueue'[m].task = joinQueue[m].task
    BY <1>6
  <2>2. QED
    BY <1>2, <1>4, <1>5, <2>1 DEF TasksInv
<1>11. CountsInv'
  <2>1. cur'[t] \in 0 .. FanOut2 /\ cur'[t] < FanOut2
    BY <1>0, <1>2, <1>4 DEF CountsInv
  <2>2. \A x \in Rel : Divided(t, x)'
    BY <1>0, <1>2, <1>4 DEF CountsInv, Divided
  <2>3. \A u \in Threads : DOMAIN counts[u] = Rel /\ DOMAIN offset[u] = Rel
    BY <1>4 DEF CountsInv
  <2>4. DOMAIN counts = Threads /\ DOMAIN offset = Threads
    BY <1>4 DEF CountsInv
  <2>5. QED
    BY <1>0, <1>2, <1>4, <1>7, <2>1, <2>2, <2>3, <2>4, CountsOthers
<1>12. TakenInv' /\ MovedInv'
  BY <1>0, <1>2, <1>7, WorkerKeepsRest DEF AtPass2
<1>13. QED
  BY <1>9, <1>10, <1>11, <1>12 DEF TaskInv

LEMMA AddJoinTaskKeepsTasks ==
  ASSUME QueuesInv, OrderInv, ShapeInv, TaskInv, NEW t \in Threads, AddJoinTask(t), Thread(t)
  PROVE  TaskInv'
<1> USE DEF inputs, pass1, skewVars, barrier, Goto
<1>0. pc[t] = "add" /\ pc'[t] = "emit" /\ NextCluster(t) /\ 0 \in Threads
  BY ThreadsFinite DEF AddJoinTask, OrderInv
<1>1. PICK n, s, task, o, e :
        /\ n = NumaId(t) /\ s = slot[t] /\ task = Pass2Task(t, cur[t])
        /\ o = <<"held", t, 0>> /\ e = <<"join", n, s>>
  OBVIOUS
<1>2. UNCHANGED <<skew, numNuma, partQueue, skewQueue, skewtask, counts, held, output, left, side>>
  BY DEF AddJoinTask
<1>3. left[0] \in Nat /\ left'[0] \in Nat /\ left[0] <= left'[0]
  BY <1>0, <1>2 DEF OrderInv, PhaseInv, Phase
<1>4. ClaimsInv /\ TasksInv /\ CountsInv
  BY DEF TaskInv
<1>5. /\ IsTask(task) /\ Within(task, Rest(t)) /\ Within(Rest(t)', Rest(t)) /\ Apart(task, Rest(t)')
      /\ cur'[t] \in 0 .. FanOut2 /\ \A x \in Rel : Divided(t, x)'
  <2>1. cur[t] < FanOut2
    BY <1>0, <1>4 DEF CountsInv
  <2>2. QED
    BY <1>0, <1>1, <1>2, <1>4, <2>1, ClusterDone
<1>6. \A u \in Threads : u # t => pc'[u] = pc[u] /\ cur'[u] = cur[u] /\ offset'[u] = offset[u]
  BY <1>0, <1>4, OthersStay DEF NextCluster, CountsInv, ShapeInv
<1>7. n \in Nodes /\ Nodes' = Nodes
  BY <1>0, <1>1, <1>2, NumaIdType DEF QueuesInv, Nodes
<1>8. Took(joinQueue[n], joinQueue'[n], s, task) /\ \A m \in Nodes : m # n => joinQueue'[m] = joinQueue[m]
  <2>1. joinQueue' = [joinQueue EXCEPT ![n] = AfterAdd(joinQueue[n], s, task)]
    BY <1>1 DEF AddJoinTask
  <2>2. DOMAIN joinQueue = Nodes /\ QueueInv(joinQueue[n])
    BY <1>7 DEF QueuesInv
  <2>3. s \in 1 .. joinQueue[n].curr /\ s \notin DOMAIN joinQueue[n].next
    BY <1>0, <1>1 DEF QueuesInv, SlotHeld
  <2>4. joinQueue'[n] = AfterAdd(joinQueue[n], s, task)
    BY <1>7, <2>1, <2>2
  <2>5. QED
    BY <1>7, <2>1, <2>2, <2>3, <2>4, AddTakes
<1>9. /\ o \in Claims /\ TaskOf(o) = Rest(t) /\ TaskOf(o)' = Rest(t)' /\ ~Sharing(o)
      /\ TaskOf(e)' = task /\ o # e
  <2>1. t \in Working
    BY <1>0 DEF Working
  <2>2. TaskOf(e)' = task
    BY <1>1, <1>8, TaskOfClaimNext DEF Took
  <2>3. QED
    BY <1>0, <1>1, <2>1, <2>2, ClaimsMembers, TaskOfClaim, TaskOfClaimNext, SharingKinds DEF AllClaims, IsClaim
<1>10. PICK N : N = {o, e}
  OBVIOUS
<1>11. PartKept(N, o) /\ JoinKept(N, o) /\ SkewKept(N, o) /\ HeldKept(N, o) /\ UnmadeKept(N, o)
  <2>1. PartKept(N, o) /\ SkewKept(N, o)
    BY <1>1, <1>2, OneStill
  <2>2. JoinKept(N, o)
    <3>1. <<"join", n, s>> \in N
      BY <1>1, <1>10
    <3>2. QED
      BY <1>1, <1>7, <1>8, <3>1, JoinTook
  <2>3. HeldKept(N, o)
    <3>1. <<"held", t, 0>> \in N /\ \A u \in Threads : u # t => pc'[u] = pc[u] /\ held'[u] = held[u] /\ offset'[u] = offset[u]
      BY <1>1, <1>2, <1>6, <1>10
    <3>2. QED
      BY <1>1, <3>1, HeldStill
  <2>4. UnmadeKept(N, o)
    <3>1. (pc'[0] = pc[0] /\ cur'[0] = cur[0]) \/ pc'[0] = "emit"
      BY <1>0, <1>6
    <3>2. QED
      BY <1>1, <1>2, <3>1, UnmadeUntouched
  <2>5. QED
    BY <2>1, <2>2, <2>3, <2>4
<1>12. ClaimsInv'
  <2>1. ASSUME NEW d \in Claims', d \in N
        PROVE  /\ o \in Claims /\ Within(TaskOf(d)', TaskOf(o))
               /\ Sharing(o) => Sharing(d)' /\ TaskOf(d)' = TaskOf(o)
    BY <1>5, <1>9, <1>10, <2>1
  <2>2. ASSUME NEW d \in Claims', NEW f \in Claims', d \in N, f \in N, d # f
        PROVE  Apart(TaskOf(d)', TaskOf(f)')
    <3>1. (d = o /\ f = e) \/ (d = e /\ f = o)
      BY <1>10, <2>2
    <3>2. Apart(Rest(t)', task)
      BY <1>5, ApartWithin
    <3>3. QED
      BY <1>5, <1>9, <3>1, <3>2
  <2>3. QED
    BY <1>2, <1>3, <1>4, <1>11, <2>1, <2>2, ClaimsStep
<1>13. TasksInv'
  <2>1. \A m \in Nodes : \A r \in DOMAIN joinQueue'[m].task : IsTask(joinQueue'[m].task[r])
    BY <1>4, <1>5, <1>8, TookIsTask DEF TasksInv
  <2>2. QED
    BY <1>2, <1>4, <1>7, <2>1 DEF TasksInv
<1>14. CountsInv'
  <2>1. DOMAIN counts' = Threads /\ \A u \in Threads : DOMAIN counts'[u] = Rel
    BY <1>2, <1>4 DEF CountsInv
  <2>2. DOMAIN offset' = Threads /\ \A u \in Threads : DOMAIN offset'[u] = Rel
    BY <1>0, <1>4 DEF CountsInv, NextCluster
  <2>3. QED
    BY <1>0, <1>2, <1>4, <1>5, <1>6, <2>1, <2>2, CountsOthers
<1>15. TakenInv' /\ MovedInv'
  BY <1>0, <1>2, <1>6, WorkerKeepsRest DEF AtPass2
<1>16. QED
  BY <1>12, <1>13, <1>14, <1>15 DEF TaskInv

(* While a thread clusters its task the temporary arrays hold the tuples   *)
(* that the first pass has put there.                                      *)
LEMMA ClusterSource ==
  ASSUME OrderInv, InputInv, ShapeInv, TasksInv, Parallel, NEW t \in Threads, pc[t] = "cluster",
         NEW x \in Rel, NEW digit, digit = Digits(x, tmp[x], Positions(held[t][x]), Bits1, FanOut2)
  PROVE  digit \in [Positions(held[t][x]) -> 0 .. (FanOut2 - 1)]
<1>1. left[0] >= 4 /\ \A u \in Threads : ~Joining(pc[u])
  <2>1. left[t] = 5 /\ arrived[t] = 5
    BY DEF OrderInv, PhaseInv, Phase
  <2>2. \A u \in Threads : left[u] <= 5 /\ 5 <= arrived[u]
    BY <2>1 DEF OrderInv
  <2>3. \A u \in Threads : Phase(u, pc[u], side[u], left[u], arrived[u])
    BY DEF OrderInv, PhaseInv
  <2>4. ASSUME NEW u \in Threads, Joining(pc[u]) PROVE FALSE
    BY <2>2, <2>3, <2>4 DEF Phase, Joining
  <2>5. left[0] >= 4
    BY <2>2, <2>3, ThreadsFinite DEF Phase
  <2>6. QED
    BY <2>4, <2>5
<1>2. \A i \in 0 .. (Size(x) - 1) : tmp[x][i] \in 0 .. (Size(x) - 1)
  BY <1>1 DEF InputInv
<1>3. Positions(held[t][x]) \subseteq 0 .. (Size(x) - 1)
  <2>1. PICK a, n \in Nat : a = held[t][x].at /\ n = held[t][x].num /\ a + n <= Size(x)
    BY DEF TasksInv, IsTask, Part
  <2>2. Size(x) \in Nat
    BY RadixJoinAssumption DEF Size
  <2>3. Positions(held[t][x]) = a .. (a + n - 1)
    BY <2>1 DEF Positions
  <2>4. QED
    BY <2>1, <2>2, <2>3
<1>4. ASSUME NEW p \in Positions(held[t][x])
      PROVE  Digit(key[x][tmp[x][p]], Bits1, FanOut2) \in 0 .. (FanOut2 - 1)
  <2>1. key[x][tmp[x][p]] \in Nat
    BY <1>2, <1>3, <1>4, RadixJoinAssumption DEF ShapeInv
  <2>2. QED
    BY <2>1, DigitType, FanOutTypes, RadixAssumption
<1>5. QED
  BY <1>4 DEF Digits

LEMMA ClusterRelationKeepsTasks ==
  ASSUME QueuesInv, OrderInv, InputInv, ShapeInv, Parallel, TaskInv,
         NEW t \in Threads, ClusterRelation(t), Thread(t)
  PROVE  TaskInv'
<1> USE DEF inputs, pass1, queues, skewVars, barrier, Goto
<1>0. pc[t] = "cluster" /\ pc'[t] \in {"cluster", "emit"} /\ 0 \in Threads
  BY ThreadsFinite DEF ClusterRelation, OrderInv
<1>1. PICK x, P, digit, e :
        /\ x = side[t] /\ P = Positions(held[t][x])
        /\ digit = Digits(x, tmp[x], P, Bits1, FanOut2) /\ e = <<"held", t, 0>>
  OBVIOUS
<1>2. /\ UNCHANGED <<skew, numNuma, partQueue, joinQueue, skewQueue, skewtask, held, output, left>>
      /\ counts' = [counts EXCEPT ![t][x] = Sizes(digit, P)]
      /\ IF x = "R" THEN side' = [side EXCEPT ![t] = "S"] /\ UNCHANGED <<pc, cur, offset>>
         ELSE /\ pc' = [pc EXCEPT ![t] = "emit"] /\ cur' = [cur EXCEPT ![t] = 0]
              /\ offset' = [offset EXCEPT ![t] = [y \in Rel |-> 0]] /\ UNCHANGED side
  BY <1>1 DEF ClusterRelation, Sizes
<1>3. left[0] \in Nat /\ left'[0] \in Nat /\ left[0] <= left'[0]
  BY <1>0, <1>2 DEF OrderInv, PhaseInv, Phase
<1>4. ClaimsInv /\ TasksInv /\ CountsInv /\ x \in Rel
  BY <1>1 DEF TaskInv, OrderInv, PhaseInv, Phase
<1>5. \A u \in Threads : u # t =>
        /\ pc'[u] = pc[u] /\ side'[u] = side[u] /\ cur'[u] = cur[u]
        /\ offset'[u] = offset[u] /\ counts'[u] = counts[u]
  BY <1>2, <1>4 DEF OrderInv, ShapeInv, CountsInv
<1>6. /\ DOMAIN counts' = Threads /\ \A u \in Threads : DOMAIN counts'[u] = Rel
      /\ DOMAIN offset' = Threads /\ \A u \in Threads : DOMAIN offset'[u] = Rel
      /\ counts'[t][x] = Sizes(digit, P) /\ \A y \in Rel : y # x => counts'[t][y] = counts[t][y]
  BY <1>2, <1>4 DEF CountsInv
<1>7. digit \in [P -> 0 .. (FanOut2 - 1)]
  BY <1>0, <1>1, <1>4, ClusterSource
<1>8. x = "S" => pc'[t] = "emit" /\ cur'[t] = 0 /\ \A y \in Rel : offset'[t][y] = 0
  BY <1>2, <1>4 DEF OrderInv, ShapeInv, CountsInv
<1>9. x = "R" => pc'[t] = "cluster"
  BY <1>0, <1>2
<1>10. Within(Rest(t)', Rest(t))
  <2>1. ASSUME NEW y \in Rel
        PROVE  Positions(Rest(t)'[y]) \subseteq Positions(Rest(t)[y])
    <3>1. CASE x = "R"
      BY <1>0, <1>2, <1>9, <2>1, <3>1 DEF Rest
    <3>2. CASE x = "S"
      <4>1. PICK a, n \in Nat : a = held[t][y].at /\ n = held[t][y].num
        BY <1>4 DEF TasksInv, IsTask, Part
      <4>2. Rest(t)'[y] = [at |-> a + 0, num |-> n - 0] /\ Rest(t)[y] = held[t][y]
        BY <1>0, <1>2, <1>8, <3>2, <4>1 DEF Rest
      <4>3. QED
        BY <4>1, <4>2 DEF Positions
    <3>3. QED
      BY <1>4, <3>1, <3>2 DEF Rel
  <2>2. QED
    BY <2>1 DEF Within
<1>11. e \in Claims /\ TaskOf(e) = Rest(t) /\ TaskOf(e)' = Rest(t)' /\ ~Sharing(e)
  <2>1. t \in Working
    BY <1>0 DEF Working
  <2>2. QED
    BY <1>0, <1>1, <2>1, ClaimsMembers, TaskOfClaim, TaskOfClaimNext, SharingKinds DEF AllClaims, IsClaim
<1>12. PartKept({e}, e) /\ JoinKept({e}, e) /\ SkewKept({e}, e) /\ HeldKept({e}, e) /\ UnmadeKept({e}, e)
  <2>1. PartKept({e}, e) /\ JoinKept({e}, e) /\ SkewKept({e}, e)
    BY <1>1, <1>2, OneStill
  <2>2. HeldKept({e}, e)
    <3>1. <<"held", t, 0>> \in {e} /\ \A u \in Threads : u # t => pc'[u] = pc[u] /\ held'[u] = held[u] /\ offset'[u] = offset[u]
      BY <1>1, <1>2, <1>5
    <3>2. QED
      BY <1>1, <3>1, HeldStill
  <2>3. UnmadeKept({e}, e)
    <3>1. (pc'[0] = pc[0] /\ cur'[0] = cur[0]) \/ pc'[0] \in {"cluster", "emit"}
      BY <1>0, <1>5
    <3>2. QED
      BY <1>1, <1>2, <3>1, UnmadeUntouched
  <2>4. QED
    BY <2>1, <2>2, <2>3
<1>13. ClaimsInv'
  BY <1>2, <1>3, <1>4, <1>10, <1>11, <1>12, ClaimMoves
<1>14. TasksInv'
  BY <1>2, <1>4 DEF TasksInv, Nodes, IsTask, Size
<1>15. \A y \in Rel : \A d \in [Positions(held[t][y]) -> 0 .. (FanOut2 - 1)] :
         Below(d, Positions(held[t][y]), 0) = 0
  <2>1. ASSUME NEW y \in Rel, NEW d \in [Positions(held[t][y]) -> 0 .. (FanOut2 - 1)]
        PROVE  Below(d, Positions(held[t][y]), 0) = 0
    <3>1. PICK Q : Q = Positions(held[t][y])
      OBVIOUS
    <3>2. IsPart(held[t][y])
      BY <1>4 DEF TasksInv, IsTask, Part, IsPart
    <3>3. Q \in SUBSET Int /\ IsFiniteSet(Q)
      BY <3>1, <3>2, PositionsFacts
    <3>4. \A p \in Q : d[p] \in 0 .. (FanOut2 - 1)
      BY <2>1, <3>1
    <3>5. QED
      BY <3>1, <3>3, <3>4, FanOutTypes, BelowFacts
  <2>2. QED
    BY <2>1
<1>16. Divided(t, x)'
  <2>1. pc'[t] # "cluster" => offset'[t][x] = Below(digit, P, cur'[t])
    BY <1>0, <1>1, <1>4, <1>7, <1>8, <1>9, <1>15 DEF Rel
  <2>2. digit \in [Positions(held'[t][x]) -> 0 .. (FanOut2 - 1)] /\ P = Positions(held'[t][x])
    BY <1>1, <1>2, <1>7
  <2>3. QED
    BY <1>6, <2>1, <2>2 DEF Divided
<1>17. x = "S" => Divided(t, "R")'
  <2>1. SUFFICES ASSUME x = "S" PROVE Divided(t, "R")'
    OBVIOUS
  <2>2. "R" \in Rel /\ Divided(t, "R")
    BY <1>0, <1>1, <1>4, <2>1 DEF CountsInv, Rel
  <2>3. PICK d \in [Positions(held[t]["R"]) -> 0 .. (FanOut2 - 1)] : counts[t]["R"] = Sizes(d, Positions(held[t]["R"]))
    BY <2>2 DEF Divided
  <2>4. /\ counts'[t]["R"] = Sizes(d, Positions(held'[t]["R"]))
        /\ d \in [Positions(held'[t]["R"]) -> 0 .. (FanOut2 - 1)]
        /\ offset'[t]["R"] = Below(d, Positions(held'[t]["R"]), cur'[t])
    BY <1>2, <1>6, <1>8, <1>15, <2>1, <2>2, <2>3
  <2>5. QED
    BY <2>4 DEF Divided
<1>18. CountsInv'
  <2>1. pc'[t] = "cluster" /\ side'[t] = "S" => Divided(t, "R")'
    BY <1>1, <1>4, <1>8, <1>16 DEF Rel
  <2>2. pc'[t] = "emit" => cur'[t] \in 0 .. FanOut2 /\ \A y \in Rel : Divided(t, y)'
    BY <1>4, <1>8, <1>9, <1>16, <1>17, FanOutTypes DEF Rel
  <2>3. QED
    BY <1>0, <1>2, <1>4, <1>5, <1>6, <2>1, <2>2, CountsOthers
<1>19. TakenInv' /\ MovedInv'
  BY <1>0, <1>2, <1>5, WorkerKeepsRest DEF AtPass2
<1>20. QED
  BY <1>13, <1>14, <1>18, <1>19 DEF TaskInv

-----------------------------------------------------------------------------

LEMMA TaskInvStep == PartitionInv /\ TaskInv /\ [Next]_vars => TaskInv'
<1>1. SUFFICES ASSUME PartitionInv, TaskInv, [Next]_vars PROVE TaskInv'
  OBVIOUS
<1>2. QueuesInv /\ OrderInv /\ ShapeInv /\ SkewInv /\ InputInv /\ BoundaryInv
  BY <1>1 DEF PartitionInv
<1>3. 0 \in Threads /\ left[0] \in Nat
  BY <1>2, ThreadsFinite DEF OrderInv, PhaseInv, Phase
<1>4. ASSUME NEW t \in Threads, Thread(t)
      PROVE  TaskInv'
  <2>1. Parallel
    BY <1>2, <1>4, ThreadParallel
  <2>2. left'[0] \in Nat /\ left[0] <= left'[0]
    <3>1. OrderInv' /\ Moves(t)
      BY <1>2, <1>4, OrderStep
    <3>2. left'[0] = left[0] \/ left'[0] = left[0] + 1
      BY <1>2, <1>3, <3>1 DEF Moves, Frame, Arrives, Leaves, Stays, OrderInv
    <3>3. QED
      BY <1>3, <3>2
  <2>3. CASE ~Handles(t)
    <3>1. Calm(t)
      BY <1>2, <1>4, <2>3, ThreadCalm
    <3>2. QED
      BY <1>1, <1>2, <2>2, <3>1, CalmKeepsTasks
  <2>4. CASE t = 0 /\ (BeginTasks(t) \/ BeginJoinTasks(t))
    BY <1>1, <1>2, <1>4, <2>1, <2>4, BeginKeepsTasks
  <2>5. CASE CreateTask(t) \/ CreateJoinTask(t)
    BY <1>1, <1>2, <1>4, <2>1, <2>5, CreateTaskKeepsTasks, CreateJoinTaskKeepsTasks
  <2>6. CASE (t = 0 /\ NextSkewTask(t)) \/ MoveLargeTask(t)
    BY <1>1, <1>2, <1>4, <2>6, NextSkewTaskKeepsTasks, MoveLargeTaskKeepsTasks
  <2>7. CASE TakePartTask(t) \/ TakeJoinTask(t)
    BY <1>1, <1>2, <1>4, <2>7, TakePartTaskKeepsTasks, TakeJoinTaskKeepsTasks
  <2>8. CASE ClusterRelation(t)
    BY <1>1, <1>2, <1>4, <2>1, <2>8, ClusterRelationKeepsTasks
  <2>9. CASE GetJoinSlot(t) \/ AddJoinTask(t) \/ SkipCluster(t)
    BY <1>1, <1>2, <1>4, <2>9, GetJoinSlotKeepsTasks, AddJoinTaskKeepsTasks, SkipClusterKeepsTasks
  <2>10. QED
    BY <2>3, <2>4, <2>5, <2>6, <2>7, <2>8, <2>9 DEF Handles
<1>5. ASSUME Main \/ UNCHANGED vars
      PROVE  TaskInv'
  <2>1. PICK t : Calm(t) /\ left' = left
    BY <1>2, <1>5, MainCalm
  <2>2. left'[0] \in Nat /\ left'[0] >= left[0]
    BY <1>3, <2>1
  <2>3. QED
    BY <1>1, <1>2, <2>1, <2>2, CalmKeepsTasks
<1>6. QED
  BY <1>1, <1>4, <1>5 DEF Next, Finished

(* A thread that joins is behind all those of the second pass, and where   *)
(* there is skew handling the pieces of large clusters are join tasks.     *)
LEMMA JoinIsLate ==
  ASSUME OrderInv, MovedInv, NEW t \in Threads, pc[t] = "join"
  PROVE  /\ \A u \in Threads : ~AtPass2(u)
         /\ skew => Waiting(partQueue[NumaId(0)]) = {}
<1>1. \A u \in Threads : /\ Phase(u, pc[u], side[u], left[u], arrived[u]) /\ Announced(u, pc[u], left[u])
                         /\ left[t] <= arrived[u] /\ left[u] <= arrived[t]
  BY DEF OrderInv, PhaseInv
<1>2. /\ left[t] \in Nat /\ left[t] > 5 /\ arrived[t] = left[t] /\ ~Again
      /\ skew => left[t] % 5 = 2
  <2>1. Phase(t, "join", side[t], left[t], arrived[t]) /\ Announced(t, "join", left[t])
    BY <1>1
  <2>2. QED
    BY <2>1 DEF Phase, Announced, Late
<1>3. ASSUME NEW u \in Threads, AtPass2(u)
      PROVE  FALSE
  <2>1. arrived[u] = 5
    BY <1>1, <1>3 DEF Phase, AtPass2
  <2>2. QED
    BY <1>1, <1>2, <2>1
<1>4. ASSUME skew
      PROVE  Moved
  <2>1. PICK k, a, l : k = left[0] /\ a = arrived[0] /\ l = pc[0]
    OBVIOUS
  <2>2. /\ Phase(0, l, side[0], k, a) /\ Announced(0, l, k) /\ left[t] <= a /\ k <= left[t]
    BY <1>1, <1>2, <2>1, ThreadsFinite
  <2>3. k \in Nat /\ (a = k \/ a = k + 1)
    BY <2>2 DEF Phase
  <2>4. (k = left[t]) \/ (a = k + 1 /\ left[t] = k + 1)
    BY <1>2, <2>2, <2>3
  <2>5. k >= 5 /\ ~Again
    BY <1>2, <2>3, <2>4
  <2>6. CASE k = left[t]
    <3>1. k > 5 /\ k % 5 = 2
      BY <1>2, <1>4, <2>6
    <3>2. l \in {"count", "wait_count", "scatter"} => FALSE
      BY <2>2, <2>5, <3>1 DEF Announced, AtSkewed, Counting
    <3>3. l \in MovedLabels \/ l = "undefined"
      BY <2>2, <2>5, <3>1, <3>2, <1>4 DEF Phase, Announced, AtSkewed, Labels, Pass1Labels, Pass2Labels, SkewLabels, JoinLabels, MovedLabels
    <3>4. QED
      BY <2>1, <3>1, <3>3 DEF Moved
  <2>7. CASE a = k + 1 /\ left[t] = k + 1
    <3>1. (k + 1) % 5 = 2
      BY <1>2, <1>4, <2>7
    <3>2. k % 5 = 1
      BY <2>3, <3>1
    <3>3. k > 5
      BY <2>5, <3>2, <2>3
    <3>4. l = "wait_partition"
      BY <2>2, <2>5, <2>7, <3>2, <3>3, <1>4 DEF Phase, Announced, AtSkewed, Labels, Pass1Labels, Pass2Labels, SkewLabels, JoinLabels, Counting, InStage
    <3>5. QED
      BY <2>1, <3>4 DEF Moved, MovedLabels
  <2>8. QED
    BY <2>4, <2>6, <2>7
<1>5. QED
  BY <1>3, <1>4 DEF MovedInv

LEMMA TasksAreApart == PartitionInv /\ TaskInv => TasksApart
<1>1. SUFFICES ASSUME PartitionInv, TaskInv PROVE TasksApart
  OBVIOUS
<1>2. OrderInv /\ ClaimsInv /\ TakenInv /\ MovedInv
  BY <1>1 DEF PartitionInv, TaskInv
<1>3. \A queue, a : a \in OpenTasks(queue) <=> \E n \in Nodes : \E s \in Waiting(queue[n]) : a = <<n, s>>
  BY DEF OpenTasks
<1>4. ASSUME NEW d \in Claims, NEW e \in Claims, d # e
      PROVE  Apart(TaskOf(d), TaskOf(e)) \/ PiecesOfOne(TaskOf(d), TaskOf(e))
  BY <1>2, <1>4 DEF ClaimsInv, Sharing, Pieces, PiecesOfOne
<1>5. ASSUME NEW queue \in {partQueue, joinQueue}, NEW a \in OpenTasks(queue), NEW b \in OpenTasks(queue), a # b
      PROVE  \/ Apart(queue[a[1]].task[a[2]], queue[b[1]].task[b[2]])
             \/ PiecesOfOne(queue[a[1]].task[a[2]], queue[b[1]].task[b[2]])
  <2>1. PICK m \in Nodes : \E r \in Waiting(queue[m]) : a = <<m, r>>
    BY <1>3
  <2>2. PICK r \in Waiting(queue[m]) : a = <<m, r>>
    BY <2>1
  <2>3. PICK n \in Nodes : \E s \in Waiting(queue[n]) : b = <<n, s>>
    BY <1>3
  <2>4. PICK s \in Waiting(queue[n]) : b = <<n, s>>
    BY <2>3
  <2>5. a[1] = m /\ a[2] = r /\ b[1] = n /\ b[2] = s /\ (m # n \/ r # s)
    BY <1>5, <2>2, <2>4
  <2>6. CASE queue = partQueue
    <3>1. PICK d, e : d = <<"part", m, r>> /\ e = <<"part", n, s>>
      OBVIOUS
    <3>2. d \in Claims /\ e \in Claims /\ d # e
      BY <2>2, <2>4, <2>5, <2>6, <3>1, ClaimsMembers DEF AllClaims, IsClaim
    <3>3. TaskOf(d) = queue[m].task[r] /\ TaskOf(e) = queue[n].task[s]
      BY <2>6, <3>1, TaskOfClaim
    <3>4. QED
      BY <1>4, <2>5, <3>2, <3>3
  <2>7. CASE queue = joinQueue
    <3>1. PICK d, e : d = <<"join", m, r>> /\ e = <<"join", n, s>>
      OBVIOUS
    <3>2. d \in Claims /\ e \in Claims /\ d # e
      BY <2>2, <2>4, <2>5, <2>7, <3>1, ClaimsMembers DEF AllClaims, IsClaim
    <3>3. TaskOf(d) = queue[m].task[r] /\ TaskOf(e) = queue[n].task[s]
      BY <2>7, <3>1, TaskOfClaim
    <3>4. QED
      BY <1>4, <2>5, <3>2, <3>3
  <2>8. QED
    BY <1>5, <2>6, <2>7
<1>6. ASSUME NEW t \in Working
      PROVE  t \in Threads /\ (AtPass2(t) \/ pc[t] = "join")
  BY <1>6 DEF Working, AtPass2
<1>7. ASSUME NEW t \in Working, pc[t] = "join", NEW d, d = <<"held", t, 0>>
      PROVE  d \in Claims /\ \A x \in Rel : TaskOf(d)[x] = held[t][x]
  <2>1. d \in Claims /\ TaskOf(d) = Rest(t)
    BY <1>6, <1>7, ClaimsMembers, TaskOfClaim DEF AllClaims, IsClaim
  <2>2. QED
    BY <1>7, <2>1 DEF Rest
<1>8. \A a, b, c : (\A x \in Rel : c[x] = a[x]) =>
        /\ Apart(c, b) => Apart(a, b)
        /\ PiecesOfOne(c, b) => PiecesOfOne(a, b)
        /\ Apart(b, c) => Apart(b, a)
        /\ PiecesOfOne(b, c) => PiecesOfOne(b, a)
  BY DEF Apart, PiecesOfOne, Rel
<1>9. ASSUME NEW t \in Working, NEW u \in Working, t # u
      PROVE  \/ Apart(held[t], held[u])
             \/ pc[t] = "join" /\ PiecesOfOne(held[t], held[u])
  <2>1. CASE AtPass2(t) /\ AtPass2(u)
    BY <1>2, <1>6, <1>9, <2>1 DEF TakenInv
  <2>2. CASE pc[t] = "join" /\ pc[u] = "join"
    <3>1. PICK d, e : d = <<"held", t, 0>> /\ e = <<"held", u, 0>>
      OBVIOUS
    <3>2. /\ d \in Claims /\ \A x \in Rel : TaskOf(d)[x] = held[t][x]
          /\ e \in Claims /\ \A x \in Rel : TaskOf(e)[x] = held[u][x]
          /\ d # e
      BY <1>7, <1>9, <2>2, <3>1
    <3>3. Apart(TaskOf(d), TaskOf(e)) \/ PiecesOfOne(TaskOf(d), TaskOf(e))
      BY <1>4, <3>2
    <3>4. Apart(held[t], TaskOf(e)) \/ PiecesOfOne(held[t], TaskOf(e))
      BY <1>8, <3>2, <3>3
    <3>5. QED
      BY <1>8, <2>2, <3>2, <3>4
  <2>3. QED
    BY <1>2, <1>6, <2>1, <2>2, JoinIsLate
<1>10. ASSUME NEW t \in Working, NEW a \in OpenTasks(partQueue)
       PROVE  Apart(held[t], partQueue[a[1]].task[a[2]])
  <2>1. PICK n \in Nodes : \E s \in Waiting(partQueue[n]) : a = <<n, s>>
    BY <1>3
  <2>2. PICK s \in Waiting(partQueue[n]) : a = <<n, s>>
    BY <2>1
  <2>3. a[1] = n /\ a[2] = s
    BY <2>2
  <2>4. CASE AtPass2(t)
    BY <1>2, <1>6, <2>2, <2>3, <2>4 DEF TakenInv
  <2>5. CASE pc[t] = "join"
    <3>1. PICK d, e : d = <<"held", t, 0>> /\ e = <<"part", n, s>>
      OBVIOUS
    <3>2. d \in Claims /\ \A x \in Rel : TaskOf(d)[x] = held[t][x]
      BY <1>7, <2>5, <3>1
    <3>3. e \in Claims /\ d # e
      BY <2>2, <3>1, ClaimsMembers DEF AllClaims, IsClaim
    <3>4. TaskOf(e) = partQueue[n].task[s]
      BY <3>1, TaskOfClaim
    <3>5. skew => Waiting(partQueue[NumaId(0)]) = {}
      BY <1>2, <1>6, <2>5, JoinIsLate
    <3>6. ~Sharing(e)
      BY <2>2, <3>1, <3>5, SharingKinds
    <3>7. Apart(TaskOf(d), TaskOf(e))
      BY <1>2, <3>2, <3>3, <3>6 DEF ClaimsInv
    <3>8. QED
      BY <1>8, <2>3, <3>2, <3>4, <3>7
  <2>6. QED
    BY <1>6, <2>4, <2>5
<1>11. QED
  BY <1>5, <1>9, <1>10 DEF TasksApart

(* No two threads ever work on one part of an array: the tasks that wait   *)
(* in a queue, and those that threads have taken from it, are regions      *)
(* apart from each other, but for the R of a large cluster, which the join *)
(* tasks of its pieces share.                                              *)
THEOREM TasksApartCorrect == Spec => []TasksApart
<1>1. Init => TaskInv
  BY TaskInvInit
<1>2. PartitionInv /\ PartitionInv' /\ TaskInv /\ [Next]_vars => TaskInv'
  BY TaskInvStep
<1>3. Spec => []PartitionInv
  BY PartitionInvCorrect
<1>4. PartitionInv /\ TaskInv => TasksApart
  BY TasksAreApart
<1>5. QED
  BY <1>1, <1>2, <1>3, <1>4, PTL DEF Spec

-----------------------------------------------------------------------------
(* Types.  The threads' variables are arrays with an entry for each; what  *)
(* is in a queue, and where the threads are, is known already.             *)

LEMMA KeysOfLength ==
  ASSUME NEW x, NEW part, IsPart(part)
  PROVE  Len(KeysOf(x, part)) \in Nat
<1>1. PICK n \in Nat : n = part.num
  BY DEF IsPart
<1> DEFINE r == [i \in 1 .. n |-> key[x][rel[x][part.at + i - 1]]]
<1>2. KeysOf(x, part) = r
  BY <1>1 DEF KeysOf
<1>3. r \in Seq({r[i] : i \in 1 .. n})
  OBVIOUS
<1>4. QED
  BY <1>2, <1>3

LEMMA PairsCounted ==
  ASSUME NEW m \in Nat, NEW n \in Nat, NEW S \in SUBSET ((1 .. m) \X (1 .. n))
  PROVE  Cardinality(S) \in Nat
<1>1. IsFiniteSet(1 .. m) /\ IsFiniteSet(1 .. n)
  BY FS_Interval
<1>2. IsFiniteSet((1 .. m) \X (1 .. n))
  BY <1>1, FS_Product
<1>3. QED
  BY <1>2, FS_Subset, FS_CardinalityType

LEMMA JoinsCount ==
  ASSUME NEW r, NEW s, Len(r) \in Nat, Len(s) \in Nat
  PROVE  BucketChainingJoin(r, s) \in Nat /\ HistogramJoin(r, s) \in Nat
<1>1. BucketChainingJoin(r, s) \in Nat
  BY PairsCounted DEF BucketChainingJoin
<1>2. HistogramJoin(r, s) \in Nat
  BY PairsCounted DEF HistogramJoin
<1>3. QED
  BY <1>1, <1>2

-----------------------------------------------------------------------------

Updated(f, g, t) == g = f \/ \E v : g = [f EXCEPT ![t] = v]

LEMMA UpdatedType ==
  ASSUME NEW t \in Threads, NEW S, NEW f \in [Threads -> S], NEW g, Updated(f, g, t), g[t] \in S
  PROVE  g \in [Threads -> S]
<1>1. CASE g = f
  BY <1>1
<1>2. ASSUME NEW v, g = [f EXCEPT ![t] = v]
      PROVE  g \in [Threads -> S]
  <2>1. v \in S
    BY <1>2
  <2>2. QED
    BY <1>2, <2>1
<1>3. QED
  BY <1>1, <1>2 DEF Updated

(* Everything that belongs to a thread is changed by this thread only. *)
LEMMA ThreadUpdates ==
  ASSUME NEW t \in Threads, Thread(t)
  PROVE  /\ Updated(pc, pc', t) /\ Updated(side, side', t) /\ Updated(cur, cur', t)
         /\ Updated(left, left', t) /\ Updated(arrived, arrived', t)
         /\ Updated(held, held', t) /\ Updated(slot, slot', t) /\ Updated(results, results', t)
<1> USE DEF Updated, Goto, pass2, barrier
<1>1. CASE Start(t) \/ Pass1(t)
  BY <1>1 DEF Start, Pass1, BeginPass1, Count, BeginScatter, PlanScatter, Scatter, EndScatterR, EndScatterS,
              Sync!Arrive, Sync!Leave
<1>2. CASE Tasks(t)
  BY <1>2 DEF Tasks, BeginTasks, CreateTask, EndTasks, Sync!Arrive, Sync!Leave
<1>3. CASE Pass2(t)
  BY <1>3 DEF Pass2, BeginPass2, TakePartTask, ClusterRelation, GetJoinSlot, AddJoinTask,
              SkipCluster, NextCluster, EndPartTask, EndPass2, Sync!Arrive, Sync!Leave
<1>4. CASE Skew(t)
  BY <1>4 DEF Skew, NextSkewTask, SeeSkewTask, AllocateAgain, PartitionAgain, BeginJoinTasks,
              CreateJoinTask, EndJoinTasks, MoveLargeTask, EndSkew, Sync!Arrive, Sync!Leave
<1>5. CASE Joins(t)
  BY <1>5 DEF Joins, BeginJoin, TakeJoinTask, RunJoin, EndJoin, Exit, Sync!Arrive, Sync!Leave
<1>6. QED
  BY <1>1, <1>2, <1>3, <1>4, <1>5 DEF Thread

(* The variables of pass 2 change where a task is divided or joined. *)
LEMMA Pass2Changes ==
  ASSUME NEW t \in Threads, Thread(t)
  PROVE  /\ counts' = counts \/ ClusterRelation(t)
         /\ offset' = offset \/ ClusterRelation(t) \/ AddJoinTask(t) \/ SkipCluster(t)
         /\ slot' = slot \/ GetJoinSlot(t)
         /\ results' = results \/ RunJoin(t)
<1> USE DEF pass2
<1>1. CASE Start(t) \/ Pass1(t)
  BY <1>1 DEF Start, Pass1, BeginPass1, Count, BeginScatter, PlanScatter, Scatter, EndScatterR, EndScatterS
<1>2. CASE Tasks(t)
  BY <1>2 DEF Tasks, BeginTasks, CreateTask, EndTasks
<1>3. CASE Pass2(t)
  BY <1>3 DEF Pass2, BeginPass2, TakePartTask, ClusterRelation, GetJoinSlot, AddJoinTask,
              SkipCluster, EndPartTask, EndPass2
<1>4. CASE Skew(t)
  BY <1>4 DEF Skew, NextSkewTask, SeeSkewTask, AllocateAgain, PartitionAgain, BeginJoinTasks,
              CreateJoinTask, EndJoinTasks, MoveLargeTask, EndSkew
<1>5. CASE Joins(t)
  BY <1>5 DEF Joins, BeginJoin, TakeJoinTask, RunJoin, EndJoin, Exit
<1>6. QED
  BY <1>1, <1>2, <1>3, <1>4, <1>5 DEF Thread

-----------------------------------------------------------------------------
(* What is kept of TypeOK by the steps of the threads, part by part.       *)

ThreadTypes ==
  /\ pc \in [Threads -> Labels] /\ side \in [Threads -> Rel] /\ cur \in [Threads -> Nat]
  /\ arrived \in [Threads -> Nat] /\ left \in [Threads -> Nat]
  /\ held \in [Threads -> [Rel -> Part]]

LEMMA ThreadTypesStep ==
  ASSUME ThreadTypes, OrderInv', ShapeInv', TasksInv', NEW t \in Threads, Thread(t)
  PROVE  ThreadTypes'
<1>1. /\ pc'[t] \in Labels /\ side'[t] \in Rel /\ left'[t] \in Nat /\ arrived'[t] \in Nat
      /\ cur'[t] \in Nat /\ held'[t] \in [Rel -> Part]
  <2>1. Phase(t, pc[t], side[t], left[t], arrived[t])'
    BY DEF OrderInv, PhaseInv
  <2>2. pc'[t] \in Labels /\ side'[t] \in Rel /\ left'[t] \in Nat /\ arrived'[t] \in {left'[t], left'[t] + 1}
    BY <2>1 DEF Phase
  <2>3. cur'[t] \in Nat /\ held'[t] \in [Rel -> Part]
    BY DEF ShapeInv, TasksInv, IsTask
  <2>4. QED
    BY <2>2, <2>3
<1>2. pc' \in [Threads -> Labels] /\ side' \in [Threads -> Rel] /\ cur' \in [Threads -> Nat]
  BY <1>1, ThreadUpdates, UpdatedType DEF ThreadTypes
<1>3. arrived' \in [Threads -> Nat] /\ left' \in [Threads -> Nat] /\ held' \in [Threads -> [Rel -> Part]]
  BY <1>1, ThreadUpdates, UpdatedType DEF ThreadTypes
<1>4. QED
  BY <1>2, <1>3 DEF ThreadTypes

ClusterTypes ==
  /\ counts \in [Threads -> [Rel -> [0 .. (FanOut2 - 1) -> Nat]]]
  /\ offset \in [Threads -> [Rel -> Nat]]
  /\ slot \in [Threads -> Nat]
  /\ results \in [Threads -> Nat]

LEMMA ClusterTypesStep ==
  ASSUME ClusterTypes, QueuesInv, TasksInv, CountsInv, OrderInv, NEW t \in Threads, Thread(t)
  PROVE  ClusterTypes'
<1> USE DEF ClusterTypes
<1>0. /\ side[t] \in Rel /\ held[t] \in [Rel -> Part] /\ NumaId(t) \in Nodes
      /\ \A y \in Rel : IsPart(held[t][y])
  BY NumaIdType DEF OrderInv, PhaseInv, Phase, TasksInv, IsTask, QueuesInv, Part, IsPart
<1>1. counts' \in [Threads -> [Rel -> [0 .. (FanOut2 - 1) -> Nat]]]
  <2>1. CASE ClusterRelation(t)
    <3>1. PICK x, P : x = side[t] /\ P = Positions(held[t][x])
      OBVIOUS
    <3>2. PICK digit : digit = Digits(x, tmp[x], P, Bits1, FanOut2)
      OBVIOUS
    <3>3. PICK f : f = [c \in 0 .. (FanOut2 - 1) |-> Cardinality({p \in P : digit[p] = c})]
      OBVIOUS
    <3>4. counts' = [counts EXCEPT ![t][x] = f]
      BY <2>1, <3>1, <3>2, <3>3 DEF ClusterRelation
    <3>5. x \in Rel /\ IsFiniteSet(P)
      BY <1>0, <3>1, PositionsFacts
    <3>6. \A c : Cardinality({p \in P : digit[p] = c}) \in Nat
      <4>1. \A c : {p \in P : digit[p] = c} \in SUBSET P
        OBVIOUS
      <4>2. QED
        BY <3>5, <4>1, FS_Subset, FS_CardinalityType
    <3>7. PICK T : T = [0 .. (FanOut2 - 1) -> Nat]
      OBVIOUS
    <3>8. f \in T
      BY <3>3, <3>6, <3>7
    <3>9. counts \in [Threads -> [Rel -> T]]
      BY <3>7
    <3>10. counts' = [counts EXCEPT ![t][x] = f]
      BY <3>4
    <3>11. counts' \in [Threads -> [Rel -> T]]
      BY <3>5, <3>8, <3>9, <3>10
    <3>12. QED
      BY <3>7, <3>11
  <2>2. QED
    BY <2>1, Pass2Changes
<1>2. offset' \in [Threads -> [Rel -> Nat]]
  <2>1. CASE ClusterRelation(t)
    <3>1. offset' = offset \/ offset' = [offset EXCEPT ![t] = [y \in Rel |-> 0]]
      BY <2>1 DEF ClusterRelation
    <3>2. [y \in Rel |-> 0] \in [Rel -> Nat]
      OBVIOUS
    <3>3. QED
      BY <3>1, <3>2
  <2>2. CASE AddJoinTask(t) \/ SkipCluster(t)
    <3>1. offset' = [offset EXCEPT ![t] = [x \in Rel |-> offset[t][x] + counts[t][x][cur[t]]]]
      BY <2>2 DEF AddJoinTask, SkipCluster, NextCluster
    <3>2. cur[t] \in 0 .. (FanOut2 - 1)
      <4>1. pc[t] \in {"emit", "add"} /\ (pc[t] = "emit" => cur[t] < FanOut2)
        BY <2>2 DEF AddJoinTask, SkipCluster
      <4>2. QED
        BY <4>1, FanOutTypes DEF CountsInv
    <3>3. \A x \in Rel : offset[t][x] \in Nat /\ counts[t][x][cur[t]] \in Nat
      <4>1. counts[t] \in [Rel -> [0 .. (FanOut2 - 1) -> Nat]] /\ offset[t] \in [Rel -> Nat]
        OBVIOUS
      <4>2. \A x \in Rel : counts[t][x] \in [0 .. (FanOut2 - 1) -> Nat] /\ offset[t][x] \in Nat
        BY <4>1
      <4>3. QED
        BY <3>2, <4>2
    <3>4. [x \in Rel |-> offset[t][x] + counts[t][x][cur[t]]] \in [Rel -> Nat]
      BY <3>3
    <3>5. QED
      BY <3>1, <3>4
  <2>3. QED
    BY <2>1, <2>2, Pass2Changes
<1>3. slot' \in [Threads -> Nat]
  <2>1. CASE GetJoinSlot(t)
    <3>1. slot' = [slot EXCEPT ![t] = FreeSlot(joinQueue[NumaId(t)])]
      BY <2>1 DEF GetJoinSlot
    <3>2. FreeSlot(joinQueue[NumaId(t)]) \in Nat
      BY <1>0, QueueFacts DEF QueuesInv, QueueInv, FreeSlot
    <3>3. QED
      BY <3>1, <3>2
  <2>2. QED
    BY <2>1, Pass2Changes
<1>4. results' \in [Threads -> Nat]
  <2>1. CASE RunJoin(t)
    <3>1. PICK r, s : r = KeysOf("R", held[t]["R"]) /\ s = KeysOf("S", held[t]["S"])
      OBVIOUS
    <3>2. Len(r) \in Nat /\ Len(s) \in Nat
      BY <1>0, <3>1, KeysOfLength DEF Rel
    <3>3. BucketChainingJoin(r, s) \in Nat /\ HistogramJoin(r, s) \in Nat
      BY <3>2, JoinsCount
    <3>4. \/ results' = results
          \/ results' = [results EXCEPT ![t] = results[t] + BucketChainingJoin(r, s)]
          \/ results' = [results EXCEPT ![t] = results[t] + HistogramJoin(r, s)]
      BY <2>1, <3>1 DEF RunJoin
    <3>5. results[t] + BucketChainingJoin(r, s) \in Nat /\ results[t] + HistogramJoin(r, s) \in Nat
      BY <3>3
    <3>6. QED
      BY <3>4, <3>5
  <2>2. QED
    BY <2>1, Pass2Changes
<1>5. QED
  BY <1>1, <1>2, <1>3, <1>4

-----------------------------------------------------------------------------

Array(x) == [0 .. (Size(x) - 1) -> {Garbage} \cup (0 .. (Size(x) - 1))]

ArrayTypes == \A x \in Rel : rel[x] \in Array(x) /\ tmp[x] \in Array(x)

LEMMA ClusteredType ==
  ASSUME NEW D, NEW V, NEW out \in [D -> V], NEW from, NEW digit, NEW P, NEW pad, NEW at,
         \A p \in P : from[p] \in V
  PROVE  Clustered(out, from, digit, P, pad, at) \in [D -> V]
<1>1. ASSUME NEW x \in D
      PROVE  (IF \E p \in P : at + Place(digit, P, pad, p) = x
              THEN from[CHOOSE p \in P : at + Place(digit, P, pad, p) = x] ELSE out[x]) \in V
  <2>1. CASE \E p \in P : at + Place(digit, P, pad, p) = x
    <3>1. (CHOOSE p \in P : at + Place(digit, P, pad, p) = x) \in P
      BY <2>1
    <3>2. QED
      BY <2>1, <3>1
  <2>2. CASE ~ \E p \in P : at + Place(digit, P, pad, p) = x
    BY <2>2
  <2>3. QED
    BY <2>1, <2>2
<1>2. DOMAIN out = D
  OBVIOUS
<1>3. QED
  BY <1>1, <1>2 DEF Clustered

(* Clustering one array into another, at positions that both have. *)
LEMMA ArrayClustered ==
  ASSUME NEW x \in Rel, NEW out \in Array(x), NEW from \in Array(x), NEW P \in SUBSET (0 .. (Size(x) - 1)),
         NEW digit, NEW pad, NEW at
  PROVE  Clustered(out, from, digit, P, pad, at) \in Array(x)
<1>1. \A p \in P : from[p] \in {Garbage} \cup (0 .. (Size(x) - 1))
  BY DEF Array
<1>2. QED
  BY <1>1, ClusteredType DEF Array

LEMMA OneArrayChanged ==
  ASSUME NEW f, DOMAIN f = Rel, \A x \in Rel : f[x] \in Array(x), NEW y \in Rel, NEW a \in Array(y)
  PROVE  \A x \in Rel : [f EXCEPT ![y] = a][x] \in Array(x)
OBVIOUS

LEMMA ArrayTypesStep ==
  ASSUME ArrayTypes, OrderInv, ShapeInv, SkewInv, InputInv, CursorInv, TasksInv, NEW t \in Threads, Thread(t)
  PROVE  ArrayTypes'
<1> USE DEF ArrayTypes
<1>0. /\ side[t] \in Rel /\ DOMAIN rel = Rel /\ DOMAIN tmp = Rel
      /\ \A y \in Rel : Array(y)' = Array(y)
  BY DEF OrderInv, PhaseInv, Phase, ShapeInv, Array, Size
<1>1. \A y \in Rel : Positions(held[t][y]) \in SUBSET (0 .. (Size(y) - 1))
  <2>1. ASSUME NEW y \in Rel PROVE Positions(held[t][y]) \in SUBSET (0 .. (Size(y) - 1))
    <3>1. held[t][y].at \in Nat /\ held[t][y].num \in Nat /\ held[t][y].at + held[t][y].num <= Size(y)
      BY DEF TasksInv, IsTask, Part
    <3>2. Size(y) \in Nat
      BY RadixJoinAssumption DEF Size
    <3>3. QED
      BY <3>1, <3>2 DEF Positions
  <2>2. QED
    BY <2>1
<1>2. ASSUME Scatter(t)
      PROVE  ArrayTypes'
  <2>1. PICK x, p : x = side[t] /\ p = Own(t, x).at + cur[t]
    OBVIOUS
  <2>2. p \in 0 .. (Size(x) - 1) /\ pc[t] = "scatter" /\ x \in Rel
    <3>1. p \in Places(x)
      BY <1>0, <1>2, <2>1, ScatterEffect
    <3>2. QED
      BY <1>0, <1>2, <2>1, <3>1, ScatterEffect, WholeFacts
  <2>3. MyPart(t, x) = Own(t, x)
    BY <2>2, MyPartIsOwn
  <2>4. PICK v : v = From(x)[p]
    OBVIOUS
  <2>5. v \in {Garbage} \cup (0 .. (Size(x) - 1))
    BY <2>2, <2>4 DEF From, Array
  <2>6. PICK place : place = Whole(x).at + dst[t][DigitOf(x, v)]
    OBVIOUS
  <2>7. IF Again THEN rel' = [rel EXCEPT ![x][place] = v] /\ tmp' = tmp
                 ELSE tmp' = [tmp EXCEPT ![x][place] = v] /\ rel' = rel
    BY <1>2, <2>1, <2>3, <2>4, <2>6 DEF Scatter
  <2>8. [rel[x] EXCEPT ![place] = v] \in Array(x) /\ [tmp[x] EXCEPT ![place] = v] \in Array(x)
    BY <2>2, <2>5 DEF Array
  <2>9. \/ rel' = [rel EXCEPT ![x] = [rel[x] EXCEPT ![place] = v]] /\ tmp' = tmp
        \/ tmp' = [tmp EXCEPT ![x] = [tmp[x] EXCEPT ![place] = v]] /\ rel' = rel
    BY <2>7
  <2>10. QED
    BY <1>0, <2>2, <2>8, <2>9, OneArrayChanged
<1>3. ASSUME ClusterRelation(t)
      PROVE  ArrayTypes'
  <2>1. PICK x, P : x = side[t] /\ P = Positions(held[t][x])
    OBVIOUS
  <2>2. PICK digit : digit = Digits(x, tmp[x], P, Bits1, FanOut2)
    OBVIOUS
  <2>3. /\ rel' = [rel EXCEPT ![x] = Clustered(rel[x], tmp[x], digit, P, SmallPaddingTuples, held[t][x].at)]
        /\ tmp' = tmp
    BY <1>3, <2>1, <2>2 DEF ClusterRelation
  <2>4. Clustered(rel[x], tmp[x], digit, P, SmallPaddingTuples, held[t][x].at) \in Array(x)
    BY <1>0, <1>1, <2>1, ArrayClustered
  <2>5. QED
    BY <1>0, <2>1, <2>3, <2>4, OneArrayChanged
<1>4. ASSUME RunJoin(t)
      PROVE  ArrayTypes'
  <2>1. PICK P, at : P = Positions(held[t]["R"]) /\ at = held[t]["R"].at
    OBVIOUS
  <2>2. \E digit : tmp' = tmp \/ tmp' = [tmp EXCEPT !["R"] = Clustered(tmp["R"], rel["R"], digit, P, 0, at)]
    BY <1>4, <2>1 DEF RunJoin
  <2>3. PICK digit : tmp' = tmp \/ tmp' = [tmp EXCEPT !["R"] = Clustered(tmp["R"], rel["R"], digit, P, 0, at)]
    BY <2>2
  <2>4. "R" \in Rel /\ rel' = rel
    BY <1>4 DEF RunJoin, Rel
  <2>5. Clustered(tmp["R"], rel["R"], digit, P, 0, at) \in Array("R")
    BY <1>1, <2>1, <2>4, ArrayClustered
  <2>6. QED
    BY <1>0, <2>3, <2>4, <2>5, OneArrayChanged
<1>5. CASE rel' = rel /\ tmp' = tmp
  BY <1>0, <1>5
<1>6. QED
  BY <1>2, <1>3, <1>4, <1>5, Changes DEF Scatter, ClusterRelation, RunJoin

-----------------------------------------------------------------------------

BoundTypes ==
  /\ \A t \in Threads, x \in Rel : \E f \in {FanOut1, FanOut2} :
       /\ hist[x][t] \in [0 .. (f - 1) -> 0 .. (NumR + NumS)]
       /\ output[t][x] \in [0 .. f -> 0 .. Room(x)]
  /\ \A t \in Threads : \E f \in {FanOut1, FanOut2} :
       dst[t] \in [0 .. (f - 1) -> 0 .. (Room("R") + Room("S"))]

LEMMA RoomIsSize ==
  /\ \A x \in Rel : Room(x) = Size(x) /\ Size(x) \in Nat /\ Size(x) <= NumR + NumS
                    /\ Size(x) <= Room("R") + Room("S")
  /\ NumR + NumS \in Nat /\ Room("R") + Room("S") \in Nat
<1>1. FanOut1 \in Nat /\ PaddingTuples = 0
  BY FanOutTypes
<1>2. PaddingTuples * FanOut1 = 0
  BY <1>1
<1>3. NumR \in Nat /\ NumS \in Nat
  BY RadixJoinAssumption
<1>4. \A x \in Rel : Room(x) = Size(x) /\ Size(x) \in Nat
  BY <1>2, <1>3 DEF Room, Size
<1>5. Room("R") = NumR /\ Room("S") = NumS
  BY <1>4 DEF Size, Rel
<1>6. QED
  BY <1>3, <1>4, <1>5 DEF Size

LEMMA BelowBound ==
  ASSUME NEW P, IsFiniteSet(P), NEW digit, NEW c
  PROVE  Below(digit, P, c) \in 0 .. Cardinality(P)
<1>1. {p \in P : digit[p] < c} \in SUBSET P
  OBVIOUS
<1>2. QED
  BY <1>1, FS_Subset, FS_CardinalityType DEF Below

LEMMA BeforeBound ==
  ASSUME NEW P, IsFiniteSet(P), NEW digit, NEW c \in Nat, NEW p
  PROVE  Before(digit, P, c, p) \in 0 .. Cardinality(P)
<1> DEFINE S == {q \in P : digit[q] < c}
<1> DEFINE T == Earlier(digit, P, c, p)
<1>1. S \in SUBSET P /\ T \in SUBSET P /\ S \cup T \in SUBSET P
  BY DEF Earlier
<1>2. S \cap T = {}
  BY DEF Earlier
<1>3. Before(digit, P, c, p) = Cardinality(S) + Cardinality(T)
  BY DEF Before, Below
<1> HIDE DEF S, T
<1>4. IsFiniteSet(S) /\ IsFiniteSet(T) /\ IsFiniteSet(S \cup T)
  BY <1>1, FS_Subset
<1>5. Cardinality(S \cup T) = Cardinality(S) + Cardinality(T)
  BY <1>2, <1>4, DisjointSizes
<1>6. Cardinality(S \cup T) \in Nat /\ Cardinality(P) \in Nat /\ Cardinality(S \cup T) <= Cardinality(P)
  BY <1>1, <1>4, FS_Subset, FS_CardinalityType
<1>7. QED
  BY <1>3, <1>5, <1>6

LEMMA SameFanOut ==
  ASSUME NEW f \in Nat \ {0}, NEW g \in Nat \ {0}, NEW a, DOMAIN a = 0 .. (f - 1), DOMAIN a = 0 .. (g - 1)
  PROVE  f = g
<1>1. f - 1 \in 0 .. (g - 1) /\ g - 1 \in 0 .. (f - 1)
  OBVIOUS
<1>2. QED
  BY <1>1

(* The histogram of a thread has as many entries as it makes clusters. *)
LEMMA HistogramFanOut ==
  ASSUME HistogramInv, Parallel, Active, NEW t \in Threads, NEW x \in Rel,
         Counted(pc[t], side[t], x) \/ Uncounted(pc[t], side[t], x),
         NEW f \in {FanOut1, FanOut2}, DOMAIN hist[x][t] = 0 .. (f - 1)
  PROVE  f = FanOut
<1>1. DOMAIN hist[x][t] = 0 .. (FanOut - 1)
  BY DEF HistogramInv
<1>2. f \in Nat \ {0} /\ FanOut \in Nat \ {0}
  BY FanOutTypes
<1>3. QED
  BY <1>1, <1>2, SameFanOut

LEMMA BoundTypesStep ==
  ASSUME BoundTypes, OrderInv, ShapeInv, SkewInv, InputInv, HistogramInv, CursorInv,
         OrderInv', ShapeInv', HistogramInv', CursorInv', NEW t \in Threads, Thread(t)
  PROVE  BoundTypes'
<1>1. Parallel /\ Parallel' /\ side[t] \in Rel
  BY ThreadParallel DEF OrderInv, PhaseInv, Phase
<1>2. \A u \in Threads : pc[u] \in Counting => Active
  BY CountingActive DEF CountersActive
<1>3. \A x \in Rel : /\ IsFiniteSet(Places(x)) /\ Cardinality(Places(x)) \in 0 .. Size(x)
                     /\ \A u \in Threads : /\ IsFiniteSet(Positions(Own(u, x)))
                                           /\ Cardinality(Positions(Own(u, x))) \in 0 .. Size(x)
  <2>1. ASSUME NEW x \in Rel, NEW u \in Threads
        PROVE  /\ IsFiniteSet(Places(x)) /\ Cardinality(Places(x)) \in 0 .. Size(x)
               /\ IsFiniteSet(Positions(Own(u, x))) /\ Cardinality(Positions(Own(u, x))) \in 0 .. Size(x)
    <3>1. PICK w, o : w = Whole(x) /\ o = Own(u, x)
      OBVIOUS
    <3>2. /\ IsPart(w) /\ w.at + w.num <= Size(x) /\ Size(x) \in Nat
          /\ IsFiniteSet(Places(x)) /\ Cardinality(Places(x)) = w.num
      BY <3>1, WholeFacts
    <3>3. IsPart(o) /\ o.at >= w.at /\ o.at + o.num <= w.at + w.num
      BY <3>1, <3>2, ShareFacts DEF Own
    <3>4. IsFiniteSet(Positions(o)) /\ Cardinality(Positions(o)) = o.num
      BY <3>3, PositionsFacts
    <3>5. w.num \in 0 .. Size(x) /\ o.num \in 0 .. Size(x)
      BY <3>2, <3>3 DEF IsPart
    <3>6. QED
      BY <3>1, <3>2, <3>4, <3>5
  <2>2. QED
    BY <2>1, ThreadsFinite
<1>4. \A x \in Rel : Size(x) \in Nat /\ Room(x) = Size(x) /\ Size(x) <= NumR + NumS
                     /\ Size(x) <= Room("R") + Room("S") /\ Room(x)' = Room(x)
  BY RoomIsSize DEF Room, Size
<1>5. ASSUME NEW u \in Threads, NEW x \in Rel
      PROVE  (\E f \in {FanOut1, FanOut2} :
                /\ hist[x][u] \in [0 .. (f - 1) -> 0 .. (NumR + NumS)]
                /\ output[u][x] \in [0 .. f -> 0 .. Room(x)])'
  <2>1. PICK f \in {FanOut1, FanOut2} : /\ hist[x][u] \in [0 .. (f - 1) -> 0 .. (NumR + NumS)]
                                       /\ output[u][x] \in [0 .. f -> 0 .. Room(x)]
    BY DEF BoundTypes
  <2>2. ASSUME AllocateAgain(t), u = t
        PROVE  /\ hist'[x][u] \in [0 .. (FanOut2 - 1) -> 0 .. (NumR + NumS)]
               /\ output'[u][x] \in [0 .. FanOut2 -> 0 .. Room(x)]
    <3>1. hist'[x][t] = [c \in 0 .. (FanOut2 - 1) |-> 0] /\ output'[t][x] = [c \in 0 .. FanOut2 |-> 0]
      BY <2>2 DEF AllocateAgain, ShapeInv
    <3>2. 0 \in 0 .. (NumR + NumS) /\ 0 \in 0 .. Room(x)
      BY <1>4, RoomIsSize
    <3>3. QED
      BY <2>2, <3>1, <3>2
  <2>3. ASSUME Count(t), u = t, x = side[t]
        PROVE  /\ hist'[x][u] \in [0 .. (f - 1) -> 0 .. (NumR + NumS)]
               /\ output'[u][x] = output[u][x]
    <3>1. pc[t] = "count" /\ pc'[t] = "wait_count" /\ side' = side /\ output' = output
      BY <2>3 DEF Count, Goto, OrderInv
    <3>2. Active /\ Active'
      <4>1. Active
        BY <1>2, <3>1 DEF Counting
      <4>2. pc'[0] = pc[0] \/ pc'[0] = "wait_count"
        BY <3>1, OthersStay, ThreadsFinite
      <4>3. QED
        BY <4>1, <4>2 DEF Active
    <3>3. FanOut' = FanOut /\ TheDigits(x)' = TheDigits(x) /\ Own(u, x)' = Own(u, x)
      BY <3>2, ContextStill
    <3>4. f = FanOut
      <4>1. Uncounted(pc[t], side[t], x)
        BY <2>3, <3>1 DEF Uncounted, Rel, OrderInv, PhaseInv, Phase
      <4>2. DOMAIN hist[x][t] = 0 .. (f - 1)
        BY <2>1, <2>3
      <4>3. QED
        BY <1>1, <3>2, <4>1, <4>2, HistogramFanOut
    <3>5. Counted(pc'[t], side'[t], x)
      BY <1>1, <2>3, <3>1 DEF Counted, Rel
    <3>6. hist'[x][t] = [c \in 0 .. (FanOut - 1) |-> Below(TheDigits(x), Positions(Own(t, x)), c + 1)]
      BY <1>1, <2>3, <3>2, <3>3, <3>5 DEF HistogramInv
    <3>7. \A c : Below(TheDigits(x), Positions(Own(t, x)), c + 1) \in 0 .. (NumR + NumS)
      <4>1. \A c : Below(TheDigits(x), Positions(Own(t, x)), c + 1) \in 0 .. Cardinality(Positions(Own(t, x)))
        BY <1>3, BelowBound
      <4>2. Cardinality(Positions(Own(t, x))) \in 0 .. Size(x)
        BY <1>3
      <4>3. QED
        BY <1>4, <4>1, <4>2, RoomIsSize
    <3>8. QED
      BY <2>3, <3>1, <3>4, <3>6, <3>7
  <2>4. ASSUME BeginScatter(t), u = t, x = side[t]
        PROVE  /\ hist'[x][u] = hist[x][u]
               /\ output'[u][x] \in [0 .. f -> 0 .. Room(x)]
    <3>1. Active /\ pc[t] = "wait_count"
      BY <1>1, <2>4, StartsCorrect
    <3>2. f = FanOut
      <4>1. Counted(pc[t], side[t], x)
        BY <1>1, <2>4, <3>1 DEF Counted, Rel
      <4>2. DOMAIN hist[x][t] = 0 .. (f - 1)
        BY <2>1, <2>4
      <4>3. QED
        BY <1>1, <3>1, <4>1, <4>2, HistogramFanOut
    <3>3. PICK start, end : /\ start = [c \in 0 .. (FanOut - 1) |-> ClusterStart(t, x, c)]
                            /\ end = Whole(x).num + FanOut * Padding
      OBVIOUS
    <3>4. hist' = hist /\ output' = [output EXCEPT ![t][x] = [c \in 0 .. FanOut |-> IF c = FanOut THEN end ELSE start[c]]]
      BY <2>4, <3>3 DEF BeginScatter, PlanScatter
    <3>5. end \in 0 .. Room(x)
      <4>1. FanOut * Padding = 0
        BY FanOutTypes
      <4>2. IsPart(Whole(x)) /\ Whole(x).at + Whole(x).num <= Size(x)
        BY WholeFacts
      <4>3. QED
        BY <1>4, <3>3, <4>1, <4>2 DEF IsPart
    <3>6. \A c \in 0 .. (FanOut - 1) : start[c] \in 0 .. Room(x)
      <4>1. ASSUME NEW c \in 0 .. (FanOut - 1) PROVE start[c] \in 0 .. Room(x)
        <5>1. start[c] = Before(TheDigits(x), Places(x), c, Own(t, x).at)
          BY <1>1, <2>4, <3>3, StartsCorrect
        <5>2. c \in Nat
          BY FanOutTypes
        <5>3. start[c] \in 0 .. Cardinality(Places(x))
          BY <1>3, <5>1, <5>2, BeforeBound
        <5>4. QED
          BY <1>3, <1>4, <5>3
      <4>2. QED
        BY <4>1
    <3>7. [c \in 0 .. FanOut |-> IF c = FanOut THEN end ELSE start[c]] \in [0 .. FanOut -> 0 .. Room(x)]
      <4>1. ASSUME NEW c \in 0 .. FanOut PROVE (IF c = FanOut THEN end ELSE start[c]) \in 0 .. Room(x)
        <5>1. c # FanOut => c \in 0 .. (FanOut - 1)
          BY FanOutTypes
        <5>2. QED
          BY <3>5, <3>6, <5>1
      <4>2. QED
        BY <4>1
    <3>8. output'[t][x] = [c \in 0 .. FanOut |-> IF c = FanOut THEN end ELSE start[c]]
      BY <3>4 DEF ShapeInv
    <3>9. QED
      BY <2>4, <3>2, <3>4, <3>7, <3>8
  <2>5. CASE hist'[x][u] = hist[x][u] /\ output'[u][x] = output[u][x]
    BY <1>4, <2>1, <2>5
  <2>6. hist'[x][u] = hist[x][u] \/ (AllocateAgain(t) /\ u = t) \/ (Count(t) /\ u = t /\ x = side[t])
    BY HistFrame
  <2>7. output'[u][x] = output[u][x] \/ (AllocateAgain(t) /\ u = t) \/ (BeginScatter(t) /\ u = t /\ x = side[t])
    <3>1. AllocateAgain(t) => output'[u][x] = output[u][x] \/ u = t
      BY DEF AllocateAgain, ShapeInv
    <3>2. BeginScatter(t) => output'[u][x] = output[u][x] \/ (u = t /\ x = side[t])
      BY DEF BeginScatter, PlanScatter, ShapeInv
    <3>3. QED
      BY <3>1, <3>2, Changes
  <2>8. QED
    BY <1>4, <2>1, <2>2, <2>3, <2>4, <2>5, <2>6, <2>7
<1>6. ASSUME NEW u \in Threads
      PROVE  (\E f \in {FanOut1, FanOut2} : dst[u] \in [0 .. (f - 1) -> 0 .. (Room("R") + Room("S"))])'
  <2>1. ASSUME BeginScatter(t) \/ Scatter(t), u = t
        PROVE  dst'[u] \in [0 .. (FanOut - 1) -> 0 .. (Room("R") + Room("S"))]
    <3>1. pc'[t] = "scatter" /\ side' = side /\ pc[t] \in Counting
      BY <2>1 DEF BeginScatter, Scatter, Goto, OrderInv, Counting
    <3>2. Active'
      <4>1. Active
        BY <1>2, <3>1
      <4>2. pc'[0] = pc[0] \/ pc'[0] = "scatter"
        BY <3>1, OthersStay, ThreadsFinite
      <4>3. QED
        BY <4>1, <4>2 DEF Active
    <3>3. PICK x \in Rel : x = side[t]
      BY <1>1
    <3>4. FanOut' = FanOut /\ TheDigits(x)' = TheDigits(x) /\ Places(x)' = Places(x)
      BY <3>2, ContextStill
    <3>5. \E p : dst'[t] = [c \in 0 .. (FanOut - 1) |-> Before(TheDigits(x), Places(x), c, p)]
      <4>1. dst'[t] = [c \in 0 .. (FanOut' - 1) |->
                         Before(TheDigits(x)', Places(x)', c, (Own(t, x).at + cur[t])')]
        BY <3>1, <3>3 DEF CursorInv
      <4>2. QED
        BY <3>4, <4>1
    <3>6. PICK p : dst'[t] = [c \in 0 .. (FanOut - 1) |-> Before(TheDigits(x), Places(x), c, p)]
      BY <3>5
    <3>7. ASSUME NEW c \in 0 .. (FanOut - 1)
          PROVE  Before(TheDigits(x), Places(x), c, p) \in 0 .. (Room("R") + Room("S"))
      <4>1. c \in Nat
        BY FanOutTypes
      <4>2. Before(TheDigits(x), Places(x), c, p) \in 0 .. Cardinality(Places(x))
        BY <1>3, <4>1, BeforeBound
      <4>3. Cardinality(Places(x)) \in 0 .. Size(x)
        BY <1>3
      <4>4. QED
        BY <1>4, <4>2, <4>3, RoomIsSize
    <3>8. QED
      BY <2>1, <3>6, <3>7
  <2>2. dst'[u] = dst[u] \/ ((BeginScatter(t) \/ Scatter(t)) /\ u = t)
    BY Changes, CursorFrame
  <2>3. FanOut \in {FanOut1, FanOut2} /\ Room("R")' = Room("R") /\ Room("S")' = Room("S")
    BY DEF FanOut, Room, Size
  <2>4. PICK f \in {FanOut1, FanOut2} : dst[u] \in [0 .. (f - 1) -> 0 .. (Room("R") + Room("S"))]
    BY DEF BoundTypes
  <2>5. QED
    BY <2>1, <2>2, <2>3, <2>4
<1>7. QED
  BY <1>5, <1>6 DEF BoundTypes

-----------------------------------------------------------------------------

MainTypes == mainI \in Nat /\ args \in [Threads -> [Rel -> Part]] /\ result \in Nat

InputTypes ==
  /\ skew \in BOOLEAN /\ jf \in JoinFunctions

TypeInv == ThreadTypes /\ ClusterTypes /\ ArrayTypes /\ BoundTypes /\ MainTypes /\ InputTypes

LEMMA TypeInvInit == Init => TypeInv
<1> SUFFICES ASSUME Init PROVE TypeInv
  OBVIOUS
<1> USE DEF Init
<1>1. NoTask \in [Rel -> Part]
  BY DEF NoTask, NoPart, Part
<1>2. ThreadTypes
  BY <1>1 DEF ThreadTypes, Labels, Sync!BarrierInit, Rel
<1>3. ClusterTypes
  <2>1. [c \in 0 .. (FanOut2 - 1) |-> 0] \in [0 .. (FanOut2 - 1) -> Nat]
    OBVIOUS
  <2>2. PICK T, z : T = [0 .. (FanOut2 - 1) -> Nat] /\ z = [c \in 0 .. (FanOut2 - 1) |-> 0]
    OBVIOUS
  <2>3. counts = [t \in Threads |-> [x \in Rel |-> z]] /\ z \in T
    BY <2>1, <2>2
  <2>4. counts \in [Threads -> [Rel -> T]]
    <3>1. PICK u, U : u = [x \in Rel |-> z] /\ U = [Rel -> T]
      OBVIOUS
    <3>2. u \in U
      BY <2>3, <3>1
    <3>3. counts = [t \in Threads |-> u]
      BY <2>3, <3>1
    <3>4. counts \in [Threads -> U]
      BY <3>2, <3>3
    <3>5. QED
      BY <3>1, <3>4
  <2>5. offset \in [Threads -> [Rel -> Nat]]
    <3>1. [x \in Rel |-> 0] \in [Rel -> Nat]
      OBVIOUS
    <3>2. PICK z2, T2 : z2 = [x \in Rel |-> 0] /\ T2 = [Rel -> Nat]
      OBVIOUS
    <3>3. offset = [t \in Threads |-> z2] /\ z2 \in T2
      BY <3>1, <3>2
    <3>4. QED
      BY <3>2, <3>3
  <2>6. slot \in [Threads -> Nat] /\ results \in [Threads -> Nat]
    BY DEF NULL
  <2>7. QED
    BY <2>2, <2>4, <2>5, <2>6 DEF ClusterTypes
<1>4. ArrayTypes
  <2>1. ASSUME NEW x \in Rel PROVE rel[x] \in Array(x) /\ tmp[x] \in Array(x)
    <3>1. Room(x) = Size(x) /\ Size(x) \in Nat
      BY RoomIsSize
    <3>2. /\ rel[x] = [p \in 0 .. (Room(x) - 1) |-> IF p < Size(x) THEN p ELSE Garbage]
          /\ tmp[x] = [p \in 0 .. (Room(x) - 1) |-> Garbage]
      OBVIOUS
    <3>3. QED
      BY <3>1, <3>2 DEF Array
  <2>2. QED
    BY <2>1 DEF ArrayTypes
<1>5. BoundTypes
  <2>1. ASSUME NEW t \in Threads, NEW x \in Rel
        PROVE  /\ hist[x][t] \in [0 .. (FanOut1 - 1) -> 0 .. (NumR + NumS)]
               /\ output[t][x] \in [0 .. FanOut1 -> 0 .. Room(x)]
               /\ dst[t] \in [0 .. (FanOut1 - 1) -> 0 .. (Room("R") + Room("S"))]
    <3>1. /\ hist[x][t] = [c \in 0 .. (FanOut1 - 1) |-> 0]
          /\ output[t][x] = [c \in 0 .. FanOut1 |-> 0]
          /\ dst[t] = [c \in 0 .. (FanOut1 - 1) |-> 0]
      OBVIOUS
    <3>2. 0 \in 0 .. (NumR + NumS) /\ 0 \in 0 .. Room(x) /\ 0 \in 0 .. (Room("R") + Room("S"))
      BY RoomIsSize
    <3>3. QED
      BY <3>1, <3>2
  <2>2. Rel # {}
    BY DEF Rel
  <2>3. QED
    BY <2>1, <2>2 DEF BoundTypes
<1>6. MainTypes
  BY <1>1 DEF MainTypes
<1>7. InputTypes
  BY RadixJoinAssumption DEF InputTypes
<1>8. QED
  BY <1>2, <1>3, <1>4, <1>5, <1>6, <1>7 DEF TypeInv

LEMMA MainTypesStep ==
  ASSUME TypeInv, OrderInv, ShapeInv, Main
  PROVE  TypeInv'
<1> USE DEF TypeInv
<1>1. ThreadTypes' /\ ClusterTypes' /\ BoundTypes' /\ InputTypes'
  <2>1. /\ UNCHANGED <<skew, jf, side, cur, arrived, left, held, counts, offset, slot, results, hist, output, dst>>
        /\ pc' = pc \/ (mainPc = "spawn" /\ pc' = [pc EXCEPT ![mainI] = "start"])
    BY DEF Main, Spawn, Join, RadixCluster, JoinCluster, Return, Goto, inputs, pass1, pass2, barrier
  <2>2. pc' \in [Threads -> Labels]
    <3>1. mainPc = "spawn" => mainI \in Threads
      BY DEF OrderInv, MainInv
    <3>2. "start" \in Labels
      BY DEF Labels
    <3>3. QED
      BY <2>1, <3>1, <3>2 DEF ThreadTypes
  <2>3. ThreadTypes'
    BY <2>1, <2>2 DEF ThreadTypes
  <2>4. ClusterTypes'
    BY <2>1 DEF ClusterTypes
  <2>5. BoundTypes'
    BY <2>1 DEF BoundTypes, Room, Size
  <2>6. QED
    BY <2>1, <2>3, <2>4, <2>5 DEF InputTypes
<1>2. ArrayTypes'
  <2>1. CASE RadixCluster
    <3>1. PICK x : x = IF mainI % 2 = 0 THEN "R" ELSE "S"
      OBVIOUS
    <3>2. PICK P : P = 0 .. (Size(x) - 1)
      OBVIOUS
    <3>3. x \in Rel /\ P \in SUBSET (0 .. (Size(x) - 1))
      BY <3>1, <3>2 DEF Rel
    <3>4. \/ /\ rel' = rel
             /\ \E digit : tmp' = [tmp EXCEPT ![x] = Clustered(tmp[x], rel[x], digit, P, 0, 0)]
          \/ /\ tmp' = tmp
             /\ \E digit : rel' = [rel EXCEPT ![x] = Clustered(rel[x], tmp[x], digit, P, 0, 0)]
      BY <2>1, <3>1, <3>2 DEF RadixCluster
    <3>5. \A digit : /\ Clustered(tmp[x], rel[x], digit, P, 0, 0) \in Array(x)
                     /\ Clustered(rel[x], tmp[x], digit, P, 0, 0) \in Array(x)
      BY <3>3, ArrayClustered DEF ArrayTypes
    <3>6. DOMAIN rel = Rel /\ DOMAIN tmp = Rel /\ \A y \in Rel : Array(y)' = Array(y)
      BY DEF ShapeInv, Array, Size
    <3>7. QED
      BY <3>3, <3>4, <3>5, <3>6, OneArrayChanged DEF ArrayTypes
  <2>2. CASE ~RadixCluster
    <3>1. rel' = rel /\ tmp' = tmp
      BY <2>2 DEF Main, Spawn, Join, JoinCluster, Return, arrays
    <3>2. QED
      BY <3>1 DEF ArrayTypes, Array, Size
  <2>3. QED
    BY <2>1, <2>2
<1>3. MainTypes'
  <2>1. mainI' \in Nat
    <3>1. mainI' \in {mainI, mainI + 1, 0}
      BY DEF Main, Spawn, Join, RadixCluster, JoinCluster, Return
    <3>2. QED
      BY <3>1 DEF MainTypes
  <2>2. args' \in [Threads -> [Rel -> Part]]
    <3>1. CASE Spawn
      <4>1. mainI \in Threads
        BY <3>1 DEF Spawn, OrderInv, MainInv
      <4>2. PICK a : a = [x \in Rel |-> Share([at |-> 0, num |-> Size(x)], mainI)]
        OBVIOUS
      <4>3. ASSUME NEW x \in Rel PROVE Share([at |-> 0, num |-> Size(x)], mainI) \in Part
        <5>1. IsPart([at |-> 0, num |-> Size(x)])
          BY RoomIsSize DEF IsPart
        <5>2. IsPart(Share([at |-> 0, num |-> Size(x)], mainI))
          BY <4>1, <5>1, ShareFacts
        <5>3. QED
          BY <5>2 DEF IsPart, Share, Part
      <4>4. a \in [Rel -> Part] /\ args' = [args EXCEPT ![mainI] = a]
        BY <3>1, <4>2, <4>3 DEF Spawn
      <4>5. QED
        BY <4>1, <4>4 DEF MainTypes
    <3>2. CASE ~Spawn
      BY <3>2 DEF Main, Join, RadixCluster, JoinCluster, Return, MainTypes
    <3>3. QED
      BY <3>1, <3>2
  <2>3. result' \in Nat
    <3>1. CASE Join
      <4>1. mainI \in Threads
        BY <3>1 DEF Join, OrderInv, MainInv
      <4>2. results[mainI] \in Nat /\ result \in Nat
        BY <4>1 DEF ClusterTypes, MainTypes
      <4>3. QED
        BY <3>1, <4>2 DEF Join
    <3>2. CASE JoinCluster
      <4>1. PICK task : task = SerialCluster(mainI)
        OBVIOUS
      <4>2. ASSUME NEW x \in Rel, task[x].num > 0
            PROVE  Len(KeysOf(x, task[x])) \in Nat
        <5>1. PICK P, digit : P = 0 .. (Size(x) - 1) /\ digit = Digits(x, rel[x], P, 0, NumClusters)
          OBVIOUS
        <5>2. task[x] = [at |-> Below(digit, P, mainI), num |-> Below(digit, P, mainI + 1) - Below(digit, P, mainI)]
          BY <4>1, <5>1 DEF SerialCluster
        <5>3. IsFiniteSet(P)
          BY <5>1, RoomIsSize, FS_Interval
        <5>4. Below(digit, P, mainI) \in Nat /\ Below(digit, P, mainI + 1) \in Nat
          BY <5>3, BelowBound
        <5>5. IsPart(task[x])
          BY <4>2, <5>2, <5>4 DEF IsPart
        <5>6. QED
          BY <5>5, KeysOfLength
      <4>3. ASSUME BothSides(task)
            PROVE  BucketChainingJoin(KeysOf("R", task["R"]), KeysOf("S", task["S"])) \in Nat
        BY <4>2, <4>3, JoinsCount DEF BothSides, Rel
      <4>4. result' = IF BothSides(task)
                      THEN result + BucketChainingJoin(KeysOf("R", task["R"]), KeysOf("S", task["S"]))
                      ELSE result
        BY <3>2, <4>1 DEF JoinCluster
      <4>5. QED
        BY <4>3, <4>4 DEF MainTypes
    <3>3. CASE ~Join /\ ~JoinCluster
      BY <3>3 DEF Main, Spawn, RadixCluster, Return, MainTypes
    <3>4. QED
      BY <3>1, <3>2, <3>3
  <2>4. QED
    BY <2>1, <2>2, <2>3 DEF MainTypes
<1>4. QED
  BY <1>1, <1>2, <1>3

LEMMA TypeInvStep ==
  PartitionInv /\ PartitionInv' /\ TaskInv /\ TaskInv' /\ TypeInv /\ [Next]_vars => TypeInv'
<1>1. SUFFICES ASSUME PartitionInv, PartitionInv', TaskInv, TaskInv', TypeInv, [Next]_vars PROVE TypeInv'
  OBVIOUS
<1> USE DEF PartitionInv, TaskInv, TypeInv
<1>2. CASE Main
  BY <1>1, <1>2, MainTypesStep
<1>3. ASSUME NEW t \in Threads, Thread(t)
      PROVE  TypeInv'
  <2>1. ThreadTypes'
    BY <1>1, <1>3, ThreadTypesStep
  <2>2. ClusterTypes'
    BY <1>1, <1>3, ClusterTypesStep
  <2>3. ArrayTypes'
    BY <1>1, <1>3, ArrayTypesStep
  <2>4. BoundTypes'
    BY <1>1, <1>3, BoundTypesStep
  <2>5. MainTypes' /\ InputTypes'
    BY <1>1, <1>3, OrderStep DEF MainTypes, InputTypes
  <2>6. QED
    BY <2>1, <2>2, <2>3, <2>4, <2>5
<1>4. CASE UNCHANGED vars
  BY <1>1, <1>4 DEF vars, inputs, arrays, mainVars, pass1, pass2, barrier, ThreadTypes, ClusterTypes, ArrayTypes,
    BoundTypes, MainTypes, InputTypes, Array, Room, Size
<1>5. QED
  BY <1>1, <1>2, <1>3, <1>4 DEF Next, Finished

LEMMA QueueTyped ==
  ASSUME NEW q, QueueInv(q), \A s \in DOMAIN q.task : IsTask(q.task[s])
  PROVE  QueueType(q)
<1>1. q.curr \in Nat /\ DOMAIN q.next \subseteq 1 .. q.curr /\ DOMAIN q.task = DOMAIN q.next
  BY DEF QueueInv
<1>2. q.count \in 0 .. q.curr
  <2>1. Waiting(q) \in SUBSET (1 .. q.curr) /\ q.count = Cardinality(Waiting(q)) /\ q.count \in Nat
    BY <1>1, QueueFacts DEF QueueInv
  <2>2. IsFiniteSet(1 .. q.curr) /\ Cardinality(1 .. q.curr) = q.curr
    BY <1>1, FS_Interval
  <2>3. Cardinality(Waiting(q)) <= Cardinality(1 .. q.curr)
    BY <2>1, <2>2, FS_Subset
  <2>4. QED
    BY <1>1, <2>1, <2>2, <2>3
<1>3. q.next \in Links(DOMAIN q.next) /\ q.head \in DOMAIN q.next \cup {NULL}
  BY DEF QueueInv
<1>4. QED
  BY <1>1, <1>2, <1>3 DEF QueueType, Links, IsTask

(* Every variable of the radix join has its type, for any number of        *)
(* threads and relations of any size: no position is outside of its array, *)
(* no histogram counts more than there is, and no slot of a queue is used  *)
(* that was not handed out.                                                *)
THEOREM TypeCorrect == Spec => []TypeOK
<1>1. PartitionInv /\ TaskInv /\ TypeInv => TypeOK
  <2>1. SUFFICES ASSUME PartitionInv, TaskInv, TypeInv PROVE TypeOK
    OBVIOUS
  <2> USE DEF PartitionInv, TaskInv, TypeInv
  <2>2. skew \in BOOLEAN /\ numNuma \in Nat \ {0} /\ jf \in JoinFunctions
    BY <2>1 DEF InputTypes, QueuesInv
  <2>3. \A x \in Rel : /\ key[x] \in [0 .. (Size(x) - 1) -> Keys]
                       /\ rel[x] \in [0 .. (Room(x) - 1) -> {Garbage} \cup (0 .. (Size(x) - 1))]
                       /\ tmp[x] \in [0 .. (Room(x) - 1) -> {Garbage} \cup (0 .. (Size(x) - 1))]
    BY <2>1, RoomIsSize DEF ArrayTypes, Array, ShapeInv
  <2>4. mainPc \in {"spawn", "join", "cluster", "serial_join", "done"}
    BY <2>1 DEF OrderInv, MainInv
  <2>5. \A n \in Nodes : QueueType(partQueue[n]) /\ QueueType(joinQueue[n])
    BY <2>1, QueueTyped DEF QueuesInv, TasksInv
  <2>6. QueueType(skewQueue) /\ skewtask \in [Rel -> Part]
    BY <2>1, QueueTyped DEF QueuesInv, TasksInv, IsTask
  <2>7. QED
    BY <2>1, <2>2, <2>3, <2>4, <2>5, <2>6 DEF TypeOK, ThreadTypes, ClusterTypes, BoundTypes, MainTypes
<1>2. Init => TypeInv /\ TaskInv
  BY TypeInvInit, TaskInvInit
<1>3. Spec => []TaskInv
  BY <1>2, TaskInvStep, PartitionInvCorrect, PTL DEF Spec
<1>4. QED
  BY <1>1, <1>2, <1>3, TypeInvStep, PartitionInvCorrect, PTL DEF Spec

=============================================================================
