-------------------- MODULE ThreadPoolWorkQueueInvariant --------------------
(***************************************************************************)
(* The inductive invariant of the pool, and that the steps of the work     *)
(* loop and of addTask preserve it.                                        *)
(***************************************************************************)
EXTENDS ThreadPoolWorkQueue, FiniteSetTheorems, WellFoundedInduction, TLAPS

\* The prover of every leaf that names no other.
USE ZenonT(120)

-----------------------------------------------------------------------------
(***************************************************************************)
(* The inductive invariant                                                 *)
(***************************************************************************)
LoopLabels ==
  {"top", "local", "affinity", "global", "spinAffinity", "spinGlobal", "spinStop", "spill",
   "overflow", "markSuspended", "preAffinity", "preGlobal", "preStop", "sleep"}

(* The activation records of thread t when A are the tasks added so far:   *)
(* only workers run the loop, only the others wait outside it, and only    *)
(* the thread that may do so shuts the pool down.                          *)
Records(t, A) ==
  [fn : {"calls"}, task : A \cup {NoTask}, rest : Seq(CallsOf(t))]
    \cup [fn : {"addTask"}, pc : {"enqueue", "spill", "wake", "post"}, task : A,
          taskId : Workers \cup {kDefaultTaskId}, toPost : SUBSET Workers]
    \cup [fn : {"await"}, pc : {"register"}, values : SUBSET Tasks]
    \cup [fn : {"notify"}, pc : {"count", "post"}, task : A, to : SUBSET (Threads \X Nat),
          toPost : SUBSET Threads]
    \cup (IF t \in Workers
            THEN [fn : {"runItems"}, pc : LoopLabels, until : {"done", "values", "empty"},
                  values : SUBSET Tasks, left : SUBSET Tasks]
            ELSE [fn : {"wait"}, values : SUBSET Tasks, left : SUBSET Tasks])
    \cup (IF MayShutdown(t)
            THEN [fn : {"shutdown"}, pc : {"donate", "flag", "post", "clear", "join"},
                  toPost : SUBSET Workers]
            ELSE {})

(* A record below the top of a stack waits for the one above it. *)
Paused(f) ==
  \/ f.fn = "calls"
  \/ f.fn = "runItems" /\ f.pc \in {"top", "local"}
  \/ f.fn = "shutdown" /\ f.pc = "flag"

(* The stack of a worker that is a pool thread stands on runOnThread's     *)
(* loop until the pool is shut down.                                       *)
Stacks ==
  /\ DOMAIN stack = Threads
  /\ \A t \in Threads :
       /\ stack[t] \in Seq(Records(t, added))
       /\ \A k \in 1..(Len(stack[t]) - 1) : Paused(stack[t][k])
  /\ \A w \in PoolThreads : ~doneFlag =>
       stack[w] # <<>> /\ stack[w][1].fn = "runItems" /\ stack[w][1].until = "done"

(* What the lists hold was added. *)
Data ==
  /\ added \subseteq Tasks /\ ready \subseteq added /\ taskList \subseteq added
  /\ overflowTaskList \in Seq(added)
  /\ affinityTaskList \in [Workers -> Seq(added)]
  /\ \A w \in Workers : Len(affinityTaskList[w]) <= AffinityCapacity
  /\ localSpillQueue \in [Workers -> Seq(added)]
  /\ localTaskList \in [Workers -> Seq(added)]
  /\ nextLocalTaskListIndex \in [Workers -> Nat]
  /\ \A w \in Workers : nextLocalTaskListIndex[w] <= Len(localTaskList[w])
  /\ sema \in [Threads -> Nat]
  /\ suspendedThreads \subseteq {workerGroup(w) : w \in Workers}
  /\ doneFlag \in BOOLEAN
  /\ multicastFactor \in Nat

(* What the record on top of a stack tells the other threads. *)
Control(f) ==
  [fn |-> f.fn,
   pc |-> IF f.fn \in {"runItems", "addTask", "shutdown"} THEN f.pc ELSE "none",
   taskId |-> IF f.fn = "addTask" THEN f.taskId ELSE kDefaultTaskId,
   toPost |-> IF f.fn = "addTask" THEN f.toPost ELSE {}]

Returned == [fn |-> "idle", pc |-> "none", taskId |-> kDefaultTaskId, toPost |-> {}]

Tops == [t \in Threads |->
           IF stack[t] = <<>> THEN Returned ELSE Control(stack[t][Len(stack[t])])]

(* A worker with a token, or for which addTask is about to post one. *)
Woken ==
  {w \in Workers :
     \/ sema[w] > 0
     \/ \E t \in Threads :
          Tops[t].fn = "addTask" /\ Tops[t].pc = "post" /\ w \in Tops[t].toPost}

(* The ids, of a worker or kDefaultTaskId, for which an addTask has        *)
(* enqueued and has not looked at suspendedThreads yet.                    *)
WakingIds ==
  {id \in Workers \cup {kDefaultTaskId} :
     \E t \in Threads :
       Tops[t].fn = "addTask" /\ Tops[t].pc = "wake" /\ Tops[t].taskId = id}

Suspending(c) ==
  c.fn = "runItems" /\ c.pc \in {"preAffinity", "preGlobal", "preStop", "sleep"}
AffinitySeen(c) == c.fn = "runItems" /\ c.pc \in {"preGlobal", "preStop", "sleep"}
GlobalSeen(c) == c.fn = "runItems" /\ c.pc \in {"preStop", "sleep"}

(* Whoever takes a worker's bit owes its group a token. *)
BitOrToken ==
  \A w \in Workers : Suspending(Tops[w]) => workerGroup(w) \in suspendedThreads \/ w \in Woken

(* A worker that has looked into its affinity list for the last time is    *)
(* woken for what was added since.                                         *)
AffinityWoken ==
  \A w \in Workers :
    affinityTaskList[w] # <<>> /\ AffinitySeen(Tops[w]) /\ w \notin WakingIds => w \in Woken

(* Not every worker is past its last look into the global list. *)
GlobalWoken ==
  taskList # {} /\ kDefaultTaskId \notin WakingIds =>
    \E w \in Workers : ~GlobalSeen(Tops[w]) \/ w \in Woken

Wakeups ==
  /\ ~doneFlag => BitOrToken /\ AffinityWoken /\ GlobalWoken
  /\ \A t \in Threads :
       Tops[t].fn = "shutdown" /\ Tops[t].pc \in {"post", "clear", "join"} => doneFlag

PoolInv == Data /\ Stacks /\ Wakeups

-----------------------------------------------------------------------------
(***************************************************************************)
(* Numbers and sequences                                                   *)
(***************************************************************************)
Less == {pair \in Nat \X Nat : pair[1] < pair[2]}

(* < is well-founded on the natural numbers, as a relation. *)
LEMMA LessWellFounded == IsWellFoundedOn(Less, Nat)
  BY NatLessThanWellFounded DEF OpToRel, Less

(* A set of natural numbers has a least element. *)
LEMMA LeastElement ==
  ASSUME NEW S \in SUBSET Nat, S # {}
  PROVE  \E m \in S : \A n \in S : m <= n
<1>1. PICK m \in S : \A n \in S : ~(<<n, m>> \in Less)
  BY WFMin, LessWellFounded
<1>2. \A a, b \in Nat : a < b => <<a, b>> \in Less
  BY DEF Less
<1>3. \A n \in S : ~(n < m)
  BY <1>1, <1>2
<1> QED  BY <1>3, SMTT(60)

(* 2^n counts the subsets of 1..n: it is positive, and at least n. *)
LEMMA PowerOfTwo ==
  ASSUME NEW n \in Nat
  PROVE  2^n \in Nat /\ 2^n > 0 /\ 2^n >= n
<1> DEFINE P == SUBSET (1..n)
           singletons == {{i} : i \in 1..n}
           f == [i \in 1..n |-> {i}]
<1>1. IsFiniteSet(1..n) /\ Cardinality(1..n) = n
  BY FS_Interval, SMTT(60)
<1>2. IsFiniteSet(P) /\ Cardinality(P) = 2^n
  BY <1>1, FS_SUBSET
<1>3. Cardinality(P) \in Nat
  BY <1>2, FS_CardinalityType
<1>4. P # {}
  BY {} \in P
<1>5. Cardinality(P) # 0
  BY <1>2, <1>4, FS_EmptySet
<1>6. f \in Injection(1..n, P)
  BY DEF Injection, IsInjective
<1>7. n <= Cardinality(P)
  BY <1>1, <1>2, <1>6, FS_Injection, SMTT(60)
<1> QED  BY <1>2, <1>3, <1>5, <1>7, SMTT(60)

(* A queue is empty or has a positive length. *)
LEMMA EmptyQueue ==
  ASSUME NEW S
  PROVE  <<>> \in Seq(S) /\ Len(<<>>) = 0 /\ \A q \in Seq(S) : q # <<>> => Len(q) \in Nat \ {0}
  BY SMTT(60)

(* It grows at its end. *)
LEMMA Appended ==
  ASSUME NEW S, NEW q \in Seq(S), NEW e \in S
  PROVE  /\ Append(q, e) \in Seq(S) /\ Len(Append(q, e)) = Len(q) + 1 /\ Append(q, e) # <<>>
         /\ \A i \in 1..Len(q) : Append(q, e)[i] = q[i]
         /\ Append(q, e)[Len(q) + 1] = e
  BY SMTT(60)

(* It is taken from at its front. *)
LEMMA HeadAndTail ==
  ASSUME NEW S, NEW q \in Seq(S), q # <<>>
  PROVE  /\ Head(q) \in S /\ Tail(q) \in Seq(S) /\ Len(Tail(q)) = Len(q) - 1
         /\ \A i \in 1..Len(Tail(q)) : Tail(q)[i] = q[i + 1]
  BY SMTT(60)

(* Two queues make one. *)
LEMMA Joined ==
  ASSUME NEW S, NEW q \in Seq(S), NEW r \in Seq(S)
  PROVE  q \o r \in Seq(S) /\ Len(q \o r) = Len(q) + Len(r)
  BY SMTT(60)

(* A part of a sequence. *)
LEMMA Part ==
  ASSUME NEW S, NEW s \in Seq(S), NEW m \in 1..(Len(s) + 1), NEW n \in 0..Len(s)
  PROVE  /\ SubSeq(s, m, n) \in Seq(S)
         /\ Len(SubSeq(s, m, n)) = IF m <= n THEN n - m + 1 ELSE 0
         /\ \A i \in 1..(n - m + 1) : SubSeq(s, m, n)[i] = s[m + i - 1]
  BY SMTT(60)

(* A sequence with one element replaced. *)
LEMMA Updated ==
  ASSUME NEW S, NEW s \in Seq(S), NEW i \in 1..Len(s), NEW e \in S
  PROVE  /\ [s EXCEPT ![i] = e] \in Seq(S) /\ Len([s EXCEPT ![i] = e]) = Len(s)
         /\ \A j \in 1..Len(s) : [s EXCEPT ![i] = e][j] = IF j = i THEN e ELSE s[j]
  BY SMTT(60)

(* multicastFactor is the logarithm of a number of workers. *)
LEMMA MulticastFactorType ==
  ASSUME NEW width \in BitVectorWidths
  PROVE  MulticastFactor(width) \in Nat
<1>1. width \in Nat /\ width > 0 /\ NumWorkers \in Nat /\ NumWorkers > 0
  BY PoolAssumption, SMTT(60) DEF PoolAssumption
<1>2. CASE NumWorkers > width
  <2> DEFINE S == {k \in Nat : width * 2^k >= NumWorkers}
  <2>1. NumWorkers \in S
    <3>1. 2^NumWorkers \in Nat /\ 2^NumWorkers >= NumWorkers
      BY <1>1, PowerOfTwo
    <3>2. \A p \in Nat : width * p >= p
      BY <1>1, SMTT(60)
    <3> QED  BY <3>1, <3>2, <1>1, SMTT(60)
  <2>2. PICK k \in S : \A j \in S : k <= j
    BY <2>1, LeastElement
  <2>3. k # 0
    <3>1. 2^0 = 1 BY SMTT(60)
    <3>2. 0 \notin S
      BY <1>1, <1>2, <3>1, SMTT(60)
    <3> QED  BY <2>2, <3>2
  <2>4. k \in 1..NumWorkers
    BY <1>1, <2>1, <2>2, <2>3, SMTT(60)
  <2>5. width * 2^(k - 1) < NumWorkers
    <3>1. k - 1 \in Nat /\ k - 1 \notin S
      BY <2>2, <2>4, SMTT(60)
    <3>2. 2^(k - 1) \in Nat
      BY <3>1, PowerOfTwo
    <3> QED  BY <1>1, <3>1, <3>2, SMTT(60)
  <2>6. \E j \in 1..NumWorkers : width * 2^j >= NumWorkers /\ width * 2^(j - 1) < NumWorkers
    BY <2>2, <2>4, <2>5
  <2>7. MulticastFactor(width) \in 1..NumWorkers
    BY <1>2, <2>6 DEF MulticastFactor
  <2> QED  BY <1>1, <2>7, SMTT(60)
<1>3. CASE ~(NumWorkers > width)
  BY <1>3 DEF MulticastFactor
<1> QED  BY <1>2, <1>3

(* A worker's group is a bit of suspendedThreads. *)
LEMMA GroupType ==
  ASSUME multicastFactor \in Nat, NEW w \in Workers
  PROVE  workerGroup(w) \in Nat
<1>1. 2^multicastFactor \in Nat /\ 2^multicastFactor > 0
  BY PowerOfTwo
<1>2. w \in Nat
  BY PoolAssumption, SMTT(60) DEF Workers, PoolAssumption
<1>3. \A d \in Nat : d > 0 => w \div d \in Nat
  BY <1>2, SMTT(60)
<1> QED  BY <1>1, <1>3 DEF workerGroup

(* With a bit for each worker a group has one member. *)
LEMMA OwnBit ==
  ASSUME multicastFactor = 0, NEW w \in Workers
  PROVE  workerGroup(w) = w
  BY PoolAssumption, SMTT(60) DEF Workers, PoolAssumption, workerGroup

(* takeAnySuspendedThread takes a bit that is set. *)
LEMMA LowestGroupIsSet ==
  ASSUME Data, suspendedThreads # {}
  PROVE  LowestGroup \in suspendedThreads
<1>1. suspendedThreads \subseteq Nat
  BY GroupType DEF Data
<1>2. \E g \in suspendedThreads : \A h \in suspendedThreads : g <= h
  BY <1>1, LeastElement
<1> QED  BY <1>2 DEF LowestGroup

(* What returning, replacing and calling do to a stack. *)
LEMMA BelowOf ==
  ASSUME NEW S, NEW s \in Seq(S), s # <<>>
  PROVE  /\ Len(s) \in Nat /\ Len(s) > 0
         /\ Below(s) \in Seq(S) /\ Len(Below(s)) = Len(s) - 1
         /\ \A k \in 1..(Len(s) - 1) : Below(s)[k] = s[k]
<1>1. Len(s) \in Nat /\ Len(s) > 0
  BY EmptyQueue, SMTT(60)
<1>2. PICK n \in Nat : n = Len(s) - 1
  BY <1>1, SMTT(60)
<1>3. \A k \in 1..n : s[k] \in S
  BY <1>1, <1>2, SMTT(60)
<1>4. /\ SubSeq(s, 1, n) \in Seq(S)
      /\ Len(SubSeq(s, 1, n)) = IF 1 <= n THEN n - 1 + 1 ELSE 0
      /\ \A k \in 1..(n - 1 + 1) : SubSeq(s, 1, n)[k] = s[1 + k - 1]
  BY <1>3, Part, SMTT(60)
<1>5. /\ (IF 1 <= n THEN n - 1 + 1 ELSE 0) = n
      /\ \A k \in 1..n : k \in 1..(n - 1 + 1) /\ 1 + k - 1 = k
  BY SMTT(60)
<1>6. Len(SubSeq(s, 1, n)) = n
  BY <1>4, <1>5, SMTT(60)
<1>9. \A k \in 1..n : SubSeq(s, 1, n)[k] = s[k]
  BY <1>4, <1>5
<1>7. Below(s) = SubSeq(s, 1, n)
  BY <1>2 DEF Below

<1>8. Len(Below(s)) = n /\ Below(s) \in Seq(S) /\ \A k \in 1..n : Below(s)[k] = s[k]
  BY <1>4, <1>6, <1>9, <1>7
<1> QED  BY <1>1, <1>2, <1>8

(* The top activation is replaced: the others stay. *)
LEMMA Replaced ==
  ASSUME NEW S, NEW s \in Seq(S), s # <<>>, NEW f \in S
  PROVE  LET r == Append(Below(s), f)
         IN  /\ r \in Seq(S) /\ Len(r) = Len(s) /\ r # <<>>
             /\ r[Len(s)] = f
             /\ \A k \in 1..(Len(s) - 1) : r[k] = s[k]
<1>1. /\ Len(s) \in Nat /\ Len(s) > 0 /\ Below(s) \in Seq(S) /\ Len(Below(s)) = Len(s) - 1
      /\ \A k \in 1..(Len(s) - 1) : Below(s)[k] = s[k]
  BY BelowOf
<1> QED  BY <1>1, Appended, SMTT(60)

(* The top activation changes and calls another: the others stay. *)
LEMMA Called ==
  ASSUME NEW S, NEW s \in Seq(S), s # <<>>, NEW f \in S, NEW g \in S
  PROVE  LET r == Append(Append(Below(s), f), g)
         IN  /\ r \in Seq(S) /\ Len(r) = Len(s) + 1 /\ r # <<>>
             /\ r[Len(s) + 1] = g /\ r[Len(s)] = f
             /\ \A k \in 1..(Len(s) - 1) : r[k] = s[k]
<1> DEFINE q == Append(Below(s), f)
<1>1. /\ q \in Seq(S) /\ Len(q) = Len(s) /\ q[Len(s)] = f
      /\ \A k \in 1..(Len(s) - 1) : q[k] = s[k]
  BY Replaced, SMTT(60)
<1>2. Len(s) \in Nat /\ Len(s) > 0
  BY BelowOf
<1> HIDE DEF q
<1>3. /\ Append(q, g) \in Seq(S) /\ Append(q, g) # <<>> /\ Len(Append(q, g)) = Len(q) + 1
      /\ Append(q, g)[Len(q) + 1] = g
      /\ \A k \in 1..Len(q) : Append(q, g)[k] = q[k]
  BY <1>1, Appended, SMTT(60)
<1> QED  BY <1>1, <1>2, <1>3, SMTT(60) DEF q

-----------------------------------------------------------------------------
(***************************************************************************)
(* Steps of a stack                                                        *)
(***************************************************************************)
(* A sequence over a set is one over a larger set. *)
LEMMA SeqGrows ==
  ASSUME NEW S, NEW T, S \subseteq T, NEW s \in Seq(S)
  PROVE  s \in Seq(T)
  BY SMTT(60)

(* More tasks, more records. *)
LEMMA RecordsGrow ==
  ASSUME NEW t, NEW A, NEW B, A \subseteq B
  PROVE  Records(t, A) \subseteq Records(t, B)
  BY SMTT(60) DEF Records

(* A record in which its thread does not owe or expect a wake-up. *)
Quiet(c) ==
  /\ ~Suspending(c)
  /\ ~(c.fn = "addTask" /\ c.pc \in {"wake", "post"})
  /\ ~(c.fn = "shutdown" /\ c.pc \in {"post", "clear", "join"})

(* A thread that goes back to an activation that was waiting below the     *)
(* top is not about to sleep and owes nobody a look or a token.            *)
LEMMA PausedIsQuiet ==
  ASSUME NEW f, Paused(f)
  PROVE  Quiet(Control(f))
  BY DEF Paused, Quiet, Control, Suspending

(* Neither is a thread that has nothing left to run. *)
LEMMA ReturnedIsQuiet == Quiet(Returned)
  BY DEF Returned, Quiet, Suspending

(* A step that leaves a good stack leaves good stacks. *)
LEMMA StackStep ==
  ASSUME Stacks, NEW t \in Threads, NEW s, stack' = [stack EXCEPT ![t] = s],
         added \subseteq added', doneFlag => doneFlag',
         s \in Seq(Records(t, added')),
         \A k \in 1..(Len(s) - 1) : Paused(s[k]),
         t \in PoolThreads /\ ~doneFlag' =>
           s # <<>> /\ s[1].fn = "runItems" /\ s[1].until = "done"
  PROVE  /\ Stacks'
         /\ Tops' = [Tops EXCEPT ![t] = IF s = <<>> THEN Returned ELSE Control(s[Len(s)])]
<1>1. /\ DOMAIN stack' = Threads /\ stack'[t] = s
      /\ \A u \in Threads \ {t} : stack'[u] = stack[u]
  BY DEF Stacks
<1>2. \A u \in Threads : stack'[u] \in Seq(Records(u, added'))
  <2> SUFFICES ASSUME NEW u \in Threads PROVE stack'[u] \in Seq(Records(u, added'))
    OBVIOUS
  <2>1. CASE u = t  BY <1>1, <2>1
  <2>2. CASE u # t  BY <1>1, <2>2, RecordsGrow, SeqGrows DEF Stacks
  <2> QED  BY <2>1, <2>2
<1>3. \A u \in Threads : \A k \in 1..(Len(stack'[u]) - 1) : Paused(stack'[u][k])
  <2> SUFFICES ASSUME NEW u \in Threads
               PROVE  \A k \in 1..(Len(stack'[u]) - 1) : Paused(stack'[u][k])
    OBVIOUS
  <2>1. CASE u = t  BY <1>1, <2>1
  <2>2. CASE u # t  BY <1>1, <2>2 DEF Stacks
  <2> QED  BY <2>1, <2>2
<1>4. \A w \in PoolThreads : ~doneFlag' =>
        stack'[w] # <<>> /\ stack'[w][1].fn = "runItems" /\ stack'[w][1].until = "done"
  <2>1. PoolThreads \subseteq Threads
    BY PoolAssumption, SMTT(60) DEF PoolThreads, Threads, Workers, PoolAssumption
  <2> QED  BY <1>1, <2>1 DEF Stacks
<1>5. Stacks'
  BY <1>1, <1>2, <1>3, <1>4 DEF Stacks
<1>6. Tops' = [Tops EXCEPT ![t] = IF s = <<>> THEN Returned ELSE Control(s[Len(s)])]
  BY <1>1 DEF Tops
<1> QED  BY <1>5, <1>6

(* The top record returns; runOnThread's loop only after shutdown. *)
LEMMA StackReturn ==
  ASSUME Stacks, NEW t \in Threads, stack[t] # <<>>,
         stack' = [stack EXCEPT ![t] = Below(@)],
         added' = added, doneFlag' = doneFlag,
         /\ stack[t][Len(stack[t])].fn = "runItems"
         /\ stack[t][Len(stack[t])].until = "done"
         => doneFlag
  PROVE  Stacks' /\ \E c : Quiet(c) /\ Tops' = [Tops EXCEPT ![t] = c]
<1>1. PICK s : s = stack[t] /\ s \in Seq(Records(t, added)) /\ s # <<>>
  BY DEF Stacks
<1>2. PICK r : r = Below(s) OBVIOUS
<1>3. stack' = [stack EXCEPT ![t] = r]
  BY <1>1, <1>2 DEF Stacks
<1>4. PICK n \in Nat : n = Len(s) /\ n > 0
  BY <1>1, BelowOf
<1>5. /\ r \in Seq(Records(t, added)) /\ Len(r) = n - 1
      /\ \A k \in 1..(n - 1) : r[k] = s[k]
  BY <1>1, <1>2, <1>4, BelowOf
<1>6. \A k \in 1..(n - 1) : Paused(r[k])
  BY <1>1, <1>4, <1>5 DEF Stacks
<1>7. \A k \in 1..(Len(r) - 1) : Paused(r[k])
  BY <1>5, <1>6, SMTT(60)
<1>8. r = <<>> <=> n = 1
  BY <1>4, <1>5, EmptyQueue, SMTT(60)
<1>9. t \in PoolThreads /\ ~doneFlag' =>
        r # <<>> /\ r[1].fn = "runItems" /\ r[1].until = "done"
  <2> SUFFICES ASSUME t \in PoolThreads, ~doneFlag
               PROVE  r # <<>> /\ r[1].fn = "runItems" /\ r[1].until = "done"
    OBVIOUS
  <2>1. s[1].fn = "runItems" /\ s[1].until = "done"
    BY <1>1 DEF Stacks
  <2>2. n # 1
    BY <1>1, <1>4, <2>1
  <2>3. 1 \in 1..(n - 1)
    BY <1>4, <2>2, SMTT(60)
  <2> QED  BY <1>5, <1>8, <2>1, <2>2, <2>3
<1>10. /\ Stacks'
       /\ Tops' = [Tops EXCEPT ![t] = IF r = <<>> THEN Returned ELSE Control(r[Len(r)])]
  BY <1>3, <1>5, <1>7, <1>9, StackStep
<1>11. r # <<>> => Paused(r[Len(r)])
  BY <1>4, <1>5, <1>6, <1>8, SMTT(60)
<1> QED  BY <1>10, <1>11, ReturnedIsQuiet, PausedIsQuiet

(* The top record is replaced; a loop stays a loop with its stop test. *)
LEMMA StackBecome ==
  ASSUME Stacks, NEW t \in Threads, stack[t] # <<>>,
         added \subseteq added', doneFlag => doneFlag',
         NEW f \in Records(t, added'), stack' = [stack EXCEPT ![t] = Append(Below(@), f)],
         stack[t][Len(stack[t])].fn = "runItems" =>
           f.fn = "runItems" /\ f.until = stack[t][Len(stack[t])].until
  PROVE  Stacks' /\ Tops' = [Tops EXCEPT ![t] = Control(f)]
<1>1. PICK s : s = stack[t] /\ s \in Seq(Records(t, added')) /\ s # <<>>
  BY RecordsGrow, SeqGrows DEF Stacks
<1>2. PICK r : r = Append(Below(s), f) OBVIOUS
<1>3. stack' = [stack EXCEPT ![t] = r]
  BY <1>1, <1>2 DEF Stacks
<1>4. PICK n \in Nat : n = Len(s) /\ n > 0
  BY <1>1, BelowOf
<1>5. /\ r \in Seq(Records(t, added')) /\ Len(r) = n /\ r # <<>> /\ r[n] = f
      /\ \A k \in 1..(n - 1) : r[k] = s[k]
  BY <1>1, <1>2, <1>4, Replaced, SMTT(60)
<1>6. \A k \in 1..(n - 1) : Paused(s[k])
  BY <1>1, <1>4 DEF Stacks
<1>7. \A k \in 1..(Len(r) - 1) : Paused(r[k])
  BY <1>5, <1>6
<1>8. t \in PoolThreads /\ ~doneFlag' =>
        r # <<>> /\ r[1].fn = "runItems" /\ r[1].until = "done"
  <2> SUFFICES ASSUME t \in PoolThreads, ~doneFlag
               PROVE  r[1].fn = "runItems" /\ r[1].until = "done"
    BY <1>5
  <2>1. s[1].fn = "runItems" /\ s[1].until = "done"
    BY <1>1 DEF Stacks
  <2>2. CASE n = 1
    BY <1>1, <1>4, <1>5, <2>1, <2>2
  <2>3. CASE n # 1
    BY <1>4, <1>5, <2>1, <2>3, SMTT(60)
  <2> QED  BY <2>2, <2>3
<1> QED  BY <1>3, <1>5, <1>7, <1>8, StackStep

(* The top record is left to wait and a call is put on it. *)
LEMMA StackCall ==
  ASSUME Stacks, NEW t \in Threads, stack[t] # <<>>,
         added \subseteq added', doneFlag => doneFlag',
         NEW f \in Records(t, added'), NEW g \in Records(t, added'), Paused(f),
         stack' = [stack EXCEPT ![t] = Append(Append(Below(@), f), g)],
         stack[t][Len(stack[t])].fn = "runItems" =>
           f.fn = "runItems" /\ f.until = stack[t][Len(stack[t])].until
  PROVE  Stacks' /\ Tops' = [Tops EXCEPT ![t] = Control(g)]
<1>1. PICK s : s = stack[t] /\ s \in Seq(Records(t, added')) /\ s # <<>>
  BY RecordsGrow, SeqGrows DEF Stacks
<1>2. PICK r : r = Append(Append(Below(s), f), g) OBVIOUS
<1>3. stack' = [stack EXCEPT ![t] = r]
  BY <1>1, <1>2 DEF Stacks
<1>4. PICK n \in Nat : n = Len(s) /\ n > 0
  BY <1>1, BelowOf
<1>5. /\ r \in Seq(Records(t, added')) /\ Len(r) = n + 1 /\ r # <<>>
      /\ r[n + 1] = g /\ r[n] = f
      /\ \A k \in 1..(n - 1) : r[k] = s[k]
  BY <1>1, <1>2, <1>4, Called, SMTT(60)
<1>6. \A k \in 1..(n - 1) : Paused(s[k])
  BY <1>1, <1>4 DEF Stacks
<1>7. \A k \in 1..(Len(r) - 1) : Paused(r[k])
  <2> SUFFICES ASSUME NEW k \in 1..n PROVE Paused(r[k])
    BY <1>5, SMTT(60)
  <2>1. k = n \/ k \in 1..(n - 1) BY SMTT(60)
  <2> QED  BY <1>5, <1>6, <2>1
<1>8. t \in PoolThreads /\ ~doneFlag' =>
        r # <<>> /\ r[1].fn = "runItems" /\ r[1].until = "done"
  <2> SUFFICES ASSUME t \in PoolThreads, ~doneFlag
               PROVE  r[1].fn = "runItems" /\ r[1].until = "done"
    BY <1>5
  <2>1. s[1].fn = "runItems" /\ s[1].until = "done"
    BY <1>1 DEF Stacks
  <2>2. CASE n = 1
    BY <1>1, <1>4, <1>5, <2>1, <2>2
  <2>3. CASE n # 1
    BY <1>4, <1>5, <2>1, <2>3, SMTT(60)
  <2> QED  BY <2>2, <2>3
<1>9. /\ Stacks'
      /\ Tops' = [Tops EXCEPT ![t] = IF r = <<>> THEN Returned ELSE Control(r[Len(r)])]
  BY <1>3, <1>5, <1>7, <1>8, StackStep
<1> QED  BY <1>5, <1>9

-----------------------------------------------------------------------------
(***************************************************************************)
(* Steps of the top record and the wake-ups                                *)
(***************************************************************************)
(* The record on top is one of its thread. *)
LEMMA TopRecord ==
  ASSUME Stacks, NEW t \in Threads, ~Idle(t)
  PROVE  /\ stack[t] # <<>> /\ Top(t) = stack[t][Len(stack[t])]
         /\ Top(t) \in Records(t, added)
         /\ Tops[t] = Control(Top(t))
<1>1. PICK s : s = stack[t] /\ s \in Seq(Records(t, added)) /\ s # <<>>
  BY DEF Stacks, Idle
<1>2. Top(t) = s[Len(s)]
  BY <1>1 DEF Top
<1>3. s[Len(s)] \in Records(t, added)
  <2>1. Len(s) \in 1..Len(s)
    BY <1>1, BelowOf, SMTT(60)
  <2> QED  BY <1>1, <2>1, SMTT(60)
<1>4. Tops[t] = Control(s[Len(s)])
  BY <1>1 DEF Tops
<1> QED  BY <1>1, <1>2, <1>3, <1>4

(* Only workers run the loop. *)
LEMMA LoopRecord ==
  ASSUME NEW t \in Threads, NEW A, NEW f \in Records(t, A), f.fn = "runItems"
  PROVE  /\ t \in Workers
         /\ f \in [fn : {"runItems"}, pc : LoopLabels, until : {"done", "values", "empty"},
                   values : SUBSET Tasks, left : SUBSET Tasks]
  BY DEF Records

(* The part of Control that the loop shows. *)
LoopAt(label) ==
  [fn |-> "runItems", pc |-> label, taskId |-> kDefaultTaskId, toPost |-> {}]

(* The loop goes on. *)
LEMMA LoopGoto ==
  ASSUME Stacks, NEW t \in Threads, ~Idle(t), Top(t).fn = "runItems",
         NEW label \in LoopLabels, Goto(t, label), added' = added, doneFlag' = doneFlag
  PROVE  Stacks' /\ Tops' = [Tops EXCEPT ![t] = LoopAt(label)]
<1>1. PICK f : f = Top(t) OBVIOUS
<1>2. PICK g : g = [f EXCEPT !.pc = label] OBVIOUS
<1>3. f \in Records(t, added) /\ stack[t] # <<>> /\ f = stack[t][Len(stack[t])]
  BY <1>1, TopRecord
<1>4. /\ t \in Workers
      /\ f \in [fn : {"runItems"}, pc : LoopLabels, until : {"done", "values", "empty"},
                values : SUBSET Tasks, left : SUBSET Tasks]
  BY <1>1, <1>3, LoopRecord
<1>5. /\ g \in [fn : {"runItems"}, pc : LoopLabels, until : {"done", "values", "empty"},
                values : SUBSET Tasks, left : SUBSET Tasks]
      /\ g.until = f.until /\ g.fn = "runItems" /\ g.pc = label
  BY <1>2, <1>4
<1>6. g \in Records(t, added')
  BY <1>4, <1>5 DEF Records
<1>7. stack' = [stack EXCEPT ![t] = Append(Below(@), g)]
  BY <1>1, <1>2 DEF Goto, Become
<1>8. Stacks' /\ Tops' = [Tops EXCEPT ![t] = Control(g)]
  BY <1>3, <1>5, <1>6, <1>7, StackBecome
<1>9. Control(g) = LoopAt(label)
  BY <1>5 DEF Control, LoopAt
<1> QED  BY <1>8, <1>9

(* The loop runs a task. *)
LEMMA LoopRuns ==
  ASSUME Stacks, NEW t \in Threads, ~Idle(t), Top(t).fn = "runItems",
         NEW label \in {"top", "local"}, NEW task \in added, added \subseteq Tasks,
         doWork(t, task, label), added' = added, doneFlag' = doneFlag
  PROVE  Stacks' /\ \E c : Quiet(c) /\ Tops' = [Tops EXCEPT ![t] = c]
<1>1. PICK f : f = Top(t) OBVIOUS
<1>2. PICK g : g = [f EXCEPT !.pc = label] OBVIOUS
<1>3. PICK h : h = Calls(task, Body[task]) OBVIOUS
<1>4. f \in Records(t, added) /\ stack[t] # <<>> /\ f = stack[t][Len(stack[t])]
  BY <1>1, TopRecord
<1>5. /\ t \in Workers
      /\ f \in [fn : {"runItems"}, pc : LoopLabels, until : {"done", "values", "empty"},
                values : SUBSET Tasks, left : SUBSET Tasks]
  BY <1>1, <1>4, LoopRecord
<1>6. /\ g \in [fn : {"runItems"}, pc : LoopLabels, until : {"done", "values", "empty"},
                values : SUBSET Tasks, left : SUBSET Tasks]
      /\ g.until = f.until /\ g.fn = "runItems" /\ g.pc = label
  BY <1>2, <1>5 DEF LoopLabels
<1>7. g \in Records(t, added') /\ Paused(g)
  BY <1>5, <1>6 DEF Records, Paused
<1>8. Body[task] \in Seq(CallsOf(t))
  <2>1. Body[task] \in Seq(TaskCalls)
    BY ProgramAssumption DEF ProgramAssumption
  <2>2. TaskCalls \subseteq CallsOf(t)
    BY DEF CallsOf
  <2> QED  BY <2>1, <2>2, SeqGrows
<1>9. h \in Records(t, added') /\ h.fn = "calls"
  BY <1>3, <1>8 DEF Records, Calls
<1>10. stack' = [stack EXCEPT ![t] = Append(Append(Below(@), g), h)]
  BY <1>1, <1>2, <1>3, <1>4 DEF doWork, Top, Stacks
<1>11. Stacks' /\ Tops' = [Tops EXCEPT ![t] = Control(h)]
  BY <1>4, <1>6, <1>7, <1>9, <1>10, StackCall
<1>12. Paused(h)
  BY <1>9 DEF Paused
<1> QED  BY <1>11, <1>12, PausedIsQuiet

(* The loop returns. *)
LEMMA LoopReturns ==
  ASSUME Stacks, NEW t \in Threads, ~Idle(t), Top(t).fn = "runItems",
         Top(t).until = "done" => doneFlag,
         Pop(t), added' = added, doneFlag' = doneFlag
  PROVE  Stacks' /\ \E c : Quiet(c) /\ Tops' = [Tops EXCEPT ![t] = c]
  BY TopRecord, StackReturn DEF Pop

(* The wake-ups stay in order when a thread that owes none and expects     *)
(* none moves on, takes work, or posts a token.                            *)
LEMMA QuietWakeups ==
  ASSUME Data, Wakeups, NEW t \in Threads, NEW c, Quiet(c),
         Tops' = [Tops EXCEPT ![t] = c],
         ~(Tops[t].fn = "addTask" /\ Tops[t].pc \in {"wake", "post"}),
         suspendedThreads' = suspendedThreads, multicastFactor' = multicastFactor,
         doneFlag' = doneFlag,
         sema' \in [Threads -> Nat], \A w \in Workers : sema'[w] >= sema[w],
         t \in Workers \/ taskList' = taskList,
         \A w \in Workers \ {t} : affinityTaskList'[w] = affinityTaskList[w]
  PROVE  Wakeups'
<1>1. Tops'[t] = c /\ \A u \in Threads \ {t} : Tops'[u] = Tops[u]
  BY DEF Tops
<1>2. /\ ~Suspending(c) /\ ~AffinitySeen(c) /\ ~GlobalSeen(c)
      /\ ~(c.fn = "addTask" /\ c.pc \in {"wake", "post"})
      /\ ~(c.fn = "shutdown" /\ c.pc \in {"post", "clear", "join"})
  BY DEF Quiet, Suspending, AffinitySeen, GlobalSeen
<1>3. Woken \subseteq Woken'
  <2> SUFFICES ASSUME NEW w \in Woken PROVE w \in Woken'
    OBVIOUS
  <2>0. w \in Workers /\ w \in Threads
    BY PoolAssumption, SMTT(60) DEF Woken, Workers, Threads, PoolAssumption
  <2>1. CASE sema[w] > 0
    <3>1. sema[w] \in Nat /\ sema'[w] \in Nat /\ sema'[w] >= sema[w]
      BY <2>0 DEF Data
    <3> QED  BY <2>0, <2>1, <3>1, SMTT(60) DEF Woken
  <2>2. CASE \E u \in Threads :
               Tops[u].fn = "addTask" /\ Tops[u].pc = "post" /\ w \in Tops[u].toPost
    BY <1>1, <2>0, <2>2 DEF Woken
  <2> QED  BY <2>1, <2>2 DEF Woken
<1>4. WakingIds' = WakingIds
  BY <1>1, <1>2, SMTT(60) DEF WakingIds
<1>5. Workers \subseteq Threads
  BY PoolAssumption, SMTT(60) DEF Workers, Threads, PoolAssumption
<1>6. ~doneFlag' => BitOrToken'
  BY <1>1, <1>2, <1>3, <1>5 DEF BitOrToken, Wakeups, workerGroup
<1>7. ~doneFlag' => AffinityWoken'
  BY <1>1, <1>2, <1>3, <1>4, <1>5 DEF AffinityWoken, Wakeups
<1>8. ~doneFlag' => GlobalWoken'
  BY <1>1, <1>2, <1>3, <1>4, <1>5 DEF GlobalWoken, Wakeups
<1>9. \A u \in Threads :
        Tops'[u].fn = "shutdown" /\ Tops'[u].pc \in {"post", "clear", "join"} => doneFlag'
  BY <1>1, <1>2 DEF Wakeups
<1> QED  BY <1>6, <1>7, <1>8, <1>9 DEF Wakeups

-----------------------------------------------------------------------------
(***************************************************************************)
(* The steps of runItemsImpl                                               *)
(***************************************************************************)
(* A thread in the loop is a worker, and its top record says so. *)
LEMMA InLoop ==
  ASSUME Stacks, NEW t \in Threads, NEW label, At(t, "runItems", label)
  PROVE  /\ ~Idle(t) /\ Top(t).fn = "runItems" /\ Top(t).pc = label
         /\ t \in Workers
         /\ Tops[t].fn = "runItems" /\ Tops[t].pc = label
         /\ Top(t).until \in {"done", "values", "empty"}
<1>1. ~Idle(t) /\ Top(t).fn = "runItems" /\ Top(t).pc = label
  BY DEF At
<1>2. Top(t) \in Records(t, added) /\ Tops[t] = Control(Top(t))
  BY <1>1, TopRecord
<1>3. t \in Workers /\ Top(t).until \in {"done", "values", "empty"}
  BY <1>1, <1>2, LoopRecord, SMTT(60)
<1> QED  BY <1>1, <1>2, <1>3, SMTT(60) DEF Control

(* A quiet step of a worker in its loop may change the lists. *)
LEMMA QuietWork ==
  ASSUME PoolInv, NEW t \in Threads, Tops[t].fn # "addTask",
         t \in Workers \/ taskList' = taskList,
         Stacks', Data', NEW c, Quiet(c), Tops' = [Tops EXCEPT ![t] = c],
         \A w \in Workers \ {t} : affinityTaskList'[w] = affinityTaskList[w],
         UNCHANGED <<signals, multicastFactor>>
  PROVE  PoolInv'
<1>1. Workers \subseteq Threads
  BY PoolAssumption, SMTT(60) DEF Workers, Threads, PoolAssumption
<1>2. sema' \in [Threads -> Nat] /\ \A w \in Workers : sema'[w] >= sema[w]
  BY <1>1, SMTT(60) DEF PoolInv, Data, signals
<1>3. Wakeups'
  BY <1>2, QuietWakeups DEF PoolInv, signals
<1> QED  BY <1>3 DEF PoolInv

(* A quiet step that leaves the lists and the signals alone. *)
LEMMA QuietMove ==
  ASSUME PoolInv, NEW t \in Threads, Tops[t].fn # "addTask",
         Stacks', NEW c, Quiet(c), Tops' = [Tops EXCEPT ![t] = c],
         UNCHANGED <<lists, locals, signals, ready, added, multicastFactor>>
  PROVE  PoolInv'
<1> USE DEF lists, locals, signals
<1>1. Data'
  BY DEF PoolInv, Data, workerGroup
<1> QED  BY <1>1, QuietWork

(* The loop's stop test keeps the invariant. *)
LEMMA KeepRunningInv ==
  ASSUME PoolInv, NEW t \in Threads, KeepRunning(t), UNCHANGED multicastFactor
  PROVE  PoolInv'
<1>1. Stacks /\ added' = added /\ doneFlag' = doneFlag /\ At(t, "runItems", "top")
  BY DEF PoolInv, KeepRunning, signals
<1>2. /\ ~Idle(t) /\ Top(t).fn = "runItems" /\ t \in Workers /\ Tops[t].fn = "runItems"
  BY <1>1, InLoop
<1>3. CASE EarlyStop(Top(t))
  <2>1. Stacks' /\ \E c : Quiet(c) /\ Tops' = [Tops EXCEPT ![t] = c]
    BY <1>1, <1>2, <1>3, LoopReturns DEF KeepRunning, EarlyStop
  <2> QED  BY <1>2, <2>1, QuietMove DEF KeepRunning
<1>4. CASE ~EarlyStop(Top(t))
  <2>1. Stacks' /\ Tops' = [Tops EXCEPT ![t] = LoopAt("local")]
    BY <1>1, <1>2, <1>4, LoopGoto DEF KeepRunning, LoopLabels
  <2>2. Quiet(LoopAt("local"))
    BY DEF Quiet, LoopAt, Suspending
  <2> QED  BY <1>2, <2>1, <2>2, QuietMove DEF KeepRunning
<1> QED  BY <1>3, <1>4

(* So does every way out of the spin. *)
LEMMA SpinInv ==
  ASSUME PoolInv, NEW t \in Threads, SpinStop(t) \/ SpinAgain(t) \/ SpinTimeout(t),
         UNCHANGED multicastFactor
  PROVE  PoolInv'
<1>1. /\ Stacks /\ added' = added /\ doneFlag' = doneFlag /\ At(t, "runItems", "spinStop")
      /\ UNCHANGED <<lists, locals, signals, ready, added, multicastFactor>>
  BY DEF PoolInv, SpinStop, SpinAgain, SpinTimeout, signals
<1>2. /\ ~Idle(t) /\ Top(t).fn = "runItems" /\ t \in Workers /\ Tops[t].fn = "runItems"
  BY <1>1, InLoop
<1>3. CASE SpinStop(t)
  <2>1. Stacks' /\ \E c : Quiet(c) /\ Tops' = [Tops EXCEPT ![t] = c]
    BY <1>1, <1>2, <1>3, LoopReturns DEF SpinStop, EarlyStop, LateStop
  <2> QED  BY <1>1, <1>2, <2>1, QuietMove
<1>4. CASE SpinAgain(t) \/ SpinTimeout(t)
  <2>1. PICK label \in {"spinAffinity", "spill"} : Goto(t, label)
    BY <1>4 DEF SpinAgain, SpinTimeout
  <2>2. Stacks' /\ Tops' = [Tops EXCEPT ![t] = LoopAt(label)]
    BY <1>1, <1>2, <2>1, LoopGoto DEF LoopLabels
  <2>3. Quiet(LoopAt(label))
    BY DEF Quiet, LoopAt, Suspending
  <2> QED  BY <1>1, <1>2, <2>2, <2>3, QuietMove
<1> QED  BY <1>3, <1>4

(* A worker runs the next task of its local list. *)
LEMMA RunLocalInv ==
  ASSUME PoolInv, NEW t \in Threads, RunLocal(t), UNCHANGED multicastFactor
  PROVE  PoolInv'
<1>1. Stacks /\ Data /\ added' = added /\ doneFlag' = doneFlag /\ At(t, "runItems", "local")
  BY DEF PoolInv, RunLocal, signals
<1>2. /\ ~Idle(t) /\ Top(t).fn = "runItems" /\ t \in Workers /\ Tops[t].fn = "runItems"
  BY <1>1, InLoop
<1>3. PICK i \in Nat, q \in Seq(added) :
        i = nextLocalTaskListIndex[t] /\ q = localTaskList[t] /\ i < Len(q)
  BY <1>1, <1>2 DEF Data, RunLocal
<1>4. q[i + 1] \in added
  BY <1>3, SMTT(60)
<1>5. PICK c : Stacks' /\ Quiet(c) /\ Tops' = [Tops EXCEPT ![t] = c]
  <2>1. doWork(t, q[i + 1], "local")
    BY <1>3 DEF RunLocal
  <2> QED  BY <1>1, <1>2, <1>4, <2>1, LoopRuns DEF Data
<1>6. Data'
  <2>1. /\ nextLocalTaskListIndex' \in [Workers -> Nat]
        /\ \A w \in Workers : nextLocalTaskListIndex'[w] <= Len(localTaskList[w])
    <3>1. nextLocalTaskListIndex' = [nextLocalTaskListIndex EXCEPT ![t] = i + 1]
      BY <1>3, <1>1, <1>2 DEF RunLocal, Data
    <3>2. i + 1 \in Nat /\ i + 1 <= Len(localTaskList[t])
      BY <1>3, SMTT(60)
    <3> QED  BY <1>1, <3>1, <3>2 DEF Data
  <2> QED  BY <1>1, <2>1 DEF Data, RunLocal, lists, signals, workerGroup
<1> QED  BY <1>2, <1>5, <1>6, QuietWork DEF RunLocal, lists

(* A worker clears its local list and goes on to its affinity list. *)
LEMMA LocalDoneInv ==
  ASSUME PoolInv, NEW t \in Threads, LocalDone(t), UNCHANGED multicastFactor
  PROVE  PoolInv'
<1>1. Stacks /\ Data /\ added' = added /\ doneFlag' = doneFlag /\ At(t, "runItems", "local")
  BY DEF PoolInv, LocalDone, signals
<1>2. /\ ~Idle(t) /\ Top(t).fn = "runItems" /\ t \in Workers /\ Tops[t].fn = "runItems"
  BY <1>1, InLoop
<1>3. Stacks' /\ Tops' = [Tops EXCEPT ![t] = LoopAt("affinity")]
  BY <1>1, <1>2, LoopGoto DEF LocalDone, LoopLabels
<1>4. Quiet(LoopAt("affinity"))
  BY DEF Quiet, LoopAt, Suspending
<1>5. Data'
  <2>1. /\ nextLocalTaskListIndex' \in [Workers -> Nat]
        /\ localTaskList' \in [Workers -> Seq(added)]
        /\ \A w \in Workers : nextLocalTaskListIndex'[w] <= Len(localTaskList'[w])
    BY <1>1, <1>2, SMTT(60) DEF LocalDone, Data
  <2> QED  BY <1>1, <2>1 DEF Data, LocalDone, lists, signals, workerGroup
<1> QED  BY <1>2, <1>3, <1>4, <1>5, QuietWork DEF LocalDone, lists

(* A worker runs a task of its affinity list. *)
LEMMA RunAffinityInv ==
  ASSUME PoolInv, NEW t \in Threads, RunAffinity(t), UNCHANGED multicastFactor
  PROVE  PoolInv'
<1>1. Stacks /\ Data /\ added' = added /\ doneFlag' = doneFlag /\ added \subseteq Tasks
  BY DEF PoolInv, Data, RunAffinity, signals
<1>2. PICK label : At(t, "runItems", label)
  BY DEF RunAffinity
<1>3. /\ ~Idle(t) /\ Top(t).fn = "runItems" /\ t \in Workers /\ Tops[t].fn = "runItems"
  BY <1>1, <1>2, InLoop
<1>4. PICK q \in Seq(added) : q = affinityTaskList[t] /\ q # <<>> /\ Len(q) <= AffinityCapacity
  BY <1>1, <1>3 DEF Data, RunAffinity
<1>5. Head(q) \in added /\ Tail(q) \in Seq(added) /\ Len(Tail(q)) <= AffinityCapacity
  <2>1. Len(q) \in Nat /\ Len(q) # 0 /\ AffinityCapacity \in Nat
    BY <1>4, EmptyQueue, PoolAssumption DEF PoolAssumption
  <2> QED  BY <1>4, <2>1, HeadAndTail, SMTT(60)
<1>6. PICK c : Stacks' /\ Quiet(c) /\ Tops' = [Tops EXCEPT ![t] = c]
  <2>1. doWork(t, Head(q), "top")
    BY <1>4 DEF RunAffinity
  <2> QED  BY <1>1, <1>3, <1>5, <2>1, LoopRuns
<1>7. affinityTaskList' = [affinityTaskList EXCEPT ![t] = Tail(q)]
  BY <1>1, <1>3, <1>4 DEF RunAffinity, Data
<1>8. Data'
  <2>1. /\ affinityTaskList' \in [Workers -> Seq(added)]
        /\ \A w \in Workers : Len(affinityTaskList'[w]) <= AffinityCapacity
    BY <1>1, <1>5, <1>7 DEF Data
  <2> QED  BY <1>1, <2>1 DEF Data, RunAffinity, locals, signals, workerGroup
<1>9. \A w \in Workers \ {t} : affinityTaskList'[w] = affinityTaskList[w]
  BY <1>1, <1>7 DEF Data
<1> QED  BY <1>3, <1>6, <1>8, <1>9, QuietWork DEF RunAffinity

(* A worker runs a task of the global list. *)
LEMMA RunGlobalInv ==
  ASSUME PoolInv, NEW t \in Threads, RunGlobal(t), UNCHANGED multicastFactor
  PROVE  PoolInv'
<1>1. Stacks /\ Data /\ added' = added /\ doneFlag' = doneFlag /\ added \subseteq Tasks
  BY DEF PoolInv, Data, RunGlobal, signals
<1>2. PICK label : At(t, "runItems", label)
  BY DEF RunGlobal
<1>3. /\ ~Idle(t) /\ Top(t).fn = "runItems" /\ t \in Workers /\ Tops[t].fn = "runItems"
  BY <1>1, <1>2, InLoop
<1>4. PICK task \in taskList : taskList' = taskList \ {task} /\ doWork(t, task, "top")
  BY DEF RunGlobal
<1>5. PICK c : Stacks' /\ Quiet(c) /\ Tops' = [Tops EXCEPT ![t] = c]
  <2>1. task \in added
    BY <1>1 DEF Data
  <2> QED  BY <1>1, <1>3, <1>4, <2>1, LoopRuns
<1>6. Data'
  BY <1>1, <1>4 DEF Data, RunGlobal, locals, signals, workerGroup
<1> QED  BY <1>3, <1>5, <1>6, QuietWork DEF RunGlobal

(* A worker moves its spill queue to its local list: still tasks that      *)
(* were added, and the index stays within the list.                        *)
LEMMA DrainSpillInv ==
  ASSUME PoolInv, NEW t \in Threads, DrainSpill(t), UNCHANGED multicastFactor
  PROVE  PoolInv'
<1>1. Stacks /\ Data /\ added' = added /\ doneFlag' = doneFlag /\ At(t, "runItems", "spill")
  BY DEF PoolInv, DrainSpill, signals
<1>2. /\ ~Idle(t) /\ Top(t).fn = "runItems" /\ t \in Workers /\ Tops[t].fn = "runItems"
  BY <1>1, InLoop
<1>3. PICK label \in {"overflow", "top"} : Goto(t, label)
  BY DEF DrainSpill
<1>4. Stacks' /\ Tops' = [Tops EXCEPT ![t] = LoopAt(label)]
  BY <1>1, <1>2, <1>3, LoopGoto DEF LoopLabels
<1>5. Quiet(LoopAt(label))
  BY DEF Quiet, LoopAt, Suspending
<1>6. Data'
  <2>1. PICK p \in Seq(added), q \in Seq(added) :
          p = localTaskList[t] /\ q = localSpillQueue[t]
    BY <1>1, <1>2 DEF Data
  <2> DEFINE popped == [k \in 1..Len(q) |-> q[Len(q) + 1 - k]]
  <2>2. popped \in Seq(added) /\ Len(popped) \in Nat
    BY SMTT(60)
  <2>3. PICK r \in Seq(added) : r = p \o popped /\ Len(r) = Len(p) + Len(popped)
    <3> HIDE DEF popped
    <3> QED  BY <2>2, Joined
  <2>4. Len(p) \in Nat /\ Len(r) \in Nat /\ Len(r) >= Len(p)
    BY <2>2, <2>3, SMTT(60)
  <2>5. localTaskList' = [localTaskList EXCEPT ![t] = r]
    BY <1>1, <1>2, <2>1, <2>3 DEF DrainSpill, Data
  <2>6. localTaskList' \in [Workers -> Seq(added)]
    BY <1>1, <2>5 DEF Data
  <2>7. localSpillQueue' \in [Workers -> Seq(added)]
    <3>1. PICK none \in Seq(added) : none = <<>>
      BY EmptyQueue
    <3>2. localSpillQueue' = [localSpillQueue EXCEPT ![t] = none]
      BY <3>1 DEF DrainSpill
    <3> QED  BY <1>1, <3>2 DEF Data
  <2>8. \A w \in Workers : nextLocalTaskListIndex[w] <= Len(localTaskList'[w])
    <3> SUFFICES ASSUME NEW w \in Workers
                 PROVE  nextLocalTaskListIndex[w] <= Len(localTaskList'[w])
      OBVIOUS
    <3>1. CASE w # t  BY <1>1, <2>5, <3>1 DEF Data
    <3>2. CASE w = t
      <4>1. localTaskList'[t] = r
        BY <1>1, <1>2, <2>5 DEF Data
      <4>2. nextLocalTaskListIndex[t] \in Nat /\ nextLocalTaskListIndex[t] <= Len(p)
        BY <1>1, <1>2, <2>1 DEF Data
      <4> QED  BY <2>4, <3>2, <4>1, <4>2, SMTT(60)
    <3> QED  BY <3>1, <3>2
  <2> QED  BY <1>1, <2>6, <2>7, <2>8 DEF Data, DrainSpill, signals, workerGroup
<1> QED  BY <1>2, <1>4, <1>5, <1>6, QuietWork DEF DrainSpill

(* A worker pumps the overflow list back into the global list. *)
LEMMA PumpOverflowInv ==
  ASSUME PoolInv, NEW t \in Threads, PumpOverflow(t), UNCHANGED multicastFactor
  PROVE  PoolInv'
<1>1. Stacks /\ Data /\ added' = added /\ doneFlag' = doneFlag /\ At(t, "runItems", "overflow")
  BY DEF PoolInv, PumpOverflow, signals
<1>2. /\ ~Idle(t) /\ Top(t).fn = "runItems" /\ t \in Workers /\ Tops[t].fn = "runItems"
  BY <1>1, InLoop
<1>3. PICK label \in {"markSuspended", "top"} : Goto(t, label)
  BY DEF PumpOverflow
<1>4. Stacks' /\ Tops' = [Tops EXCEPT ![t] = LoopAt(label)]
  BY <1>1, <1>2, <1>3, LoopGoto DEF LoopLabels
<1>5. Quiet(LoopAt(label))
  BY DEF Quiet, LoopAt, Suspending
<1>6. Data'
  <2>1. PICK q \in Seq(added) : q = overflowTaskList
    BY <1>1 DEF Data
  <2>2. PICK kept \in 0..Len(q) :
          /\ overflowTaskList' = SubSeq(q, 1, kept)
          /\ taskList' = taskList \cup {q[i] : i \in (kept + 1)..Len(q)}
    BY <2>1, SMTT(60) DEF PumpOverflow
  <2>3. \A i \in 1..Len(q) : q[i] \in added
    BY SMTT(60)
  <2>4. Len(q) \in Nat
    BY SMTT(60)
  <2>5. SubSeq(q, 1, kept) \in Seq(added)
    BY <2>3, <2>4, Part, SMTT(60)
  <2>6. taskList' \subseteq added
    BY <1>1, <2>2, <2>3, <2>4, SMTT(60) DEF Data
  <2> QED  BY <1>1, <2>2, <2>5, <2>6 DEF Data, PumpOverflow, locals, signals, workerGroup
<1> QED  BY <1>2, <1>4, <1>5, <1>6, QuietWork DEF PumpOverflow

(* A worker that goes on in its loop changes no promise of a token. *)
LEMMA LoopSignals ==
  ASSUME NEW t \in Threads, Tops[t].fn = "runItems", NEW label \in LoopLabels,
         Tops' = [Tops EXCEPT ![t] = LoopAt(label)]
  PROVE  /\ Tops'[t] = LoopAt(label) /\ \A u \in Threads \ {t} : Tops'[u] = Tops[u]
         /\ WakingIds' = WakingIds
         /\ sema' = sema => Woken' = Woken
         /\ \A w \in Workers \ {t} : sema'[w] = sema[w] => (w \in Woken <=> w \in Woken')
<1>1. Tops'[t] = LoopAt(label) /\ \A u \in Threads \ {t} : Tops'[u] = Tops[u]
  BY DEF Tops
<1>2. Tops'[t].fn = "runItems"
  BY <1>1, SMTT(60) DEF LoopAt
<1>3. WakingIds' = WakingIds
  BY <1>1, <1>2 DEF WakingIds
<1>4. \A w : (\E u \in Threads : Tops[u].fn = "addTask" /\ Tops[u].pc = "post" /\ w \in Tops[u].toPost)
        <=> (\E u \in Threads : Tops'[u].fn = "addTask" /\ Tops'[u].pc = "post" /\ w \in Tops'[u].toPost)
  BY <1>1, <1>2
<1>5. sema' = sema => Woken' = Woken
  BY <1>4 DEF Woken
<1>6. \A w \in Workers \ {t} : sema'[w] = sema[w] => (w \in Woken <=> w \in Woken')
  BY <1>4 DEF Woken
<1> QED  BY <1>1, <1>3, <1>5, <1>6

(* What a step of the loop leaves of Wakeups to show: the worker itself.   *)
LEMMA LoopWakeups ==
  ASSUME PoolInv, NEW t \in Workers, Tops[t].fn = "runItems", NEW label \in LoopLabels,
         Tops' = [Tops EXCEPT ![t] = LoopAt(label)],
         suspendedThreads \subseteq suspendedThreads',
         UNCHANGED <<taskList, affinityTaskList, sema, doneFlag, multicastFactor>>,
         Suspending(LoopAt(label)) =>
           Suspending(Tops[t]) \/ workerGroup(t) \in suspendedThreads',
         AffinitySeen(LoopAt(label)) => AffinitySeen(Tops[t]) \/ affinityTaskList[t] = <<>>,
         GlobalSeen(LoopAt(label)) => GlobalSeen(Tops[t]) \/ taskList = {}
  PROVE  Wakeups'
<1>1. Workers \subseteq Threads
  BY PoolAssumption, SMTT(60) DEF Workers, Threads, PoolAssumption
<1>2. /\ Tops'[t] = LoopAt(label) /\ \A u \in Threads \ {t} : Tops'[u] = Tops[u]
      /\ WakingIds' = WakingIds /\ Woken' = Woken
  BY <1>1, LoopSignals
<1>3. ~doneFlag' => BitOrToken'
  BY <1>1, <1>2 DEF BitOrToken, PoolInv, Wakeups, workerGroup
<1>4. ~doneFlag' => AffinityWoken'
  BY <1>1, <1>2 DEF AffinityWoken, PoolInv, Wakeups
<1>5. ~doneFlag' => GlobalWoken'
  BY <1>1, <1>2 DEF GlobalWoken, PoolInv, Wakeups
<1>6. \A u \in Threads :
        Tops'[u].fn = "shutdown" /\ Tops'[u].pc \in {"post", "clear", "join"} => doneFlag'
  BY <1>2, SMTT(60) DEF PoolInv, Wakeups, LoopAt
<1> QED  BY <1>3, <1>4, <1>5, <1>6 DEF Wakeups

(* A worker found its affinity list empty: before the bit is set that says *)
(* nothing, after it the worker may go on towards its sleep.               *)
LEMMA NoAffinityInv ==
  ASSUME PoolInv, NEW t \in Threads, NoAffinity(t), UNCHANGED multicastFactor
  PROVE  PoolInv'
<1>1. PICK look \in AffinityLooks :
        At(t, "runItems", look[1]) /\ affinityTaskList[t] = <<>> /\ Goto(t, look[2])
  BY DEF NoAffinity
<1>2. Stacks /\ UNCHANGED <<lists, locals, signals, ready, added, multicastFactor>>
  BY DEF PoolInv, NoAffinity
<1>3. /\ ~Idle(t) /\ Top(t).fn = "runItems" /\ t \in Workers
      /\ Tops[t].fn = "runItems" /\ Tops[t].pc = look[1]
  BY <1>1, <1>2, InLoop
<1>4. PICK label \in {"global", "spinGlobal", "preGlobal"} :
        look[2] = label /\ (label = "preGlobal" => look[1] = "preAffinity")
  BY <1>1, SMTT(60) DEF AffinityLooks
<1>5. Stacks' /\ Tops' = [Tops EXCEPT ![t] = LoopAt(label)]
  BY <1>1, <1>2, <1>3, <1>4, LoopGoto, SMTT(60) DEF LoopLabels, signals
<1>6. Data'
  BY <1>2 DEF PoolInv, Data, workerGroup, lists, locals, signals
<1>7. Wakeups'
  BY <1>1, <1>2, <1>3, <1>4, <1>5, LoopWakeups
  DEF LoopLabels, LoopAt, Suspending, AffinitySeen, GlobalSeen, lists, signals
<1> QED  BY <1>5, <1>6, <1>7 DEF PoolInv

(* A worker found the global list empty, before or after it set its bit. *)
LEMMA NoGlobalInv ==
  ASSUME PoolInv, NEW t \in Threads, NoGlobal(t), UNCHANGED multicastFactor
  PROVE  PoolInv'
<1>1. PICK look \in GlobalLooks :
        /\ At(t, "runItems", look[1]) /\ taskList = {}
        /\ IF Top(t).until = "empty" THEN Pop(t) ELSE Goto(t, look[2])
  BY DEF NoGlobal
<1>2. /\ Stacks /\ added' = added /\ doneFlag' = doneFlag
      /\ UNCHANGED <<lists, locals, signals, ready, added, multicastFactor>>
  BY DEF PoolInv, NoGlobal, signals
<1>3. /\ ~Idle(t) /\ Top(t).fn = "runItems" /\ t \in Workers
      /\ Tops[t].fn = "runItems" /\ Tops[t].pc = look[1]
  BY <1>1, <1>2, InLoop
<1>4. CASE Top(t).until = "empty"
  <2>1. Stacks' /\ \E c : Quiet(c) /\ Tops' = [Tops EXCEPT ![t] = c]
    BY <1>1, <1>2, <1>3, <1>4, LoopReturns
  <2> QED  BY <1>2, <1>3, <2>1, QuietMove
<1>5. CASE Top(t).until # "empty"
  <2>1. PICK label \in {"spinAffinity", "spinStop", "preStop"} :
          look[2] = label /\ (label = "preStop" => look[1] = "preGlobal")
    BY <1>1, SMTT(60) DEF GlobalLooks
  <2>2. Stacks' /\ Tops' = [Tops EXCEPT ![t] = LoopAt(label)]
    BY <1>1, <1>2, <1>3, <1>5, <2>1, LoopGoto DEF LoopLabels
  <2>3. Data'
    BY <1>2 DEF PoolInv, Data, workerGroup, lists, locals, signals
  <2>4. Wakeups'
    BY <1>1, <1>2, <1>3, <2>1, <2>2, LoopWakeups
    DEF LoopLabels, LoopAt, Suspending, AffinitySeen, GlobalSeen, lists, signals
  <2> QED  BY <2>2, <2>3, <2>4 DEF PoolInv
<1> QED  BY <1>4, <1>5

(* A worker sets its bit and looks at everything once more. *)
LEMMA MarkSuspendedInv ==
  ASSUME PoolInv, NEW t \in Threads, MarkSuspended(t), UNCHANGED multicastFactor
  PROVE  PoolInv'
<1>1. Stacks /\ added' = added /\ doneFlag' = doneFlag /\ At(t, "runItems", "markSuspended")
  BY DEF PoolInv, MarkSuspended
<1>2. /\ ~Idle(t) /\ Top(t).fn = "runItems" /\ t \in Workers /\ Tops[t].fn = "runItems"
  BY <1>1, InLoop
<1>3. Stacks' /\ Tops' = [Tops EXCEPT ![t] = LoopAt("preAffinity")]
  BY <1>1, <1>2, LoopGoto DEF MarkSuspended, LoopLabels
<1>4. Data'
  BY <1>2 DEF PoolInv, Data, MarkSuspended, markSuspended, workerGroup, lists, locals
<1>5. Wakeups'
  BY <1>2, <1>3, LoopWakeups
  DEF MarkSuspended, markSuspended, LoopLabels, LoopAt, AffinitySeen, GlobalSeen, lists
<1> QED  BY <1>3, <1>4, <1>5 DEF PoolInv

(* The stop test between the second look and the sleep. *)
LEMMA PreSuspendStopInv ==
  ASSUME PoolInv, NEW t \in Threads, PreSuspendStop(t), UNCHANGED multicastFactor
  PROVE  PoolInv'
<1>1. /\ Stacks /\ added' = added /\ doneFlag' = doneFlag /\ At(t, "runItems", "preStop")
      /\ UNCHANGED <<lists, locals, signals, ready, added, multicastFactor>>
  BY DEF PoolInv, PreSuspendStop, signals
<1>2. /\ ~Idle(t) /\ Top(t).fn = "runItems" /\ t \in Workers
      /\ Tops[t].fn = "runItems" /\ Tops[t].pc = "preStop"
  BY <1>1, InLoop
<1>3. CASE EarlyStop(Top(t))
  <2>1. Stacks' /\ \E c : Quiet(c) /\ Tops' = [Tops EXCEPT ![t] = c]
    BY <1>1, <1>2, <1>3, LoopReturns DEF PreSuspendStop, EarlyStop
  <2> QED  BY <1>1, <1>2, <2>1, QuietMove
<1>4. CASE ~EarlyStop(Top(t))
  <2>1. Stacks' /\ Tops' = [Tops EXCEPT ![t] = LoopAt("sleep")]
    BY <1>1, <1>2, <1>4, LoopGoto DEF PreSuspendStop, LoopLabels
  <2>2. Data'
    BY <1>1 DEF PoolInv, Data, workerGroup, lists, locals, signals
  <2>3. Wakeups'
    BY <1>1, <1>2, <2>1, LoopWakeups
    DEF LoopLabels, LoopAt, Suspending, AffinitySeen, GlobalSeen, lists, signals
  <2> QED  BY <2>1, <2>2, <2>3 DEF PoolInv
<1> QED  BY <1>3, <1>4

(* A worker takes its token and starts its loop again. *)
LEMMA WakeUpInv ==
  ASSUME PoolInv, NEW t \in Threads, WakeUp(t), UNCHANGED multicastFactor
  PROVE  PoolInv'
<1>1. Stacks /\ added' = added /\ doneFlag' = doneFlag /\ At(t, "runItems", "sleep")
  BY DEF PoolInv, WakeUp
<1>2. /\ ~Idle(t) /\ Top(t).fn = "runItems" /\ t \in Workers /\ Tops[t].fn = "runItems"
  BY <1>1, InLoop
<1>3. Stacks' /\ Tops' = [Tops EXCEPT ![t] = LoopAt("top")]
  BY <1>1, <1>2, LoopGoto DEF WakeUp, LoopLabels
<1>4. sema' \in [Threads -> Nat] /\ \A u \in Threads \ {t} : sema'[u] = sema[u]
  BY SMTT(60) DEF PoolInv, Data, WakeUp
<1>5. Data'
  BY <1>4 DEF PoolInv, Data, WakeUp, workerGroup, lists, locals
<1>6. Workers \subseteq Threads
  BY PoolAssumption, SMTT(60) DEF Workers, Threads, PoolAssumption
<1>7. /\ Tops'[t] = LoopAt("top") /\ \A u \in Threads \ {t} : Tops'[u] = Tops[u]
      /\ WakingIds' = WakingIds
      /\ \A w \in Workers \ {t} : sema'[w] = sema[w] => (w \in Woken <=> w \in Woken')
  BY <1>2, <1>3, LoopSignals DEF LoopLabels
<1>8. \A w \in Workers \ {t} : w \in Woken <=> w \in Woken'
  BY <1>4, <1>6, <1>7
<1>9. /\ ~Suspending(LoopAt("top")) /\ ~AffinitySeen(LoopAt("top"))
      /\ ~GlobalSeen(LoopAt("top")) /\ LoopAt("top").fn = "runItems"
  BY DEF LoopAt, Suspending, AffinitySeen, GlobalSeen
<1>10. ~doneFlag' => BitOrToken'
  BY <1>6, <1>7, <1>8, <1>9 DEF BitOrToken, PoolInv, Wakeups, workerGroup, WakeUp
<1>11. ~doneFlag' => AffinityWoken'
  BY <1>6, <1>7, <1>8, <1>9 DEF AffinityWoken, PoolInv, Wakeups, WakeUp, lists
<1>12. ~doneFlag' => GlobalWoken'
  BY <1>2, <1>7, <1>9 DEF GlobalWoken
<1>13. \A u \in Threads :
         Tops'[u].fn = "shutdown" /\ Tops'[u].pc \in {"post", "clear", "join"} => doneFlag'
  BY <1>1, <1>7, <1>9 DEF PoolInv, Wakeups
<1> QED  BY <1>3, <1>5, <1>10, <1>11, <1>12, <1>13 DEF PoolInv, Wakeups

-----------------------------------------------------------------------------
(***************************************************************************)
(* The steps of addTask                                                    *)
(***************************************************************************)
AddTaskLabels == {"enqueue", "spill", "wake", "post"}

(* What the others see of an addTask. *)
AddTaskAt(label, id, targets) ==
  [fn |-> "addTask", pc |-> label, taskId |-> id, toPost |-> targets]

(* Its fields. *)
LEMMA AddTaskFields ==
  ASSUME NEW label, NEW id, NEW targets, NEW c, c = AddTaskAt(label, id, targets)
  PROVE  c.fn = "addTask" /\ c.pc = label /\ c.taskId = id /\ c.toPost = targets
  BY DEF AddTaskAt

(* A step that changes what one thread shows. *)
LEMMA OneTop ==
  ASSUME NEW t \in Threads, NEW c, Tops' = [Tops EXCEPT ![t] = c]
  PROVE  Tops'[t] = c /\ \A u \in Threads \ {t} : Tops'[u] = Tops[u]
  BY DEF Tops

(* The record of a thread that is in addTask. *)
LEMMA InAddTask ==
  ASSUME Stacks, NEW t \in Threads, NEW label, At(t, "addTask", label)
  PROVE  /\ ~Idle(t) /\ Top(t).fn = "addTask"
         /\ Top(t) \in [fn : {"addTask"}, pc : AddTaskLabels, task : added,
                        taskId : Workers \cup {kDefaultTaskId}, toPost : SUBSET Workers]
         /\ Tops[t] = AddTaskAt(label, Top(t).taskId, Top(t).toPost)
<1>1. ~Idle(t) /\ Top(t).fn = "addTask" /\ Top(t).pc = label
  BY DEF At
<1>2. PICK f : f = Top(t) /\ f \in Records(t, added) /\ Tops[t] = Control(f)
  BY <1>1, TopRecord
<1>3. f \in [fn : {"addTask"}, pc : AddTaskLabels, task : added,
             taskId : Workers \cup {kDefaultTaskId}, toPost : SUBSET Workers]
  BY <1>1, <1>2 DEF Records, AddTaskLabels
<1>4. Control(f) = AddTaskAt(label, f.taskId, f.toPost)
  BY <1>1, <1>2 DEF Control, AddTaskAt
<1> QED  BY <1>1, <1>2, <1>3, <1>4

(* addTask goes on. *)
LEMMA AddTaskBecomes ==
  ASSUME Stacks, NEW t \in Threads, NEW from, At(t, "addTask", from),
         NEW label \in AddTaskLabels, NEW targets \in SUBSET Workers,
         \/ Become(t, [Top(t) EXCEPT !.pc = label, !.toPost = targets])
         \/ Goto(t, label) /\ targets = Top(t).toPost,
         added' = added, doneFlag' = doneFlag
  PROVE  Stacks' /\ Tops' = [Tops EXCEPT ![t] = AddTaskAt(label, Top(t).taskId, targets)]
<1>1. PICK f : f = Top(t) OBVIOUS
<1>2. /\ ~Idle(t)
      /\ f \in [fn : {"addTask"}, pc : AddTaskLabels, task : added,
                taskId : Workers \cup {kDefaultTaskId}, toPost : SUBSET Workers]
  BY <1>1, InAddTask
<1>3. PICK g : g = [f EXCEPT !.pc = label, !.toPost = targets] OBVIOUS
<1>4. /\ g \in [fn : {"addTask"}, pc : AddTaskLabels, task : added,
                taskId : Workers \cup {kDefaultTaskId}, toPost : SUBSET Workers]
      /\ g.fn = "addTask" /\ g.pc = label /\ g.taskId = f.taskId /\ g.toPost = targets
  BY <1>2, <1>3
<1>5. g \in Records(t, added')
  BY <1>4 DEF Records, AddTaskLabels
<1>6. targets = f.toPost => g = [f EXCEPT !.pc = label]
  BY <1>2, <1>3
<1>7. stack' = [stack EXCEPT ![t] = Append(Below(@), g)]
  BY <1>1, <1>3, <1>6 DEF Goto, Become
<1>8. stack[t] # <<>> /\ stack[t][Len(stack[t])] = f
  BY <1>1, <1>2, TopRecord
<1>9. Stacks' /\ Tops' = [Tops EXCEPT ![t] = Control(g)]
  BY <1>2, <1>5, <1>7, <1>8, StackBecome
<1>10. Control(g) = AddTaskAt(label, f.taskId, targets)
  BY <1>4 DEF Control, AddTaskAt
<1> QED  BY <1>1, <1>9, <1>10

(* A call other than the loop returns. *)
LEMMA CallReturns ==
  ASSUME Stacks, NEW t \in Threads, ~Idle(t), Top(t).fn # "runItems",
         Pop(t), added' = added, doneFlag' = doneFlag
  PROVE  Stacks' /\ \E c : Quiet(c) /\ Tops' = [Tops EXCEPT ![t] = c]
  BY TopRecord, StackReturn DEF Pop

(* What a step of addTask has to show about the wake-ups: no token is      *)
(* lost, and each obligation it takes away is met.                         *)
LEMMA AddTaskWakeups ==
  ASSUME Wakeups, NEW t \in Threads, Tops[t].fn = "addTask", NEW c,
         c.fn = "addTask" \/ Quiet(c), Tops' = [Tops EXCEPT ![t] = c],
         doneFlag' = doneFlag, multicastFactor' = multicastFactor, Woken \subseteq Woken',
         ~doneFlag => \A w \in Workers :
           Suspending(Tops[w]) /\ workerGroup(w) \in suspendedThreads =>
             workerGroup(w) \in suspendedThreads' \/ w \in Woken',
         ~doneFlag => \A w \in Workers :
           affinityTaskList'[w] # <<>> /\ AffinitySeen(Tops[w]) /\ w \notin WakingIds' =>
             w \in Woken' \/ (affinityTaskList[w] # <<>> /\ w \notin WakingIds),
         ~doneFlag =>
           (taskList' # {} /\ kDefaultTaskId \notin WakingIds' =>
             \/ taskList # {} /\ kDefaultTaskId \notin WakingIds
             \/ \E w \in Workers : ~GlobalSeen(Tops[w]) \/ w \in Woken')
  PROVE  Wakeups'
<1>1. Tops'[t] = c /\ \A u \in Threads \ {t} : Tops'[u] = Tops[u]
  BY DEF Tops
<1>2. /\ ~Suspending(c) /\ ~AffinitySeen(c) /\ ~GlobalSeen(c)
      /\ ~(c.fn = "shutdown" /\ c.pc \in {"post", "clear", "join"})
  BY DEF Quiet, Suspending, AffinitySeen, GlobalSeen
<1>3. Workers \subseteq Threads
  BY PoolAssumption, SMTT(60) DEF Workers, Threads, PoolAssumption
<1>4. \A w \in Workers :
        /\ Suspending(Tops'[w]) => Suspending(Tops[w])
        /\ AffinitySeen(Tops'[w]) => AffinitySeen(Tops[w])
        /\ GlobalSeen(Tops'[w]) => GlobalSeen(Tops[w])
  BY <1>1, <1>2, <1>3
<1>5. ~doneFlag' => BitOrToken'
  BY <1>4 DEF BitOrToken, Wakeups, workerGroup
<1>6. ~doneFlag' => AffinityWoken'
  BY <1>4 DEF AffinityWoken, Wakeups
<1>7. ~doneFlag' => GlobalWoken'
  BY <1>4 DEF GlobalWoken, Wakeups
<1>8. \A u \in Threads :
        Tops'[u].fn = "shutdown" /\ Tops'[u].pc \in {"post", "clear", "join"} => doneFlag'
  BY <1>1, <1>2 DEF Wakeups
<1> QED  BY <1>5, <1>6, <1>7, <1>8 DEF Wakeups

(* An addTask that has enqueued for an id is about to wake someone. *)
LEMMA EnqueuedWakeups ==
  ASSUME Wakeups, NEW t \in Threads, NEW from \in {"enqueue", "spill"},
         NEW id \in Workers \cup {kDefaultTaskId}, NEW targets, NEW before,
         Tops[t] = AddTaskAt(from, id, before),
         Tops' = [Tops EXCEPT ![t] = AddTaskAt("wake", id, targets)],
         UNCHANGED <<signals, multicastFactor>>,
         taskList' = taskList \/ id = kDefaultTaskId,
         \A w \in Workers \ {id} : affinityTaskList'[w] = affinityTaskList[w]
  PROVE  Wakeups'
<1>1. /\ Tops'[t] = AddTaskAt("wake", id, targets)
      /\ \A u \in Threads \ {t} : Tops'[u] = Tops[u]
  BY DEF Tops
<1>2. Woken' = Woken
  <2>1. Tops'[t].pc # "post" /\ Tops[t].pc # "post" /\ sema' = sema
    BY <1>1, SMTT(60) DEF AddTaskAt, signals
  <2> QED  BY <1>1, <2>1 DEF Woken
<1>3. id \in WakingIds' /\ WakingIds \subseteq WakingIds'
  <2>1. /\ Tops'[t].fn = "addTask" /\ Tops'[t].pc = "wake" /\ Tops'[t].taskId = id
        /\ Tops[t].pc # "wake"
    BY <1>1, SMTT(60) DEF AddTaskAt
  <2> QED  BY <1>1, <2>1 DEF WakingIds
<1>4. Tops[t].fn = "addTask" /\ AddTaskAt("wake", id, targets).fn = "addTask"
  BY SMTT(60) DEF AddTaskAt
<1> QED  BY <1>2, <1>3, <1>4, AddTaskWakeups DEF signals

(* addTask into an affinity list, or on to its spill queue. *)
LEMMA AddAffinityTaskInv ==
  ASSUME PoolInv, NEW t \in Threads, AddAffinityTask(t), UNCHANGED multicastFactor
  PROVE  PoolInv'
<1>1. Stacks /\ Data /\ Wakeups /\ At(t, "addTask", "enqueue")
  BY DEF PoolInv, AddAffinityTask
<1>2. PICK f : f = Top(t) /\ f \in [fn : {"addTask"}, pc : AddTaskLabels, task : added,
                       taskId : Workers \cup {kDefaultTaskId}, toPost : SUBSET Workers]
  BY <1>1, InAddTask
<1>3. Tops[t] = AddTaskAt("enqueue", f.taskId, f.toPost)
  BY <1>1, <1>2, InAddTask
<1>4. PICK w \in Workers : w = f.taskId
  BY <1>2 DEF AddAffinityTask
<1>5. /\ added' = added /\ doneFlag' = doneFlag
      /\ UNCHANGED <<taskList, overflowTaskList, localSpillQueue, locals, signals, ready, added>>
  BY DEF AddAffinityTask, signals
<1>6. CASE /\ Len(affinityTaskList[w]) < AffinityCapacity
           /\ affinityTaskList' = [affinityTaskList EXCEPT ![w] = Append(@, f.task)]
           /\ Goto(t, "wake")
  <2>1. Stacks' /\ Tops' = [Tops EXCEPT ![t] = AddTaskAt("wake", w, f.toPost)]
    BY <1>1, <1>2, <1>4, <1>5, <1>6, AddTaskBecomes DEF AddTaskLabels
  <2>2. PICK s \in Seq(added) : s = affinityTaskList[w]
    BY <1>1 DEF Data
  <2>3. PICK r \in Seq(added) : r = Append(s, f.task) /\ Len(r) = Len(s) + 1
    <3>1. f.task \in added
      BY <1>2
    <3> QED  BY <3>1, Appended
  <2>4. affinityTaskList' = [affinityTaskList EXCEPT ![w] = r]
    BY <1>1, <1>6, <2>2, <2>3 DEF Data
  <2>5. /\ affinityTaskList' \in [Workers -> Seq(added)] /\ affinityTaskList'[w] = r
        /\ \A u \in Workers \ {w} : affinityTaskList'[u] = affinityTaskList[u]
    BY <1>1, <2>4 DEF Data
  <2>6. Len(r) <= AffinityCapacity
    <3>1. Len(s) \in Nat /\ AffinityCapacity \in Nat /\ Len(s) < AffinityCapacity
      BY <1>6, <2>2, PoolAssumption, SMTT(60) DEF PoolAssumption
    <3> QED  BY <2>3, <3>1, SMTT(60)
  <2>7. \A u \in Workers : Len(affinityTaskList'[u]) <= AffinityCapacity
    BY <1>1, <2>5, <2>6 DEF Data
  <2>8. Data'
    BY <1>1, <1>5, <2>5, <2>7 DEF Data, locals, signals, workerGroup
  <2>9. Wakeups'
    BY <1>1, <1>3, <1>4, <1>5, <2>1, <2>5, EnqueuedWakeups
  <2> QED  BY <2>1, <2>8, <2>9 DEF PoolInv
<1>7. CASE Goto(t, "spill") /\ affinityTaskList' = affinityTaskList
  <2>1. Stacks' /\ Tops' = [Tops EXCEPT ![t] = AddTaskAt("spill", w, f.toPost)]
    BY <1>1, <1>2, <1>4, <1>5, <1>7, AddTaskBecomes DEF AddTaskLabels
  <2>2. Data'
    BY <1>1, <1>5, <1>7 DEF Data, locals, signals, workerGroup
  <2>3. Quiet(AddTaskAt("spill", w, f.toPost))
    BY DEF Quiet, AddTaskAt, Suspending
  <2>4. ~(Tops[t].fn = "addTask" /\ Tops[t].pc \in {"wake", "post"})
    BY <1>3, SMTT(60) DEF AddTaskAt
  <2>5. sema' \in [Threads -> Nat] /\ \A u \in Workers : sema'[u] >= sema[u]
    <3>1. Workers \subseteq Threads
      BY PoolAssumption, SMTT(60) DEF Workers, Threads, PoolAssumption
    <3> QED  BY <1>1, <1>5, <3>1, SMTT(60) DEF Data, signals
  <2>6. Wakeups'
    BY <1>1, <1>5, <1>7, <2>1, <2>3, <2>4, <2>5, QuietWakeups DEF signals
  <2> QED  BY <2>1, <2>2, <2>6 DEF PoolInv
<1> QED  BY <1>2, <1>4, <1>6, <1>7 DEF AddAffinityTask

(* addTask into a worker's spill queue. *)
LEMMA AddSpilledTaskInv ==
  ASSUME PoolInv, NEW t \in Threads, AddSpilledTask(t), UNCHANGED multicastFactor
  PROVE  PoolInv'
<1>1. Stacks /\ Data /\ Wakeups /\ At(t, "addTask", "spill")
  BY DEF PoolInv, AddSpilledTask
<1>2. PICK f : f = Top(t) /\ f \in [fn : {"addTask"}, pc : AddTaskLabels, task : added,
                       taskId : Workers \cup {kDefaultTaskId}, toPost : SUBSET Workers]
  BY <1>1, InAddTask
<1>3. Tops[t] = AddTaskAt("spill", f.taskId, f.toPost)
  BY <1>1, <1>2, InAddTask
<1>5. /\ added' = added /\ doneFlag' = doneFlag /\ Goto(t, "wake")
      /\ UNCHANGED <<taskList, overflowTaskList, affinityTaskList, locals, signals, ready, added>>
  BY DEF AddSpilledTask, signals
<1>6. Stacks' /\ Tops' = [Tops EXCEPT ![t] = AddTaskAt("wake", f.taskId, f.toPost)]
  BY <1>1, <1>2, <1>5, AddTaskBecomes DEF AddTaskLabels
<1>7. localSpillQueue' \in [Workers -> Seq(added)]
  <2>1. localSpillQueue' = [localSpillQueue EXCEPT ![f.taskId] = Append(@, f.task)]
    BY <1>2 DEF AddSpilledTask
  <2>2. \A s \in Seq(added) : Append(s, f.task) \in Seq(added)
    BY <1>2, Appended
  <2> QED  BY <1>1, <2>1, <2>2 DEF Data
<1>8. Data'
  BY <1>1, <1>5, <1>7 DEF Data, locals, signals, workerGroup
<1>9. Wakeups'
  BY <1>1, <1>2, <1>3, <1>5, <1>6, EnqueuedWakeups
<1> QED  BY <1>6, <1>8, <1>9 DEF PoolInv

(* addTask into the global list. *)
LEMMA AddGlobalTaskInv ==
  ASSUME PoolInv, NEW t \in Threads, AddGlobalTask(t), UNCHANGED multicastFactor
  PROVE  PoolInv'
<1>1. Stacks /\ Data /\ Wakeups /\ At(t, "addTask", "enqueue")
  BY DEF PoolInv, AddGlobalTask
<1>2. PICK f : f = Top(t) /\ f \in [fn : {"addTask"}, pc : AddTaskLabels, task : added,
                       taskId : Workers \cup {kDefaultTaskId}, toPost : SUBSET Workers]
  BY <1>1, InAddTask
<1>3. Tops[t] = AddTaskAt("enqueue", f.taskId, f.toPost) /\ f.taskId = kDefaultTaskId
  BY <1>1, <1>2, InAddTask DEF AddGlobalTask
<1>5. /\ added' = added /\ doneFlag' = doneFlag /\ Goto(t, "wake")
      /\ taskList' = taskList \cup {f.task}
      /\ UNCHANGED <<overflowTaskList, affinityTaskList, localSpillQueue, locals, signals,
                     ready, added>>
  BY <1>2 DEF AddGlobalTask, signals
<1>6. Stacks' /\ Tops' = [Tops EXCEPT ![t] = AddTaskAt("wake", f.taskId, f.toPost)]
  BY <1>1, <1>2, <1>5, AddTaskBecomes DEF AddTaskLabels
<1>8. Data'
  BY <1>1, <1>2, <1>5 DEF Data, locals, signals, workerGroup
<1>9. Wakeups'
  BY <1>1, <1>2, <1>3, <1>5, <1>6, EnqueuedWakeups
<1> QED  BY <1>6, <1>8, <1>9 DEF PoolInv

(* addTask into the overflow list: nobody is woken, and nobody has to be.  *)
LEMMA AddOverflowTaskInv ==
  ASSUME PoolInv, NEW t \in Threads, AddOverflowTask(t), UNCHANGED multicastFactor
  PROVE  PoolInv'
<1>1. Stacks /\ Data /\ Wakeups /\ At(t, "addTask", "enqueue")
  BY DEF PoolInv, AddOverflowTask
<1>2. PICK f : f = Top(t) /\ f \in [fn : {"addTask"}, pc : AddTaskLabels, task : added,
                       taskId : Workers \cup {kDefaultTaskId}, toPost : SUBSET Workers]
  BY <1>1, InAddTask
<1>3. Tops[t] = AddTaskAt("enqueue", f.taskId, f.toPost)
  BY <1>1, <1>2, InAddTask
<1>5. /\ added' = added /\ doneFlag' = doneFlag /\ Pop(t)
      /\ overflowTaskList' = Append(overflowTaskList, f.task)
      /\ UNCHANGED <<taskList, affinityTaskList, localSpillQueue, locals, signals,
                     ready, added>>
  BY <1>2 DEF AddOverflowTask, signals
<1>6. ~Idle(t) /\ Top(t).fn # "runItems"
  BY <1>1, InAddTask
<1>7. PICK c : Stacks' /\ Quiet(c) /\ Tops' = [Tops EXCEPT ![t] = c]
  BY <1>1, <1>5, <1>6, CallReturns
<1>8. Append(overflowTaskList, f.task) \in Seq(added)
  BY <1>1, <1>2, Appended DEF Data
<1>9. Data'
  BY <1>1, <1>5, <1>8 DEF Data, locals, signals, workerGroup
<1>10. ~(Tops[t].fn = "addTask" /\ Tops[t].pc \in {"wake", "post"})
  BY <1>3, SMTT(60) DEF AddTaskAt
<1>11. sema' \in [Threads -> Nat] /\ \A u \in Workers : sema'[u] >= sema[u]
  <2>1. Workers \subseteq Threads
    BY PoolAssumption, SMTT(60) DEF Workers, Threads, PoolAssumption
  <2> QED  BY <1>1, <1>5, <2>1, SMTT(60) DEF Data, signals
<1>12. Wakeups'
  BY <1>1, <1>5, <1>7, <1>10, <1>11, QuietWakeups DEF signals
<1> QED  BY <1>7, <1>9, <1>12 DEF PoolInv

(* takeSuspendedThread: with a bit of its own the worker either has lost   *)
(* it to someone who owes it a token, or gets one now; with a shared bit   *)
(* it always gets one.                                                     *)
LEMMA TakeSuspendedThreadInv ==
  ASSUME PoolInv, NEW t \in Threads, takeSuspendedThread(t), UNCHANGED multicastFactor
  PROVE  PoolInv'
<1>1. Stacks /\ Data /\ Wakeups /\ At(t, "addTask", "wake")
  BY DEF PoolInv, takeSuspendedThread
<1>2. PICK f : f = Top(t) /\ f \in [fn : {"addTask"}, pc : AddTaskLabels, task : added,
                       taskId : Workers \cup {kDefaultTaskId}, toPost : SUBSET Workers]
  BY <1>1, InAddTask
<1>3. PICK w \in Workers : w = f.taskId
  BY <1>2 DEF takeSuspendedThread
<1>4. /\ Tops[t] = AddTaskAt("wake", w, f.toPost)
      /\ Tops[t].fn = "addTask" /\ Tops[t].pc = "wake" /\ Tops[t].taskId = w
  BY <1>1, <1>2, <1>3, InAddTask, SMTT(60) DEF AddTaskAt
<1>5. /\ added' = added /\ doneFlag' = doneFlag /\ multicastFactor' = multicastFactor
      /\ UNCHANGED <<lists, locals, sema, doneFlag, ready, added>>
      /\ suspendedThreads' = IF multicastFactor = 0 THEN suspendedThreads \ {workerGroup(w)}
                             ELSE suspendedThreads
  BY <1>2, <1>3 DEF takeSuspendedThread
<1>6. Data'
  BY <1>1, <1>5 DEF Data, lists, locals, workerGroup
<1>7. w # kDefaultTaskId
  BY PoolAssumption, SMTT(60) DEF Workers, PoolAssumption, kDefaultTaskId
<1>8. CASE PostTo(t, {w})
  <2>0. PICK only \in SUBSET Workers : only = {w}
    OBVIOUS
  <2>1. Stacks' /\ Tops' = [Tops EXCEPT ![t] = AddTaskAt("post", w, only)]
    BY <1>1, <1>2, <1>3, <1>5, <1>8, <2>0, AddTaskBecomes DEF AddTaskLabels, PostTo
  <2>2. /\ Tops'[t].fn = "addTask" /\ Tops'[t].pc = "post" /\ Tops'[t].toPost = only
        /\ \A u \in Threads \ {t} : Tops'[u] = Tops[u]
    <3>1. PICK c : c = AddTaskAt("post", w, only)
      OBVIOUS
    <3>2. c.fn = "addTask" /\ c.pc = "post" /\ c.toPost = only
      BY <3>1, AddTaskFields, SMTT(60)
    <3>3. Tops'[t] = c /\ \A u \in Threads \ {t} : Tops'[u] = Tops[u]
      BY <2>1, <3>1, OneTop
    <3> QED  BY <3>2, <3>3
  <2>3. Woken \subseteq Woken' /\ w \in Woken'
    BY <1>4, <1>5, <2>0, <2>2 DEF Woken
  <2>4. WakingIds \subseteq WakingIds' \cup {w}
    BY <1>4, <2>2 DEF WakingIds
  <2>5. \A u \in Workers : workerGroup(u) \in suspendedThreads =>
          workerGroup(u) \in suspendedThreads' \/ u \in Woken'
    BY <1>5, <2>3, OwnBit
  <2>6. AddTaskAt("post", w, only).fn = "addTask"
    BY DEF AddTaskAt
  <2>7. Wakeups'
    BY <1>1, <1>4, <1>5, <1>7, <2>1, <2>3, <2>4, <2>5, <2>6, AddTaskWakeups DEF lists
  <2> QED  BY <1>6, <2>1, <2>7 DEF PoolInv
<1>9. CASE multicastFactor = 0 /\ workerGroup(w) \notin suspendedThreads /\ Pop(t)
  <2>1. ~Idle(t) /\ Top(t).fn # "runItems"
    BY <1>1, InAddTask
  <2>2. PICK c : Stacks' /\ Quiet(c) /\ Tops' = [Tops EXCEPT ![t] = c]
    BY <1>1, <1>5, <1>9, <2>1, CallReturns
  <2>3. /\ Tops'[t] = c /\ ~(c.fn = "addTask" /\ c.pc \in {"wake", "post"})
        /\ \A u \in Threads \ {t} : Tops'[u] = Tops[u]
    BY <2>2 DEF Tops, Quiet
  <2>4. Woken \subseteq Woken'
    BY <1>4, <1>5, <2>3 DEF Woken
  <2>5. WakingIds \subseteq WakingIds' \cup {w}
    BY <1>4, <2>3 DEF WakingIds
  <2>6. suspendedThreads' = suspendedThreads
    BY <1>5, <1>9
  <2>7. ~doneFlag /\ AffinitySeen(Tops[w]) => w \in Woken'
    BY <1>1, <1>9, <2>4 DEF Wakeups, BitOrToken, AffinitySeen, Suspending
  <2>8. Wakeups'
    BY <1>1, <1>4, <1>5, <1>7, <2>2, <2>4, <2>5, <2>6, <2>7, AddTaskWakeups DEF lists
  <2> QED  BY <1>6, <2>2, <2>8 DEF PoolInv
<1> QED  BY <1>2, <1>3, <1>8, <1>9 DEF takeSuspendedThread

(* takeAnySuspendedThread: whoever loses the bit gets a token, and with no *)
(* bit set every worker is awake or has one.                               *)
LEMMA TakeAnySuspendedThreadInv ==
  ASSUME PoolInv, NEW t \in Threads, takeAnySuspendedThread(t), UNCHANGED multicastFactor
  PROVE  PoolInv'
<1>1. Stacks /\ Data /\ Wakeups /\ At(t, "addTask", "wake")
  BY DEF PoolInv, takeAnySuspendedThread
<1>2. PICK f : f = Top(t) /\ f \in [fn : {"addTask"}, pc : AddTaskLabels, task : added,
                       taskId : Workers \cup {kDefaultTaskId}, toPost : SUBSET Workers]
  BY <1>1, InAddTask
<1>3. f.taskId = kDefaultTaskId
  BY <1>2 DEF takeAnySuspendedThread
<1>4. /\ Tops[t] = AddTaskAt("wake", kDefaultTaskId, f.toPost)
      /\ Tops[t].fn = "addTask" /\ Tops[t].pc = "wake" /\ Tops[t].taskId = kDefaultTaskId
  BY <1>1, <1>2, <1>3, InAddTask, SMTT(60) DEF AddTaskAt
<1>5. /\ added' = added /\ doneFlag' = doneFlag /\ multicastFactor' = multicastFactor
      /\ UNCHANGED <<lists, locals, sema, doneFlag, ready, added>>
  BY DEF takeAnySuspendedThread
<1>6. 0 \in Workers /\ \A w \in Workers : w # kDefaultTaskId
  BY PoolAssumption, SMTT(60) DEF Workers, PoolAssumption, kDefaultTaskId
<1>7. CASE suspendedThreads # {} /\ PostTo(t, GroupMembers(LowestGroup))
             /\ suspendedThreads' = suspendedThreads \ {LowestGroup}
  <2>1. PICK g, members : /\ g = LowestGroup /\ members = GroupMembers(g)
                          /\ g \in suspendedThreads /\ members \subseteq Workers
    BY <1>1, <1>7, LowestGroupIsSet DEF GroupMembers
  <2>2. PICK w \in Workers : workerGroup(w) = g
    BY <1>1, <2>1 DEF Data
  <2>3. \A u \in Workers : workerGroup(u) = g => u \in members
    BY <2>1 DEF GroupMembers
  <2>4. Stacks' /\ Tops' = [Tops EXCEPT ![t] = AddTaskAt("post", kDefaultTaskId, members)]
    BY <1>1, <1>2, <1>3, <1>5, <1>7, <2>1, AddTaskBecomes DEF AddTaskLabels, PostTo
  <2>5. /\ Tops'[t].fn = "addTask" /\ Tops'[t].pc = "post" /\ Tops'[t].toPost = members
        /\ \A u \in Threads \ {t} : Tops'[u] = Tops[u]
    <3>1. PICK c : c = AddTaskAt("post", kDefaultTaskId, members)
      OBVIOUS
    <3>2. c.fn = "addTask" /\ c.pc = "post" /\ c.toPost = members
      BY <3>1, AddTaskFields, SMTT(60)
    <3>3. Tops'[t] = c /\ \A u \in Threads \ {t} : Tops'[u] = Tops[u]
      BY <2>4, <3>1, OneTop
    <3> QED  BY <3>2, <3>3
  <2>6. Woken \subseteq Woken' /\ members \subseteq Woken'
    BY <1>4, <1>5, <2>1, <2>5 DEF Woken
  <2>7. WakingIds \subseteq WakingIds' \cup {kDefaultTaskId}
    BY <1>4, <2>5 DEF WakingIds
  <2>8. AddTaskAt("post", kDefaultTaskId, members).fn = "addTask"
    BY DEF AddTaskAt
  <2>9. \A u \in Workers : workerGroup(u) \in suspendedThreads =>
          workerGroup(u) \in suspendedThreads' \/ u \in Woken'
    BY <1>7, <2>1, <2>3, <2>6
  <2>10. w \in Woken'
    BY <2>2, <2>3, <2>6
  <2>11. Wakeups'
    BY <1>1, <1>4, <1>5, <1>6, <2>4, <2>6, <2>7, <2>8, <2>9, <2>10, AddTaskWakeups DEF lists
  <2>12. Data'
    BY <1>1, <1>5, <1>7 DEF Data, lists, locals, workerGroup
  <2> QED  BY <2>4, <2>11, <2>12 DEF PoolInv
<1>8. CASE suspendedThreads = {} /\ Pop(t) /\ suspendedThreads' = suspendedThreads
  <2>1. ~Idle(t) /\ Top(t).fn # "runItems"
    BY <1>1, InAddTask
  <2>2. PICK c : Stacks' /\ Quiet(c) /\ Tops' = [Tops EXCEPT ![t] = c]
    BY <1>1, <1>5, <1>8, <2>1, CallReturns
  <2>3. /\ Tops'[t] = c /\ ~(c.fn = "addTask" /\ c.pc \in {"wake", "post"})
        /\ \A u \in Threads \ {t} : Tops'[u] = Tops[u]
    BY <2>2 DEF Tops, Quiet
  <2>4. Woken \subseteq Woken'
    BY <1>4, <1>5, <2>3 DEF Woken
  <2>5. WakingIds \subseteq WakingIds' \cup {kDefaultTaskId}
    BY <1>4, <2>3 DEF WakingIds
  <2>6. ~doneFlag => ~GlobalSeen(Tops[0]) \/ 0 \in Woken'
    BY <1>1, <1>6, <1>8, <2>4 DEF Wakeups, BitOrToken, GlobalSeen, Suspending
  <2>7. Wakeups'
    BY <1>1, <1>4, <1>5, <1>6, <1>8, <2>2, <2>4, <2>5, <2>6, AddTaskWakeups DEF lists
  <2>8. Data'
    BY <1>1, <1>5, <1>8 DEF Data, lists, locals, workerGroup
  <2> QED  BY <2>2, <2>7, <2>8 DEF PoolInv
<1> QED  BY <1>7, <1>8 DEF takeAnySuspendedThread

(* A pending post becomes a token. *)
LEMMA PostWorkerInv ==
  ASSUME PoolInv, NEW t \in Threads, PostWorker(t), UNCHANGED multicastFactor
  PROVE  PoolInv'
<1>1. Stacks /\ Data /\ Wakeups /\ At(t, "addTask", "post")
  BY DEF PoolInv, PostWorker
<1>2. PICK f : f = Top(t) /\ f \in [fn : {"addTask"}, pc : AddTaskLabels, task : added,
                       taskId : Workers \cup {kDefaultTaskId}, toPost : SUBSET Workers]
  BY <1>1, InAddTask
<1>3. /\ Tops[t].fn = "addTask" /\ Tops[t].pc = "post" /\ Tops[t].toPost = f.toPost
  BY <1>1, <1>2, InAddTask, AddTaskFields, SMTT(60)
<1>4. PICK w \in f.toPost :
        Post(w) /\ IF f.toPost = {w} THEN Pop(t) ELSE PostTo(t, f.toPost \ {w})
  BY <1>2 DEF PostWorker
<1>5. /\ added' = added /\ doneFlag' = doneFlag /\ multicastFactor' = multicastFactor
      /\ UNCHANGED <<lists, locals, suspendedThreads, doneFlag, ready, added>>
  BY DEF PostWorker
<1>6. w \in Workers /\ w \in Threads /\ Workers \subseteq Threads
  BY <1>2, PoolAssumption, SMTT(60) DEF Workers, Threads, PoolAssumption
<1>7. /\ sema' \in [Threads -> Nat] /\ sema'[w] > 0
      /\ \A u \in Threads \ {w} : sema'[u] = sema[u]
  BY <1>1, <1>4, <1>6, SMTT(60) DEF Post, Data
<1>8. Data'
  BY <1>1, <1>5, <1>7 DEF Data, lists, locals, workerGroup
<1>9. PICK c : /\ Stacks' /\ Tops' = [Tops EXCEPT ![t] = c]
               /\ \/ Quiet(c) /\ f.toPost = {w}
                  \/ c.fn = "addTask" /\ c.pc = "post" /\ c.toPost = f.toPost \ {w}
  <2>1. CASE f.toPost = {w}
    <3>1. ~Idle(t) /\ Top(t).fn # "runItems"
      BY <1>1, InAddTask
    <3> QED  BY <1>1, <1>4, <1>5, <2>1, <3>1, CallReturns
  <2>2. CASE f.toPost # {w}
    <3>1. PICK others \in SUBSET Workers : others = f.toPost \ {w}
      BY <1>2
    <3>2. Stacks' /\ Tops' = [Tops EXCEPT ![t] = AddTaskAt("post", f.taskId, others)]
      BY <1>1, <1>2, <1>4, <1>5, <2>2, <3>1, AddTaskBecomes DEF AddTaskLabels, PostTo
    <3>3. PICK c : c = AddTaskAt("post", f.taskId, others)
      OBVIOUS
    <3>4. c.fn = "addTask" /\ c.pc = "post" /\ c.toPost = others
      BY <3>3, AddTaskFields, SMTT(60)
    <3> QED  BY <3>1, <3>2, <3>3, <3>4
  <2> QED  BY <2>1, <2>2
<1>10. Tops'[t] = c /\ \A u \in Threads \ {t} : Tops'[u] = Tops[u]
  BY <1>9 DEF Tops
<1>11. Woken \subseteq Woken'
  <2> SUFFICES ASSUME NEW u \in Woken PROVE u \in Woken'
    OBVIOUS
  <2>0. u \in Workers BY DEF Woken
  <2>1. CASE u = w  BY <1>7, <2>0, <2>1 DEF Woken
  <2>2. CASE u # w /\ sema[u] > 0  BY <1>6, <1>7, <2>0, <2>2 DEF Woken
  <2>3. CASE u # w /\ \E v \in Threads :
               Tops[v].fn = "addTask" /\ Tops[v].pc = "post" /\ u \in Tops[v].toPost
    BY <1>3, <1>9, <1>10, <2>0, <2>3, SMTT(60) DEF Woken
  <2> QED  BY <2>1, <2>2, <2>3 DEF Woken
<1>12. WakingIds' = WakingIds
  BY <1>3, <1>9, <1>10 DEF WakingIds, Quiet
<1>13. Wakeups'
  BY <1>1, <1>3, <1>5, <1>9, <1>11, <1>12, AddTaskWakeups DEF lists
<1> QED  BY <1>8, <1>9, <1>13 DEF PoolInv
=============================================================================
