------------------------ MODULE TargetClientsProofs ------------------------
(***************************************************************************)
(* Proofs about TargetClients, for any pool size and any finite sets of    *)
(* calls.                                                                  *)
(***************************************************************************)
EXTENDS TargetClients, FiniteSetTheorems, SequenceTheorems, TLAPS

\* There are finitely many calls, so any of them can be counted.
LEMMA CallsFinite == IsFiniteSet(Calls) /\ IsFiniteSet(Nesting)
  BY CallsAssumption, FS_Union DEF Calls, Nesting

\* The queue without its i-th call is the queue with that call removed: it
\* holds the others, each as often as before.
LEMMA WithoutProps ==
  ASSUME queue \in Seq(Calls), NEW i \in DOMAIN queue,
         \A j, k \in DOMAIN queue : queue[j] = queue[k] => j = k
  PROVE  /\ Without(i) \in Seq(Calls)
         /\ {Without(i)[j] : j \in DOMAIN Without(i)}
              = {queue[j] : j \in DOMAIN queue} \ {queue[i]}
         /\ \A j, k \in DOMAIN Without(i) : Without(i)[j] = Without(i)[k] => j = k
<1> DEFINE n == Len(queue)
<1>1. n \in Nat /\ DOMAIN queue = 1..n /\ i \in 1..n /\ \A j \in 1..n : queue[j] \in Calls
  OBVIOUS
<1>2. /\ n - 1 \in Nat
      /\ Without(i) \in [1..(n - 1) -> Calls]
      /\ \A j \in 1..(n - 1) : Without(i)[j] = queue[IF j < i THEN j ELSE j + 1]
  BY <1>1 DEF Without
<1>3. Without(i) \in Seq(Calls) /\ DOMAIN Without(i) = 1..(n - 1)
  <2>1. Without(i) \in UNION {[1..m -> Calls] : m \in Nat}
    BY <1>2
  <2>2. QED
    BY <1>2, <2>1, SMTT(30)
<1> HIDE DEF n
<1>4. \A j \in 1..(n - 1) : Without(i)[j] \in {queue[k] : k \in 1..n} \ {queue[i]}
  <2> TAKE j \in 1..(n - 1)
  <2>1. PICK k \in 1..n : k # i /\ Without(i)[j] = queue[k]
    <3>1. CASE j < i
      <4>1. j \in 1..n /\ j # i /\ Without(i)[j] = queue[j]
        BY <1>1, <1>2, <3>1
      <4>2. QED
        BY <4>1
    <3>2. CASE ~(j < i)
      <4>1. j + 1 \in 1..n /\ j + 1 # i /\ Without(i)[j] = queue[j + 1]
        BY <1>1, <1>2, <3>2
      <4>2. QED
        BY <4>1
    <3>3. QED
      BY <3>1, <3>2
  <2>2. queue[k] # queue[i]
    BY <1>1, <2>1
  <2>3. QED
    BY <2>1, <2>2, Zenon
<1>5. \A k \in 1..n : queue[k] # queue[i] => \E j \in 1..(n - 1) : Without(i)[j] = queue[k]
  <2> TAKE k \in 1..n
  <2> HAVE queue[k] # queue[i]
  <2>1. CASE k < i
    <3>1. k \in 1..(n - 1) /\ Without(i)[k] = queue[k]
      BY <1>1, <1>2, <2>1
    <3>2. QED
      BY <3>1
  <2>2. CASE k > i
    <3>1. k - 1 \in 1..(n - 1) /\ Without(i)[k - 1] = queue[k]
      BY <1>1, <1>2, <2>2
    <3>2. QED
      BY <3>1
  <2>3. QED
    BY <1>1, <2>1, <2>2
<1>6. \A j, k \in 1..(n - 1) : Without(i)[j] = Without(i)[k] => j = k
  <2> SUFFICES ASSUME NEW j \in 1..(n - 1), NEW k \in 1..(n - 1), Without(i)[j] = Without(i)[k]
               PROVE  j = k
    OBVIOUS
  <2> DEFINE p == IF j < i THEN j ELSE j + 1
             q == IF k < i THEN k ELSE k + 1
  <2>1. p \in 1..n /\ q \in 1..n
    BY <1>1
  <2>2. queue[p] = queue[q]
    BY <1>2
  <2>3. p = q
    BY <1>1, <2>1, <2>2
  <2>4. QED
    BY <1>1, <2>3
<1>7. {Without(i)[j] : j \in DOMAIN Without(i)} = {queue[j] : j \in DOMAIN queue} \ {queue[i]}
  <2>1. \A x \in {Without(i)[j] : j \in 1..(n - 1)} : x \in {queue[j] : j \in 1..n} \ {queue[i]}
    BY <1>4
  <2>2. \A x \in {queue[j] : j \in 1..n} \ {queue[i]} : x \in {Without(i)[j] : j \in 1..(n - 1)}
    BY <1>5
  <2>3. {Without(i)[j] : j \in 1..(n - 1)} = {queue[j] : j \in 1..n} \ {queue[i]}
    BY <2>1, <2>2, Zenon
  <2>4. DOMAIN Without(i) = 1..(n - 1) /\ DOMAIN queue = 1..n
    BY <1>1, <1>3
  <2>5. QED
    BY <2>3, <2>4
<1>8. QED
  BY <1>3, <1>6, <1>7

\* A call appended that was not waiting keeps the queue without duplicates.
LEMMA AppendProps ==
  ASSUME queue \in Seq(Calls), NEW c \in Calls,
         \A j, k \in DOMAIN queue : queue[j] = queue[k] => j = k,
         c \notin {queue[j] : j \in DOMAIN queue},
         NEW q, q = Append(queue, c)
  PROVE  /\ q \in Seq(Calls)
         /\ {q[j] : j \in DOMAIN q} = {queue[j] : j \in DOMAIN queue} \cup {c}
         /\ \A j, k \in DOMAIN q : q[j] = q[k] => j = k
<1> DEFINE n == Len(queue)
<1>1. n \in Nat /\ DOMAIN queue = 1..n /\ q \in Seq(Calls) /\ Len(q) = n + 1
  OBVIOUS
<1>2. DOMAIN q = 1..(n + 1) /\ q[n + 1] = c /\ \A j \in 1..n : q[j] = queue[j]
  BY <1>1
<1> HIDE DEF n
<1>3. {q[j] : j \in DOMAIN q} = {queue[j] : j \in DOMAIN queue} \cup {c}
  <2>1. \A j \in 1..(n + 1) : q[j] \in {queue[k] : k \in 1..n} \cup {c}
    <3> TAKE j \in 1..(n + 1)
    <3>1. j \in 1..n \/ j = n + 1
      BY <1>1
    <3>2. QED
      BY <1>2, <3>1
  <2>2. \A x \in {queue[k] : k \in 1..n} \cup {c} : \E j \in 1..(n + 1) : q[j] = x
    <3> TAKE x \in {queue[k] : k \in 1..n} \cup {c}
    <3>1. CASE x = c
      BY <1>1, <1>2, <3>1
    <3>2. CASE x # c
      <4>1. PICK k \in 1..n : x = queue[k]
        BY <3>2
      <4>2. k \in 1..(n + 1) /\ q[k] = x
        BY <1>1, <1>2, <4>1
      <4>3. QED
        BY <4>2
    <3>3. QED
      BY <3>1, <3>2
  <2>3. QED
    BY <1>1, <1>2, <2>1, <2>2
<1>4. \A j, k \in 1..(n + 1) : q[j] = q[k] => j = k
  <2> SUFFICES ASSUME NEW j \in 1..(n + 1), NEW k \in 1..(n + 1), q[j] = q[k]
               PROVE  j = k
    OBVIOUS
  <2>1. (j \in 1..n \/ j = n + 1) /\ (k \in 1..n \/ k = n + 1)
    BY <1>1
  <2>2. \A l \in 1..n : queue[l] # c
    BY <1>1
  <2>3. QED
    BY <1>1, <1>2, <2>1, <2>2
<1>5. QED
  BY <1>1, <1>2, <1>3, <1>4

\* Serving the head is removing the first call.
LEMMA TailProps ==
  ASSUME queue \in Seq(Calls), queue # <<>>,
         \A j, k \in DOMAIN queue : queue[j] = queue[k] => j = k
  PROVE  /\ Tail(queue) = Without(1)
         /\ 1 \in DOMAIN queue
         /\ Head(queue) = queue[1]
<1>0. /\ Len(queue) \in Nat \ {0}
      /\ DOMAIN queue = 1..Len(queue)
      /\ Head(queue) = queue[1]
  OBVIOUS
<1>1. Tail(queue) = [j \in 1..(Len(queue) - 1) |-> queue[j + 1]]
  <2>1. /\ Tail(queue) \in Seq(Calls)
        /\ Len(Tail(queue)) = Len(queue) - 1
        /\ \A j \in 1..(Len(queue) - 1) : Tail(queue)[j] = queue[j + 1]
    BY HeadTailProperties
  <2>2. Tail(queue) \in [1..(Len(queue) - 1) -> Calls]
    BY <2>1, LenProperties
  <2>3. QED
    BY <2>1, <2>2
<1>2. \A j \in 1..(Len(queue) - 1) : ~(j < 1)
  BY <1>0
<1>3. QED
  BY <1>0, <1>1, <1>2 DEF Without

\* A call that starts to wait is queued behind the others.
LEMMA WaitStep ==
  ASSUME TypeOK, QueueFits, NEW c \in Calls, NEW to \in {"first", "second"},
         stage[c] \notin {"first", "second"},
         stage' = [stage EXCEPT ![c] = to], WaitsIn(c), UNCHANGED engine
  PROVE  (TypeOK /\ QueueFits)'
<1>1. c \notin {queue[j] : j \in DOMAIN queue}
  BY DEF QueueFits, Waiting, At
<1>2. /\ queue' \in Seq(Calls)
      /\ {queue'[j] : j \in DOMAIN queue'} = {queue[j] : j \in DOMAIN queue} \cup {c}
      /\ \A j, k \in DOMAIN queue' : queue'[j] = queue'[k] => j = k
  BY <1>1, AppendProps DEF TypeOK, QueueFits, WaitsIn
<1>3. Waiting' = Waiting \cup {c}
  BY DEF TypeOK, Waiting, At
<1>4. TypeOK'
  BY <1>2 DEF TypeOK, Stage
<1>5. QED
  BY <1>2, <1>3, <1>4 DEF QueueFits

\* A call that is served or gives up leaves the queue.
LEMMA LeaveStep ==
  ASSUME TypeOK, QueueFits, NEW i \in DOMAIN queue,
         NEW to \in Stage \ {"first", "second"},
         stage' = [stage EXCEPT ![queue[i]] = to], queue' = Without(i), UNCHANGED engine
  PROVE  (TypeOK /\ QueueFits)'
<1>1. /\ queue' \in Seq(Calls)
      /\ {queue'[j] : j \in DOMAIN queue'} = {queue[j] : j \in DOMAIN queue} \ {queue[i]}
      /\ \A j, k \in DOMAIN queue' : queue'[j] = queue'[k] => j = k
  <2>1. queue \in Seq(Calls) /\ \A j, k \in DOMAIN queue : queue[j] = queue[k] => j = k
    BY DEF TypeOK, QueueFits
  <2>2. /\ Without(i) \in Seq(Calls)
        /\ {Without(i)[j] : j \in DOMAIN Without(i)}
             = {queue[j] : j \in DOMAIN queue} \ {queue[i]}
        /\ \A j, k \in DOMAIN Without(i) : Without(i)[j] = Without(i)[k] => j = k
    BY <2>1, WithoutProps
  <2>3. QED
    BY <2>2
<1>2. queue[i] \in Waiting
  BY DEF QueueFits
<1>3. Waiting' = Waiting \ {queue[i]}
  BY <1>2 DEF TypeOK, Waiting, At
<1>4. TypeOK'
  BY <1>1, <1>2 DEF TypeOK, Waiting, At
<1>5. QED
  BY <1>1, <1>3, <1>4 DEF QueueFits

\* A call that neither waits before nor after leaves the queue alone.
LEMMA StayStep ==
  ASSUME TypeOK, QueueFits, NEW c \in Calls, NEW to \in Stage \ {"first", "second"},
         stage[c] \notin {"first", "second"},
         stage' = [stage EXCEPT ![c] = to], UNCHANGED <<engine, queue>>
  PROVE  (TypeOK /\ QueueFits)'
<1>1. Waiting' = Waiting
  BY DEF TypeOK, Waiting, At
<1>2. TypeOK'
  BY DEF TypeOK
<1>3. QED
  BY <1>1, <1>2 DEF QueueFits

\* The clients in use can be counted, and fewer holders use fewer clients.
LEMMA UsedShrinks ==
  ASSUME Holding' \subseteq Holding, At({"nested"})' \subseteq At({"nested"})
  PROVE  Used \in Nat /\ Used' \in Nat /\ Used' <= Used
<1>1. IsFiniteSet(Holding) /\ IsFiniteSet(At({"nested"}))
  BY CallsFinite, FS_Subset DEF Holding, At
<1>2. /\ Cardinality(Holding') <= Cardinality(Holding)
      /\ Cardinality(At({"nested"})') <= Cardinality(At({"nested"}))
      /\ IsFiniteSet(Holding') /\ IsFiniteSet(At({"nested"})')
  BY <1>1, FS_Subset
<1>3. /\ Cardinality(Holding) \in Nat /\ Cardinality(Holding') \in Nat
      /\ Cardinality(At({"nested"})) \in Nat /\ Cardinality(At({"nested"})') \in Nat
  BY <1>1, <1>2, FS_CardinalityType
<1>4. QED
  BY <1>2, <1>3 DEF Used

\* A grant hands out exactly one client: the first of a call or its second.
LEMMA GrantUsesOne ==
  ASSUME TypeOK, QueueFits, Grant
  PROVE  Used \in Nat /\ Used' = Used + 1
<1> DEFINE c == Head(queue)
           N == At({"nested"})
<1>1. c \in Waiting
  BY TailProps DEF Grant, TypeOK, QueueFits
<1>2. IsFiniteSet(Holding) /\ IsFiniteSet(N)
  BY CallsFinite, FS_Subset DEF Holding, At
<1>3. Cardinality(Holding) \in Nat /\ Cardinality(N) \in Nat
  BY <1>2, FS_CardinalityType
<1>4. CASE stage[c] = "first"
  <2>1. Holding' = Holding \cup {c} /\ c \notin Holding /\ N' = N
    BY <1>1, <1>4 DEF Grant, TypeOK, Holding, Waiting, At
  <2>2. Cardinality(Holding') = Cardinality(Holding) + 1
    BY <1>2, <2>1, FS_AddElement
  <2>3. QED
    BY <1>3, <2>1, <2>2 DEF Used
<1>5. CASE stage[c] = "second"
  <2>1. Holding' = Holding /\ N' = N \cup {c} /\ c \notin N
    BY <1>1, <1>5 DEF Grant, TypeOK, Holding, Waiting, At
  <2>2. Cardinality(N') = Cardinality(N) + 1
    BY <1>2, <2>1, FS_AddElement
  <2>3. QED
    BY <1>3, <2>1, <2>2 DEF Used
<1>6. QED
  BY <1>1, <1>4, <1>5 DEF Waiting, At

\* Every step but a grant keeps the clients in use or gives some back.
LEMMA OthersShrink ==
  ASSUME TypeOK, NEW c \in Calls,
         \/ Begin(c) \/ AskSecond(c) \/ SkipSecond(c) \/ Described(c) \/ InnerFails(c)
         \/ Proceed(c) \/ Release(c) \/ Fails(c) \/ WaitTimesOut(c)
  PROVE  Holding' \subseteq Holding /\ At({"nested"})' \subseteq At({"nested"})
  BY DEF TypeOK, Holding, At, Moves, Begin, AskSecond, SkipSecond, Described, InnerFails,
         Proceed, Release, Fails, WaitTimesOut

\* The queue and the stages agree after every step.
LEMMA QueueStep == TypeOK /\ QueueFits /\ [Next]_vars => (TypeOK /\ QueueFits)'
<1> SUFFICES ASSUME TypeOK, QueueFits, [Next]_vars PROVE (TypeOK /\ QueueFits)'
  OBVIOUS
<1> USE DEF Stage
<1>1. ASSUME NEW c \in Calls, Begin(c) PROVE (TypeOK /\ QueueFits)'
  BY <1>1, WaitStep DEF Begin, Moves
<1>2. ASSUME NEW c \in Calls, AskSecond(c) PROVE (TypeOK /\ QueueFits)'
  BY <1>2, WaitStep DEF AskSecond, Moves
<1>3. ASSUME NEW c \in Calls, SkipSecond(c) PROVE (TypeOK /\ QueueFits)'
  BY <1>3, StayStep DEF SkipSecond, Moves
<1>4. ASSUME NEW c \in Calls, Described(c) PROVE (TypeOK /\ QueueFits)'
  BY <1>4, StayStep DEF Described, Moves
<1>5. ASSUME NEW c \in Calls, InnerFails(c) PROVE (TypeOK /\ QueueFits)'
  BY <1>5, StayStep DEF InnerFails, Moves
<1>6. ASSUME NEW c \in Calls, Proceed(c) PROVE (TypeOK /\ QueueFits)'
  BY <1>6, StayStep DEF Proceed, Moves
<1>7. ASSUME NEW c \in Calls, Release(c) PROVE (TypeOK /\ QueueFits)'
  BY <1>7, StayStep DEF Release, Moves
<1>8. ASSUME NEW c \in Calls, Fails(c) PROVE (TypeOK /\ QueueFits)'
  BY <1>8, StayStep DEF Fails, Moves
<1>9. ASSUME NEW c \in Calls, WaitTimesOut(c) PROVE (TypeOK /\ QueueFits)'
  <2>1. PICK i \in DOMAIN queue : queue[i] = c /\ queue' = Without(i)
    BY <1>9 DEF WaitTimesOut
  <2>2. QED
    BY <1>9, <2>1, LeaveStep DEF WaitTimesOut, Moves
<1>10. CASE Grant
  <2>1. Tail(queue) = Without(1) /\ 1 \in DOMAIN queue /\ Head(queue) = queue[1]
    BY <1>10, TailProps DEF Grant, TypeOK, QueueFits
  <2>2. PICK to \in {"working", "nested"} : stage' = [stage EXCEPT ![queue[1]] = to]
    <3>1. CASE stage[queue[1]] = "first"
      BY <1>10, <2>1, <3>1 DEF Grant
    <3>2. CASE stage[queue[1]] # "first"
      BY <1>10, <2>1, <3>2 DEF Grant
    <3>3. QED
      BY <3>1, <3>2
  <2>3. queue' = Without(1) /\ UNCHANGED engine
    BY <1>10, <2>1 DEF Grant
  <2>4. QED
    BY <2>1, <2>2, <2>3, LeaveStep
<1>11. CASE UNCHANGED vars
  BY <1>11 DEF vars, TypeOK, QueueFits, Waiting, At
<1>12. QED
  BY <1>1, <1>2, <1>3, <1>4, <1>5, <1>6, <1>7, <1>8, <1>9, <1>10, <1>11 DEF Next

\* Only streams and scripts ever hold a client and wait for another.
LEMMA NestingStep == TypeOK /\ QueueFits /\ NestingOnly /\ [Next]_vars => NestingOnly'
<1> SUFFICES ASSUME TypeOK, QueueFits, NestingOnly, [Next]_vars PROVE NestingOnly'
  OBVIOUS
<1> USE DEF NestingOnly, Nesting
<1>1. ASSUME NEW c \in Calls,
             \/ Begin(c) \/ AskSecond(c) \/ SkipSecond(c) \/ Described(c) \/ InnerFails(c)
             \/ Proceed(c) \/ Release(c) \/ Fails(c) \/ WaitTimesOut(c)
      PROVE  NestingOnly'
  BY <1>1 DEF TypeOK, Moves, Begin, AskSecond, SkipSecond, Described, InnerFails, Proceed,
              Release, Fails, WaitTimesOut
<1>2. CASE Grant
  <2>1. Head(queue) \in Waiting
    BY <1>2, TailProps DEF Grant, TypeOK, QueueFits
  <2>2. QED
    BY <1>2, <2>1 DEF Grant, TypeOK, Waiting, At
<1>3. CASE UNCHANGED vars
  BY <1>3 DEF vars
<1>4. QED
  BY <1>1, <1>2, <1>3 DEF Next

\* A client is granted only while one is left.
LEMMA UsedStep == TypeOK /\ QueueFits /\ PoolNotOverdrawn /\ [Next]_vars => PoolNotOverdrawn'
<1> SUFFICES ASSUME TypeOK, QueueFits, PoolNotOverdrawn, [Next]_vars PROVE PoolNotOverdrawn'
  OBVIOUS
<1> USE SizeAssumption DEF PoolNotOverdrawn
<1>1. CASE Grant
  BY <1>1, GrantUsesOne DEF Grant
<1>2. ASSUME NEW c \in Calls,
             \/ Begin(c) \/ AskSecond(c) \/ SkipSecond(c) \/ Described(c) \/ InnerFails(c)
             \/ Proceed(c) \/ Release(c) \/ Fails(c) \/ WaitTimesOut(c)
      PROVE  PoolNotOverdrawn'
  BY <1>2, OthersShrink, UsedShrinks
<1>3. CASE UNCHANGED vars
  <2>1. Holding' \subseteq Holding /\ At({"nested"})' \subseteq At({"nested"})
    BY <1>3 DEF vars, Holding, At
  <2>2. QED
    BY <2>1, UsedShrinks
<1>4. QED
  BY <1>1, <1>2, <1>3 DEF Next

\* The inductive invariant: queue and stages agree, and no more clients are in
\* use than there are.
THEOREM ClientInvariant == Spec => []ClientInv
<1>1. Init => ClientInv
  <2> SUFFICES ASSUME Init PROVE ClientInv
    OBVIOUS
  <2>1. TypeOK
    BY DEF Init, TypeOK, Stage
  <2>2. QueueFits /\ NestingOnly
    BY DEF Init, QueueFits, NestingOnly, Waiting, At
  <2>3. Holding = {} /\ At({"nested"}) = {}
    BY DEF Init, Holding, At
  <2>4. PoolNotOverdrawn
    BY <2>3, FS_EmptySet, SizeAssumption DEF PoolNotOverdrawn, Used
  <2>5. QED
    BY <2>1, <2>2, <2>4 DEF ClientInv
<1>2. ClientInv /\ [Next]_vars => ClientInv'
  BY QueueStep, NestingStep, UsedStep DEF ClientInv
<1>3. QED
  BY <1>1, <1>2, PTL DEF Spec

\* A client is granted only to a call that still waits for it, once.
THEOREM QueueAgrees == Spec => []QueueFits
<1>1. ClientInv => QueueFits
  BY DEF ClientInv
<1>2. QED
  BY ClientInvariant, <1>1, PTL

\* The pool never hands out more clients than it has.
THEOREM PoolIsNotOverdrawn == Spec => []PoolNotOverdrawn
<1>1. ClientInv => PoolNotOverdrawn
  BY DEF ClientInv
<1>2. QED
  BY ClientInvariant, <1>1, PTL

\* With fewer streams and scripts than clients the calls never all wait for
\* each other: when no client is left, one of them will be given back.
THEOREM FewNestedCallsNeverDeadlock ==
  ASSUME Cardinality(Nesting) < PoolSize
  PROVE  Spec => []NoMutualWait
<1>1. ClientInv => NoMutualWait
  <2> SUFFICES ASSUME ClientInv, Used = PoolSize,
                      At({"working", "nested", "described", "streaming"}) = {}
               PROVE  FALSE
    BY DEF NoMutualWait
  <2>1. Holding \subseteq Nesting /\ At({"nested"}) = {}
    BY DEF ClientInv, NestingOnly, Holding, At
  <2>2. Cardinality(Holding) <= Cardinality(Nesting) /\ Cardinality(At({"nested"})) = 0
    BY <2>1, CallsFinite, FS_Subset, FS_EmptySet
  <2>3. Cardinality(Holding) \in Nat /\ Cardinality(Nesting) \in Nat
    BY <2>1, CallsFinite, FS_Subset, FS_CardinalityType
  <2>4. QED
    BY <2>2, <2>3, SizeAssumption DEF Used
<1>2. QED
  BY ClientInvariant, <1>1, PTL
=============================================================================
