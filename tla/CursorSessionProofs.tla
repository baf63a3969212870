------------------------ MODULE CursorSessionProofs ------------------------
(***************************************************************************)
(* Proofs about CursorSession, for any set of streams, connections and     *)
(* concurrent fetches and any value of the limits.                         *)
(***************************************************************************)
EXTENDS CursorSession, FiniteSetTheorems, TLAPS

\* The limits have a largest one.
LEMMA LargestBlockFacts ==
  /\ LargestBlock \in Limits /\ LargestBlock \in Nat \ {0}
  /\ \A n \in Limits : n <= LargestBlock
<1>1. \E n \in Limits : \A m \in Limits : m <= n
  BY LimitsAssumption
<1>2. LargestBlock \in Limits /\ \A m \in Limits : m <= LargestBlock
  BY <1>1 DEF LargestBlock
<1>3. QED
  BY <1>2, RowsAssumption

\* The fetches of a stream are finitely many, and no more than there are.
LEMMA FetchesFinite ==
  ASSUME NEW S \in SUBSET Fetches
  PROVE  /\ IsFiniteSet(S) /\ Cardinality(S) \in Nat
         /\ Cardinality(Fetches) \in Nat /\ Cardinality(S) <= Cardinality(Fetches)
BY FiniteAssumption, FS_Subset, FS_CardinalityType

\* The shape of a call that is in flight.
LEMMA FetchShape ==
  ASSUME TypeOK, NEW f \in Fetches
  PROVE  /\ fetch[f] # NoFetch =>
              /\ fetch[f].sid \in Cursors /\ fetch[f].block \in Nat \ {0} /\ fetch[f].got \in Nat
              /\ fetch[f].stage \in {"reading", "drained"}
         /\ fetch[f].stage \in {"reading", "drained"} <=> fetch[f] # NoFetch
         /\ NoFetch \in FetchCall /\ NoFetch' = NoFetch
<1>1. fetch[f] \in FetchCall
  BY DEF TypeOK
<1>2. NoFetch.stage = "none" /\ NoFetch \in FetchCall /\ NoFetch' = NoFetch
  BY DEF NoFetch, FetchCall
<1>3. fetch[f] # NoFetch =>
        fetch[f] \in [stage : {"reading", "drained"}, sid : Cursors, block : Nat \ {0}, got : Nat]
  BY <1>1 DEF FetchCall
<1>4. QED
  BY <1>2, <1>3

\* The invariant holds initially: nothing has been opened.
LEMMA InitStreamInv == Init => StreamInv
<1> SUFFICES ASSUME Init PROVE StreamInv
  OBVIOUS
<1> USE RowsAssumption DEF Init
<1>1. TypeOK
  BY DEF TypeOK, OpenStage, CursorState, FetchCall
<1>2. StageFitsCursor /\ CountIsDue
  BY DEF StageFitsCursor, CountIsDue
<1>3. FetchesFit
  BY DEF FetchesFit
<1>4. PositionFits
  BY DEF PositionFits, FetchesOf
<1>5. QED
  BY <1>1, <1>2, <1>3, <1>4 DEF StreamInv

\* Every step keeps every variable in its type.
LEMMA TypeStep == StreamInv /\ [Next]_vars => TypeOK'
<1> SUFFICES ASSUME TypeOK, [Next]_vars PROVE TypeOK'
  BY DEF StreamInv
<1> USE DEF TypeOK
<1>1. ASSUME NEW c \in Cursors, OpenStep(c) PROVE TypeOK'
  <2>1. CASE AssertCapacity(c)
    BY <2>1 DEF AssertCapacity, OpenStage
  <2>2. CASE OpenCursor(c)
    BY <2>2 DEF OpenCursor, OpenStage, CursorState
  <2>3. CASE OpenCursorFails(c)
    BY <2>3 DEF OpenCursorFails, OpenStage
  <2>4. CASE FirstBlock(c)
    <3>1. /\ Smaller(PageSize, left[c]) \in Nat
          /\ left[c] - Smaller(PageSize, left[c]) \in Nat
      BY RowsAssumption DEF Smaller
    <3>2. QED
      BY <2>4, <3>1 DEF FirstBlock, OpenStage, CursorState
  <2>5. CASE FirstBlockFails(c)
    BY <2>5 DEF FirstBlockFails, CloseHandles, OpenStage, CursorState
  <2>6. CASE Register(c)
    BY <2>6 DEF Register, CloseHandles, OpenStage, CursorState
  <2>7. CASE DescribeFails(c)
    BY <2>7 DEF DescribeFails, OpenStage
  <2>8. QED
    BY <1>1, <2>1, <2>2, <2>3, <2>4, <2>5, <2>6, <2>7 DEF OpenStep
<1>2. ASSUME NEW c \in Cursors, Close(c) PROVE TypeOK'
  BY <1>2 DEF Close, CloseSessions, CloseHandles, CursorState
<1>3. ASSUME NEW c \in Cursors, DriverClosed(c) PROVE TypeOK'
  BY <1>3 DEF DriverClosed, CursorState
<1>4. ASSUME NEW c \in Cursors, GrowIdle(c) PROVE TypeOK'
  BY <1>4 DEF GrowIdle
<1>5. ASSUME NEW f \in Fetches, NEW c \in Cursors, NEW limit \in Limits,
             StartFetch(f, c, limit)
      PROVE  TypeOK'
  <2>1. CASE pos[c] >= MaxRows
    BY <1>5, <2>1, RowsAssumption DEF StartFetch, CloseSessions, CloseHandles, CursorState
  <2>2. CASE ~(pos[c] >= MaxRows)
    <3>1. Smaller(limit, MaxRows - pos[c]) \in Nat \ {0}
      BY <2>2, RowsAssumption DEF Smaller
    <3>2. InFetch("reading", c, Smaller(limit, MaxRows - pos[c]), 0) \in FetchCall
      BY <3>1 DEF InFetch, FetchCall
    <3>3. QED
      BY <1>5, <2>2, <3>2 DEF StartFetch
  <2>3. QED
    BY <2>1, <2>2
<1>6. ASSUME NEW f \in Fetches, FetchReturns(f) PROVE TypeOK'
  <2> DEFINE c == fetch[f].sid
  <2>0. /\ c \in Cursors /\ fetch[f].block \in Nat \ {0} /\ fetch[f].got \in Nat
        /\ NoFetch \in FetchCall
        /\ fetch[f] \in [stage : {"reading", "drained"}, sid : Cursors, block : Nat \ {0}, got : Nat]
    <3>1. fetch[f].stage \in {"reading", "drained"}
      BY <1>6 DEF FetchReturns, TakeRows, FullBlock, LastBlock, CompleteFetch, FetchClosed,
         FetchFails
    <3>2. QED
      BY <3>1, FetchShape DEF FetchCall
  <2> HIDE DEF c
  <2>1. CASE TakeRows(f)
    <3>1. PICK n \in 1..Smaller(fetch[f].block - fetch[f].got, left[c]) :
            /\ fetch' = [fetch EXCEPT ![f].got = @ + n]
            /\ left' = [left EXCEPT ![c] = @ - n]
      BY <2>1 DEF TakeRows, c
    <3>2. n \in Nat /\ left[c] \in Nat /\ left[c] - n \in Nat
      <4>1. left[c] \in Nat
        BY <2>0
      <4>2. QED
        BY <2>0, <4>1 DEF Smaller
    <3>3. [fetch[f] EXCEPT !.got = @ + n] \in FetchCall
      BY <2>0, <3>2 DEF FetchCall
    <3>4. fetch' \in [Fetches -> FetchCall]
      BY <3>1, <3>3
    <3>5. left' \in [Cursors -> Nat]
      BY <2>0, <3>1, <3>2
    <3>6. QED
      BY <2>1, <3>4, <3>5 DEF TakeRows
  <2>2. CASE FullBlock(f)
    BY <2>0, <2>2 DEF FullBlock, CloseSessions, CloseHandles, CursorState, c
  <2>3. CASE LastBlock(f)
    <3>1. [fetch[f] EXCEPT !.stage = "drained"] \in FetchCall
      BY <2>0 DEF FetchCall
    <3>2. fetch' \in [Fetches -> FetchCall]
      BY <2>3, <3>1 DEF LastBlock
    <3>3. QED
      BY <2>0, <2>3, <3>2 DEF LastBlock, CursorState, c
  <2>4. CASE CompleteFetch(f) \/ FetchClosed(f)
    BY <2>0, <2>4 DEF CompleteFetch, FetchClosed, ServesLastRows, CloseSessions, CloseHandles,
       CursorState, c
  <2>5. CASE FetchFails(f)
    BY <2>0, <2>5 DEF FetchFails, c
  <2>6. QED
    BY <1>6, <2>1, <2>2, <2>3, <2>4, <2>5 DEF FetchReturns
<1>7. CASE Reap
  BY <1>7 DEF Reap, CloseSessions, CloseHandles, CursorState
<1>8. CASE OnModuleDestroy
  BY <1>8 DEF OnModuleDestroy, CloseSessions, CloseHandles, CursorState
<1>9. CASE UNCHANGED vars
  BY <1>9 DEF vars
<1>10. QED
  BY <1>1, <1>2, <1>3, <1>4, <1>5, <1>6, <1>7, <1>8, <1>9 DEF Next

-----------------------------------------------------------------------------
(* What is said of fetches and positions.                                  *)

\* It survives any step that leaves the calls in flight and the streams they are on
\* alone.
LEMMA FetchesFrame ==
  ASSUME FetchesFit, TypeOK, fetch' = fetch,
         \A c \in Cursors : opening[c] = "done" =>
            opening'[c] = "done" /\ (cur[c] # "open" => cur'[c] # "open")
  PROVE  FetchesFit'
<1>1. NoFetch' = NoFetch
  BY DEF NoFetch
<1>2. ASSUME NEW f \in Fetches, fetch[f] # NoFetch
      PROVE  /\ opening'[fetch[f].sid] = "done"
             /\ fetch[f].got <= fetch[f].block
             /\ \E n \in Limits : fetch[f].block <= n
             /\ fetch[f].stage = "drained" =>
                  cur'[fetch[f].sid] # "open" /\ fetch[f].got < fetch[f].block
  BY <1>2, FetchShape DEF FetchesFit
<1>3. QED
  BY <1>1, <1>2 DEF FetchesFit

\* ... and any step that ends a call, whatever becomes of its stream's cursor.
LEMMA FetchEnds ==
  ASSUME FetchesFit, TypeOK, NEW f \in Fetches,
         fetch' = [fetch EXCEPT ![f] = NoFetch], UNCHANGED opening,
         \A c \in Cursors : cur[c] # "open" => cur'[c] # "open"
  PROVE  FetchesFit'
<1>1. \A g \in Fetches : fetch'[g] = IF g = f THEN NoFetch ELSE fetch[g]
  BY DEF TypeOK
<1>2. ASSUME NEW g \in Fetches, fetch'[g] # NoFetch
      PROVE  /\ opening'[fetch'[g].sid] = "done"
             /\ fetch'[g].got <= fetch'[g].block
             /\ \E n \in Limits : fetch'[g].block <= n
             /\ fetch'[g].stage = "drained" =>
                  cur'[fetch'[g].sid] # "open" /\ fetch'[g].got < fetch'[g].block
  <2>1. fetch'[g] = fetch[g] /\ fetch[g] # NoFetch
    BY <1>1, <1>2
  <2>2. QED
    BY <2>1, FetchShape DEF FetchesFit
<1>3. QED
  BY <1>2, FetchShape DEF FetchesFit

\* Positions stay within their bound in a step that leaves the calls in flight, or at
\* least their streams and blocks, alone and serves no rows.
LEMMA PositionFrame ==
  ASSUME PositionFits,
         \A c \in Cursors :
           /\ FetchesOf(c)' = FetchesOf(c)
           /\ pos'[c] = pos[c] \/ (FetchesOf(c) = {} /\ pos'[c] <= PageSize),
         \A f \in Fetches : fetch[f] # NoFetch => fetch'[f].block = fetch[f].block
  PROVE  PositionFits'
<1>1. LargestBlock' = LargestBlock /\ MostRows' = MostRows
  BY DEF LargestBlock, MostRows
<1>2. SUFFICES ASSUME NEW c \in Cursors
               PROVE  \/ FetchesOf(c)' = {} /\ (pos'[c] <= PageSize \/ pos'[c] <= MostRows)
                      \/ \E f \in FetchesOf(c)' :
                           pos'[c] + fetch'[f].block + (Cardinality(FetchesOf(c)') - 1) * LargestBlock
                             <= MostRows
  BY <1>1 DEF PositionFits
<1>3. CASE FetchesOf(c) = {}
  BY <1>3 DEF PositionFits
<1>4. CASE FetchesOf(c) # {}
  <2>1. PICK f \in FetchesOf(c) :
          pos[c] + fetch[f].block + (Cardinality(FetchesOf(c)) - 1) * LargestBlock <= MostRows
    BY <1>4 DEF PositionFits
  <2>2. fetch'[f].block = fetch[f].block /\ pos'[c] = pos[c] /\ f \in FetchesOf(c)'
    BY <1>4, <2>1 DEF FetchesOf
  <2>3. QED
    BY <2>1, <2>2
<1>5. QED
  BY <1>3, <1>4

\* The end of a call that serves at most the block it asked for: its rows take the
\* place of its block, or of the block of another.
LEMMA EndOfFetchFits ==
  ASSUME StreamInv, NEW f \in Fetches, fetch[f] # NoFetch,
         fetch' = [fetch EXCEPT ![f] = NoFetch],
         NEW n \in 0..fetch[f].block,
         pos' = [pos EXCEPT ![fetch[f].sid] = @ + n]
  PROVE  PositionFits'
<1> DEFINE c == fetch[f].sid
<1>1. /\ c \in Cursors /\ fetch[f].block \in Nat /\ n \in Nat
      /\ pos \in [Cursors -> Nat] /\ PositionFits /\ TypeOK /\ FetchesFit
  BY FetchShape DEF StreamInv, TypeOK
<1>2. LargestBlock' = LargestBlock /\ MostRows' = MostRows
  BY DEF LargestBlock, MostRows
<1>3. \A g \in Fetches : fetch'[g] = IF g = f THEN NoFetch ELSE fetch[g]
  BY <1>1 DEF TypeOK
<1>4. \A d \in Cursors : FetchesOf(d)' = FetchesOf(d) \ {f}
  BY <1>3, FetchShape, <1>1 DEF FetchesOf
<1>5. SUFFICES ASSUME NEW d \in Cursors
               PROVE  \/ FetchesOf(d)' = {} /\ (pos'[d] <= PageSize \/ pos'[d] <= MostRows)
                      \/ \E g \in FetchesOf(d)' :
                           pos'[d] + fetch'[g].block + (Cardinality(FetchesOf(d)') - 1) * LargestBlock
                             <= MostRows
  BY <1>2 DEF PositionFits
<1>6. CASE d # c
  <2>1. FetchesOf(d)' = FetchesOf(d) /\ pos'[d] = pos[d]
    BY <1>1, <1>4, <1>6 DEF FetchesOf
  <2>2. \A g \in FetchesOf(d) : fetch'[g] = fetch[g]
    BY <1>3, <1>6 DEF FetchesOf
  <2>3. QED
    BY <1>1, <2>1, <2>2 DEF PositionFits
<1>7. CASE d = c
  <2> DEFINE S == FetchesOf(c)
             k == Cardinality(S)
             L == LargestBlock
             R == S \ {f}
  <2>1. f \in S /\ S \in SUBSET Fetches /\ R \in SUBSET Fetches /\ FetchesOf(d)' = R
    BY <1>1, <1>4, <1>7 DEF FetchesOf
  <2>2. k \in Nat /\ IsFiniteSet(S) /\ Cardinality(R) = k - 1 /\ Cardinality(R) \in Nat
    BY <2>1, FetchesFinite, FS_RemoveElement
  <2>3. L \in Nat /\ \A g \in S : fetch[g].block \in Nat /\ fetch[g].block <= L
    <3>1. ASSUME NEW g \in S PROVE fetch[g].block \in Nat /\ fetch[g].block <= L
      <4>1. g \in Fetches /\ fetch[g] # NoFetch
        BY DEF FetchesOf
      <4>2. fetch[g].block \in Nat
        BY <1>1, <4>1, FetchShape
      <4>3. PICK m \in Limits : fetch[g].block <= m
        BY <1>1, <4>1 DEF FetchesFit
      <4>4. m \in Nat /\ m <= L /\ L \in Nat
        BY LargestBlockFacts, RowsAssumption
      <4>5. QED
        BY <4>2, <4>3, <4>4
    <3>2. QED
      BY <3>1, LargestBlockFacts
  <2>4. MostRows \in Int
    <3>1. Cardinality(Fetches) \in Nat
      BY <2>1, FetchesFinite
    <3>2. (Cardinality(Fetches) - 1) * L \in Int
      BY <2>3, <3>1
    <3>3. QED
      BY <3>2, RowsAssumption DEF MostRows
  <2>5. PICK g \in S : pos[c] + fetch[g].block + (k - 1) * L <= MostRows
    BY <1>1, <2>1 DEF PositionFits
  <2>6. pos'[d] = pos[c] + n /\ pos[c] \in Nat
    BY <1>1, <1>7
  <2> HIDE DEF S, k, L, R
  <2>7. (k - 1) * L \in Int /\ (k - 2) * L \in Int /\ (k - 1) * L = (k - 2) * L + L
    BY <2>2, <2>3
  <2>8. CASE k = 1
    <3>1. R = {}
      BY <2>1, <2>2, <2>8, FS_EmptySet, FetchesFinite
    <3>2. g = f
      BY <3>1, <2>5 DEF R
    <3>3. (k - 1) * L = 0
      BY <2>3, <2>8
    <3>4. pos[c] + n <= MostRows
      BY <1>1, <2>4, <2>5, <2>6, <3>2, <3>3
    <3>5. QED
      BY <2>1, <2>6, <3>1, <3>4
  <2>9. CASE k # 1
    <3>1. R # {}
      BY <2>2, <2>9, FS_EmptySet
    <3>2. PICK h \in R : (g # f => h = g)
      BY <2>5, <3>1 DEF R
    <3>3. h \in S /\ h # f /\ h \in Fetches /\ fetch'[h] = fetch[h]
      BY <1>3, <2>1, <3>2 DEF R
    <3>4. pos[c] + n + fetch[h].block + (k - 2) * L <= MostRows
      <4>1. CASE g = f
        <5>1. n <= fetch[g].block /\ fetch[h].block <= L
          BY <1>1, <2>3, <3>3, <4>1
        <5>2. QED
          BY <1>1, <2>3, <2>4, <2>5, <2>6, <2>7, <3>3, <5>1
      <4>2. CASE g # f
        <5>1. n <= fetch[f].block /\ fetch[f].block <= L /\ h = g
          BY <1>1, <2>1, <2>3, <3>2, <4>2
        <5>2. n <= L
          BY <1>1, <2>3, <5>1
        <5>3. QED
          BY <1>1, <2>3, <2>4, <2>5, <2>6, <2>7, <5>1, <5>2
      <4>3. QED
        BY <4>1, <4>2
    <3>5. Cardinality(R) - 1 = k - 2
      BY <2>2
    <3>6. pos'[d] + fetch'[h].block + (Cardinality(R) - 1) * L <= MostRows
      BY <2>6, <3>3, <3>4, <3>5
    <3>7. QED
      BY <2>1, <3>2, <3>6 DEF L
  <2>10. QED
    BY <2>8, <2>9
<1>8. QED
  BY <1>6, <1>7

-----------------------------------------------------------------------------
(* The steps.                                                              *)

\* The steps of an open call keep the rest of the invariant.
LEMMA OpenStepKeeps ==
  ASSUME StreamInv, NEW c \in Cursors, OpenStep(c)
  PROVE  StageFitsCursor' /\ CountIsDue' /\ FetchesFit' /\ PositionFits'
<1> USE RowsAssumption DEF StreamInv, TypeOK
<1>1. StageFitsCursor'
  <2> USE DEF StageFitsCursor
  <2>1. CASE AssertCapacity(c)
    BY <2>1 DEF AssertCapacity
  <2>2. CASE OpenCursor(c)
    BY <2>2 DEF OpenCursor
  <2>3. CASE OpenCursorFails(c)
    BY <2>3 DEF OpenCursorFails
  <2>4. CASE FirstBlock(c)
    BY <2>4 DEF FirstBlock, Smaller
  <2>5. CASE FirstBlockFails(c)
    BY <2>5 DEF FirstBlockFails, CloseHandles
  <2>6. CASE Register(c)
    BY <2>6 DEF Register, CloseHandles
  <2>7. CASE DescribeFails(c)
    BY <2>7 DEF DescribeFails
  <2>8. QED
    BY <2>1, <2>2, <2>3, <2>4, <2>5, <2>6, <2>7 DEF OpenStep
<1>2. CountIsDue'
  <2> USE DEF StageFitsCursor, CountIsDue
  <2>1. CASE AssertCapacity(c)
    BY <2>1 DEF AssertCapacity
  <2>2. CASE OpenCursor(c)
    BY <2>2 DEF OpenCursor
  <2>3. CASE OpenCursorFails(c)
    BY <2>3 DEF OpenCursorFails
  <2>4. CASE FirstBlock(c)
    BY <2>4 DEF FirstBlock, Smaller
  <2>5. CASE FirstBlockFails(c)
    BY <2>5 DEF FirstBlockFails, CloseHandles
  <2>6. CASE Register(c)
    BY <2>6 DEF Register, CloseHandles
  <2>7. CASE DescribeFails(c)
    BY <2>7 DEF DescribeFails
  <2>8. QED
    BY <2>1, <2>2, <2>3, <2>4, <2>5, <2>6, <2>7 DEF OpenStep
<1>3. fetch' = fetch
  BY DEF OpenStep, AssertCapacity, OpenCursor, OpenCursorFails, FirstBlock,
     FirstBlockFails, Register, DescribeFails
<1>4. PositionFits'
  <2>1. \A d \in Cursors : FetchesOf(d)' = FetchesOf(d)
    BY <1>3 DEF FetchesOf, NoFetch
  <2>2. \A d \in Cursors : opening[d] # "done" => FetchesOf(d) = {}
    BY DEF FetchesFit, FetchesOf
  <2>3. \A d \in Cursors : pos'[d] = pos[d] \/ (FetchesOf(d) = {} /\ pos'[d] <= PageSize)
    <3>1. CASE FirstBlock(c)
      BY <2>2, <3>1 DEF FirstBlock, Smaller
    <3>2. CASE ~FirstBlock(c)
      BY <3>2 DEF OpenStep, AssertCapacity, OpenCursor, OpenCursorFails,
         FirstBlockFails, Register, DescribeFails
    <3>3. QED
      BY <3>1, <3>2
  <2>4. QED
    BY <1>3, <2>1, <2>3, PositionFrame
<1>5. FetchesFit'
  <2>1. \A d \in Cursors : opening[d] = "done" =>
          opening'[d] = "done" /\ (cur[d] # "open" => cur'[d] # "open")
    BY OpenStep(c) DEF OpenStep, AssertCapacity, OpenCursor, OpenCursorFails, FirstBlock,
         FirstBlockFails, Register, DescribeFails, CloseHandles
  <2>2. QED
    BY <1>3, <2>1, FetchesFrame
<1>6. QED
  BY <1>1, <1>2, <1>4, <1>5

\* Closing sessions - by their owner, the reaper, a fetch or shutdown - keeps
\* everything but what is said of fetches, provided the step serves rows only to
\* streams that are no longer live.
LEMMA CloseKeeps ==
  ASSUME StreamInv, NEW S \in SUBSET Cursors, CloseSessions(S), UNCHANGED opening,
         pos' \in [Cursors -> Nat],
         \A c \in Cursors : pos'[c] = pos[c] \/ (opening[c] = "done" /\ c \notin live')
  PROVE  /\ StageFitsCursor' /\ CountIsDue'
         /\ \A c \in Cursors : cur[c] # "open" => cur'[c] # "open"
<1> USE DEF StreamInv, TypeOK, StageFitsCursor, CountIsDue, CloseSessions, CloseHandles
<1>1. StageFitsCursor'
  OBVIOUS
<1>2. CountIsDue'
  OBVIOUS
<1>3. \A c \in Cursors : cur[c] # "open" => cur'[c] # "open"
  OBVIOUS
<1>4. QED
  BY <1>1, <1>2, <1>3

\* Starting a fetch: it has a positive block within one of the limits and within the
\* budget, and is on a registered session.
LEMMA StartFetchKeeps ==
  ASSUME StreamInv, NEW f \in Fetches, NEW c \in Cursors, NEW limit \in Limits,
         StartFetch(f, c, limit)
  PROVE  StageFitsCursor' /\ CountIsDue' /\ FetchesFit' /\ PositionFits'
<1> USE RowsAssumption DEF StreamInv
<1>0. /\ pos[c] \in Nat /\ pos[c] < MaxRows /\ opening[c] = "done" /\ fetch[f] = NoFetch
      /\ \A d \in Cursors : pos[d] \in Nat
  BY DEF StartFetch, StageFitsCursor, TypeOK
<1> DEFINE n == Smaller(limit, MaxRows - pos[c])
<1>1. /\ fetch' = [fetch EXCEPT ![f] = InFetch("reading", c, n, 0)]
      /\ UNCHANGED <<opening, conn, live, pos, left, cur, counted, running>>
  BY <1>0 DEF StartFetch
<1>2. n \in Nat /\ n <= limit /\ pos[c] + n <= MaxRows
  BY <1>0 DEF Smaller
<1> HIDE DEF n
<1>3. StageFitsCursor' /\ CountIsDue'
  BY <1>1 DEF StageFitsCursor, CountIsDue
<1>4. \A g \in Fetches : fetch'[g] = IF g = f THEN InFetch("reading", c, n, 0) ELSE fetch[g]
  BY <1>1 DEF TypeOK
<1>5. /\ InFetch("reading", c, n, 0).stage = "reading"
      /\ InFetch("reading", c, n, 0).sid = c
      /\ InFetch("reading", c, n, 0).block = n
      /\ InFetch("reading", c, n, 0).got = 0
      /\ InFetch("reading", c, n, 0) # NoFetch
      /\ NoFetch' = NoFetch
  BY DEF InFetch, NoFetch
<1>6. FetchesFit'
  <2>1. ASSUME NEW g \in Fetches, fetch'[g] # NoFetch
        PROVE  /\ opening'[fetch'[g].sid] = "done"
               /\ fetch'[g].got <= fetch'[g].block
               /\ \E m \in Limits : fetch'[g].block <= m
               /\ fetch'[g].stage = "drained" =>
                    cur'[fetch'[g].sid] # "open" /\ fetch'[g].got < fetch'[g].block
    <3>1. CASE g = f
      BY <1>0, <1>1, <1>2, <1>4, <1>5, <3>1
    <3>2. CASE g # f
      <4>1. fetch'[g] = fetch[g] /\ opening' = opening /\ cur' = cur
        BY <1>1, <1>4, <3>2
      <4>2. QED
        BY <2>1, <4>1 DEF FetchesFit
    <3>3. QED
      BY <3>1, <3>2
  <2>2. QED
    BY <1>5, <2>1 DEF FetchesFit
<1>7. PositionFits'
  <2>1. LargestBlock' = LargestBlock /\ MostRows' = MostRows
    BY DEF LargestBlock, MostRows
  <2>2. \A d \in Cursors : FetchesOf(d)' = IF d = c THEN FetchesOf(c) \cup {f} ELSE FetchesOf(d)
    <3>1. \A d \in Cursors, g \in Fetches :
            (fetch'[g] # NoFetch /\ fetch'[g].sid = d) <=>
              (fetch[g] # NoFetch /\ fetch[g].sid = d) \/ (g = f /\ d = c)
      BY <1>0, <1>4, <1>5
    <3>2. QED
      BY <1>5, <3>1 DEF FetchesOf
  <2>3. SUFFICES ASSUME NEW d \in Cursors
                 PROVE  \/ FetchesOf(d)' = {} /\ (pos'[d] <= PageSize \/ pos'[d] <= MostRows)
                        \/ \E g \in FetchesOf(d)' :
                             pos'[d] + fetch'[g].block
                               + (Cardinality(FetchesOf(d)') - 1) * LargestBlock <= MostRows
    BY <2>1 DEF PositionFits
  <2>4. CASE d # c
    <3>1. FetchesOf(d)' = FetchesOf(d) /\ pos'[d] = pos[d]
      BY <1>1, <2>2, <2>4
    <3>2. \A g \in FetchesOf(d) : fetch'[g] = fetch[g]
      BY <1>0, <1>4 DEF FetchesOf
    <3>3. QED
      BY <3>1, <3>2 DEF PositionFits
  <2>5. CASE d = c
    <3> DEFINE S == FetchesOf(d)'
               k == Cardinality(S)
               F == Cardinality(Fetches)
               L == LargestBlock
    <3>1. S \in SUBSET Fetches /\ f \in S
      BY <2>2, <2>5 DEF FetchesOf
    <3>2. k \in Nat /\ F \in Nat /\ k <= F /\ L \in Nat
      BY <3>1, FetchesFinite, LargestBlockFacts
    <3>3. fetch'[f].block = n /\ pos'[d] = pos[c]
      BY <1>1, <1>4, <1>5, <2>5
    <3>4. MostRows = MaxRows + (F - 1) * L
      BY DEF MostRows
    <3> HIDE DEF S, k, F, L
    <3>5. (k - 1) * L <= (F - 1) * L /\ (k - 1) * L \in Int /\ (F - 1) * L \in Int
      <4>1. PICK e \in Nat : F = k + e
        BY <3>2
      <4>2. (F - 1) * L = (k - 1) * L + e * L /\ e * L \in Nat /\ (k - 1) * L \in Int
        BY <3>2, <4>1
      <4>3. QED
        BY <3>2, <4>2
    <3>6. pos[c] + n + (k - 1) * L <= MostRows
      BY <1>0, <1>2, <3>4, <3>5
    <3>7. QED
      BY <3>1, <3>3, <3>6 DEF S, k, L
  <2>6. QED
    BY <2>4, <2>5
<1>8. QED
  BY <1>3, <1>6, <1>7

\* The answers of the driver to a fetch.
LEMMA FetchReturnsKeeps ==
  ASSUME StreamInv, NEW f \in Fetches, FetchReturns(f)
  PROVE  StageFitsCursor' /\ CountIsDue' /\ FetchesFit' /\ PositionFits'
<1> USE RowsAssumption
<1> DEFINE c == fetch[f].sid
<1>1. fetch[f].stage \in {"reading", "drained"}
  BY DEF FetchReturns, TakeRows, FullBlock, LastBlock, CompleteFetch, FetchClosed, FetchFails
<1>2. /\ TypeOK /\ fetch[f] # NoFetch /\ NoFetch' = NoFetch
      /\ c \in Cursors /\ fetch[f].block \in Nat \ {0} /\ fetch[f].got \in Nat
      /\ opening[c] = "done" /\ fetch[f].got <= fetch[f].block
      /\ pos \in [Cursors -> Nat] /\ pos[c] \in Nat
  BY <1>1, FetchShape DEF StreamInv, TypeOK, FetchesFit
<1>3. ASSUME NEW n \in 0..fetch[f].block,
             fetch' = [fetch EXCEPT ![f] = NoFetch], UNCHANGED opening,
             pos' = [pos EXCEPT ![c] = @ + n],
             \/ CloseSessions({c})
             \/ UNCHANGED <<live, idle, cur, counted>> /\ pos[c] + n < MaxRows
      PROVE  StageFitsCursor' /\ CountIsDue' /\ FetchesFit' /\ PositionFits'
  <2>1. PositionFits'
    BY <1>2, <1>3, EndOfFetchFits
  <2>2. pos' \in [Cursors -> Nat] /\ \A d \in Cursors : d # c => pos'[d] = pos[d]
    BY <1>2, <1>3
  <2>3. /\ StageFitsCursor' /\ CountIsDue'
        /\ \A d \in Cursors : cur[d] # "open" => cur'[d] # "open"
    <3>1. CASE CloseSessions({c})
      <4>1. c \notin live'
        BY <3>1 DEF CloseSessions
      <4>2. {c} \in SUBSET Cursors /\ \A d \in Cursors :
              pos'[d] = pos[d] \/ (opening[d] = "done" /\ d \notin live')
        BY <1>2, <2>2, <4>1
      <4>3. QED
        BY <1>3, <2>2, <3>1, <4>2, CloseKeeps
    <3>2. CASE UNCHANGED <<live, idle, cur, counted>> /\ pos[c] + n < MaxRows
      <4>1. pos'[c] < MaxRows
        BY <1>2, <1>3, <3>2
      <4>2. QED
        BY <1>2, <1>3, <2>2, <3>2, <4>1 DEF StreamInv, StageFitsCursor, CountIsDue
    <3>3. QED
      BY <1>3, <3>1, <3>2
  <2>4. FetchesFit'
    BY <1>2, <1>3, <2>3, FetchEnds DEF StreamInv
  <2>5. QED
    BY <2>1, <2>3, <2>4
<1>4. CASE FullBlock(f)
  <2>1. fetch[f].block \in 0..fetch[f].block
    BY <1>2
  <2>2. /\ fetch' = [fetch EXCEPT ![f] = NoFetch] /\ UNCHANGED opening
        /\ pos' = [pos EXCEPT ![c] = @ + fetch[f].block]
        /\ \/ CloseSessions({c})
           \/ UNCHANGED <<live, idle, cur, counted>> /\ pos[c] + fetch[f].block < MaxRows
    BY <1>2, <1>4 DEF FullBlock
  <2>3. QED
    BY <1>3, <2>1, <2>2
<1>5. CASE CompleteFetch(f) \/ FetchClosed(f)
  <2>1. fetch[f].got \in 0..fetch[f].block
    BY <1>2
  <2>2. /\ fetch' = [fetch EXCEPT ![f] = NoFetch] /\ UNCHANGED opening
        /\ pos' = [pos EXCEPT ![c] = @ + fetch[f].got]
        /\ CloseSessions({c})
    BY <1>5 DEF CompleteFetch, FetchClosed, ServesLastRows
  <2>3. QED
    BY <1>3, <2>1, <2>2
<1>6. CASE FetchFails(f)
  <2>1. /\ fetch' = [fetch EXCEPT ![f] = NoFetch]
        /\ UNCHANGED <<opening, live, pos, cur, counted>>
    BY <1>6 DEF FetchFails
  <2>2. StageFitsCursor' /\ CountIsDue'
    BY <2>1 DEF StreamInv, StageFitsCursor, CountIsDue
  <2>3. FetchesFit'
    BY <1>2, <2>1, FetchEnds DEF StreamInv
  <2>4. 0 \in 0..fetch[f].block /\ pos' = [pos EXCEPT ![c] = @ + 0]
    BY <1>2, <2>1
  <2>5. PositionFits'
    BY <1>2, <2>1, <2>4, EndOfFetchFits
  <2>6. QED
    BY <2>2, <2>3, <2>5
<1>7. CASE TakeRows(f)
  <2>1. PICK n \in 1..Smaller(fetch[f].block - fetch[f].got, left[c]) :
          fetch' = [fetch EXCEPT ![f].got = @ + n]
    BY <1>7 DEF TakeRows
  <2>2. n \in Nat /\ fetch[f].got + n <= fetch[f].block /\ fetch[f].stage = "reading"
    <3>1. left[c] \in Nat
      BY <1>2 DEF TypeOK
    <3>2. QED
      BY <1>2, <1>7, <3>1 DEF TakeRows, Smaller
  <2>3. UNCHANGED <<opening, live, pos, cur, counted>>
    BY <1>7 DEF TakeRows
  <2>4. \A g \in Fetches : fetch'[g] = IF g = f THEN [fetch[f] EXCEPT !.got = @ + n] ELSE fetch[g]
    BY <1>2, <2>1 DEF TypeOK
  <2>5. /\ fetch'[f].sid = c /\ fetch'[f].block = fetch[f].block /\ fetch'[f].stage = "reading"
        /\ fetch'[f].got = fetch[f].got + n /\ fetch'[f] # NoFetch
    <3>1. fetch[f] \in [stage : {"reading", "drained"}, sid : Cursors, block : Nat \ {0}, got : Nat]
      BY <1>2 DEF TypeOK, FetchCall
    <3>2. fetch'[f] = [fetch[f] EXCEPT !.got = @ + n]
      BY <2>4
    <3>3. /\ fetch'[f].sid = c /\ fetch'[f].block = fetch[f].block /\ fetch'[f].stage = "reading"
          /\ fetch'[f].got = fetch[f].got + n
      BY <2>2, <3>1, <3>2
    <3>4. QED
      BY <3>3 DEF NoFetch
  <2>6. StageFitsCursor' /\ CountIsDue'
    BY <2>3 DEF StreamInv, StageFitsCursor, CountIsDue
  <2>7. PositionFits'
    <3>1. \A g \in Fetches :
            /\ fetch'[g] # NoFetch <=> fetch[g] # NoFetch
            /\ fetch[g] # NoFetch => fetch'[g].sid = fetch[g].sid /\ fetch'[g].block = fetch[g].block
      BY <1>2, <2>4, <2>5
    <3>2. \A d \in Cursors : FetchesOf(d)' = FetchesOf(d)
      BY <1>2, <3>1 DEF FetchesOf
    <3>3. QED
      BY <2>3, <3>1, <3>2, PositionFrame DEF StreamInv
  <2>8. FetchesFit'
    <3>1. ASSUME NEW g \in Fetches, fetch'[g] # NoFetch
          PROVE  /\ opening'[fetch'[g].sid] = "done"
                 /\ fetch'[g].got <= fetch'[g].block
                 /\ \E m \in Limits : fetch'[g].block <= m
                 /\ fetch'[g].stage = "drained" =>
                      cur'[fetch'[g].sid] # "open" /\ fetch'[g].got < fetch'[g].block
      <4>1. CASE g = f
        <5>1. \E m \in Limits : fetch[f].block <= m
          BY <1>2 DEF StreamInv, FetchesFit
        <5>2. QED
          BY <1>2, <2>2, <2>3, <2>5, <4>1, <5>1
      <4>2. CASE g # f
        <5>1. fetch'[g] = fetch[g] /\ opening' = opening /\ cur' = cur
          BY <2>3, <2>4, <4>2
        <5>2. QED
          BY <3>1, <5>1 DEF StreamInv, FetchesFit
      <4>3. QED
        BY <4>1, <4>2
    <3>2. QED
      BY <1>2, <3>1 DEF FetchesFit
  <2>9. QED
    BY <2>6, <2>7, <2>8
<1>8. CASE LastBlock(f)
  <2>1. /\ fetch' = [fetch EXCEPT ![f].stage = "drained"]
        /\ UNCHANGED <<opening, live, pos, counted>>
        /\ cur' = [cur EXCEPT ![c] = "draining"] /\ cur[c] = "open"
        /\ fetch[f].got < fetch[f].block
    BY <1>8 DEF LastBlock
  <2>2. cur \in [Cursors -> CursorState] /\ c \in live /\ c \in counted
    BY <1>2, <2>1 DEF StreamInv, TypeOK, StageFitsCursor, CountIsDue
  <2>3. \A d \in Cursors : cur'[d] = IF d = c THEN "draining" ELSE cur[d]
    BY <2>1, <2>2
  <2>4. StageFitsCursor' /\ CountIsDue'
    BY <1>2, <2>1, <2>2, <2>3 DEF StreamInv, StageFitsCursor, CountIsDue
  <2>5. \A g \in Fetches : fetch'[g] = IF g = f THEN [fetch[f] EXCEPT !.stage = "drained"] ELSE fetch[g]
    BY <1>2, <2>1 DEF TypeOK
  <2>6. /\ fetch'[f].sid = c /\ fetch'[f].block = fetch[f].block /\ fetch'[f].stage = "drained"
        /\ fetch'[f].got = fetch[f].got /\ fetch'[f] # NoFetch
    <3>1. fetch[f] \in [stage : {"reading", "drained"}, sid : Cursors, block : Nat \ {0}, got : Nat]
      BY <1>2 DEF TypeOK, FetchCall
    <3>2. fetch'[f] = [fetch[f] EXCEPT !.stage = "drained"]
      BY <2>5
    <3>3. /\ fetch'[f].sid = c /\ fetch'[f].block = fetch[f].block /\ fetch'[f].stage = "drained"
          /\ fetch'[f].got = fetch[f].got
      BY <3>1, <3>2
    <3>4. QED
      BY <3>3 DEF NoFetch
  <2>7. PositionFits'
    <3>1. \A g \in Fetches :
            /\ fetch'[g] # NoFetch <=> fetch[g] # NoFetch
            /\ fetch[g] # NoFetch => fetch'[g].sid = fetch[g].sid /\ fetch'[g].block = fetch[g].block
      BY <1>2, <2>5, <2>6
    <3>2. \A d \in Cursors : FetchesOf(d)' = FetchesOf(d)
      BY <1>2, <3>1 DEF FetchesOf
    <3>3. QED
      BY <2>1, <3>1, <3>2, PositionFrame DEF StreamInv
  <2>8. FetchesFit'
    <3>1. ASSUME NEW g \in Fetches, fetch'[g] # NoFetch
          PROVE  /\ opening'[fetch'[g].sid] = "done"
                 /\ fetch'[g].got <= fetch'[g].block
                 /\ \E m \in Limits : fetch'[g].block <= m
                 /\ fetch'[g].stage = "drained" =>
                      cur'[fetch'[g].sid] # "open" /\ fetch'[g].got < fetch'[g].block
      <4>1. CASE g = f
        <5>1. \E m \in Limits : fetch[f].block <= m
          BY <1>2 DEF StreamInv, FetchesFit
        <5>2. QED
          BY <1>2, <2>1, <2>3, <2>6, <4>1, <5>1
      <4>2. CASE g # f
        <5>1. fetch'[g] = fetch[g] /\ opening' = opening
          BY <2>1, <2>5, <4>2
        <5>2. fetch[g].sid \in Cursors /\ fetch[g].stage = "drained" => cur[fetch[g].sid] # "open"
          BY <1>2, <3>1, <5>1, FetchShape DEF StreamInv, FetchesFit
        <5>3. QED
          BY <1>2, <2>3, <3>1, <5>1, <5>2, FetchShape DEF StreamInv, FetchesFit
      <4>3. QED
        BY <4>1, <4>2
    <3>2. QED
      BY <1>2, <3>1 DEF FetchesFit
  <2>9. QED
    BY <2>4, <2>7, <2>8
<1>9. QED
  BY <1>4, <1>5, <1>6, <1>7, <1>8 DEF FetchReturns

\* Closes by the owner, the reaper and shutdown, the driver and the clock.
LEMMA BackgroundKeeps ==
  ASSUME StreamInv,
         \/ \E c \in Cursors : Close(c) \/ DriverClosed(c) \/ GrowIdle(c)
         \/ Reap
         \/ OnModuleDestroy
  PROVE  StageFitsCursor' /\ CountIsDue' /\ FetchesFit' /\ PositionFits'
<1>1. ASSUME UNCHANGED <<fetch, pos>> PROVE PositionFits'
  <2>1. \A d \in Cursors : FetchesOf(d)' = FetchesOf(d)
    BY <1>1 DEF FetchesOf, NoFetch
  <2>2. QED
    BY <1>1, <2>1, PositionFrame DEF StreamInv
<1>2. ASSUME NEW S \in SUBSET Cursors, CloseSessions(S), UNCHANGED <<opening, pos, fetch>>
      PROVE  StageFitsCursor' /\ CountIsDue' /\ FetchesFit' /\ PositionFits'
  <2>1. /\ StageFitsCursor' /\ CountIsDue'
        /\ \A d \in Cursors : cur[d] # "open" => cur'[d] # "open"
    BY <1>2, CloseKeeps DEF StreamInv, TypeOK
  <2>2. FetchesFit'
    BY <1>2, <2>1, FetchesFrame DEF StreamInv
  <2>3. QED
    BY <1>1, <1>2, <2>1, <2>2
<1>3. ASSUME NEW c \in Cursors, Close(c)
      PROVE  StageFitsCursor' /\ CountIsDue' /\ FetchesFit' /\ PositionFits'
  <2>1. {c} \in SUBSET Cursors
    OBVIOUS
  <2>2. QED
    BY <1>2, <1>3, <2>1 DEF Close
<1>4. CASE Reap
  BY <1>2, <1>4 DEF Reap, StreamInv, TypeOK
<1>5. CASE OnModuleDestroy
  BY <1>2, <1>5 DEF OnModuleDestroy, StreamInv, TypeOK
<1>6. ASSUME NEW c \in Cursors, DriverClosed(c) \/ GrowIdle(c)
      PROVE  StageFitsCursor' /\ CountIsDue' /\ FetchesFit' /\ PositionFits'
  <2> USE <1>6 DEF DriverClosed, GrowIdle
  <2>1. StageFitsCursor' /\ CountIsDue'
    BY DEF StreamInv, TypeOK, StageFitsCursor, CountIsDue
  <2>2. FetchesFit'
    BY FetchesFrame DEF StreamInv, TypeOK
  <2>3. PositionFits'
    BY <1>1
  <2>4. QED
    BY <2>1, <2>2, <2>3
<1>7. QED
  BY <1>3, <1>4, <1>5, <1>6

-----------------------------------------------------------------------------

\* StreamInv is an invariant of the service, whatever calls overlap: every cursor fits
\* the call or session that holds it and is counted while it should be, and the rows a
\* stream has served leave room for the blocks its calls in flight may still serve.
THEOREM StreamInvariant == Spec => []StreamInv
<1>1. StreamInv /\ [Next]_vars => StreamInv'
  <2> SUFFICES ASSUME StreamInv, [Next]_vars PROVE StreamInv'
    OBVIOUS
  <2>1. TypeOK'
    BY TypeStep
  <2>2. StageFitsCursor' /\ CountIsDue' /\ FetchesFit' /\ PositionFits'
    <3>1. CASE UNCHANGED vars
      <4>1. StageFitsCursor' /\ CountIsDue' /\ FetchesFit'
        BY <3>1 DEF vars, StreamInv, StageFitsCursor, CountIsDue, FetchesFit, NoFetch
      <4>2. PositionFits'
        BY <3>1, PositionFrame DEF vars, StreamInv, FetchesOf, NoFetch
      <4>3. QED
        BY <4>1, <4>2
    <3>2. CASE Next
      BY <3>2, OpenStepKeeps, StartFetchKeeps, FetchReturnsKeeps, BackgroundKeeps DEF Next
    <3>3. QED
      BY <3>1, <3>2
  <2>3. QED
    BY <2>1, <2>2 DEF StreamInv
<1>2. QED
  BY <1>1, InitStreamInv, PTL DEF Spec

\* Every variable keeps its type.
THEOREM TypeCorrect == Spec => []TypeOK
BY StreamInvariant, PTL DEF StreamInv

\* An open cursor is always held by its open call or its session, unless its
\* open call threw after the first block.
THEOREM OpenCursorsHaveOwners == Spec => []OpenCursorHasOwner
<1>1. StreamInv => OpenCursorHasOwner
  BY DEF StreamInv, StageFitsCursor, OpenCursorHasOwner
<1>2. QED
  BY <1>1, StreamInvariant, PTL

\* PoolManager counts a cursor from its opening until the wrapper's close is done, a
\* draining one too unless its session was ended by another call, and gives the count
\* back.
THEOREM CountsFollowCursors == Spec => []CountFollowsCursor
<1>1. StreamInv => CountFollowsCursor
  BY DEF StreamInv, CountIsDue, CountFollowsCursor
<1>2. QED
  BY <1>1, StreamInvariant, PTL

\* A registered session has budget left whenever no step is running.
THEOREM LiveSessionsHaveBudget == Spec => []LiveSessionHasBudget
<1>1. StreamInv => LiveSessionHasBudget
  BY DEF StreamInv, TypeOK, StageFitsCursor, LiveSessionHasBudget
<1>2. QED
  BY <1>1, StreamInvariant, PTL

\* Besides its first block, a stream serves at most its budget and one block for each
\* call that can overlap another.
THEOREM BudgetOvershoot == Spec => []BudgetOvershootBounded
<1>1. StreamInv => BudgetOvershootBounded
  <2> SUFFICES ASSUME StreamInv, NEW c \in Cursors
               PROVE  pos[c] <= PageSize \/ pos[c] <= MostRows
    BY LargestBlockFacts DEF BudgetOvershootBounded, MostRows
  <2>1. CASE FetchesOf(c) = {}
    BY <2>1 DEF StreamInv, PositionFits
  <2>2. CASE FetchesOf(c) # {}
    <3> DEFINE k == Cardinality(FetchesOf(c))
               L == LargestBlock
    <3>1. PICK f \in FetchesOf(c) : pos[c] + fetch[f].block + (k - 1) * L <= MostRows
      BY <2>2 DEF StreamInv, PositionFits
    <3>2. f \in Fetches /\ fetch[f] # NoFetch
      BY DEF FetchesOf
    <3>3. fetch[f].block \in Nat /\ pos[c] \in Nat
      BY <3>2, FetchShape DEF StreamInv, TypeOK
    <3>4. k \in Nat /\ k # 0
      BY <2>2, FetchesFinite, FS_EmptySet DEF FetchesOf
    <3>5. L \in Nat /\ Cardinality(Fetches) \in Nat
      BY <3>2, LargestBlockFacts, FetchesFinite
    <3>6. MostRows \in Int
      <4>1. (Cardinality(Fetches) - 1) * L \in Int
        BY <3>5
      <4>2. QED
        BY <4>1, RowsAssumption DEF MostRows
    <3> HIDE DEF k, L
    <3>7. (k - 1) * L \in Nat
      BY <3>4, <3>5
    <3>8. QED
      BY <3>1, <3>3, <3>6, <3>7
  <2>3. QED
    BY <2>1, <2>2
<1>2. QED
  BY <1>1, StreamInvariant, PTL

-----------------------------------------------------------------------------
(* The caps.                                                               *)

\* Sessions and calls in flight are finitely many, in all and per connection.
LEMMA AdmittedFinite ==
  ASSUME TypeOK
  PROVE  \A S \in SUBSET Cursors : IsFiniteSet(S) /\ Cardinality(S) \in Nat
<1>1. ASSUME NEW S \in SUBSET Cursors PROVE IsFiniteSet(S) /\ Cardinality(S) \in Nat
  BY FiniteAssumption, FS_Subset, FS_CardinalityType
<1>2. QED
  BY <1>1

\* A step that admits nobody keeps the bounds.
LEMMA AdmitsNobody ==
  ASSUME TypeOK, AdmissionBounded, conn' = conn, Admitted' \subseteq Admitted
  PROVE  AdmissionBounded'
<1> USE CapsAssumption
<1>1. /\ Admitted \subseteq Cursors /\ Admitted' \subseteq Cursors
      /\ \A k \in Conns : AdmittedOn(k) \subseteq Cursors /\ AdmittedOn(k)' \subseteq AdmittedOn(k)
  BY DEF Admitted, AdmittedOn, InFlight, TypeOK
<1>2. \A S, T \in SUBSET Cursors : T \subseteq S => Cardinality(T) <= Cardinality(S)
  BY AdmittedFinite, FS_Subset
<1>3. \A S \in SUBSET Cursors : Cardinality(S) \in Nat
  BY AdmittedFinite
<1>4. Cardinality(Admitted') < MaxSessions + MaxOpening
  BY <1>1, <1>2, <1>3 DEF AdmissionBounded
<1>5. ASSUME NEW k \in Conns PROVE Cardinality(AdmittedOn(k)') < MaxPerConn + MaxOpening
  <2>1. AdmittedOn(k) \in SUBSET Cursors /\ AdmittedOn(k)' \in SUBSET Cursors
    BY <1>1
  <2>2. Cardinality(AdmittedOn(k)') <= Cardinality(AdmittedOn(k))
    BY <1>1, <1>2, <2>1
  <2>3. Cardinality(AdmittedOn(k)) < MaxPerConn + MaxOpening
    BY DEF AdmissionBounded
  <2>4. QED
    BY <1>3, <2>1, <2>2, <2>3
<1>6. QED
  BY <1>4, <1>5 DEF AdmissionBounded

\* The capacity check admits a call only while sessions alone are below the
\* caps, and at most MaxOpening calls are in flight with it.
LEMMA CheckAdmits ==
  ASSUME TypeOK, AdmissionBounded, NEW c \in Cursors, AssertCapacity(c)
  PROVE  AdmissionBounded'
<1> USE CapsAssumption DEF TypeOK
<1>1. CASE ~HasCapacity(conn[c])
  <2>1. InFlight' = InFlight /\ UNCHANGED <<conn, live>>
    BY <1>1 DEF AssertCapacity, InFlight
  <2>2. QED
    BY <2>1, AdmitsNobody DEF Admitted
<1>2. CASE HasCapacity(conn[c])
  <2>1. InFlight' = InFlight \cup {c} /\ UNCHANGED <<conn, live>>
    BY <1>2 DEF AssertCapacity, InFlight
  <2>2. live \in SUBSET Cursors /\ InFlight \in SUBSET Cursors /\ InFlight' \in SUBSET Cursors
    BY <2>1 DEF InFlight
  <2>3. Cardinality(InFlight') <= MaxOpening
    <3>1. Cardinality(InFlight) < MaxOpening
      BY DEF AssertCapacity
    <3>2. IsFiniteSet(InFlight) /\ Cardinality(InFlight) \in Nat
      BY <2>2, AdmittedFinite
    <3>3. Cardinality(InFlight \cup {c}) \in {Cardinality(InFlight), Cardinality(InFlight) + 1}
      BY <3>2, FS_AddElement, Zenon
    <3>4. QED
      BY <2>1, <2>2, <3>1, <3>2, <3>3, AdmittedFinite
  <2>4. ASSUME NEW S \in SUBSET Cursors, NEW T \in SUBSET InFlight', NEW n \in Nat,
               Cardinality(S) < n
        PROVE  Cardinality(S \cup T) < n + MaxOpening
    <3>1. T \in SUBSET Cursors
      BY <2>2
    <3>2. IsFiniteSet(S) /\ IsFiniteSet(T) /\ IsFiniteSet(InFlight')
      BY <2>2, <3>1, AdmittedFinite
    <3>3. Cardinality(T) <= Cardinality(InFlight')
      BY <3>2, FS_Subset
    <3>4. Cardinality(S \cup T) = Cardinality(S) + Cardinality(T) - Cardinality(S \cap T)
      BY <3>2, FS_Union
    <3>5. /\ Cardinality(S) \in Nat /\ Cardinality(T) \in Nat
          /\ Cardinality(S \cap T) \in Nat /\ Cardinality(InFlight') \in Nat
      BY <2>2, <3>1, AdmittedFinite
    <3>6. QED
      BY <2>3, <2>4, <3>3, <3>4, <3>5
  <2>5. Cardinality(Admitted') < MaxSessions + MaxOpening
    BY <1>2, <2>1, <2>2, <2>4 DEF HasCapacity, Admitted
  <2>6. ASSUME NEW k \in Conns PROVE Cardinality(AdmittedOn(k)') < MaxPerConn + MaxOpening
    <3>1. CASE k = conn[c]
      <4> DEFINE T == {d \in InFlight' : conn[d] = k}
      <4>1. AdmittedOn(k)' = SessionsOf(k) \cup T
        BY <2>1 DEF AdmittedOn, Admitted, SessionsOf
      <4>2. SessionsOf(k) \in SUBSET Cursors /\ T \in SUBSET InFlight'
        BY DEF SessionsOf
      <4>3. Cardinality(SessionsOf(k)) < MaxPerConn
        BY <1>2, <3>1 DEF HasCapacity
      <4> HIDE DEF T
      <4>4. QED
        BY <2>4, <4>1, <4>2, <4>3
    <3>2. CASE k # conn[c]
      <4>1. AdmittedOn(k)' = AdmittedOn(k)
        BY <2>1, <3>2 DEF AdmittedOn, Admitted
      <4>2. QED
        BY <4>1 DEF AdmissionBounded
    <3>3. QED
      BY <3>1, <3>2
  <2>7. QED
    BY <2>5, <2>6 DEF AdmissionBounded
<1>3. QED
  BY <1>1, <1>2

\* Sessions and open calls together overstep the caps by less than the open
\* calls that may be in flight at once.
THEOREM AdmissionStaysBounded == Spec => []AdmissionBounded
<1> USE CapsAssumption
<1>1. Init => AdmissionBounded
  <2> SUFFICES ASSUME Init PROVE AdmissionBounded
    OBVIOUS
  <2>1. Admitted = {} /\ \A k \in Conns : AdmittedOn(k) = {}
    BY DEF Init, Admitted, AdmittedOn, InFlight
  <2>2. QED
    BY <2>1, FS_EmptySet DEF AdmissionBounded
<1>2. TypeOK /\ AdmissionBounded /\ [Next]_vars => AdmissionBounded'
  <2> SUFFICES ASSUME TypeOK, AdmissionBounded, [Next]_vars PROVE AdmissionBounded'
    OBVIOUS
  <2>1. ASSUME NEW c \in Cursors, AssertCapacity(c) PROVE AdmissionBounded'
    BY <2>1, CheckAdmits
  <2>2. ASSUME NEW c \in Cursors, OpenStep(c), ~AssertCapacity(c) PROVE AdmissionBounded'
    <3>1. conn' = conn /\ Admitted' \subseteq Admitted
      BY <2>2 DEF OpenStep, OpenCursor, OpenCursorFails, FirstBlock, FirstBlockFails, Register,
                  DescribeFails, Admitted, InFlight, TypeOK
    <3>2. QED
      BY <3>1, AdmitsNobody
  <2>3. CASE opening' = opening /\ conn' = conn /\ live' \subseteq live
    <3>1. Admitted' \subseteq Admitted
      BY <2>3 DEF Admitted, InFlight
    <3>2. QED
      BY <2>3, <3>1, AdmitsNobody
  <2>4. ASSUME NEW c \in Cursors, Close(c) \/ DriverClosed(c) \/ GrowIdle(c)
        PROVE  AdmissionBounded'
    BY <2>3, <2>4 DEF Close, DriverClosed, GrowIdle, CloseSessions
  <2>5. ASSUME NEW f \in Fetches, NEW c \in Cursors, NEW limit \in Limits, StartFetch(f, c, limit)
        PROVE  AdmissionBounded'
    BY <2>3, <2>5 DEF StartFetch, CloseSessions
  <2>6. ASSUME NEW f \in Fetches, FetchReturns(f) PROVE AdmissionBounded'
    BY <2>3, <2>6 DEF FetchReturns, TakeRows, FullBlock, LastBlock, CompleteFetch, FetchFails,
                      FetchClosed, ServesLastRows, CloseSessions
  <2>7. CASE Reap \/ OnModuleDestroy
    BY <2>3, <2>7 DEF Reap, OnModuleDestroy, CloseSessions
  <2>8. CASE UNCHANGED vars
    BY <2>3, <2>8 DEF vars
  <2>9. QED
    BY <2>1, <2>2, <2>4, <2>5, <2>6, <2>7, <2>8 DEF Next
<1>3. QED
  BY <1>1, <1>2, TypeCorrect, PTL DEF Spec

\* The caps on sessions are overstepped by less than the open calls that may
\* overlap (assertCapacity runs several awaits before the registration).
THEOREM CapOvershoot == Spec => []CapOvershootBounded
<1>1. TypeOK /\ AdmissionBounded => CapOvershootBounded
  <2> SUFFICES ASSUME TypeOK, AdmissionBounded PROVE CapOvershootBounded
    OBVIOUS
  <2>1. \A S, T \in SUBSET Cursors : T \subseteq S => Cardinality(T) <= Cardinality(S)
    BY AdmittedFinite, FS_Subset
  <2>2. /\ Admitted \in SUBSET Cursors /\ live \in SUBSET Cursors /\ live \subseteq Admitted
        /\ \A k \in Conns : /\ AdmittedOn(k) \in SUBSET Cursors
                            /\ SessionsOf(k) \in SUBSET Cursors
                            /\ SessionsOf(k) \subseteq AdmittedOn(k)
    BY DEF TypeOK, Admitted, AdmittedOn, SessionsOf, InFlight
  <2>3. \A S \in SUBSET Cursors : Cardinality(S) \in Nat
    BY AdmittedFinite
  <2>4. Cardinality(live) < MaxSessions + MaxOpening
    BY <2>1, <2>2, <2>3, CapsAssumption DEF AdmissionBounded
  <2>5. ASSUME NEW k \in Conns PROVE Cardinality(SessionsOf(k)) < MaxPerConn + MaxOpening
    <3>1. Cardinality(SessionsOf(k)) <= Cardinality(AdmittedOn(k))
      BY <2>1, <2>2
    <3>2. QED
      BY <2>2, <2>3, <3>1, CapsAssumption DEF AdmissionBounded
  <2>6. QED
    BY <2>4, <2>5 DEF CapOvershootBounded
<1>2. QED
  BY <1>1, AdmissionStaysBounded, TypeCorrect, PTL

-----------------------------------------------------------------------------
(* The stream contract.                                                    *)

\* The contract's view of a step that concerns one stream.
LEMMA OneStreamMoves ==
  ASSUME NEW c \in Cursors,
         \A d \in Cursors \ {c} : Phase(d)' = Phase(d) /\ Served(d)' = Served(d)
  PROVE  /\ [d \in Cursors |-> Phase(d)]' = [[d \in Cursors |-> Phase(d)] EXCEPT ![c] = Phase(c)']
         /\ [d \in Cursors |-> Served(d)]' = [[d \in Cursors |-> Served(d)] EXCEPT ![c] = Served(c)']
OBVIOUS

\* ... of one that concerns none ...
LEMMA NoStreamMoves ==
  ASSUME \A d \in Cursors : Phase(d)' = Phase(d) /\ Served(d)' = Served(d)
  PROVE  /\ [d \in Cursors |-> Phase(d)]' = [d \in Cursors |-> Phase(d)]
         /\ [d \in Cursors |-> Served(d)]' = [d \in Cursors |-> Served(d)]
OBVIOUS

\* ... and of one that leaves every call in flight as it is.
LEMMA NoCallMoves ==
  ASSUME \A g \in Fetches : Call(g)' = Call(g)
  PROVE  [g \in Fetches |-> Call(g)]' = [g \in Fetches |-> Call(g)]
OBVIOUS

LEMMA FetchKeepsCalls ==
  ASSUME fetch' = fetch
  PROVE  [g \in Fetches |-> Call(g)]' = [g \in Fetches |-> Call(g)]
BY NoCallMoves DEF Call, NoFetch

\* A call in flight, as the contract sees it.
LEMMA CallInFlight ==
  ASSUME TypeOK, NEW f \in Fetches
  PROVE  /\ fetch[f] = NoFetch => Call(f) = [upTo |-> 0]
         /\ fetch[f] # NoFetch =>
              /\ Call(f) # [upTo |-> 0]
              /\ Call(f).on = fetch[f].sid /\ Call(f).upTo = fetch[f].block
<1>1. CASE fetch[f] = NoFetch
  BY <1>1 DEF Call
<1>2. CASE fetch[f] # NoFetch
  <2>1. Call(f) = [on |-> fetch[f].sid, upTo |-> fetch[f].block] /\ fetch[f].block # 0
    BY <1>2, FetchShape DEF Call
  <2>2. /\ Call(f).on = fetch[f].sid /\ Call(f).upTo = fetch[f].block
        /\ [upTo |-> 0].upTo = 0
    BY <2>1
  <2>3. QED
    BY <1>2, <2>1, <2>2
<1>3. QED
  BY <1>1, <1>2

\* A stream whose open call is done streams while it has a session.
LEMMA PhaseOfOpened ==
  ASSUME NEW c \in Cursors, opening[c] = "done"
  PROVE  Phase(c) = (IF c \in live THEN "streaming" ELSE "ended") /\ Served(c) = pos[c]
BY DEF Phase, Served

\* An open call begins its stream with its last step, or leaves it unopened.
LEMMA OpenBegins ==
  ASSUME StreamInv, NEW c \in Cursors, OpenStep(c)
  PROVE  Contract!Begin(c) \/ UNCHANGED Contract!vars
<1> USE RowsAssumption
<1>1. /\ opening[c] \in {"none", "opening", "first", "describing"}
      /\ c \notin live
  BY DEF OpenStep, AssertCapacity, OpenCursor, OpenCursorFails, FirstBlock,
       FirstBlockFails, Register, DescribeFails, StreamInv, StageFitsCursor
<1>2. /\ UNCHANGED fetch
      /\ \A d \in Cursors \ {c} : /\ opening'[d] = opening[d] /\ pos'[d] = pos[d]
                                  /\ (d \in live' <=> d \in live)
  BY DEF OpenStep, AssertCapacity, OpenCursor, OpenCursorFails, FirstBlock,
       FirstBlockFails, Register, DescribeFails, StreamInv, TypeOK
<1>3. [g \in Fetches |-> Call(g)]' = [g \in Fetches |-> Call(g)]
  BY <1>2, FetchKeepsCalls
<1>4. \A d \in Cursors \ {c} : Phase(d)' = Phase(d) /\ Served(d)' = Served(d)
  BY <1>2 DEF Phase, Served
<1>5. Phase(c) = "unopened" /\ Served(c) = 0
  BY <1>1 DEF Phase, Served
<1>6. /\ Phase(c)' = "unopened" => Served(c)' = 0
      /\ Phase(c)' \in {"unopened", "streaming", "ended"}
  BY DEF Phase, Served
<1>7. Phase(c)' # "unopened" =>
        /\ Served(c)' \in 0..PageSize
        /\ Phase(c)' = "streaming" => Served(c)' < MaxRows
  <2>1. CASE Register(c)
    <3>1. /\ opening'[c] = "done" /\ pos' = pos
          /\ pos[c] \in Nat /\ pos[c] <= PageSize
          /\ c \in live' => pos[c] < MaxRows
      BY <1>1, <2>1 DEF Register, StreamInv, StageFitsCursor, TypeOK
    <3>2. Served(c)' = pos[c]
      BY <3>1 DEF Served
    <3>3. Phase(c)' = "streaming" => c \in live'
      BY DEF Phase
    <3>4. QED
      BY <3>1, <3>2, <3>3
  <2>2. CASE ~Register(c)
    <3>1. opening'[c] # "done"
      BY <2>2 DEF OpenStep, AssertCapacity, OpenCursor, OpenCursorFails, FirstBlock,
           FirstBlockFails, DescribeFails, StreamInv, TypeOK
    <3>2. c \notin live'
      BY <1>1, <2>2 DEF OpenStep, AssertCapacity, OpenCursor, OpenCursorFails, FirstBlock,
           FirstBlockFails, DescribeFails
    <3>3. QED
      BY <3>1, <3>2 DEF Phase, Served
  <2>3. QED
    BY <2>1, <2>2
<1>8. CASE Phase(c)' = "unopened"
  <2>1. \A d \in Cursors : Phase(d)' = Phase(d) /\ Served(d)' = Served(d)
    BY <1>4, <1>5, <1>6, <1>8
  <2>2. QED
    BY <1>3, <2>1, NoStreamMoves DEF Contract!vars
<1>9. CASE Phase(c)' # "unopened"
  <2>1. PageSize \in Limits \cup {PageSize}
    OBVIOUS
  <2>2. Phase(c)' \in {"streaming", "ended"}
    BY <1>6, <1>9
  <2>3. /\ [d \in Cursors |-> Phase(d)]' = [[d \in Cursors |-> Phase(d)] EXCEPT ![c] = Phase(c)']
        /\ [d \in Cursors |-> Served(d)]' = [[d \in Cursors |-> Served(d)] EXCEPT ![c] = Served(c)']
    BY <1>4, OneStreamMoves
  <2>4. [d \in Cursors |-> Phase(d)][c] = "unopened"
    BY <1>5
  <2>5. QED
    BY <1>3, <1>7, <1>9, <2>1, <2>2, <2>3, <2>4 DEF Contract!Begin
<1>10. QED
  BY <1>8, <1>9

\* Sessions that are closed, by whomever, end their streams.
LEMMA ClosingEnds ==
  ASSUME StreamInv, NEW S \in SUBSET Cursors, CloseSessions(S), UNCHANGED <<opening, pos, fetch>>
  PROVE  Contract!EndMany
<1> DEFINE E == S \cap live
<1>1. \A c \in Cursors : c \in live => opening[c] = "done"
  BY DEF StreamInv, StageFitsCursor
<1>2. E \subseteq {s \in Cursors : [d \in Cursors |-> Phase(d)][s] = "streaming"}
  BY <1>1, PhaseOfOpened
<1>3. \A c \in Cursors : /\ Served(c)' = Served(c)
                         /\ Phase(c)' = IF c \in E THEN "ended" ELSE Phase(c)
  BY <1>1 DEF CloseSessions, Phase, Served
<1>4. /\ [d \in Cursors |-> Served(d)]' = [d \in Cursors |-> Served(d)]
      /\ [d \in Cursors |-> Phase(d)]' =
           [s \in Cursors |-> IF s \in E THEN "ended" ELSE [d \in Cursors |-> Phase(d)][s]]
  BY <1>3
<1>5. [g \in Fetches |-> Call(g)]' = [g \in Fetches |-> Call(g)]
  BY FetchKeepsCalls
<1> HIDE DEF E
<1>6. QED
  BY <1>2, <1>4, <1>5 DEF Contract!EndMany

\* Starting a fetch is a call that a streaming stream accepts, for no more than the
\* rest of its budget.
LEMMA StartIsAccepted ==
  ASSUME StreamInv, NEW f \in Fetches, NEW c \in Cursors, NEW limit \in Limits,
         StartFetch(f, c, limit)
  PROVE  Contract!Accept(f, c)
<1> USE RowsAssumption
<1> DEFINE n == Smaller(limit, MaxRows - pos[c])
           C == [g \in Fetches |-> Call(g)]
           P == [d \in Cursors |-> Phase(d)]
           V == [d \in Cursors |-> Served(d)]
<1>1. /\ TypeOK /\ pos[c] \in Nat /\ pos[c] < MaxRows /\ opening[c] = "done" /\ c \in live
      /\ fetch[f] = NoFetch
  BY DEF StartFetch, StreamInv, StageFitsCursor, TypeOK
<1>2. /\ fetch' = [fetch EXCEPT ![f] = InFetch("reading", c, n, 0)]
      /\ UNCHANGED <<opening, pos, live>>
  BY <1>1 DEF StartFetch
<1>3. n \in 1..limit /\ pos[c] + n <= MaxRows /\ limit \in Nat
  BY <1>1 DEF Smaller
<1>4. P[c] = "streaming" /\ V[c] = pos[c]
  BY <1>1, PhaseOfOpened
<1>5. P' = P /\ V' = V
  BY <1>2 DEF Phase, Served
<1> HIDE DEF n
<1>6. \A g \in Fetches : fetch'[g] = IF g = f THEN InFetch("reading", c, n, 0) ELSE fetch[g]
  BY <1>1, <1>2 DEF TypeOK
<1>7. Call(f)' = [on |-> c, upTo |-> n] /\ \A g \in Fetches : g # f => Call(g)' = Call(g)
  <2>1. /\ InFetch("reading", c, n, 0) # NoFetch /\ NoFetch' = NoFetch
        /\ InFetch("reading", c, n, 0).sid = c /\ InFetch("reading", c, n, 0).block = n
    <3>1. InFetch("reading", c, n, 0).stage = "reading" /\ NoFetch.stage = "none"
      BY DEF InFetch, NoFetch
    <3>2. QED
      BY <3>1 DEF InFetch, NoFetch
  <2>2. fetch'[f] = InFetch("reading", c, n, 0) /\ \A g \in Fetches : g # f => fetch'[g] = fetch[g]
    BY <1>6
  <2>3. QED
    BY <2>1, <2>2 DEF Call
<1>8. C' = [C EXCEPT ![f] = [on |-> c, upTo |-> n]] /\ C[f] = [upTo |-> 0]
  BY <1>1, <1>7, CallInFlight
<1> HIDE DEF C, P, V
<1>9. Contract!Accepts(c, n)
  BY <1>3, <1>4 DEF Contract!Accepts, P, V
<1>10. QED
  BY <1>3, <1>5, <1>8, <1>9 DEF Contract!Accept, Contract!NoCall, C, P, V

\* The end of a call that was in flight, whatever became of its session meanwhile, is an
\* answer to it.
LEMMA EndOfFetchAnswers ==
  ASSUME StreamInv, NEW f \in Fetches, fetch[f] # NoFetch,
         fetch' = [fetch EXCEPT ![f] = NoFetch], UNCHANGED opening,
         NEW n \in 0..fetch[f].block,
         pos' = [pos EXCEPT ![fetch[f].sid] = @ + n],
         \/ live' = live \ {fetch[f].sid}
         \/ live' = live /\ n = fetch[f].block /\ pos[fetch[f].sid] + n < MaxRows
  PROVE  Contract!Answer(f)
<1>0. fetch[f].sid \in Cursors
  BY FetchShape DEF StreamInv, TypeOK
<1>a. PICK c \in Cursors : c = fetch[f].sid
  BY <1>0
<1> DEFINE C == [g \in Fetches |-> Call(g)]
           P == [d \in Cursors |-> Phase(d)]
           V == [d \in Cursors |-> Served(d)]
<1>1. /\ TypeOK /\ c \in Cursors /\ fetch[f].block \in Nat /\ opening[c] = "done"
      /\ pos \in [Cursors -> Nat] /\ NoFetch' = NoFetch
      /\ pos' = [pos EXCEPT ![c] = @ + n]
      /\ live' = live \ {c} \/ (live' = live /\ n = fetch[f].block /\ pos[c] + n < MaxRows)
  BY <1>a, FetchShape DEF StreamInv, TypeOK, FetchesFit
<1>2. /\ Call(f)' = [upTo |-> 0]
      /\ \A g \in Fetches : g # f => Call(g)' = Call(g)
      /\ Call(f) # [upTo |-> 0] /\ Call(f).on = c /\ Call(f).upTo = fetch[f].block
  <2>1. \A g \in Fetches : fetch'[g] = IF g = f THEN NoFetch ELSE fetch[g]
    BY <1>1 DEF TypeOK
  <2>2. QED
    BY <1>a, <1>1, <2>1, CallInFlight DEF Call
<1>3. \A d \in Cursors \ {c} : Phase(d)' = Phase(d) /\ Served(d)' = Served(d)
  BY <1>1 DEF Phase, Served
<1>4. /\ Served(c)' = Served(c) + n /\ Served(c) = pos[c]
      /\ Phase(c)' \in {Phase(c), "ended"}
      /\ Phase(c)' = "streaming" => n = fetch[f].block /\ Served(c) + n < MaxRows
  <2>1. opening'[c] = "done" /\ pos'[c] = pos[c] + n
    BY <1>1
  <2>2. Served(c)' = pos[c] + n /\ Served(c) = pos[c]
    BY <1>1, <2>1 DEF Served
  <2>3. /\ Phase(c) = IF c \in live THEN "streaming" ELSE "ended"
        /\ Phase(c)' = IF c \in live' THEN "streaming" ELSE "ended"
    BY <1>1, <2>1 DEF Phase
  <2>4. c \in live' => live' = live /\ n = fetch[f].block /\ pos[c] + n < MaxRows
    BY <1>1
  <2>5. QED
    BY <2>2, <2>3, <2>4
<1>5. /\ P' = [P EXCEPT ![c] = Phase(c)'] /\ V' = [V EXCEPT ![c] = V[c] + n]
      /\ P[c] = Phase(c) /\ V[c] = Served(c)
  <2>1. P[c] = Phase(c) /\ V[c] = Served(c)
    BY <1>1
  <2>2. /\ P' = [P EXCEPT ![c] = Phase(c)'] /\ V' = [V EXCEPT ![c] = Served(c)']
    BY <1>3, OneStreamMoves
  <2> HIDE DEF P, V
  <2>3. QED
    BY <1>4, <2>1, <2>2
<1>6. /\ C' = [C EXCEPT ![f] = [upTo |-> 0]] /\ C[f] # [upTo |-> 0]
      /\ C[f].on = c /\ C[f].upTo = fetch[f].block
  BY <1>2
<1> HIDE DEF C, P, V
<1>7. Contract!Serves(c, n, fetch[f].block)
  BY <1>4, <1>5 DEF Contract!Serves, P, V
<1>8. QED
  BY <1>6, <1>7 DEF Contract!Answer, Contract!NoCall, C

\* What the driver does for a fetch: it takes rows, which nobody sees, and then answers
\* it or rejects it.
LEMMA FetchAnswers ==
  ASSUME StreamInv, NEW f \in Fetches, FetchReturns(f)
  PROVE  \/ Contract!Answer(f)
         \/ Contract!Fail(f)
         \/ UNCHANGED Contract!vars
<1> DEFINE c == fetch[f].sid
<1>1. fetch[f].stage \in {"reading", "drained"}
  BY DEF FetchReturns, TakeRows, FullBlock, LastBlock, CompleteFetch, FetchClosed, FetchFails
<1>2. /\ TypeOK /\ fetch[f] # NoFetch /\ NoFetch' = NoFetch
      /\ c \in Cursors /\ fetch[f].block \in Nat \ {0} /\ fetch[f].got \in Nat
      /\ fetch[f].got <= fetch[f].block /\ pos[c] \in Nat
      /\ fetch[f] \in [stage : {"reading", "drained"}, sid : Cursors, block : Nat \ {0}, got : Nat]
  BY <1>1, FetchShape DEF StreamInv, TypeOK, FetchesFit, FetchCall
<1>3. CASE FullBlock(f)
  <2>1. fetch[f].block \in 0..fetch[f].block
    BY <1>2
  <2>2. /\ fetch' = [fetch EXCEPT ![f] = NoFetch] /\ UNCHANGED opening
        /\ pos' = [pos EXCEPT ![c] = @ + fetch[f].block]
        /\ \/ live' = live \ {c}
           \/ live' = live /\ pos[c] + fetch[f].block < MaxRows
    BY <1>2, <1>3, RowsAssumption DEF FullBlock, CloseSessions
  <2>3. QED
    BY <1>2, <2>1, <2>2, EndOfFetchAnswers
<1>4. CASE CompleteFetch(f) \/ FetchClosed(f)
  <2>1. fetch[f].got \in 0..fetch[f].block
    BY <1>2
  <2>2. /\ fetch' = [fetch EXCEPT ![f] = NoFetch] /\ UNCHANGED opening
        /\ pos' = [pos EXCEPT ![c] = @ + fetch[f].got]
        /\ live' = live \ {c}
    BY <1>4 DEF CompleteFetch, FetchClosed, ServesLastRows, CloseSessions
  <2>3. QED
    BY <1>2, <2>1, <2>2, EndOfFetchAnswers
<1>5. CASE FetchFails(f)
  <2>1. /\ [d \in Cursors |-> Phase(d)]' = [d \in Cursors |-> Phase(d)]
        /\ [d \in Cursors |-> Served(d)]' = [d \in Cursors |-> Served(d)]
    BY <1>5 DEF FetchFails, Phase, Served
  <2>2. \A g \in Fetches : fetch'[g] = IF g = f THEN NoFetch ELSE fetch[g]
    BY <1>2, <1>5 DEF FetchFails, TypeOK
  <2>3. Call(f)' = [upTo |-> 0] /\ \A g \in Fetches : g # f => Call(g)' = Call(g)
    BY <1>2, <2>2 DEF Call
  <2> DEFINE C == [g \in Fetches |-> Call(g)]
  <2>4. C' = [C EXCEPT ![f] = [upTo |-> 0]] /\ C[f] # [upTo |-> 0]
    BY <1>2, <2>3, CallInFlight
  <2> HIDE DEF C
  <2>5. QED
    BY <2>1, <2>4 DEF Contract!Fail, Contract!NoCall, C
<1>6. CASE TakeRows(f) \/ LastBlock(f)
  <2>1. /\ [d \in Cursors |-> Phase(d)]' = [d \in Cursors |-> Phase(d)]
        /\ [d \in Cursors |-> Served(d)]' = [d \in Cursors |-> Served(d)]
    BY <1>6 DEF TakeRows, LastBlock, Phase, Served
  <2>2. /\ \A g \in Fetches : g # f => fetch'[g] = fetch[g]
        /\ fetch'[f].sid = c /\ fetch'[f].block = fetch[f].block
        /\ fetch'[f].stage \in {"reading", "drained"}
    <3>1. CASE TakeRows(f)
      <4>1. PICK n : fetch' = [fetch EXCEPT ![f].got = @ + n]
        BY <3>1 DEF TakeRows
      <4>2. /\ \A g \in Fetches : g # f => fetch'[g] = fetch[g]
            /\ fetch'[f] = [fetch[f] EXCEPT !.got = @ + n]
        BY <1>2, <4>1 DEF TypeOK
      <4>3. QED
        BY <1>1, <1>2, <4>2
    <3>2. CASE LastBlock(f)
      <4>1. /\ \A g \in Fetches : g # f => fetch'[g] = fetch[g]
            /\ fetch'[f] = [fetch[f] EXCEPT !.stage = "drained"]
        BY <1>2, <3>2 DEF LastBlock, TypeOK
      <4>2. QED
        BY <1>1, <1>2, <4>1
    <3>3. QED
      BY <1>6, <3>1, <3>2
  <2>3. fetch'[f] # NoFetch
    BY <2>2 DEF NoFetch
  <2>4. \A g \in Fetches : Call(g)' = Call(g)
    BY <1>2, <2>2, <2>3 DEF Call
  <2>5. QED
    BY <2>1, <2>4, NoCallMoves DEF Contract!vars
<1>7. QED
  BY <1>3, <1>4, <1>5, <1>6 DEF FetchReturns

\* The service implements the stream contract - however open calls, overlapping fetches,
\* closes, the reaper and shutdown interleave, and whatever reads that are in flight at
\* the end of a session still bring.
THEOREM ServiceImplementsContract == Spec => ImplementsContract
<1>1. Init => Contract!Init
  <2> SUFFICES ASSUME Init PROVE Contract!Init
    OBVIOUS
  <2>1. \A c \in Cursors : Phase(c) = "unopened" /\ Served(c) = 0
    BY DEF Init, Phase, Served
  <2>2. \A f \in Fetches : Call(f) = [upTo |-> 0]
    BY DEF Init, Call
  <2>3. QED
    BY <2>1, <2>2 DEF Contract!Init, Contract!NoCall
<1>2. StreamInv /\ [Next]_vars => [Contract!Next]_Contract!vars
  <2> SUFFICES ASSUME StreamInv, [Next]_vars PROVE Contract!Next \/ UNCHANGED Contract!vars
    OBVIOUS
  <2>1. ASSUME NEW c \in Cursors, OpenStep(c) PROVE Contract!Next \/ UNCHANGED Contract!vars
    BY <2>1, OpenBegins DEF Contract!Next
  <2>2. ASSUME NEW f \in Fetches, NEW c \in Cursors, NEW limit \in Limits, StartFetch(f, c, limit)
        PROVE  Contract!Next \/ UNCHANGED Contract!vars
    BY <2>2, StartIsAccepted DEF Contract!Next
  <2>3. ASSUME NEW f \in Fetches, FetchReturns(f) PROVE Contract!Next \/ UNCHANGED Contract!vars
    BY <2>3, FetchAnswers DEF Contract!Next
  <2>4. ASSUME NEW S \in SUBSET Cursors, CloseSessions(S), UNCHANGED <<opening, pos, fetch>>
        PROVE  Contract!Next \/ UNCHANGED Contract!vars
    BY <2>4, ClosingEnds DEF Contract!Next
  <2>5. ASSUME NEW c \in Cursors, Close(c) PROVE Contract!Next \/ UNCHANGED Contract!vars
    <3>1. {c} \in SUBSET Cursors
      OBVIOUS
    <3>2. QED
      BY <2>4, <2>5, <3>1 DEF Close
  <2>6. CASE Reap
    BY <2>4, <2>6 DEF Reap, StreamInv, TypeOK
  <2>7. CASE OnModuleDestroy
    BY <2>4, <2>7 DEF OnModuleDestroy, StreamInv, TypeOK
  <2>8. CASE UNCHANGED <<opening, pos, fetch, live>>
    <3>1. \A d \in Cursors : Phase(d)' = Phase(d) /\ Served(d)' = Served(d)
      BY <2>8 DEF Phase, Served
    <3>2. QED
      BY <2>8, <3>1, NoStreamMoves, FetchKeepsCalls DEF Contract!vars
  <2>9. ASSUME NEW c \in Cursors, DriverClosed(c) \/ GrowIdle(c)
        PROVE  Contract!Next \/ UNCHANGED Contract!vars
    BY <2>8, <2>9 DEF DriverClosed, GrowIdle
  <2>10. QED
    BY <2>1, <2>2, <2>3, <2>5, <2>6, <2>7, <2>8, <2>9 DEF Next, vars
<1>3. QED
  BY <1>1, <1>2, StreamInvariant, PTL DEF Spec, ImplementsContract, Contract!Spec
=============================================================================
