--------------------------- MODULE StreamContract ---------------------------
(***************************************************************************)
(* What CursorSessionService promises the consumer of a stream, without    *)
(* sessions, cursors or timers: a stream begins once with its first block, *)
(* accepts calls for further rows only while it is streaming and has       *)
(* budget, and ends for good.  Calls may overlap, and a call that was      *)
(* accepted may be answered after the stream has ended.                    *)
(***************************************************************************)
EXTENDS Naturals

CONSTANTS
  Streams,
  Budget,   \* rows after which a stream accepts no further call
  Blocks,   \* sizes of blocks a consumer may ask for
  Calls     \* calls that can be in flight

VARIABLES
  phase,
  served,
  calls     \* calls in flight: the stream, and how many rows at most

vars == <<phase, served, calls>>

NoCall == [upTo |-> 0]

Init ==
  /\ phase = [s \in Streams |-> "unopened"]
  /\ served = [s \in Streams |-> 0]
  /\ calls = [k \in Calls |-> NoCall]

\* The first block; a result that fits in it has ended at once.
Begin(s) ==
  /\ phase[s] = "unopened"
  /\ \E p \in {"streaming", "ended"}, b \in Blocks : \E n \in 0..b :
       /\ phase' = [phase EXCEPT ![s] = p]
       /\ served' = [served EXCEPT ![s] = n]
       /\ p = "streaming" => n < Budget
  /\ UNCHANGED calls

\* How many rows a call to a stream may ask for.
Accepts(s, upTo) ==
  /\ phase[s] = "streaming"
  /\ upTo > 0
  /\ served[s] + upTo <= Budget
  /\ \E b \in Blocks : upTo <= b

\* A stream serves n rows of the upTo that were asked for.  It goes on only after a
\* full block that leaves budget, and only if it has not ended.
Serves(s, n, upTo) ==
  \E p \in {phase[s], "ended"} :
    /\ phase' = [phase EXCEPT ![s] = p]
    /\ served' = [served EXCEPT ![s] = @ + n]
    /\ p = "streaming" => n = upTo /\ served[s] + n < Budget

Accept(k, s) ==
  /\ calls[k] = NoCall
  /\ \E b \in Blocks : \E upTo \in 1..b :
       /\ Accepts(s, upTo)
       /\ calls' = [calls EXCEPT ![k] = [on |-> s, upTo |-> upTo]]
  /\ UNCHANGED <<phase, served>>

Answer(k) ==
  /\ calls[k] # NoCall
  /\ calls' = [calls EXCEPT ![k] = NoCall]
  /\ \E n \in 0..calls[k].upTo : Serves(calls[k].on, n, calls[k].upTo)

\* The call fails: it serves nothing, and its stream stays as it is.
Fail(k) ==
  /\ calls[k] # NoCall
  /\ calls' = [calls EXCEPT ![k] = NoCall]
  /\ UNCHANGED <<phase, served>>

\* A call that is accepted and answered in one step.
Serve(s) ==
  /\ \E b \in Blocks : \E upTo \in 1..b : \E n \in 0..upTo :
       Accepts(s, upTo) /\ Serves(s, n, upTo)
  /\ UNCHANGED calls

\* Closed by its owner, reaped, or ended by shutdown.
End(s) ==
  /\ phase[s] = "streaming"
  /\ phase' = [phase EXCEPT ![s] = "ended"]
  /\ UNCHANGED <<served, calls>>

\* The reaper and shutdown end several streams in one step.
EndMany ==
  \E S \in SUBSET {s \in Streams : phase[s] = "streaming"} :
    /\ phase' = [s \in Streams |-> IF s \in S THEN "ended" ELSE phase[s]]
    /\ UNCHANGED <<served, calls>>

Next ==
  \/ \E s \in Streams : Begin(s) \/ Serve(s) \/ End(s)
  \/ \E k \in Calls : Answer(k) \/ Fail(k) \/ \E s \in Streams : Accept(k, s)
  \/ EndMany

Spec == Init /\ [][Next]_vars
=============================================================================
