--------------------------- MODULE IdleRingBuffer ---------------------------
(***************************************************************************)
(* ArkIdleMonitor::RingBuffer<T, N> (ark_idle_monitor.h), the store of     *)
(* recordedIdleNotifyInterval_: a fixed array elements_ with a start_ and  *)
(* a count_ index. Until the buffer is full Push appends at count_; once   *)
(* full it overwrites elements_[start_] and advances start_ modulo N.      *)
(* Sum folds the callback over elements_[0 .. count_-1].                   *)
(***************************************************************************)
EXTENDS Naturals, Sequences

CONSTANTS
  N,        \* the template parameter N (IDLE_CHECK_INTERVAL_LENGTH)
  Values    \* the samples pushed

ASSUME N \in Nat \ {0}

VARIABLES
  elements, \* elements_ : [0..N-1 -> Values]
  start,    \* start_
  count     \* count_

vars == <<elements, start, count>>

Slots == 0 .. (N - 1)

\* std::array<int64_t, N> is left uninitialized by the defaulted
\* constructor: every slot holds some value.
Init ==
  /\ elements \in [Slots -> Values]
  /\ start = 0
  /\ count = 0

\* Push with `if (start_ == N) start_ = 0;` off by one.
PushLateWrap(value) ==
  IF count = N
  THEN /\ elements' = [elements EXCEPT ![start] = value]
       /\ start' = IF start + 1 = N + 1 THEN 0 ELSE start + 1
       /\ UNCHANGED count
  ELSE /\ elements' = [elements EXCEPT ![count] = value]
       /\ count' = count + 1
       /\ UNCHANGED start

\* Push overwriting the oldest slot without advancing start_.
PushNoAdvance(value) ==
  IF count = N
  THEN /\ elements' = [elements EXCEPT ![start] = value]
       /\ UNCHANGED <<start, count>>
  ELSE /\ elements' = [elements EXCEPT ![count] = value]
       /\ count' = count + 1
       /\ UNCHANGED start

Push(value) ==
  IF count = N
  THEN /\ elements' = [elements EXCEPT ![start] = value]
       /\ start' = IF start + 1 = N THEN 0 ELSE start + 1
       /\ UNCHANGED count
  ELSE /\ elements' = [elements EXCEPT ![count] = value]
       /\ count' = count + 1
       /\ UNCHANGED start

\* Reset clearing count_ but not start_.
ResetKeepStart ==
  /\ count' = 0
  /\ UNCHANGED <<elements, start>>

Reset ==
  /\ start' = 0
  /\ count' = 0
  /\ UNCHANGED elements

\* Sum: for (i = 0; i < count_; i++) result = callback(result, elements_[i]),
\* with the callback the monitor passes, addition of two samples.
RECURSIVE SumFrom(_, _)
SumFrom(initial, i) ==
  IF i >= count THEN initial
  ELSE SumFrom(initial + elements[i], i + 1)

Sum(initial) == SumFrom(initial, 0)

Next == \/ \E v \in Values : Push(v)
        \/ Reset

Spec == Init /\ [][Next]_vars

-----------------------------------------------------------------------------
(* Refinement: the kept samples, oldest first, are elements_ read from     *)
(* start_ round the array.                                                 *)
Window == [i \in 1 .. count |-> elements[(start + i - 1) % N]]

Abs == INSTANCE SlidingWindow WITH Capacity <- N, window <- Window

TypeOK ==
  /\ elements \in [Slots -> Values]
  /\ start \in Slots
  /\ count \in 0 .. N

\* Sum(0) folds elements_[0 .. count_-1] and ignores start_; it still
\* equals the sum of the samples the window keeps, after any interleaving of
\* pushes, wrap-arounds and resets: no stale slot is counted and no kept
\* sample missed. (It rests on start_ being 0 until the buffer is full, the
\* ASSERT in Push, which release builds do not check.)
SumMatchesWindow ==
  Sum(0) = Abs!WindowFold(+, 0)

\* The ring buffer implements the sliding window of spec 3.
RefinesSlidingWindow == Abs!Spec

=============================================================================
