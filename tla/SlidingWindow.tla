--------------------------- MODULE SlidingWindow ---------------------------
(***************************************************************************)
(* What the idle monitor's sample window promises (spec 3, Idle Sample     *)
(* Window): it holds the at most Capacity most recent samples pushed since *)
(* the last reset, oldest first; pushing into a full window evicts the     *)
(* oldest sample.                                                          *)
(***************************************************************************)
EXTENDS Naturals, Sequences, SequencesExt

CONSTANTS
  Capacity,   \* N, the number of samples kept
  Values      \* the samples that may be pushed

ASSUME Capacity \in Nat \ {0}

VARIABLE window   \* the kept samples, oldest first

Init == window = <<>>

Push(v) ==
  window' = IF Len(window) = Capacity THEN Append(Tail(window), v)
                                      ELSE Append(window, v)

Reset == window' = <<>>

Next == \/ \E v \in Values : Push(v)
        \/ Reset

Spec == Init /\ [][Next]_window

\* The fold over the kept samples, oldest first.
WindowFold(op(_, _), initial) == FoldLeft(op, initial, window)

=============================================================================
