------------------------- MODULE NativeFunctionCall -------------------------
(***************************************************************************)
(* ArkNativeFunctionCallBack (ark_native_engine.cpp), the trampoline the   *)
(* VM calls for every function created by NapiNativeCreateFunction. It     *)
(* builds a NapiNativeCallbackInfo whose argv holds the call's arguments,  *)
(* calls the native callback, and releases argv. The native callback may   *)
(* call back into JS, which may call another native function: the calls in *)
(* progress form a stack, `frames`.                                        *)
(*                                                                         *)
(* An argv is "none" (nullptr) or "heap" (new napi_value[argc]); the       *)
(* values themselves are left out. A store through a null argv is          *)
(* undefined behaviour that the build turns into a segmentation fault:     *)
(* `fault` is set and nothing runs after it.                               *)
(***************************************************************************)
EXTENDS Naturals, Sequences, SequencesExt

CONSTANTS
  ArgCounts,   \* the argument counts JS code passes (GetArgsNumber)
  MaxChunk,    \* MAX_CHUNK_ARRAY_SIZE
  MaxDepth     \* bound on nested native calls

ASSUME /\ ArgCounts \subseteq Nat
       /\ MaxChunk \in Nat
       /\ MaxDepth \in Nat \ {0}

VARIABLES
  frames,  \* the native calls in progress, innermost last
  live,    \* napi_value arrays from new[] not yet given to delete[]
  fault    \* a store through a null argv happened

vars == <<frames, live, fault>>

Frame == [argc : ArgCounts, argv : {"none", "heap"}, copied : Nat,
          pc : {"copy", "call"}]

Init ==
  /\ frames = <<>>
  /\ live = 0
  /\ fault = FALSE

\* The argv the call starts with: "cbInfo.argv = nullptr", then new[] only
\* when argc > MAX_CHUNK_ARRAY_SIZE.
InitialArgv(n) == IF n > 0 /\ n > MaxChunk THEN "heap" ELSE "none"

\* The VM calls the trampoline with n arguments: from JS at top level, or
\* from JS that the native callback on top of the stack called.
\* (info->env is the engine the function was created for, never null
\* here, so the "native engine is null" return is not taken.)
Invoke(n) ==
  /\ ~fault
  /\ Len(frames) < MaxDepth
  /\ IF frames = <<>> THEN TRUE ELSE Last(frames).pc = "call"
  /\ frames' = Append(frames, [argc |-> n, argv |-> InitialArgv(n),
                               copied |-> 0,
                               pc |-> IF n > 0 THEN "copy" ELSE "call"])
  /\ live' = IF InitialArgv(n) = "heap" THEN live + 1 ELSE live
  /\ UNCHANGED fault

\* One iteration of "cbInfo.argv[i] = JsValueFromLocalValue(...)".
CopyArg ==
  /\ ~fault
  /\ frames # <<>>
  /\ Last(frames).pc = "copy"
  /\ LET f == Last(frames) IN
       IF f.argv = "none"
       THEN /\ fault' = TRUE
            /\ UNCHANGED frames
       ELSE /\ frames' = [frames EXCEPT ![Len(frames)] =
                            [f EXCEPT !.copied = @ + 1,
                                      !.pc = IF f.copied + 1 = f.argc
                                             THEN "call" ELSE "copy"]]
            /\ UNCHANGED fault
  /\ UNCHANGED live

CallReturnNoDelete ==
  /\ ~fault
  /\ frames # <<>>
  /\ Last(frames).pc = "call"
  /\ frames' = Front(frames)
  /\ UNCHANGED <<live, fault>>

\* cb(info->env, &cbInfo) returns; "if (cbInfo.argv != nullptr)": delete[]
\* it when argc > MAX_CHUNK_ARRAY_SIZE, and set it to nullptr; then the
\* result is converted and the trampoline returns to the VM.
CallReturn ==
  /\ ~fault
  /\ frames # <<>>
  /\ Last(frames).pc = "call"
  /\ LET f == Last(frames) IN
       live' = IF f.argv # "none" /\ f.argc > MaxChunk THEN live - 1 ELSE live
  /\ frames' = Front(frames)
  /\ UNCHANGED fault

Next ==
  \/ \E n \in ArgCounts : Invoke(n)
  \/ CopyArg
  \/ CallReturn

Spec == Init /\ [][Next]_vars

-----------------------------------------------------------------------------
TypeOK ==
  /\ frames \in Seq(Frame)
  /\ live \in Nat
  /\ fault \in BOOLEAN

\* The argument array is freed when its call returns, also when native
\* callbacks nest: the arrays new[] gave out and delete[] has not taken back
\* are exactly those of calls in progress.
ArgvNotLeaked ==
  live = Cardinality({i \in 1 .. Len(frames) : frames[i].argv = "heap"})

\* The trampoline stores every argument into storage it owns: no call,
\* whatever its argument count, writes through a null argv.
ArgsStoredInArgv ==
  ~fault

=============================================================================
