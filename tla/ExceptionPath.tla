---------------------------- MODULE ExceptionPath ----------------------------
(***************************************************************************)
(* The uncaught-exception path of ArkNativeEngine (ark_native_engine.cpp)  *)
(* and the TryCatch of native_engine.h, on the JS thread.                  *)
(*                                                                         *)
(* The VM holds at most one pending exception (`pending`). Script runs,    *)
(* calls into JS and Throw may leave one there. After a script run, and    *)
(* after an async work's complete_ inside a TryCatch, the engine calls     *)
(* HandleUncaughtException, which takes the pending exception and gives it *)
(* to the registered handlers: uncaughtExceptionCallback_ (register by     *)
(* RegisterUncaughtExceptionHandler) and napiUncaughtExceptionCallback_    *)
(* (RegisterNapiUncaughtExceptionHandler). Exceptions are model values,    *)
(* each thrown at most once. `thrown` and `fetched` are history.          *)
(***************************************************************************)
EXTENDS Naturals

CONSTANTS
  Exc,        \* exception values
  Converted,  \* those ArkValueToNativeValue converts: null, undefined, symbols
  None        \* no exception (an empty Local)

ASSUME None \notin Exc /\ Converted \subseteq Exc

VARIABLES
  pending,        \* the VM's pending exception
  lastException,  \* NativeEngine::lastException_
  uncaughtCb,     \* uncaughtExceptionCallback_ != nullptr
  napiCb,         \* napiUncaughtExceptionCallback_ != nullptr
  thrown,         \* exceptions raised so far
  reportsU,       \* [Exc -> Nat] calls of uncaughtExceptionCallback_ with x
  reportsN,       \* [Exc -> Nat] calls of napiUncaughtExceptionCallback_ with x
  fetched,        \* exceptions GetAndClearLastException returned
  taken           \* exceptions GetAndClearLastException cleared

vars == <<pending, lastException, uncaughtCb, napiCb, thrown, reportsU,
          reportsN, fetched, taken>>

Init ==
  /\ pending = None
  /\ lastException = None
  /\ uncaughtCb = FALSE
  /\ napiCb = FALSE
  /\ thrown = {}
  /\ reportsU = [x \in Exc |-> 0]
  /\ reportsN = [x \in Exc |-> 0]
  /\ fetched = {}
  /\ taken = {}

\* What a piece of JS code leaves pending: a new exception x it throws, or
\* (outcome None) whatever was pending before.
Raise(outcome) == IF outcome = None THEN pending ELSE outcome

\* The outcomes JS code may have: no new exception, or one not yet thrown.
Outcomes == {None} \cup (Exc \ thrown)

Thrown(outcome) == IF outcome = None THEN thrown ELSE thrown \cup {outcome}

HandleNoClear(p) ==
  IF ~uncaughtCb /\ ~napiCb
  THEN /\ pending' = p
       /\ UNCHANGED <<reportsU, reportsN>>
  ELSE /\ pending' = p
       /\ reportsU' = IF p # None /\ uncaughtCb THEN [reportsU EXCEPT ![p] = @ + 1] ELSE reportsU
       /\ reportsN' = IF p # None /\ napiCb THEN [reportsN EXCEPT ![p] = @ + 1] ELSE reportsN

\* HandleUncaughtException with p pending: with no handler it returns and p
\* stays pending; otherwise GetAndClearUncaughtException takes p, and a
\* non-empty p goes to uncaughtExceptionCallback_ if set and then to
\* napiUncaughtExceptionCallback_ if set.
Handle(p) ==
  IF ~uncaughtCb /\ ~napiCb
  THEN /\ pending' = p
       /\ UNCHANGED <<reportsU, reportsN>>
  ELSE /\ pending' = None
       /\ reportsU' = IF p # None /\ uncaughtCb THEN [reportsU EXCEPT ![p] = @ + 1] ELSE reportsU
       /\ reportsN' = IF p # None /\ napiCb THEN [reportsN EXCEPT ![p] = @ + 1] ELSE reportsN

RegisterUncaughtExceptionHandler ==
  /\ uncaughtCb' = TRUE
  /\ UNCHANGED <<pending, lastException, napiCb, thrown, reportsU, reportsN, fetched, taken>>

RegisterNapiUncaughtExceptionHandler ==
  /\ napiCb' = TRUE
  /\ UNCHANGED <<pending, lastException, uncaughtCb, thrown, reportsU, reportsN, fetched, taken>>

\* Throw(error) and Throw(type, code, message): JSNApi::ThrowException
\* makes x the pending exception, replacing any pending one.
Throw(x) ==
  /\ x \in Exc \ thrown
  /\ pending' = x
  /\ thrown' = thrown \cup {x}
  /\ UNCHANGED <<lastException, uncaughtCb, napiCb, reportsU, reportsN, fetched, taken>>

\* RunScriptPath, both RunScriptBuffer, RunBufferScript and RunActor:
\* execute, then "if (HasPendingException(vm_)) HandleUncaughtException()".
RunScript(outcome) ==
  /\ thrown' = Thrown(outcome)
  /\ IF Raise(outcome) # None
     THEN Handle(Raise(outcome))
     ELSE /\ pending' = None
          /\ UNCHANGED <<reportsU, reportsN>>
  /\ UNCHANGED <<lastException, uncaughtCb, napiCb, fetched, taken>>

\* CallFunction: call the function; with an exception pending afterwards it
\* prints it and returns nullptr, leaving it pending for the caller.
CallFunction(outcome) ==
  /\ pending' = Raise(outcome)
  /\ thrown' = Thrown(outcome)
  /\ UNCHANGED <<lastException, uncaughtCb, napiCb, reportsU, reportsN, fetched, taken>>

\* CreateInstance: the constructor call; GetUncaughtException only reads the
\* pending exception and nullptr is returned, as in CallFunction.
CreateInstance(outcome) == CallFunction(outcome)

\* ExecuteJsBin: JSNApi::Execute of the file's main function, with no
\* HandleUncaughtException afterwards, unlike the script runners.
ExecuteJsBin(outcome) == CallFunction(outcome)

\* ArkValueToNativeValue: only null, undefined and symbols (and values of no
\* listed kind) become an ArkNativeValue; the branches for objects, numbers,
\* strings and the other kinds are commented out, so it returns nullptr.
ArkValueToNativeValue(x) == IF x \in Converted THEN x ELSE None

\* GetAndClearLastException (ArkNativeEngine's override): the VM's pending
\* exception is cleared and returned converted by ArkValueToNativeValue.
GetAndClearLastException ==
  /\ pending' = None
  /\ taken' = IF pending = None THEN taken ELSE taken \cup {pending}
  /\ fetched' = IF ArkValueToNativeValue(pending) = None THEN fetched
                ELSE fetched \cup {pending}
  /\ UNCHANGED <<lastException, uncaughtCb, napiCb, thrown, reportsU, reportsN>>

\* NapiNativeDefineProperty: define an accessor, method or value property;
\* the define may raise (outcome), and then any pending exception, also
\* one left before the call, is taken by GetAndClearUncaughtException and
\* dropped.
DefineProperty(outcome) ==
  /\ thrown' = Thrown(outcome)
  /\ pending' = None
  /\ UNCHANGED <<lastException, uncaughtCb, napiCb, reportsU, reportsN, fetched, taken>>

\* The end of the TryCatch that AsyncAfterWorkCallback opens around
\* complete_: "if (tryCatch.HasCaught()) HandleUncaughtException()", then
\* ~TryCatch stores the exception still pending, if any, into lastException_.
TryCatchEnd ==
  /\ IF pending # None
     THEN /\ Handle(pending)
          /\ lastException' = IF ~uncaughtCb /\ ~napiCb THEN pending ELSE lastException
     ELSE UNCHANGED <<pending, reportsU, reportsN, lastException>>
  /\ UNCHANGED <<uncaughtCb, napiCb, thrown, fetched, taken>>

\* The calls native code makes on the JS thread.
JsCalls ==
  \/ RegisterUncaughtExceptionHandler
  \/ RegisterNapiUncaughtExceptionHandler
  \/ \E x \in Exc : Throw(x)
  \/ GetAndClearLastException
  \/ \E o \in Outcomes : RunScript(o) \/ CallFunction(o) \/ CreateInstance(o)
                          \/ ExecuteJsBin(o) \/ DefineProperty(o)

Next == JsCalls \/ TryCatchEnd

Spec == Init /\ [][Next]_vars

-----------------------------------------------------------------------------
TypeOK ==
  /\ pending \in Exc \cup {None}
  /\ lastException \in Exc \cup {None}
  /\ uncaughtCb \in BOOLEAN /\ napiCb \in BOOLEAN
  /\ thrown \subseteq Exc /\ fetched \subseteq Exc /\ taken \subseteq Exc
  /\ reportsU \in [Exc -> Nat] /\ reportsN \in [Exc -> Nat]

\* HandleUncaughtException clears what it reports: whatever sequence of
\* script runs, calls, throws and completions follows, no handler is given
\* the same exception twice.
HandlerSeesExceptionOnce ==
  \A x \in Exc : reportsU[x] <= 1 /\ reportsN[x] <= 1

\* An exception surfaces exactly once, to a single handler: no exception is
\* reported both to uncaughtExceptionCallback_ and to
\* napiUncaughtExceptionCallback_, nor reported and also returned by
\* GetAndClearLastException.
ReportedOnce ==
  \A x \in Exc :
    reportsU[x] + reportsN[x] + (IF x \in fetched THEN 1 ELSE 0) <= 1


\* napi_get_and_clear_last_exception hands the native caller the exception
\* it clears: every exception GetAndClearLastException took from the VM was
\* also returned to its caller, so none is cleared and lost.
ClearedIsReturned == taken \subseteq fetched

=============================================================================
