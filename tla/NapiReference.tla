--------------------------- MODULE NapiReference ---------------------------
(***************************************************************************)
(* ArkNativeReference (ark_native_reference.cpp) together with the two     *)
(* collaborators that act on it: the engine's NativeReferenceManager,      *)
(* which owns references created with deleteSelf, and the ark collector,   *)
(* which runs the two weak callbacks a weak Global was given by            *)
(* SetWeakCallback: FreeGlobalCallBack during the collection and           *)
(* NativeFinalizeCallBack from the list of native finalizers it queued.    *)
(*                                                                         *)
(* A reference is a record:                                                *)
(*   st         "unborn" | "alive" | "freed"  (the C++ object)             *)
(*   rc         refCount_                                                  *)
(*   handle     value_: "strong" | "weak" | "empty"                        *)
(*   fin        a finalizer callback was given at construction             *)
(*   armed      callback_ / napiCallback_ still non-null                   *)
(*   finalRun   finalRun_                                                  *)
(*   deleteSelf deleteSelf_                                                *)
(*   calls      history: times the user finalizer has been invoked         *)
(*                                                                         *)
(* The engine also holds two references for the VM's promise-rejection    *)
(* tracker (promiseRejectCallbackRef_, checkCallbackRef_ of                *)
(* ArkNativeEngine): PromiseRejectCallback dereferences their Get(), and   *)
(* ~ArkNativeEngine deletes them after Deinit.                             *)
(***************************************************************************)
EXTENDS Naturals, FiniteSets

CONSTANTS
  Refs,               \* the references the native caller may create
  MaxRefCount,        \* bound on refCount_ (a uint32_t in the code)
  FinalizerMayDelete, \* a user finalizer may napi_delete_reference another reference
  NoRef               \* a null NativeReference*

ASSUME MaxRefCount \in Nat \ {0}
ASSUME FinalizerMayDelete \in BOOLEAN
ASSUME NoRef \notin Refs

VARIABLES
  ref,            \* [Refs -> reference record]
  registry,       \* references with a handler in the NativeReferenceManager
  managerAlive,   \* referenceManager_ # nullptr
  pending,        \* references whose NativeFinalizeCallBack the collector has queued
  rejectRef,      \* promiseRejectCallbackRef_
  checkRef,       \* checkCallbackRef_
  tracker,        \* PromiseRejectCallback is installed as the VM's rejection tracker
  faults          \* undefined behaviour reached: "nullGet", "freedGet", "doubleDelete"

promiseVars == <<rejectRef, checkRef, tracker, faults>>
vars == <<ref, registry, managerAlive, pending, promiseVars>>

Handles == {"strong", "weak", "empty"}

RefRec == [st : {"unborn", "alive", "freed"}, rc : 0..MaxRefCount,
           handle : Handles, fin : BOOLEAN, armed : BOOLEAN,
           finalRun : BOOLEAN, deleteSelf : BOOLEAN, calls : Nat]

Unborn == [st |-> "unborn", rc |-> 0, handle |-> "empty", fin |-> FALSE,
           armed |-> FALSE, finalRun |-> FALSE, deleteSelf |-> FALSE, calls |-> 0]

Alive == {r \in Refs : ref[r].st = "alive"}

\* The collector's native-finalizer loop is running: the JS thread executes
\* nothing but the queued NativeFinalizeCallBacks until the list is empty.
InFinalizerLoop == pending # {}

Init ==
  /\ ref = [r \in Refs |-> Unborn]
  /\ registry = {}
  /\ managerAlive = TRUE
  /\ pending = {}
  /\ rejectRef = NoRef
  /\ checkRef = NoRef
  /\ tracker = FALSE
  /\ faults = {}

-----------------------------------------------------------------------------
(* Helpers translating the member functions that act on one record.       *)

\* FinalizeCallback without its trailing `delete this`: invoke the user
\* callbacks if still set, clear them and data_/hint_, set finalRun_.
FinalizeCallback(x) ==
  [x EXCEPT !.calls = IF x.armed THEN @ + 1 ELSE @,
            !.armed = FALSE,
            !.finalRun = TRUE]

\* The destructor as it would read with FinalizeCallback left out.
DestructNoFinalize(x) ==
  [x EXCEPT !.handle = "empty", !.st = "freed"]

\* ~ArkNativeReference, apart from ReleaseHandler: nothing more if value_ is
\* already empty; otherwise free the Global and run FinalizeCallback with
\* hasDelete_ set, so that it does not delete the object again.
Destruct(x) ==
  IF x.handle = "empty"
  THEN [x EXCEPT !.st = "freed"]
  ELSE [FinalizeCallback([x EXCEPT !.handle = "empty"]) EXCEPT !.st = "freed"]

\* The ReleaseHandler call at the top of ~ArkNativeReference.
Released(x, r) ==
  IF x.deleteSelf /\ managerAlive THEN registry \ {r} ELSE registry

-----------------------------------------------------------------------------
(* Operations of the native caller, on the JS thread.                     *)

\* ArkNativeReference constructor, reached through CreateReference.
Create(r, initialRefcount, deleteSelf, hasFinalizer) ==
  /\ managerAlive
  /\ ~InFinalizerLoop
  /\ ref[r].st = "unborn"
  /\ ref' = [ref EXCEPT ![r] =
              [Unborn EXCEPT !.st = "alive", !.rc = initialRefcount,
                             !.handle = IF initialRefcount = 0 THEN "weak" ELSE "strong",
                             !.fin = hasFinalizer, !.armed = hasFinalizer,
                             !.deleteSelf = deleteSelf]]
  /\ registry' = IF deleteSelf THEN registry \cup {r} ELSE registry
  /\ UNCHANGED <<managerAlive, pending, promiseVars>>

\* Ref testing the count before the increment instead of after it.
RefOffByOne(r) ==
  /\ managerAlive
  /\ ~InFinalizerLoop
  /\ ref[r].st = "alive"
  /\ ref[r].rc < MaxRefCount
  /\ ref' = [ref EXCEPT ![r].rc = @ + 1,
                        ![r].handle = IF ref[r].rc = 1 /\ @ = "weak" THEN "strong" ELSE @]
  /\ UNCHANGED <<registry, managerAlive, pending, promiseVars>>

Ref(r) ==
  /\ managerAlive
  /\ ~InFinalizerLoop
  /\ ref[r].st = "alive"
  /\ ref[r].rc < MaxRefCount
  /\ LET rc == ref[r].rc + 1
     IN ref' = [ref EXCEPT ![r].rc = rc,
                           ![r].handle = IF rc = 1 /\ @ = "weak" THEN "strong" ELSE @]
  /\ UNCHANGED <<registry, managerAlive, pending, promiseVars>>

\* Unref without its `refCount_ == 0` early return (the uint32_t wraps), and
\* Unref without the `value_.IsEmpty()` check before SetWeakCallback.
UnrefNoZeroCheck(r) ==
  /\ managerAlive
  /\ ~InFinalizerLoop
  /\ ref[r].st = "alive"
  /\ ref' = [ref EXCEPT ![r].rc = @ - 1,
                        ![r].handle = IF @ # "empty" /\ ref[r].rc = 1 THEN "weak" ELSE @]
  /\ UNCHANGED <<registry, managerAlive, pending, promiseVars>>

UnrefNoEmptyCheck(r) ==
  /\ managerAlive
  /\ ~InFinalizerLoop
  /\ ref[r].st = "alive"
  /\ ref[r].rc > 0
  /\ ref' = [ref EXCEPT ![r].rc = @ - 1,
                        ![r].handle = IF ref[r].rc = 1 THEN "weak" ELSE @]
  /\ UNCHANGED <<registry, managerAlive, pending, promiseVars>>

\* The early return on refCount_ == 0 is a stuttering step.
Unref(r) ==
  /\ managerAlive
  /\ ~InFinalizerLoop
  /\ ref[r].st = "alive"
  /\ ref[r].rc > 0
  /\ LET rc == ref[r].rc - 1
     IN ref' = [ref EXCEPT ![r].rc = rc,
                           ![r].handle = IF @ # "empty" /\ rc = 0 THEN "weak" ELSE @]
  /\ UNCHANGED <<registry, managerAlive, pending, promiseVars>>

\* SetDeleteSelf hands the reference over to its finalizer. The caller, outside
\* src/, is assumed to do so only while the finalizer has not run (after a run
\* nothing would ever delete the reference): a caller contract, not a test
\* this file makes.
SetDeleteSelf(r) ==
  /\ managerAlive
  /\ ~InFinalizerLoop
  /\ ref[r].st = "alive"
  /\ ~ref[r].finalRun
  /\ ~ref[r].deleteSelf
  /\ ref' = [ref EXCEPT ![r].deleteSelf = TRUE]
  /\ UNCHANGED <<registry, managerAlive, pending, promiseVars>>

\* napi_delete_reference, the spec's Destroy(): `delete ref`, taken as an
\* unconditional delete whatever GetFinalRun() says (the caller is outside
\* src/; spec 4.1 has Destroy release the reference eagerly).
Delete(r) ==
  /\ managerAlive
  /\ ~InFinalizerLoop
  /\ ref[r].st = "alive"
  /\ ref' = [ref EXCEPT ![r] = Destruct(@)]
  /\ registry' = Released(ref[r], r)
  /\ UNCHANGED <<managerAlive, pending, promiseVars>>

-----------------------------------------------------------------------------
(* The collector.                                                          *)

\* A collection whose weak callbacks free the Globals but queue no native
\* finalizer, as SetWeakCallback(this, FreeGlobalCallBack, nullptr) would.
CollectWeakNoNativeFinalize(S) ==
  /\ managerAlive
  /\ ~InFinalizerLoop
  /\ S # {}
  /\ \A r \in S : ref[r].st = "alive" /\ ref[r].handle = "weak"
  /\ ref' = [r \in Refs |-> IF r \in S THEN [ref[r] EXCEPT !.handle = "empty"]
                                        ELSE ref[r]]
  /\ UNCHANGED <<pending, registry, managerAlive, promiseVars>>

\* A collection finds the targets of some weak Globals unreachable and runs
\* FreeGlobalCallBack on each (value_.FreeGlobalHandleAddr()), queueing
\* their NativeFinalizeCallBack to run after the collection.
CollectWeak(S) ==
  /\ managerAlive
  /\ ~InFinalizerLoop
  /\ S # {}
  /\ \A r \in S : ref[r].st = "alive" /\ ref[r].handle = "weak"
  /\ ref' = [r \in Refs |-> IF r \in S THEN [ref[r] EXCEPT !.handle = "empty"]
                                        ELSE ref[r]]
  /\ pending' = S
  /\ UNCHANGED <<registry, managerAlive, promiseVars>>

\* NativeFinalizeCallBack without FinalizeCallback's `delete this`.
RunNativeFinalizeNoSelfDelete(r, D) ==
  /\ r \in pending
  /\ pending' = pending \ {r}
  /\ ref' = [v \in Refs |-> IF v \in D THEN Destruct(ref[v])
                            ELSE IF v = r THEN FinalizeCallback(ref[r]) ELSE ref[v]]
  /\ registry' = registry \ {v \in D : ref[v].deleteSelf}
  /\ UNCHANGED <<managerAlive, promiseVars>>

\* NativeFinalizeCallBack(r) -> FinalizeCallback. The user callback may
\* delete the references in D (at most one); afterwards a reference owning
\* its deletion deletes itself, whose destructor finds value_ empty and
\* only releases its handler.
RunNativeFinalize(r, D) ==
  /\ r \in pending
  /\ pending' = pending \ {r}
  /\ LET afterCb == [v \in Refs |-> IF v \in D THEN Destruct(ref[v]) ELSE ref[v]]
         reg1    == registry \ {v \in D : ref[v].deleteSelf}
         fin     == FinalizeCallback(afterCb[r])
     IN /\ ref' = [afterCb EXCEPT ![r] = IF fin.deleteSelf THEN Destruct(fin) ELSE fin]
        /\ registry' = IF fin.deleteSelf THEN reg1 \ {r} ELSE reg1
  /\ UNCHANGED <<managerAlive, promiseVars>>

\* What the user finalizer of r deletes: nothing, or one reference held by
\* its native data, which is never a reference that deletes itself.
Victims(r) ==
  IF FinalizerMayDelete /\ ref[r].armed
  THEN {{}} \cup {{v} : v \in {w \in Refs \ {r} : ref[w].st = "alive" /\ ~ref[w].deleteSelf}}
  ELSE {{}}

-----------------------------------------------------------------------------
(* The promise-rejection tracker, on the JS thread.                        *)

\* SetPromiseRejectCallback with two non-null references (a null one is
\* the early return): both are stored and PromiseRejectCallback is
\* installed as the VM's host rejection tracker. References stored before
\* are overwritten, not deleted.
SetPromiseRejectCallback(a, b) ==
  /\ managerAlive
  /\ ~InFinalizerLoop
  /\ a \in Alive /\ b \in Alive /\ a # b
  /\ rejectRef' = a
  /\ checkRef' = b
  /\ tracker' = TRUE
  /\ UNCHANGED <<ref, registry, managerAlive, pending, faults>>

\* The header setters SetPromiseRejectCallBackRef and SetCheckCallbackRef
\* replace one stored reference, with a live one or with nullptr.
SetPromiseRejectCallBackRef(a) ==
  /\ managerAlive
  /\ ~InFinalizerLoop
  /\ a \in Alive \cup {NoRef}
  /\ rejectRef' = a
  /\ UNCHANGED <<ref, registry, managerAlive, pending, checkRef, tracker, faults>>

SetCheckCallbackRef(b) ==
  /\ managerAlive
  /\ ~InFinalizerLoop
  /\ b \in Alive \cup {NoRef}
  /\ checkRef' = b
  /\ UNCHANGED <<ref, registry, managerAlive, pending, rejectRef, tracker, faults>>

\* What `*(r->Get())` reaches: a freed NativeReference, or the nullptr
\* Get() returns once value_ is empty.
GetFaults(r) ==
  CASE ref[r].st = "freed"      -> {"freedGet"}
    [] ref[r].handle = "empty"  -> {"nullGet"}
    [] OTHER                    -> {}

\* The VM reports a rejection (op "reject") or a handler added late
\* ("handle"): return if either stored reference is null; otherwise
\* dereference Get() of the reject callback reference and call it, and for
\* a rejection dereference Get() of the check callback reference and
\* enqueue it as a job.
PromiseRejectCallback(op) ==
  /\ managerAlive
  /\ ~InFinalizerLoop
  /\ tracker
  /\ IF rejectRef = NoRef \/ checkRef = NoRef
     THEN UNCHANGED faults
     ELSE faults' = faults \cup GetFaults(rejectRef)
                           \cup (IF op = "reject" THEN GetFaults(checkRef) ELSE {})
  /\ UNCHANGED <<ref, registry, managerAlive, pending, rejectRef, checkRef, tracker>>

-----------------------------------------------------------------------------
(* Engine teardown: ~ArkNativeEngine calls Deinit, which deletes           *)
(* referenceManager_, whose destructor deletes every reference still       *)
(* holding a handler; the destructor then deletes the two stored promise   *)
(* references.                                                             *)

\* `delete r` of a stored non-null pointer, in the reference function rf;
\* deleting an object already freed is a double delete.
DeleteStored(rf, r) ==
  IF r = NoRef \/ rf[r].st = "freed" THEN rf ELSE [rf EXCEPT ![r] = Destruct(@)]

DeleteFault(rf, r) ==
  IF r # NoRef /\ rf[r].st = "freed" THEN {"doubleDelete"} ELSE {}

\* "if (promiseRejectCallbackRef_ != nullptr) delete ...; if
\* (checkCallbackRef_ != nullptr) delete ...", after Deinit has left rf.
DeletePromiseRefs(rf) ==
  LET afterReject == DeleteStored(rf, rejectRef)
  IN /\ ref' = DeleteStored(afterReject, checkRef)
     /\ faults' = faults \cup DeleteFault(rf, rejectRef)
                         \cup DeleteFault(afterReject, checkRef)

Teardown ==
  /\ managerAlive
  /\ ~InFinalizerLoop
  /\ DeletePromiseRefs([r \in Refs |-> IF r \in registry THEN Destruct(ref[r]) ELSE ref[r]])
  /\ registry' = {}
  /\ managerAlive' = FALSE
  /\ UNCHANGED <<pending, rejectRef, checkRef, tracker>>

\* After teardown the engine is gone and nothing happens any more.
EngineGone ==
  /\ ~managerAlive
  /\ UNCHANGED vars

Next ==
  \/ \E r \in Refs, rc \in 0..1, ds \in BOOLEAN, f \in BOOLEAN : Create(r, rc, ds, f)
  \/ \E r \in Refs : Ref(r) \/ Unref(r) \/ SetDeleteSelf(r) \/ Delete(r)
  \/ \E S \in SUBSET Refs : CollectWeak(S)
  \/ \E r \in pending : \E D \in Victims(r) : RunNativeFinalize(r, D)
  \/ \E a, b \in Refs : SetPromiseRejectCallback(a, b)
  \/ \E a \in Refs \cup {NoRef} : SetPromiseRejectCallBackRef(a) \/ SetCheckCallbackRef(a)
  \/ \E op \in {"reject", "handle"} : PromiseRejectCallback(op)
  \/ Teardown
  \/ EngineGone

(* After a collection the VM runs the queued native finalizers before the *)
(* JS thread executes anything else, so a queued NativeFinalizeCallBack    *)
(* that stays runnable is run. Nothing forces the native caller to act.    *)
Fairness ==
  WF_vars(\E r \in pending : \E D \in Victims(r) : RunNativeFinalize(r, D))

Spec == Init /\ [][Next]_vars /\ Fairness

-----------------------------------------------------------------------------
(* Properties.                                                             *)

TypeOK ==
  /\ ref \in [Refs -> RefRec]
  /\ registry \subseteq Refs
  /\ managerAlive \in BOOLEAN
  /\ pending \subseteq Refs
  /\ rejectRef \in Refs \cup {NoRef} /\ checkRef \in Refs \cup {NoRef}
  /\ tracker \in BOOLEAN
  /\ faults \subseteq {"nullGet", "freedGet", "doubleDelete"}

\* Data model invariant refCount == 0 <=> weak, for every live reference whose
\* value has not been collected, across any sequence of Ref and Unref.
StrengthMatchesCount ==
  \A r \in Alive : ref[r].handle # "empty" => (ref[r].rc = 0 <=> ref[r].handle = "weak")

\* The user finalizer runs at most once, whichever of the destructor,
\* NativeFinalizeCallBack and teardown reach FinalizeCallback, and a freed
\* reference that was given one has had it run: exactly once.
FinalizedExactlyOnce ==
  \A r \in Refs : /\ ref[r].calls <= 1
                  /\ ref[r].st = "freed" /\ ref[r].fin => ref[r].calls = 1

\* A reference owning its deletion deletes itself once its finalization has
\* run (FinalizeCallback's `delete this`), or was deleted in doing so.
SelfOwnedGoneAfterFinalize ==
  \A r \in Refs : ref[r].deleteSelf /\ ref[r].finalRun => ref[r].st = "freed"

\* Once the collector has taken a reference's value (FreeGlobalCallBack
\* emptied value_), NativeFinalizeCallBack follows: its finalizer runs,
\* and a reference that owns its deletion is then freed, whatever the
\* native caller and teardown do in between.
CollectedIsFinalized ==
  \A r \in Refs :
    ref[r].st = "alive" /\ ref[r].handle = "empty"
      ~> ref[r].finalRun /\ (ref[r].deleteSelf => ref[r].st = "freed")

\* No step turns a collected value back into a held one: once value_ is
\* empty, neither Ref's ClearWeak nor Unref's SetWeakCallback revives it.
NoResurrection ==
  [][\A r \in Alive : ref[r].handle = "empty" => ref'[r].handle = "empty"]_ref

\* A native finalizer queued by the collector runs on a live reference: no
\* reference is freed while its NativeFinalizeCallBack is still queued.
NoDanglingFinalize ==
  pending \subseteq Alive

\* A reference that owns its deletion and is alive at engine teardown is
\* torn down with the engine (spec 4.1: registered to be torn down).
TeardownFreesSelfOwned ==
  ~managerAlive => \A r \in Alive : ~ref[r].deleteSelf

\* PromiseRejectCallback reaches the callbacks through live references:
\* whatever the native caller does with the two references it handed to
\* SetPromiseRejectCallback, `*(ref->Get())` never dereferences a freed
\* reference or the nullptr Get() returns for a collected value.
PromiseRejectGetIsLive ==
  faults \cap {"nullGet", "freedGet"} = {}

\* ~ArkNativeEngine's deletes of promiseRejectCallbackRef_ and
\* checkCallbackRef_ free each stored reference once: neither was already
\* deleted by its owner, by its own finalizer or by the reference manager.
PromiseRefsDeletedOnce ==
  "doubleDelete" \notin faults

=============================================================================
