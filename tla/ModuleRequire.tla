---------------------------- MODULE ModuleRequire ----------------------------
(***************************************************************************)
(* requireNapi and requireInternal, the two module loaders the             *)
(* ArkNativeEngine constructor installs on the global object, with the     *)
(* engine's export cache loadedModules_ (ark_native_engine.cpp).           *)
(*                                                                         *)
(* A loader looks the module up (NativeModuleManager::LoadNativeModule,    *)
(* the environment here), returns the cached exports if the module is in   *)
(* loadedModules_, and otherwise initialises it -- running its JS code or  *)
(* its registerCallback -- and caches the exports only after that returns. *)
(* A module's initialisation may itself require other modules: Deps[m] is  *)
(* what m's init requires, Kind[m] what LoadNativeModule gives for m.      *)
(* The loaders run on the engine's JS thread, so a require nested in an    *)
(* init is a call stack, `stack`, of the inits in progress.                *)
(*                                                                         *)
(* GetModuleFromName and LoadModuleByName, called by native code, run a    *)
(* module's registerCallback on fresh exports each time and never use      *)
(* loadedModules_. Every loader names the module in the static             *)
(* tempModuleName_ through a MoudleNameLocker, which sets it on entry and   *)
(* clears it on exit.                                                      *)
(***************************************************************************)
EXTENDS Naturals, Sequences, SequencesExt

CONSTANTS
  Modules,   \* module names
  Deps,      \* [Modules -> SUBSET Modules]: what each module's init requires
  Kind,      \* [Modules -> Kinds]
  ExportConverted, \* JS modules whose default export ArkValueToNativeValue
                   \* converts (undefined or a symbol; not an object)
  MaxDepth   \* bound on nested inits: the native stack

\* native: a registerCallback and no jsCode; js: jsCode (or getABCCode)
\* and no registerCallback; empty: neither; missing: LoadNativeModule
\* returns nullptr.
Kinds == {"native", "js", "empty", "missing"}

ASSUME /\ Deps \in [Modules -> SUBSET Modules]
       /\ Kind \in [Modules -> Kinds]
       /\ MaxDepth \in Nat \ {0}
       /\ ExportConverted \subseteq Modules

VARIABLES
  cache,     \* the modules with an entry in loadedModules_
  stack,     \* the inits in progress, innermost last: [mod, todo]
  inits,     \* [Modules -> Nat]: inits of m run and not failed
  fault,     \* none, overflow (native stack exhausted) or nullcall
  tempName   \* ArkNativeEngine::tempModuleName_ ("" or a module)

vars == <<cache, stack, inits, fault, tempName>>

Init ==
  /\ cache = {}
  /\ stack = <<>>
  /\ inits = [m \in Modules |-> 0]
  /\ fault = "none"
  /\ tempName = ""

\* MoudleNameLocker's constructor names m, then the init of m is pushed on
\* top of `base`, the stack of its caller; `caches` is whether its loader
\* stores the exports in loadedModules_. A push past MaxDepth exhausts the
\* native stack.
PushInit(m, base, caches) ==
  /\ tempName' = m
  /\ IF Len(base) < MaxDepth
     THEN /\ stack' = Append(base, [mod |-> m, todo |-> Deps[m], caches |-> caches])
          /\ inits' = IF caches THEN [inits EXCEPT ![m] = @ + 1] ELSE inits
          /\ UNCHANGED fault
     ELSE /\ fault' = "overflow"
          /\ UNCHANGED <<stack, inits>>

\* Return to the caller at once (cached exports or undefined); `name` is
\* tempModuleName_ afterwards.
ReturnTo(base, name) ==
  /\ stack' = base
  /\ tempName' = name
  /\ UNCHANGED <<inits, fault>>

RequireNapiNoCacheLookup(m, base) ==
  CASE Kind[m] \in {"native", "js"} -> PushInit(m, base, TRUE)
    [] Kind[m] = "empty"              -> ReturnTo(base, "")
    [] OTHER                         -> ReturnTo(base, tempName)

\* The requireNapi lambda called for m by `base`: nullptr from
\* LoadNativeModule gives undefined; a loadedModules_ hit returns the
\* cached exports; otherwise SetNativeEngine, the locker names m, and the
\* JS code or the registerCallback runs, or "init module failed" gives
\* undefined and the locker's destructor clears the name.
RequireNapiCall(m, base) ==
  CASE Kind[m] = "missing" \/ m \in cache -> ReturnTo(base, tempName)
    [] Kind[m] \in {"native", "js"}       -> PushInit(m, base, TRUE)
    [] OTHER                              -> ReturnTo(base, "")

\* JS code calls requireNapi(m) with no init in progress.
RequireNapi(m) ==
  /\ stack = <<>>
  /\ fault = "none"
  /\ RequireNapiCall(m, stack)
  /\ UNCHANGED cache

\* JS code calls requireInternal(m): the locker names m before the lookup,
\* then the same cache test, SetNativeEngine and module->registerCallback
\* with no test that the module has one.
RequireInternal(m) ==
  /\ stack = <<>>
  /\ fault = "none"
  /\ CASE Kind[m] = "missing" \/ m \in cache -> ReturnTo(stack, "")
       [] Kind[m] = "native"                 -> PushInit(m, stack, TRUE)
       [] OTHER -> /\ fault' = "nullcall"
                   /\ UNCHANGED <<stack, inits, tempName>>
  /\ UNCHANGED cache

\* Native code calls GetModuleFromName or LoadModuleByName for m: nullptr
\* from LoadNativeModule gives undefined; otherwise the "id"/"param" (or
\* "param"/instance) properties are defined on a new exports object, the
\* locker names m, and module->registerCallback runs unchecked; the exports
\* are returned and not cached.
LoadByName(m) ==
  /\ stack = <<>>
  /\ fault = "none"
  /\ CASE Kind[m] = "missing" -> ReturnTo(stack, tempName)
       [] Kind[m] = "native"  -> PushInit(m, stack, FALSE)
       [] OTHER -> /\ fault' = "nullcall"
                   /\ UNCHANGED <<stack, inits, tempName>>
  /\ UNCHANGED cache

\* The init on top of the stack calls requireNapi for one of its
\* dependencies.
RequireDep(d) ==
  /\ stack # <<>>
  /\ fault = "none"
  /\ d \in Last(stack).todo
  /\ RequireNapiCall(d, [stack EXCEPT ![Len(stack)].todo = @ \ {d}])
  /\ UNCHANGED cache

\* LoadArkModule for the JS code of m, whose execution succeeded with a
\* non-null default export (executed): the export is returned through
\* ArkValueToNativeValue, which gives nullptr for an object.
LoadArkModule(m, executed) == executed /\ m \in ExportConverted

\* The init on top of the stack returns; ok is whether the registerCallback
\* returned, or the JS code executed with a non-null default export. For
\* requireNapi and requireInternal a registerCallback's exports are cached
\* (loadedModules_[module] = exports), and JS code's exports are cached
\* unless LoadArkModule returned nullptr ("load module failed"), in which
\* case undefined is returned and a later require runs the code again. The
\* locker's destructor clears tempModuleName_.
FinishInit(ok) ==
  /\ stack # <<>>
  /\ fault = "none"
  /\ Last(stack).todo = {}
  /\ ok \/ Kind[Last(stack).mod] = "js"
  /\ LET f == Last(stack)
         loaded == IF Kind[f.mod] = "js" THEN LoadArkModule(f.mod, ok) ELSE ok
     IN /\ cache' = IF loaded /\ f.caches THEN cache \cup {f.mod} ELSE cache
        /\ inits' = IF ok \/ ~f.caches THEN inits ELSE [inits EXCEPT ![f.mod] = @ - 1]
  /\ stack' = Front(stack)
  /\ tempName' = ""
  /\ UNCHANGED fault

Next ==
  \/ \E m \in Modules : RequireNapi(m) \/ RequireInternal(m) \/ LoadByName(m)
                     \/ RequireDep(m)
  \/ \E ok \in BOOLEAN : FinishInit(ok)

Spec == Init /\ [][Next]_vars

-----------------------------------------------------------------------------
TypeOK ==
  /\ cache \subseteq Modules
  /\ stack \in Seq([mod : Modules, todo : SUBSET Modules, caches : BOOLEAN])
  /\ inits \in [Modules -> Nat]
  /\ fault \in {"none", "overflow", "nullcall"}
  /\ tempName \in Modules \cup {""}

\* loadedModules_ makes a module's initialisation run once per engine (a
\* JS module whose execution failed aside): no require, nested in another
\* module's init or repeated later, runs a registerCallback or a module's
\* JS code a second time after a first run that succeeded.
ExportsInitialisedOnce ==
  \A m \in Modules : inits[m] <= 1

\* requireInternal is only reached for modules that have a
\* registerCallback: it never calls through a null one.
RegisterCallbackPresent ==
  fault # "nullcall"

\* MoudleNameLocker keeps tempModuleName_ naming the module whose init is
\* running, for the whole of that init, also after a nested require inside
\* it has returned.
ModuleNameDuringInit ==
  stack # <<>> => tempName = Last(stack).mod

=============================================================================
