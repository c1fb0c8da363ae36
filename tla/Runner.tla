------------------------------- MODULE Runner -------------------------------
(***************************************************************************)
(* The check runner (core/runner.py): run_checks validates that thresholds *)
(* exist, orders the registered checks so that providers precede their     *)
(* consumers, and concludes the checks one by one.  A caller may register  *)
(* more checks between two calls, and may call again with another record.  *)
(*                                                                         *)
(* One step is one selection of _execution_order or one iteration of the   *)
(* loop of run_checks.  A capability's payload is modelled by its origin:  *)
(* the check and the call of run_checks that emitted it.  What compute     *)
(* does is the environment's choice: any verdict, any set of capability    *)
(* names, or an exception.                                                 *)
(***************************************************************************)
EXTENDS Registry

CONSTANTS
  Verdicts,     \* the verdicts a compute may return
  MaxCalls      \* how many times run_checks is called (model bound)

ASSUME VerdictsAssumption == "INCONCLUSIVE" \in Verdicts
ASSUME MaxCallsAssumption == MaxCalls \in Nat

VARIABLES
  phase,        \* where the latest call of run_checks is
  call,         \* the number of that call
  met,          \* the requirements the record of that call meets
  order,        \* order: the checks scheduled so far
  cursor,       \* how many checks of the order are concluded
  results,      \* results: check_id -> verdict
  emitted,      \* emitted: capability -> origin of the payload
  silentProviders, \* inconclusive_providers: capability -> check_id
  received      \* check_id -> the capabilities its compute was called with

runVars == <<phase, call, met, order, cursor, results, emitted, silentProviders, received>>
vars == <<checks, registered, providerIds, phase, call, met, order, cursor,
          results, emitted, silentProviders, received>>

Between == {"idle", "returned", "missing_thresholds", "unknown_capability",
            "capability_cycle", "undeclared_emission", "compute_raised"}
Phases == Between \cup {"ordering", "running"}

-----------------------------------------------------------------------------
RunnerInit ==
  /\ RegistryInit
  /\ phase = "idle" /\ call = 0 /\ met = {} /\ order = << >> /\ cursor = 0
  /\ results = EmptyDict /\ emitted = EmptyDict
  /\ silentProviders = EmptyDict /\ received = EmptyDict

(* The dicts run_checks and _execution_order start from.                   *)
SlipLocalsKept ==
  /\ order' = << >> /\ cursor' = 0 /\ results' = EmptyDict
  /\ silentProviders' = EmptyDict /\ received' = EmptyDict
  /\ UNCHANGED emitted

FreshLocals ==
  /\ order' = << >> /\ cursor' = 0 /\ results' = EmptyDict /\ emitted' = EmptyDict
  /\ silentProviders' = EmptyDict /\ received' = EmptyDict

(* Between calls the caller registers checks; the record of the last call  *)
(* is forgotten with the locals of that call.                              *)
RegisterCheck(d) ==
  /\ phase \in Between
  /\ Register(d)
  /\ phase' = "idle" /\ met' = {} /\ FreshLocals
  /\ UNCHANGED call

RefuseOffer(d) ==
  /\ phase \in Between
  /\ RefuseRegistration(d)
  /\ UNCHANGED runVars

(* The entry of run_checks.  The table lookup comes first: with no entry   *)
(* for the record's variable nothing else is looked at.                    *)
StartCall(m) ==
  /\ phase \in Between
  /\ call < MaxCalls
  /\ call' = call + 1
  /\ FreshLocals
  /\ UNCHANGED registryVars
  /\ \/ phase' = "ordering" /\ met' = m
     \/ phase' = "missing_thresholds" /\ met' = {}

-----------------------------------------------------------------------------
(* _execution_order.  remaining is the registry without what is scheduled, *)
(* still in registration order.                                            *)
Scheduled == {order[i] : i \in DOMAIN order}
Remaining == DOMAIN checks \ Scheduled

(* all(...) over check.consumes stops at the first capability whose        *)
(* provider is not scheduled, or raises at one that has no provider.       *)
ProviderScheduled(c) == Provided(c) /\ ProviderOf(c) \in Scheduled

StopsAt(id, i) ==
  LET consumes == checks[id].consumes
  IN  /\ i \in DOMAIN consumes
      /\ ~ProviderScheduled(consumes[i])
      /\ \A j \in 1..(i - 1) : ProviderScheduled(consumes[j])

SlipAnyProvider(id) ==
  checks[id].consumes = << >> \/ \E c \in Consumed(checks[id]) : ProviderScheduled(c)

SlipConsumersStuck(id) == checks[id].consumes = << >>

IsRunnable(id) == \A c \in Consumed(checks[id]) : ProviderScheduled(c)

MissesProvider(id) ==
  \E i \in DOMAIN checks[id].consumes :
    StopsAt(id, i) /\ ~Provided(checks[id].consumes[i])

Blocked(id) == ~IsRunnable(id) /\ ~MissesProvider(id)

(* The scan of remaining ends at the first check that is not blocked.      *)
SlipLastRunnable(p) ==
  /\ registered[p] \in Remaining /\ ~Blocked(registered[p])
  /\ \A q \in (p + 1)..Len(registered) : registered[q] \in Remaining => Blocked(registered[q])

ScanEndsAt(p) ==
  /\ registered[p] \in Remaining /\ ~Blocked(registered[p])
  /\ \A q \in 1..(p - 1) : registered[q] \in Remaining => Blocked(registered[q])

Schedule ==
  /\ phase = "ordering"
  /\ \E p \in DOMAIN registered :
       /\ ScanEndsAt(p)
       /\ IsRunnable(registered[p])
       /\ order' = Append(order, registered[p])
  /\ UNCHANGED <<registryVars, phase, call, met, cursor, results, emitted, silentProviders, received>>

RaiseUnknownCapability ==
  /\ phase = "ordering"
  /\ \E p \in DOMAIN registered :
       ScanEndsAt(p) /\ MissesProvider(registered[p])
  /\ phase' = "unknown_capability"
  /\ UNCHANGED <<registryVars, call, met, order, cursor, results, emitted, silentProviders, received>>

SlipCycleIgnored ==
  /\ phase = "ordering"
  /\ Remaining # {}
  /\ \A id \in Remaining : Blocked(id)
  /\ phase' = "running"
  /\ UNCHANGED <<registryVars, call, met, order, cursor, results, emitted, silentProviders, received>>

SlipCycleUnnoticed == FALSE

RaiseCapabilityCycle ==
  /\ phase = "ordering"
  /\ Remaining # {}
  /\ \A id \in Remaining : Blocked(id)
  /\ phase' = "capability_cycle"
  /\ UNCHANGED <<registryVars, call, met, order, cursor, results, emitted, silentProviders, received>>

OrderComplete ==
  /\ phase = "ordering"
  /\ Remaining = {}
  /\ phase' = "running"
  /\ UNCHANGED <<registryVars, call, met, order, cursor, results, emitted, silentProviders, received>>

-----------------------------------------------------------------------------
(* One iteration of the loop over the ordered checks.                      *)
Concluded == DOMAIN results
NextCheck == order[cursor + 1]
CheckIsNext == phase = "running" /\ cursor < Len(order)

Missing(id) == Consumed(checks[id]) \ DOMAIN emitted

HasReasons(id) ==
  ~(checks[id].requirements \subseteq met) \/ Missing(id) # {}

(* The bookkeeping that closes every iteration, computed or not.           *)
SlipSilenceLost(id, nowEmitted) ==
  IF id \in DOMAIN received THEN silentProviders
  ELSE [c \in DOMAIN silentProviders \cup checks[id].provides |-> id]

SlipKeyForValue(id, nowEmitted) ==
  LET silent == checks[id].provides \ DOMAIN nowEmitted
  IN  [c \in DOMAIN silentProviders \cup silent |->
         IF c \in silent THEN c ELSE silentProviders[c]]

RecordSilence(id, nowEmitted) ==
  LET silent == checks[id].provides \ DOMAIN nowEmitted
  IN  [c \in DOMAIN silentProviders \cup silent |->
         IF c \in silent THEN id ELSE silentProviders[c]]

Conclude(id, verdict, nowEmitted) ==
  /\ emitted' = nowEmitted
  /\ silentProviders' = RecordSilence(id, nowEmitted)
  /\ results' = Put(results, id, verdict)
  /\ cursor' = cursor + 1

(* Reasons were found: compute is not called.  Naming the silent provider  *)
(* of a missing capability is a plain dict lookup, a KeyError where the    *)
(* capability is on neither record: such a state would have no next step,  *)
(* and SilentLookupSucceeds says there is none.                            *)
ConcludeUncomputed ==
  /\ CheckIsNext
  /\ Missing(NextCheck) \subseteq DOMAIN silentProviders
  /\ HasReasons(NextCheck)
  /\ Conclude(NextCheck, "INCONCLUSIVE", emitted)
  /\ UNCHANGED <<registryVars, phase, call, met, order, received>>

ReadyToCompute == CheckIsNext /\ ~HasReasons(NextCheck)

Handed(id) == [c \in Consumed(checks[id]) |-> emitted[c]]

Emit(id, names) ==
  [c \in DOMAIN emitted \cup names |->
     IF c \in names THEN [by |-> id, in |-> call] ELSE emitted[c]]

SlipUndeclaredAllowed(id, names) == TRUE

Declared(id, names) == names \subseteq checks[id].provides

ComputeReturns(verdict, names) ==
  /\ ReadyToCompute
  /\ Declared(NextCheck, names)
  /\ received' = Put(received, NextCheck, Handed(NextCheck))
  /\ Conclude(NextCheck, verdict, Emit(NextCheck, names))
  /\ UNCHANGED <<registryVars, phase, call, met, order>>

RaiseUndeclaredEmission(names) ==
  /\ ReadyToCompute
  /\ ~Declared(NextCheck, names)
  /\ received' = Put(received, NextCheck, Handed(NextCheck))
  /\ phase' = "undeclared_emission"
  /\ UNCHANGED <<registryVars, call, met, order, cursor, results, emitted, silentProviders>>

(* compute raises (a CheckResult that is INCONCLUSIVE without a reason is  *)
(* one way, verdicts.py): run_checks does not catch it.                    *)
ComputeRaises ==
  /\ ReadyToCompute
  /\ received' = Put(received, NextCheck, Handed(NextCheck))
  /\ phase' = "compute_raised"
  /\ UNCHANGED <<registryVars, call, met, order, cursor, results, emitted, silentProviders>>

ReturnResults ==
  /\ phase = "running"
  /\ cursor = Len(order)
  /\ phase' = "returned"
  /\ UNCHANGED <<registryVars, call, met, order, cursor, results, emitted, silentProviders, received>>

-----------------------------------------------------------------------------
OrderStep == Schedule \/ RaiseUnknownCapability \/ RaiseCapabilityCycle \/ OrderComplete

RunStep ==
  \/ ConcludeUncomputed
  \/ \E v \in Verdicts, names \in SUBSET Capabilities : ComputeReturns(v, names)
  \/ \E names \in SUBSET Capabilities : RaiseUndeclaredEmission(names)
  \/ ComputeRaises
  \/ ReturnResults

RunnerNext ==
  \/ \E d \in Declarations : RegisterCheck(d) \/ RefuseOffer(d)
  \/ \E m \in SUBSET Requirements : StartCall(m)
  \/ OrderStep
  \/ RunStep

(* run_checks is a loop over finite lists: once called it keeps stepping,  *)
(* provided every compute comes back.  Nobody is obliged to call it.       *)
RunnerFairness == WF_vars(OrderStep) /\ WF_vars(RunStep)

RunnerSpec == RunnerInit /\ [][RunnerNext]_vars
FairRunnerSpec == RunnerSpec /\ RunnerFairness

-----------------------------------------------------------------------------
RunnerTypeOK ==
  /\ RegistryTypeOK
  /\ phase \in Phases /\ call \in 0..MaxCalls
  /\ met \subseteq Requirements
  /\ order \in Seq(CheckIds) /\ cursor \in 0..Len(order)
  /\ DOMAIN results \subseteq CheckIds
  /\ \A id \in DOMAIN results : results[id] \in Verdicts
  /\ DOMAIN emitted \subseteq Capabilities
  /\ \A c \in DOMAIN emitted : emitted[c] \in [by : CheckIds, in : 1..MaxCalls]
  /\ DOMAIN silentProviders \subseteq Capabilities
  /\ \A c \in DOMAIN silentProviders : silentProviders[c] \in CheckIds
  /\ DOMAIN received \subseteq CheckIds

(* Every capability a scheduled check consumes has a provider, scheduled   *)
(* before it: "Execution order guarantees every provider already ran".     *)
ProvidersFirst ==
  \A i \in DOMAIN order : \A c \in Consumed(checks[order[i]]) :
    Provided(c) /\ \E j \in 1..(i - 1) : order[j] = ProviderOf(c)

(* The documented reason why naming the provider of a missing capability   *)
(* cannot raise KeyError: what was consumed and not emitted has a provider *)
(* on record as silent, and it is the provider the registry names.         *)
SilentLookupSucceeds ==
  CheckIsNext => \A c \in Missing(NextCheck) :
    c \in DOMAIN silentProviders /\ silentProviders[c] = ProviderOf(c)

(* There is no gating: a call that returns has a result for every          *)
(* registered check, whatever the verdicts and whatever was withheld.      *)
NothingGated == phase = "returned" => DOMAIN results = DOMAIN checks

(* compute is handed exactly the capabilities its check declares, each     *)
(* from the check registered as its provider and from this very call, on a *)
(* record that meets the check's requirements.                             *)
HandedWhatWasDeclared ==
  \A id \in DOMAIN received :
    /\ checks[id].requirements \subseteq met
    /\ DOMAIN received[id] = Consumed(checks[id])
    /\ \A c \in DOMAIN received[id] :
          received[id][c] = [by |-> ProviderOf(c), in |-> call]

(* A check whose compute was not called leaves every check downstream of   *)
(* it uncomputed and INCONCLUSIVE: no stale or forged capability lets a    *)
(* consumer run.                                                           *)
WithheldPropagates ==
  \A id \in Concluded : \A c \in Consumed(checks[id]) :
    ProviderOf(c) \in Concluded \ DOMAIN received =>
      id \notin DOMAIN received /\ results[id] = "INCONCLUSIVE"

(* The order is the least of all the orders that put providers first,      *)
(* comparing by registration position: the greedy selection gives the      *)
(* deterministic order its docstring describes, and no consumer is delayed *)
(* behind a check registered later without need.                           *)
Position(id) == CHOOSE p \in DOMAIN registered : registered[p] = id

TopologicalOrders ==
  {s \in [1..Len(registered) -> DOMAIN checks] :
     /\ \A i, j \in DOMAIN s : s[i] = s[j] => i = j
     /\ \A i \in DOMAIN s : \A c \in Consumed(checks[s[i]]) :
          \E j \in 1..(i - 1) : c \in checks[s[j]].provides}

Before(s, t) ==
  \E i \in DOMAIN s : /\ Position(s[i]) < Position(t[i])
                      /\ \A j \in 1..(i - 1) : s[j] = t[j]

OrderIsLeast ==
  phase = "running" /\ cursor = 0 =>
    order \in TopologicalOrders /\ \A s \in TopologicalOrders : ~Before(s, order)

(* A refused ordering is never a false alarm: a cycle error means some     *)
(* checks each consume a capability another of them provides, an unknown   *)
(* capability error that somebody consumes what nobody provides.           *)
RefusalsAreReal ==
  /\ phase = "capability_cycle" =>
       \E S \in (SUBSET Remaining) \ {{}} : \A id \in S :
         \E c \in Consumed(checks[id]) : Provided(c) /\ ProviderOf(c) \in S
  /\ phase = "unknown_capability" =>
       \E id \in DOMAIN checks : \E c \in Consumed(checks[id]) : ~Provided(c)

(* Every call of run_checks ends, by returning or by raising.              *)
CallEnds == phase \in {"ordering", "running"} ~> phase \in Between

(* The module docstring of the runner: a capability is unavailable when    *)
(* its provider was INCONCLUSIVE, and its consumers inherit that honesty.  *)
(* The code asks only whether the capability was emitted.                  *)
ConsumersInheritInconclusive ==
  \A id \in Concluded : \A c \in Consumed(checks[id]) :
    (ProviderOf(c) \in Concluded /\ results[ProviderOf(c)] = "INCONCLUSIVE")
      => results[id] = "INCONCLUSIVE"

-----------------------------------------------------------------------------
(* The runner implements CheckRun.                                         *)
AbstractStatus ==
  CASE phase \in {"idle", "returned"} -> phase
    [] phase \in {"ordering", "running"} -> "begun"
    [] phase \in {"missing_thresholds", "unknown_capability", "capability_cycle"} -> "refused"
    [] OTHER -> "aborted"

AbstractDependsOn ==
  [id \in DOMAIN checks |->
     {p \in DOMAIN checks : checks[p].provides \cap Consumed(checks[id]) # {}}]

Abstract == INSTANCE CheckRun WITH
  dependsOn <- AbstractDependsOn, status <- AbstractStatus,
  verdicts <- results, withheld <- Concluded \ DOMAIN received

ImplementsCheckRun == Abstract!Spec
=============================================================================
