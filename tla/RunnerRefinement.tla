-------------------------- MODULE RunnerRefinement --------------------------
(***************************************************************************)
(* The runner keeps its promise: for every set of declarations, every      *)
(* number of calls and every behaviour of the computes, a session of the   *)
(* runner is a behaviour of CheckRun, and an ordering that is refused is   *)
(* refused for a real cycle or a capability that nobody provides.          *)
(*                                                                         *)
(* RunnerInv says how far a call has come; the mapping also needs to know  *)
(* that nothing is concluded while the order is made, and that only        *)
(* concluded checks were computed while the loop runs.                     *)
(***************************************************************************)
EXTENDS RunnerProofs, WellFoundedInduction

CallInv ==
  /\ phase = "ordering" => results = EmptyDict
  /\ phase \in {"ordering", "running"} => DOMAIN received \subseteq DOMAIN results

MapInv == RunnerInv /\ CallInv

-----------------------------------------------------------------------------
LEMMA MapInvInit == RunnerInit => MapInv
BY RunnerInvInit DEF RunnerInit, MapInv, CallInv, EmptyDict

LEMMA MapInvStep == MapInv /\ [RunnerNext]_vars => MapInv'
<1> SUFFICES ASSUME MapInv, [RunnerNext]_vars PROVE CallInv'
  BY RunnerInvStep DEF MapInv
<1>1. CASE \E d \in Declarations : RegisterCheck(d) \/ RefuseOffer(d)
  BY <1>1 DEF RegisterCheck, RefuseOffer, runVars, MapInv, CallInv
<1>2. CASE \E m \in SUBSET Requirements : StartCall(m)
  BY <1>2 DEF StartCall, FreshLocals, CallInv, EmptyDict
<1>3. CASE OrderStep
  BY <1>3 DEF OrderStep, Schedule, RaiseUnknownCapability, RaiseCapabilityCycle, OrderComplete,
              MapInv, CallInv
<1>4. CASE RunStep
  <2>1. CASE ConcludeUncomputed
    BY <2>1 DEF ConcludeUncomputed, CheckIsNext, Conclude, Put, MapInv, CallInv
  <2>2. CASE \E v \in Verdicts, names \in SUBSET Capabilities : ComputeReturns(v, names)
    BY <2>2 DEF ComputeReturns, ReadyToCompute, CheckIsNext, Conclude, Put, MapInv, CallInv
  <2>3. CASE (\E names \in SUBSET Capabilities : RaiseUndeclaredEmission(names)) \/ ComputeRaises
    BY <2>3 DEF RaiseUndeclaredEmission, ComputeRaises, CallInv
  <2>4. CASE ReturnResults
    BY <2>4 DEF ReturnResults, CallInv
  <2> QED
    BY <1>4, <2>1, <2>2, <2>3, <2>4 DEF RunStep
<1>5. CASE UNCHANGED vars
  BY <1>5 DEF vars, MapInv, CallInv
<1> QED
  BY <1>1, <1>2, <1>3, <1>4, <1>5 DEF RunnerNext

-----------------------------------------------------------------------------
(* What the mapping makes of the runner's state. *)

LEMMA MappingStutters ==
  ASSUME UNCHANGED <<checks, results, received>>, AbstractStatus' = AbstractStatus
  PROVE  UNCHANGED Abstract!runVars
BY DEF Abstract!runVars, AbstractDependsOn, Consumed, Concluded

LEMMA DependenciesKept ==
  ASSUME UNCHANGED checks PROVE AbstractDependsOn' = AbstractDependsOn
BY DEF AbstractDependsOn, Consumed

LEMMA DependenciesDomain == DOMAIN AbstractDependsOn = DOMAIN checks
BY DEF AbstractDependsOn

(* What the next check depends on is concluded, and each dependency is the *)
(* registered provider of something the check consumes.                    *)
LEMMA NextDependsOnConcluded ==
  ASSUME RunnerInv, CheckIsNext, NEW p \in AbstractDependsOn[NextCheck]
  PROVE  /\ p \in Concluded
         /\ \E c \in Consumed(checks[NextCheck]) : Provided(c) /\ ProviderOf(c) = p
<1>1. NextCheck \in DOMAIN checks
  BY NextCheckFacts
<1>2. PICK c \in Consumed(checks[NextCheck]) : p \in DOMAIN checks /\ c \in checks[p].provides
  BY <1>1 DEF AbstractDependsOn
<1>3. Provided(c) /\ ProviderOf(c) = p
  BY <1>2 DEF RunnerInv, RegistryInv, ProvidersAreExact, Provided, ProviderOf
<1>4. /\ cursor \in Nat /\ cursor + 1 \in DOMAIN order /\ NextCheck = order[cursor + 1]
  BY NextCheckFacts
<1>5. PICK j \in 1..cursor : order[j] = p
  BY <1>2, <1>3, <1>4 DEF RunnerInv, OrderInv, ProvidersFirst
<1> QED
  BY <1>2, <1>3, <1>5 DEF RunnerInv, LoopInv, Concluded

-----------------------------------------------------------------------------
(* Every step of the runner is a step of CheckRun or changes nothing of it. *)

LEMMA InitMaps == RunnerInit => Abstract!Init
<1> SUFFICES ASSUME RunnerInit PROVE Abstract!Init
  OBVIOUS
<1>1. /\ checks = EmptyDict /\ results = EmptyDict /\ received = EmptyDict /\ phase = "idle"
  BY DEF RunnerInit, RegistryInit
<1>2. AbstractStatus = "idle"
  BY <1>1 DEF AbstractStatus
<1>3. DOMAIN EmptyDict = {} /\ EmptyDict = Abstract!Nothing
  BY DEF EmptyDict, Abstract!Nothing
<1>4. AbstractDependsOn = Abstract!Nothing
  BY <1>1, <1>3 DEF AbstractDependsOn, Abstract!Nothing
<1> QED
  BY <1>1, <1>2, <1>3, <1>4 DEF Abstract!Init, Concluded

LEMMA RegisterMaps ==
  ASSUME MapInv, NEW d \in Declarations, RegisterCheck(d) PROVE Abstract!Declare
<1> DEFINE id == d.check_id
<1>1. /\ id \in CheckIds \ DOMAIN checks
      /\ DOMAIN checks' = DOMAIN checks \cup {id}
      /\ \A x \in DOMAIN checks : checks'[x] = checks[x]
  BY DeclarationsAssumption DEF RegisterCheck, Register, Valid, ValidId, Put, DeclarationType
<1>2. /\ AbstractStatus # "begun" /\ AbstractStatus' = "idle"
      /\ results' = Abstract!Nothing
      /\ (Concluded \ DOMAIN received)' = {}
  BY DEF RegisterCheck, Between, FreshLocals, AbstractStatus, Abstract!Nothing, EmptyDict, Concluded
<1>3. \A x \in DOMAIN AbstractDependsOn : AbstractDependsOn[x] \subseteq AbstractDependsOn'[x]
  BY <1>1 DEF AbstractDependsOn, Consumed
<1>4. DOMAIN AbstractDependsOn' = DOMAIN AbstractDependsOn \cup {id}
  BY <1>1 DEF AbstractDependsOn
<1> QED
  BY <1>1, <1>2, <1>3, <1>4, DependenciesDomain DEF Abstract!Declare

LEMMA StartMaps ==
  ASSUME NEW m \in SUBSET Requirements, StartCall(m) PROVE Abstract!Begin
<1>1. AbstractStatus # "begun" /\ AbstractStatus' \in {"begun", "refused"}
  BY DEF StartCall, Between, AbstractStatus
<1>2. results' = Abstract!Nothing /\ (Concluded \ DOMAIN received)' = {}
  BY DEF StartCall, FreshLocals, Abstract!Nothing, EmptyDict, Concluded
<1>3. AbstractDependsOn' = AbstractDependsOn
  BY DependenciesKept DEF StartCall, registryVars
<1> QED
  BY <1>1, <1>2, <1>3 DEF Abstract!Begin

LEMMA OrderMaps ==
  ASSUME MapInv, OrderStep PROVE Abstract!Refuse \/ UNCHANGED Abstract!runVars
<1>1. UNCHANGED <<checks, results, received>> /\ AbstractStatus = "begun"
  BY DEF OrderStep, Schedule, RaiseUnknownCapability, RaiseCapabilityCycle, OrderComplete,
         registryVars, AbstractStatus
<1>2. CASE Schedule \/ OrderComplete
  <2>1. AbstractStatus' = AbstractStatus
    BY <1>2 DEF Schedule, OrderComplete, AbstractStatus
  <2> QED
    BY <1>1, <2>1, MappingStutters
<1>3. CASE RaiseUnknownCapability \/ RaiseCapabilityCycle
  <2>1. AbstractStatus' = "refused"
    BY <1>3 DEF RaiseUnknownCapability, RaiseCapabilityCycle, AbstractStatus
  <2>2. results = Abstract!Nothing
    BY <1>3 DEF RaiseUnknownCapability, RaiseCapabilityCycle, MapInv, CallInv,
                EmptyDict, Abstract!Nothing
  <2> QED
    BY <1>1, <2>1, <2>2, DependenciesKept DEF Abstract!Refuse, Concluded
<1> QED
  BY <1>2, <1>3 DEF OrderStep

LEMMA UncomputedMaps == ASSUME MapInv, ConcludeUncomputed PROVE Abstract!Conclude
<1> DEFINE id == NextCheck
<1>1. /\ CheckIsNext /\ phase = "running"
      /\ UNCHANGED <<checks, phase, received>>
      /\ results' = Put(results, id, "INCONCLUSIVE")
  BY DEF ConcludeUncomputed, CheckIsNext, Conclude, registryVars
<1>2. id \in DOMAIN AbstractDependsOn \ DOMAIN results
  BY <1>1, NextCheckFacts, DependenciesDomain DEF MapInv, Concluded
<1>3. AbstractDependsOn[id] \subseteq DOMAIN results
  BY <1>1, NextDependsOnConcluded DEF MapInv, Concluded
<1>4. AbstractStatus = "begun" /\ AbstractStatus' = AbstractStatus
  BY <1>1 DEF AbstractStatus
<1>5. id \notin DOMAIN received
  BY <1>1, <1>2 DEF MapInv, CallInv
<1>6. (Concluded \ DOMAIN received)' = (Concluded \ DOMAIN received) \cup {id}
  BY <1>1, <1>5 DEF Concluded, Put
<1>7. results' = [x \in DOMAIN results \cup {id} |->
                    IF x = id THEN "INCONCLUSIVE" ELSE results[x]]
  BY <1>1 DEF Put
<1>8. AbstractDependsOn' = AbstractDependsOn
  BY <1>1, DependenciesKept
<1> HIDE DEF id
<1> QED
  BY <1>2, <1>3, <1>4, <1>6, <1>7, <1>8, VerdictsAssumption DEF Abstract!Conclude

LEMMA ComputeMaps ==
  ASSUME MapInv, NEW v \in Verdicts, NEW names \in SUBSET Capabilities, ComputeReturns(v, names)
  PROVE  Abstract!Conclude
<1> DEFINE id == NextCheck
<1>1. /\ CheckIsNext /\ phase = "running" /\ ~HasReasons(id)
      /\ UNCHANGED <<checks, phase>>
      /\ results' = Put(results, id, v)
      /\ received' = Put(received, id, Handed(id))
  BY DEF ComputeReturns, ReadyToCompute, CheckIsNext, Conclude, registryVars
<1>2. id \in DOMAIN AbstractDependsOn \ DOMAIN results
  BY <1>1, NextCheckFacts, DependenciesDomain DEF MapInv, Concluded
<1>3. AbstractDependsOn[id] \subseteq DOMAIN results
  BY <1>1, NextDependsOnConcluded DEF MapInv, Concluded
<1>4. AbstractStatus = "begun" /\ AbstractStatus' = AbstractStatus
  BY <1>1 DEF AbstractStatus
<1>5. AbstractDependsOn[id] \cap (Concluded \ DOMAIN received) = {}
  <2> SUFFICES ASSUME NEW p \in AbstractDependsOn[id] PROVE p \in DOMAIN received
    OBVIOUS
  <2>1. PICK c \in Consumed(checks[id]) : ProviderOf(c) = p
    BY <1>1, NextDependsOnConcluded DEF MapInv
  <2>2. c \in DOMAIN emitted
    BY <1>1, <2>1 DEF HasReasons, Missing
  <2> QED
    BY <2>1, <2>2 DEF MapInv, RunnerInv, PayloadInv
<1>6. (Concluded \ DOMAIN received)' = Concluded \ DOMAIN received
  BY <1>1, <1>2 DEF Concluded, Put
<1>7. results' = [x \in DOMAIN results \cup {id} |-> IF x = id THEN v ELSE results[x]]
  BY <1>1 DEF Put
<1>8. AbstractDependsOn' = AbstractDependsOn
  BY <1>1, DependenciesKept
<1> HIDE DEF id
<1> QED
  BY <1>2, <1>3, <1>4, <1>5, <1>6, <1>7, <1>8 DEF Abstract!Conclude

LEMMA RaiseMaps ==
  ASSUME MapInv, ComputeRaises \/ \E names \in SUBSET Capabilities : RaiseUndeclaredEmission(names)
  PROVE  Abstract!Abort
<1> DEFINE id == NextCheck
<1>1. /\ CheckIsNext /\ phase = "running"
      /\ phase' \in {"compute_raised", "undeclared_emission"}
      /\ UNCHANGED <<checks, results>>
      /\ received' = Put(received, id, Handed(id))
  BY DEF ComputeRaises, RaiseUndeclaredEmission, ReadyToCompute, CheckIsNext, registryVars
<1>2. AbstractStatus = "begun" /\ AbstractStatus' = "aborted"
  BY <1>1 DEF AbstractStatus
<1>3. id \notin DOMAIN results
  BY <1>1, NextCheckFacts DEF MapInv, Concluded
<1>4. (Concluded \ DOMAIN received)' = Concluded \ DOMAIN received
  BY <1>1, <1>3 DEF Concluded, Put
<1> QED
  BY <1>1, <1>2, <1>4, DependenciesKept DEF Abstract!Abort

LEMMA ReturnMaps == ASSUME MapInv, ReturnResults PROVE Abstract!Return
<1>1. UNCHANGED <<checks, results, received>> /\ phase = "running" /\ phase' = "returned"
  BY DEF ReturnResults, registryVars
<1>2. AbstractStatus = "begun" /\ AbstractStatus' = "returned"
  BY <1>1 DEF AbstractStatus
<1>3. RunnerInv'
  BY ReturnStep DEF MapInv
<1>4. NothingGated'
  BY <1>3, InvGivesNothingGated, PTL
<1>5. DOMAIN results = DOMAIN AbstractDependsOn
  BY <1>1, <1>4, DependenciesDomain DEF NothingGated
<1> QED
  BY <1>1, <1>2, <1>5, DependenciesKept DEF Abstract!Return, Concluded

LEMMA StepMaps == MapInv /\ [RunnerNext]_vars => [Abstract!Next]_(Abstract!runVars)
<1> SUFFICES ASSUME MapInv, [RunnerNext]_vars
             PROVE  Abstract!Next \/ UNCHANGED Abstract!runVars
  OBVIOUS
<1>1. ASSUME UNCHANGED vars PROVE UNCHANGED Abstract!runVars
  BY <1>1, MappingStutters DEF vars, AbstractStatus
<1>2. CASE \E d \in Declarations : RegisterCheck(d) \/ RefuseOffer(d)
  <2>1. CASE \E d \in Declarations : RegisterCheck(d)
    BY <2>1, RegisterMaps DEF Abstract!Next
  <2>2. CASE \E d \in Declarations : RefuseOffer(d)
    BY <2>2, <1>1 DEF RefuseOffer, RefuseRegistration, registryVars, runVars, vars
  <2> QED
    BY <1>2, <2>1, <2>2
<1>3. CASE \E m \in SUBSET Requirements : StartCall(m)
  BY <1>3, StartMaps DEF Abstract!Next
<1>4. CASE OrderStep
  BY <1>4, OrderMaps DEF Abstract!Next
<1>5. CASE RunStep
  BY <1>5, UncomputedMaps, ComputeMaps, RaiseMaps, ReturnMaps DEF RunStep, Abstract!Next
<1>6. CASE UNCHANGED vars
  BY <1>1, <1>6
<1> QED
  BY <1>2, <1>3, <1>4, <1>5, <1>6 DEF RunnerNext

(* run_checks keeps what CheckRun promises: one conclusion per check, each *)
(* after all it depends on, withheld checks withholding their dependents,  *)
(* and a refused call concluding nothing.                                  *)
THEOREM RunnerImplementsCheckRun == RunnerSpec => ImplementsCheckRun
BY InitMaps, StepMaps, MapInvInit, MapInvStep, PTL DEF RunnerSpec, ImplementsCheckRun, Abstract!Spec

-----------------------------------------------------------------------------
(* Refusals of the ordering. *)

LEMMA LeastNatural ==
  ASSUME NEW T \in SUBSET Nat, T # {} PROVE \E x \in T : \A y \in T : x <= y
<1>1. PICK x \in T : \A y \in T : ~(<<y, x>> \in OpToRel(<, Nat))
  BY NatLessThanWellFounded, WFMin
<1>2. \A y \in T : ~(y < x)
  BY <1>1 DEF OpToRel
<1> QED
  BY <1>2

(* The scan of a check's consumes stops somewhere, or the check can run. *)
LEMMA ScanStops ==
  ASSUME RunnerInv, NEW id \in DOMAIN checks, ~IsRunnable(id)
  PROVE  \E i \in DOMAIN checks[id].consumes : StopsAt(id, i)
<1> DEFINE consumes == checks[id].consumes
           T == {i \in DOMAIN consumes : ~ProviderScheduled(consumes[i])}
<1>1. consumes \in Seq(Capabilities)
  BY DeclarationsAssumption DEF RunnerInv, RegistryInv, RegistryTypeOK, DeclarationType
<1>2. DOMAIN consumes = 1..Len(consumes) /\ Len(consumes) \in Nat
  BY <1>1, LenProperties
<1>3. T # {} /\ T \subseteq Nat
  BY <1>2 DEF IsRunnable, Consumed
<1>4. PICK i \in T : \A j \in T : i <= j
  BY <1>3, LeastNatural
<1>5. \A j \in 1..(i - 1) : j \in DOMAIN consumes /\ j < i
  BY <1>2, <1>4
<1>6. \A j \in 1..(i - 1) : ProviderScheduled(consumes[j])
  BY <1>2, <1>4, <1>5
<1> QED
  BY <1>4, <1>6 DEF StopsAt

LEMMA BlockedWaits ==
  ASSUME RunnerInv, NEW id \in DOMAIN checks, Blocked(id)
  PROVE  \E c \in Consumed(checks[id]) : Provided(c) /\ ProviderOf(c) \in Remaining
<1>1. PICK i \in DOMAIN checks[id].consumes : StopsAt(id, i)
  BY ScanStops DEF Blocked
<1> DEFINE c == checks[id].consumes[i]
<1>2. c \in Consumed(checks[id]) /\ ~ProviderScheduled(c)
  BY <1>1 DEF StopsAt, Consumed
<1>3. Provided(c)
  BY <1>1 DEF Blocked, MissesProvider
<1>4. ProviderOf(c) \in DOMAIN checks
  BY <1>3 DEF RunnerInv, RegistryInv, ProvidersAreExact, Provided, ProviderOf
<1> QED
  BY <1>2, <1>3, <1>4 DEF ProviderScheduled, Remaining

(* The checks of S wait for each other. *)
Waiting(S) == \A id \in S : \E c \in Consumed(checks[id]) : Provided(c) /\ ProviderOf(c) \in S

LEMMA WaitingKept ==
  ASSUME NEW S, Waiting(S), UNCHANGED <<checks, providerIds>> PROVE Waiting(S)'
<1>1. \A id : Consumed(checks[id])' = Consumed(checks[id])
  BY DEF Consumed
<1>2. \A c : Provided(c)' = Provided(c) /\ ProviderOf(c)' = ProviderOf(c)
  BY DEF Provided, ProviderOf
<1> QED
  BY <1>1, <1>2 DEF Waiting

LEMMA RemainingKept == ASSUME UNCHANGED <<checks, order>> PROVE Remaining' = Remaining
BY DEF Remaining, Scheduled

LEMMA CycleIsReal == ASSUME RunnerInv, RaiseCapabilityCycle PROVE RefusalsAreReal'
<1>1. PICK S : S = Remaining
  OBVIOUS
<1>2. Waiting(S)
  BY <1>1, BlockedWaits DEF RaiseCapabilityCycle, Remaining, Waiting
<1>3. S # {} /\ phase' = "capability_cycle" /\ UNCHANGED <<checks, providerIds, order>>
  BY <1>1 DEF RaiseCapabilityCycle, registryVars
<1>4. Waiting(S)' /\ S \in (SUBSET Remaining') \ {{}}
  BY <1>1, <1>2, <1>3, WaitingKept, RemainingKept
<1> QED
  BY <1>3, <1>4 DEF RefusalsAreReal, Waiting

LEMMA UnknownIsReal == ASSUME RunnerInv, RaiseUnknownCapability PROVE RefusalsAreReal'
<1>1. PICK p \in DOMAIN registered : registered[p] \in DOMAIN checks /\ MissesProvider(registered[p])
  BY DEF RaiseUnknownCapability, ScanEndsAt, Remaining
<1>2. \E id \in DOMAIN checks : \E c \in Consumed(checks[id]) : ~Provided(c)
  BY <1>1 DEF MissesProvider, Consumed
<1>3. phase' = "unknown_capability" /\ UNCHANGED <<checks, providerIds>>
  BY DEF RaiseUnknownCapability, registryVars
<1> QED
  BY <1>2, <1>3 DEF RefusalsAreReal, Consumed, Provided

LEMMA RefusalsAreRealStep ==
  RunnerInv /\ RefusalsAreReal /\ [RunnerNext]_vars => RefusalsAreReal'
<1> SUFFICES ASSUME RunnerInv, RefusalsAreReal, [RunnerNext]_vars PROVE RefusalsAreReal'
  OBVIOUS
<1>1. ASSUME phase' \notin {"capability_cycle", "unknown_capability"} PROVE RefusalsAreReal'
  BY <1>1 DEF RefusalsAreReal
<1>2. ASSUME UNCHANGED <<phase, checks, providerIds, order>> PROVE RefusalsAreReal'
  <2>1. CASE phase = "capability_cycle"
    <3>1. PICK S \in (SUBSET Remaining) \ {{}} : Waiting(S)
      BY <2>1 DEF RefusalsAreReal, Waiting
    <3>2. Waiting(S)' /\ S \in (SUBSET Remaining') \ {{}}
      BY <1>2, <3>1, WaitingKept, RemainingKept
    <3> QED
      BY <1>2, <2>1, <3>2 DEF RefusalsAreReal, Waiting
  <2>2. CASE phase # "capability_cycle"
    BY <1>2, <2>2 DEF RefusalsAreReal, Consumed, Provided
  <2> QED
    BY <2>1, <2>2
<1>3. CASE \E d \in Declarations : RegisterCheck(d) \/ RefuseOffer(d)
  BY <1>1, <1>2, <1>3 DEF RegisterCheck, RefuseOffer, RefuseRegistration, registryVars, runVars
<1>4. CASE \E m \in SUBSET Requirements : StartCall(m)
  BY <1>1, <1>4 DEF StartCall
<1>5. CASE OrderStep
  BY <1>1, <1>5, CycleIsReal, UnknownIsReal DEF OrderStep, Schedule, OrderComplete
<1>6. CASE RunStep
  BY <1>1, <1>6 DEF RunStep, ConcludeUncomputed, ComputeReturns, ReadyToCompute, CheckIsNext,
                    RaiseUndeclaredEmission, ComputeRaises, ReturnResults
<1>7. CASE UNCHANGED vars
  BY <1>2, <1>7 DEF vars
<1> QED
  BY <1>3, <1>4, <1>5, <1>6, <1>7 DEF RunnerNext

(* A cycle error names checks that do wait for each other, and an unknown  *)
(* capability error a capability nobody provides (_execution_order).       *)
THEOREM RefusalsAreAlwaysReal == RunnerSpec => []RefusalsAreReal
<1>1. RunnerInit => RefusalsAreReal
  BY DEF RunnerInit, RefusalsAreReal
<1> QED
  BY <1>1, RefusalsAreRealStep, RunnerInvInit, RunnerInvStep, PTL DEF RunnerSpec
=============================================================================
