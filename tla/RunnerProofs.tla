---------------------------- MODULE RunnerProofs ----------------------------
(***************************************************************************)
(* What holds of the registry and of the runner for every set of           *)
(* declarations, every number of calls and every behaviour of the          *)
(* computes, proved from DeclarationsAssumption.                           *)
(*                                                                         *)
(* None of the runner's invariants is inductive alone.  SilentLookup-      *)
(* Succeeds needs the order to put providers first and every iteration to  *)
(* have recorded each capability of its check as emitted or silent;        *)
(* HandedWhatWasDeclared needs every emitted payload to come from its      *)
(* registered provider.  RunnerInv adds these links.                       *)
(***************************************************************************)
EXTENDS Runner, SequenceTheorems, FunctionTheorems, TLAPS

-----------------------------------------------------------------------------
(* The registry alone, for every set of declarations in whatever order     *)
(* they are offered.                                                       *)

(* The three invariants of Registry are inductive together: appending an   *)
(* id keeps the order injective only because the order lists exactly the   *)
(* keys, and adding providers keeps the map exact only because the ids of  *)
(* the map are keys.                                                       *)
RegistryInv == RegistryTypeOK /\ IterationIsExact /\ ProvidersAreExact

(* What registering a valid declaration does to the two dicts. *)
LEMMA RegisterKeepsRegistryInv ==
  ASSUME RegistryInv, NEW d \in Declarations, Register(d)
  PROVE  RegistryInv'
<1> DEFINE id == d.check_id
<1>0. /\ d \in DeclarationType
      /\ id \in CheckIds /\ d.provides \subseteq Capabilities
  BY DeclarationsAssumption DEF DeclarationType
<1>1. id \notin DOMAIN checks /\ d.provides \cap DOMAIN providerIds = {}
  BY DEF Register, Valid, ValidId, ValidCapabilities
<1>2. /\ checks' = Put(checks, id, d)
      /\ registered' = Append(registered, id)
      /\ providerIds' = [c \in DOMAIN providerIds \cup d.provides |->
                           IF c \in d.provides THEN id ELSE providerIds[c]]
  BY <1>1 DEF Register, RegisteredAfter, WithProvider
<1>3. /\ DOMAIN checks' = DOMAIN checks \cup {id}
      /\ checks'[id] = d
      /\ \A x \in DOMAIN checks : x # id /\ checks'[x] = checks[x]
  BY <1>1, <1>2 DEF Put
<1>4. /\ registered' \in Seq(CheckIds)
      /\ DOMAIN registered' = 1..(Len(registered) + 1)
      /\ DOMAIN registered = 1..Len(registered)
      /\ Len(registered) \in Nat
      /\ registered'[Len(registered) + 1] = id
      /\ \A i \in DOMAIN registered : registered'[i] = registered[i]
  <2>1. registered \in Seq(CheckIds)
    BY DEF RegistryInv, RegistryTypeOK
  <2> QED
    BY <1>0, <1>2, <2>1, AppendProperties, LenProperties
<1>5. /\ DOMAIN providerIds' = DOMAIN providerIds \cup d.provides
      /\ \A c \in d.provides : providerIds'[c] = id
      /\ \A c \in DOMAIN providerIds : c \notin d.provides /\ providerIds'[c] = providerIds[c]
  BY <1>1, <1>2
<1>6. RegistryTypeOK'
  BY <1>0, <1>3, <1>4, <1>5 DEF RegistryInv, RegistryTypeOK
<1>7. IterationIsExact'
  <2>1. DOMAIN checks = {registered[i] : i \in DOMAIN registered}
    BY DEF RegistryInv, IterationIsExact
  <2>2. DOMAIN checks' = {registered'[i] : i \in DOMAIN registered'}
    BY <2>1, <1>3, <1>4
  <2>3. ASSUME NEW i \in DOMAIN registered', NEW j \in DOMAIN registered',
               registered'[i] = registered'[j]
        PROVE  i = j
    <3>1. \A k \in DOMAIN registered : registered'[k] # id
      BY <2>1, <1>1, <1>4
    <3>2. \A k \in DOMAIN registered' : k \in DOMAIN registered \/ k = Len(registered) + 1
      BY <1>4
    <3> QED
      BY <2>3, <3>1, <3>2, <1>4 DEF RegistryInv, IterationIsExact
  <2>4. \A x \in DOMAIN checks' : checks'[x].check_id = x
    BY <1>3 DEF RegistryInv, IterationIsExact
  <2> QED
    BY <2>2, <2>3, <2>4 DEF IterationIsExact
<1>8. ProvidersAreExact'
  <2>1. \A c \in DOMAIN providerIds' :
          providerIds'[c] \in DOMAIN checks' /\ c \in checks'[providerIds'[c]].provides
    BY <1>3, <1>5 DEF RegistryInv, ProvidersAreExact
  <2>2. \A x \in DOMAIN checks' : \A c \in checks'[x].provides :
          c \in DOMAIN providerIds' /\ providerIds'[c] = x
    BY <1>3, <1>5 DEF RegistryInv, ProvidersAreExact
  <2> QED
    BY <2>1, <2>2 DEF ProvidersAreExact
<1> QED
  BY <1>6, <1>7, <1>8 DEF RegistryInv

LEMMA RegistryInvInit == RegistryInit => RegistryInv
<1> SUFFICES ASSUME RegistryInit PROVE RegistryInv
  OBVIOUS
<1>1. DOMAIN EmptyDict = {}
  BY DEF EmptyDict
<1>2. registered \in Seq(CheckIds) /\ DOMAIN registered = {}
  BY EmptySeq DEF RegistryInit
<1> QED
  BY <1>1, <1>2 DEF RegistryInit, RegistryInv, RegistryTypeOK, IterationIsExact, ProvidersAreExact

LEMMA RegistryInvStutter ==
  ASSUME RegistryInv, UNCHANGED registryVars PROVE RegistryInv'
BY DEF RegistryInv, RegistryTypeOK, IterationIsExact, ProvidersAreExact, registryVars

(* The registry's type invariant. *)
THEOREM RegistryIsTyped == RegistrySpec => []RegistryTypeOK
<1>1. RegistryInv /\ [RegistryNext]_registryVars => RegistryInv'
  BY RegisterKeepsRegistryInv, RegistryInvStutter DEF RegistryNext, RefuseRegistration
<1>2. RegistryInv => RegistryTypeOK
  BY DEF RegistryInv
<1> QED
  BY <1>1, <1>2, RegistryInvInit, PTL DEF RegistrySpec

(* Whatever is offered in whatever order, a capability never has two       *)
(* providers and the two dicts of the registry agree.                      *)
THEOREM RegistryProvidersAreExact == RegistrySpec => []ProvidersAreExact
<1>1. RegistryInv /\ [RegistryNext]_registryVars => RegistryInv'
  BY RegisterKeepsRegistryInv, RegistryInvStutter DEF RegistryNext, RefuseRegistration
<1>2. RegistryInv => ProvidersAreExact
  BY DEF RegistryInv
<1> QED
  BY <1>1, <1>2, RegistryInvInit, PTL DEF RegistrySpec

(* Nothing that landed is ever changed by a later offer.                   *)
THEOREM RegistrationsArePermanent == RegistrySpec => RegistrationIsPermanent
<1> DEFINE Kept ==
      /\ \A id \in DOMAIN checks : id \in DOMAIN checks' /\ checks'[id] = checks[id]
      /\ \A i \in DOMAIN registered :
            i \in DOMAIN registered' /\ registered'[i] = registered[i]
      /\ \A c \in DOMAIN providerIds :
            c \in DOMAIN providerIds' /\ providerIds'[c] = providerIds[c]
<1>1. ASSUME RegistryInv, NEW d \in Declarations, Register(d)
      PROVE  Kept
  <2>1. registered \in Seq(CheckIds) /\ d.check_id \in CheckIds
    BY <1>1, DeclarationsAssumption DEF RegistryInv, RegistryTypeOK, DeclarationType
  <2>2. \A i \in DOMAIN registered :
          i \in DOMAIN registered' /\ registered'[i] = registered[i]
    BY <1>1, <2>1, AppendProperties, LenProperties
    DEF Register, RegisteredAfter, Valid, ValidId
  <2>3. \A id \in DOMAIN checks : id \in DOMAIN checks' /\ checks'[id] = checks[id]
    BY <1>1 DEF Register, Valid, ValidId, Put
  <2>4. \A c \in DOMAIN providerIds :
          c \in DOMAIN providerIds' /\ providerIds'[c] = providerIds[c]
    BY <1>1 DEF Register, Valid, ValidCapabilities, WithProvider
  <2> QED
    BY <2>2, <2>3, <2>4
<1>2. RegistryInv /\ [RegistryNext]_registryVars => [Kept]_registryVars
  BY <1>1 DEF RegistryNext, RefuseRegistration
<1>3. RegistryInv /\ [RegistryNext]_registryVars => RegistryInv'
  BY RegisterKeepsRegistryInv, RegistryInvStutter DEF RegistryNext, RefuseRegistration
<1> QED
  BY <1>2, <1>3, RegistryInvInit, PTL DEF RegistrySpec, RegistrationIsPermanent

-----------------------------------------------------------------------------
(* The runner.                                                             *)
OrderInv ==
  /\ \A i \in DOMAIN order : order[i] \in DOMAIN checks
  /\ \A i, j \in DOMAIN order : order[i] = order[j] => i = j
  /\ ProvidersFirst
  /\ phase \in {"running", "returned"} => Remaining = {}

LoopInv ==
  /\ phase = "ordering" => cursor = 0
  /\ phase = "returned" => cursor = Len(order)
  /\ phase \in {"ordering", "running"} => call >= 1
  /\ DOMAIN results = {order[i] : i \in 1..cursor}
  /\ \A i \in 1..cursor : \A c \in checks[order[i]].provides :
        \/ c \in DOMAIN emitted
        \/ c \in DOMAIN silentProviders /\ silentProviders[c] = order[i]

PayloadInv ==
  /\ \A c \in DOMAIN emitted :
        /\ Provided(c) /\ ProviderOf(c) \in DOMAIN received
        /\ emitted[c] = [by |-> ProviderOf(c), in |-> call]
  /\ DOMAIN received \subseteq DOMAIN checks
  /\ HandedWhatWasDeclared
  /\ \A id \in DOMAIN received : \A c \in Consumed(checks[id]) :
        Provided(c) /\ ProviderOf(c) \in DOMAIN received
  /\ \A id \in Concluded \ DOMAIN received : results[id] = "INCONCLUSIVE"

RunnerInv == RegistryInv /\ RunnerTypeOK /\ OrderInv /\ LoopInv /\ PayloadInv

-----------------------------------------------------------------------------
(* The invariants follow. *)

LEMMA InvGivesSilentLookup == RunnerInv => SilentLookupSucceeds
<1> SUFFICES ASSUME RunnerInv, CheckIsNext, NEW c \in Missing(NextCheck)
             PROVE  c \in DOMAIN silentProviders /\ silentProviders[c] = ProviderOf(c)
  BY DEF SilentLookupSucceeds
<1>1. /\ cursor + 1 \in DOMAIN order
      /\ cursor \in Nat
      /\ NextCheck = order[cursor + 1]
  BY LenProperties DEF RunnerInv, RunnerTypeOK, CheckIsNext, NextCheck
<1>2. c \in Consumed(checks[NextCheck]) /\ c \notin DOMAIN emitted
  BY DEF Missing
<1>3. PICK j \in 1..cursor : Provided(c) /\ order[j] = ProviderOf(c)
  BY <1>1, <1>2 DEF RunnerInv, OrderInv, ProvidersFirst
<1>4. c \in checks[order[j]].provides
  BY <1>3 DEF RunnerInv, RegistryInv, ProvidersAreExact, Provided, ProviderOf
<1> QED
  BY <1>2, <1>3, <1>4 DEF RunnerInv, LoopInv

LEMMA InvGivesNothingGated == RunnerInv => NothingGated
<1> SUFFICES ASSUME RunnerInv, phase = "returned"
             PROVE  DOMAIN results = DOMAIN checks
  BY DEF NothingGated
<1>1. DOMAIN order = 1..cursor
  BY LenProperties DEF RunnerInv, RunnerTypeOK, LoopInv
<1>2. DOMAIN results = Scheduled
  BY <1>1 DEF RunnerInv, LoopInv, Scheduled
<1> QED
  BY <1>2 DEF RunnerInv, OrderInv, Remaining, Scheduled

LEMMA InvGivesWithheldPropagates == RunnerInv => WithheldPropagates
BY DEF RunnerInv, PayloadInv, WithheldPropagates, Concluded

-----------------------------------------------------------------------------
(* Between calls and at their entry every local is empty. *)

LEMMA FreshLocalsGiveInv ==
  ASSUME RegistryInv', FreshLocals, phase' \notin {"running", "returned"},
         phase' \in Phases, call' \in 0..MaxCalls, met' \subseteq Requirements,
         phase' = "ordering" => call' >= 1
  PROVE  RunnerInv'
<1>1. DOMAIN EmptyDict = {}
  BY DEF EmptyDict
<1>2. order' \in Seq(CheckIds) /\ DOMAIN order' = {} /\ Len(order') = 0
  BY EmptySeq DEF FreshLocals
<1>3. RunnerTypeOK'
  BY <1>1, <1>2 DEF RunnerTypeOK, RegistryInv, FreshLocals
<1>4. OrderInv'
  BY <1>2 DEF OrderInv, ProvidersFirst
<1>5. LoopInv'
  BY <1>1, <1>2 DEF LoopInv, FreshLocals
<1>6. PayloadInv'
  BY <1>1 DEF PayloadInv, HandedWhatWasDeclared, Concluded, FreshLocals
<1> QED
  BY <1>3, <1>4, <1>5, <1>6 DEF RunnerInv

LEMMA RunnerInvInit == RunnerInit => RunnerInv
<1> SUFFICES ASSUME RunnerInit PROVE RunnerInv
  OBVIOUS
<1>1. DOMAIN EmptyDict = {} /\ RegistryInv
  BY RegistryInvInit DEF EmptyDict, RunnerInit
<1>2. order \in Seq(CheckIds) /\ DOMAIN order = {} /\ Len(order) = 0
  BY EmptySeq DEF RunnerInit
<1>3. RunnerTypeOK
  BY <1>1, <1>2, MaxCallsAssumption
  DEF RunnerTypeOK, RegistryInv, RunnerInit, Phases, Between
<1>4. OrderInv
  BY <1>2 DEF OrderInv, ProvidersFirst, RunnerInit
<1>5. LoopInv
  BY <1>1, <1>2 DEF LoopInv, RunnerInit
<1>6. PayloadInv
  BY <1>1 DEF PayloadInv, HandedWhatWasDeclared, Concluded, RunnerInit
<1> QED
  BY <1>1, <1>3, <1>4, <1>5, <1>6 DEF RunnerInv

LEMMA RegisterCheckStep ==
  ASSUME RunnerInv, NEW d \in Declarations, RegisterCheck(d) PROVE RunnerInv'
<1>1. RegistryInv'
  BY RegisterKeepsRegistryInv DEF RunnerInv, RegisterCheck
<1> QED
  BY <1>1, FreshLocalsGiveInv DEF RegisterCheck, RunnerInv, RunnerTypeOK, Phases, Between

LEMMA StartCallStep ==
  ASSUME RunnerInv, NEW m \in SUBSET Requirements, StartCall(m) PROVE RunnerInv'
<1>1. RegistryInv'
  BY RegistryInvStutter DEF RunnerInv, StartCall
<1>2. call' \in 1..MaxCalls
  BY MaxCallsAssumption DEF StartCall, RunnerInv, RunnerTypeOK
<1> QED
  BY <1>1, <1>2, FreshLocalsGiveInv DEF StartCall, Phases, Between

-----------------------------------------------------------------------------
(* The part of the invariant about payloads does not look at phase, order, *)
(* cursor or silentProviders.                                              *)

LEMMA PayloadInvStutter ==
  ASSUME PayloadInv, UNCHANGED <<registryVars, call, met, results, emitted, received>>
  PROVE  PayloadInv'
<1>1. /\ checks' = checks /\ providerIds' = providerIds /\ call' = call /\ met' = met
      /\ results' = results /\ emitted' = emitted /\ received' = received
  BY DEF registryVars
<1>2. \A c : Provided(c)' = Provided(c) /\ ProviderOf(c)' = ProviderOf(c)
  BY <1>1 DEF Provided, ProviderOf
<1>3. \A id : Consumed(checks[id])' = Consumed(checks[id])
  BY <1>1 DEF Consumed
<1>4. HandedWhatWasDeclared'
  BY <1>1, <1>2, <1>3 DEF PayloadInv, HandedWhatWasDeclared
<1>5. \A c \in DOMAIN emitted' :
        /\ Provided(c)' /\ ProviderOf(c)' \in DOMAIN received'
        /\ emitted'[c] = [by |-> ProviderOf(c)', in |-> call']
  BY <1>1, <1>2 DEF PayloadInv
<1>6. \A id \in DOMAIN received' : \A c \in Consumed(checks[id])' :
        Provided(c)' /\ ProviderOf(c)' \in DOMAIN received'
  BY <1>1, <1>2, <1>3 DEF PayloadInv
<1>7. /\ DOMAIN received' \subseteq DOMAIN checks'
      /\ \A id \in Concluded' \ DOMAIN received' : results'[id] = "INCONCLUSIVE"
  BY <1>1 DEF PayloadInv, Concluded
<1> QED
  BY <1>4, <1>5, <1>6, <1>7 DEF PayloadInv

(* A step that moves only phase keeps everything but what a phase says. *)

Locals == <<call, met, order, cursor, results, emitted, silentProviders, received>>

LEMMA PhaseStep ==
  ASSUME RunnerInv, UNCHANGED <<registryVars, Locals>>, phase' \in Phases \ {"ordering"},
         phase' \in {"running", "returned"} => Remaining = {},
         phase' = "running" => phase \in {"ordering", "running"},
         phase' = "returned" => cursor = Len(order)
  PROVE  RunnerInv'
<1>1. RegistryInv'
  BY RegistryInvStutter DEF RunnerInv
<1>2. RunnerTypeOK'
  BY <1>1 DEF RegistryInv, RunnerInv, RunnerTypeOK, Locals
<1>3. OrderInv'
  BY DEF RunnerInv, OrderInv, ProvidersFirst, Provided, ProviderOf, Remaining,
         Scheduled, Consumed, Locals, registryVars
<1>4. LoopInv'
  BY DEF RunnerInv, LoopInv, Locals, registryVars
<1>5. PayloadInv'
  BY PayloadInvStutter DEF RunnerInv, Locals
<1> QED
  BY <1>1, <1>2, <1>3, <1>4, <1>5 DEF RunnerInv

LEMMA ScheduleStep == ASSUME RunnerInv, Schedule PROVE RunnerInv'
<1>1. PICK p \in DOMAIN registered :
        /\ registered[p] \in Remaining
        /\ IsRunnable(registered[p])
        /\ order' = Append(order, registered[p])
  BY DEF Schedule, ScanEndsAt
<1> DEFINE id == registered[p]
           n == Len(order)
<1>2. /\ phase = "ordering" /\ phase' = "ordering" /\ cursor = 0 /\ cursor' = 0
      /\ UNCHANGED <<registryVars, call, met, results, emitted, silentProviders, received>>
  BY DEF Schedule, RunnerInv, LoopInv
<1>3. id \in DOMAIN checks /\ id \in CheckIds /\ id \notin Scheduled
  BY <1>1 DEF Remaining, RunnerInv, RegistryInv, RegistryTypeOK
<1>4. order \in Seq(CheckIds) /\ n \in Nat
  BY LenProperties DEF RunnerInv, RunnerTypeOK
<1>5. /\ order' \in Seq(CheckIds) /\ Len(order') = n + 1
      /\ DOMAIN order' = 1..(n + 1) /\ DOMAIN order = 1..n
      /\ order'[n + 1] = id
      /\ \A i \in 1..n : order'[i] = order[i]
  BY <1>1, <1>3, <1>4, AppendProperties, LenProperties
<1>6. RegistryInv'
  BY <1>2, RegistryInvStutter DEF RunnerInv
<1>7. RunnerTypeOK'
  BY <1>2, <1>5, <1>6, <1>4 DEF RegistryInv, RunnerInv, RunnerTypeOK
<1>8. OrderInv'
  <2>1. \A i \in DOMAIN order' : order'[i] \in DOMAIN checks'
    BY <1>2, <1>3, <1>4, <1>5 DEF RunnerInv, OrderInv, registryVars
  <2>2. \A i \in DOMAIN order : order[i] # id
    BY <1>3 DEF Scheduled
  <2>3. ASSUME NEW i \in DOMAIN order', NEW j \in DOMAIN order', order'[i] = order'[j]
        PROVE  i = j
    BY <2>2, <2>3, <1>4, <1>5 DEF RunnerInv, OrderInv
  <2>4. ASSUME NEW i \in DOMAIN order', NEW c \in Consumed(checks'[order'[i]])
        PROVE  Provided(c)' /\ \E j \in 1..(i - 1) : order'[j] = ProviderOf(c)'
    <3>1. CASE i \in 1..n
      <4>1. c \in Consumed(checks[order[i]])
        BY <2>4, <3>1, <1>2, <1>5 DEF registryVars
      <4>2. PICK j \in 1..(i - 1) : order[j] = ProviderOf(c)
        BY <4>1, <3>1, <1>5 DEF RunnerInv, OrderInv, ProvidersFirst
      <4>3. j \in 1..n /\ Provided(c)
        BY <4>1, <3>1, <1>4, <1>5 DEF RunnerInv, OrderInv, ProvidersFirst
      <4> QED
        BY <4>2, <4>3, <1>2, <1>5 DEF Provided, ProviderOf, registryVars
    <3>2. CASE i = n + 1
      <4>1. c \in Consumed(checks[id])
        BY <2>4, <3>2, <1>2, <1>5 DEF registryVars
      <4>2. Provided(c) /\ ProviderOf(c) \in Scheduled
        BY <4>1, <1>1 DEF IsRunnable, ProviderScheduled
      <4>3. PICK j \in 1..n : order[j] = ProviderOf(c)
        BY <4>2, <1>5 DEF Scheduled
      <4> QED
        BY <4>2, <4>3, <3>2, <1>2, <1>4, <1>5 DEF Provided, ProviderOf, registryVars
    <3> QED
      BY <3>1, <3>2, <1>4, <1>5
  <2>5. ProvidersFirst'
    BY <2>4 DEF ProvidersFirst, Consumed
  <2> QED
    BY <2>1, <2>3, <2>5, <1>2 DEF OrderInv
<1>9. LoopInv'
  BY <1>2, <1>4 DEF RunnerInv, LoopInv
<1>10. PayloadInv'
  BY <1>2, PayloadInvStutter DEF RunnerInv
<1> QED
  BY <1>6, <1>7, <1>8, <1>9, <1>10 DEF RunnerInv

LEMMA OrderRefusalStep ==
  ASSUME RunnerInv, RaiseUnknownCapability \/ RaiseCapabilityCycle \/ OrderComplete
  PROVE  RunnerInv'
<1>1. UNCHANGED <<registryVars, Locals>>
  BY DEF RaiseUnknownCapability, RaiseCapabilityCycle, OrderComplete, Locals
<1>2. /\ phase' \in Phases \ {"ordering", "returned"}
      /\ phase' = "running" => Remaining = {} /\ phase = "ordering"
  BY DEF RaiseUnknownCapability, RaiseCapabilityCycle, OrderComplete, Phases, Between
<1> QED
  BY <1>1, <1>2, PhaseStep

LEMMA ReturnStep == ASSUME RunnerInv, ReturnResults PROVE RunnerInv'
<1>1. UNCHANGED <<registryVars, Locals>>
  BY DEF ReturnResults, Locals
<1>2. phase' = "returned" /\ cursor = Len(order) /\ phase' \in Phases /\ Remaining = {}
  BY DEF ReturnResults, Phases, Between, RunnerInv, OrderInv
<1> QED
  BY <1>1, <1>2, PhaseStep

-----------------------------------------------------------------------------
(* The iterations of the loop. *)

(* Where the loop stands, and what the next check is.                      *)
LEMMA NextCheckFacts ==
  ASSUME RunnerInv, CheckIsNext
  PROVE  /\ cursor \in Nat /\ cursor + 1 \in 1..Len(order) /\ Len(order) \in Nat
         /\ DOMAIN order = 1..Len(order)
         /\ NextCheck = order[cursor + 1]
         /\ NextCheck \in DOMAIN checks /\ NextCheck \in CheckIds
         /\ NextCheck \notin Concluded
         /\ call \in 1..MaxCalls
<1>1. cursor \in Nat /\ Len(order) \in Nat /\ DOMAIN order = 1..Len(order)
  BY LenProperties DEF RunnerInv, RunnerTypeOK
<1>2. cursor + 1 \in 1..Len(order)
  BY <1>1 DEF CheckIsNext
<1>3. NextCheck \in DOMAIN checks /\ NextCheck \in CheckIds
  BY <1>1, <1>2 DEF RunnerInv, OrderInv, NextCheck, RegistryInv, RegistryTypeOK
<1>4. NextCheck \notin Concluded
  <2>1. \A i \in 1..cursor : i \in DOMAIN order /\ i # cursor + 1
    BY <1>1, <1>2
  <2>2. \A i \in 1..cursor : order[i] # order[cursor + 1]
    BY <2>1, <1>1, <1>2 DEF RunnerInv, OrderInv
  <2> QED
    BY <2>2 DEF RunnerInv, LoopInv, NextCheck, Concluded
<1>5. call \in 1..MaxCalls
  BY MaxCallsAssumption DEF RunnerInv, RunnerTypeOK, LoopInv, CheckIsNext
<1> QED
  BY <1>1, <1>2, <1>3, <1>4, <1>5 DEF NextCheck

(* Calling compute hands over what the check declares, from its providers. *)
LEMMA HandOver ==
  ASSUME RunnerInv, ReadyToCompute, NEW id, id = NextCheck,
         UNCHANGED <<registryVars, call, met>>, received' = Put(received, id, Handed(id))
  PROVE  /\ DOMAIN received' = DOMAIN received \cup {id}
         /\ DOMAIN received' \subseteq DOMAIN checks
         /\ HandedWhatWasDeclared'
         /\ \A x \in DOMAIN received' : \A c \in Consumed(checks'[x]) :
               Provided(c)' /\ ProviderOf(c)' \in DOMAIN received
<1>1. /\ DOMAIN received' = DOMAIN received \cup {id}
      /\ received'[id] = Handed(id)
      /\ \A x \in DOMAIN received : x # id => received'[x] = received[x]
  BY DEF Put
<1>2. /\ checks' = checks /\ providerIds' = providerIds /\ call' = call /\ met' = met
  BY DEF registryVars
<1>3. id \in DOMAIN checks
  BY NextCheckFacts DEF ReadyToCompute
<1>4. checks[id].requirements \subseteq met /\ Consumed(checks[id]) \subseteq DOMAIN emitted
  BY DEF ReadyToCompute, HasReasons, Missing
<1>5. \A c : Provided(c)' = Provided(c) /\ ProviderOf(c)' = ProviderOf(c)
  BY <1>2 DEF Provided, ProviderOf
<1>6. \A c \in Consumed(checks[id]) :
        /\ Provided(c) /\ ProviderOf(c) \in DOMAIN received
        /\ Handed(id)[c] = [by |-> ProviderOf(c), in |-> call]
  BY <1>4 DEF RunnerInv, PayloadInv, Handed
<1>7. DOMAIN Handed(id) = Consumed(checks[id])
  BY DEF Handed
<1>8. ASSUME NEW x \in DOMAIN received'
      PROVE  /\ checks'[x].requirements \subseteq met'
             /\ DOMAIN received'[x] = Consumed(checks'[x])
             /\ \A c \in DOMAIN received'[x] :
                   received'[x][c] = [by |-> ProviderOf(c)', in |-> call']
             /\ \A c \in Consumed(checks'[x]) :
                   Provided(c)' /\ ProviderOf(c)' \in DOMAIN received
  <2>1. CASE x = id
    BY <2>1, <1>1, <1>2, <1>4, <1>5, <1>6, <1>7
  <2>2. CASE x # id
    <3>1. x \in DOMAIN received /\ received'[x] = received[x]
      BY <2>2, <1>1
    <3> QED
      BY <3>1, <1>2, <1>5 DEF RunnerInv, PayloadInv, HandedWhatWasDeclared
  <2> QED
    BY <2>1, <2>2
<1>9. HandedWhatWasDeclared'
  BY <1>8 DEF HandedWhatWasDeclared, Consumed
<1> QED
  BY <1>1, <1>3, <1>8, <1>9 DEF RunnerInv, PayloadInv

LEMMA RaiseStep ==
  ASSUME RunnerInv,
         ComputeRaises \/ \E names \in SUBSET Capabilities : RaiseUndeclaredEmission(names)
  PROVE  RunnerInv'
<1> DEFINE id == NextCheck
<1>1. /\ ReadyToCompute
      /\ received' = Put(received, id, Handed(id))
      /\ phase' \in Phases \ {"ordering", "running", "returned"}
      /\ UNCHANGED <<registryVars, call, met, order, cursor, results, emitted, silentProviders>>
  BY DEF ComputeRaises, RaiseUndeclaredEmission, Phases, Between
<1>2. checks' = checks /\ providerIds' = providerIds
  BY <1>1 DEF registryVars
<1>3. id \in CheckIds /\ id \notin Concluded
  BY <1>1, NextCheckFacts DEF ReadyToCompute
<1> HIDE DEF id
<1>4. /\ DOMAIN received' = DOMAIN received \cup {id}
      /\ DOMAIN received' \subseteq DOMAIN checks
      /\ HandedWhatWasDeclared'
      /\ \A x \in DOMAIN received' : \A c \in Consumed(checks'[x]) :
            Provided(c)' /\ ProviderOf(c)' \in DOMAIN received
  BY <1>1, HandOver DEF id
<1>5. RegistryInv'
  BY <1>1, RegistryInvStutter DEF RunnerInv
<1>6. RunnerTypeOK'
  BY <1>1, <1>3, <1>4, <1>5 DEF RegistryInv, RunnerInv, RunnerTypeOK
<1>7. OrderInv'
  BY <1>1 DEF RunnerInv, OrderInv, ProvidersFirst, Provided, ProviderOf,
              Consumed, registryVars
<1>8. LoopInv'
  BY <1>1 DEF RunnerInv, LoopInv, registryVars
<1>9. PayloadInv'
  <2>1. \A c \in DOMAIN emitted' :
          /\ Provided(c)' /\ ProviderOf(c)' \in DOMAIN received'
          /\ emitted'[c] = [by |-> ProviderOf(c)', in |-> call']
    BY <1>1, <1>2, <1>4 DEF RunnerInv, PayloadInv, Provided, ProviderOf
  <2>2. \A x \in Concluded' \ DOMAIN received' : results'[x] = "INCONCLUSIVE"
    BY <1>1, <1>4 DEF RunnerInv, PayloadInv, Concluded
  <2>3. \A x \in DOMAIN received' : \A c \in Consumed(checks[x])' :
          Provided(c)' /\ ProviderOf(c)' \in DOMAIN received'
    BY <1>4 DEF Consumed
  <2> QED
    BY <1>2, <1>4, <2>1, <2>2, <2>3 DEF PayloadInv
<1> QED
  BY <1>5, <1>6, <1>7, <1>8, <1>9 DEF RunnerInv

(* Closing an iteration: the loop advances over one more check, each of    *)
(* whose capabilities is now on one record or the other.                   *)
LEMMA ConcludeStep ==
  ASSUME RunnerInv, CheckIsNext, NEW id, id = NextCheck, NEW v \in Verdicts,
         NEW now, DOMAIN emitted \subseteq DOMAIN now,
         Conclude(id, v, now), UNCHANGED <<registryVars, phase, call, order>>
  PROVE  /\ OrderInv' /\ LoopInv'
         /\ cursor' \in 0..Len(order')
         /\ DOMAIN results' = DOMAIN results \cup {id} /\ results'[id] = v
         /\ \A x \in DOMAIN results : x # id /\ results'[x] = results[x]
         /\ DOMAIN silentProviders' \subseteq Capabilities
         /\ \A c \in DOMAIN silentProviders' : silentProviders'[c] \in CheckIds
<1>1. /\ cursor \in Nat /\ cursor + 1 \in 1..Len(order) /\ Len(order) \in Nat
      /\ DOMAIN order = 1..Len(order)
      /\ id = order[cursor + 1] /\ id \in DOMAIN checks /\ id \in CheckIds
      /\ id \notin DOMAIN results
  BY NextCheckFacts DEF Concluded
<1>2. /\ cursor' = cursor + 1 /\ emitted' = now
      /\ checks' = checks /\ providerIds' = providerIds /\ order' = order /\ phase' = phase
      /\ call' = call /\ registered' = registered
  BY DEF Conclude, registryVars
<1>3. /\ DOMAIN results' = DOMAIN results \cup {id} /\ results'[id] = v
      /\ \A x \in DOMAIN results : x # id /\ results'[x] = results[x]
  BY <1>1 DEF Conclude, Put
<1> DEFINE silent == checks[id].provides \ DOMAIN now
<1>4. /\ DOMAIN silentProviders' = DOMAIN silentProviders \cup silent
      /\ \A c \in silent : silentProviders'[c] = id
      /\ \A c \in DOMAIN silentProviders \ silent : silentProviders'[c] = silentProviders[c]
  BY DEF Conclude, RecordSilence
<1>5. silent \subseteq Capabilities
  BY <1>1, DeclarationsAssumption DEF RunnerInv, RegistryInv, RegistryTypeOK, DeclarationType
<1>6. /\ DOMAIN silentProviders' \subseteq Capabilities
      /\ \A c \in DOMAIN silentProviders' : silentProviders'[c] \in CheckIds
  BY <1>1, <1>4, <1>5 DEF RunnerInv, RunnerTypeOK
<1>7. OrderInv'
  BY <1>2 DEF RunnerInv, OrderInv, ProvidersFirst, Provided, ProviderOf, Consumed,
              Remaining, Scheduled
<1>8. LoopInv'
  <2>1. DOMAIN results' = {order[i] : i \in 1..(cursor + 1)}
    <3>1. 1..(cursor + 1) = (1..cursor) \cup {cursor + 1}
      BY <1>1
    <3>2. DOMAIN results = {order[i] : i \in 1..cursor}
      BY DEF RunnerInv, LoopInv
    <3>3. DOMAIN results' = DOMAIN results \cup {order[cursor + 1]}
      BY <1>1, <1>3
    <3> QED
      BY <3>1, <3>2, <3>3
  <2>2. ASSUME NEW i \in 1..(cursor + 1), NEW c \in checks[order[i]].provides
        PROVE  \/ c \in DOMAIN now
               \/ c \in DOMAIN silentProviders' /\ silentProviders'[c] = order[i]
    <3>1. CASE i = cursor + 1
      BY <3>1, <2>2, <1>1, <1>4
    <3>2. CASE i \in 1..cursor
      <4>1. \/ c \in DOMAIN emitted
            \/ c \in DOMAIN silentProviders /\ silentProviders[c] = order[i]
        BY <3>2, <2>2 DEF RunnerInv, LoopInv
      <4>2. i \in DOMAIN order /\ order[i] \in DOMAIN checks
        BY <3>2, <1>1 DEF RunnerInv, OrderInv
      <4>3. c \in silent => order[i] = id
        BY <4>2, <2>2, <1>1 DEF RunnerInv, RegistryInv, ProvidersAreExact
      <4> QED
        BY <4>1, <4>3, <1>4
    <3> QED
      BY <3>1, <3>2, <1>1
  <2>3. phase = "running" /\ call >= 1
    BY NextCheckFacts, MaxCallsAssumption DEF CheckIsNext
  <2> QED
    BY <1>2, <2>1, <2>2, <2>3 DEF LoopInv
<1> QED
  BY <1>1, <1>2, <1>3, <1>6, <1>7, <1>8

LEMMA ConcludeUncomputedStep ==
  ASSUME RunnerInv, ConcludeUncomputed PROVE RunnerInv'
<1> DEFINE id == NextCheck
<1>1. /\ CheckIsNext
      /\ Conclude(id, "INCONCLUSIVE", emitted)
      /\ UNCHANGED <<registryVars, phase, call, met, order, received>>
  BY DEF ConcludeUncomputed
<1> HIDE DEF id
<1>2. /\ OrderInv' /\ LoopInv'
      /\ cursor' \in 0..Len(order')
      /\ DOMAIN results' = DOMAIN results \cup {id} /\ results'[id] = "INCONCLUSIVE"
      /\ \A x \in DOMAIN results : x # id /\ results'[x] = results[x]
      /\ DOMAIN silentProviders' \subseteq Capabilities
      /\ \A c \in DOMAIN silentProviders' : silentProviders'[c] \in CheckIds
  BY <1>1, ConcludeStep, VerdictsAssumption DEF id
<1>3. id \in CheckIds
  BY <1>1, NextCheckFacts DEF id
<1>4. emitted' = emitted
  BY <1>1 DEF Conclude
<1>5. RegistryInv'
  BY <1>1, RegistryInvStutter DEF RunnerInv
<1>6. RunnerTypeOK'
  BY <1>1, <1>2, <1>3, <1>4, <1>5, VerdictsAssumption DEF RegistryInv, RunnerInv, RunnerTypeOK
<1>7. PayloadInv'
  <2>1. /\ checks' = checks /\ providerIds' = providerIds /\ call' = call
        /\ met' = met /\ received' = received
    BY <1>1 DEF registryVars
  <2>2. \A x \in Concluded' \ DOMAIN received' : results'[x] = "INCONCLUSIVE"
    BY <1>2, <2>1 DEF RunnerInv, PayloadInv, Concluded
  <2>3. \A c : Provided(c)' = Provided(c) /\ ProviderOf(c)' = ProviderOf(c)
    BY <2>1 DEF Provided, ProviderOf
  <2>4. \A x : Consumed(checks[x])' = Consumed(checks[x])
    BY <2>1 DEF Consumed
  <2>5. HandedWhatWasDeclared'
    BY <2>1, <2>3, <2>4 DEF RunnerInv, PayloadInv, HandedWhatWasDeclared
  <2>6. \A c \in DOMAIN emitted' :
          /\ Provided(c)' /\ ProviderOf(c)' \in DOMAIN received'
          /\ emitted'[c] = [by |-> ProviderOf(c)', in |-> call']
    BY <1>4, <2>1, <2>3 DEF RunnerInv, PayloadInv
  <2>7. \A x \in DOMAIN received' : \A c \in Consumed(checks[x])' :
          Provided(c)' /\ ProviderOf(c)' \in DOMAIN received'
    BY <2>1, <2>3, <2>4 DEF RunnerInv, PayloadInv
  <2>8. DOMAIN received' \subseteq DOMAIN checks'
    BY <2>1 DEF RunnerInv, PayloadInv
  <2> QED
    BY <2>2, <2>5, <2>6, <2>7, <2>8 DEF PayloadInv
<1> QED
  BY <1>2, <1>5, <1>6, <1>7 DEF RunnerInv

LEMMA ComputeReturnsStep ==
  ASSUME RunnerInv, NEW v \in Verdicts, NEW names \in SUBSET Capabilities,
         ComputeReturns(v, names)
  PROVE  RunnerInv'
<1> DEFINE id == NextCheck
           now == Emit(id, names)
<1>1. /\ ReadyToCompute /\ CheckIsNext
      /\ names \subseteq checks[id].provides
      /\ received' = Put(received, id, Handed(id))
      /\ Conclude(id, v, now)
      /\ UNCHANGED <<registryVars, phase, call, met, order>>
  BY DEF ComputeReturns, Declared, ReadyToCompute
<1>2. /\ DOMAIN now = DOMAIN emitted \cup names
      /\ \A c \in names : now[c] = [by |-> id, in |-> call]
      /\ \A c \in DOMAIN emitted \ names : now[c] = emitted[c]
      /\ emitted' = now
  BY <1>1 DEF Emit, Conclude
<1>3. id \in CheckIds /\ id \in DOMAIN checks /\ call \in 1..MaxCalls
  BY <1>1, NextCheckFacts
<1> HIDE DEF id, now
<1>4. /\ OrderInv' /\ LoopInv'
      /\ cursor' \in 0..Len(order')
      /\ DOMAIN results' = DOMAIN results \cup {id} /\ results'[id] = v
      /\ \A x \in DOMAIN results : x # id /\ results'[x] = results[x]
      /\ DOMAIN silentProviders' \subseteq Capabilities
      /\ \A c \in DOMAIN silentProviders' : silentProviders'[c] \in CheckIds
  BY <1>1, <1>2, ConcludeStep DEF id
<1>5. /\ DOMAIN received' = DOMAIN received \cup {id}
      /\ DOMAIN received' \subseteq DOMAIN checks
      /\ HandedWhatWasDeclared'
      /\ \A x \in DOMAIN received' : \A c \in Consumed(checks'[x]) :
            Provided(c)' /\ ProviderOf(c)' \in DOMAIN received
  BY <1>1, HandOver DEF id
<1>6. RegistryInv'
  BY <1>1, RegistryInvStutter DEF RunnerInv
<1>7. RunnerTypeOK'
  BY <1>1, <1>2, <1>3, <1>4, <1>5, <1>6 DEF RegistryInv, RunnerInv, RunnerTypeOK
<1>8. PayloadInv'
  <2>1. checks' = checks /\ providerIds' = providerIds /\ call' = call
    BY <1>1 DEF registryVars
  <2>2. \A c \in names : Provided(c) /\ ProviderOf(c) = id
    BY <1>1, <1>3 DEF RunnerInv, RegistryInv, ProvidersAreExact, Provided, ProviderOf
  <2>3. \A c : Provided(c)' = Provided(c) /\ ProviderOf(c)' = ProviderOf(c)
    BY <2>1 DEF Provided, ProviderOf
  <2>4. ASSUME NEW c \in DOMAIN emitted'
        PROVE  /\ Provided(c)' /\ ProviderOf(c)' \in DOMAIN received'
               /\ emitted'[c] = [by |-> ProviderOf(c)', in |-> call']
    <3>1. CASE c \in names
      BY <3>1, <2>1, <2>2, <2>3, <1>2, <1>5
    <3>2. CASE c \notin names
      <4>1. c \in DOMAIN emitted /\ emitted'[c] = emitted[c]
        BY <3>2, <2>4, <1>2
      <4> QED
        BY <4>1, <2>1, <2>3, <1>5 DEF RunnerInv, PayloadInv
    <3> QED
      BY <3>1, <3>2
  <2>5. \A x \in Concluded' \ DOMAIN received' : results'[x] = "INCONCLUSIVE"
    BY <1>4, <1>5 DEF RunnerInv, PayloadInv, Concluded
  <2>6. \A x \in DOMAIN received' : \A c \in Consumed(checks[x])' :
          Provided(c)' /\ ProviderOf(c)' \in DOMAIN received'
    BY <1>5 DEF Consumed
  <2> QED
    BY <2>1, <2>4, <2>5, <2>6, <1>5 DEF PayloadInv
<1> QED
  BY <1>4, <1>6, <1>7, <1>8 DEF RunnerInv

LEMMA RunnerInvStutter == ASSUME RunnerInv, UNCHANGED vars PROVE RunnerInv'
<1>1. UNCHANGED <<registryVars, Locals>> /\ phase' = phase
  BY DEF vars, registryVars, Locals
<1>2. RegistryInv'
  BY <1>1, RegistryInvStutter DEF RunnerInv
<1>3. RunnerTypeOK'
  BY <1>1, <1>2 DEF RegistryInv, RunnerInv, RunnerTypeOK, Locals
<1>4. OrderInv'
  BY <1>1 DEF RunnerInv, OrderInv, ProvidersFirst, Provided, ProviderOf, Remaining,
              Scheduled, Consumed, Locals, registryVars
<1>5. LoopInv'
  BY <1>1 DEF RunnerInv, LoopInv, Locals, registryVars
<1>6. PayloadInv'
  BY <1>1, PayloadInvStutter DEF RunnerInv, Locals
<1> QED
  BY <1>2, <1>3, <1>4, <1>5, <1>6 DEF RunnerInv

-----------------------------------------------------------------------------
(* RunnerInv is an invariant of the runner, and so are its consequences.   *)

LEMMA RunnerInvStep == RunnerInv /\ [RunnerNext]_vars => RunnerInv'
<1> SUFFICES ASSUME RunnerInv, [RunnerNext]_vars PROVE RunnerInv'
  OBVIOUS
<1>1. CASE \E d \in Declarations : RegisterCheck(d) \/ RefuseOffer(d)
  <2>1. CASE \E d \in Declarations : RegisterCheck(d)
    BY <2>1, RegisterCheckStep
  <2>2. CASE \E d \in Declarations : RefuseOffer(d)
    <3>1. UNCHANGED vars
      BY <2>2 DEF RefuseOffer, RefuseRegistration, registryVars, runVars, vars
    <3> QED
      BY <3>1, RunnerInvStutter
  <2> QED
    BY <1>1, <2>1, <2>2
<1>2. CASE \E m \in SUBSET Requirements : StartCall(m)
  BY <1>2, StartCallStep
<1>3. CASE OrderStep
  BY <1>3, ScheduleStep, OrderRefusalStep DEF OrderStep
<1>4. CASE RunStep
  BY <1>4, ConcludeUncomputedStep, ComputeReturnsStep, RaiseStep, ReturnStep DEF RunStep
<1>5. CASE UNCHANGED vars
  BY <1>5, RunnerInvStutter
<1> QED
  BY <1>1, <1>2, <1>3, <1>4, <1>5 DEF RunnerNext

(* Type correctness of the runner and of the registry under it.            *)
THEOREM RunnerIsTyped == RunnerSpec => []RunnerTypeOK
<1>1. RunnerInv => RunnerTypeOK
  BY DEF RunnerInv
<1> QED
  BY <1>1, RunnerInvInit, RunnerInvStep, PTL DEF RunnerSpec

(* Whatever was registered in whatever order, a check is scheduled only    *)
(* after a scheduled provider of each capability it consumes.              *)
THEOREM ProvidersAlwaysFirst == RunnerSpec => []ProvidersFirst
<1>1. RunnerInv => ProvidersFirst
  BY DEF RunnerInv, OrderInv
<1> QED
  BY <1>1, RunnerInvInit, RunnerInvStep, PTL DEF RunnerSpec

(* The comment in run_checks that justifies the unguarded dict lookup of a *)
(* silent provider is right: it never raises KeyError.                     *)
THEOREM SilentLookupAlwaysSucceeds == RunnerSpec => []SilentLookupSucceeds
BY InvGivesSilentLookup, RunnerInvInit, RunnerInvStep, PTL DEF RunnerSpec

(* A call that returns has concluded every registered check.               *)
THEOREM NothingIsGated == RunnerSpec => []NothingGated
BY InvGivesNothingGated, RunnerInvInit, RunnerInvStep, PTL DEF RunnerSpec

(* A compute receives its declared capabilities, from their registered     *)
(* providers, of the current call.                                         *)
THEOREM HandedAlwaysWhatWasDeclared == RunnerSpec => []HandedWhatWasDeclared
<1>1. RunnerInv => HandedWhatWasDeclared
  BY DEF RunnerInv, PayloadInv
<1> QED
  BY <1>1, RunnerInvInit, RunnerInvStep, PTL DEF RunnerSpec

(* A withheld check withholds everything downstream of it.                 *)
THEOREM WithheldAlwaysPropagates == RunnerSpec => []WithheldPropagates
BY InvGivesWithheldPropagates, RunnerInvInit, RunnerInvStep, PTL DEF RunnerSpec

(* Calls of the runner never write to the registry: seen from the two      *)
(* dicts a session is a sequence of offers, so what holds of the registry  *)
(* alone holds under any interleaving with calls.                          *)
THEOREM RunnerImplementsRegistry == RunnerSpec => RegistrySpec
<1>1. RunnerInit => RegistryInit
  BY DEF RunnerInit
<1>2. [RunnerNext]_vars => [RegistryNext]_registryVars
  <2> SUFFICES ASSUME [RunnerNext]_vars PROVE [RegistryNext]_registryVars
    OBVIOUS
  <2>1. CASE \E d \in Declarations : RegisterCheck(d) \/ RefuseOffer(d)
    BY <2>1 DEF RegisterCheck, RefuseOffer, RegistryNext
  <2>2. CASE \E m \in SUBSET Requirements : StartCall(m)
    BY <2>2 DEF StartCall
  <2>3. CASE OrderStep
    BY <2>3 DEF OrderStep, Schedule, RaiseUnknownCapability, RaiseCapabilityCycle, OrderComplete
  <2>4. CASE RunStep
    BY <2>4 DEF RunStep, ConcludeUncomputed, ComputeReturns, RaiseUndeclaredEmission,
                ComputeRaises, ReturnResults
  <2>5. CASE UNCHANGED vars
    BY <2>5 DEF vars, registryVars
  <2> QED
    BY <2>1, <2>2, <2>3, <2>4, <2>5 DEF RunnerNext
<1> QED
  BY <1>1, <1>2, PTL DEF RunnerSpec, RegistrySpec

(* Type correctness, exact providers and permanence, in every session.     *)
THEOREM SessionsKeepTheRegistry ==
  RunnerSpec => []RegistryTypeOK /\ []ProvidersAreExact /\ RegistrationIsPermanent
BY RunnerImplementsRegistry, RegistryIsTyped, RegistryProvidersAreExact, RegistrationsArePermanent

-----------------------------------------------------------------------------
(* The deterministic order: for every set of declarations, the order that  *)
(* _execution_order returns is the least, by registration position, of all *)
(* the orders that put providers before consumers.  The property speaks of *)
(* the finished order alone; what the greedy selection keeps true on the   *)
(* way is GreedyInv: whatever was registered before a scheduled check, and *)
(* not scheduled before it, could not run yet.  An order that beats the    *)
(* program's at its first difference would have scheduled there a check    *)
(* that could run.                                                         *)

(* Some capability id consumes has no provider above place i of the order. *)
StuckAt(id, i) ==
  \E c \in Consumed(checks[id]) :
    ~(Provided(c) /\ \E j \in 1..(i - 1) : order[j] = ProviderOf(c))

GreedyInv ==
  \A i \in DOMAIN order : \A q \in DOMAIN registered :
    (registered[q] \notin {order[j] : j \in 1..(i - 1)} /\ q < Position(order[i]))
      => StuckAt(registered[q], i)

-----------------------------------------------------------------------------
LEMMA PositionOf ==
  ASSUME RegistryInv, NEW p \in DOMAIN registered PROVE Position(registered[p]) = p
BY DEF Position, RegistryInv, IterationIsExact

LEMMA PositionExists ==
  ASSUME RegistryInv, NEW id \in DOMAIN checks
  PROVE  Position(id) \in DOMAIN registered /\ registered[Position(id)] = id
BY DEF Position, RegistryInv, IterationIsExact

LEMMA GreedyKept ==
  ASSUME GreedyInv, UNCHANGED <<registryVars, order>> PROVE GreedyInv'
<1>1. checks' = checks /\ registered' = registered /\ providerIds' = providerIds /\ order' = order
  BY DEF registryVars
<1>2. \A id, i : StuckAt(id, i)' = StuckAt(id, i)
  BY <1>1 DEF StuckAt, Consumed, Provided, ProviderOf
<1>3. \A id : Position(id)' = Position(id)
  BY <1>1 DEF Position
<1> QED
  BY <1>1, <1>2, <1>3 DEF GreedyInv

LEMMA GreedyEmpty == ASSUME order = << >> PROVE GreedyInv
BY DEF GreedyInv

LEMMA GreedySchedule == ASSUME RunnerInv, GreedyInv, Schedule PROVE GreedyInv'
<1>1. PICK p \in DOMAIN registered :
        ScanEndsAt(p) /\ order' = Append(order, registered[p])
  BY DEF Schedule
<1>2. checks' = checks /\ registered' = registered /\ providerIds' = providerIds
  BY DEF Schedule, registryVars
<1>3. registered \in Seq(CheckIds) /\ order \in Seq(CheckIds) /\ RegistryInv
  BY DEF RunnerInv, RunnerTypeOK, RegistryInv, RegistryTypeOK
<1>4. /\ Len(order) \in Nat /\ DOMAIN order = 1..Len(order)
      /\ DOMAIN order' = 1..(Len(order) + 1)
      /\ \A j \in DOMAIN order : order'[j] = order[j]
      /\ order'[Len(order) + 1] = registered[p]
      /\ DOMAIN registered = 1..Len(registered) /\ Len(registered) \in Nat
  BY <1>1, <1>3, LenProperties, AppendProperties
<1>5. \A id : Position(id)' = Position(id)
  BY <1>2 DEF Position
<1>7. \A c : Provided(c)' = Provided(c) /\ ProviderOf(c)' = ProviderOf(c)
  BY <1>2 DEF Provided, ProviderOf
<1>8. SUFFICES ASSUME NEW i \in DOMAIN order', NEW q \in DOMAIN registered,
                      registered[q] \notin {order'[j] : j \in 1..(i - 1)},
                      q < Position(order'[i])
               PROVE  StuckAt(registered[q], i)'
  BY <1>2, <1>5 DEF GreedyInv
<1>9. i - 1 \in 0..Len(order) /\ \A j \in 1..(i - 1) : j \in DOMAIN order /\ order'[j] = order[j]
  BY <1>4
<1>10. StuckAt(registered[q], i)
  <2>1. CASE i \in DOMAIN order
    BY <1>4, <1>8, <1>9, <2>1 DEF GreedyInv
  <2>2. CASE i = Len(order) + 1
    <3>1. q < p
      BY <1>1, <1>3, <1>4, <1>8, <2>2, PositionOf
    <3>2. registered[q] \in Remaining
      <4>1. registered[q] \in DOMAIN checks
        BY <1>3 DEF RegistryInv, IterationIsExact
      <4>2. registered[q] \notin Scheduled
        BY <1>4, <1>8, <1>9, <2>2 DEF Scheduled
      <4> QED
        BY <4>1, <4>2 DEF Remaining
    <3>3. Blocked(registered[q])
      BY <1>1, <1>4, <3>1, <3>2 DEF ScanEndsAt
    <3>4. PICK c \in Consumed(checks[registered[q]]) : ~ProviderScheduled(c)
      BY <3>3 DEF Blocked, IsRunnable
    <3>5. 1..(i - 1) = DOMAIN order
      BY <1>4, <2>2
    <3> QED
      BY <3>4, <3>5 DEF ProviderScheduled, Scheduled, StuckAt
  <2> QED
    BY <1>4, <2>1, <2>2
<1>11. PICK c \in Consumed(checks[registered[q]]) :
         ~(Provided(c) /\ \E j \in 1..(i - 1) : order[j] = ProviderOf(c))
  BY <1>10 DEF StuckAt
<1>12. c \in Consumed(checks[registered[q]])'
  BY <1>2, <1>11 DEF Consumed
<1>13. ~(Provided(c)' /\ \E j \in 1..(i - 1) : order'[j] = ProviderOf(c)')
  BY <1>7, <1>9, <1>11
<1> QED
  BY <1>12, <1>13 DEF StuckAt

LEMMA GreedyStep == RunnerInv /\ GreedyInv /\ [RunnerNext]_vars => GreedyInv'
<1> SUFFICES ASSUME RunnerInv, GreedyInv, [RunnerNext]_vars PROVE GreedyInv'
  OBVIOUS
<1>1. ASSUME order' = << >> PROVE GreedyInv'
  BY <1>1 DEF GreedyInv
<1>2. CASE \E d \in Declarations : RegisterCheck(d) \/ RefuseOffer(d)
  BY <1>1, <1>2, GreedyKept DEF RegisterCheck, FreshLocals, RefuseOffer, RefuseRegistration, runVars
<1>3. CASE \E m \in SUBSET Requirements : StartCall(m)
  BY <1>1, <1>3 DEF StartCall, FreshLocals
<1>4. CASE OrderStep
  BY <1>4, GreedyKept, GreedySchedule
  DEF OrderStep, RaiseUnknownCapability, RaiseCapabilityCycle, OrderComplete
<1>5. CASE RunStep
  BY <1>5, GreedyKept DEF RunStep, ConcludeUncomputed, ComputeReturns, RaiseUndeclaredEmission,
                          ComputeRaises, ReturnResults
<1>6. CASE UNCHANGED vars
  BY <1>6, GreedyKept DEF vars, registryVars
<1> QED
  BY <1>2, <1>3, <1>4, <1>5, <1>6 DEF RunnerNext

-----------------------------------------------------------------------------
(* A finished order has the length of the registry: both list each check   *)
(* once.                                                                   *)
LEMMA OrderLength ==
  ASSUME RunnerInv, phase = "running"
  PROVE  /\ order \in [1..Len(registered) -> DOMAIN checks]
         /\ Len(order) = Len(registered) /\ Len(registered) \in Nat
<1>1. /\ registered \in Seq(CheckIds) /\ order \in Seq(CheckIds)
      /\ IterationIsExact /\ OrderInv /\ Remaining = {}
  BY DEF RunnerInv, RunnerTypeOK, RegistryInv, RegistryTypeOK, OrderInv
<1>2. /\ Len(order) \in Nat /\ DOMAIN order = 1..Len(order)
      /\ Len(registered) \in Nat /\ DOMAIN registered = 1..Len(registered)
  BY <1>1, LenProperties
<1>3. order \in [1..Len(order) -> DOMAIN checks]
  BY <1>1, <1>2 DEF OrderInv
<1>4. registered \in [1..Len(registered) -> DOMAIN checks]
  BY <1>1, <1>2 DEF IterationIsExact
<1>5. order \in Bijection(1..Len(order), DOMAIN checks)
  <2>1. \A id \in DOMAIN checks : \E i \in 1..Len(order) : order[i] = id
    BY <1>1, <1>2 DEF Remaining, Scheduled
  <2> QED
    BY <1>1, <1>2, <1>3, <2>1, Fun_IsBij DEF OrderInv
<1>6. registered \in Bijection(1..Len(registered), DOMAIN checks)
  <2>1. \A id \in DOMAIN checks : \E i \in 1..Len(registered) : registered[i] = id
    BY <1>1, <1>2 DEF IterationIsExact
  <2> QED
    BY <1>1, <1>2, <1>4, <2>1, Fun_IsBij DEF IterationIsExact
<1>7. Len(order) = Len(registered)
  BY <1>2, <1>5, <1>6, Fun_NatBijSame DEF ExistsBijection
<1> QED
  BY <1>2, <1>3, <1>7

LEMMA OrderIsTopological ==
  ASSUME RunnerInv, phase = "running" PROVE order \in TopologicalOrders
<1>1. order \in [1..Len(registered) -> DOMAIN checks]
  BY OrderLength
<1>2. \A i, j \in DOMAIN order : order[i] = order[j] => i = j
  BY DEF RunnerInv, OrderInv
<1>3. ASSUME NEW i \in DOMAIN order, NEW c \in Consumed(checks[order[i]])
      PROVE  \E j \in 1..(i - 1) : c \in checks[order[j]].provides
  BY <1>3 DEF RunnerInv, OrderInv, ProvidersFirst, RegistryInv, ProvidersAreExact, Provided, ProviderOf
<1> QED
  BY <1>1, <1>2, <1>3 DEF TopologicalOrders

LEMMA NoneIsBefore ==
  ASSUME RunnerInv, GreedyInv, phase = "running", NEW s \in TopologicalOrders
  PROVE  ~Before(s, order)
<1> SUFFICES ASSUME Before(s, order) PROVE FALSE
  OBVIOUS
<1>1. PICK i \in DOMAIN s : /\ Position(s[i]) < Position(order[i])
                            /\ \A j \in 1..(i - 1) : order[j] = s[j]
  BY DEF Before
<1>2. /\ s \in [1..Len(registered) -> DOMAIN checks]
      /\ order \in [1..Len(registered) -> DOMAIN checks] /\ Len(registered) \in Nat
      /\ i \in DOMAIN order /\ s[i] \in DOMAIN checks
      /\ \A j \in 1..(i - 1) : j \in DOMAIN s /\ j # i
  BY <1>1, OrderLength DEF TopologicalOrders
<1>3. PICK q \in DOMAIN registered : registered[q] = s[i] /\ q = Position(s[i])
  BY <1>2, PositionExists DEF RunnerInv
<1>4. registered[q] \notin {order[j] : j \in 1..(i - 1)}
  BY <1>1, <1>2, <1>3 DEF TopologicalOrders
<1>5. StuckAt(s[i], i)
  BY <1>1, <1>2, <1>3, <1>4 DEF GreedyInv
<1>6. PICK c \in Consumed(checks[s[i]]) :
        ~(Provided(c) /\ \E j \in 1..(i - 1) : order[j] = ProviderOf(c))
  BY <1>5 DEF StuckAt
<1>7. PICK j \in 1..(i - 1) : c \in checks[s[j]].provides
  BY <1>1, <1>6 DEF TopologicalOrders
<1>8. s[j] \in DOMAIN checks
  BY <1>2, <1>7
<1>9. Provided(c) /\ ProviderOf(c) = s[j]
  BY <1>7, <1>8 DEF RunnerInv, RegistryInv, ProvidersAreExact, Provided, ProviderOf
<1> QED
  BY <1>1, <1>6, <1>7, <1>9

(* The order run_checks follows is the least that puts providers first:    *)
(* the one its docstring describes, whatever was registered in whatever    *)
(* order (_execution_order).                                               *)
THEOREM OrderIsAlwaysLeast == RunnerSpec => []OrderIsLeast
<1>1. RunnerInit => GreedyInv
  BY DEF RunnerInit, GreedyInv
<1>2. RunnerInv /\ GreedyInv => OrderIsLeast
  BY OrderIsTopological, NoneIsBefore DEF OrderIsLeast
<1> QED
  BY <1>1, <1>2, GreedyStep, RunnerInvInit, RunnerInvStep, PTL DEF RunnerSpec
=============================================================================
