------------------------------ MODULE Registry ------------------------------
(***************************************************************************)
(* The check registry (core/registry.py): the single point of access to    *)
(* checks.  A check is known here by its declaration: its check_id, its    *)
(* false-alarm bound, whether it has a callable positive control, the      *)
(* requirements it puts on a record, and the capabilities it provides and  *)
(* consumes.                                                               *)
(*                                                                         *)
(* Python's dict keeps insertion order, and assigning to a key that is     *)
(* already there keeps its place: `registered' is that order, `checks' the *)
(* dict itself.                                                            *)
(***************************************************************************)
EXTENDS Integers, Sequences

CONSTANTS
  CheckIds,       \* strings a declaration may carry as check_id
  Capabilities,   \* strings a declaration may name as a capability
  Requirements,   \* the declarative requirements a check may state
  SnakeNames,     \* the strings that match the flat lowercase snake pattern
  BoundScale,     \* a false-alarm bound of value v stands for v / BoundScale
  Declarations    \* the declarations a caller may offer to register

DeclarationType ==
  [check_id : CheckIds, bound : [value : Int, unit : STRING],
   positive_control : BOOLEAN, requirements : SUBSET Requirements,
   provides : SUBSET Capabilities, consumes : Seq(Capabilities)]

ASSUME DeclarationsAssumption == Declarations \subseteq DeclarationType

VARIABLES
  checks,       \* _checks: check_id -> declaration
  registered,   \* the order of _checks
  providerIds   \* _provider_ids: capability -> check_id

registryVars == <<checks, registered, providerIds>>

-----------------------------------------------------------------------------
(* A function with k mapped to v: the dict assignment f[k] = v. *)
Put(f, k, v) == [x \in DOMAIN f \cup {k} |-> IF x = k THEN v ELSE f[x]]

(* consumes is a tuple: its order is the order capabilities are looked up. *)
Consumed(d) == {d.consumes[i] : i \in DOMAIN d.consumes}

EmptyDict == [x \in {} |-> {}]

-----------------------------------------------------------------------------
(* The four validations of register, each an early RegistrationError.  An  *)
(* operator named Slip... is the definition after it with a plausible      *)
(* programming slip: a property that survived the slip would say nothing.  *)
SlipIdNotChecked(d) == d.check_id \in SnakeNames

ValidId(d) ==
  /\ d.check_id \in SnakeNames
  /\ d.check_id \notin DOMAIN checks

ValidFalseAlarmBound(d) ==
  /\ 0 < d.bound.value /\ d.bound.value < BoundScale
  /\ d.bound.unit = "1"

ValidPositiveControl(d) == d.positive_control

SlipCapabilityShared(d) ==
  /\ d.provides \cup Consumed(d) \subseteq SnakeNames
  /\ d.provides \cap Consumed(d) = {}

ValidCapabilities(d) ==
  /\ d.provides \cup Consumed(d) \subseteq SnakeNames
  /\ d.provides \cap DOMAIN providerIds = {}
  /\ d.provides \cap Consumed(d) = {}

Valid(d) ==
  /\ ValidId(d)
  /\ ValidFalseAlarmBound(d)
  /\ ValidPositiveControl(d)
  /\ ValidCapabilities(d)

-----------------------------------------------------------------------------
RegistryInit ==
  /\ checks = EmptyDict
  /\ registered = << >>
  /\ providerIds = EmptyDict

(* The loop over check.provides at the end of register. *)
WithProvider(d) ==
  [c \in DOMAIN providerIds \cup d.provides |->
     IF c \in d.provides THEN d.check_id ELSE providerIds[c]]

(* Iteration order after checks[check_id] = check.                         *)
RegisteredAfter(id) ==
  IF id \in DOMAIN checks THEN registered ELSE Append(registered, id)

Register(d) ==
  /\ Valid(d)
  /\ checks' = Put(checks, d.check_id, d)
  /\ registered' = RegisteredAfter(d.check_id)
  /\ providerIds' = WithProvider(d)

(* RegistrationError: raised before anything is written. *)
RefuseRegistration(d) ==
  /\ ~Valid(d)
  /\ UNCHANGED registryVars

RegistryNext == \E d \in Declarations : Register(d) \/ RefuseRegistration(d)

RegistrySpec == RegistryInit /\ [][RegistryNext]_registryVars

-----------------------------------------------------------------------------
(* Registry.provider_of for a capability that has a provider; Provided is  *)
(* the test that otherwise raises UnknownCapabilityError.                  *)
Provided(c) == c \in DOMAIN providerIds
ProviderOf(c) == providerIds[c]

-----------------------------------------------------------------------------
RegistryTypeOK ==
  /\ DOMAIN checks \subseteq CheckIds
  /\ \A id \in DOMAIN checks : checks[id] \in Declarations
  /\ registered \in Seq(CheckIds)
  /\ DOMAIN providerIds \subseteq Capabilities
  /\ \A c \in DOMAIN providerIds : providerIds[c] \in CheckIds

(* Iterating the registry meets every registered check once, under its own *)
(* id (Registry.__iter__ and ids agree whatever was offered and refused).  *)
IterationIsExact ==
  /\ DOMAIN checks = {registered[i] : i \in DOMAIN registered}
  /\ \A i, j \in DOMAIN registered : registered[i] = registered[j] => i = j
  /\ \A id \in DOMAIN checks : checks[id].check_id = id

(* provider_of answers with the one check that declares the capability,    *)
(* and answers for every capability some registered check declares: the    *)
(* two dicts never disagree, and no capability has two providers.          *)
ProvidersAreExact ==
  /\ \A c \in DOMAIN providerIds :
        providerIds[c] \in DOMAIN checks /\ c \in checks[providerIds[c]].provides
  /\ \A id \in DOMAIN checks : \A c \in checks[id].provides :
        c \in DOMAIN providerIds /\ providerIds[c] = id

(* An id that landed keeps its declaration and its place, and a capability *)
(* keeps its provider, whatever is offered later: nothing a caller holds   *)
(* from get or provider_of goes stale ("exactly one check may provide it", *)
(* "already registered").                                                  *)
RegistrationIsPermanent ==
  [][/\ \A id \in DOMAIN checks : id \in DOMAIN checks' /\ checks'[id] = checks[id]
     /\ \A i \in DOMAIN registered :
           i \in DOMAIN registered' /\ registered'[i] = registered[i]
     /\ \A c \in DOMAIN providerIds :
           c \in DOMAIN providerIds' /\ providerIds'[c] = providerIds[c]]_registryVars
=============================================================================
