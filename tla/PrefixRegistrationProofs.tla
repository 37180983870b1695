----------------------- MODULE PrefixRegistrationProofs -----------------------
(***************************************************************************)
(* The safety of the registration of prefixes, for any number of prefixes  *)
(* and any number of failures that is tolerated.                           *)
(***************************************************************************)
EXTENDS PrefixRegistration, TLAPS

(* What is registered without being advertised is what was registered by a *)
(* request that has no success callback.                                   *)
AdvertisedByCallback ==
  \A p \in WorkerPrefixes :
    registration[p] = "registered" /\ p \notin silent => advert[p] # "none"

(* Only a failure leads to a request without one.                          *)
CallbackLostByFailure ==
  failedRegistrations = 0 =>
    \A p \in WorkerPrefixes : p \notin silent /\ registration[p] # "waiting"

(* The invariants are inductive together.                                  *)
IInv == TypeOK /\ AdvertisedByCallback /\ CallbackLostByFailure

(* Nothing is registered at first.                                         *)
LEMMA InitInvariant == Init => IInv
BY PrefixesAssumption
DEF Init, IInv, TypeOK, AdvertTypeOK, AdvertState, RegistrationState,
    AdvertisedByCallback, CallbackLostByFailure

(* A registration that succeeds. *)
LEMMA RegisteredInvariant ==
  ASSUME IInv, NEW p \in WorkerPrefixes, Registered(p)
  PROVE  IInv'
<1> USE PrefixesAssumption DEF IInv, Registered
<1>1. TypeOK'
  BY DEF TypeOK, AdvertTypeOK, AdvertState, RegistrationState, Advertise
<1>2. AdvertisedByCallback'
  <2>1. CASE p \in silent
    BY <2>1 DEF AdvertisedByCallback, TypeOK
  <2>2. CASE p \notin silent
    BY <2>2 DEF AdvertisedByCallback, TypeOK, AdvertTypeOK, Advertise
  <2> QED
    BY <2>1, <2>2
<1>3. CallbackLostByFailure'
  BY DEF CallbackLostByFailure, TypeOK
<1> QED
  BY <1>1, <1>2, <1>3

(* A registration that fails, with a retry to come. *)
LEMMA RegisterFailedInvariant ==
  ASSUME IInv, NEW p \in WorkerPrefixes, RegisterFailed(p)
  PROVE  IInv'
<1> USE PrefixesAssumption DEF IInv, RegisterFailed
<1>1. TypeOK'
  BY DEF TypeOK, AdvertTypeOK, RegistrationState, TooManyFailures, CountFailure
<1>2. AdvertisedByCallback'
  BY DEF AdvertisedByCallback, TypeOK
<1>3. CallbackLostByFailure'
  BY DEF TypeOK, CallbackLostByFailure, CountFailure
<1> QED
  BY <1>1, <1>2, <1>3

(* The failure that closes the face. *)
LEMMA ShutdownInvariant ==
  ASSUME IInv, NEW p \in WorkerPrefixes, Shutdown(p)
  PROVE  IInv'
<1> USE DEF IInv, Shutdown
<1>1. TypeOK'
  BY DEF TypeOK, AdvertTypeOK, AdvertState, RegistrationState
<1>2. AdvertisedByCallback'
  BY DEF AdvertisedByCallback, TypeOK
<1>3. CallbackLostByFailure'
  BY DEF CallbackLostByFailure, TypeOK
<1> QED
  BY <1>1, <1>2, <1>3

(* The timer of a failed registration, whether the face can be used or not.*)
LEMMA RetryInvariant ==
  ASSUME IInv, NEW p \in WorkerPrefixes, RegisterAgain(p) \/ RegisterOnClosedFace(p)
  PROVE  IInv'
<1> USE DEF IInv, RegisterAgain, RegisterOnClosedFace, WithoutCallback
<1>1. TypeOK'
  BY DEF TypeOK, AdvertTypeOK, RegistrationState
<1>2. AdvertisedByCallback'
  BY DEF AdvertisedByCallback, TypeOK
<1>3. CallbackLostByFailure'
  BY DEF CallbackLostByFailure, TypeOK
<1> QED
  BY <1>1, <1>2, <1>3

(* What becomes of an advertisement. *)
LEMMA AdvertInvariant ==
  ASSUME IInv, NEW p \in Prefixes, AdvertStep(p) \/ AdvertiseOnClosedFace(p)
  PROVE  IInv'
<1> USE DEF IInv, AdvertStep, AdvertiseOnClosedFace
<1>1. PICK a \in AdvertState \ {"none"} : advert' = [advert EXCEPT ![p] = a]
  BY DEF AdvertNext, Announced, Refused, Abandoned, AdvertiseAgain, Advertise, AdvertState
<1>2. TypeOK'
  BY <1>1 DEF TypeOK, AdvertTypeOK
<1>3. AdvertisedByCallback'
  BY <1>1, PrefixesAssumption DEF AdvertisedByCallback, TypeOK, AdvertTypeOK
<1>4. CallbackLostByFailure'
  BY DEF CallbackLostByFailure
<1> QED
  BY <1>2, <1>3, <1>4

(* Every step of the registrations and the advertisements keeps it.        *)
LEMMA NextInvariant == IInv /\ [Next]_vars => IInv'
<1> SUFFICES ASSUME IInv, [Next]_vars PROVE IInv'
  OBVIOUS
<1>1. CASE \E p \in WorkerPrefixes : RegistrationStep(p)
  BY <1>1, RegisteredInvariant, RegisterFailedInvariant, ShutdownInvariant,
     RetryInvariant DEF RegistrationStep
<1>2. CASE \E p \in WorkerPrefixes : AdvertiseOnClosedFace(p)
  BY <1>2, AdvertInvariant, PrefixesAssumption
<1>3. CASE \E p \in Prefixes : AdvertStep(p)
  BY <1>3, AdvertInvariant
<1>4. CASE UNCHANGED vars
  BY <1>4 DEF vars, IInv, TypeOK, AdvertTypeOK, AdvertisedByCallback, CallbackLostByFailure
<1> QED
  BY <1>1, <1>2, <1>3, <1>4 DEF Next

(* The inductive invariant holds of every behaviour of the code.           *)
THEOREM Invariance == Spec => []IInv
BY InitInvariant, NextInvariant, PTL DEF Spec

(* The types of all variables, for every tolerance of failures.            *)
THEOREM TypeCorrect == Spec => []TypeOK
<1>1. IInv => TypeOK
  BY DEF IInv
<1> QED
  BY <1>1, Invariance, PTL

(* Up to the first failure of a registration all that is registered is     *)
(* advertised: the claim that the run retry_not_advertised refutes fails   *)
(* by nothing but the callback that retries do not have.                   *)
THEOREM FirstTriesAdvertised == Spec => [](failedRegistrations = 0 => RegisteredIsAdvertised)
<1>1. IInv => (failedRegistrations = 0 => RegisteredIsAdvertised)
  BY DEF IInv, AdvertisedByCallback, CallbackLostByFailure, RegisteredIsAdvertised
<1> QED
  BY <1>1, Invariance, PTL

=============================================================================
