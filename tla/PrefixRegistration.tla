--------------------------- MODULE PrefixRegistration ---------------------------
(***************************************************************************)
(* How a worker makes itself known (worker.cpp, kua.cpp): it registers its *)
(* two prefixes, that of its bucket and that of its bucket at this node,   *)
(* with the forwarder and has the routing daemon announce them.  The       *)
(* program's own prefixes are announced over another face, without the     *)
(* program registering them.                                               *)
(***************************************************************************)
EXTENDS NlsrAdvertise, Integers

CONSTANTS
  WorkerPrefixes,  (* m_bucketNodePrefix and m_bucketPrefix.               *)
  MainPrefixes,    (* What main() advertises.                              *)
  MaxFailures      (* 50: the last count of failures that is tolerated.    *)

ASSUME PrefixesAssumption ==
  /\ Prefixes = WorkerPrefixes \cup MainPrefixes
  /\ WorkerPrefixes \cap MainPrefixes = {}
  /\ MaxFailures \in Nat

(* "requested": the command is pending.  "waiting": it failed, and the     *)
(* timer of the retry runs.  "lost": the face was closed on it, before or  *)
(* after it was registered, and nothing registers it again.                *)
RegistrationState == {"requested", "waiting", "registered", "lost"}

VARIABLES
  registration,         (* registration[p]: the state of registering p.    *)
  silent,               (* Prefixes whose registration has no success      *)
                        (* callback.                                       *)
  failedRegistrations,  (* m_failedRegistrations                           *)
  open                  (* m_face is connected: m_face.shutdown() closes   *)
                        (* it, a later use may connect it anew.            *)

vars == <<advert, registration, silent, failedRegistrations, open>>

TypeOK ==
  /\ AdvertTypeOK
  /\ registration \in [WorkerPrefixes -> RegistrationState]
  /\ silent \subseteq WorkerPrefixes
  /\ failedRegistrations \in 0 .. MaxFailures
  /\ open \in BOOLEAN

(* The constructor requests both prefixes before the worker's thread runs. *)
Init ==
  /\ advert = [p \in Prefixes |-> IF p \in MainPrefixes THEN "asked" ELSE "none"]
  /\ registration = [p \in WorkerPrefixes |-> "requested"]
  /\ silent = {}
  /\ failedRegistrations = 0
  /\ open = TRUE

-----------------------------------------------------------------------------
(* The forwarder has registered p.  The callback, where there is one,      *)
(* advertises it.                                                          *)
Registered(p) ==
  /\ registration[p] = "requested"
  /\ registration' = [registration EXCEPT ![p] = "registered"]
  /\ IF p \in silent THEN UNCHANGED advert ELSE Advertise(p)
  /\ UNCHANGED <<silent, failedRegistrations, open>>

(* Mutant: one failure more is tolerated. *)
OneFailureMore == failedRegistrations > MaxFailures

(* The condition on which onRegisterFailed() shuts the face down.          *)
TooManyFailures == failedRegistrations >= MaxFailures

(* Mutant: the count is that of failures in a row, of either prefix. *)
CountAfresh == failedRegistrations' = 1

(* m_failedRegistrations += 1 *)
CountFailure == failedRegistrations' = failedRegistrations + 1

(* onRegisterFailed(), with a failure that is not the last one tolerated:  *)
(* a timer of 300 ms is started.                                           *)
RegisterFailed(p) ==
  /\ registration[p] = "requested"
  /\ ~TooManyFailures
  /\ registration' = [registration EXCEPT ![p] = "waiting"]
  /\ CountFailure
  /\ UNCHANGED <<advert, silent, open>>

(* onRegisterFailed(), with one failure too many.  The library drops what  *)
(* is pending on the face and closes it, and with it goes every route of   *)
(* the worker.  The timers of the worker and of its NLSR run on.           *)
Shutdown(p) ==
  /\ registration[p] = "requested"
  /\ TooManyFailures
  /\ open' = FALSE
  /\ registration' = [q \in WorkerPrefixes |->
                        IF registration[q] = "waiting" THEN "waiting" ELSE "lost"]
  /\ advert' = [q \in Prefixes |->
                  IF q \in WorkerPrefixes /\ advert[q] = "asked"
                  THEN "abandoned" ELSE advert[q]]
  /\ UNCHANGED <<silent, failedRegistrations>>

(* registerPrefix(prefix, nullptr, ...) *)
WithoutCallback(p) == silent' = silent \cup {p}

(* The timer of a failed registration.  If the face was closed meanwhile   *)
(* the library connects it anew for the request.                           *)
RegisterAgain(p) ==
  /\ registration[p] = "waiting"
  /\ registration' = [registration EXCEPT ![p] = "requested"]
  /\ WithoutCallback(p)
  /\ open' = TRUE
  /\ UNCHANGED <<advert, failedRegistrations>>

(* The same timer, when the library does not connect the closed face anew. *)
RegisterOnClosedFace(p) ==
  /\ ~open
  /\ registration[p] = "waiting"
  /\ registration' = [registration EXCEPT ![p] = "lost"]
  /\ UNCHANGED <<advert, silent, failedRegistrations, open>>

RegistrationStep(p) ==
  \/ Registered(p)
  \/ RegisterFailed(p)
  \/ Shutdown(p)
  \/ RegisterAgain(p)
  \/ RegisterOnClosedFace(p)

(* Advertisements of the worker go over the worker's face, which the timer *)
(* of a refused one connects anew like that of a failed registration.      *)
AdvertStep(p) ==
  /\ AdvertNext(p)
  /\ open' = (open \/ p \in WorkerPrefixes)
  /\ UNCHANGED <<registration, silent, failedRegistrations>>

(* The same timer, when it does not.                                       *)
AdvertiseOnClosedFace(p) ==
  /\ ~open
  /\ advert[p] = "refused"
  /\ advert' = [advert EXCEPT ![p] = "abandoned"]
  /\ UNCHANGED <<registration, silent, failedRegistrations, open>>

Next ==
  \/ \E p \in WorkerPrefixes : RegistrationStep(p) \/ AdvertiseOnClosedFace(p)
  \/ \E p \in Prefixes : AdvertStep(p)

(* Every request gets some answer or runs into the timeout of the library, *)
(* and timers fire.  Nothing is assumed of which answer.                   *)
Fairness ==
  /\ \A p \in WorkerPrefixes : WF_vars(RegistrationStep(p))
  /\ \A p \in Prefixes : WF_vars(AdvertStep(p))

Spec == Init /\ [][Next]_vars
FairSpec == Spec /\ Fairness

-----------------------------------------------------------------------------
(* Trying comes to an end, whatever the forwarder answers and however the  *)
(* two prefixes share the tolerance: each prefix stays registered, or it   *)
(* stays lost and the failures of both together have used the tolerance up.*)
RegistrationSettles ==
  <>[](\A p \in WorkerPrefixes :
         \/ registration[p] = "registered"
         \/ registration[p] = "lost" /\ failedRegistrations = MaxFailures)

(* An advertisement, once asked for, is announced or abandoned, or is      *)
(* repeated for as long as the daemon refuses it.                          *)
AdvertisementPersists ==
  \A p \in Prefixes :
    []( advert[p] = "asked" =>
          \/ <>(advert[p] \in {"announced", "abandoned"})
          \/ []<>(advert[p] = "asked") )

(* worker.cpp:76, of the retry: "RegisterPrefixSuccessCallback is          *)
(* optional".  If it were, a prefix would be advertised once it is         *)
(* registered, as the constructor has it, whichever request succeeds.      *)
(* Refuted: it is the callback left out that advertises.                   *)
RegisteredIsAdvertised ==
  \A p \in WorkerPrefixes : registration[p] = "registered" => advert[p] # "none"

=============================================================================
