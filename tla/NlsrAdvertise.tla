------------------------------ MODULE NlsrAdvertise ------------------------------
(***************************************************************************)
(* NLSR::advertise() (nlsr.cpp): asking the routing daemon to announce a   *)
(* prefix.  What the closures of its callbacks keep is the prefix.         *)
(***************************************************************************)
CONSTANT Prefixes  (* Everything that may be advertised.                   *)

VARIABLE
  advert  (* advert[p]: how far the advertisement of p has come.           *)

(* "asked": the Interest is pending.  "refused": the daemon answered with  *)
(* an error code, and the timer of the retry runs.  "abandoned": no answer,*)
(* or one after which nothing more is tried.                               *)
AdvertState == {"none", "asked", "refused", "announced", "abandoned"}

AdvertTypeOK == advert \in [Prefixes -> AdvertState]

Advertise(p) == advert' = [advert EXCEPT ![p] = "asked"]

(* SUCCESS, SAVE_OR_DELETE or EXISTS *)
Announced(p) ==
  /\ advert[p] = "asked"
  /\ advert' = [advert EXCEPT ![p] = "announced"]

(* Any other code: a timer of half a second is started.                    *)
Refused(p) ==
  /\ advert[p] = "asked"
  /\ advert' = [advert EXCEPT ![p] = "refused"]

(* A Data whose content is a Nack or cannot be decoded; a network Nack or  *)
(* no answer at all, for both of which the callback is null.               *)
Abandoned(p) ==
  /\ advert[p] = "asked"
  /\ advert' = [advert EXCEPT ![p] = "abandoned"]

(* Mutant: the timer of a refused advertisement starts nothing. *)
ForgetAdvert(p) == advert[p] = "refused" /\ advert' = [advert EXCEPT ![p] = "none"]

(* The timer of a refused advertisement.                                   *)
AdvertiseAgain(p) == advert[p] = "refused" /\ Advertise(p)

AdvertNext(p) == Announced(p) \/ Refused(p) \/ Abandoned(p) \/ AdvertiseAgain(p)

=============================================================================
