------------------------------ MODULE RxBuffer ------------------------------
(* The buffer that a task of the super-loop hands to recv(): each is larger *)
(* than the requests it is made for (httpd_led.c:64, secure_cmd.c:34).      *)
EXTENDS Naturals

CONSTANT RxUnits   \* halves of a request that fit

ASSUME RxAssumption == RxUnits \in Nat /\ RxUnits >= 2
=============================================================================
