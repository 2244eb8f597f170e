------------------------------ MODULE Update ------------------------------
(***************************************************************************)
(* What dfu() promises about the device, whatever happens on the way: the  *)
(* firmware is installed front to back behind an accepted init packet, and *)
(* success is reported only once all of it is there.                       *)
(***************************************************************************)
EXTENDS Naturals

CONSTANT Length  \* bytes of the firmware

VARIABLES
  accepted,   \* the bootloader has executed the whole init packet
  installed,  \* bytes of the firmware it has executed
  verdict     \* what dfu() returned

updateVars == <<accepted, installed, verdict>>

Init == accepted = FALSE /\ installed = 0 /\ verdict = "none"

\* A new init packet is begun: what was installed is given up.
StartOver == verdict = "none" /\ accepted' = FALSE /\ installed' = 0 /\ UNCHANGED verdict

Accept == verdict = "none" /\ accepted' = TRUE /\ UNCHANGED <<installed, verdict>>

Install ==
  /\ verdict = "none" /\ accepted
  /\ installed' \in (installed + 1)..Length
  /\ UNCHANGED <<accepted, verdict>>

Succeed ==
  /\ verdict = "none" /\ accepted /\ installed = Length
  /\ verdict' = "SUCCESS" /\ UNCHANGED <<accepted, installed>>

Fail == verdict = "none" /\ verdict' = "FAILED" /\ UNCHANGED <<accepted, installed>>

\* The program is run again; the device may have forgotten the transfer.
RunAgain ==
  /\ verdict' = "none"
  /\ \/ UNCHANGED <<accepted, installed>>
     \/ accepted' = FALSE /\ installed' = 0

Next == StartOver \/ Accept \/ Install \/ Succeed \/ Fail \/ RunAgain

Spec == Init /\ [][Next]_updateVars
=============================================================================
