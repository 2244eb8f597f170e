------------------------------ MODULE Request ------------------------------
(***************************************************************************)
(* What ble_wait_setup / ble_send_cp / ble_wait_run promise to dfu.c, and  *)
(* what DfuSend assumes of a request: it is answered only if the           *)
(* bootloader served it, with that answer; when it is not answered the     *)
(* connection is of no more use.                                           *)
(***************************************************************************)
VARIABLES
  waiting,  \* a request is under way
  served,   \* the bootloader received it
  outcome,  \* of the last request: "none" (no request yet or under way), "answer", "silence"
  usable    \* the connection can still carry requests

requestVars == <<waiting, served, outcome, usable>>

Init == waiting = FALSE /\ served = FALSE /\ outcome = "none" /\ usable = TRUE

Ask == ~waiting /\ waiting' = TRUE /\ served' = FALSE /\ outcome' = "none" /\ UNCHANGED usable
Serve == waiting /\ usable /\ served' = TRUE /\ UNCHANGED <<waiting, outcome, usable>>
Answer == waiting /\ served /\ waiting' = FALSE /\ outcome' = "answer" /\ UNCHANGED <<served, usable>>
GiveUp == waiting /\ ~usable /\ waiting' = FALSE /\ outcome' = "silence" /\ UNCHANGED <<served, usable>>
Break == usable /\ usable' = FALSE /\ UNCHANGED <<waiting, served, outcome>>

Next == Ask \/ Serve \/ Answer \/ GiveUp \/ Break

Spec == Init /\ [][Next]_requestVars
=============================================================================
