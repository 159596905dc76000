------------------------------- MODULE Authority -------------------------------
(***************************************************************************)
(* What the owner of the account is promised about the authority to open   *)
(* positions with real money. There is at most one holder. A permit is     *)
(* held under a fence number no earlier permit had, so that an order bound *)
(* to an earlier one can be told apart; one kind of authority is never     *)
(* turned into the other; a stop takes the authority away and lifting it   *)
(* gives none back.                                                        *)
(*                                                                         *)
(* TradeProtection is the Worker, the console and the files that keep this *)
(* promise.                                                                *)
(***************************************************************************)
EXTENDS Naturals

VARIABLES
  holder,   \* who may open: "NONE", the owner's own "MANUAL" orders or a "PERMIT"
  fence,    \* the newest fence number
  stopped   \* trading is stopped

vars == <<holder, fence, stopped>>

Init == holder \in {"NONE", "PERMIT"} /\ fence \in Nat /\ stopped = FALSE

\* The fence moves on or stays; it never moves back.
Advance == fence' \in Nat /\ fence' >= fence

GrantManual ==
  /\ ~stopped /\ holder = "NONE"
  /\ holder' = "MANUAL"
  /\ UNCHANGED <<fence, stopped>>

GrantPermit ==
  /\ ~stopped /\ holder # "MANUAL"
  /\ holder' = "PERMIT"
  /\ fence' \in Nat /\ fence' > fence
  /\ UNCHANGED stopped

Withdraw ==
  /\ holder' = "NONE"
  /\ Advance
  /\ UNCHANGED stopped

Stop ==
  /\ stopped' = TRUE
  /\ holder' = "NONE"
  /\ Advance

Release ==
  /\ holder = "NONE" /\ holder' = "NONE"
  /\ stopped' = FALSE
  /\ Advance

\* A number may pass by; a permit in force keeps its own.
Skip ==
  /\ holder # "PERMIT"
  /\ Advance
  /\ UNCHANGED <<holder, stopped>>

Next == GrantManual \/ GrantPermit \/ Skip \/ Withdraw \/ Stop \/ Release

Spec == Init /\ [][Next]_vars

=============================================================================
