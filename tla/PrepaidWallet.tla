--------------------------- MODULE PrepaidWallet ---------------------------
(***************************************************************************)
(* What the lab wallet promises: each payment puts its tokens in once, and *)
(* usage takes out what is there. How transactions, locks and retries get  *)
(* there is not this module's concern.                                     *)
(***************************************************************************)
EXTENDS Naturals

CONSTANTS
  Payments,        \* payment ids of the gateway
  Tokens,          \* tokens a payment buys
  InitialTokens    \* tokens in the wallet at first

VARIABLES
  paid,      \* payments whose tokens are in the wallet
  bought,    \* tokens ever put in
  used       \* tokens ever taken out

Init ==
  /\ paid = {}
  /\ bought = InitialTokens
  /\ used = 0

Deliver(p) ==
  /\ p \notin paid
  /\ paid' = paid \cup {p}
  /\ bought' = bought + Tokens
  /\ UNCHANGED used

Use ==
  /\ used' \in (used + 1) .. bought
  /\ UNCHANGED <<paid, bought>>

Next == Use \/ \E p \in Payments : Deliver(p)

Spec == Init /\ [][Next]_<<paid, bought, used>>
=============================================================================
