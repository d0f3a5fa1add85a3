--------------------------- MODULE AmountRegister ---------------------------
(***************************************************************************)
(* What the payment ledger promises about payable amounts, without time,   *)
(* evidence or an audit trail: an amount has at most one owner, a payment  *)
(* is born pending as the owner of exactly one amount, amounts are given   *)
(* back only when a new payment is created, and a settled payment becomes  *)
(* pending again only while it still owns its amount.                      *)
(***************************************************************************)
CONSTANTS Payments, Amounts, Statuses, Null

VARIABLES
  owner,  \* the payment that owns each amount, or Null
  phase   \* the status of each payment, "none" before it exists

Owns(p) == \E x \in Amounts : owner[x] = p

Init ==
  /\ owner = [x \in Amounts |-> Null]
  /\ phase = [p \in Payments |-> "none"]

\* p is created as the owner of x; the amounts in freed lose their owners first.
Create(p, x, freed) ==
  /\ phase[p] = "none"
  /\ owner[x] = Null \/ x \in freed
  /\ phase' = [phase EXCEPT ![p] = "pending"]
  /\ owner' = [y \in Amounts |-> IF y = x THEN p
                                 ELSE IF y \in freed THEN Null ELSE owner[y]]

\* The payments in S get new statuses.
Move(S, next) ==
  /\ \A p \in S : /\ phase[p] # "none"
                  /\ phase[p] # "pending" /\ next[p] = "pending" => Owns(p)
  /\ phase' = [p \in Payments |-> IF p \in S THEN next[p] ELSE phase[p]]
  /\ UNCHANGED owner

Next ==
  \/ \E p \in Payments, x \in Amounts, freed \in SUBSET Amounts : Create(p, x, freed)
  \/ \E S \in SUBSET Payments : \E next \in [S -> Statuses] : Move(S, next)

Spec == Init /\ [][Next]_<<owner, phase>>
=============================================================================
