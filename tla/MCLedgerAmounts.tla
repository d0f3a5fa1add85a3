--------------------------- MODULE MCLedgerAmounts ---------------------------
(***************************************************************************)
(* PaymentLedger with two payments or three.  `focus', chosen initially,   *)
(* says what moves:                                                        *)
(*   amounts   three payments compete for two adjacent requested amounts;  *)
(*             one profile and no evidence                                 *)
(*   evidence  two payments on one payable amount and one notification;    *)
(*             profiles are switched                                       *)
(***************************************************************************)
EXTENDS MCPaymentLedger

CONSTANT FirstAmount   \* the payable amount of the focus "evidence"

VARIABLE focus
mcVars == <<vars, focus>>

AmountsOnly ==
  /\ activeProfile' \in {Null, Paytm}
  /\ evStatus' = evStatus

EvidenceOnly ==
  /\ \A p \in Payments : status'[p] # "none" => payable'[p] = FirstAmount
  /\ Cardinality({p \in Payments : status'[p] # "none"}) <= 2
  /\ clock' < MaxClock

MCSpec ==
  /\ Init /\ focus \in {"amounts", "evidence"}
  /\ [][ /\ Next
         /\ focus = "amounts" => AmountsOnly
         /\ focus = "evidence" => EvidenceOnly
         /\ UNCHANGED focus ]_mcVars
=============================================================================
