------------------------------ MODULE MoneyMC -------------------------------
(* The parts money passes through outside the tickets' inventory: the buyer's *)
(* checkout, the refund desk, the payout account.  They share no state: one   *)
(* run, in which every behaviour stays with one part.                         *)
EXTENDS CheckoutAttempt, CheckoutIntake, PaymentEvidence, RefundOperation,
        ConnectAccount, PayoutSetup, OperationalLog

\* What the create handler agrees on with Stripe, and what the webhook takes from it.
TermsPromise == IntakeInvariant /\ EvidenceInvariant

VARIABLE focus   \* the part a behaviour stays with

moneyVars == <<focus, checkoutVars, intakeVars, evidenceVars, refundVars,
               connectVars, setupVars, logVars>>

MoneyInit ==
    /\ focus \in {"checkout", "intake", "evidence", "refund", "account", "payouts",
                  "log"}
    /\ CheckoutInit
    /\ IntakeInit
    /\ EvidenceInit
    /\ RefundInit
    /\ ConnectInit
    /\ SetupInit
    /\ LogInit
    /\ focus # "evidence" => attached /\ order = CHOOSE o \in Orders : TRUE
    /\ focus # "account" => stripe = CHOOSE x \in Moods : TRUE
    /\ focus # "payouts" => setup = "pending"

MoneyNext ==
    /\ UNCHANGED focus
    /\ \/ focus = "checkout" /\ CheckoutAttemptNext
          /\ UNCHANGED <<intakeVars, evidenceVars, refundVars, connectVars,
                         setupVars, logVars>>
       \/ focus = "intake" /\ CheckoutIntakeNext
          /\ UNCHANGED <<checkoutVars, evidenceVars, refundVars, connectVars,
                         setupVars, logVars>>
       \/ focus = "evidence" /\ PaymentEvidenceNext
          /\ UNCHANGED <<checkoutVars, intakeVars, refundVars, connectVars,
                         setupVars, logVars>>
       \/ focus = "refund" /\ RefundOperationNext
          /\ UNCHANGED <<checkoutVars, intakeVars, evidenceVars, connectVars,
                         setupVars, logVars>>
       \/ focus = "account" /\ ConnectAccountNext
          /\ UNCHANGED <<checkoutVars, intakeVars, evidenceVars, refundVars,
                         setupVars, logVars>>
       \/ focus = "payouts" /\ PayoutSetupNext
          /\ UNCHANGED <<checkoutVars, intakeVars, evidenceVars, refundVars,
                         connectVars, logVars>>
       \/ focus = "log" /\ OperationalLogNext
          /\ UNCHANGED <<checkoutVars, intakeVars, evidenceVars, refundVars,
                         connectVars, setupVars>>

MoneySpec == MoneyInit /\ [][MoneyNext]_moneyVars

=============================================================================
