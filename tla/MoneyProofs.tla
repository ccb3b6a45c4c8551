----------------------------- MODULE MoneyProofs -----------------------------
(***************************************************************************)
(* The refund desk is right whatever panels, calls, deliveries and deaths  *)
(* do to one another: Stripe is asked once, what is recorded of the refund *)
(* is true, and a refund that succeeded can be found from the page.  The   *)
(* payout account's row follows Stripe through overtaking readings, and the *)
(* page that sets it up loads one script and spends each secret once.      *)
(***************************************************************************)
EXTENDS RefundOperation, ConnectAccount, PayoutSetup, CheckoutAttempt, TLAPS

-----------------------------------------------------------------------------
(* The refund desk *)

Notes == {"unknown", "processing", "failed", "review"}
CallStages == {"idle", "submit", "create", "evidence", "enrich", "reconcile", "observe",
               "recover", "note"}

\* Every row in its columns' domains, every handler in a known stage.
RefundTypeOK ==
    /\ operation \in {None} \cup Operations
    /\ status \in {"paid", "requires_review", "refunded"}
    /\ entry \in {None} \cup Entries
    /\ refund \in {None} \cup Refunds
    /\ asked \in Nat /\ events \in Nat
    /\ calls \in [Panels -> [pc : CallStages, note : Notes \cup {"none"}]]
    /\ hooks \in [Hooks -> [pc : {"idle", "apply"},
                            status : {"none", "pending", "succeeded", "failed"},
                            enriched : BOOLEAN, reversal : BOOLEAN]]

\* The claim is Stripe's only request: before it there is nothing, and until it
\* is made one panel has it to make.
OneRequest ==
    /\ operation = None => asked = 0
    /\ asked = 0 => refund = None
    /\ asked <= 1
    /\ \A p \in Panels : calls[p].pc = "create" =>
          /\ operation # None /\ asked = 0
          /\ \A q \in Panels : calls[q].pc = "create" => q = p

\* What a handler carries to a record is true of the refund by now, for what
\* appears of a refund stays, and a failed one never moves again.
CallsAreTrue ==
    \A p \in Panels :
        /\ calls[p].pc \in {"evidence", "enrich", "recover"} => refund # None
        /\ calls[p].pc = "enrich" => refund.reversal /\ refund.fee
        /\ calls[p].pc = "note" => calls[p].note \in Notes
        /\ calls[p].note = "failed" => Shown("failed")

HooksAreTrue ==
    \A h \in Hooks : hooks[h].pc = "apply" =>
        /\ refund # None /\ hooks[h].status # "none"
        /\ hooks[h].enriched => refund.enriched
        /\ hooks[h].reversal => refund.reversal
        /\ hooks[h].status = "succeeded" => refund.sent
        /\ hooks[h].status = "failed" => refund.status = "failed"

\* The refund itself: money that went out is not unsent, and evidence is
\* attached when it was whole.
RefundIsTrue ==
    refund # None => (refund.status = "succeeded" => refund.sent)

\* What is recorded: an entry, the order and the operation say no more than
\* Stripe did.
RecordsAreTrue ==
    /\ entry # None =>
          /\ refund # None
          /\ entry.verified => refund.enriched /\ refund.reversal /\ refund.fee
          /\ entry.status = "succeeded" => refund.sent
          /\ entry.status = "failed" => refund.status = "failed"
    /\ status = "refunded" =>
          refund # None /\ refund.sent /\ refund.reversal /\ refund.fee /\ refund.enriched
    /\ status = "requires_review" => EntryIn({"succeeded"}) /\ ~entry.verified
    /\ OpIn({"completed"}) => status = "refunded"
    /\ OpIn({"failed"}) => Shown("failed")

RefundKept ==
    /\ RefundTypeOK /\ OneRequest /\ CallsAreTrue /\ HooksAreTrue
    /\ RefundIsTrue /\ RecordsAreTrue

-----------------------------------------------------------------------------

LEMMA InitRefundKept == RefundInit => RefundKept
  BY RefundAssumption
     DEF RefundInit, RefundKept, RefundTypeOK, OneRequest, CallsAreTrue, HooksAreTrue,
         RefundIsTrue, RecordsAreTrue, NoCall, NoHook, CallStages, OpIn

\* What Stripe shows of a refund only grows, and failure is final: everything
\* recorded or carried stays true.
RefundGrows ==
    /\ refund' \in Refunds
    /\ refund # None =>
          /\ refund.enriched => refund'.enriched
          /\ refund.reversal => refund'.reversal
          /\ refund.fee => refund'.fee
          /\ refund.sent => refund'.sent
          /\ refund.status = "failed" => refund'.status = "failed"
    /\ refund'.status = "succeeded" => refund'.sent

LEMMA GrowthKeepsTruth ==
  ASSUME RefundKept, RefundGrows, UNCHANGED <<operation, status, entry, hooks>>
  PROVE  HooksAreTrue' /\ RefundIsTrue' /\ RecordsAreTrue'
<1> USE RefundAssumption DEF RefundKept, RefundTypeOK, RefundGrows
<1>1. refund' # None
  OBVIOUS
<1>2. HooksAreTrue'
  BY <1>1 DEF HooksAreTrue
<1>3. RefundIsTrue'
  BY DEF RefundIsTrue
<1>4. RecordsAreTrue'
  BY <1>1 DEF RecordsAreTrue, EntryIn, OpIn, Shown
<1>5. QED
  BY <1>2, <1>3, <1>4

\* Claiming, where nothing was claimed before.
LEMMA ClaimKeeps ==
  ASSUME RefundKept, NEW p \in Panels, ClaimRefund(p)
  PROVE  RefundKept'
<1> USE RefundAssumption DEF RefundKept, OpIn, EntryIn
<1>1. CASE OrderRefundState # "eligible"
  BY SMTT(30), <1>1 DEF RefundTypeOK, OneRequest, CallsAreTrue, HooksAreTrue, RefundIsTrue, RecordsAreTrue,
     ClaimRefund, Over, NoCall, CallStages, Notes, Shown
<1>2. CASE OrderRefundState = "eligible"
  <2>1. operation = None
    BY <1>2 DEF OrderRefundState, RefundTypeOK, Operations
  <2>2. /\ operation' = [state |-> "submitting", recent |-> TRUE]
        /\ calls' = [calls EXCEPT ![p].pc = "create"]
        /\ UNCHANGED <<status, entry, refund, asked, hooks, events>>
    BY <1>2 DEF ClaimRefund, Go
  <2>3. operation' \in Operations /\ operation'.state = "submitting"
    BY <2>2 DEF Operations
  <2>. operation' # None
    BY <2>3
  <2>4. RefundTypeOK'
    BY SMTT(30), <2>2, <2>3 DEF RefundTypeOK, CallStages
  <2>5. OneRequest'
    BY <2>1, <2>2, <2>3 DEF OneRequest, RefundTypeOK
  <2>6. CallsAreTrue'
    BY <2>2 DEF CallsAreTrue, RefundTypeOK, Shown
  <2>7. HooksAreTrue' /\ RefundIsTrue'
    BY <2>2 DEF HooksAreTrue, RefundIsTrue
  <2>8. RecordsAreTrue'
    BY <2>2, <2>3 DEF RecordsAreTrue, Shown
  <2>9. QED
    BY <2>4, <2>5, <2>6, <2>7, <2>8
<1>3. QED
  BY <1>1, <1>2

\* The one request.
LEMMA CreateKeeps ==
  ASSUME RefundKept, NEW p \in Panels, CreateRefund(p)
  PROVE  RefundKept'
<1> USE RefundAssumption DEF RefundKept
<1>1. /\ calls[p].pc = "create" /\ asked = 0 /\ refund = None /\ operation # None
      /\ \A q \in Panels : calls[q].pc = "create" => q = p
  BY DEF CreateRefund, OneRequest
<1>2. PICK s \in {"pending", "succeeded"} : refund' = NewRefund(s)
  BY <1>1 DEF CreateRefund
<1>. refund' \in Refunds /\ (refund'.status = "succeeded" => refund'.sent)
  <2>1. (s = "succeeded") \in BOOLEAN
    OBVIOUS
  <2>2. QED
    BY <1>2, <2>1 DEF NewRefund, Refunds
<1>. RefundGrows /\ refund' # None
  BY <1>1, <1>2 DEF RefundGrows
<1>3. /\ asked' = 1 /\ UNCHANGED <<operation, status, entry, hooks>> /\ events' \in Nat
      /\ \/ calls' = [calls EXCEPT ![p].pc = "evidence"]
         \/ calls' = [calls EXCEPT ![p] = [pc |-> "note", note |-> "unknown"]]
  BY <1>1 DEF CreateRefund, Wake, Go, Say, RefundTypeOK
<1>4. RefundTypeOK'
  BY <1>2, <1>3 DEF RefundTypeOK, RefundGrows, CallStages, Notes
<1>5. OneRequest'
  BY <1>1, <1>2, <1>3 DEF OneRequest, RefundTypeOK
<1>6. CallsAreTrue'
  BY <1>1, <1>2, <1>3 DEF CallsAreTrue, RefundTypeOK, Notes, Shown
<1>7. QED
  BY <1>2, <1>3, <1>4, <1>5, <1>6, GrowthKeepsTruth

\* The evidence put into the metadata, what Stripe does by itself.
LEMMA EnrichKeeps ==
  ASSUME RefundKept, NEW p \in Panels, Enrich(p)
  PROVE  RefundKept'
<1> USE RefundAssumption DEF RefundKept
<1>1. calls[p].pc = "enrich" /\ refund # None /\ refund \in Refunds /\ asked # 0
  BY DEF Enrich, CallsAreTrue, RefundTypeOK, OneRequest
<1>2. refund' = [refund EXCEPT !.enriched = TRUE]
  BY DEF Enrich
<1>3. RefundGrows /\ refund' # None /\ (Shown("failed") => Shown("failed")')
      /\ refund'.reversal = refund.reversal /\ refund'.fee = refund.fee
  BY <1>1, <1>2 DEF Refunds, RefundGrows, RefundIsTrue, Shown
<1>4. /\ UNCHANGED <<operation, status, entry, asked, hooks>> /\ events' \in Nat
      /\ \E n \in {"processing", "unknown"} :
            calls' = [calls EXCEPT ![p] = [pc |-> "note", note |-> n]]
  BY DEF Enrich, Wake, Say, RefundTypeOK
<1>5. RefundTypeOK'
  BY <1>3, <1>4 DEF RefundTypeOK, RefundGrows, CallStages, Notes
<1>6. OneRequest'
  BY <1>1, <1>3, <1>4 DEF OneRequest, RefundTypeOK
<1>7. CallsAreTrue'
  BY <1>3, <1>4 DEF CallsAreTrue, RefundTypeOK, Notes
<1>8. QED
  BY <1>3, <1>4, <1>5, <1>6, <1>7, GrowthKeepsTruth

LEMMA StripeKeeps ==
  ASSUME RefundKept, RefundMoves \/ EvidenceAppears
  PROVE  RefundKept'
<1> USE RefundAssumption DEF RefundKept
<1>1. refund # None /\ refund \in Refunds /\ asked # 0
  BY DEF RefundMoves, EvidenceAppears, RefundTypeOK, OneRequest
<1>2. \/ refund.status = "pending" /\ refund' = [refund EXCEPT !.status = "succeeded", !.sent = TRUE]
      \/ refund' = [refund EXCEPT !.status = "failed"]
      \/ refund' = [refund EXCEPT !.reversal = TRUE]
      \/ refund' = [refund EXCEPT !.fee = TRUE]
  BY DEF RefundMoves, EvidenceAppears
<1>. RefundGrows /\ refund \in Refunds
  BY <1>1, <1>2 DEF Refunds, RefundGrows, RefundIsTrue
<1>3. refund' # None /\ (Shown("failed") => Shown("failed")')
      /\ (refund.reversal => refund'.reversal) /\ (refund.fee => refund'.fee)
  BY <1>1 DEF RefundGrows, Shown
<1>4. UNCHANGED <<operation, status, entry, asked, calls, hooks>> /\ events' \in Nat
  BY DEF RefundMoves, EvidenceAppears, Wake, RefundTypeOK
<1>5. RefundTypeOK'
  BY <1>3, <1>4 DEF RefundTypeOK, RefundGrows
<1>6. OneRequest'
  BY <1>1, <1>3, <1>4 DEF OneRequest, RefundTypeOK
<1>7. CallsAreTrue'
  BY <1>1, <1>3, <1>4 DEF CallsAreTrue, RefundTypeOK
<1>8. QED
  BY <1>3, <1>4, <1>5, <1>6, <1>7, GrowthKeepsTruth

\* The webhook's transaction records what its handler read, verified or not.
LEMMA ApplyKeeps ==
  ASSUME RefundKept, NEW h \in Hooks, ApplyRefund(h)
  PROVE  RefundKept'
<1> USE RefundAssumption DEF RefundKept
<1> DEFINE s == Snapshot(h)
<1> DEFINE e == NewEntry(s)
<1>1. /\ hooks[h].pc = "apply" /\ refund # None /\ refund \in Refunds
      /\ s \in Entries
      /\ s.verified => refund.enriched /\ refund.reversal /\ refund.fee
      /\ s.status = "succeeded" => refund.sent
      /\ s.status = "failed" => refund.status = "failed"
  BY DEF ApplyRefund, HooksAreTrue, Snapshot, PolicyVerified, Entries, Refunds, RefundTypeOK
<1>2. /\ e \in Entries /\ e # None
      /\ e.verified => refund.enriched /\ refund.reversal /\ refund.fee
      /\ e.status = "succeeded" => refund.sent
      /\ e.status = "failed" => refund.status = "failed"
      /\ EntryIn({"succeeded"}) => e.status = "succeeded"
  <2> HIDE DEF s
  <2>1. CASE entry = None
    BY <1>1, <2>1 DEF NewEntry, EntryIn
  <2>2. CASE entry # None
    BY <1>1, <2>2 DEF NewEntry, EntryIn, RecordsAreTrue, Entries, RefundTypeOK
  <2>3. QED
    BY <2>1, <2>2
<1>3. UNCHANGED <<refund, asked, calls, events>> /\ hooks' = [hooks EXCEPT ![h] = NoHook]
  BY DEF ApplyRefund
<1>4. CASE UNCHANGED <<entry, status, operation>>
  BY <1>3, <1>4 DEF RefundTypeOK, OneRequest, CallsAreTrue, HooksAreTrue, RefundIsTrue,
     RecordsAreTrue, NoHook, Shown, EntryIn, OpIn
<1>5. ASSUME entry' = e,
             status' = IF status = "refunded" \/ e.status # "succeeded" THEN status
                       ELSE IF e.verified THEN "refunded" ELSE "requires_review",
             operation' = IF status' = "refunded" /\ operation # None
                          THEN [operation EXCEPT !.state = "completed"] ELSE operation
      PROVE  RefundKept'
  <2> HIDE DEF s, e
  <2>1. /\ operation' \in {None} \cup Operations
        /\ operation = None <=> operation' = None
        /\ operation' # None => operation'.state \in {operation.state, "completed"}
        /\ OpIn({"completed"})' => status' = "refunded"
    BY <1>5 DEF RefundTypeOK, Operations, OpIn, RecordsAreTrue
  <2>2. RefundTypeOK'
    BY <1>2, <1>3, <1>5, <2>1 DEF RefundTypeOK, NoHook
  <2>3. OneRequest' /\ CallsAreTrue' /\ HooksAreTrue' /\ RefundIsTrue'
    BY <1>3, <2>1 DEF OneRequest, CallsAreTrue, HooksAreTrue, RefundIsTrue, NoHook, Shown,
       RefundTypeOK
  <2>4. status' = "refunded" =>
          refund.sent /\ refund.reversal /\ refund.fee /\ refund.enriched
    BY <1>2, <1>5 DEF RecordsAreTrue
  <2>5. status' = "requires_review" => EntryIn({"succeeded"})' /\ ~entry'.verified
    BY <1>2, <1>5 DEF RecordsAreTrue, EntryIn
  <2>6. OpIn({"failed"})' => Shown("failed")'
    BY <1>3, <2>1 DEF RecordsAreTrue, OpIn, Shown
  <2>7. RecordsAreTrue'
    BY <1>1, <1>2, <1>3, <1>5, <2>1, <2>4, <2>5, <2>6 DEF RecordsAreTrue
  <2>8. QED
    BY <2>2, <2>3, <2>7
<1>6. QED
  BY <1>4, <1>5 DEF ApplyRefund

\* The operation alone is written, its row stays a row, and a state it reaches
\* says no more than before.
LEMMA OperationMoves ==
  ASSUME RefundKept, UNCHANGED <<status, entry, refund, asked, hooks, events>>,
         operation' = operation \/ (operation # None /\ operation' \in Operations),
         OpIn({"completed"})' => status = "refunded",
         OpIn({"failed"})' => Shown("failed")',
         \/ UNCHANGED calls
         \/ \E p \in Panels : calls' = [calls EXCEPT ![p] = NoCall]
  PROVE  RefundKept'
<1> USE RefundAssumption DEF RefundKept
<1>1. operation' = None <=> operation = None
  OBVIOUS
<1>2. RefundTypeOK'
  BY DEF RefundTypeOK, NoCall, CallStages
<1>3. OneRequest'
  BY <1>1 DEF OneRequest, RefundTypeOK, NoCall
<1>4. CallsAreTrue'
  BY DEF CallsAreTrue, RefundTypeOK, NoCall, Shown, Notes
<1>5. HooksAreTrue' /\ RefundIsTrue'
  BY DEF HooksAreTrue, RefundIsTrue
<1>6. RecordsAreTrue'
  BY DEF RecordsAreTrue, EntryIn, Shown
<1>7. QED
  BY <1>2, <1>3, <1>4, <1>5, <1>6

\* A handler moves on, and nothing is written.
LEMMA HandlerMoves ==
  ASSUME RefundKept, NEW p \in Panels,
         \/ Press(p) \/ Failed(p) \/ GatherEvidence(p) \/ ObserveRefund(p)
         \/ RecoverEvidence(p) \/ CallDies(p)
  PROVE  RefundKept'
<1> USE RefundAssumption
    DEF RefundKept, Press, Failed, GatherEvidence, ObserveRefund, RecoverEvidence, CallDies, Go,
        Say, Over
<1>1. UNCHANGED <<operation, status, entry, refund, asked, hooks, events>>
  OBVIOUS
<1>2. RefundTypeOK'
  BY <1>1 DEF RefundTypeOK, NoCall, CallStages, Notes
<1>3. OneRequest'
  BY <1>1 DEF OneRequest, RefundTypeOK, NoCall
<1>4. CallsAreTrue'
  BY <1>1 DEF CallsAreTrue, RefundTypeOK, NoCall, Notes, Shown
<1>5. HooksAreTrue' /\ RefundIsTrue' /\ RecordsAreTrue'
  BY <1>1 DEF HooksAreTrue, RefundIsTrue, RecordsAreTrue, EntryIn, OpIn, Shown
<1>6. QED
  BY <1>2, <1>3, <1>4, <1>5

\* A delivery is handled or comes again: it carries what Stripe shows now.
LEMMA DeliveryKeeps ==
  ASSUME RefundKept, NEW h \in Hooks, ReadRefund(h) \/ Redeliver(h)
  PROVE  RefundKept'
<1> USE RefundAssumption DEF RefundKept, ReadRefund, Redeliver
<1>1. UNCHANGED <<operation, status, entry, refund, asked, calls>>
  OBVIOUS
<1>2. RefundTypeOK'
  <2>1. CASE ReadRefund(h)
    <3>1. refund \in Refunds /\ events' \in Nat
      BY <2>1 DEF RefundTypeOK
    <3> DEFINE read == [pc |-> "apply", status |-> refund.status, enriched |-> refund.enriched,
                        reversal |-> refund.reversal]
    <3>2. read \in [pc : {"idle", "apply"}, status : {"none", "pending", "succeeded", "failed"},
                    enriched : BOOLEAN, reversal : BOOLEAN]
      BY <3>1 DEF Refunds
    <3>3. hooks' = [hooks EXCEPT ![h] = read]
      BY <2>1
    <3> HIDE DEF read
    <3>4. QED
      BY <1>1, <3>1, <3>2, <3>3 DEF RefundTypeOK
  <2>2. CASE Redeliver(h)
    BY <1>1, <2>2 DEF RefundTypeOK, NoHook, Wake
  <2>3. QED
    BY <2>1, <2>2
<1>3. HooksAreTrue'
  BY <1>1 DEF HooksAreTrue, RefundTypeOK, RefundIsTrue, NoHook, Refunds
<1>4. OneRequest' /\ CallsAreTrue' /\ RefundIsTrue' /\ RecordsAreTrue'
  BY <1>1 DEF OneRequest, CallsAreTrue, RefundIsTrue, RecordsAreTrue, EntryIn, OpIn, Shown
<1>5. QED
  BY <1>2, <1>3, <1>4

LEMMA NextRefundKept == RefundKept /\ [RefundOperationNext]_refundVars => RefundKept'
<1> SUFFICES ASSUME RefundKept, [RefundOperationNext]_refundVars PROVE RefundKept'
  OBVIOUS
<1>1. ASSUME NEW p \in Panels, NoteObservation(p) PROVE RefundKept'
  <2> USE <1>1 DEF NoteObservation
  <2>1. calls[p].note \in Notes /\ (calls[p].note = "failed" => Shown("failed"))
        /\ operation \in {None} \cup Operations
    BY DEF RefundKept, CallsAreTrue, RefundTypeOK
  <2>2. CASE operation' = operation
    <3>1. (OpIn({"completed"})' => status = "refunded") /\ (OpIn({"failed"})' => Shown("failed")')
      BY <2>2 DEF RefundKept, RecordsAreTrue, OpIn, Shown
    <3>2. UNCHANGED <<status, entry, refund, asked, hooks, events>>
          /\ calls' = [calls EXCEPT ![p] = NoCall]
      BY DEF Over
    <3>3. QED
      BY <2>2, <3>1, <3>2, OperationMoves
  <2>3. CASE operation # None /\ operation' = [operation EXCEPT !.state = calls[p].note]
    <3>1. operation' \in Operations /\ operation'.state = calls[p].note
      BY <2>1, <2>3 DEF Operations, Notes
    <3>2. OpIn({"failed"})' => Shown("failed")'
      BY <2>1, <3>1 DEF OpIn, Shown
    <3>3. ~OpIn({"completed"})'
      BY <2>1, <3>1 DEF OpIn, Notes
    <3>4. QED
      BY <2>3, <3>1, <3>2, <3>3, OperationMoves DEF Over
  <2>4. QED
    BY <2>1, <2>2, <2>3 DEF OpIn
<1>2. CASE FiveMinutes
  <2> USE <1>2 DEF FiveMinutes
  <2>1. operation \in Operations
    BY DEF RefundKept, RefundTypeOK
  <2>2. operation' \in Operations /\ operation'.state = operation.state
    BY <2>1 DEF Operations
  <2>3. (OpIn({"completed"})' => status = "refunded") /\ (OpIn({"failed"})' => Shown("failed"))
    BY <2>2 DEF RefundKept, RecordsAreTrue, OpIn
  <2>4. QED
    BY <2>2, <2>3, OperationMoves DEF Shown
<1>3. CASE UNCHANGED refundVars
  BY <1>3 DEF refundVars, RefundKept, RefundTypeOK, OneRequest, CallsAreTrue, HooksAreTrue,
     RefundIsTrue, RecordsAreTrue, OpIn, EntryIn, Shown
<1>4. QED
  BY <1>1, <1>2, <1>3, HandlerMoves, DeliveryKeeps, ClaimKeeps, CreateKeeps, EnrichKeeps,
     ApplyKeeps, StripeKeeps DEF RefundOperationNext

LEMMA RefundKeptSuffices == RefundKept => RefundInvariant
<1> SUFFICES ASSUME RefundKept PROVE RefundInvariant
  OBVIOUS
<1> USE RefundAssumption DEF RefundKept, OpIn, EntryIn, RefundTypeOK, OneRequest, RecordsAreTrue, Shown
<1>1. AskedOnce
  BY DEF AskedOnce
<1>2. FinalIsTrue
  BY DEF FinalIsTrue, OrderRefundState, Operations
<1>3. NeverStuck
  BY DEF NeverStuck, OrderRefundState, CanRecover, PolicyReview, Checkable, Operations, Entries
<1>4. QED
  BY <1>1, <1>2, <1>3 DEF RefundInvariant

THEOREM RefundIsKept == RefundOperationSpec => []RefundInvariant
<1>1. RefundInit => RefundKept
  BY InitRefundKept
<1>2. RefundKept /\ [RefundOperationNext]_refundVars => RefundKept'
  BY NextRefundKept
<1>3. RefundKept => RefundInvariant
  BY RefundKeptSuffices
<1>4. QED
  BY <1>1, <1>2, <1>3, PTL DEF RefundOperationSpec

-----------------------------------------------------------------------------
(* The payments page *)

Stages   == Alive \cup {"none", "gone"}
MountSet == [stage : Stages, session : Nat]
Scripts  == [tags : Nat, pending : BOOLEAN, waiters : SUBSET Mounts, ready : BOOLEAN]

\* The tag is there exactly while the script is loading or loaded.
OneTag ==
    /\ script \in Scripts
    /\ script.tags = IF script.pending \/ script.ready THEN 1 ELSE 0
    /\ ~(script.pending /\ script.ready)

\* Whoever waits for the script is listed with it.
WaitersListed ==
    \A n \in Mounts : mounts[n].stage = "script" => n \in script.waiters /\ script.pending

\* A session's secret was spent when its instance was made.
SecretsKept ==
    /\ spent \in [1 .. MaxSessions -> Nat]
    /\ \A s \in 1 .. MaxSessions : spent[s] = IF s \in instances THEN 1 ELSE 0

SetupKept ==
    /\ mounts \in [Mounts -> MountSet] /\ drawnSessions \in Nat
    /\ OneTag /\ WaitersListed /\ SecretsKept

LEMMA InitSetupKept == SetupInit => SetupKept
  BY DEF SetupInit, SetupKept, OneTag, WaitersListed, SecretsKept, Scripts, MountSet, Stages,
         NoMount

\* One attempt is moved on.
LEMMA OneMountMoves ==
  ASSUME mounts \in [Mounts -> MountSet], NEW n \in Mounts, NEW stage \in Stages,
         mounts' = [mounts EXCEPT ![n].stage = stage]
  PROVE  /\ mounts' \in [Mounts -> MountSet]
         /\ mounts'[n].stage = stage
         /\ \A m \in Mounts \ {n} : mounts'[m] = mounts[m]
<1>1. mounts[n] \in MountSet
  OBVIOUS
<1>2. [mounts[n] EXCEPT !.stage = stage] \in MountSet
  BY <1>1 DEF MountSet
<1>3. QED
  BY <1>1, <1>2 DEF MountSet

\* An attempt begins.
LEMMA OneMountBegins ==
  ASSUME mounts \in [Mounts -> MountSet], NEW n \in Mounts, NEW session \in Nat,
         mounts' = [mounts EXCEPT ![n] = [stage |-> "load", session |-> session]]
  PROVE  /\ mounts' \in [Mounts -> MountSet]
         /\ mounts'[n].stage = "load"
         /\ \A m \in Mounts \ {n} : mounts'[m] = mounts[m]
<1>1. [stage |-> "load", session |-> session] \in MountSet
  BY DEF MountSet, Stages, Alive
<1>2. QED
  BY <1>1

\* The page's own steps touch no script: attempts are begun or given up.
LEMMA PageKeepsSetup ==
  ASSUME SetupKept,
         OpenPage \/ LeavePage \/ Refresh \/ StatusRead \/ OpenPanel \/ SessionOpened \/ SetupMoves
  PROVE  SetupKept'
<1>1. UNCHANGED <<script, instances, spent>>
  BY DEF OpenPage, LeavePage, Refresh, StatusRead, OpenPanel, SessionOpened, SetupMoves
<1>2. /\ mounts' \in [Mounts -> MountSet] /\ drawnSessions' \in Nat
      /\ \A n \in Mounts : mounts'[n].stage = "script" => mounts[n].stage = "script"
  <2>1. CASE UNCHANGED <<mounts, drawnSessions>>
    BY <2>1 DEF SetupKept
  <2>2. CASE LeavePage \/ Refresh
    <3>1. /\ mounts' = [n \in Mounts |-> IF mounts[n].stage \in Alive
                                        THEN [mounts[n] EXCEPT !.stage = "gone"] ELSE mounts[n]]
          /\ UNCHANGED drawnSessions
      BY <2>2 DEF LeavePage, Refresh
    <3>2. ASSUME NEW n \in Mounts
          PROVE  mounts'[n] \in MountSet /\ (mounts'[n].stage = "script" => mounts[n].stage = "script")
      <4>1. mounts[n] \in MountSet
        BY DEF SetupKept
      <4>2. mounts'[n] \in {mounts[n], [mounts[n] EXCEPT !.stage = "gone"]}
        BY <3>1
      <4>3. QED
        BY <4>1, <4>2 DEF MountSet, Stages
    <3>3. QED
      BY <3>1, <3>2 DEF SetupKept
  <2>3. ASSUME NEW n \in FirstFree, drawnSessions' = drawnSessions + 1,
               mounts' = [mounts EXCEPT ![n] = [stage |-> "load", session |-> drawnSessions + 1]]
        PROVE  /\ mounts' \in [Mounts -> MountSet] /\ drawnSessions' \in Nat
               /\ \A m \in Mounts : mounts'[m].stage = "script" => mounts[m].stage = "script"
    <3>1. n \in Mounts /\ drawnSessions + 1 \in Nat /\ mounts \in [Mounts -> MountSet]
      BY DEF SetupKept, FirstFree
    <3>2. /\ mounts' \in [Mounts -> MountSet] /\ mounts'[n].stage = "load"
          /\ \A m \in Mounts \ {n} : mounts'[m] = mounts[m]
      BY <2>3, <3>1, OneMountBegins
    <3>3. QED
      BY <2>3, <3>1, <3>2
  <2>4. QED
    BY <2>1, <2>2, <2>3 DEF OpenPage, StatusRead, OpenPanel, SessionOpened, SetupMoves
<1>3. QED
  BY <1>1, <1>2 DEF SetupKept, OneTag, WaitersListed, SecretsKept

\* The loader: the tag comes with the first who waits and goes with a failure.
LEMMA LoadKeepsSetup ==
  ASSUME SetupKept, NEW n \in Mounts, LoadPayouts(n)
  PROVE  SetupKept'
<1> USE DEF SetupKept
<1>1. mounts[n].stage = "load" /\ UNCHANGED <<drawnSessions, instances, spent>>
  BY DEF LoadPayouts
<1>2. CASE script.ready
  <2>1. mounts' = [mounts EXCEPT ![n].stage = "code"] /\ UNCHANGED script
    BY <1>2 DEF LoadPayouts
  <2>2. "code" \in Stages
    BY DEF Stages, Alive
  <2>3. QED
    BY <1>1, <2>1, <2>2, OneMountMoves DEF OneTag, WaitersListed, SecretsKept
<1>3. CASE ~script.ready
  <2>1. /\ mounts' = [mounts EXCEPT ![n].stage = "script"]
        /\ script' = [script EXCEPT !.waiters = @ \cup {n}, !.pending = TRUE,
                         !.tags = IF script.pending THEN @ ELSE @ + 1]
    BY <1>3 DEF LoadPayouts
  <2>2. "script" \in Stages
    BY DEF Stages, Alive
  <2>3. /\ script' \in Scripts /\ script'.pending /\ ~script'.ready
        /\ script'.waiters = script.waiters \cup {n} /\ script'.tags = 1
    <3>1. script \in Scripts /\ (IF script.pending THEN script.tags ELSE script.tags + 1) = 1
      BY <1>3 DEF OneTag, Scripts
    <3>2. script' = [tags |-> 1, pending |-> TRUE, waiters |-> script.waiters \cup {n},
                     ready |-> script.ready]
      BY <2>1, <3>1 DEF Scripts
    <3>3. QED
      BY <1>3, <3>1, <3>2 DEF Scripts
  <2>4. QED
    BY <1>1, <2>1, <2>2, <2>3, OneMountMoves DEF OneTag, WaitersListed, SecretsKept
<1>4. QED
  BY <1>2, <1>3

LEMMA ScriptKeepsSetup ==
  ASSUME SetupKept, ScriptLoads \/ ScriptFails
  PROVE  SetupKept'
<1> USE DEF SetupKept
<1>1. PICK outcome \in {"code", "failed"} : SettleSetup(outcome)
  BY DEF ScriptLoads, ScriptFails
<1>2. ASSUME NEW n \in Mounts PROVE mounts'[n] \in MountSet /\ mounts'[n].stage # "script"
  <2>1. mounts[n] \in MountSet /\ (mounts[n].stage = "script" => n \in script.waiters)
    BY DEF WaitersListed
  <2>2. mounts'[n] = IF n \in script.waiters /\ mounts[n].stage = "script"
                     THEN [mounts[n] EXCEPT !.stage = outcome] ELSE mounts[n]
    BY <1>1 DEF SettleSetup
  <2>3. [mounts[n] EXCEPT !.stage = outcome] \in MountSet
        /\ [mounts[n] EXCEPT !.stage = outcome].stage = outcome
    BY <2>1 DEF MountSet, Stages, Alive
  <2>4. QED
    BY <2>1, <2>2, <2>3
<1>3. mounts' \in [Mounts -> MountSet] /\ WaitersListed'
  BY <1>1, <1>2 DEF SettleSetup, WaitersListed
<1>4. OneTag'
  <2>1. script \in Scripts /\ script.pending /\ ~script.ready /\ script.tags = 1
    BY DEF ScriptLoads, ScriptFails, OneTag
  <2>2. CASE script' = [script EXCEPT !.pending = FALSE, !.waiters = {}, !.ready = TRUE]
    BY <2>1, <2>2 DEF OneTag, Scripts
  <2>3. CASE script' = [script EXCEPT !.pending = FALSE, !.waiters = {}, !.tags = @ - 1]
    <3>1. script.tags - 1 = 0
      BY <2>1
    <3>2. script' = [tags |-> 0, pending |-> FALSE, waiters |-> {}, ready |-> FALSE]
      BY <2>1, <2>3, <3>1 DEF Scripts
    <3>3. QED
      BY <3>2 DEF OneTag, Scripts
  <2>4. QED
    BY <2>2, <2>3 DEF ScriptLoads, ScriptFails
<1>5. QED
  BY <1>3, <1>4 DEF ScriptLoads, ScriptFails, SecretsKept

LEMMA TimeoutKeepsSetup ==
  ASSUME SetupKept, NEW n \in Mounts, WaitTimesOut(n)
  PROVE  SetupKept'
<1> USE DEF SetupKept
<1> DEFINE stage == IF mounts[n].stage = "script" THEN "failed" ELSE mounts[n].stage
<1>1. /\ mounts' = [mounts EXCEPT ![n].stage = stage]
      /\ script' = [script EXCEPT !.waiters = @ \ {n}]
      /\ UNCHANGED <<drawnSessions, instances, spent>>
  BY DEF WaitTimesOut
<1>2. stage \in Stages /\ stage # "script"
  BY DEF MountSet, Stages, Alive
<1>3. /\ script' \in Scripts /\ script'.waiters = script.waiters \ {n}
      /\ script'.pending = script.pending /\ script'.ready = script.ready
      /\ script'.tags = script.tags
  BY <1>1 DEF OneTag, Scripts
<1> HIDE DEF stage
<1>4. QED
  BY <1>1, <1>2, <1>3, OneMountMoves DEF OneTag, WaitersListed, SecretsKept

\* The component: an attempt moves on, is replaced or asks for a secret.
LEMMA ComponentKeepsSetup ==
  ASSUME SetupKept, NEW n \in Mounts,
         CodeLoads(n) \/ Retry(n) \/ FetchSecret(n) \/ ComponentFails(n)
  PROVE  SetupKept'
<1> USE DEF SetupKept
<1>1. UNCHANGED script /\ drawnSessions' \in Nat
  BY DEF CodeLoads, Retry, FetchSecret, ComponentFails
<1>2. /\ mounts' \in [Mounts -> MountSet]
      /\ \A m \in Mounts : mounts'[m].stage = "script" => mounts[m].stage = "script"
  <2>1. CASE UNCHANGED mounts
    BY <2>1
  <2>2. ASSUME NEW stage \in {"shown", "failed", "gone"},
               mounts' = [mounts EXCEPT ![n].stage = stage]
        PROVE  /\ mounts' \in [Mounts -> MountSet]
               /\ \A m \in Mounts : mounts'[m].stage = "script" => mounts[m].stage = "script"
    <3>1. stage \in Stages /\ stage # "script"
      BY DEF Stages, Alive
    <3>2. QED
      BY <2>2, <3>1, OneMountMoves
  <2>3. ASSUME NEW k \in Mounts, mounts[k].stage = "none", mounts[n].stage = "failed",
               mounts' = [mounts EXCEPT ![n].stage = "gone",
                                        ![k] = [stage |-> "load", session |-> mounts[n].session]]
        PROVE  /\ mounts' \in [Mounts -> MountSet]
               /\ \A m \in Mounts : mounts'[m].stage = "script" => mounts[m].stage = "script"
    <3>1. k # n /\ mounts[n] \in MountSet
      BY <2>3
    <3>2. /\ [mounts[n] EXCEPT !.stage = "gone"] \in MountSet
          /\ [mounts[n] EXCEPT !.stage = "gone"].stage = "gone"
          /\ [stage |-> "load", session |-> mounts[n].session] \in MountSet
      BY <3>1 DEF MountSet, Stages, Alive
    <3>3. \A m \in Mounts : mounts'[m] =
            IF m = k THEN [stage |-> "load", session |-> mounts[n].session]
            ELSE IF m = n THEN [mounts[n] EXCEPT !.stage = "gone"] ELSE mounts[m]
      BY <2>3, <3>1
    <3>4. QED
      BY <2>3, <3>2, <3>3
  <2>4. QED
    BY <2>1, <2>2, <2>3 DEF CodeLoads, Retry, FetchSecret, ComponentFails, FirstFree
<1>3. SecretsKept'
  <2>1. CASE UNCHANGED <<instances, spent>>
    BY <2>1 DEF SecretsKept
  <2>2. ASSUME NEW s, s \notin instances, instances' = instances \cup {s},
               spent' = [spent EXCEPT ![s] = @ + 1]
        PROVE  SecretsKept'
    <3>1. CASE s \in 1 .. MaxSessions
      <4>1. spent[s] = 0 /\ spent'[s] = 1
        BY <2>2, <3>1 DEF SecretsKept
      <4>2. \A t \in 1 .. MaxSessions : t # s => spent'[t] = spent[t]
        BY <2>2 DEF SecretsKept
      <4>3. QED
        BY <2>2, <4>1, <4>2 DEF SecretsKept
    <3>2. CASE s \notin 1 .. MaxSessions
      BY <2>2, <3>2 DEF SecretsKept
    <3>3. QED
      BY <3>1, <3>2
  <2>3. QED
    BY <2>1, <2>2 DEF CodeLoads, Retry, FetchSecret, ComponentFails
<1>4. QED
  BY <1>1, <1>2, <1>3 DEF OneTag, WaitersListed

\* However often the embedded component is mounted, given up or tried again, the
\* page holds one script tag (loadConnectScript) and each session's first secret is
\* handed out once (createClientSecretFetcher).
THEOREM SetupIsKept == PayoutSetupSpec => []SetupInvariant
<1>1. SetupInit => SetupKept
  BY InitSetupKept
<1>2. SetupKept /\ [PayoutSetupNext]_setupVars => SetupKept'
  <2>1. SetupKept /\ UNCHANGED setupVars => SetupKept'
    BY DEF SetupKept, OneTag, WaitersListed, SecretsKept, setupVars
  <2>2. SetupKept /\ PayoutSetupNext => SetupKept'
    BY PageKeepsSetup, LoadKeepsSetup, ScriptKeepsSetup, TimeoutKeepsSetup, ComponentKeepsSetup
       DEF PayoutSetupNext
  <2>3. QED
    BY <2>1, <2>2
<1>3. SetupKept => SetupInvariant
  BY DEF SetupKept, OneTag, WaitersListed, SecretsKept, SetupInvariant, OneScript,
         SecretIsSpentOnce
<1>4. QED
  BY <1>1, <1>2, <1>3, PTL DEF PayoutSetupSpec

-----------------------------------------------------------------------------
(* The payout account *)

ConnectStages == {"idle", "make", "insert", "begin", "read", "persist", "session"}
Refreshing ==
    [pc : ConnectStages, kind : {"none", "session", "status", "webhook"},
     id : {0} \cup 1 .. MaxAccounts, token : Nat, read : {None} \cup Moods]

ConnectTypeOK ==
    /\ account \in {None} \cup Accounts
    /\ account # None => (account.token > 0 => account.shown \in Moods)
    /\ draws \in Nat /\ stripe \in Moods /\ signals \in BOOLEAN
    /\ remembered \in {None} \cup 1 .. MaxAccounts
    /\ refreshing \in [Clients -> Refreshing]

\* Who reads or opens a session does so of the account in the row, under a number
\* drawn for it; the webhook's handler only reads.
HandlersKnow ==
    /\ \A c \in Clients :
          /\ refreshing[c].pc \in {"begin", "read", "persist", "session"} =>
                account # None /\ refreshing[c].id = account.id
          /\ refreshing[c].pc = "insert" => refreshing[c].id \in 1 .. MaxAccounts
          /\ refreshing[c].pc \in {"read", "persist"} => refreshing[c].token <= draws
          /\ refreshing[c].pc = "persist" => refreshing[c].read \in Moods
    /\ \/ refreshing[Hook] = Waiting
       \/ refreshing[Hook].kind = "webhook" /\ refreshing[Hook].pc \in {"begin", "read", "persist"}

SessionsFit ==
    /\ account = None => sessions = {}
    /\ account # None => sessions \subseteq {account.id}

\* A reading that is no longer Stripe's was overtaken: an event waits, a later
\* reading is stored, or the webhook has yet to store one.
Overtaken(c) ==
    \/ signals
    \/ account.token > refreshing[c].token
    \/ refreshing[Hook].pc = "begin"
    \/ refreshing[Hook].pc \in {"read", "persist"} /\ refreshing[Hook].token > refreshing[c].token

StaleIsOvertaken ==
    \A c \in Clients :
        (refreshing[c].pc = "persist" /\ refreshing[c].read # stripe) => Overtaken(c)

\* Nor does the row stay behind without somebody who will say so.
RowIsFollowed ==
    (account # None /\ account.token > 0 /\ account.shown # stripe)
    => signals \/ refreshing[Hook] # Waiting

ConnectKept ==
    /\ ConnectTypeOK /\ HandlersKnow /\ SessionsFit /\ StaleIsOvertaken /\ RowIsFollowed

LEMMA InitConnectKept == ConnectInit => ConnectKept
<1> SUFFICES ASSUME ConnectInit PROVE ConnectKept
  OBVIOUS
<1>1. Waiting \in Refreshing /\ Hook \in Clients
  BY DEF Waiting, Refreshing, ConnectStages, Clients
<1>2. \A c \in Clients : refreshing[c] = Waiting
  BY DEF ConnectInit
<1>3. ConnectTypeOK
  BY <1>1 DEF ConnectInit, ConnectTypeOK
<1>4. HandlersKnow /\ SessionsFit /\ StaleIsOvertaken /\ RowIsFollowed
  BY <1>1, <1>2 DEF ConnectInit, HandlersKnow, SessionsFit, StaleIsOvertaken, RowIsFollowed, Waiting
<1>5. QED
  BY <1>3, <1>4 DEF ConnectKept

\* Most steps move one handler, of whose next state this is asked.
Sound(c, r) ==
    /\ r.pc \in {"begin", "read", "persist", "session"} => account # None /\ r.id = account.id
    /\ r.pc = "insert" => r.id \in 1 .. MaxAccounts
    /\ r.pc \in {"read", "persist"} => r.token <= draws'
    /\ r.pc = "persist" => r.read = stripe
    /\ c = Hook =>
          /\ r = Waiting \/ (r.kind = "webhook" /\ r.pc \in {"begin", "read", "persist"})
          /\ \/ signals'
             \/ /\ r.pc \in {"read", "persist"}
                /\ refreshing[Hook].pc = "begin" => r.token > draws
                /\ refreshing[Hook].pc \in {"read", "persist"} => r.token = refreshing[Hook].token
                /\ refreshing[Hook].pc # "idle"

\* Nor does it forget an event, or a number that was drawn.
RestFits ==
    /\ draws' \in Nat /\ draws' >= draws
    /\ signals' \in BOOLEAN /\ (signals => signals')
    /\ remembered' \in {None} \cup 1 .. MaxAccounts
    /\ SessionsFit'

LEMMA OneHandlerMoves ==
  ASSUME ConnectKept, NEW c \in Clients, NEW r \in Refreshing, Sound(c, r),
         refreshing' = [refreshing EXCEPT ![c] = r], UNCHANGED <<account, stripe>>,
         RestFits
  PROVE  ConnectKept'
<1> USE DEF ConnectKept, RestFits
<1>1. /\ refreshing'[c] = r
      /\ \A d \in Clients \ {c} : refreshing'[d] = refreshing[d]
      /\ Hook \in Clients
  BY DEF ConnectTypeOK, Clients
<1>2. ConnectTypeOK'
  BY DEF ConnectTypeOK
<1>3. HandlersKnow'
  <2>1. ASSUME NEW d \in Clients
        PROVE  /\ refreshing'[d].pc \in {"begin", "read", "persist", "session"} =>
                     account # None /\ refreshing'[d].id = account.id
               /\ refreshing'[d].pc = "insert" => refreshing'[d].id \in 1 .. MaxAccounts
               /\ refreshing'[d].pc \in {"read", "persist"} => refreshing'[d].token <= draws'
               /\ refreshing'[d].pc = "persist" => refreshing'[d].read \in Moods
    <3>1. CASE d = c
      BY <1>1, <3>1 DEF Sound, ConnectTypeOK
    <3>2. CASE d # c
      <4>1. refreshing[d].token \in Nat
        BY DEF ConnectTypeOK, Refreshing
      <4>2. QED
        BY <1>1, <3>2, <4>1 DEF HandlersKnow, ConnectTypeOK
    <3>3. QED
      BY <3>1, <3>2
  <2>2. \/ refreshing'[Hook] = Waiting
        \/ refreshing'[Hook].kind = "webhook" /\ refreshing'[Hook].pc \in {"begin", "read", "persist"}
    BY <1>1 DEF HandlersKnow, Sound
  <2>3. QED
    BY <2>1, <2>2 DEF HandlersKnow
<1>4. StaleIsOvertaken'
  <2> SUFFICES ASSUME NEW d \in Clients, refreshing'[d].pc = "persist",
                      refreshing'[d].read # stripe
               PROVE  Overtaken(d)'
    BY DEF StaleIsOvertaken
  <2>1. d # c /\ refreshing'[d] = refreshing[d]
    BY <1>1 DEF Sound
  <2>2. Overtaken(d) /\ refreshing[d].token <= draws
    BY <2>1 DEF StaleIsOvertaken, HandlersKnow
  <2>3. CASE c # Hook
    BY <1>1, <2>1, <2>2, <2>3 DEF Overtaken
  <2>4. CASE c = Hook
    <3>1. refreshing[d].token \in Nat /\ r.token \in Nat
      BY DEF ConnectTypeOK, Refreshing
    <3>2. QED
      BY <1>1, <2>1, <2>2, <2>4, <3>1 DEF Overtaken, Sound, ConnectTypeOK
  <2>5. QED
    BY <2>3, <2>4
<1>5. RowIsFollowed'
  BY <1>1 DEF RowIsFollowed, Sound, Waiting
<1>6. QED
  BY <1>2, <1>3, <1>4, <1>5

\* The request's way to the account.
LEMMA FindKeeps ==
  ASSUME ConnectKept, NEW c \in Refreshers, NEW kind \in {"session", "status", "login"},
         FindAccount(c, kind)
  PROVE  ConnectKept'
<1> USE ConnectAssumption DEF ConnectKept
<1>1. c # Hook /\ c \in Clients /\ UNCHANGED <<account, draws, stripe, remembered, signals, sessions>>
  BY DEF FindAccount, Clients
<1>2. PICK r \in Refreshing : Sound(c, r) /\ refreshing' = [refreshing EXCEPT ![c] = r]
  <2>1. CASE account # None
    <3> DEFINE r == [pc |-> IF kind = "login" THEN "session" ELSE "begin",
                     kind |-> IF kind = "login" THEN "session" ELSE kind,
                     id |-> account.id, token |-> 0, read |-> None]
    <3>1. refreshing' = [refreshing EXCEPT ![c] = r]
      BY <2>1 DEF FindAccount
    <3>2. r \in Refreshing
      <4>1. account.id \in 1 .. MaxAccounts
        BY <2>1 DEF ConnectTypeOK, Accounts
      <4>2. r.pc \in ConnectStages /\ r.kind \in {"none", "session", "status", "webhook"}
        BY DEF ConnectStages
      <4>3. QED
        BY <4>1, <4>2 DEF Refreshing
    <3>3. Sound(c, r)
      BY <1>1, <2>1 DEF Sound
    <3>4. QED
      BY <3>1, <3>2, <3>3
  <2>2. CASE account = None
    <3> DEFINE r == [Waiting EXCEPT !.pc = "make", !.kind = kind]
    <3>1. refreshing' = [refreshing EXCEPT ![c] = r]
      BY <2>2 DEF FindAccount
    <3>2. r \in Refreshing /\ r.pc = "make"
      BY <2>2 DEF Waiting, Refreshing, ConnectStages, FindAccount
    <3>3. Sound(c, r)
      BY <1>1, <3>2 DEF Sound
    <3>4. QED
      BY <3>1, <3>2, <3>3
  <2>3. QED
    BY <2>1, <2>2
<1>3. RestFits
  BY <1>1 DEF ConnectTypeOK, SessionsFit, RestFits
<1> HIDE DEF ConnectKept
<1>4. QED
  BY <1>1, <1>2, <1>3, OneHandlerMoves

LEMMA CreateAccountKeeps ==
  ASSUME ConnectKept, NEW c \in Clients, CreateAccount(c)
  PROVE  ConnectKept'
<1> USE DEF ConnectKept
<1>1. /\ refreshing[c].pc = "make" /\ c # Hook
      /\ UNCHANGED <<account, draws, stripe, signals, sessions>>
  BY DEF CreateAccount, HandlersKnow, Waiting, ConnectTypeOK, Refreshing
<1>2. PICK id \in 1 .. MaxAccounts :
        /\ remembered' = id
        /\ refreshing' = [refreshing EXCEPT ![c].pc = "insert", ![c].id = id]
  BY DEF CreateAccount, ConnectTypeOK
<1> DEFINE r == [refreshing[c] EXCEPT !.pc = "insert", !.id = id]
<1>3. r \in Refreshing /\ r.pc = "insert" /\ r.id = id
  BY DEF ConnectTypeOK, Refreshing, ConnectStages
<1>4. refreshing' = [refreshing EXCEPT ![c] = r]
  BY <1>2 DEF ConnectTypeOK
<1>5. Sound(c, r)
  BY <1>1, <1>3 DEF Sound
<1>6. RestFits
  BY <1>1, <1>2 DEF ConnectTypeOK, SessionsFit, RestFits
<1> HIDE DEF r, ConnectKept
<1>7. QED
  BY <1>1, <1>3, <1>4, <1>5, <1>6, OneHandlerMoves

\* A new row has no reading yet, and nobody can have read for it.
LEMMA InsertKeeps ==
  ASSUME ConnectKept, NEW c \in Clients, InsertAccount(c)
  PROVE  ConnectKept'
<1> USE ConnectAssumption DEF ConnectKept
<1>1. /\ refreshing[c].pc = "insert" /\ c # Hook /\ refreshing[c].id \in 1 .. MaxAccounts
      /\ UNCHANGED <<draws, stripe, remembered, signals, sessions>>
  BY DEF InsertAccount, HandlersKnow, Waiting, ConnectTypeOK, Refreshing
<1>2. PICK r \in Refreshing :
        /\ refreshing' = [refreshing EXCEPT ![c] = r]
        /\ \/ r.pc = "begin" /\ account'.id = r.id
           \/ r.pc = "idle"
  <2>1. [refreshing[c] EXCEPT !.pc = "begin"] \in Refreshing /\ Waiting \in Refreshing
    BY DEF ConnectTypeOK, Refreshing, ConnectStages, Waiting
  <2>2. [refreshing[c] EXCEPT !.pc = "begin"].id = refreshing[c].id
        /\ [refreshing[c] EXCEPT !.pc = "begin"].pc = "begin" /\ Waiting.pc = "idle"
    BY DEF ConnectTypeOK, Refreshing, Waiting
  <2>3. CASE account'.id = refreshing[c].id
    <3>1. refreshing' = [refreshing EXCEPT ![c] = [refreshing[c] EXCEPT !.pc = "begin"]]
      BY <2>3 DEF InsertAccount, Continue, ConnectTypeOK
    <3>2. QED
      BY <2>1, <2>2, <2>3, <3>1
  <2>4. CASE account'.id # refreshing[c].id
    BY <2>1, <2>2, <2>4 DEF InsertAccount, Leave
  <2>5. QED
    BY <2>3, <2>4
<1>3. CASE account # None
  <2>1. account' = account
    BY <1>3 DEF InsertAccount
  <2>2. Sound(c, r)
    BY <1>1, <1>2, <1>3, <2>1 DEF Sound
  <2>3. RestFits
    BY <1>1, <2>1 DEF ConnectTypeOK, SessionsFit, RestFits
  <2> HIDE DEF ConnectKept
  <2>4. QED
    BY <1>1, <1>2, <2>1, <2>2, <2>3, OneHandlerMoves
<1>4. CASE account = None
  <2> DEFINE row == [id |-> refreshing[c].id, token |-> 0, shown |-> None]
  <2>1. account' = row /\ row \in Accounts /\ row # None /\ row.token = 0
    BY <1>1, <1>4 DEF InsertAccount, Accounts
  <2> HIDE DEF row
  <2>2. /\ refreshing'[c] = r
        /\ \A d \in Clients \ {c} : refreshing'[d] = refreshing[d]
        /\ Hook \in Clients
    BY <1>2 DEF ConnectTypeOK, Clients
  <2>3. \A d \in Clients : refreshing[d].pc \notin {"begin", "read", "persist", "session"}
    BY <1>4 DEF HandlersKnow
  <2>4. ConnectTypeOK'
    BY <1>1, <1>2, <2>1 DEF ConnectTypeOK
  <2>5. \A d \in Clients :
          /\ refreshing'[d].pc \notin {"read", "persist", "session"}
          /\ refreshing'[d].pc = "begin" => refreshing'[d].id = account'.id
          /\ refreshing'[d].pc = "insert" => refreshing'[d].id \in 1 .. MaxAccounts
    BY <1>2, <2>2, <2>3 DEF HandlersKnow
  <2>6. HandlersKnow'
    BY <1>1, <2>1, <2>2, <2>5 DEF HandlersKnow
  <2>7. SessionsFit' /\ StaleIsOvertaken' /\ RowIsFollowed'
    BY <1>1, <1>4, <2>1, <2>5 DEF SessionsFit, StaleIsOvertaken, RowIsFollowed
  <2>8. QED
    BY <2>4, <2>6, <2>7
<1>5. QED
  BY <1>3, <1>4

\* The event is taken up by a reading that has yet to begin.
LEMMA HookKeeps ==
  ASSUME ConnectKept, HookStarts
  PROVE  ConnectKept'
<1> USE ConnectAssumption DEF ConnectKept
<1> DEFINE r == [pc |-> "begin", kind |-> "webhook", id |-> account.id, token |-> 0, read |-> None]
<1>1. /\ account # None /\ signals' = FALSE /\ refreshing' = [refreshing EXCEPT ![Hook] = r]
      /\ UNCHANGED <<account, draws, stripe, remembered, sessions>>
  BY DEF HookStarts
<1>2. r \in Refreshing /\ Hook \in Clients
  BY <1>1 DEF Refreshing, ConnectStages, ConnectTypeOK, Accounts, Clients
<1>3. refreshing'[Hook] = r /\ \A d \in Clients \ {Hook} : refreshing'[d] = refreshing[d]
  BY <1>1, <1>2 DEF ConnectTypeOK
<1>4. ConnectTypeOK'
  BY <1>1, <1>2 DEF ConnectTypeOK
<1>5. HandlersKnow'
  BY <1>1, <1>2, <1>3 DEF HandlersKnow
<1>6. SessionsFit' /\ StaleIsOvertaken' /\ RowIsFollowed'
  BY <1>1, <1>3 DEF SessionsFit, StaleIsOvertaken, Overtaken, RowIsFollowed, Waiting
<1>7. QED
  BY <1>4, <1>5, <1>6

\* A number is drawn, larger than all before; then Stripe is read.
LEMMA ReadingKeeps ==
  ASSUME ConnectKept, NEW c \in Clients, BeginRefresh(c) \/ RetrieveAccount(c)
  PROVE  ConnectKept'
<1> USE DEF ConnectKept
<1>1. /\ refreshing[c] \in Refreshing /\ refreshing[c].pc \in {"begin", "read"}
      /\ account # None /\ refreshing[c].id = account.id
      /\ UNCHANGED <<account, stripe, remembered, signals, sessions>>
  BY DEF BeginRefresh, RetrieveAccount, ConnectTypeOK, HandlersKnow
<1>2. c = Hook => refreshing[c].kind = "webhook"
  BY <1>1 DEF HandlersKnow, Waiting
<1>3. RestFits
  BY <1>1 DEF BeginRefresh, RetrieveAccount, RestFits, ConnectTypeOK, SessionsFit
<1>4. PICK r \in Refreshing : Sound(c, r) /\ refreshing' = [refreshing EXCEPT ![c] = r]
  <2>1. CASE BeginRefresh(c)
    <3> DEFINE r == [refreshing[c] EXCEPT !.pc = "read", !.token = draws + 1]
    <3>1. draws' = draws + 1 /\ refreshing[c].pc = "begin"
          /\ refreshing' = [refreshing EXCEPT ![c] = r]
      BY <2>1 DEF BeginRefresh, ConnectTypeOK
    <3>2. /\ r \in Refreshing /\ r.pc = "read" /\ r.token = draws' /\ r.token > draws
          /\ r.id = refreshing[c].id /\ r.kind = refreshing[c].kind
      <4>1. draws + 1 \in Nat /\ draws + 1 > draws /\ "read" \in ConnectStages
        BY DEF ConnectTypeOK, ConnectStages
      <4>2. QED
        BY <1>1, <3>1, <4>1 DEF Refreshing
    <3> HIDE DEF r
    <3>3. Sound(c, r)
      BY <1>1, <1>2, <1>3, <3>1, <3>2 DEF Sound, RestFits
    <3>4. QED
      BY <3>1, <3>2, <3>3
  <2>2. CASE RetrieveAccount(c)
    <3> DEFINE r == [refreshing[c] EXCEPT !.pc = "persist", !.read = stripe]
    <3>1. draws' = draws /\ refreshing[c].pc = "read" /\ refreshing[c].token <= draws
          /\ refreshing' = [refreshing EXCEPT ![c] = r]
      BY <2>2 DEF RetrieveAccount, ConnectTypeOK, HandlersKnow
    <3>2. /\ r \in Refreshing /\ r.pc = "persist" /\ r.read = stripe
          /\ r.token = refreshing[c].token
          /\ r.id = refreshing[c].id /\ r.kind = refreshing[c].kind
      BY <1>1 DEF Refreshing, ConnectStages, ConnectTypeOK
    <3> HIDE DEF r
    <3>3. Sound(c, r)
      BY <1>1, <1>2, <3>1, <3>2 DEF Sound
    <3>4. QED
      BY <3>1, <3>2, <3>3
  <2>3. QED
    BY <2>1, <2>2
<1> HIDE DEF ConnectKept
<1>5. QED
  BY <1>1, <1>3, <1>4, OneHandlerMoves

\* A handler ends: with a session for the account it found, without storing what it
\* read, or killed; the webhook's event comes again.
LEMMA LeaveKeeps ==
  ASSUME ConnectKept, NEW c \in Clients, Leave(c), UNCHANGED <<account, draws, stripe, remembered>>,
         signals' \in BOOLEAN, signals => signals', c = Hook => signals',
         \/ UNCHANGED sessions
         \/ refreshing[c].pc = "session" /\ sessions' = sessions \cup {refreshing[c].id}
  PROVE  ConnectKept'
<1>1. Waiting \in Refreshing /\ Waiting.pc = "idle"
  BY DEF Waiting, Refreshing, ConnectStages
<1>2. Sound(c, Waiting)
  BY <1>1 DEF Sound
<1>3. RestFits
  <2>1. SessionsFit'
    BY DEF ConnectKept, SessionsFit, HandlersKnow
  <2>2. QED
    BY <2>1 DEF RestFits, ConnectKept, ConnectTypeOK
<1>4. QED
  BY <1>1, <1>2, <1>3, OneHandlerMoves DEF Leave

\* The reading is stored unless a later one is: what it misses, an event will bring.
LEMMA PersistKeeps ==
  ASSUME ConnectKept, NEW c \in Clients, Persist(c)
  PROVE  ConnectKept'
<1>1. /\ refreshing[c] \in Refreshing /\ refreshing[c].pc = "persist" /\ refreshing[c].read \in Moods
      /\ account # None /\ account \in Accounts /\ refreshing[c].id = account.id
      /\ c = Hook => refreshing[c].kind = "webhook"
      /\ UNCHANGED <<draws, stripe, made, remembered, sessions>> /\ signals' \in BOOLEAN
  BY DEF ConnectKept, ConnectTypeOK, HandlersKnow, Persist, Waiting
<1>2. CASE account.token > refreshing[c].token
  <2>1. Leave(c) /\ account' = account /\ (signals => signals')
    BY <1>2 DEF Persist
  <2>2. c = Hook => signals'
    BY <1>1, <1>2 DEF Persist
  <2>3. QED
    BY <1>1, <2>1, <2>2, LeaveKeeps
<1>3. CASE ~(account.token > refreshing[c].token)
  <2>1. /\ account' = [account EXCEPT !.token = refreshing[c].token, !.shown = refreshing[c].read]
        /\ signals' = signals
    BY <1>1, <1>3 DEF Persist, ConnectKept, ConnectTypeOK
  <2>2. /\ account' \in Accounts /\ account' # None /\ account'.id = account.id
        /\ account'.token = refreshing[c].token /\ account'.shown = refreshing[c].read
        /\ account'.token >= account.token /\ account.token \in Nat /\ account'.token \in Nat
    <3>1. account.token \in Nat /\ refreshing[c].token \in Nat /\ account.id \in 1 .. MaxAccounts
      BY <1>1 DEF Accounts, Refreshing
    <3>2. account' = [id |-> account.id, token |-> refreshing[c].token, shown |-> refreshing[c].read]
      BY <1>1, <2>1 DEF Accounts
    <3>3. account' \in Accounts
      BY <1>1, <3>1, <3>2 DEF Accounts
    <3>4. QED
      BY <1>3, <3>1, <3>2, <3>3, ConnectAssumption
  <2>3. PICK r \in Refreshing :
          /\ refreshing' = [refreshing EXCEPT ![c] = r]
          /\ r = Waiting \/ (c # Hook /\ r.pc = "session" /\ r.id = account.id)
    <3>1. CASE refreshing[c].kind = "session"
      <4> DEFINE r == [refreshing[c] EXCEPT !.pc = "session"]
      <4>1. refreshing' = [refreshing EXCEPT ![c] = r]
        BY <1>3, <3>1 DEF Persist, Continue, ConnectKept, ConnectTypeOK
      <4>2. r \in Refreshing /\ r.pc = "session" /\ r.id = account.id
        BY <1>1 DEF Refreshing, ConnectStages
      <4>3. c # Hook
        BY <1>1, <3>1
      <4>4. QED
        BY <4>1, <4>2, <4>3
    <3>2. CASE refreshing[c].kind # "session"
      <4>1. Waiting \in Refreshing
        BY DEF Waiting, Refreshing, ConnectStages
      <4>2. QED
        BY <3>2, <4>1 DEF Persist, Leave
    <3>3. QED
      BY <3>1, <3>2
  <2>4. /\ refreshing'[c] = r /\ r.pc \in {"idle", "session"}
        /\ \A d \in Clients \ {c} : refreshing'[d] = refreshing[d]
        /\ Hook \in Clients /\ (c = Hook => r = Waiting)
    BY <2>3 DEF ConnectKept, ConnectTypeOK, Clients, Waiting
  <2>5. ConnectTypeOK'
    BY <1>1, <2>1, <2>2, <2>3 DEF ConnectKept, ConnectTypeOK
  <2>6. HandlersKnow'
    <3>1. ASSUME NEW d \in Clients
          PROVE  /\ refreshing'[d].pc \in {"begin", "read", "persist", "session"} =>
                       refreshing'[d].id = account'.id
                 /\ refreshing'[d].pc = "insert" => refreshing'[d].id \in 1 .. MaxAccounts
                 /\ refreshing'[d].pc \in {"read", "persist"} => refreshing'[d].token <= draws'
                 /\ refreshing'[d].pc = "persist" => refreshing'[d].read \in Moods
      <4>1. CASE d = c
        BY <2>2, <2>3, <2>4, <4>1 DEF Waiting
      <4>2. CASE d # c
        BY <1>1, <2>2, <2>4, <4>2 DEF ConnectKept, HandlersKnow
      <4>3. QED
        BY <4>1, <4>2
    <3>2. \/ refreshing'[Hook] = Waiting
          \/ refreshing'[Hook].kind = "webhook" /\ refreshing'[Hook].pc \in {"begin", "read", "persist"}
      BY <2>4 DEF ConnectKept, HandlersKnow
    <3>3. QED
      BY <2>2, <3>1, <3>2 DEF HandlersKnow
  <2>7. StaleIsOvertaken'
    <3> SUFFICES ASSUME NEW d \in Clients, refreshing'[d].pc = "persist",
                        refreshing'[d].read # stripe
                 PROVE  Overtaken(d)'
      BY <1>1 DEF StaleIsOvertaken
    <3>1. d # c /\ refreshing'[d] = refreshing[d] /\ refreshing[d].token \in Nat
      BY <2>4 DEF ConnectKept, ConnectTypeOK, Refreshing
    <3>2. Overtaken(d)
      BY <3>1 DEF ConnectKept, StaleIsOvertaken
    <3>3. CASE c = Hook
      BY <1>1, <2>1, <2>2, <3>1, <3>2, <3>3 DEF Overtaken
    <3>4. CASE c # Hook
      BY <2>1, <2>2, <2>4, <3>1, <3>2, <3>4 DEF Overtaken
    <3>5. QED
      BY <3>3, <3>4
  <2>8. RowIsFollowed'
    <3> SUFFICES ASSUME refreshing[c].read # stripe PROVE signals' \/ refreshing'[Hook] # Waiting
      BY <1>1, <2>2 DEF RowIsFollowed
    <3>1. Overtaken(c)
      BY <1>1 DEF ConnectKept, StaleIsOvertaken
    <3>2. CASE c = Hook
      BY <1>1, <1>3, <2>1, <3>1, <3>2 DEF Overtaken, Refreshing
    <3>3. CASE c # Hook
      BY <1>3, <2>1, <2>4, <3>1, <3>3 DEF Overtaken, Waiting
    <3>4. QED
      BY <3>2, <3>3
  <2>9. SessionsFit'
    BY <1>1, <2>2 DEF ConnectKept, SessionsFit
  <2>10. QED
    BY <2>5, <2>6, <2>7, <2>8, <2>9 DEF ConnectKept
<1>4. QED
  BY <1>2, <1>3

LEMMA StripeMovesKeep ==
  ASSUME ConnectKept, AccountMoves \/ KeyExpires
  PROVE  ConnectKept'
<1> USE DEF ConnectKept
<1>1. UNCHANGED <<account, draws, refreshing, sessions>>
  BY DEF AccountMoves, KeyExpires
<1>2. ConnectTypeOK'
  BY <1>1 DEF AccountMoves, KeyExpires, ConnectTypeOK
<1>3. HandlersKnow' /\ SessionsFit'
  BY <1>1 DEF HandlersKnow, SessionsFit
<1>4. StaleIsOvertaken' /\ RowIsFollowed'
  BY <1>1 DEF AccountMoves, KeyExpires, StaleIsOvertaken, Overtaken, RowIsFollowed
<1>5. QED
  BY <1>2, <1>3, <1>4

LEMMA NextConnectKept == ConnectKept /\ [ConnectAccountNext]_connectVars => ConnectKept'
<1> SUFFICES ASSUME ConnectKept, [ConnectAccountNext]_connectVars PROVE ConnectKept'
  OBVIOUS
<1>1. ASSUME NEW c \in Clients, OpenSession(c) PROVE ConnectKept'
  <2>1. refreshing[c].pc = "session" /\ c # Hook /\ signals' \in BOOLEAN
    BY <1>1 DEF OpenSession, ConnectKept, HandlersKnow, Waiting, ConnectTypeOK, Refreshing
  <2>2. QED
    BY <1>1, <2>1, LeaveKeeps DEF OpenSession
<1>2. ASSUME NEW c \in Clients, Dies(c) PROVE ConnectKept'
  <2>1. signals' \in BOOLEAN /\ (signals => signals') /\ (c = Hook => signals')
    BY <1>2 DEF Dies
  <2>2. QED
    BY <1>2, <2>1, LeaveKeeps DEF Dies
<1>3. CASE UNCHANGED connectVars
  BY <1>3 DEF connectVars, ConnectKept, ConnectTypeOK, HandlersKnow, SessionsFit, StaleIsOvertaken,
     Overtaken, RowIsFollowed
<1>4. QED
  BY <1>1, <1>2, <1>3, FindKeeps, CreateAccountKeeps, InsertKeeps, HookKeeps, ReadingKeeps,
     PersistKeeps, StripeMovesKeep DEF ConnectAccountNext

\* deriveConnectStatus and toSafeConnectStatus call ready exactly the account that
\* may receive and pay out with nothing due, whatever Stripe says of it.
Capabilities == {"active", "pending", "unsupported", "restricted"}
Requirements == [from : {"user", "stripe"}, due : {"eventually_due", "currently_due", "past_due"}]
RawAccounts  == [transfers : Capabilities, payouts : Capabilities, entries : SUBSET Requirements,
                 closed : BOOLEAN]

LEMMA ReadyMeansUsable ==
  ASSUME NEW raw \in RawAccounts
  PROVE  LET usable == ~raw.closed /\ raw.transfers = "active" /\ raw.payouts = "active" /\ Due(raw) = {}
         IN  /\ usable <=> SafeStatus(DeriveConnectStatus(raw)) = "ready"
             /\ usable <=> MaySell(raw)
<1> DEFINE p == DeriveConnectStatus(raw)
<1>1. Due(raw) # {} <=> \E e \in Due(raw) : e.from = "user" \/ e.from = "stripe"
  BY DEF Due, RawAccounts, Requirements
<1>2. CASE raw.closed
  <2>1. p.transfers = "restricted"
    BY <1>2 DEF DeriveConnectStatus
  <2>2. QED
    BY <1>2, <2>1 DEF SafeStatus, MaySell
<1>3. CASE ~raw.closed
  <2>1. /\ p.transfers = CapabilityStatus(raw.transfers)
        /\ p.payouts = CapabilityStatus(raw.payouts)
        /\ p.requirements = RequirementsStatus(raw)
    BY <1>3 DEF DeriveConnectStatus
  <2>2. /\ p.transfers = "active" <=> raw.transfers = "active"
        /\ p.payouts = "active" <=> raw.payouts = "active"
    BY <2>1 DEF CapabilityStatus
  <2>3. (raw.transfers = "active" /\ raw.payouts = "active")
        => (RequirementsStatus(raw) = "clear" <=> Due(raw) = {})
    BY <1>1 DEF RequirementsStatus, CapabilityStatus
  <2> HIDE DEF p
  <2>4. SafeStatus(p) = "ready" <=>
          p.transfers = "active" /\ p.payouts = "active" /\ p.requirements = "clear"
    BY DEF SafeStatus
  <2>5. MaySell(raw) <=>
          p.transfers = "active" /\ p.payouts = "active" /\ p.requirements = "clear" /\ Due(raw) = {}
    BY DEF MaySell, p
  <2>6. QED
    BY <1>3, <2>1, <2>2, <2>3, <2>4, <2>5 DEF p
<1>4. QED
  BY <1>2, <1>3

LEMMA MoodsAreRaw == Moods \subseteq RawAccounts
<1>1. ASSUME NEW entries \in SUBSET Requirements
      PROVE  Active(entries) \in RawAccounts /\ [Active(entries) EXCEPT !.closed = TRUE] \in RawAccounts
  BY DEF Active, RawAccounts, Capabilities
<1>2. [from |-> "user", due |-> "eventually_due"] \in Requirements
      /\ [from |-> "user", due |-> "past_due"] \in Requirements
  BY DEF Requirements
<1>3. QED
  BY <1>1, <1>2 DEF Moods

\* However readings overtake one another (server_persist_connect_status_if_current),
\* handlers die and accounts are made twice, the row ends as Stripe's, sessions are
\* for its account, and ready is said of a usable one.
THEOREM AccountIsFollowed == ConnectAccountSpec => []ConnectInvariant
<1>1. ConnectInit => ConnectKept
  BY InitConnectKept
<1>2. ConnectKept /\ [ConnectAccountNext]_connectVars => ConnectKept'
  BY NextConnectKept
<1>3. ConnectKept => ConnectInvariant
  <2> SUFFICES ASSUME ConnectKept PROVE ConnectInvariant
    OBVIOUS
  <2>1. QuietIsCurrent
    BY DEF QuietIsCurrent, ConnectKept, RowIsFollowed, Clients
  <2>2. SessionsAreForTheAccount
    BY DEF SessionsAreForTheAccount, ConnectKept, SessionsFit
  <2>3. ReadyIsReady
    <3> SUFFICES ASSUME account # None, account.shown # None
                 PROVE  LET raw == account.shown
                            usable == ~raw.closed /\ raw.transfers = "active"
                                      /\ raw.payouts = "active" /\ Due(raw) = {}
                        IN  /\ usable <=> SafeStatus(DeriveConnectStatus(raw)) = "ready"
                            /\ usable <=> MaySell(raw)
      BY DEF ReadyIsReady
    <3>1. account.shown \in Moods
      BY DEF ConnectKept, ConnectTypeOK, Accounts
    <3>2. account.shown \in RawAccounts
      BY <3>1, MoodsAreRaw
    <3>3. QED
      BY <3>2, ReadyMeansUsable
  <2>4. QED
    BY <2>1, <2>2, <2>3 DEF ConnectInvariant
<1>4. QED
  BY <1>1, <1>2, <1>3, PTL DEF ConnectAccountSpec

-----------------------------------------------------------------------------
(* The buyer's tab *)

Statuses == {"none", "live", "processing", "paid", "refunded", Ended}

AttemptTypeOK ==
    /\ stored \in {None} \cup Attempts
    /\ submission \in {None} \cup Submissions
    /\ drawn \in Nat
    /\ net \in SUBSET [id : Ids, details : Details]
    /\ orders \in [Ids -> [status : Statuses, details : {None} \cup Details]]

\* An id that was not drawn is unheard of.
Numbered ==
    /\ \A r \in net : r.id <= drawn
    /\ \A i \in Ids : i > drawn => Status(i) = "none"
    /\ stored # None => stored.id <= drawn

\* Whatever there is of one id has the same details: requests, order, record.
SameDetails ==
    /\ \A i \in Ids : Status(i) = "none" => orders[i].details = None
    /\ \A r, q \in net : r.id = q.id => r.details = q.details
    /\ \A r \in net : orders[r.id].details \in {None, r.details}
    /\ stored # None =>
          /\ orders[stored.id].details \in {None, stored.details}
          /\ \A r \in net : r.id = stored.id => r.details = stored.details

\* Of a prepared attempt nothing was sent, of a rejected one nothing is left.
StoredIsTrue ==
    stored # None =>
        /\ stored.stage = "prepared" =>
              Status(stored.id) = "none" /\ \A r \in net : r.id # stored.id
        /\ stored.stage = "rejected" => stored.id \notin OpenIds

\* The first request of an attempt is the only one, so its refusal is final.
FirstIsOnly ==
    (submission # None /\ submission.stage = "asking" /\ submission.first) =>
        /\ \A r \in net : r.id = submission.id => Status(r.id) = "none"
        /\ submission.answer = "refused" => submission.id \notin OpenIds

AttemptKept ==
    /\ AttemptTypeOK /\ Numbered /\ SameDetails /\ StoredIsTrue /\ FirstIsOnly
    /\ OpenAttemptIsKept /\ EndIsTrue

LEMMA InitAttemptKept == CheckoutInit => AttemptKept
  BY AttemptAssumption
     DEF CheckoutInit, AttemptKept, AttemptTypeOK, Numbered, SameDetails, StoredIsTrue, FirstIsOnly,
         OpenAttemptIsKept, EndIsTrue, OpenIds, Status, Statuses, Form

\* An order goes on, or none does; none comes into being.
OrdersMove ==
    /\ orders' \in [Ids -> [status : Statuses, details : {None} \cup Details]]
    /\ \A i \in Ids :
          /\ orders'[i].details = orders[i].details
          /\ \/ Status(i)' = Status(i)
             \/ /\ Status(i) # "none" /\ Status(i)' # "none"
                /\ Status(i)' \in {"live", "processing"} => Status(i) \in {"live", "processing"}

\* Nothing is sent, and what is put away or called off is over.
LEMMA PageMoves ==
  ASSUME AttemptKept, UNCHANGED <<drawn, net>>, OrdersMove, submission' \in {None, submission},
         \/ stored' = stored
         \/ stored # None /\ stored' = None /\ stored.id \notin OpenIds',
         told' = told \/ (told'.kind \in {"cancelled", "refused"} => told'.id \notin OpenIds')
  PROVE  AttemptKept'
<1> USE AttemptAssumption DEF AttemptKept
<1>1. OpenIds' \subseteq OpenIds
  BY DEF OpenIds, OrdersMove
<1>2. \A i \in Ids : Status(i) = "none" <=> Status(i)' = "none"
  BY DEF OrdersMove
<1>3. \A r \in net : r.id \in Ids
  BY DEF AttemptTypeOK
<1>4. stored # None => stored.id \in Ids
  BY DEF AttemptTypeOK, Attempts
<1>5. AttemptTypeOK' /\ Numbered'
  BY <1>2 DEF AttemptTypeOK, Numbered, OrdersMove
<1>6. SameDetails'
  BY <1>2, <1>3, <1>4 DEF SameDetails, OrdersMove
<1>7. StoredIsTrue'
  BY <1>1, <1>2, <1>4 DEF StoredIsTrue
<1>8. FirstIsOnly'
  BY <1>1, <1>2, <1>3 DEF FirstIsOnly
<1>9. OpenAttemptIsKept' /\ EndIsTrue'
  BY <1>1 DEF OpenAttemptIsKept, EndIsTrue
<1>10. QED
  BY <1>5, <1>6, <1>7, <1>8, <1>9

LEMMA OrdersStay ==
  ASSUME AttemptKept, orders' = orders
  PROVE  OrdersMove /\ (UNCHANGED net => OpenIds' = OpenIds)
  BY DEF AttemptKept, AttemptTypeOK, OrdersMove, Status, OpenIds

\* The page's own steps.
LEMMA PageKeepsAttempt ==
  ASSUME AttemptKept,
         \/ \E i \in Ids : Cancel(i) \/ Return(i)
         \/ Waited \/ CancelChecked \/ Poll \/ ReleaseRejected \/ Remount \/ Load
  PROVE  AttemptKept'
<1> USE AttemptAssumption
<1>1. UNCHANGED <<drawn, net>> /\ orders' = orders /\ submission' \in {None, submission}
  BY DEF Cancel, Return, Waited, CancelChecked, Poll, ReleaseRejected, Remount, Load, server
<1>2. OrdersMove /\ OpenIds' = OpenIds
  BY <1>1, OrdersStay
<1>3. \/ stored' = stored
      \/ stored # None /\ stored' = None /\ stored.id \notin OpenIds
  <2>1. CASE Poll
    <3>1. PICK answer \in Answers(told.id) :
             IF answer.kind = "order" /\ answer.status \in {"paid", "refunded"}
             THEN Clear(told.id) ELSE UNCHANGED <<stored, marker>>
      BY <2>1 DEF Poll
    <3>2. answer.kind = "order" /\ answer.status \in {"paid", "refunded"}
          => Status(told.id) \in {"paid", "refunded"}
      BY DEF Answers
    <3>3. Status(told.id) \in {"paid", "refunded"} => told.id \notin OpenIds
      BY DEF OpenIds
    <3>4. QED
      BY <3>1, <3>2, <3>3 DEF Clear
  <2>2. CASE ReleaseRejected
    BY <2>2 DEF ReleaseRejected, Clear, AttemptKept, StoredIsTrue
  <2>3. QED
    BY <2>1, <2>2 DEF Cancel, Return, Waited, CancelChecked, Remount, Load
<1>4. told' = told \/ (told'.kind \in {"cancelled", "refused"} => told'.id \notin OpenIds)
  <2>1. \A i : \A answer \in Answers(i) : answer.kind \in {"unknown", "order"}
    BY DEF Answers
  <2>2. CASE told' = Found
    BY <2>2 DEF Found, Form, AttemptKept, StoredIsTrue
  <2>3. CASE told' = Form
    BY <2>3 DEF Form
  <2>4. ASSUME NEW i, told' \in Answers(i)
        PROVE  told'.kind \notin {"cancelled", "refused"}
    BY <2>1, <2>4
  <2>5. QED
    BY <2>2, <2>3, <2>4
       DEF Cancel, Return, Waited, CancelChecked, Poll, ReleaseRejected, Remount, Load, Tell
<1>5. QED
  BY <1>1, <1>2, <1>3, <1>4, PageMoves

\* Orders go on by themselves or are cancelled at the tab's request.
LEMMA OrderGoesOn ==
  ASSUME AttemptKept, NEW i, NEW st \in Statuses \ {"none"}, Status(i) # "none",
         st \in {"live", "processing"} => Status(i) \in {"live", "processing"},
         orders' = [orders EXCEPT ![i].status = st]
  PROVE  OrdersMove /\ (st \notin {"live", "processing"} => i \notin OpenIds')
<1>1. CASE i \in Ids
  <2>1. orders[i] \in [status : Statuses, details : {None} \cup Details]
    BY <1>1 DEF AttemptKept, AttemptTypeOK
  <2>2. orders'[i] = [orders[i] EXCEPT !.status = st]
    BY <1>1 DEF AttemptKept, AttemptTypeOK
  <2>3. orders'[i] \in [status : Statuses, details : {None} \cup Details]
        /\ orders'[i].status = st /\ orders'[i].details = orders[i].details
    BY <2>1, <2>2
  <2>4. \A j \in Ids \ {i} : orders'[j] = orders[j]
    BY DEF AttemptKept, AttemptTypeOK
  <2>5. orders' \in [Ids -> [status : Statuses, details : {None} \cup Details]]
    BY <2>3, <2>4 DEF AttemptKept, AttemptTypeOK
  <2>6. QED
    BY <2>3, <2>4, <2>5 DEF OrdersMove, OpenIds, Status
<1>2. CASE i \notin Ids
  <2>1. orders' = orders
    BY <1>2 DEF AttemptKept, AttemptTypeOK
  <2>2. QED
    BY <1>2, <2>1, OrdersStay DEF OpenIds
<1>3. QED
  BY <1>1, <1>2

LEMMA OrdersKeepAttempt ==
  ASSUME AttemptKept, CancelAnswered \/ \E i \in Ids : OrderMoves(i)
  PROVE  AttemptKept'
<1>1. ASSUME NEW i \in Ids, OrderMoves(i) PROVE AttemptKept'
  <2>1. PICK s \in {"processing", "paid", Ended, "refunded"} :
          /\ Status(i) \in {"live", "processing", "paid"}
          /\ s = "processing" => Status(i) = "live"
          /\ orders' = [orders EXCEPT ![i].status = s]
    BY <1>1 DEF OrderMoves, Ended
  <2>2. OrdersMove
    BY <2>1, OrderGoesOn DEF Statuses, Ended
  <2>3. QED
    BY <1>1, <2>2, PageMoves DEF OrderMoves
<1>2. CASE CancelAnswered
  <2> DEFINE i == cancelling.id
  <2>1. UNCHANGED <<submission, drawn, net>>
    BY <1>2 DEF CancelAnswered
  <2>2. CASE Status(i) \in {"live", Ended} /\ orders' = [orders EXCEPT ![i].status = Ended]
    <3>1. OrdersMove /\ i \notin OpenIds'
      BY <2>2, OrderGoesOn DEF Statuses, Ended
    <3>2. stored' = stored \/ (stored # None /\ stored' = None /\ stored.id = i)
      BY <1>2 DEF CancelAnswered, Clear
    <3>3. told' = told \/ told'.id = i
      BY <1>2 DEF CancelAnswered, Tell
    <3> HIDE DEF i
    <3>4. \/ stored' = stored
          \/ stored # None /\ stored' = None /\ stored.id \notin OpenIds'
      BY <3>1, <3>2
    <3>5. told' = told \/ (told'.kind \in {"cancelled", "refused"} => told'.id \notin OpenIds')
      BY <3>1, <3>3
    <3>6. QED
      BY <2>1, <3>1, <3>4, <3>5, PageMoves
  <2>3. CASE orders' = orders /\ UNCHANGED <<stored, told>>
    BY <2>1, <2>3, OrdersStay, PageMoves
  <2>4. QED
    BY <1>2, <2>2, <2>3 DEF CancelAnswered
<1>3. QED
  BY <1>1, <1>2

\* The server takes one request; no other carries its id.
LEMMA ArrivalKeepsAttempt ==
  ASSUME AttemptKept, NEW r \in net, CreateArrives(r)
  PROVE  AttemptKept'
<1> USE AttemptAssumption DEF AttemptKept
<1>1. /\ r \in [id : Ids, details : Details] /\ r.id \in Ids /\ net' = net \ {r}
      /\ \A q \in net : q \in [id : Ids, details : Details] /\ q.id \in Ids
      /\ UNCHANGED <<stored, told, drawn>>
  BY DEF CreateArrives, AttemptTypeOK
<1>2. \A q \in net' : q.id # r.id
  BY <1>1 DEF SameDetails
<1>3. /\ orders' \in [Ids -> [status : Statuses, details : {None} \cup Details]]
      /\ \A i \in Ids \ {r.id} : orders'[i] = orders[i]
      /\ \/ orders'[r.id] = orders[r.id]
         \/ /\ Status(r.id) = "none"
            /\ orders'[r.id].status # "none" /\ orders'[r.id].details = r.details
  <2>1. CASE orders' = orders
    BY <2>1 DEF AttemptTypeOK
  <2>2. ASSUME NEW s \in {"live", Ended}, Status(r.id) = "none",
               orders' = [orders EXCEPT ![r.id] = [status |-> s, details |-> r.details]]
        PROVE  /\ orders' \in [Ids -> [status : Statuses, details : {None} \cup Details]]
               /\ \A i \in Ids \ {r.id} : orders'[i] = orders[i]
               /\ orders'[r.id].status # "none" /\ orders'[r.id].details = r.details
    <3>1. [status |-> s, details |-> r.details] \in [status : Statuses, details : {None} \cup Details]
      BY <1>1 DEF Statuses
    <3>2. s # "none"
      BY DEF Ended
    <3>3. QED
      BY <1>1, <2>2, <3>1, <3>2 DEF AttemptTypeOK
  <2>3. QED
    BY <2>1, <2>2 DEF CreateArrives
<1>4. \A i \in Ids : i # r.id => (Status(i)' = Status(i))
  BY <1>3 DEF Status
<1>5. OpenIds' \subseteq OpenIds
  <2> SUFFICES ASSUME NEW i \in OpenIds' PROVE i \in OpenIds
    OBVIOUS
  <2>1. i \in Ids
    BY DEF OpenIds
  <2>2. CASE i = r.id
    BY <1>2, <1>3, <2>1, <2>2 DEF OpenIds, Status
  <2>3. CASE i # r.id
    BY <1>1, <1>4, <2>1, <2>3 DEF OpenIds
  <2>4. QED
    BY <2>2, <2>3
<1>6. \/ submission' = submission
      \/ /\ submission # None /\ submission.stage = "asking" /\ submission.id = r.id
         /\ \E a \in {"none", "url", "refused"} :
               /\ submission' = [submission EXCEPT !.answer = a]
               /\ a = "refused" /\ Status(r.id) = "none" => orders' = orders
  BY DEF CreateArrives, Reply
<1>7. AttemptTypeOK'
  <2>1. submission' \in {None} \cup Submissions
    BY <1>6 DEF AttemptTypeOK, Submissions
  <2>2. QED
    BY <1>1, <1>3, <2>1 DEF AttemptTypeOK
<1>8. Numbered'
  <2>1. \A i \in Ids : i > drawn => i # r.id
    BY <1>1 DEF Numbered, AttemptTypeOK, Ids
  <2>2. QED
    BY <1>1, <1>4, <2>1 DEF Numbered
<1>9. SameDetails'
  <2>1. \A i \in Ids : Status(i)' = "none" => orders'[i].details = None
    BY <1>3 DEF SameDetails, Status
  <2>2. \A q \in net' : orders'[q.id].details \in {None, q.details}
    BY <1>1, <1>2, <1>3 DEF SameDetails
  <2>3. stored # None => orders'[stored.id].details \in {None, stored.details}
    BY <1>1, <1>3 DEF SameDetails, AttemptTypeOK, Attempts
  <2>4. QED
    BY <1>1, <2>1, <2>2, <2>3 DEF SameDetails
<1>10. StoredIsTrue'
  <2>1. stored # None => stored.id \in Ids
    BY DEF AttemptTypeOK, Attempts
  <2>2. QED
    BY <1>1, <1>4, <1>5, <2>1 DEF StoredIsTrue
<1>11. FirstIsOnly'
  <2> SUFFICES ASSUME submission' # None, submission'.stage = "asking", submission'.first
               PROVE  /\ \A q \in net' : q.id = submission'.id => Status(q.id)' = "none"
                      /\ submission'.answer = "refused" => submission'.id \notin OpenIds'
    BY DEF FirstIsOnly
  <2>1. /\ submission # None /\ submission \in Submissions /\ submission.stage = "asking"
        /\ submission.first /\ submission'.id = submission.id
    BY <1>6 DEF AttemptTypeOK, Submissions
  <2>2. /\ \A q \in net : q.id = submission.id => Status(q.id) = "none"
        /\ submission.answer = "refused" => submission.id \notin OpenIds
    BY <2>1 DEF FirstIsOnly
  <2>3. \A q \in net' : q.id = submission'.id => Status(q.id)' = "none"
    BY <1>1, <1>2, <1>4, <2>1, <2>2
  <2>4. submission'.answer = "refused" => submission'.id \notin OpenIds'
    <3>1. CASE submission' = submission
      BY <1>5, <2>2, <3>1
    <3>2. ASSUME submission.id = r.id, orders' = orders
          PROVE  submission'.id \notin OpenIds'
      BY <1>1, <1>2, <2>1, <2>2, <3>2 DEF OpenIds, Status
    <3>3. QED
      BY <1>1, <1>6, <2>1, <2>2, <3>1, <3>2 DEF Submissions
  <2>5. QED
    BY <2>3, <2>4
<1>12. OpenAttemptIsKept' /\ EndIsTrue'
  BY <1>1, <1>5 DEF OpenAttemptIsKept, EndIsTrue
<1>13. QED
  BY <1>7, <1>8, <1>9, <1>10, <1>11, <1>12

\* A first request: of an id nothing has been heard of, while nothing is open.
LEMMA FirstSent ==
  ASSUME AttemptKept, NEW record \in Attempts, NEW replay \in BOOLEAN,
         drawn' \in Nat, drawn' >= drawn, record.id <= drawn', orders' = orders,
         Status(record.id) = "none", \A r \in net : r.id # record.id, OpenIds = {},
         stored' = [record EXCEPT !.stage = "submitted"],
         net' = net \cup {[id |-> record.id, details |-> record.details]},
         submission' = Running(record, replay, TRUE, "asking"),
         told' = told, told.kind \notin {"cancelled", "refused"}
  PROVE  AttemptKept'
<1> USE AttemptAssumption DEF AttemptKept
<1> DEFINE new == [id |-> record.id, details |-> record.details]
<1>1. record.id \in Ids /\ record.details \in Details /\ new.id = record.id /\ new.details = record.details
  BY DEF Attempts
<1>2. /\ stored' \in Attempts /\ stored'.id = record.id /\ stored'.details = record.details
      /\ stored'.stage = "submitted"
  BY DEF Attempts
<1>3. /\ submission' \in Submissions /\ submission'.id = record.id /\ submission'.answer = "none"
  BY <1>1 DEF Running, Submissions
<1>4. /\ net' = net \cup {new}
      /\ \A r \in net : r \in [id : Ids, details : Details] /\ r.id \in Ids
      /\ \A i : Status(i)' = Status(i)
  BY DEF AttemptTypeOK, Status
<1> HIDE DEF new
<1>5. OpenIds' \subseteq {record.id}
  BY <1>1, <1>4 DEF OpenIds
<1>6. new \in [id : Ids, details : Details]
  BY <1>1 DEF new
<1>7. AttemptTypeOK'
  BY <1>2, <1>3, <1>4, <1>6 DEF AttemptTypeOK
<1>8. Numbered'
  <2>1. drawn \in Nat /\ \A i \in Ids : i \in Nat
    BY DEF AttemptTypeOK, Ids
  <2>2. \A r \in net' : r.id <= drawn'
    BY <1>1, <1>4, <2>1 DEF Numbered
  <2>3. \A i \in Ids : i > drawn' => i > drawn
    BY <2>1
  <2>4. QED
    BY <1>2, <1>4, <2>2, <2>3 DEF Numbered
<1>9. SameDetails'
  <2>1. orders[record.id].details = None
    BY <1>1 DEF SameDetails
  <2>2. \A r, q \in net' : r.id = q.id => r.details = q.details
    BY <1>1, <1>4 DEF SameDetails
  <2>3. \A r \in net' : orders[r.id].details \in {None, r.details}
    BY <1>1, <1>4, <2>1 DEF SameDetails
  <2>4. \A r \in net' : r.id = record.id => r.details = record.details
    BY <1>1, <1>4
  <2>5. QED
    BY <1>2, <1>4, <2>1, <2>2, <2>3, <2>4 DEF SameDetails
<1>10. StoredIsTrue'
  BY <1>2 DEF StoredIsTrue
<1>11. FirstIsOnly'
  BY <1>3, <1>4 DEF FirstIsOnly
<1>12. OpenAttemptIsKept' /\ EndIsTrue'
  BY <1>2, <1>5 DEF OpenAttemptIsKept, EndIsTrue
<1>13. QED
  BY <1>7, <1>8, <1>9, <1>10, <1>11, <1>12

\* A repetition: of the record, for an order that is there.
LEMMA RepetitionSent ==
  ASSUME AttemptKept, stored # None, Status(stored.id) # "none", stored.stage # "rejected",
         NEW replay \in BOOLEAN, UNCHANGED <<drawn, told>>, orders' = orders,
         stored' = [stored EXCEPT !.stage = "submitted"],
         net' = net \cup {[id |-> stored.id, details |-> stored.details]},
         submission' = Running(stored, replay, FALSE, "asking")
  PROVE  AttemptKept'
<1> USE AttemptAssumption DEF AttemptKept
<1> DEFINE new == [id |-> stored.id, details |-> stored.details]
<1>1. /\ stored \in Attempts /\ stored.id \in Ids /\ stored.details \in Details
      /\ new.id = stored.id /\ new.details = stored.details
  BY DEF AttemptTypeOK, Attempts
<1>2. /\ stored' \in Attempts /\ stored' # None /\ stored'.id = stored.id
      /\ stored'.details = stored.details /\ stored'.stage = "submitted"
  BY <1>1 DEF Attempts
<1>3. submission' \in Submissions /\ submission'.first = FALSE
  BY <1>1 DEF Running, Submissions
<1>4. /\ net' = net \cup {new}
      /\ \A r \in net : r \in [id : Ids, details : Details] /\ r.id \in Ids
      /\ \A i : Status(i)' = Status(i)
  BY DEF AttemptTypeOK, Status
<1> HIDE DEF new
<1>5. OpenIds' \subseteq OpenIds
  BY <1>1, <1>4 DEF OpenIds
<1>6. new \in [id : Ids, details : Details]
  BY <1>1 DEF new
<1>7. AttemptTypeOK'
  BY <1>2, <1>3, <1>4, <1>6 DEF AttemptTypeOK
<1>8. Numbered'
  <2>1. drawn \in Nat /\ \A i \in Ids : i \in Nat
    BY DEF AttemptTypeOK, Ids
  <2>2. \A r \in net' : r.id <= drawn
    BY <1>1, <1>4 DEF Numbered
  <2>3. QED
    BY <1>2, <1>4, <2>2 DEF Numbered
<1>9. SameDetails'
  <2>1. \A r, q \in net' : r.id = q.id => r.details = q.details
    BY <1>1, <1>4 DEF SameDetails
  <2>2. \A r \in net' : orders[r.id].details \in {None, r.details}
    BY <1>1, <1>4 DEF SameDetails
  <2>3. \A r \in net' : r.id = stored.id => r.details = stored.details
    BY <1>1, <1>4 DEF SameDetails
  <2>4. QED
    BY <1>1, <1>2, <1>4, <2>1, <2>2, <2>3 DEF SameDetails
<1>10. StoredIsTrue' /\ FirstIsOnly'
  BY <1>2, <1>3 DEF StoredIsTrue, FirstIsOnly
<1>11. OpenAttemptIsKept' /\ EndIsTrue'
  BY <1>2, <1>5 DEF OpenAttemptIsKept, EndIsTrue
<1>12. QED
  BY <1>7, <1>8, <1>9, <1>10, <1>11

\* A number is drawn, and the write that should have said so fails, wholly or after
\* the attempt was prepared.
LEMMA NothingSent ==
  ASSUME AttemptKept, stored = None, NEW record \in Attempts, record.stage = "prepared",
         record.id = drawn + 1, drawn' = drawn + 1, stored' \in {record, stored},
         UNCHANGED <<net, told>>, orders' = orders, submission' = None
  PROVE  AttemptKept'
<1> USE AttemptAssumption DEF AttemptKept
<1>1. /\ drawn \in Nat /\ drawn' \in Nat /\ record.id > drawn /\ record.id <= drawn'
      /\ \A i \in Ids : i \in Nat /\ (i > drawn' => i > drawn)
  BY DEF AttemptTypeOK, Ids
<1>2. record.id \in Ids
  BY DEF Attempts
<1>3. /\ \A i : Status(i)' = Status(i)
      /\ OpenIds' = OpenIds
      /\ \A r \in net : r.id \in Ids
  BY DEF OpenIds, Status, AttemptTypeOK
<1>4. Status(record.id) = "none" /\ orders[record.id].details = None /\ \A r \in net : r.id # record.id
  BY <1>1, <1>2, <1>3 DEF Numbered, SameDetails
<1>5. AttemptTypeOK' /\ FirstIsOnly'
  BY <1>1 DEF AttemptTypeOK, FirstIsOnly
<1>6. Numbered'
  BY <1>1, <1>3 DEF Numbered
<1>7. SameDetails' /\ StoredIsTrue'
  BY <1>3, <1>4 DEF SameDetails, StoredIsTrue
<1>8. OpenAttemptIsKept' /\ EndIsTrue'
  BY <1>3 DEF OpenAttemptIsKept, EndIsTrue
<1>9. QED
  BY <1>5, <1>6, <1>7, <1>8

LEMMA SubmitKeepsAttempt ==
  ASSUME AttemptKept, NEW d \in Details, NEW replay \in BOOLEAN, Submit(d, replay)
  PROVE  AttemptKept'
<1> USE AttemptAssumption
<1>1. submission = None /\ orders' = orders /\ told.kind \notin {"cancelled", "refused"}
  BY DEF Submit, Offered
<1>2. drawn \in Nat /\ OrdersMove /\ (UNCHANGED net => OpenIds' = OpenIds)
  BY <1>1, OrdersStay DEF AttemptKept, AttemptTypeOK
<1> DEFINE fresh == [id |-> drawn + 1, details |-> d, stage |-> "prepared"]
<1>3. CASE /\ stored = None /\ drawn < MaxAttempts /\ drawn' = drawn + 1
           /\ SendRequest(fresh, replay, TRUE) /\ told' = told
  <2>1. /\ fresh \in Attempts /\ fresh.id = drawn + 1 /\ fresh.stage = "prepared"
        /\ drawn' \in Nat /\ drawn' >= drawn /\ fresh.id <= drawn'
    BY <1>2, <1>3 DEF Attempts, Ids
  <2>2. Status(drawn + 1) = "none" /\ \A r \in net : r.id # drawn + 1
    <3>1. drawn + 1 \in Ids /\ drawn + 1 > drawn /\ \A i \in Ids : i <= drawn => i # drawn + 1
      BY <1>2, <1>3 DEF Ids
    <3>2. \A r \in net : r.id \in Ids
      BY DEF AttemptKept, AttemptTypeOK
    <3>3. QED
      BY <3>1, <3>2 DEF AttemptKept, Numbered
  <2>3. OpenIds = {}
    BY <1>3 DEF AttemptKept, OpenAttemptIsKept
  <2> HIDE DEF fresh
  <2>4. CASE /\ Write([fresh EXCEPT !.stage = "submitted"])
             /\ net' = net \cup {[id |-> fresh.id, details |-> fresh.details]}
             /\ submission' = Running(fresh, replay, TRUE, "asking")
    BY <1>1, <1>3, <2>1, <2>2, <2>3, <2>4, FirstSent DEF Write
  <2>5. CASE (Write(fresh) \/ Unwritten) /\ submission' = None /\ UNCHANGED net
    BY <1>1, <1>3, <2>1, <2>5, NothingSent DEF Write, Unwritten
  <2>6. QED
    BY <1>3, <2>4, <2>5 DEF SendRequest
<1>4. CASE stored # None /\ UNCHANGED <<stored, submission, drawn, net>>
           /\ (Tell([kind |-> "unknown", id |-> stored.id])
               \/ (stored.stage = "rejected" /\ Tell([kind |-> "refused", id |-> stored.id])))
  <2>1. told' = told \/ (told'.kind \in {"cancelled", "refused"} => told'.id \notin OpenIds')
    BY <1>2, <1>4 DEF Tell, AttemptKept, StoredIsTrue
  <2>2. QED
    BY <1>1, <1>2, <1>4, <2>1, PageMoves
<1>5. CASE /\ stored # None /\ stored.stage = "prepared" /\ SendRequest(stored, replay, TRUE)
           /\ told' = told /\ drawn' = drawn
  <2>1. /\ stored \in Attempts /\ Status(stored.id) = "none" /\ \A r \in net : r.id # stored.id
        /\ stored.id <= drawn
    BY <1>5 DEF AttemptKept, AttemptTypeOK, StoredIsTrue, Numbered
  <2>2. OpenIds = {}
    BY <2>1 DEF AttemptKept, OpenAttemptIsKept, OpenIds
  <2>3. drawn' \in Nat /\ drawn' >= drawn /\ stored.id <= drawn'
    BY <1>2, <1>5, <2>1
  <2>4. CASE /\ Write([stored EXCEPT !.stage = "submitted"])
             /\ net' = net \cup {[id |-> stored.id, details |-> stored.details]}
             /\ submission' = Running(stored, replay, TRUE, "asking")
    BY <1>1, <1>5, <2>1, <2>2, <2>3, <2>4, FirstSent DEF Write
  <2>5. CASE (Write(stored) \/ Unwritten) /\ submission' = None /\ UNCHANGED net
    BY <1>1, <1>2, <1>5, <2>5, PageMoves DEF Write, Unwritten
  <2>6. QED
    BY <1>5, <2>4, <2>5 DEF SendRequest
<1>6. CASE /\ stored # None /\ UNCHANGED <<stored, drawn, net, told>>
           /\ submission' = Running(stored, replay, FALSE, "checking")
  <2>1. submission' \in Submissions /\ submission'.stage = "checking"
    BY <1>6 DEF Running, Submissions, Attempts, AttemptKept, AttemptTypeOK
  <2>2. \A i : Status(i)' = Status(i)
    BY <1>1 DEF Status
  <2>3. QED
    BY <1>1, <1>2, <1>6, <2>1, <2>2
       DEF AttemptKept, AttemptTypeOK, Numbered, SameDetails, StoredIsTrue, FirstIsOnly,
           OpenAttemptIsKept, EndIsTrue
<1>7. QED
  BY <1>1, <1>3, <1>4, <1>5, <1>6 DEF Submit

LEMMA CheckKeepsAttempt ==
  ASSUME AttemptKept, CheckBeforeReplay
  PROVE  AttemptKept'
<1> USE AttemptAssumption
<1>1. UNCHANGED drawn /\ orders' = orders
  BY DEF CheckBeforeReplay
<1>2. OrdersMove /\ (UNCHANGED net => OpenIds' = OpenIds)
  BY <1>1, OrdersStay
<1>3. PICK answer \in Answers(submission.id) :
        IF answer.kind = "order" /\ answer.status = "processing" /\ submission.replay
        THEN /\ UNCHANGED told
             /\ IF stored # None /\ stored.id = submission.id /\ stored.stage # "rejected"
                THEN SendRequest(stored, TRUE, FALSE)
                ELSE submission' = None /\ UNCHANGED <<stored, marker, net>>
        ELSE submission' = None /\ Tell(answer) /\ UNCHANGED <<stored, marker, net>>
  BY DEF CheckBeforeReplay
<1>4. CASE submission' = None /\ UNCHANGED <<stored, net>> /\ (told' = told \/ told' = answer)
  <2>1. answer.kind \in {"unknown", "order"}
    BY DEF Answers
  <2>2. QED
    BY <1>1, <1>2, <1>4, <2>1, PageMoves
<1>5. CASE /\ answer.kind = "order" /\ UNCHANGED told /\ stored # None
           /\ stored.id = submission.id /\ stored.stage # "rejected" /\ SendRequest(stored, TRUE, FALSE)
  <2>1. Status(stored.id) # "none"
    BY <1>5 DEF Answers
  <2>2. CASE /\ Write([stored EXCEPT !.stage = "submitted"])
             /\ net' = net \cup {[id |-> stored.id, details |-> stored.details]}
             /\ submission' = Running(stored, TRUE, FALSE, "asking")
    BY <1>1, <1>5, <2>1, <2>2, RepetitionSent DEF Write
  <2>3. CASE (Write(stored) \/ Unwritten) /\ submission' = None /\ UNCHANGED net
    BY <1>1, <1>2, <1>5, <2>3, PageMoves DEF Write, Unwritten
  <2>4. QED
    BY <1>5, <2>2, <2>3 DEF SendRequest
<1>6. QED
  BY <1>3, <1>4, <1>5 DEF Tell

\* Only the refusal of the first request is written down as the attempt's.
LEMMA AnswerKeepsAttempt ==
  ASSUME AttemptKept, Answered
  PROVE  AttemptKept'
<1> USE AttemptAssumption
<1>1. /\ submission # None /\ submission.stage = "asking" /\ submission' = None
      /\ UNCHANGED <<drawn, net>> /\ orders' = orders
  BY DEF Answered
<1>2. OrdersMove /\ OpenIds' = OpenIds
  BY <1>1, OrdersStay
<1>3. CASE UNCHANGED stored /\ (told' = told \/ told'.kind \in {"hosted", "unknown"})
  BY <1>1, <1>2, <1>3, PageMoves
<1>4. CASE /\ submission.answer = "refused" /\ submission.first /\ stored # None
           /\ stored.id = submission.id /\ stored' = [stored EXCEPT !.stage = "rejected"]
           /\ Tell([kind |-> "refused", id |-> submission.id])
  <2>1. submission.id \notin OpenIds
    BY <1>1, <1>4 DEF AttemptKept, FirstIsOnly
  <2>2. /\ stored' \in Attempts /\ stored'.id = stored.id /\ stored'.details = stored.details
        /\ stored'.stage = "rejected"
    BY <1>4 DEF AttemptKept, AttemptTypeOK, Attempts
  <2>3. \A i : Status(i)' = Status(i)
    BY <1>1 DEF Status
  <2>4. AttemptTypeOK' /\ Numbered' /\ SameDetails'
    BY <1>1, <1>4, <2>2, <2>3 DEF AttemptKept, AttemptTypeOK, Numbered, SameDetails
  <2>5. StoredIsTrue' /\ FirstIsOnly' /\ OpenAttemptIsKept' /\ EndIsTrue'
    BY <1>1, <1>2, <1>4, <2>1, <2>2
       DEF AttemptKept, StoredIsTrue, FirstIsOnly, OpenAttemptIsKept, EndIsTrue, Tell
  <2>6. QED
    BY <2>4, <2>5 DEF AttemptKept
<1>5. QED
  BY <1>3, <1>4 DEF Answered, Tell, Write

\* However answers are lost or late, pages reloaded, cancellations and repetitions
\* raced (submitCheckoutAttempt, cancelCheckoutAttempt): the tab keeps the attempt
\* whose order may still be paid, says it is over only when it is, and repeats it as
\* it was.
THEOREM AttemptIsKept == CheckoutAttemptSpec => []AttemptInvariant
<1>1. CheckoutInit => AttemptKept
  BY InitAttemptKept
<1>2. AttemptKept /\ [CheckoutAttemptNext]_checkoutVars => AttemptKept'
  <2>1. AttemptKept /\ UNCHANGED checkoutVars => AttemptKept'
    BY OrdersStay, PageMoves DEF checkoutVars
  <2>2. AttemptKept /\ CheckoutAttemptNext => AttemptKept'
    BY SubmitKeepsAttempt, CheckKeepsAttempt, AnswerKeepsAttempt, PageKeepsAttempt,
       OrdersKeepAttempt, ArrivalKeepsAttempt DEF CheckoutAttemptNext
  <2>3. QED
    BY <2>1, <2>2
<1>3. AttemptKept => AttemptInvariant
  BY DEF AttemptKept, AttemptInvariant, SameDetails, ReplayIsSame
<1>4. QED
  BY <1>1, <1>2, <1>3, PTL DEF CheckoutAttemptSpec

=============================================================================
